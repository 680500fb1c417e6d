SPECIFICATION Spec
CONSTANTS
  Thread = {t1, t2, t3, t4}
  Main = Main
  False = False
  Pair = {p1, p2, p3, p4, p5}
INVARIANTS TypeOK ResumedOnce
PROPERTIES InTurn EveryoneRuns
CHECK_DEADLOCK FALSE
