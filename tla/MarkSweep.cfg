SPECIFICATION Spec
CONSTANTS
  N = 3
  Reserved = 1
  NIL = NIL
  Imm = {}
  Types = {"CONS", "CLOSURE", "VECTOR"}
  Registers = 1
INVARIANTS TypeOK GraphRecoverable MarkExact
PROPERTIES CollectsAtomically Terminates
CHECK_DEADLOCK FALSE
