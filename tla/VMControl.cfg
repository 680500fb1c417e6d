SPECIFICATION Spec
CONSTANTS
  N = 5
  Reserved = 1
  NIL = NIL
  Imm = {}
  Code = NIL
  Globals = {1}
  MaxArgs = 2
  OneShot = TRUE
  Program = {"variables", "calls", "jumps", "closures", "closure_calls", "continuations"}
VIEW Observable
INVARIANTS TypeOK LiveNotFree FreeListSound FramesIntact TemporariesPrivate
PROPERTY HSpec
CHECK_DEADLOCK FALSE
