SPECIFICATION Spec
CONSTANTS
  N = 4
  Reserved = 0
  NIL = NIL
  Imm = {K}
  Code = K
  Globals = {}
  MaxArgs = 1
  OneShot = TRUE
  Program = {"calls", "jumps", "closures", "closure_calls", "pairs", "continuations"}
VIEW Observable
INVARIANTS LiveNotFree FramesIntact
PROPERTY HSpec
CHECK_DEADLOCK FALSE
