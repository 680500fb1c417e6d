SPECIFICATION Spec
CONSTANTS
  N = 5
  Reserved = 1
  NIL = NIL
  Imm = {}
  Code = NIL
  Globals = {0}
  MaxArgs = 0
  OneShot = FALSE
  Program = {"variables", "calls", "continuations"}
INVARIANT PopOk
CHECK_DEADLOCK FALSE
