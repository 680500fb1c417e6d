SPECIFICATION Spec
CONSTANTS
  V = 6
  Object = {o1, o2, o3}
  Nothing = Nothing
  Lengths = {1, 4}
  Bytes = {1}
  MaxHeld = 3
INVARIANT FreeSpaceAtEnd
CHECK_DEADLOCK FALSE
