SPECIFICATION Spec
CONSTANTS
  V = 6
  Object = {o1, o2, o3}
  Nothing = Nothing
  Lengths = {3}
  Bytes = {1}
  MaxHeld = 3
INVARIANTS TypeOK BlocksSound
PROPERTIES KeepsContents SpaceReclaimed NewVectorReturns
