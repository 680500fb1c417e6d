SPECIFICATION MSpec
CONSTANTS
  Sources = {}
  Promised = {}
  Counts = {0}
  Plain = {}
  Data = {}
  Pushes = 0
  FilePushes = 0
  FileReferences = 0
  FileLengths = {}
  Label = {A, B}
  Kinds = {"call-toplevel"}
  Gaps = {1, 62}
  Distances = {}
  Length = 6
  Trailing = 2
INVARIANT ReferencesReach
CHECK_DEADLOCK FALSE
