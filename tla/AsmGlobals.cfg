SPECIFICATION MSpec
CONSTANTS
  Sources = {}
  Promised = {}
  Counts = {0}
  Plain <- AllGlobals
  Data = {}
  Pushes = 0
  FilePushes = 0
  FileReferences = 0
  FileLengths = {}
  Label = {A}
  Kinds = {"jump-toplevel"}
  Gaps = {0}
  Distances = {0}
  Length = 2
  Trailing = 1
INVARIANT PlainDecoded
CHECK_DEADLOCK FALSE
