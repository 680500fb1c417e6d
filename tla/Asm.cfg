SPECIFICATION MSpec
CONSTANTS
  Sources <- Compiled
  Promised <- Promises
  Counts = {0, 255}
  Plain <- FewGlobals
  Data <- SomeData
  Pushes = 3
  FilePushes = 2
  FileReferences = 1
  FileLengths <- SomeLengths
  Label = {A, B}
  Kinds = {"jump-toplevel"}
  Gaps = {0, 13, 125}
  Distances <- SomeDistances
  Length = 5
  Trailing = 1
INVARIANTS CodeIsWhole PlainDecoded ConstantsRead ReferencesReach LoadsTheProgram MeaningKept RunsAsMeant LibraryKeepsPromise
PROPERTIES Assembles Halts
CHECK_DEADLOCK FALSE
