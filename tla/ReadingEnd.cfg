CONSTANTS
  Block = 2
  MaxSubsong = 1
  Length = 4
  SilenceLimit = 4
  SongLimit <- NoLimit
  SubsongLimit <- NoLimit
  ReadSizes = {3}
  SeekOffsets = {3}
  MaxCalls = 0
SPECIFICATION Spec
INVARIANT EndIsFinal
CHECK_DEADLOCK FALSE
