CONSTANTS
  Block = 2
  MaxSubsong = 1
  Length = 4
  SilenceLimit = 4
  SongLimit = 9
  SubsongLimit = 5
  ReadSizes = {3}
  SeekOffsets = {1, 3}
  MaxCalls = 2
SPECIFICATION FairSpec
INVARIANTS TypeOK PositionTrue EndComesLast
PROPERTIES HeardExactly ReadReturns EndTold
CHECK_DEADLOCK FALSE
