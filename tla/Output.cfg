CONSTANTS
  Frame = 2
  Block = 4
  SndSize = 6
  Burst = 2
  SizeBytes = 1
  CommandBytes = 1
  Filters = {"on", "off"}
  MaxCommands = 2
  MaxEnds = 2
  ReadSizes = {3}
  Numbers = 3
  Junk = Junk
  Unknown = Unknown
SPECIFICATION FairSpec
INVARIANTS TypeOK BuffersBounded EndsAtTail StashInOrder
PROPERTIES FilterFollows FifosAreQueues EndCompletesBlock
