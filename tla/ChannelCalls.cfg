CONSTANTS
  host = host
  core = core
  NoThread = NoThread
  NoByte = NoByte
  Threads <- MCThreads
  NSlots = 1
  Capacity = 1
  Payloads <- MCPlain
  MaxCount = 2
  MaxCreates = 2
  GenMod = 3
  Bytes = {1}
SPECIFICATION FairSpec
INVARIANTS NoAliasing SlotsReclaimed NoLostWakeup
PROPERTIES CloseUnblocks EveryCallReturns
