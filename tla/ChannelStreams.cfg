CONSTANTS
  host = host
  core = core
  NoThread = NoThread
  NoByte = NoByte
  Threads <- MCThreads
  NSlots = 1
  Capacity = 2
  Payloads <- MCDistinct
  MaxCount = 2
  MaxCreates = 1
  GenMod = 2
  Bytes = {1, 2}
SPECIFICATION Spec
INVARIANTS TypeOK ReadableWritten
PROPERTY PipeSpec
