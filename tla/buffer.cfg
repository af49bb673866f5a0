SPECIFICATION FairSpec
CONSTANTS
  p1 = p1
  p2 = p2
  p3 = p3
  Packets = {p1, p2, p3}
  NoPacket = NoPacket
  Size <- EqualSizes
  WcacheSize = 10
  DramSize = 12
  BurstSize = 2
  AtomicOpLength = 2
  DelayedChannel = TRUE
  Wrap = 16
  ArbAlgorithm = "CLASSICALWRR"
  WriteWeight = 2
  ReadWeight = 3
INVARIANTS TypeOK OneEventChain StopFlagDiscipline OnePlace MemoriesAccounted DramNeverOverflows
PROPERTIES CancelledWriteStops AskedIsFetched
