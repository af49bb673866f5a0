SPECIFICATION Spec
CONSTANTS
  p1 = p1
  p2 = p2
  p3 = p3
  Packets = {p1, p2, p3}
  NoPacket = NoPacket
  Size <- MixedSizes
  WcacheSize = 7
  DramSize = 6
  BurstSize = 2
  AtomicOpLength = 2
  DelayedChannel = FALSE
  Wrap = 16
  ArbAlgorithm = "CLASSICALWRR"
  WriteWeight = 2
  ReadWeight = 3
INVARIANT DramNeverOverflows
