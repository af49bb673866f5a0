SPECIFICATION MmuFairSpec
CONSTANTS
  p1 = p1
  p2 = p2
  p3 = p3
  p4 = p4
  Packets = {p1, p2, p3, p4}
  NoPacket = NoPacket
  Size <- Sizes
  WcacheSize = 7
  DramSize = 5
  BurstSize = 2
  AtomicOpLength = 2
  DelayedChannel = TRUE
  Wrap = 8
  ArbAlgorithm = "INTERLEAVEDWRR"
  WriteWeight = 1
  ReadWeight = 1
  Queues <- TwoPriorities
  QueueOf <- AllButLast
  OnChipSize = 7
  BmAlgorithms = {"HW", "TDT", "BASELINE", "DEEPHIR"}
  AckLimit = 3
  DtAlpha = 1
  WredTh <- SomeWred
  Hw <- HwThresholds
  EnableOnChipPdp = TRUE
INVARIANTS MmuTypeOK OnlyBlindAdmissionsMisfit QueuesAccounted MemoriesCounted
PROPERTIES IsPacketBuffer
