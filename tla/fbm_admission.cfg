SPECIFICATION MmuSpec
CONSTANTS
  p1 = p1
  p2 = p2
  p3 = p3
  p4 = p4
  Packets = {p1, p2, p3, p4}
  NoPacket = NoPacket
  Size <- Sizes
  WcacheSize = 8
  DramSize = 10
  BurstSize = 2
  AtomicOpLength = 2
  DelayedChannel = FALSE
  Wrap = 16
  ArbAlgorithm = "CLASSICALWRR"
  WriteWeight = 1
  ReadWeight = 1
  Queues <- TwoPriorities
  QueueOf <- AllButLast
  OnChipSize = 8
  BmAlgorithms = {"TDT"}
  AckLimit = 2
  DtAlpha = 2
  WredTh <- NoWred
  Hw <- HwThresholds
  EnableOnChipPdp = TRUE
INVARIANT AdmissionFits
