SPECIFICATION SwitchFairSpec
CONSTANTS
  p1 = p1
  p2 = p2
  p3 = p3
  p4 = p4
  Packets = {p1, p2, p3, p4}
  NoPacket = NoPacket
  Size <- Sizes
  WcacheSize = 8
  DramSize = 5
  BurstSize = 2
  AtomicOpLength = 2
  DelayedChannel = TRUE
  Wrap = 6
  ArbAlgorithm = "CLASSICALWRR"
  WriteWeight = 1
  ReadWeight = 1
  Queues <- OneQueue
  QueueOf <- AllInOne
  OnChipSize = 7
  BmAlgorithms = {"TDT"}
  AckLimit = 2
  DtAlpha = 2
  WredTh <- NoWred
  Hw <- NoHw
  EnableOnChipPdp = TRUE
  DevUnit = "PACKETS"
  DevLimit = 2
  Mtu = 5
  Quota = 4
INVARIANTS NoLeak
PROPERTIES QueueOrder AdmittedIsSent
