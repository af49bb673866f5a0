SPECIFICATION FairSpec
CONSTANTS
  p1 = p1
  p2 = p2
  p3 = p3
  p4 = p4
  q1 = q1
  q2 = q2
  Packets = {p1, p2, p3, p4}
  NoPacket = NoPacket
  Size <- Sizes
  Queues = {q1, q2}
  QueueOf <- OneApart
  DevUnit = "BYTES"
  DevLimit = 8
  Mtu = 4
  Quota = 4
  FreshFlags = {FALSE}
  QdiscMayDrop = TRUE
  LinkMayFail = TRUE
INVARIANTS PortTypeOK NoLostWakeup NoStall PacketsAccounted SentIsFetched
PROPERTIES SentIsConsumed KeepsOrder StoredIsSent
CHECK_DEADLOCK FALSE
