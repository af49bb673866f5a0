SPECIFICATION Spec
CONSTANTS
  p1 = p1
  p2 = p2
  p3 = p3
  p4 = p4
  q1 = q1
  q2 = q2
  Packets = {p1, p2, p3}
  NoPacket = NoPacket
  Size <- Sizes
  Queues = {q1, q2}
  QueueOf <- OneApart
  DevUnit = "PACKETS"
  DevLimit = 2
  Mtu = 4
  Quota = 4
  FreshFlags = {FALSE, TRUE}
  QdiscMayDrop = FALSE
  LinkMayFail = FALSE
INVARIANT SentIsFetched
