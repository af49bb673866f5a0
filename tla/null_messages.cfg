SPECIFICATION FairSpec
CONSTANTS
  a = a
  b = b
  c = c
  Tasks = {a, b, c}
  Channels <- Row
  ChannelDelay <- RowDelay
  BundleDelay <- RowBundles
  NullDelay <- RowBundles
  TxTimes = {1}
  TimerDelays = {1}
  MessageBound = 4
  WorkBound <- Work
  FirstEvents <- OneEvent
  StopTime = 6
INVARIANTS GuaranteeIsKept Causality
PROPERTIES AllStop
CHECK_DEADLOCK FALSE
