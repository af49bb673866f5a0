SPECIFICATION FairSpec
CONSTANTS
  NClasses = 2
  Burst <- Bursts
  Mtu <- Mtus
  Rate <- FastRates
  PeakRate <- NoPeak
  Den = 1
  Sizes = {1, 2}
  QueueBound = 2
  MaxAge = 2
PROPERTIES WakesLater
