SPECIFICATION FairSpec
CONSTANTS
  NClasses = 2
  Burst <- Bursts
  Mtu <- Mtus
  Rate <- Rates
  PeakRate <- PeakRates
  Den = 2
  Sizes = {1, 2}
  QueueBound = 2
  MaxAge = 4
INVARIANTS TypeOK RateIsKept WakeupPending
PROPERTIES EveryClassIsServed
