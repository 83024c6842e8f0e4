SPECIFICATION FairSpec
CONSTANTS
  TicksPerSecond = 2
  Delays <- UpToSecond
  IntLimit = 2
  MaxTimers = 3
  MaxClock = 4
  MaxAdjustments = 2
INVARIANT TypeOK
INVARIANT NoTimerLost
INVARIANT NewTimersWait
INVARIANT SkewFiresAll
INVARIANT NeverOversleeps
PROPERTY GoneForGood
PROPERTY EveryTimerServed
