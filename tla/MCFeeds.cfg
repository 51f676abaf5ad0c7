\* Up to two VSTP and two Darwin messages, three in all, about two days of one train; a polled alert that
\* changes three times and a tracked one that changes twice, with one fault; two days and a half of the
\* cache; five ticks of a bus.
SPECIFICATION FeedsSpec
CONSTANTS
  Days = {1, 2}
  Paths <- TwoWays
  Imported <- AllStops
  Masks <- FirstDay
  MaxVstp = 2
  MaxDarwin = 2
  MaxMessages = 3
  None = None
  DayLength = 24
  Interval = 5
  Shift = 7
  MaxReload = 2
  Horizon = 60
INVARIANTS TrainsListed   TodaysSubscriptions 
  BoardShowsEstimates
 
CHECK_DEADLOCK FALSE
