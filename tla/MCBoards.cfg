\* A bus with two trackers and a train with two consumers, two observations of each, keys that expire at any
\* time, the cleaner and the map; four messages about the formation of a train; a graph of two days with one
\* fault; timetables of two trips over service days of six units.
SPECIFICATION BoardsSpec
CONSTANTS
  Buses = {b1}
  Trains = {r1}
  Trackers = {w1, w2}
  Observers = {o1, o2}
  MaxBusTime = 2
  MaxTrainTime = 2
  MaxAttempts = 2
  None = None
  NJourneys = 2
  Calls <- TwoCalls
  ServiceDays <- TwoRuns
  Stops <- TwoStops
  LastDay = 1
  Behind = 0
  Ahead = 0
  ScanBatch = 1
  Asked <- AskedKey
  MaxFaults = 1
  Nil = Nil
INVARIANTS ReadersAreToldTheFeeds PositionsFound GraphAnswersFully BoardsTellNext
CHECK_DEADLOCK FALSE
