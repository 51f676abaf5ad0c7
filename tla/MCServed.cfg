\* Two days of the graph and one fault; two datasets, one of which changes once, and one
\* failing step; networks of four stops.
SPECIFICATION ServedSpec
CONSTANTS
  None = None
  Datasets <- TwoDatasets
  Files <- TwoFiles
  Near <- NearPairs
  Manual <- ManualIds
  MaxFaults = 1
INVARIANTS RecordedIsUsed PlansAreBest
PROPERTIES TodayServed FillsDrain ReadersFollowFiles LinkedOnce
CHECK_DEADLOCK FALSE
