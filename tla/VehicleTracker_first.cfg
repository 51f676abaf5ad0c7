\* Two consumers and the first observations of a LocalID.
SPECIFICATION Spec
CONSTANTS
  gtfsID = gtfsID
  siriID = siriID
  trip1 = trip1
  None = None
  NA = NA
  Consumers = {c1, c2}
  Observations <- Two
  Feed <- OneSource
  Locals <- LocalIDs
  Journeys <- JourneyIDs
  BatchSize = 2
  Known <- NoKnown
  MaxFaults = 0
INVARIANTS AdmissionNewer
CHECK_DEADLOCK FALSE
