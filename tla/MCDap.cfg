SPECIFICATION MCDapSpec
CONSTANTS
  Requests <- AllRequests
  InboxBound = 1
  Slice = 2
INVARIANTS TraceParity PlantedIsTracked EndsOnce NoticedWithinASlice
PROPERTIES OverStaysOut PlantedStopsSlices PauseTakesEffect DepartureEnds
CHECK_DEADLOCK FALSE
