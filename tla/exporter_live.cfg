\* One container, created at any time, and an exporter that may die once.
SPECIFICATION FairSpec
CONSTANTS
  Containers = {new}
  Started = {}
  Unstarted = {}
  Whitelisted = {}
  Annotated = {}
  Metrics = {"mb", "llc", "cpu", "memory"}
  ChanSize = 3
  MonTimes = 3
  MaxCrashes = 1
  MaxGlitches = 0
  MaxDisconnects = 0
  MaxRaces = 2
  MaxLate = 0
INVARIANTS
  WatchedKept
PROPERTIES
  RunningObserved
  ThreadsMonitored
  RatesCorrected
CHECK_DEADLOCK FALSE
