\* Files that cannot be read and a lost plugin, beside a container of a whitelisted namespace.
SPECIFICATION FairSpec
CONSTANTS
  Containers = {new, sys}
  Started = {sys}
  Unstarted = {}
  Whitelisted = {sys}
  Annotated = {}
  Metrics = {"mb", "llc", "cpu", "memory"}
  ChanSize = 2
  MonTimes = 1
  MaxCrashes = 0
  MaxGlitches = 2
  MaxDisconnects = 1
  MaxRaces = 0
  MaxLate = 1
INVARIANTS
  CollectorTypeOK
  OrphanSwept
PROPERTIES
  StopForgets
CHECK_DEADLOCK FALSE
