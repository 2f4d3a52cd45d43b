\* Classes that come and go, and a scrape with or without filters.
SPECIFICATION FairSpec
CONSTANTS
  Classes = {gold, bronze}
  Requests = {r1}
  Enabled = {"class", "node"}
  Filters = {{}, {"class"}, {"container"}, {"node", "unknown"}}
  MaxRequests = 1
  MaxChanges = 2
INVARIANTS
  ScrapeTypeOK
  AnsweredComplete
PROPERTIES
  EveryScrapeEnds
  ClassesMeasured
