\* Users edit at any time, informers lag, every call may fail, the manager restarts.
CONSTANTS
  g1 = g1
  root = root
  sub = sub
  embed = embed
  rerank = rerank
  web = web
  toSub = toSub
  cm = cm
  dEmbed = dEmbed
  dRerank = dRerank
  dRouter = dRouter
  None = None
  Graphs = {g1}
  Nodes = {root, sub}
  Steps = {embed, rerank, web, toSub}
  External = {web}
  Nested = {toSub}
  Resources = {cm, dEmbed, dRerank, dRouter}
  Deployments = {dRerank}
  Surging = {}
  Unusable = {}
  Manifest <- MCManifest
  SpecsOf <- MCSpecsOf
  Faults = {"apply", "delete", "status"}
  EagerUser = TRUE
  PromptInformers = FALSE
  MaxEdits = 2
  MaxFaults = 1
  MaxFlips = 1
  MaxRestarts = 1
  MaxLag = 1
SPECIFICATION RoutedFairSpec
CHECK_DEADLOCK FALSE
INVARIANTS
  TypeOK
  RecordsWanted
  StatusParses
  SettledComplete
  RouterBacked
PROPERTIES
  EventuallySettles
