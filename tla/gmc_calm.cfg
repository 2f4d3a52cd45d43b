\* Users wait until the controller has settled and the caches are up to date.
CONSTANTS
  g1 = g1
  root = root
  sub = sub
  embed = embed
  rerank = rerank
  web = web
  toSub = toSub
  cm = cm
  dEmbed = dEmbed
  dRerank = dRerank
  dRouter = dRouter
  None = None
  Graphs = {g1}
  Nodes = {root, sub}
  Steps = {embed, rerank, web, toSub}
  External = {web}
  Nested = {toSub}
  Resources = {cm, dEmbed, dRerank, dRouter}
  Deployments = {dRerank, dRouter}
  Surging = {dRouter}
  Unusable = {}
  Manifest <- MCManifest
  SpecsOf <- MCSpecsOf
  Faults = {"apply"}
  EagerUser = FALSE
  PromptInformers = TRUE
  MaxEdits = 3
  MaxFaults = 1
  MaxFlips = 3
  MaxRestarts = 1
  MaxLag = 1
SPECIFICATION Spec
CHECK_DEADLOCK FALSE
INVARIANTS
  SettledExact
  SettledRecorded
  SettledReady
