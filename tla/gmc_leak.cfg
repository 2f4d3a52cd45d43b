\* An edit arrives while the previous spec is being reconciled.
CONSTANTS
  g1 = g1
  root = root
  sub = sub
  embed = embed
  rerank = rerank
  web = web
  toSub = toSub
  cm = cm
  dEmbed = dEmbed
  dRerank = dRerank
  dRouter = dRouter
  None = None
  Graphs = {g1}
  Nodes = {root, sub}
  Steps = {embed, rerank, web, toSub}
  External = {web}
  Nested = {toSub}
  Resources = {cm, dEmbed, dRerank, dRouter}
  Deployments = {dRerank}
  Surging = {}
  Unusable = {}
  Manifest <- MCManifest
  SpecsOf <- MCSpecsOf
  Faults = {}
  EagerUser = TRUE
  PromptInformers = TRUE
  MaxEdits = 2
  MaxFaults = 0
  MaxFlips = 0
  MaxRestarts = 0
  MaxLag = 1
SPECIFICATION Spec
CHECK_DEADLOCK FALSE
INVARIANTS
  SettledExact
