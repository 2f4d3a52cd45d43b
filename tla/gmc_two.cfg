\* A graph that cannot be reconciled beside one that can.
CONSTANTS
  g1 = g1
  g2 = g2
  root = root
  good = good
  broken = broken
  dGood = dGood
  cmBroken = cmBroken
  dBroken = dBroken
  dRouter1 = dRouter1
  dRouter2 = dRouter2
  None = None
  Graphs = {g1, g2}
  Nodes = {root}
  Steps = {good, broken}
  External = {}
  Nested = {}
  Resources = {dGood, cmBroken, dBroken, dRouter1, dRouter2}
  Deployments = {dGood, dBroken}
  Surging = {}
  Unusable = {dBroken}
  Manifest <- MCManifest
  SpecsOf <- MCSpecsOf
  Faults = {"apply", "delete", "status"}
  EagerUser = TRUE
  PromptInformers = FALSE
  MaxEdits = 3
  MaxFaults = 1
  MaxFlips = 0
  MaxRestarts = 1
  MaxLag = 1
SPECIFICATION FairSpec
CHECK_DEADLOCK FALSE
INVARIANTS
  ServedInv
PROPERTIES
  OthersServed
