\* A Sequence with a nested Ensemble, timeouts.
CONSTANTS
  q1 = q1
  q2 = q2
  root = root
  switch = switch
  team = team
  models = models
  undefined = undefined
  none = none
  small = small
  dog = dog
  always = always
  NoNode = none
  Always = always
  Root = root
  Nodes = {root, team, models, switch}
  NodeNames = {root, team, models, switch}
  StepNames <- AllNames
  Conditions = {small, dog}
  Requests = {q1}
  RouterType <- TeamTypes
  StepsOf <- TeamSteps
  Inputs <- TeamInputs
  Answers <- TeamAnswers
  MaxGoroutines = 2
  MaxChunks = 2
  MayTimeOut = TRUE
SPECIFICATION RouterSpec
CHECK_DEADLOCK FALSE
INVARIANTS
  EnsembleComplete
