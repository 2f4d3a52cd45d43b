\* Two requests, parallel and nested calls, one permit, timeouts.
CONSTANTS
  q1 = q1
  q2 = q2
  root = root
  switch = switch
  team = team
  models = models
  undefined = undefined
  none = none
  small = small
  dog = dog
  always = always
  NoNode = none
  Always = always
  Root = root
  Nodes = {root, team}
  NodeNames = {root, team}
  StepNames <- AllNames
  Conditions = {small, dog}
  Requests = {q1, q2}
  RouterType <- PairTypes
  StepsOf <- PairSteps
  Inputs <- PairInputs
  Answers <- PairAnswers
  MaxGoroutines = 1
  MaxChunks = 1
  MayTimeOut = TRUE
SPECIFICATION FairRouterSpec
CHECK_DEADLOCK FALSE
PROPERTIES
  EveryRequestEnds
