\* Two requests through a Sequence with a nested Switch, every kind of request and answer.
CONSTANTS
  q1 = q1
  q2 = q2
  root = root
  switch = switch
  team = team
  models = models
  undefined = undefined
  none = none
  small = small
  dog = dog
  always = always
  NoNode = none
  Always = always
  Root = root
  Nodes = {root, switch}
  NodeNames = {root, switch, undefined}
  StepNames <- AllNames
  Conditions = {small, dog}
  Requests = {q1, q2}
  RouterType <- ChatTypes
  StepsOf <- ChatSteps
  Inputs <- ChatInputs
  Answers <- ChatAnswers
  MaxGoroutines = 1
  MaxChunks = 1
  MayTimeOut = FALSE
SYMMETRY RequestSymmetry
SPECIFICATION RouterSpec
CHECK_DEADLOCK FALSE
INVARIANTS
  RouterTypeOK
  HardStops
  ChainsPrevious
  LastAnswers
  FailureReported
