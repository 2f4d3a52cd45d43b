SPECIFICATION Spec
CONSTANTS
    Clients = {c1}
    Objects = {o1}
    NoGraph = NoGraph
    Idle = Idle
    None = None
    Graphs <- MCGraphs
    stepNames <- MCstepNames
    Root <- MCRoot
    MaxPods = 2
    MaxCrashes = 1
INVARIANT AdmissionTypeOK
PROPERTY StoreIsValidated
PROPERTY TrustedUnlessOrphaned
PROPERTY RequestsAnswered
