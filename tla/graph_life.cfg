\* Every accepted graph of the pool is expanded with failing calls and then used.
SPECIFICATION LifeSpec
CONSTANTS
    None = None
    NoKey = NoKey
    NoRequest = NoRequest
    stepNames <- MCStepNames
    Root = "root"
    Template <- MCTemplate
    Specs <- MCSpecs
    GraphNs = "ns"
    RouterName = "router-service"
    RouterPort = 8080
    MaxFaults = 1
    ServiceHeaders = {None, "d", "e"}
    Chats <- MCChats
    ClientFields <- MCClientFields
INVARIANTS
    LifeTypeOK
    RoutesResolve
    EndpointsResolve
    ServedUsable
    DataReaches
    PromptExact
PROPERTY UsableServed
CHECK_DEADLOCK FALSE
