SPECIFICATION FairSpec
CONSTANTS
    Node = {1, 2}
    Group = {"default", "system", "g"}
    Default = "default"
    System = "system"
    Provider = {"p"}
    NoGroup = "none"
    Lists <- MemberLists
    Request = {"r1", "r2"}
    Reviver = "reviver"
    Inspector = "inspector"
    Latency = {1}
    MaxProxyFailures = 2
    NetworkMaxAttempts = 2
    Alpha = 1
    Beta = 2
    Gamma = 3
    Start <- FirstList
    Budgets <- Scenarios
INVARIANTS GroupsSound ResponseOwned
PROPERTIES OnlyFaultsCount SwitchSurvives Revived
CHECK_DEADLOCK FALSE
