CONSTANTS
    Addrs <- MCAddrs
    Names <- MCNames
    Users = {"u1", "u2"}
    Scenarios <- MCScenarios
    Retries = 2
    MaxServers = 5
SPECIFICATION Spec
CHECK_DEADLOCK FALSE
INVARIANTS
    ServersAreKept
PROPERTIES
    StrangersStayOut
    WaitersAreWoken
