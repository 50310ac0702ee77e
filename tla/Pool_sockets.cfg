CONSTANTS
    Sessions = {"s1", "s2"}
    Sockets = {1, 2, 3}
    Creds <- MCCreds
    Scenarios <- MCScenarios
SPECIFICATION Spec
CHECK_DEADLOCK FALSE
INVARIANTS
    SocketsAreKept
    RunsAsSession
    NoForgottenWaiter
