SPECIFICATION ControlSpec
CONSTANTS
    None = None
    Mistyped = Mistyped
    StrongTokens = {"strong-control-token"}
    Offices <- MCControlOffices
INVARIANTS
    AcceptedStarts
    RestartChangesNothing
    SecretsKept
    LeaseExclusive
    BenchmarkSettled
CHECK_DEADLOCK FALSE
