SPECIFICATION ControlSpec
CONSTANTS
    None = None
    Mistyped = Mistyped
    StrongTokens = {"strong-control-token"}
    Offices <- AliasLost
PROPERTY AliasesKept
CHECK_DEADLOCK FALSE
