SPECIFICATION Spec
CONSTANTS
    Models = {"chat", "side", "big"}
    Requests = {r1, r2}
    Operators = {o1}
    Worker = Worker
    Nobody = Nobody
    NoModel = NoModel
    Setups <- ResidencySetups
    SessionKeys = {k1, k2}
    SessionModels = {"chat", "big"}
    Guards = {g1, g2}
    Chats = {c1, c2}
    MaxToken = 4
SYMMETRY Symmetry
INVARIANTS
    TypeOK
    SessionTypeOK
    HoldsMatchHolders
    TokensName
    LeaseSafe
    ParkedHasBlocker
    FlagsOwned
    VramWithinBudget
    SelectedIsResident
PROPERTIES
    BarrierHolds
    HeldSessionSurvives
