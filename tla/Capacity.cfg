SPECIFICATION Spec
CONSTANTS
    Models = {"chat", "side", "big"}
    Requests = {r1, r2, r3}
    Operators = {o1}
    Worker = Worker
    Nobody = Nobody
    NoModel = NoModel
    Setups <- CapacitySetups
    SessionKeys = {"k1"}
    SessionModels = {"chat"}
    Guards = {g1}
    Chats = {c1}
    MaxToken = 1
SYMMETRY Symmetry
INVARIANTS
    CountsMatch
    NativeSerialized
    PoolWithinLimit
PROPERTY VoiceFirst
