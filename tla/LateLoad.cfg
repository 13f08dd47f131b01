SPECIFICATION Spec
CONSTANTS
    Models = {"chat", "side", "big"}
    Requests = {r1, r2}
    Operators = {o1}
    Worker = Worker
    Nobody = Nobody
    NoModel = NoModel
    Setups <- LateSetups
    SessionKeys = {}
    SessionModels = {}
    Guards = {}
    Chats = {}
    MaxToken = 0
SYMMETRY Symmetry
INVARIANT LeaseSafe
