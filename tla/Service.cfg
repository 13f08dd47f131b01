SPECIFICATION FairSpec
CONSTANTS
    Models = {"chat", "side", "big"}
    Requests = {r1, r2}
    Operators = {o1}
    Worker = Worker
    Nobody = Nobody
    NoModel = NoModel
    Setups <- ServiceSetups
    SessionKeys = {}
    SessionModels = {}
    Guards = {}
    Chats = {}
    MaxToken = 0
PROPERTIES
    Served
    ServiceImplemented
