SPECIFICATION Spec
CONSTANTS
    NoPattern = NoPattern
    NoKey = NoKey
    NoOut = NoOut
    NoResp = NoResp
    NonTokens = {"X Key"}
    MaxDecodes = 4
    Servers <- StreamServers
    Requests <- StreamRequests
    Responses <- StreamResponses
    RefusedNames = {"internal"}
    MovingNames = {}
    MaxHeads = 2
    MaxInformational = 1
INVARIANTS
    TypeOK
    OverflowReported
    OneOutcome
    TruncationLogged
    StatusLogged
PROPERTIES
    GoneClientFreesHandler
    KeepsPromises
