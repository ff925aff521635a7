SPECIFICATION Spec
CONSTANTS
    NoPattern = NoPattern
    NoKey = NoKey
    NoOut = NoOut
    NoResp = NoResp
    NonTokens = {"X Key"}
    MaxDecodes = 4
    Servers <- MCServers
    Requests <- MCRequests
    Responses <- NoResponses
    RefusedNames = {"internal"}
    MovingNames = {"api"}
    MaxHeads = 2
    MaxInformational = 0
INVARIANTS
    CredentialScoped
    HeadersStripped
    OneIdentity
    RefusedStaysInside
    OriginAllowed
