SPECIFICATION Spec
CONSTANTS
    NoPattern = NoPattern
    NoKey = NoKey
    BadKey = BadKey
    NoHop = NoHop
    NoOut = NoOut
    NoAnswer = NoAnswer
    NoLocation = NoLocation
    NonTokens = {"X Key"}
    MaxDecodes = 4
    MaxRequests = 3
    Flags <- SealFlags
    Jobs <- ClientJobs
    Servers <- ProxyServers
    Answers <- UpstreamAnswers
INVARIANTS
    WithinFlags
    FlagsSuffice
PROPERTY
    CommandEnds
