SPECIFICATION Spec
CONSTANTS
    Requests = {r1, r2}
    Names = {"api", "localhost", "proxy", "box"}
    Hosts <- MCHosts
    OsHostname <- MCOsHostname
    ExtraSelf <- MCExtraSelf
    Answers <- MCAnswers
INVARIANTS
    TypeOK
    VettedPeer
    NeverSelf
PROPERTY
    WaitEnds
