CONSTANTS
    NoKey = NoKey
    BadKey = BadKey
    NoDisk = NoDisk
    NoCert = NoCert
    k1 = k1
    k2 = k2
    c1 = c1
    c2 = c2
    MaxSwaps = 1
    Confs <- MCConfs
    Disks <- MCDisks
    Conns <- MCConns
SPECIFICATION Spec
INVARIANTS
    ZeroMeansAnswered
    FailureShown
    RelayAnnounced
    DevCertOnlyAround
PROPERTY ProcessEnds
