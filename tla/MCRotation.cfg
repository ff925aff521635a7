CONSTANTS
    r1 = r1
    r2 = r2
    a1 = a1
    a2 = a2
    MaxKey = 2
    Replicas <- MCReplicas
    Apps <- MCApps
SYMMETRY Symmetry
SPECIFICATION Spec
INVARIANTS
    SealsOpen
    SilentMeansResealed
