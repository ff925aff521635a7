CONSTANTS
    W4 = 2
    W6 = 4
    MappedTop <- MCMappedTop
    Lists <- MCLists
SPECIFICATION CidrSpec
INVARIANTS
    ExactlyListed
