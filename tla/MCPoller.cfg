SPECIFICATION FairSpec
CONSTANTS
    Nodes <- MCNodes
    Rank <- MCRank
    Noise <- MCNoise
    IgnorePrincipals <- MCIgnorePrincipals
    Broken <- MCBroken
    Batch = 1
    Quiet = 1
    MaxRows = 2
    MaxFaults = 1
    ExcludedNames <- MCExcludedNames
    MaxDepth = 2
    DefaultPolicy <- MCDefaultPolicy
INVARIANTS TypeOK NothingForgotten
PROPERTIES DueIsQuiet EventuallyPartitioned
