SPECIFICATION Spec
CONSTANTS
    Nodes <- MCNodes
    Rank <- MCRank
    Noise <- MCNoise
    IgnorePrincipals <- MCIgnorePrincipals
    Broken <- MCBroken
    Batch = 1
    Quiet = 1
    MaxRows = 2
    MaxFaults = 0
    ExcludedNames <- MCExcludedNames
    MaxDepth = 2
    DefaultPolicy <- MCDefaultPolicy
PROPERTIES OnlyRootsHanded
