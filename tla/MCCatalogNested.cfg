SPECIFICATION Spec
CONSTANTS
    Words <- MCWords
    DefaultPolicy <- MCDefaultPolicy
    MetadataBasenames <- MCBasenames
    Indices <- MCIndices
    ExcludedNames = {".tmp"}
    MaxDepth = 2
    Nodes <- MCNodes
    Arrays <- MCArrays
    Early <- MCEarly
    Root <- MCRoot
    Rank <- MCRank
    Policies <- MCPolicies
    MaxJobs = 0
    MaxMishaps = 0
CHECK_DEADLOCK FALSE
INVARIANT OwnManifestOverrides
