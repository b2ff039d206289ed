SPECIFICATION Spec
CONSTANTS
    Words <- MCWords
    DefaultPolicy <- MCDefaultPolicy
    MetadataBasenames <- MCBasenames
    Indices <- MCIndices
    ExcludedNames = {".tmp"}
    MaxDepth = 2
    Nodes <- MCNodes
    Arrays <- MCArrays
    Early <- MCEarly
    Root <- MCRoot
    Rank <- MCRank
    Policies <- MCPolicies
    MaxJobs = 1
    MaxMishaps = 1
CHECK_DEADLOCK FALSE
INVARIANTS TypeOK StaleTrieAgrees UnmanagedIsExplained
PROPERTIES ReloadIsFresh ScanFindsStores
