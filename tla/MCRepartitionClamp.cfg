SPECIFICATION Spec
CONSTANTS
    Words <- MCWords
    DefaultPolicy <- MCDefaultPolicy
    MetadataBasenames <- MCBasenames
    Indices <- MCIndices
    Scope <- MCScope
    Listings <- MCListings
    Policies <- MCPolicies
    PinPrefixes <- MCPinPrefixes
    Keys <- MCKeys
    MaxEpoch = 3
VIEW View
PROPERTIES EveryInstanceWithinClamp
