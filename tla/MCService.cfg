SPECIFICATION Spec
CONSTANTS
    Jobs = {j1, j2}
    Operations <- MCOperations
    MaxStarted = 3
    MaxDeletes = 1
    ConditionalUpdate = TRUE
    Nodes <- MCNodes
    Path <- MCPath
    Order <- MCOrder
    Layout <- MCLayout
    ObjectSize <- MCObjectSize
    MaxObjects <- MCMaxObjects
    DefaultPolicy <- MCDefaultPolicy
    Words <- MCWords
SYMMETRY Symmetry
CHECK_DEADLOCK FALSE
INVARIANTS TypeOK NotAdditiveUnreachable
PROPERTIES ReplacesWhatItRead
