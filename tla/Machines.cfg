SPECIFICATION Spec
CHECK_DEADLOCK FALSE
CONSTANTS
    Elems = {e1, e2, e3, e4}
    Lists = {l1, l2}
    Nil = Nil
    MaxConns = 2
    MaxStmts = 2
    MaxRows = 2
    MaxTxs = 1
    Names <- MCNames
    Chunks <- MCChunks
    MaxEntries = 2
    MaxContent = 2
    MaxFile = 6
    Torn = {0, 1}
    Block = 3
    Sizes = {0, 2, 3, 4}
    Lengths = {1, 3}
    MaxTape = 8
INVARIANTS DbReleases ArchivesReadBack
PROPERTY ListRefines
