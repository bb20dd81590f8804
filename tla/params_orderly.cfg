CONSTANTS
    n1 = n1  n2 = n2  n3 = n3  n4 = n4  x = x  y = y  u = u  v = v
    NULL = NULL
    Nodes = {n1, n2, n3, n4}
    N = 2
    MaxCount = 3
    Orderly = TRUE
    Names = {x, y}
    Values = {u, v}
    Faults = {"describe", "bind", "exec", "numparams", "close"}
SPECIFICATION FairSpec
INVARIANTS
    TypeOK
    ListAscends
    SentAsMeant
    NothingDangles
    FreshExecute
PROPERTIES
    CallsReturn
    CallsAdvance
