CONSTANTS
    n1 = n1  n2 = n2  n3 = n3  x = x  u = u
    NULL = NULL
    Nodes = {n1, n2, n3}
    N = 2
    MaxCount = 4
    Orderly = FALSE
    Names = {x}
    Values = {u}
    Faults = {}
SPECIFICATION FairSpec
PROPERTY CallsReturn
CHECK_DEADLOCK FALSE
