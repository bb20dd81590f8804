CONSTANTS
    n1 = n1  n2 = n2  n3 = n3  n4 = n4 x = x  u = u  v = v
    NULL = NULL
    Nodes = {n1, n2, n3, n4}
    N = 2
    MaxCount = 4
    Orderly = FALSE
    Names = {x}
    Values = {u, v}
    Faults = {"describe", "bind", "exec", "numparams", "close"}
SPECIFICATION Spec
INVARIANT PointersAreLive
SYMMETRY Symmetry
CHECK_DEADLOCK FALSE
