CONSTANTS
    s1 = s1  s2 = s2  h1 = h1  c1 = c1  c2 = c2  k1 = k1
    NULL = NULL
    Structs = {s1, s2}
    Handles = {h1}
    Keys = {}
    Clients = {c1, c2}
    Faults = {}
    Calls = {"autocommit", "prepare", "execute", "commit"}
    StaleCalls = FALSE
SPECIFICATION Spec
INVARIANT NoLeak
CHECK_DEADLOCK FALSE
