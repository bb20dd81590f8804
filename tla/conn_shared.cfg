\* Persistent connections whose options the driver may refuse, and calls on closed
\* connections.
CONSTANTS
    s1 = s1  s2 = s2  h1 = h1  h2 = h2  c1 = c1  c2 = c2  k1 = k1
    NULL = NULL
    Structs = {s1, s2}
    Handles = {h1, h2}
    Keys = {k1}
    Clients = {c1, c2}
    Faults = {"literal", "message", "setattr", "reset", "endtran", "disconnect", "freedbc"}
    Calls = {"close", "autocommit", "set_option", "commit", "rollback", "exec", "prepare", "execute", "active"}
    StaleCalls = TRUE
SPECIFICATION Spec
INVARIANTS
    OpenOwnsHandle
    OnlyRequestedCommits
    ResultIsTrue
    EntryStaysConnected
SYMMETRY Symmetry
CHECK_DEADLOCK FALSE
