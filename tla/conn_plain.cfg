\* Ordinary and persistent connections; options are not refused where pconnect sets
\* a connection up anew.
CONSTANTS
    s1 = s1  s2 = s2  h1 = h1  h2 = h2  c1 = c1  c2 = c2  k1 = k1
    NULL = NULL
    Structs = {s1, s2}
    Handles = {h1, h2}
    Keys = {k1}
    Clients = {c1, c2}
    Faults = {"connect", "getauto", "setattr", "exec", "link"}
    Calls = {"close", "autocommit", "set_option", "commit", "rollback", "exec", "prepare"}
    StaleCalls = FALSE
SPECIFICATION FairSpec
INVARIANTS
    TypeOK
    AutoCommitAgrees
    FlagCoversWork
    NoLeak
    NeverUndefined
PROPERTY EventuallyReleased
