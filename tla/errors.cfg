CONSTANTS
    c1 = c1  s1 = s1  s2 = s2
    NULL = NULL
    Conns = {c1}
    Stmts = {s1, s2}
    Scratch = scratch
    Records = 1
    MaxFailures = 2
    MaxRecno = 2
SYMMETRY Symmetry
SPECIFICATION Spec
INVARIANTS
    TypeOK
    OwnErrors
    ReadsLast
    FullAnswerIsOfAttempt
    NxIsTrue
