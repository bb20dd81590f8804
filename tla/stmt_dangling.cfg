CONSTANTS
    s1 = s1  s2 = s2  h1 = h1  h2 = h2
    select = select  update = update  call = call  columns = columns
    NULL = NULL
    Stmts = {s1, s2}
    Handles = {h1, h2}
    Texts = {select, update, call, columns}
    Catalog = {columns}
    Answers <- MCAnswers
    MaxCols = 2
    MaxRows = 1
    MaxLeft = 1
    Orderly = TRUE
    Faults = {}
SPECIFICATION Spec
INVARIANT NeverUndefined
CHECK_DEADLOCK FALSE
