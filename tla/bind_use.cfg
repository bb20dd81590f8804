\* One marker bound and executed in every supported way, every driver call able
\* to fail; a size may be less than what the server returns, or more.  Without nodes there is nothing to execute, and a marker can always
\* be bound: no deadlock.
CONSTANTS
    Types = {"INTEGER", "BIGINT", "DOUBLE", "VARCHAR", "CLOB", "BLOB", "BINARY"}
    Directions = {"input", "output", "both"}
    Kinds = {"nil", "int", "big", "float", "string", "other"}
    Chars = 2
    MaxLength = 4
    Sizes = {0, 1, 2, 3}
    Half = 2
    Faults = {"describe", "bind", "execute"}
    Orderly = TRUE
SPECIFICATION Spec
INVARIANTS TypeOK SentIsGiven OutIsReturned NeverUndefined
