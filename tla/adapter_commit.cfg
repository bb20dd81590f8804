\* The connection may be lost before commit, or a deadlock take the earlier work
\* of a block.
CONSTANTS
    Work = {w1, w2}
    Faults = {"link", "deadlock", "late deadlock"}
SPECIFICATION Spec
INVARIANT CommitIsTrue
