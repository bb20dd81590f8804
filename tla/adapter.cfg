\* A few statements, in blocks and alone; calls on a connection that lasts end
\* and switch modes as they are asked to.
CONSTANTS
    Work = {w1, w2, w3, w4, w5}
    Faults = {"link", "statement", "deadlock", "sequence"}
SYMMETRY Symmetry
SPECIFICATION Spec
INVARIANTS TypeOK ModeRestored
PROPERTY ActsAtomically
