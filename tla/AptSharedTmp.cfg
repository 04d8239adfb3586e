\* Two handler threads of one process share the temporary name.
CONSTANTS
    w1 = w1
    w2 = w2
    None = None
    Writers = {w1, w2}
    Process <- OneProcess
    MaxEdits = 0
    MaxCrashes = 0
SPECIFICATION Spec
INVARIANT NeverTorn
SYMMETRY WritersSym
CHECK_DEADLOCK FALSE
