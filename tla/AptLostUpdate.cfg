\* One handler thread racing an edit by another program.
CONSTANTS
    w1 = w1
    w2 = w2
    None = None
    Writers = {w1}
    Process <- OneProcess
    MaxEdits = 1
    MaxCrashes = 0
SPECIFICATION Spec
INVARIANT NoLostUpdate
\* Every handler finishes; the process then has nothing left to do.
CHECK_DEADLOCK FALSE
