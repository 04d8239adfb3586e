\* Two handler threads in two worker processes, an edit by another program
\* and a crash with restart of either process.
CONSTANTS
    w1 = w1
    w2 = w2
    None = None
    Writers = {w1, w2}
    Process <- TwoProcesses
    MaxEdits = 1
    MaxCrashes = 1
SPECIFICATION Spec
SYMMETRY WritersSym
\* the ghosts of NoLostUpdate do not change behaviour
VIEW GhostFreeView
INVARIANT TypeOK NeverTorn TmpCleanedUp
          ListingAsDocumented
\* Every handler finishes; the processes then have nothing left to do.
CHECK_DEADLOCK FALSE
