------------------------ MODULE MCAptRepositoryFile ------------------------
\* Model-checking instance of AptRepositoryFile. The writers are model
\* values and interchangeable: they share a process, or each has its own
\* process named after it, and the runs use symmetry over them.
EXTENDS AptRepositoryFile, TLC

CONSTANTS w1, w2

WritersSym == Permutations({w1, w2})

\* Every writer a thread of the one worker process.
OneProcess == [w \in {w1, w2} |-> "p1"]
\* w1 and w2 in two different worker processes, each process named after
\* its writer, so that exchanging the writers exchanges their processes.
TwoProcesses == [w \in {w1, w2} |-> w]
=============================================================================
