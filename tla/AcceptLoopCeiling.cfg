\* max_pending_accepts = 2, two connections
CONSTANTS
    Conns <- MCLiveConns
    Hello <- MCHello
    TlsClients <- MCTlsClients
    MaxPendingAccepts = 2
    Modes = {"tls", "optional"}
SPECIFICATION Spec
PROPERTY RejectOnlyAtCeiling
\* after shutdown and the last connection the system stops
CHECK_DEADLOCK FALSE
