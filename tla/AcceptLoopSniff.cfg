\* accept_tls_optional: the TLS client and the oversized-record client
CONSTANTS
    Conns <- MCLiveConns
    Hello <- MCHello
    TlsClients <- MCTlsClients
    MaxPendingAccepts = 3
    Modes = {"optional"}
SPECIFICATION Spec
INVARIANT SniffMatchesSpec
\* after shutdown and the last connection the system stops
CHECK_DEADLOCK FALSE
