\* One relay: every interleaving of the client, the backend, ws_future and
\* term_future, partial frame writes and the failures of either future.
CONSTANTS
    None = None
    ClientScript <- MCClientScript
    BackendScript <- MCBackendScript
    Requests <- MCRequests
SPECIFICATION Spec
INVARIANT TypeOK
PROPERTY RelaySpec PingAnswered
\* serve_connection returns; a rejected handshake never starts the relay
CHECK_DEADLOCK FALSE
