\* Up to two calls on each builder, build(), start-up in either mode, then
\* the loop with a TLS and an HTTP client under the configured ceiling
\* (the default 1024, or 1 or 2 set explicitly; 0 panics at start-up).
CONSTANTS
    k1 = k1
    k2 = k2
    pKey = pKey
    pCert = pCert
    pOther = pOther
    pBad = pBad
    None = None
    Keys = {k1, k2}
    Paths = {pKey, pCert, pOther, pBad}
    File <- MCFile
    CipherSpecs = {"HIGH"}
    MaxCalls = 2
    Counts = {0, 1, 2}
    KeepAlives = {120}
    Modes = {"tls", "optional"}
    Conns <- MCConns
    Hello <- MCHello
    TlsClients <- MCTlsClients
SPECIFICATION Spec
INVARIANTS TypeOK AdmissionBound
PROPERTIES PanicOnlyOnMismatch AcceptorConsistent TokensReleased
\* start-up may end in an error or a panic; a stopped loop stops the system
CHECK_DEADLOCK FALSE
