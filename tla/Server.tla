------------------------------- MODULE Server -------------------------------
(***************************************************************************)
(* The rest server from start-up to serving: ServerSetup (the two builders *)
(* and accept_tls / accept_tls_optional) composed with AcceptLoop, the     *)
(* accept_connections task those calls spawn.  The loop shares `mode` with *)
(* the set-up, and its ceiling and channel capacity are the builder's      *)
(* max_pending_accepts at the time accept_tls moved it into the task.      *)
(* The loop's variables sit in their initial state until then.             *)
(***************************************************************************)
EXTENDS Naturals, FiniteSets

CONSTANTS
    Keys, Paths, File, CipherSpecs, MaxCalls, None,   \* TlsAcceptorBuilder
    Counts, KeepAlives, Modes,                        \* ServerSetup
    Conns, Hello, TlsClients                          \* AcceptLoop

VARIABLES
    tls, cipher_suites, cipher_list, calls, stage, acceptor,
    debug, keepalive, maxPending, acalls, server, mode,
    secureCap, insecureCap,
    loop, shutdown, strong, task, token, arrived, lastPeek, route,
    secureQ, insecureQ, consumerGone

Setup == INSTANCE ServerSetup
\* the loop a builder with max_pending_accepts = n spawns
LoopOf(n) == INSTANCE AcceptLoop WITH MaxPendingAccepts <- n
\* the values max_pending_accepts can have when the loop is spawned
Ceilings == (Counts \cup {Setup!AcceptDefault.maxPending}) \ {0}

\* the loop's own variables (mode belongs to the set-up, which sets it)
lvars == <<loop, shutdown, strong, task, token, arrived, lastPeek, route,
           secureQ, insecureQ, consumerGone>>
\* what a loop step leaves alone
svars == <<tls, cipher_suites, cipher_list, calls, stage, acceptor, debug,
           keepalive, maxPending, acalls, server, secureCap,
           insecureCap>>
vars == <<svars, mode, lvars>>

Init == Setup!Init /\ LoopOf(1)!LoopInit

\* A step A of the task spawned with ceiling n, or of its environment:
\* only once it exists.
Serving(n, A) ==
    /\ server = "running"
    /\ maxPending = n
    /\ A
    /\ UNCHANGED svars

Next ==
    \/ Setup!Next /\ UNCHANGED lvars
    \/ \E n \in Ceilings : Serving(n, LoopOf(n)!Next)

\* AcceptLoop's fairness, for the task once accept_tls spawned it.
Fairness ==
    \A n \in Ceilings :
       /\ \A c \in Conns :
            /\ WF_vars(Serving(n, LoopOf(n)!Peek(c)))
            /\ WF_vars(Serving(n, LoopOf(n)!SniffTimeout(c)))
            /\ WF_vars(Serving(n, LoopOf(n)!SslSetup(c)))
            /\ WF_vars(Serving(n, LoopOf(n)!HandshakeAborted(c)))
            /\ WF_vars(Serving(n, LoopOf(n)!PublishStep(c)))
            /\ WF_vars(Serving(n, LoopOf(n)!PublishFailed(c)))
       /\ WF_vars(Serving(n, LoopOf(n)!Consume))

Spec == Init /\ [][Next]_vars /\ Fairness

-----------------------------------------------------------------------------
TypeOK ==
    /\ Setup!TypeOK
    /\ \A n \in Ceilings : server = "running" /\ maxPending = n => LoopOf(n)!TypeOK

\* build() panics only on a caller's key/certificate mismatch.
PanicOnlyOnMismatch == Setup!PanicOnlyOnMismatch

\* An acceptor build() returns holds the configured certificate and its key.
AcceptorConsistent == Setup!AcceptorConsistent

\* Whatever max_pending_accepts the caller left on the builder (the default
\* 1024 or one set explicitly), once the loop runs at most that many
\* connections hold an accept token (spec 4.7, 8), whatever order handshakes, timeouts,
\* sends and consumption happen in.
AdmissionBound ==
    \A n \in Ceilings : server = "running" /\ maxPending = n => LoopOf(n)!AdmissionBound

\* Every connection the spawned loop admits gives its accept token back.
TokensReleased == \A c \in Conns : token[c] ~> ~token[c]
=============================================================================
