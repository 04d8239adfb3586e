---------------------------- MODULE ServerSetup ----------------------------
(***************************************************************************)
(* Server start-up: a caller builds the TLS acceptor (TlsAcceptorBuilder), *)
(* configures an AcceptBuilder and starts the accept loop with accept_tls  *)
(* or accept_tls_optional (proxmox-rest-server/src/connection.rs). The two *)
(* builders are independent values, so their calls interleave freely; the  *)
(* loop is started with the acceptor that build() returned.                *)
(*                                                                         *)
(* accept_tls(_optional) creates its channels with                         *)
(* mpsc::channel(max_pending_accepts), which asserts a capacity above 0,   *)
(* and spawns accept_connections (module AcceptLoop, whose initial state   *)
(* is the one `server = "running"` leaves).                                *)
(***************************************************************************)
EXTENDS TlsAcceptorBuilder

CONSTANTS
    Counts,        \* values a caller may pass to max_pending_accepts
    KeepAlives,    \* values a caller may pass to tcp_keepalive_time
    Modes          \* {"tls"} (accept_tls), {"optional"}, or both

VARIABLES
    debug,         \* AcceptBuilder::debug
    keepalive,     \* AcceptBuilder::tcp_keepalive_time
    maxPending,    \* AcceptBuilder::max_pending_accepts
    acalls,        \* AcceptBuilder setter calls so far
    server,        \* "config", "running" (loop spawned), "panic"
    mode,          \* which of accept_tls / accept_tls_optional was called
    secureCap,     \* capacity of the secure channel, or None
    insecureCap    \* capacity of the insecure channel, or None

avars == <<debug, keepalive, maxPending, acalls, server, mode,
           secureCap, insecureCap>>
vars == <<tvars, avars>>

TypeOK ==
    /\ TlsTypeOK
    /\ debug \in BOOLEAN
    /\ keepalive \in Nat          \* u32
    /\ maxPending \in Nat         \* usize
    /\ acalls \in 0..MaxCalls
    /\ server \in {"config", "running", "panic"}
    /\ mode \in Modes \cup {None}
    /\ secureCap \in Nat \cup {None}
    /\ insecureCap \in Nat \cup {None}

\* impl Default for AcceptBuilder.
AcceptDefault == [debug |-> FALSE, keepalive |-> 120, maxPending |-> 1024]

\* TlsAcceptorBuilder::new() and AcceptBuilder::new().
Init ==
    /\ TlsInit
    /\ debug = AcceptDefault.debug
    /\ keepalive = AcceptDefault.keepalive
    /\ maxPending = AcceptDefault.maxPending
    /\ acalls = 0
    /\ server = "config"
    /\ mode = None
    /\ secureCap = None
    /\ insecureCap = None

TlsStep == TlsNext /\ UNCHANGED avars

\* An AcceptBuilder setter: takes self, sets one field, returns self.
ASetter ==
    /\ server = "config"
    /\ acalls < MaxCalls
    /\ acalls' = acalls + 1
    /\ UNCHANGED <<server, mode, secureCap, insecureCap>>
    /\ UNCHANGED tvars

set_debug(b) ==
    /\ ASetter
    /\ debug' = b
    /\ UNCHANGED <<keepalive, maxPending>>

tcp_keepalive_time(t) ==
    /\ ASetter
    /\ keepalive' = t
    /\ UNCHANGED <<debug, maxPending>>

max_pending_accepts(n) ==
    /\ ASetter
    /\ maxPending' = n
    /\ UNCHANGED <<debug, keepalive>>

\* accept_tls / accept_tls_optional with the acceptor build() returned:
\* one channel (two in optional mode) of capacity max_pending_accepts;
\* mpsc::channel panics on 0 before anything is spawned. accept_tls takes
\* self by value and moves it into the loop task: no setter follows.
accept(m) ==
    /\ server = "config"
    /\ stage = "ok"
    /\ mode' = m
    /\ IF maxPending = 0
         THEN /\ server' = "panic"
              /\ UNCHANGED <<secureCap, insecureCap>>
         ELSE /\ server' = "running"
              /\ secureCap' = maxPending
              /\ insecureCap' = IF m = "optional" THEN maxPending ELSE None
    /\ acalls' = 0
    /\ UNCHANGED <<debug, keepalive, maxPending>>
    /\ UNCHANGED tvars

Next ==
    \/ TlsStep
    \/ \E b \in BOOLEAN : set_debug(b)
    \/ \E t \in KeepAlives : tcp_keepalive_time(t)
    \/ \E n \in Counts : max_pending_accepts(n)
    \/ \E m \in Modes : accept(m)

Spec == Init /\ [][Next]_vars
=============================================================================
