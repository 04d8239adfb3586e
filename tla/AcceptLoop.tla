------------------------------ MODULE AcceptLoop ------------------------------
(***************************************************************************)
(* AcceptBuilder::accept_connections and the task it spawns per socket     *)
(* (do_accept_tls_optional, wait_for_client_tls_handshake, do_accept_tls)  *)
(* from proxmox-rest-server/src/connection.rs, with the hyper consumer of  *)
(* the two bounded channels and the process-wide shutdown signal.          *)
(*                                                                         *)
(* accept_counter is an Arc<()>: the loop holds one reference and every    *)
(* spawned task one clone, so strong_count is 1 + the tasks holding one    *)
(* while the loop runs.  Timeouts (1 s sniffing, 10 s handshake) are       *)
(* events that may fire at any point of the step they bound.              *)
(***************************************************************************)
EXTENDS Naturals, Sequences, FiniteSets

CONSTANTS
    Conns,              \* TCP connections that reach the listener
    Hello,              \* Hello[c]: the first bytes client c sends
    TlsClients,         \* clients that complete a TLS handshake if asked to
    MaxPendingAccepts,  \* AcceptBuilder::max_pending_accepts
    Modes               \* {"tls"} (accept_tls), {"optional"}, or both

ASSUME MaxPendingAccepts \in Nat \ {0}
ASSUME TlsClients \subseteq Conns

\* steps of a connection's task; "none" before the listener returned it
TaskStates == {"none", "rejected", "setup_failed", "sniff", "ssl",
               "handshake", "send_secure", "send_insecure", "done"}
Active == {"sniff", "ssl", "handshake", "send_secure", "send_insecure"}

VARIABLES
    mode,        \* which of accept_tls / accept_tls_optional started the loop
    loop,        \* "running", or "stopped" after the shutdown branch broke it
    shutdown,    \* shutdown_future has resolved
    strong,      \* Arc::strong_count(&accept_counter)
    task,        \* task[c]: where c's task is
    token,       \* token[c]: c's task holds a clone of accept_counter
    arrived,     \* arrived[c]: bytes of Hello[c] in c's socket
    lastPeek,    \* last_peek_size of wait_for_client_tls_handshake
    route,       \* "tls" or "plain" once c was classified, else "none"
    secureQ,     \* the secure mpsc channel (capacity max_pending_accepts)
    insecureQ,   \* the insecure mpsc channel
    consumerGone \* the receivers were dropped: send fails

vars == <<mode, loop, shutdown, strong, task, token, arrived, lastPeek,
          route, secureQ, insecureQ, consumerGone>>

InFlight == {c \in Conns : token[c]}

\* the state accept_connections starts in, whichever mode spawned it
LoopInit ==
    /\ loop = "running"
    /\ shutdown = FALSE
    /\ strong = 1
    /\ task = [c \in Conns |-> "none"]
    /\ token = [c \in Conns |-> FALSE]
    /\ arrived = [c \in Conns |-> 0]
    /\ lastPeek = [c \in Conns |-> 0]
    /\ route = [c \in Conns |-> "none"]
    /\ secureQ = <<>>
    /\ insecureQ = <<>>
    /\ consumerGone = FALSE

Init == mode \in Modes /\ LoopInit

-----------------------------------------------------------------------------
(* The accept loop *)

\* Mutant of Admitted: the ceiling check dropped.
Admitted_unchecked(count) == TRUE

\* the clone is taken before the ceiling is checked
Admitted(count) == ~(count + 1 > MaxPendingAccepts)

\* try_setup_socket returns the socket: clone accept_counter, check the
\* ceiling; spawn the task for the loop's mode.
AcceptConn(c) ==
    /\ loop = "running"
    /\ task[c] = "none"
    /\ Admitted(strong)
    /\ task' = [task EXCEPT ![c] = IF mode = "tls" THEN "ssl" ELSE "sniff"]
    /\ token' = [token EXCEPT ![c] = TRUE]
    /\ strong' = strong + 1
    /\ UNCHANGED <<mode, loop, shutdown, arrived, lastPeek, route, secureQ,
                   insecureQ, consumerGone>>

\* "connection rejected - too many open connections": the clone and the
\* socket are dropped at `continue`.
RejectConn(c) ==
    /\ loop = "running"
    /\ task[c] = "none"
    /\ ~Admitted(strong)
    /\ task' = [task EXCEPT ![c] = "rejected"]
    /\ UNCHANGED <<mode, loop, shutdown, strong, token, arrived, lastPeek,
                   route, secureQ, insecureQ, consumerGone>>

\* accept, set_nodelay or set_tcp_keepalive fails: logged, `continue`.
SetupFailed(c) ==
    /\ loop = "running"
    /\ task[c] = "none"
    /\ task' = [task EXCEPT ![c] = "setup_failed"]
    /\ UNCHANGED <<mode, loop, shutdown, strong, token, arrived, lastPeek,
                   route, secureQ, insecureQ, consumerGone>>

\* request_shutdown resolves shutdown_future.
RequestShutdown ==
    /\ ~shutdown
    /\ shutdown' = TRUE
    /\ UNCHANGED <<mode, loop, strong, task, token, arrived, lastPeek, route,
                   secureQ, insecureQ, consumerGone>>

\* the shutdown branch of the select: break, accept_counter is dropped.
LoopExit ==
    /\ loop = "running"
    /\ shutdown
    /\ loop' = "stopped"
    /\ strong' = strong - 1
    /\ UNCHANGED <<mode, shutdown, task, token, arrived, lastPeek, route,
                   secureQ, insecureQ, consumerGone>>

-----------------------------------------------------------------------------
(* A task leaves: its accept_counter clone is dropped. *)
Finish(c) ==
    /\ task' = [task EXCEPT ![c] = "done"]
    /\ token' = [token EXCEPT ![c] = FALSE]
    /\ strong' = strong - 1

\* The client's bytes reach the socket in chunks.
ClientSends(c) ==
    /\ arrived[c] < Len(Hello[c])
    /\ \E n \in 1..(Len(Hello[c]) - arrived[c]) : arrived' = [arrived EXCEPT ![c] = @ + n]
    /\ UNCHANGED <<mode, loop, shutdown, strong, task, token, lastPeek, route,
                   secureQ, insecureQ, consumerGone>>

\* buf of wait_for_client_tls_handshake after a peek of n bytes: the
\* peeked prefix, then the zeros it was initialised with (earlier peeks
\* wrote shorter prefixes of the same stream).
PeekBuf(c, n) == [i \in 1..5 |-> IF i <= n THEN Hello[c][i] ELSE 0]

\* contains_tls_handshake_fragment on the 128-byte buffer: 0x16, 0x03, and
\* the u16 at bytes 3-4 at most 1 << 14.
contains_tls_handshake_fragment(b) ==
    b[1] = 22 /\ b[2] = 3 /\ b[4] * 256 + b[5] <= 16384

\* One turn of the sniffing loop: peek (waits for at least one byte), then
\* TLS if the fragment is there, plaintext if nothing new came since the
\* last turn, else remember the size and yield.
Peek(c) ==
    /\ task[c] = "sniff"
    /\ arrived[c] > 0
    /\ LET n == arrived[c] IN
       IF contains_tls_handshake_fragment(PeekBuf(c, n))
       THEN /\ route' = [route EXCEPT ![c] = "tls"]
            /\ task' = [task EXCEPT ![c] = "ssl"]
            /\ UNCHANGED lastPeek
       ELSE IF n = lastPeek[c]
       THEN /\ route' = [route EXCEPT ![c] = "plain"]
            /\ task' = [task EXCEPT ![c] = "send_insecure"]
            /\ UNCHANGED lastPeek
       ELSE /\ lastPeek' = [lastPeek EXCEPT ![c] = n]
            /\ UNCHANGED <<route, task>>
    /\ UNCHANGED <<mode, loop, shutdown, strong, token, arrived, secureQ,
                   insecureQ, consumerGone>>

\* The 1 s timeout of the sniffing future: unwrap_or(Ok(false)).
SniffTimeout(c) ==
    /\ task[c] = "sniff"
    /\ route' = [route EXCEPT ![c] = "plain"]
    /\ task' = [task EXCEPT ![c] = "send_insecure"]
    /\ UNCHANGED <<mode, loop, shutdown, strong, token, arrived, lastPeek,
                   secureQ, insecureQ, consumerGone>>

\* peek fails: "error checking for TLS handshake", return.
PeekFailed(c) ==
    /\ task[c] = "sniff"
    /\ Finish(c)
    /\ UNCHANGED <<mode, loop, shutdown, arrived, lastPeek, route, secureQ,
                   insecureQ, consumerGone>>

\* Ssl::new on the context of the acceptor (taken under its mutex) and
\* SslStream::new succeed; the handshake starts.
SslSetup(c) ==
    /\ task[c] = "ssl"
    /\ task' = [task EXCEPT ![c] = "handshake"]
    /\ UNCHANGED <<mode, loop, shutdown, strong, token, arrived, lastPeek,
                   route, secureQ, insecureQ, consumerGone>>

\* Ssl::new or SslStream::new fails: logged, return.
SslSetupFailed(c) ==
    /\ task[c] = "ssl"
    /\ Finish(c)
    /\ UNCHANGED <<mode, loop, shutdown, arrived, lastPeek, route, secureQ,
                   insecureQ, consumerGone>>

\* accept() completes: only a TLS client that sent its hello can do it.
HandshakeDone(c) ==
    /\ task[c] = "handshake"
    /\ c \in TlsClients
    /\ arrived[c] = Len(Hello[c])
    /\ task' = [task EXCEPT ![c] = "send_secure"]
    /\ UNCHANGED <<mode, loop, shutdown, strong, token, arrived, lastPeek,
                   route, secureQ, insecureQ, consumerGone>>

\* Mutant of HandshakeAborted: accept() without the timeout, which ends
\* only when openssl has read a hello it rejects.
HandshakeAborted_noTimeout(c) ==
    /\ task[c] = "handshake"
    /\ c \notin TlsClients
    /\ arrived[c] = Len(Hello[c])
    /\ Finish(c)
    /\ UNCHANGED <<mode, loop, shutdown, arrived, lastPeek, route, secureQ,
                   insecureQ, consumerGone>>

\* accept() fails (Ok(Err)) or the 10 s timeout fires first (Err): return.
HandshakeAborted(c) ==
    /\ task[c] = "handshake"
    /\ Finish(c)
    /\ UNCHANGED <<mode, loop, shutdown, arrived, lastPeek, route, secureQ,
                   insecureQ, consumerGone>>

\* sender.send(Ok(stream)).await: waits while the channel is full, fails
\* at once if the receiver is gone; the task then returns.
Publish(c) ==
    \/ /\ task[c] = "send_secure"
       /\ ~consumerGone
       /\ Len(secureQ) < MaxPendingAccepts
       /\ secureQ' = Append(secureQ, c)
       /\ Finish(c)
       /\ UNCHANGED insecureQ
    \/ /\ task[c] = "send_insecure"
       /\ ~consumerGone
       /\ Len(insecureQ) < MaxPendingAccepts
       /\ insecureQ' = Append(insecureQ, c)
       /\ Finish(c)
       /\ UNCHANGED secureQ

PublishStep(c) ==
    /\ Publish(c)
    /\ UNCHANGED <<mode, loop, shutdown, arrived, lastPeek, route,
                   consumerGone>>

\* Mutant of PublishFailed: the guard on the task's step is dropped.
PublishFailed_unguarded(c) ==
    /\ consumerGone
    /\ Finish(c)
    /\ UNCHANGED <<mode, loop, shutdown, arrived, lastPeek, route, secureQ,
                   insecureQ, consumerGone>>

\* "detected closed connection channel"
PublishFailed(c) ==
    /\ task[c] \in {"send_secure", "send_insecure"}
    /\ consumerGone
    /\ Finish(c)
    /\ UNCHANGED <<mode, loop, shutdown, arrived, lastPeek, route, secureQ,
                   insecureQ, consumerGone>>

-----------------------------------------------------------------------------
(* The hyper server: accept::from_stream over the two receivers *)

Consume ==
    /\ ~consumerGone
    /\ \/ /\ secureQ # <<>>
          /\ secureQ' = Tail(secureQ)
          /\ UNCHANGED insecureQ
       \/ /\ insecureQ # <<>>
          /\ insecureQ' = Tail(insecureQ)
          /\ UNCHANGED secureQ
    /\ UNCHANGED <<mode, loop, shutdown, strong, task, token, arrived,
                   lastPeek, route, consumerGone>>

ConsumerStops ==
    /\ ~consumerGone
    /\ consumerGone' = TRUE
    /\ UNCHANGED <<mode, loop, shutdown, strong, task, token, arrived,
                   lastPeek, route, secureQ, insecureQ>>

TaskStep(c) ==
    \/ Peek(c) \/ SniffTimeout(c) \/ PeekFailed(c)
    \/ SslSetup(c) \/ SslSetupFailed(c)
    \/ HandshakeDone(c) \/ HandshakeAborted(c)
    \/ PublishStep(c) \/ PublishFailed(c)

Next ==
    \/ \E c \in Conns :
          \/ AcceptConn(c) \/ RejectConn(c) \/ SetupFailed(c)
          \/ ClientSends(c) \/ TaskStep(c)
    \/ RequestShutdown \/ LoopExit \/ Consume \/ ConsumerStops

\* tokio polls every spawned task, and its timers fire: the sniffing and
\* handshake timeouts are weakly fair.  hyper keeps accepting from the
\* channels.  Clients, errors and shutdown are not fair.
Fairness ==
    /\ \A c \in Conns :
          /\ WF_vars(Peek(c)) /\ WF_vars(SniffTimeout(c))
          /\ WF_vars(SslSetup(c)) /\ WF_vars(HandshakeAborted(c))
          /\ WF_vars(PublishStep(c)) /\ WF_vars(PublishFailed(c))
    /\ WF_vars(Consume)

Spec == Init /\ [][Next]_vars /\ Fairness

-----------------------------------------------------------------------------
TypeOK ==
    /\ mode \in {"tls", "optional"}
    /\ loop \in {"running", "stopped"}
    /\ strong \in Nat
    /\ task \in [Conns -> TaskStates]
    /\ token \in [Conns -> BOOLEAN]
    /\ route \in [Conns -> {"none", "tls", "plain"}]
    /\ secureQ \in Seq(Conns) /\ insecureQ \in Seq(Conns)

\* (spec 4.7, 8) The admission ceiling: at most max_pending_accepts
\* connections are between accept and the end of their handshake task at
\* any time, whatever order handshakes, timeouts, sends and consumption
\* happen in (the code's ceiling is one lower: RejectOnlyAtCeiling).
AdmissionBound == Cardinality(InFlight) <= MaxPendingAccepts

\* Every admitted connection's task ends and gives its accept token back:
\* no handshake, sniff or send holds a slot of the ceiling forever while
\* hyper keeps accepting.
TokensReleased == \A c \in Conns : token[c] ~> ~token[c]

\* (spec 4.7 / 8) A new connection is dropped for overload only when
\* max_pending_accepts handshakes are outstanding.
RejectOnlyAtCeiling ==
    [][\A c \in Conns :
         (task[c] = "none" /\ task'[c] = "rejected")
            => Cardinality(InFlight) >= MaxPendingAccepts]_vars

\* (spec 4.7) A connection is routed to TLS only when the first 5 bytes of
\* its stream match the TLS record shape.
SniffMatchesSpec ==
    \A c \in Conns :
        route[c] = "tls" =>
            /\ Len(Hello[c]) >= 5
            /\ contains_tls_handshake_fragment(SubSeq(Hello[c], 1, 5))
=============================================================================
