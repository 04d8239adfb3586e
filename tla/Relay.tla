------------------------------- MODULE Relay -------------------------------
(***************************************************************************)
(* What the WebSocket relay (WebSocket::serve_connection) promises, with   *)
(* no tasks, buffers or channels: the frames the client has sent and the   *)
(* chunks the backend has produced so far, what has reached the backend    *)
(* and the frames the client has received.                                 *)
(*                                                                         *)
(*  - the client's data bytes reach the backend in order;                  *)
(*  - the backend's bytes reach the client in data frames, in order;       *)
(*  - every Ping is answered by a Pong echoing its payload, in order, and  *)
(*    only once the Ping was sent;                                         *)
(*  - a client Close is echoed; a backend EOF, once all its data was sent, *)
(*    may be answered by Close 1000; after a Close nothing is sent;        *)
(*  - the relay may end at any time (errors, a client that hangs up).      *)
(***************************************************************************)
EXTENDS Naturals, Sequences, SequencesExt

CONSTANTS
    ClientScript,   \* the frames the client sends: [op, val]
    BackendScript   \* the bytes the backend produces

NormalClosure == <<3, 232>>   \* status 1000

VARIABLES
    fromClient,     \* how many frames of ClientScript the client has sent
    fromBackend,    \* how many bytes of BackendScript the backend has produced
    backendEof,     \* the backend has reached EOF
    toBackend,      \* the bytes the backend has received
    toClient,       \* the frames the client has received
    closed          \* the relay has ended

avars == <<fromClient, fromBackend, backendEof, toBackend, toClient, closed>>

\* The frames of s with opcode op.
OfOp(s, op) == SelectSeq(s, LAMBDA f : f.op = op)

SentFrames == SubSeq(ClientScript, 1, fromClient)
\* The payload bytes of the data frames the client has sent.
SentBytes == FlattenSeq([i \in 1..Len(OfOp(SentFrames, "data")) |->
                           OfOp(SentFrames, "data")[i].val])
SentPings == OfOp(SentFrames, "ping")
SentCloses == OfOp(SentFrames, "close")
\* How many backend bytes the client has received.
DataOut == Len(FlattenSeq([i \in 1..Len(OfOp(toClient, "data")) |->
                             OfOp(toClient, "data")[i].val]))
PongsOut == Len(OfOp(toClient, "pong"))

RInit ==
    /\ fromClient = 0
    /\ fromBackend = 0
    /\ backendEof = FALSE
    /\ toBackend = <<>>
    /\ toClient = <<>>
    /\ closed = FALSE

ClientSends ==
    /\ fromClient < Len(ClientScript)
    /\ fromClient' = fromClient + 1
    /\ UNCHANGED <<fromBackend, backendEof, toBackend, toClient, closed>>

BackendSends ==
    /\ ~backendEof
    /\ fromBackend < Len(BackendScript)
    /\ fromBackend' = fromBackend + 1
    /\ UNCHANGED <<fromClient, backendEof, toBackend, toClient, closed>>

BackendEnds ==
    /\ ~backendEof
    /\ backendEof' = TRUE
    /\ UNCHANGED <<fromClient, fromBackend, toBackend, toClient, closed>>

ForwardUp ==
    /\ ~closed
    /\ \E n \in 1..(Len(SentBytes) - Len(toBackend)) :
          toBackend' = toBackend \o SubSeq(SentBytes, Len(toBackend) + 1, Len(toBackend) + n)
    /\ UNCHANGED <<fromClient, fromBackend, backendEof, toClient, closed>>

\* A frame to the client, and whether it ends the relay.
Send(f, last) ==
    /\ ~closed
    /\ toClient' = Append(toClient, f)
    /\ closed' = last
    /\ UNCHANGED <<fromClient, fromBackend, backendEof, toBackend>>

ForwardDown ==
    \E n \in 1..(fromBackend - DataOut) :
        Send([op |-> "data", val |-> SubSeq(BackendScript, DataOut + 1, DataOut + n)], FALSE)

AnswerPing ==
    /\ PongsOut < Len(SentPings)
    /\ Send([op |-> "pong", val |-> SentPings[PongsOut + 1].val], FALSE)

EchoClose ==
    \E i \in 1..Len(SentCloses) : Send([op |-> "close", val |-> SentCloses[i].val], TRUE)

CloseNormally ==
    /\ backendEof
    /\ DataOut = fromBackend
    /\ Send([op |-> "close", val |-> NormalClosure], TRUE)

End ==
    /\ ~closed
    /\ closed' = TRUE
    /\ UNCHANGED <<fromClient, fromBackend, backendEof, toBackend, toClient>>

RNext ==
    \/ ClientSends \/ BackendSends \/ BackendEnds
    \/ ForwardUp \/ ForwardDown \/ AnswerPing \/ EchoClose \/ CloseNormally
    \/ End

RSpec == RInit /\ [][RNext]_avars
=============================================================================
