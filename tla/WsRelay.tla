------------------------------ MODULE WsRelay ------------------------------
(***************************************************************************)
(* WebSocket::new and WebSocket::serve_connection (websocket.rs): the      *)
(* handshake, then two futures raced by select! in one task:               *)
(*   ws_future   = tokio::io::copy(WebSocketReader(upstream), downstream)  *)
(*   term_future = copy_to_websocket(downstream, WebSocketWriter, rx)      *)
(* WebSocketReader's byte-level behaviour is the subject of WsReader; here *)
(* it delivers one client frame per read: a data payload to copy, a       *)
(* control frame to the unbounded channel tx/rx. Backend data is a byte    *)
(* stream that read_from_async takes in pieces of any size.                *)
(***************************************************************************)
EXTENDS Naturals, Sequences, SequencesExt

CONSTANTS
    ClientScript,   \* the frames the client sends: [op, val]
    BackendScript,  \* the bytes the backend produces
    Requests,       \* upgrade requests: [upgrade, version, key, protocol]
    None

Missing == "missing"      \* header absent: headers.get() is None
NotAscii == "notascii"    \* header present, to_str() fails

NormalClosure == <<3, 232>>

(***************************************************************************)
(* WebSocket::new: every header must be present and ASCII, Upgrade must be *)
(* "websocket", the version "13"; protocol "text" selects text frames.    *)
(***************************************************************************)
HeaderOk(v) == v \notin {Missing, NotAscii}

new(h) ==
    [ok   |-> /\ \A f \in {"upgrade", "version", "key", "protocol"} : HeaderOk(h[f])
              /\ h.upgrade = "websocket"
              /\ h.version = "13",
     text |-> h.protocol = "text"]

VARIABLES
    text,       \* WebSocket.text
    stage,      \* "rejected", "running", "closing" (sending Close 1000), "ended"
    result,     \* the relay's result: None, "ok", "err"
    cSent,      \* frames of ClientScript the client has sent
    upEof,      \* the client has closed its side
    cRead,      \* frames WebSocketReader has read
    aPc,        \* ws_future: "read" or "write" (copy holds data for downstream)
    aBuf,       \* the data copy holds
    toBackend,  \* bytes written to downstream
    ctrl,       \* the control channel tx -> rx
    bSent,      \* bytes of BackendScript the backend has produced
    downEof,    \* the backend has closed its side
    bRead,      \* bytes copy_to_websocket has read
    bPc,        \* term_future: "select", "write" (a frame in progress), "done"
    frame,      \* the frame being written to the client
    part,       \* part of that frame is already on the wire
    cout        \* complete frames on the wire to the client

vars == <<text, stage, result, cSent, upEof, cRead, aPc, aBuf, toBackend, ctrl,
          bSent, downEof, bRead, bPc, frame, part, cout>>

Bytes == {b : b \in 0..255}
Frames == [op : {"text", "binary", "ping", "pong", "close"}, val : Seq(Bytes)]

TypeOK ==
    /\ text \in BOOLEAN
    /\ stage \in {"rejected", "running", "closing", "ended"}
    /\ result \in {None, "ok", "err"}
    /\ cSent \in 0..Len(ClientScript) /\ cRead \in 0..cSent
    /\ bSent \in 0..Len(BackendScript) /\ bRead \in 0..bSent
    /\ {upEof, downEof, part} \subseteq BOOLEAN
    /\ aPc \in {"read", "write"} /\ bPc \in {"select", "write", "done"}
    /\ bPc = "write" => frame \in Frames
    /\ part => frame \in Frames
    /\ \A i \in 1..Len(cout) : cout[i] \in Frames

Init ==
    /\ \E h \in Requests :
          /\ text = new(h).text
          /\ stage = IF new(h).ok THEN "running" ELSE "rejected"
    /\ result = None
    /\ cSent = 0 /\ upEof = FALSE /\ cRead = 0
    /\ aPc = "read" /\ aBuf = <<>> /\ toBackend = <<>> /\ ctrl = <<>>
    /\ bSent = 0 /\ downEof = FALSE /\ bRead = 0
    /\ bPc = "select" /\ frame = None /\ part = FALSE /\ cout = <<>>

Live == stage \in {"running", "closing"}

(***************************************************************************)
(* The environment: the client sends its frames and may hang up at any     *)
(* time; the backend produces its bytes and may reach EOF at any time.     *)
(***************************************************************************)
ClientSend ==
    /\ Live /\ ~upEof /\ cSent < Len(ClientScript)
    /\ cSent' = cSent + 1
    /\ UNCHANGED <<text, stage, result, upEof, cRead, aPc, aBuf, toBackend, ctrl,
                   bSent, downEof, bRead, bPc, frame, part, cout>>

ClientHangup ==
    /\ Live /\ ~upEof
    /\ upEof' = TRUE
    /\ UNCHANGED <<text, stage, result, cSent, cRead, aPc, aBuf, toBackend, ctrl,
                   bSent, downEof, bRead, bPc, frame, part, cout>>

BackendSend ==
    /\ Live /\ ~downEof /\ bSent < Len(BackendScript)
    /\ bSent' = bSent + 1
    /\ UNCHANGED <<text, stage, result, cSent, upEof, cRead, aPc, aBuf, toBackend,
                   ctrl, downEof, bRead, bPc, frame, part, cout>>

BackendEof ==
    /\ Live /\ ~downEof
    /\ downEof' = TRUE
    /\ UNCHANGED <<text, stage, result, cSent, upEof, cRead, aPc, aBuf, toBackend,
                   ctrl, bSent, bRead, bPc, frame, part, cout>>

\* One of the two futures completes: select! returns and drops the other.
Ends(r) ==
    /\ stage' = "ended"
    /\ result' = r
    /\ bPc' = "done"

(***************************************************************************)
(* ws_future: tokio::io::copy from WebSocketReader to downstream.          *)
(***************************************************************************)
ReadFrame ==
    /\ stage = "running" /\ aPc = "read" /\ cRead < cSent
    /\ LET f == ClientScript[cRead + 1] IN
       IF f.op \in {"text", "binary"}
         THEN /\ aBuf' = f.val
              /\ aPc' = "write"
              /\ UNCHANGED ctrl
         ELSE /\ ctrl' = Append(ctrl, f)
              /\ UNCHANGED <<aPc, aBuf>>
    /\ cRead' = cRead + 1
    /\ UNCHANGED <<text, stage, result, cSent, upEof, toBackend, bSent, downEof,
                   bRead, bPc, frame, part, cout>>

WriteBackend ==
    /\ stage = "running" /\ aPc = "write"
    /\ toBackend' = toBackend \o aBuf
    /\ aPc' = "read"
    /\ aBuf' = <<>>
    /\ UNCHANGED <<text, stage, result, cSent, upEof, cRead, ctrl, bSent, downEof,
                   bRead, bPc, frame, part, cout>>

\* The reader returns 0 at the client's EOF: copy returns Ok and wins.
ReadEof ==
    /\ stage = "running" /\ aPc = "read" /\ cRead = cSent /\ upEof
    /\ Ends("ok")
    /\ UNCHANGED <<text, cSent, upEof, cRead, aPc, aBuf, toBackend, ctrl, bSent,
                   downEof, bRead, frame, part, cout>>

\* A protocol error of the reader or a failed write to downstream.
AFails ==
    /\ stage = "running"
    /\ Ends("err")
    /\ UNCHANGED <<text, cSent, upEof, cRead, aPc, aBuf, toBackend, ctrl, bSent,
                   downEof, bRead, frame, part, cout>>

(***************************************************************************)
(* term_future: copy_to_websocket. The select! between the downstream read *)
(* and rx.recv() takes any ready branch.                                   *)
(***************************************************************************)
DataFrame(d) == [op |-> IF text THEN "text" ELSE "binary", val |-> d]

SelectBackend ==
    /\ stage = "running" /\ bPc = "select" /\ bRead < bSent
    /\ \E n \in 1..(bSent - bRead) :
          /\ frame' = DataFrame(SubSeq(BackendScript, bRead + 1, bRead + n))
          /\ bRead' = bRead + n
    /\ bPc' = "write"
    /\ UNCHANGED <<text, stage, result, cSent, upEof, cRead, aPc, aBuf, toBackend,
                   ctrl, bSent, downEof, part, cout>>

\* read_from_async returns 0: eof with an empty buffer returns Ok(false);
\* select! in serve_connection then sends Close 1000.
SelectBackendEof ==
    /\ stage = "running" /\ bPc = "select" /\ bRead = bSent /\ downEof
    /\ stage' = "closing"
    /\ frame' = [op |-> "close", val |-> NormalClosure]
    /\ bPc' = "write"
    /\ UNCHANGED <<text, result, cSent, upEof, cRead, aPc, aBuf, toBackend, ctrl,
                   bSent, downEof, bRead, part, cout>>

\* The match on the opcode received from rx: the reply, or None to continue.
Reply_noPong(m) ==
    IF m.op = "close" THEN [op |-> "close", val |-> m.val] ELSE None
Reply(m) ==
    CASE m.op = "ping"  -> [op |-> "pong", val |-> m.val]
      [] m.op = "close" -> [op |-> "close", val |-> m.val]
      [] OTHER          -> None

SelectControl_writesAll ==
    /\ stage = "running" /\ bPc = "select" /\ ctrl # <<>>
    /\ ctrl' = Tail(ctrl)
    /\ frame' = Reply(Head(ctrl))
    /\ bPc' = "write"
    /\ UNCHANGED <<text, stage, result, cSent, upEof, cRead, aPc, aBuf, toBackend,
                   bSent, downEof, bRead, part, cout>>
SelectControl ==
    /\ stage = "running" /\ bPc = "select" /\ ctrl # <<>>
    /\ ctrl' = Tail(ctrl)
    /\ frame' = Reply(Head(ctrl))
    /\ bPc' = IF Reply(Head(ctrl)) = None THEN "select" ELSE "write"
    /\ UNCHANGED <<text, stage, result, cSent, upEof, cRead, aPc, aBuf, toBackend,
                   bSent, downEof, bRead, part, cout>>

\* The frame just written makes the relay return: the echoed Close
\* (return Ok(true)), or the Close 1000 of serve_connection.
Returns_closingOnly(f) == stage = "closing"
Returns(f) == stage = "closing" \/ f.op = "close"

\* WebSocketWriter::poll_write / write_all: the sink takes part of the
\* frame (the writer keeps the offset), or the rest of it.
SinkPartial ==
    /\ Live /\ bPc = "write" /\ ~part
    /\ part' = TRUE
    /\ UNCHANGED <<text, stage, result, cSent, upEof, cRead, aPc, aBuf, toBackend,
                   ctrl, bSent, downEof, bRead, bPc, frame, cout>>

SinkComplete ==
    /\ Live /\ bPc = "write"
    /\ cout' = Append(cout, frame)
    /\ part' = FALSE
    /\ frame' = None
    /\ IF Returns(frame)
         THEN Ends("ok")
         ELSE /\ bPc' = "select"
              /\ UNCHANGED <<stage, result>>
    /\ UNCHANGED <<text, cSent, upEof, cRead, aPc, aBuf, toBackend, ctrl, bSent,
                   downEof, bRead>>

\* A failed downstream read or upstream write: Err out of term_future (or
\* out of the final send_control_frame).
BFails ==
    /\ Live /\ bPc \in {"select", "write"}
    /\ Ends("err")
    /\ UNCHANGED <<text, cSent, upEof, cRead, aPc, aBuf, toBackend, ctrl, bSent,
                   downEof, bRead, frame, part, cout>>

Environment == ClientSend \/ ClientHangup \/ BackendSend \/ BackendEof
WsFuture == ReadFrame \/ WriteBackend \/ ReadEof
TermFuture == SelectBackend \/ SelectBackendEof \/ SelectControl
              \/ SinkPartial \/ SinkComplete

Next == Environment \/ WsFuture \/ TermFuture \/ AFails \/ BFails

(***************************************************************************)
(* The runtime polls the task while a future can progress; the sink (the  *)
(* client's socket) keeps taking bytes. futures::select! picks a ready     *)
(* branch at random, so a branch that is ready again and again is taken    *)
(* (strong fairness).                                                      *)
(***************************************************************************)
Spec ==
    /\ Init /\ [][Next]_vars
    /\ WF_vars(WsFuture) /\ WF_vars(SinkComplete)
    /\ SF_vars(SelectBackend) /\ SF_vars(SelectBackendEof) /\ SF_vars(SelectControl)

(***************************************************************************)
(* Properties                                                              *)
(***************************************************************************)
PingsRead == Len(SelectSeq(SubSeq(ClientScript, 1, cRead), LAMBDA f : f.op = "ping"))
PongsWritten == Len(SelectSeq(cout, LAMBDA f : f.op = "pong"))

\* Every Ping the reader put on the control channel is eventually answered
\* by a Pong on the wire, or the relay ends, although copy_to_websocket
\* may keep choosing backend data in its select!.
PingAnswered ==
    \A k \in 1..Len(ClientScript) :
        (PingsRead >= k) ~> (PongsWritten >= k \/ stage = "ended")

(***************************************************************************)
(* Well-formed UTF-8 (RFC 3629, section 4): a lead byte, then as many      *)
(* continuation bytes 0x80..0xBF as it announces; the second byte after    *)
(* E0, ED, F0 and F4 has a narrower range (no overlong forms, surrogates   *)
(* or code points above U+10FFFF).                                         *)
(***************************************************************************)
Cont == 128..191
\* the continuation bytes lead byte b announces, for a valid lead byte
Trail(b) == CASE b \in 0..127 -> 0 [] b \in 194..223 -> 1
               [] b \in 224..239 -> 2 [] b \in 240..244 -> 3
SecondRange(b) == CASE b = 224 -> 160..191 [] b = 237 -> 128..159
                    [] b = 240 -> 144..191 [] b = 244 -> 128..143
                    [] OTHER -> Cont
RECURSIVE Utf8(_)
Utf8(s) ==
    \/ s = <<>>
    \/ LET b == Head(s) IN
          /\ b \in (0..127) \cup (194..244)
          /\ Len(s) > Trail(b)
          /\ Trail(b) > 0 => s[2] \in SecondRange(b)
          /\ \A i \in 3..(Trail(b) + 1) : s[i] \in Cont
          /\ Utf8(SubSeq(s, Trail(b) + 2, Len(s)))

\* (RFC 6455, 5.6 and 8.1) The payload of a Text message is UTF-8; a client
\* that finds otherwise fails the connection. Every Text frame
\* copy_to_websocket writes is a whole message (FIN set), so when the
\* backend's output is UTF-8 each Text frame on the wire must be, however
\* read_from_async splits that output.
TextFramesUtf8 ==
    Utf8(BackendScript) =>
        \A i \in 1..Len(cout) : cout[i].op = "text" => Utf8(cout[i].val)

\* The refinement mapping: data frames of either type are the abstract
\* data frames, the relay is closed when serve_connection has returned.
AbstractFrame(f) == IF f.op \in {"text", "binary"} THEN [op |-> "data", val |-> f.val] ELSE f

R == INSTANCE Relay WITH
        ClientScript <- [i \in 1..Len(ClientScript) |-> AbstractFrame(ClientScript[i])],
        fromClient <- cSent, fromBackend <- bSent, backendEof <- downEof,
        toBackend <- toBackend,
        toClient <- [i \in 1..Len(cout) |-> AbstractFrame(cout[i])],
        closed <- stage = "ended"

\* serve_connection implements Relay: data both ways in order, a Pong
\* echoing each Ping in order, the client's Close echoed, Close 1000 only
\* after all backend data, and nothing after a Close.
RelaySpec == R!RSpec
=============================================================================
