------------------------------- MODULE WsReader -------------------------------
(***************************************************************************)
(* WebSocketReader::poll_read (proxmox/src/tools/websocket.rs) driven the  *)
(* way serve_connection drives it: tokio::io::copy calls poll_read again   *)
(* and again with its buffer until it returns 0 or an error.  The peer is  *)
(* a browser that sends a script of frames written by create_frame and     *)
(* then closes; TCP hands them to the reader in chunks of any size.        *)
(*                                                                         *)
(* One action per arm of the ReaderState match (NoData, WaitingForData,    *)
(* HaveData); an arm that ends in `continue` leaves the call active, one   *)
(* that returns ends it.  The reader/buffer Options that the arms take and *)
(* put back within the same arm are not state of their own.                *)
(***************************************************************************)
EXTENDS Naturals, Sequences, FiniteSets, SequencesExt, WsFrame

CONSTANTS
    Scripts,      \* sequences of frames [op, mask, data] the peer may send;
                  \* op "Reserved" stands for a header with RSV1 set
    Capacity,     \* capacity of the read ByteBuffer (4096 in `new`)
    MaxChunk,     \* most bytes one read of the socket returns
    CallerSpace   \* sizes of the buffer tokio::io::copy passes to poll_read

\* create_frame's output for a frame of the script
FrameBytes(f) ==
    IF f.op \in OpCode THEN create_frame(f.mask, f.data, f.op, 0).bytes
    ELSE <<193, 0>>

WireOf(script) == FlattenSeq([i \in 1..Len(script) |-> FrameBytes(script[i])])

\* header_len and payload_len are both bounded, and the reader never holds
\* more than an incomplete header plus one chunk; no refill finds the
\* buffer full while a frame is incomplete (see README).
ASSUME Capacity >= 14 + MaxChunk

NoHeader == [none |-> TRUE]

\* enum ReaderState (the future of WaitingForData is the read in flight)
ReaderState == {"NoData", "WaitingForData", "HaveData"}

VARIABLES
    script,     \* the frames the peer sends (fixed in a behaviour)
    rpos,       \* bytes of WireOf(script) read from the socket so far
    state,      \* ReaderState: "NoData", "WaitingForData", "HaveData"
    buf,        \* read_buffer contents
    header,     \* the partially consumed FrameHeader, or NoHeader
    calling,    \* a poll_read call is in progress
    space,      \* buf.len() of the caller's buffer in that call
    out,        \* buf[..offset]: bytes copied into the caller's buffer
                \* in the current (or last) call
    delivered,  \* every byte poll_read returned (what copy wrote on)
    ctrl,       \* (opcode, payload) pairs sent on the control channel
    result      \* "none" while copying, "eof" or "err" when copy stopped

vars == <<script, rpos, state, buf, header, calling, space, out,
          delivered, ctrl, result>>

Wire == WireOf(script)

Init ==
    /\ script \in Scripts
    /\ rpos = 0
    /\ state = "NoData"
    /\ buf = <<>>
    /\ header = NoHeader
    /\ calling = FALSE
    /\ space = 0
    /\ out = <<>>
    /\ delivered = <<>>
    /\ ctrl = <<>>
    /\ result = "none"

\* tokio::io::copy polls the reader with the free part of its buffer.
BeginRead ==
    /\ ~calling
    /\ result = "none"
    /\ \E s \in CallerSpace : space' = s
    /\ calling' = TRUE
    /\ out' = <<>>
    /\ UNCHANGED <<script, rpos, state, buf, header, delivered, ctrl, result>>

\* Poll::Ready(r) from poll_read
Return(r) ==
    /\ calling' = FALSE
    /\ result' = r

\* NoData arm: box a future that reads the socket into the buffer.
StartRead ==
    /\ calling
    /\ state = "NoData"
    /\ state' = "WaitingForData"
    /\ UNCHANGED <<script, rpos, buf, header, calling, space, out,
                   delivered, ctrl, result>>

\* WaitingForData arm, the future ready with Ok: read_from_async read n
\* bytes into the free part of the buffer (n = 0 at end of stream, and
\* also when the buffer has no free space).
ReadDone ==
    /\ calling
    /\ state = "WaitingForData"
    /\ LET free == Capacity - Len(buf)
           remain == Len(Wire) - rpos
           sizes == IF remain = 0 \/ free = 0 THEN {0}
                    ELSE 1..Min({MaxChunk, remain, free})
       IN \E n \in sizes :
            /\ buf' = buf \o SubSeq(Wire, rpos + 1, rpos + n)
            /\ rpos' = rpos + n
            /\ state' = "HaveData"
            /\ IF n = 0 THEN Return("eof") ELSE UNCHANGED <<calling, result>>
    /\ UNCHANGED <<script, header, space, out, delivered, ctrl>>

\* WaitingForData arm, the future ready with Err (connection reset).
ReadFailed ==
    /\ calling
    /\ state = "WaitingForData"
    /\ Return("err")
    /\ UNCHANGED <<script, rpos, state, buf, header, space, out,
                   delivered, ctrl>>

\* Mutant of ParseIncomplete: the state is left at HaveData.
ParseIncomplete_stuck ==
    /\ calling
    /\ state = "HaveData"
    /\ header = NoHeader
    /\ try_from_bytes(buf).kind = "NeedMore"
    /\ UNCHANGED vars

\* HaveData arm, no pending header and try_from_bytes needs more bytes.
ParseIncomplete ==
    /\ calling
    /\ state = "HaveData"
    /\ header = NoHeader
    /\ try_from_bytes(buf).kind = "NeedMore"
    /\ state' = "NoData"
    /\ UNCHANGED <<script, rpos, buf, header, calling, space, out,
                   delivered, ctrl, result>>

\* HaveData arm, try_from_bytes fails: the `?` returns the error.
ParseInvalid ==
    /\ calling
    /\ state = "HaveData"
    /\ header = NoHeader
    /\ try_from_bytes(buf).kind = "Invalid"
    /\ Return("err")
    /\ UNCHANGED <<script, rpos, state, buf, header, space, out,
                   delivered, ctrl>>

\* The header the HaveData arm works on, and the buffer after it: the
\* pending one, or one just parsed whose header_len bytes are consumed.
CurrentHeader ==
    IF header # NoHeader THEN header ELSE try_from_bytes(buf).header
BufAfterHeader ==
    IF header # NoHeader THEN buf
    ELSE SubSeq(buf, try_from_bytes(buf).header.header_len + 1, Len(buf))

\* Mutant of NextState: NoData even when bytes are left in the buffer.
NextState_alwaysNoData(b) == "NoData"

\* `if read_buffer.is_empty() { NoData } else { HaveData }`
NextState(b) == IF b = <<>> THEN "NoData" ELSE "HaveData"

\* Mutant of ControlData: the payload goes on the channel still masked.
ControlData_masked(h, b, align) == SubSeq(b, 1, h.payload_len)

\* remove_data(header.payload_len), then mask_bytes(header.mask, &mut data)
ControlData(h, b, align) == mask_bytes(h.mask, SubSeq(b, 1, h.payload_len), align)

\* HaveData arm, a control frame whose payload is buffered: unmask it,
\* send it on the channel, drop the header, continue.
ControlFrame ==
    /\ calling
    /\ state = "HaveData"
    /\ header # NoHeader \/ try_from_bytes(buf).kind = "Ok"
    /\ LET h == CurrentHeader
           b == BufAfterHeader
       IN /\ is_control_frame(h)
          /\ Len(b) >= h.payload_len
          /\ \E align \in 0..3 :
               ctrl' = Append(ctrl, [op |-> h.frametype,
                                     data |-> ControlData(h, b, align)])
          /\ buf' = SubSeq(b, h.payload_len + 1, Len(b))
          /\ state' = NextState(buf')
          /\ header' = NoHeader
    /\ UNCHANGED <<script, rpos, calling, space, out, delivered, result>>

\* HaveData arm, a control frame whose payload is not all buffered: keep
\* the header and read more.
ControlIncomplete ==
    /\ calling
    /\ state = "HaveData"
    /\ header # NoHeader \/ try_from_bytes(buf).kind = "Ok"
    /\ LET h == CurrentHeader
           b == BufAfterHeader
       IN /\ is_control_frame(h)
          /\ Len(b) < h.payload_len
          /\ header' = h
          /\ buf' = b
          /\ state' = "NoData"
    /\ UNCHANGED <<script, rpos, calling, space, out, delivered, ctrl, result>>

\* Mutant of ChunkLen: the caller's free space is not taken into account.
ChunkLen_ignoreSpace(h, b) == Min({h.payload_len, Len(b)})

\* min(buf.len() - offset, min(header.payload_len, read_buffer.len()))
ChunkLen(h, b) == Min({space - Len(out), h.payload_len, Len(b)})

\* Mutant of ReturnsData: poll_read returns only once the caller's buffer
\* is full.
ReturnsData_whenFull(copied) == Len(copied) = space

\* `if offset > 0 { return Poll::Ready(Ok(offset)) }`
ReturnsData(copied) == Len(copied) > 0

\* HaveData arm, a data frame: copy ChunkLen bytes, unmask them with
\* mask_bytes(header.mask, ..), count them off payload_len, keep the header
\* while payload is left, and return offset if it is not 0.
DataChunk ==
    /\ calling
    /\ state = "HaveData"
    /\ header # NoHeader \/ try_from_bytes(buf).kind = "Ok"
    /\ LET h == CurrentHeader
           b == BufAfterHeader
           len == ChunkLen(h, b)
       IN /\ ~is_control_frame(h)
          /\ header' = IF h.payload_len - len > 0
                       THEN [h EXCEPT !.payload_len = h.payload_len - len]
                       ELSE NoHeader
          /\ buf' = SubSeq(b, len + 1, Len(b))
          /\ state' = NextState(buf')
          /\ \E align \in 0..3 :
               LET copied == out \o mask_bytes(h.mask, SubSeq(b, 1, len), align)
               IN IF ReturnsData(copied)
                  THEN /\ delivered' = delivered \o copied
                       /\ out' = copied
                       /\ Return("none")
                  ELSE /\ out' = copied
                       /\ UNCHANGED <<delivered, calling, result>>
    /\ UNCHANGED <<script, rpos, space, ctrl>>

Next ==
    \/ BeginRead \/ StartRead \/ ReadDone \/ ReadFailed
    \/ ParseIncomplete \/ ParseInvalid
    \/ ControlFrame \/ ControlIncomplete \/ DataChunk

\* The runtime polls the task while poll_read is pending on a socket that
\* has data or EOF, and copy keeps calling until 0 or an error.  A reset
\* connection (ReadFailed) is the peer's choice and is not fair.
ReaderSteps ==
    BeginRead \/ StartRead \/ ReadDone \/ ParseIncomplete \/ ParseInvalid
    \/ ControlFrame \/ ControlIncomplete \/ DataChunk

Spec == Init /\ [][Next]_vars /\ WF_vars(ReaderSteps)

-----------------------------------------------------------------------------
(* What the peer sent, frame by frame *)

IsData(f) == f.op \in OpCode /\ ~is_control(f.op)
IsCtrl(f) == f.op \in OpCode /\ is_control(f.op)
\* the script up to its first malformed frame: all the reader can decode
Decodable ==
    LET bad == {i \in 1..Len(script) : script[i].op \notin OpCode}
        n == IF bad = {} THEN Len(script) ELSE Min(bad) - 1
    IN SubSeq(script, 1, n)
\* the payload bytes of a sequence of frames, concatenated
PayloadOf(fs) == FlattenSeq([i \in 1..Len(fs) |-> fs[i].data])
ExpectedData == PayloadOf(SelectSeq(Decodable, IsData))
ExpectedCtrl ==
    LET cs == SelectSeq(Decodable, IsCtrl)
    IN [i \in 1..Len(cs) |-> [op |-> cs[i].op, data |-> cs[i].data]]
\* data bytes the peer sent before its k-th control frame
DataBefore(k) ==
    LET idx == {i \in 1..Len(script) : IsCtrl(script[i])}
        at == CHOOSE i \in idx :
                Cardinality({j \in idx : j <= i}) = k
    IN Len(PayloadOf(SelectSeq(SubSeq(script, 1, at - 1), IsData)))

-----------------------------------------------------------------------------
TypeOK ==
    /\ rpos \in 0..Len(Wire)
    /\ state \in ReaderState
    /\ header \in FrameHeader \cup {NoHeader}
    /\ buf \in Seq(0..255) /\ Len(buf) <= Capacity
    /\ calling \in BOOLEAN
    /\ out \in Seq(0..255) /\ Len(out) <= space
    /\ delivered \in Seq(0..255)
    /\ result \in {"none", "eof", "err"}

\* Control frames reach the channel whole, unmasked, and in the order the
\* peer sent them, however TCP split the stream.
ControlIntact == IsPrefix(ctrl, ExpectedCtrl)

\* Control frames are delivered in natural arrival order with the data: by
\* the time a control frame is on the channel, every data byte the peer
\* sent before it has been returned by poll_read.
ArrivalOrder ==
    Len(ctrl) > 0 => Len(delivered) >= DataBefore(Len(ctrl))

\* poll_read reports the end of the stream (Ok(0)) only after the peer
\* closed and every frame it sent was demultiplexed: all data returned,
\* every control frame on the channel.
CleanEof ==
    result = "eof" =>
        /\ rpos = Len(Wire)
        /\ Len(delivered) = Len(ExpectedData)
        /\ ctrl = ExpectedCtrl

\* copy (ws_future in serve_connection) always finishes: the reader never
\* spins or waits forever on a stream the peer has sent and closed.
CopyTerminates == <>(result # "none")

\* The data poll_read returns is the payload the peer sent, unmasked.
DataIntegrity == IsPrefix(delivered, ExpectedData)
=============================================================================
