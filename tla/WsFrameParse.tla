----------------------------- MODULE WsFrameParse -----------------------------
(***************************************************************************)
(* A frame produced by create_frame (or raw header bytes from a peer) fed  *)
(* to FrameHeader::try_from_bytes the way the doc comment of               *)
(* try_from_bytes says a caller retries: give it the bytes it asked for    *)
(* and parse again; then unmask the payload with mask_bytes, as            *)
(* WebSocketReader::poll_read does.  The inputs cover the length-encoding  *)
(* boundaries, every opcode, masks and buffer alignments of the u32 path.  *)
(***************************************************************************)
EXTENDS Naturals, Sequences, WsFrame

CONSTANTS
    Inputs,      \* frames to encode: [kind |-> "encode", len, op, mask,
                 \*   align (of create_frame's buffer), alignDec (of the
                 \*   reader's buffer)], or [kind |-> "raw", bytes]
    PayloadCap   \* payloads longer than this are not materialised: only
                 \* their header is encoded and parsed

\* The data written: a fixed pattern that tells every position apart.
Payload(len) == [i \in 1..len |-> (7 * i + 3) % 256]

Materialised(in) == in.kind = "encode" /\ in.len <= PayloadCap

VARIABLES
    input,    \* the frame under test
    phase,    \* "encode", "parse", "unmask", "done", "rejected", "invalid"
    wire,     \* the bytes the peer sends
    fed,      \* how many of them have been given to try_from_bytes
    parsed,   \* the last result of try_from_bytes
    payload   \* the unmasked payload

vars == <<input, phase, wire, fed, parsed, payload>>

Init ==
    /\ input \in Inputs
    /\ phase = "encode"
    /\ wire = <<>>
    /\ fed = 0
    /\ parsed = NeedMore(2)
    /\ payload = <<>>

\* create_frame succeeds: the whole frame, or the header only for a payload
\* too long to materialise.
EncodeFrame ==
    /\ phase = "encode"
    /\ input.kind = "encode"
    /\ ~CreateFrameError(input.len, input.op)
    /\ wire' = IF Materialised(input)
               THEN create_frame(input.mask, Payload(input.len), input.op,
                                 input.align).bytes
               ELSE frame_header(input.mask, input.len, input.op)
    /\ phase' = "parse"
    /\ UNCHANGED <<input, fed, parsed, payload>>

\* create_frame returns the "Control frames cannot have data longer than
\* 125 bytes" error.
EncodeRejected ==
    /\ phase = "encode"
    /\ input.kind = "encode"
    /\ CreateFrameError(input.len, input.op)
    /\ phase' = "rejected"
    /\ UNCHANGED <<input, wire, fed, parsed, payload>>

\* Bytes from a peer, not produced by create_frame.
ReceiveRaw ==
    /\ phase = "encode"
    /\ input.kind = "raw"
    /\ wire' = input.bytes
    /\ phase' = "parse"
    /\ UNCHANGED <<input, fed, parsed, payload>>

\* Supply the bytes try_from_bytes asked for and parse again.
Feed ==
    /\ phase = "parse"
    /\ parsed.kind = "NeedMore"
    /\ LET n == IF fed + parsed.need <= Len(wire) THEN fed + parsed.need
                ELSE Len(wire)
           res == try_from_bytes(SubSeq(wire, 1, n))
       IN /\ fed' = n
          /\ parsed' = res
          /\ phase' = CASE res.kind = "Ok" -> "unmask"
                        [] res.kind = "Invalid" -> "invalid"
                        [] OTHER -> "parse"
    /\ UNCHANGED <<input, wire, payload>>

\* Remove header_len bytes and unmask payload_len bytes (the reader's
\* buffer has its own alignment).
Unmask ==
    /\ phase = "unmask"
    /\ LET h == parsed.header
           align == IF input.kind = "encode" THEN input.alignDec ELSE 0
       IN payload' =
            IF Len(wire) >= h.header_len + h.payload_len
            THEN mask_bytes(h.mask, SubSeq(wire, h.header_len + 1,
                                         h.header_len + h.payload_len), align)
            ELSE <<>>
    /\ phase' = "done"
    /\ UNCHANGED <<input, wire, fed, parsed>>

Next == EncodeFrame \/ EncodeRejected \/ ReceiveRaw \/ Feed \/ Unmask

Spec == Init /\ [][Next]_vars

-----------------------------------------------------------------------------
(* Reference definitions, written from RFC 6455 section 5.2 as the spec   *)
(* states it, independently of the code.                                  *)

RefMaskLen(b1) == IF b1 >= 128 THEN 4 ELSE 0
RefExtLen(b1) == CASE b1 % 128 = 126 -> 2 [] b1 % 128 = 127 -> 8 [] OTHER -> 0
RefHeaderLen(bs) == 2 + RefExtLen(bs[2]) + RefMaskLen(bs[2])
RefPayloadLen(bs) ==
    IF RefExtLen(bs[2]) = 0 THEN bs[2] % 128
    ELSE BigEndianValue(SubSeq(bs, 3, 2 + RefExtLen(bs[2])))
RefControl(code) == code \in {8, 9, 10}
\* a header the spec's data model admits: reserved bits zero, a known
\* opcode, control frames final and at most 125 bytes long
RefValid(bs) ==
    /\ (bs[1] \div 16) % 8 = 0
    /\ bs[1] % 16 \in {0, 1, 2, 8, 9, 10}
    /\ RefControl(bs[1] % 16) => (bs[1] >= 128 /\ RefPayloadLen(bs) <= 125)

-----------------------------------------------------------------------------
TypeOK ==
    /\ input \in Inputs
    /\ phase \in {"encode", "parse", "unmask", "done", "rejected", "invalid"}
    /\ wire \in Seq(0..255)
    /\ fed \in 0..Len(wire)
    /\ parsed.kind \in {"Ok", "NeedMore", "Invalid"}
    /\ parsed.kind = "Ok" => parsed.header \in FrameHeader
    /\ payload \in Seq(0..255)

\* Round trip of create_frame, try_from_bytes and mask_bytes: the header
\* parsed from a frame create_frame wrote has the fields it was written
\* with, and the unmasked payload is the data, whatever the alignment of
\* the encoding and of the decoding buffer.
RoundTrip ==
    (phase = "done" /\ input.kind = "encode") =>
        /\ parsed.header = [fin |-> TRUE, mask |-> input.mask,
                            frametype |-> input.op,
                            payload_len |-> input.len,
                            header_len |-> Len(frame_header(input.mask,
                                                   input.len, input.op))]
        /\ Materialised(input) => payload = Payload(input.len)

\* The u32 path of mask_bytes (prefix, aligned words, suffix) writes the
\* same bytes as the naive per-byte XOR with mask[i % 4], for every length
\* and buffer alignment.
MaskMatchesNaive ==
    (Materialised(input) /\ phase \in {"parse", "unmask", "done"}) =>
        LET hl == Len(frame_header(input.mask, input.len, input.op))
            naive == IF input.mask = NoMask THEN Payload(input.len)
                     ELSE [i \in 1..input.len |->
                             Payload(input.len)[i] ^^ input.mask[((i - 1) % 4) + 1]]
        IN SubSeq(wire, hl + 1, Len(wire)) = naive

\* try_from_bytes accepts exactly the headers the spec's data model admits
\* (reserved bits, opcode, fragmented or oversized control frames).
ParseAgreesWithReference ==
    phase \in {"invalid", "done"} => (phase = "invalid" <=> ~RefValid(wire))

\* The byte count try_from_bytes asks for never reaches past the end of the
\* header: a caller that waits for exactly that many bytes is never left
\* waiting for payload bytes it cannot know will come.
NeedNeverOvershoots ==
    (phase = "parse" /\ Len(wire) >= 2) =>
        fed + parsed.need <= RefHeaderLen(wire)
=============================================================================
