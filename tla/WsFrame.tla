------------------------------- MODULE WsFrame -------------------------------
(***************************************************************************)
(* The WebSocket frame codec of proxmox/src/tools/websocket.rs: the OpCode *)
(* enum, mask_bytes, create_frame and FrameHeader::try_from_bytes, written *)
(* as operators over byte sequences (a byte is a number in 0..255).        *)
(*                                                                         *)
(* Option<[u8; 4]> is a sequence: <<>> for None, <<m0, m1, m2, m3>> for    *)
(* Some.  The result of try_from_bytes, io::Result<Result<FrameHeader,     *)
(* usize>>, is a record whose kind is "Ok", "NeedMore" or "Invalid".       *)
(*                                                                         *)
(* mask_bytes takes the u32 path for buffers of 32 bytes and more; how     *)
(* many bytes `align_to_mut::<u32>` puts in the unaligned prefix depends   *)
(* on the buffer's address, which the program does not control: it is     *)
(* the parameter `align` (0..3) and callers choose it nondeterministically.*)
(***************************************************************************)
EXTENDS Naturals, Sequences, SequencesExt, Functions, Bitwise

CONSTANT NativeLittleEndian   \* byte order of the build target (u32 words)

NoMask == <<>>

\* enum OpCode with its #[repr(u8)] discriminants
OpCodeValue == [Continuation |-> 0, Text |-> 1, Binary |-> 2,
                Close |-> 8, Ping |-> 9, Pong |-> 10]
OpCode == DOMAIN OpCodeValue

\* OpCode::is_control: (self as u8 & 0b1000) > 0
is_control(op) == (OpCodeValue[op] \div 8) % 2 = 1

\* Byte j (0-based, little-endian) of `newmask` = u32::from_le_bytes(mask)
\* after r calls of newmask.rotate_right(8).
NewMaskByte(mask, r, j) == mask[((r + j) % 4) + 1]

\* The byte XORed into memory offset j of an aligned u32 word by
\* `*m ^= newmask`: the word is stored in the target's native byte order.
WordByte(mask, r, j) ==
    IF NativeLittleEndian THEN NewMaskByte(mask, r, j)
                          ELSE NewMaskByte(mask, r, 3 - j)

\* Mutant of mask_key: the prefix loop forgets to rotate the mask.
mask_key_norotate(mask, n, align, o) ==
    LET p == IF align < n THEN align ELSE n
        words == (n - p) \div 4
    IN IF o < p THEN NewMaskByte(mask, 0, 0)
       ELSE IF o < p + 4 * words THEN WordByte(mask, p, (o - p) % 4)
       ELSE NewMaskByte(mask, p + (o - p - 4 * words), 0)

\* The u32 path of mask_bytes: the mask byte XORed into offset o (0-based)
\* of an n-byte buffer.  Prefix bytes use the low byte of newmask and
\* rotate it; aligned middle words XOR the whole word without rotating;
\* suffix bytes continue rotating.  p is the unaligned prefix length.
mask_key(mask, n, align, o) ==
    LET p == IF align < n THEN align ELSE n
        words == (n - p) \div 4
    IN IF o < p THEN NewMaskByte(mask, o, 0)
       ELSE IF o < p + 4 * words THEN WordByte(mask, p, (o - p) % 4)
       ELSE NewMaskByte(mask, p + (o - p - 4 * words), 0)

\* mask_bytes: a no-op for None and [0,0,0,0]; byte-wise with mask[i % 4]
\* below 32 bytes; the u32 path otherwise.
mask_bytes(mask, data, align) ==
    LET n == Len(data) IN
    IF mask = NoMask \/ mask = <<0, 0, 0, 0>> THEN data
    ELSE IF n < 32 THEN [i \in 1..n |-> data[i] ^^ mask[((i - 1) % 4) + 1]]
    ELSE [i \in 1..n |-> data[i] ^^ mask_key(mask, n, align, i - 1)]

\* v as a w-byte big-endian sequence (to_be_bytes) and back (from_be_bytes).
\* Lengths in the models stay below 2^24, so bytes above the fourth are 0
\* (TLC's integers are 32-bit).  The first is a mutant that forgets to keep
\* only the low byte.
BigEndianBytes_nomod(v, w) ==
    [i \in 1..w |-> IF w - i >= 4 THEN 0 ELSE v \div (256 ^ (w - i))]
BigEndianBytes(v, w) ==
    [i \in 1..w |-> IF w - i >= 4 THEN 0 ELSE (v \div (256 ^ (w - i))) % 256]
BigEndianValue(bs) == FoldLeft(LAMBDA acc, b : acc * 256 + b, 0, bs)

\* create_frame refuses a control frame with more than 125 bytes of data.
CreateFrameError(len, frametype) == is_control(frametype) /\ len > 125

\* The header create_frame writes: fin set, opcode, mask bit, length
\* code (literal below 126, 16-bit below u16::MAX, else 64-bit), mask.
frame_header(mask, len, frametype) ==
    LET mask_bit == IF mask # NoMask THEN 128 ELSE 0
        lenbytes == IF len < 126 THEN <<mask_bit + len>>
                    ELSE IF len < 65535
                         THEN <<mask_bit + 126>> \o BigEndianBytes(len, 2)
                         ELSE <<mask_bit + 127>> \o BigEndianBytes(len, 8)
    IN <<128 + OpCodeValue[frametype]>> \o lenbytes \o mask

\* create_frame: the complete frame, the payload masked in place.
create_frame(mask, data, frametype, align) ==
    IF CreateFrameError(Len(data), frametype)
    THEN [ok |-> FALSE]
    ELSE [ok |-> TRUE,
          bytes |-> frame_header(mask, Len(data), frametype)
                    \o mask_bytes(mask, data, align)]

-----------------------------------------------------------------------------
(* FrameHeader::try_from_bytes *)

NeedMore(n) == [kind |-> "NeedMore", need |-> n]
Invalid == [kind |-> "Invalid"]

\* Mutant of missing_bytes: reports the total instead of what is missing.
missing_bytes_total(have, want) == want

\* The `Ok(Err(want - len))` returns: how many bytes are still missing.
missing_bytes(have, want) == want - have

\* Mutant of fragmented_control: the check is dropped.
fragmented_control_unchecked(fin, op) == FALSE

\* "Control frames cannot be fragmented"
fragmented_control(fin, op) == ~fin /\ is_control(op)

\* Mutant of header_offsets: the mask is not counted in header_len.
header_offsets_nomask(b1) ==
    LET ext == CASE b1 % 128 = 126 -> 2 [] b1 % 128 = 127 -> 8 [] OTHER -> 0
    IN [mask_bit |-> b1 >= 128, ext |-> ext,
        mask_offset |-> 2 + ext, payload_offset |-> 2 + ext]

\* mask_offset/payload_offset from byte 1: 2, plus 2 or 8 extended length
\* bytes for length codes 126/127, plus 4 mask bytes if the mask bit is set.
header_offsets(b1) ==
    LET ext == CASE b1 % 128 = 126 -> 2 [] b1 % 128 = 127 -> 8 [] OTHER -> 0
        mask_bit == b1 >= 128
    IN [mask_bit |-> mask_bit, ext |-> ext,
        mask_offset |-> 2 + ext,
        payload_offset |-> 2 + ext + (IF mask_bit THEN 4 ELSE 0)]

try_from_bytes(data) ==
    LET len == Len(data) IN
    IF len < 2 THEN NeedMore(missing_bytes(len, 2))
    ELSE
    LET b0 == data[1]
        fin == b0 >= 128
        code == b0 % 16
        off == header_offsets(data[2])
    IN
    IF (b0 \div 16) % 8 # 0 THEN Invalid                 \* extensions
    ELSE IF code \notin Range(OpCodeValue) THEN Invalid  \* unknown opcode
    ELSE
    LET op == CHOOSE o \in OpCode : OpCodeValue[o] = code IN
    IF fragmented_control(fin, op) THEN Invalid
    ELSE IF off.ext > 0 /\ len < 2 + off.ext
         THEN NeedMore(missing_bytes(len, 2 + off.ext))
    ELSE
    LET payload_len == IF off.ext = 0 THEN data[2] % 128
                       ELSE BigEndianValue(SubSeq(data, 3, 2 + off.ext))
    IN
    IF payload_len > 125 /\ is_control(op) THEN Invalid
    ELSE IF off.mask_bit /\ len < off.mask_offset + 4
         THEN NeedMore(missing_bytes(len, off.mask_offset + 4))
    ELSE [kind |-> "Ok",
          header |-> [fin |-> fin,
                      mask |-> IF off.mask_bit
                               THEN SubSeq(data, off.mask_offset + 1,
                                           off.payload_offset)
                               ELSE NoMask,
                      frametype |-> op,
                      payload_len |-> payload_len,
                      header_len |-> off.payload_offset]]

\* struct FrameHeader: what try_from_bytes fills in.
FrameHeader == [fin : BOOLEAN, mask : {NoMask} \cup [1..4 -> 0..255],
                frametype : OpCode, payload_len : Nat, header_len : 2..14]

\* FrameHeader::is_control_frame
is_control_frame(h) == is_control(h.frametype)
=============================================================================
