---------------------------- MODULE MCWsFrameParse ----------------------------
(* Model of WsFrameParse: payload lengths at every boundary of create_frame *)
(* and mask_bytes, every opcode, four masks, all buffer alignments, and raw *)
(* headers a peer may send that create_frame never writes.                 *)
EXTENDS WsFrameParse

\* 0..4 and 31..33 straddle the u32 path of mask_bytes; 125..127 the 7-bit
\* length; 65534..65536 the 16-bit length.
MCLens == {0, 1, 3, 4, 5, 31, 32, 33, 34, 37, 125, 126, 127, 65534, 65535, 65536}
MCMasks == {NoMask, <<0, 0, 0, 0>>, <<1, 2, 4, 8>>, <<255, 0, 170, 85>>}

\* raw headers: a masked Ping, a non-final Ping, RSV1 set, opcode 3, a Ping
\* whose 16-bit length is 126, a Close with a non-minimal 16-bit length 125
\* (masked, payload not sent), a non-final Text, a 64-bit masked Binary
MCRaw == {<<137, 129, 1, 2, 3, 4, 171>>,
          <<9, 1, 170>>,
          <<193, 0>>,
          <<131, 0>>,
          <<137, 126, 0, 126>>,
          <<136, 254, 0, 125, 1, 2, 3, 4>>,
          <<1, 3, 7, 8, 9>>,
          <<130, 255, 0, 0, 0, 0, 0, 1, 0, 0, 9, 9, 9, 9>>}

MCInputs ==
    [kind : {"encode"}, len : MCLens, op : OpCode, mask : MCMasks,
     align : 0..3, alignDec : {0, 3}]
    \cup {[kind |-> "raw", bytes |-> b] : b \in MCRaw}
=============================================================================
