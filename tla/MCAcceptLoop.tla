----------------------------- MODULE MCAcceptLoop -----------------------------
(* The clients the accept loop runs use: a TLS client, an HTTP client    *)
(* ("GET"), and a client whose first bytes look like a TLS record header  *)
(* with an oversized length (0x4001) and that cannot complete a handshake. *)
(* Each cfg picks the connections of its question.                        *)
EXTENDS AcceptLoop, TLC

MCConns == 1..3
MCHello == (1 :> <<22, 3, 1, 2, 0>>) @@ (2 :> <<71, 69, 84>>)
               @@ (3 :> <<22, 3, 1, 64, 1>>)
MCTlsClients == {1}
\* the TLS client and the client that cannot finish a handshake
MCLiveConns == {1, 3}
\* the TLS client and the HTTP client
MCPairConns == {1, 2}
=============================================================================
