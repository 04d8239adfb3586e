------------------------------ MODULE MCWsRelay ------------------------------
\* Model-checking instance of WsRelay: a client that sends data, a Ping, an
\* unsolicited Pong and a Close (status 1001); a backend that sends two bytes;
\* a text request, a binary one and one with the wrong version.
EXTENDS WsRelay

MCClientScript ==
    << [op |-> "binary", val |-> <<7, 8>>],
       [op |-> "ping",   val |-> <<5>>],
       [op |-> "pong",   val |-> <<>>],
       [op |-> "close",  val |-> <<3, 233>>] >>

MCBackendScript == <<1, 2>>

\* a backend (a terminal) that prints "é", U+00E9, encoded as C3 A9
MCUtf8BackendScript == <<195, 169>>

Request(proto, ver) ==
    [upgrade |-> "websocket", version |-> ver, key |-> "dGhlIHNhbXBsZQ==",
     protocol |-> proto]

MCRequests == {Request("text", "13"), Request("base64", "13"), Request("text", "8")}
=============================================================================
