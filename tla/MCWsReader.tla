----------------------------- MODULE MCWsReader -----------------------------
\* Model of WsReader: a browser's masked frames (data frames split across
\* reads, pings and a close between them, unmasked frames, a malformed
\* header), read in chunks of 1 to 3 bytes.
EXTENDS WsReader

M == <<1, 2, 4, 8>>
Bin(data, mask) == [op |-> "Binary", mask |-> mask, data |-> data]
Ping(data) == [op |-> "Ping", mask |-> M, data |-> data]
Close(data) == [op |-> "Close", mask |-> M, data |-> data]
Bad == [op |-> "Reserved", mask |-> NoMask, data |-> <<>>]

MCScripts ==
    { << Bin(<<10, 11, 12>>, M), Ping(<<20>>), Bin(<<13, 14>>, M) >>,
      << Ping(<<21>>), Bin(<<30, 31, 32, 33, 34>>, M), Close(<<3, 232>>) >>,
      << Bin(<<40, 41>>, NoMask), Bin(<<>>, M), Close(<<3, 232>>),
         [op |-> "Pong", mask |-> NoMask, data |-> <<>>] >>,
      << Bin(<<50>>, M), Bad, Ping(<<22>>) >> }
=============================================================================
