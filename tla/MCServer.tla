------------------------------ MODULE MCServer ------------------------------
\* Model-checking instance of Server: two keys; PEM files holding k1, the
\* certificate of k1, the certificate of k2, and garbage; a TLS client and
\* an HTTP client ("GET") for the loop the set-up starts.
EXTENDS Server, TLC

CONSTANTS k1, k2, pKey, pCert, pOther, pBad

MCFile == (pKey :> k1) @@ (pCert :> <<"cert", k1>>)
              @@ (pOther :> <<"cert", k2>>) @@ (pBad :> <<"garbage">>)
MCConns == {1, 2}
MCHello == (1 :> <<22, 3, 1, 2, 0>>) @@ (2 :> <<71, 69, 84>>)
MCTlsClients == {1}
=============================================================================
