------------------------- MODULE TlsAcceptorBuilder -------------------------
(***************************************************************************)
(* TlsAcceptorBuilder of proxmox-rest-server/src/connection.rs: a caller   *)
(* configures the builder through its setters, then build() consumes it   *)
(* and returns an SslAcceptor, an error, or panics.                        *)
(*                                                                         *)
(* Keys are model values. A certificate is <<"cert", k>>, the certificate *)
(* of the public half of key k. A PEM file holds a key, a certificate, or  *)
(* Garbage (missing, unreadable, not PEM). The OpenSSL calls build() makes *)
(* are modelled by what they do to the context's key and certificate:      *)
(* SSL_CTX_use_certificate keeps a private key only if it matches the new  *)
(* certificate, and check_private_key fails without a matching key.        *)
(***************************************************************************)
EXTENDS Naturals

CONSTANTS
    Keys,          \* private keys a caller may pass in or name in a file
    Paths,         \* file paths a caller may pass to certificate_paths_pem
    File,          \* File[p]: what the PEM file at p holds
    CipherSpecs,   \* strings a caller may pass to cipher_suites / cipher_list
    MaxCalls,      \* setter calls before build
    None           \* a model value: Option::None

ASSUME MaxCalls \in Nat

Cert(k) == <<"cert", k>>
Certs == {Cert(k) : k \in Keys}
PubKey(c) == c[2]
Garbage == <<"garbage">>
\* the P-256 key EcKey::generate makes (fresh, so no caller knows it)
Generated == <<"p256">>

\* The mozilla_intermediate_v5 cipher configuration.
MozillaIntermediate == "mozilla_intermediate_v5"

ASSUME File \in [Paths -> Keys \cup Certs \cup {Garbage}]

VARIABLES
    tls,            \* self.tls: None or a Tls value
    cipher_suites,  \* self.cipher_suites
    cipher_list,    \* self.cipher_list
    calls,          \* setter calls so far
    stage,          \* "config" (the builder lives), "ok", "err", "panic"
    acceptor        \* the acceptor build() made: key, cert, options, ciphers

tvars == <<tls, cipher_suites, cipher_list, calls, stage, acceptor>>

Tls == [kind : {"KeyCert"}, key : Keys, cert : Certs]
       \cup [kind : {"FilesPem"}, key : Paths, cert : Paths]
Acceptors == [key : Keys \cup {Generated, None}, cert : Certs \cup {Cert(Generated)},
              noRenegotiation : BOOLEAN, ciphers : {MozillaIntermediate}]

TlsTypeOK ==
    /\ tls \in Tls \cup {None}
    /\ cipher_suites \in CipherSpecs \cup {None}
    /\ cipher_list \in CipherSpecs \cup {None}
    /\ calls \in 0..MaxCalls
    /\ stage \in {"config", "ok", "err", "panic"}
    /\ acceptor \in Acceptors \cup {None}

\* TlsAcceptorBuilder::new(): every field None.
TlsInit ==
    /\ tls = None
    /\ cipher_suites = None
    /\ cipher_list = None
    /\ calls = 0
    /\ stage = "config"
    /\ acceptor = None

\* A setter: takes self, sets one field, returns self.
Setter ==
    /\ stage = "config"
    /\ calls < MaxCalls
    /\ calls' = calls + 1
    /\ UNCHANGED <<stage, acceptor>>

certificate(key, cert) ==
    /\ Setter
    /\ tls' = [kind |-> "KeyCert", key |-> key, cert |-> cert]
    /\ UNCHANGED <<cipher_suites, cipher_list>>

certificate_paths_pem(key, cert) ==
    /\ Setter
    /\ tls' = [kind |-> "FilesPem", key |-> key, cert |-> cert]
    /\ UNCHANGED <<cipher_suites, cipher_list>>

set_cipher_suites(suites) ==
    /\ Setter
    /\ cipher_suites' = suites
    /\ UNCHANGED <<tls, cipher_list>>

set_cipher_list(list) ==
    /\ Setter
    /\ cipher_list' = list
    /\ UNCHANGED <<tls, cipher_suites>>

(***************************************************************************)
(* build()                                                                 *)
(***************************************************************************)
Failed == [failed |-> TRUE]

\* set_private_key(key) then set_certificate(cert): the key stays only if
\* it is the private half of the certificate's public key.
Install(key, cert) ==
    [failed |-> FALSE, key |-> IF PubKey(cert) = key THEN key ELSE None, cert |-> cert]

\* The self-signed certificate: set_pubkey(&key), sign(&key).
SelfSignedCert_rsa(key) == Cert(<<"rsa4096">>)
SelfSignedCert_otherKey(key) == Cert(CHOOSE k \in Keys : TRUE)
SelfSignedCert(key) == Cert(key)

\* The outcomes of the match on self.tls: reading a PEM file fails unless
\* it holds the right kind of object; generating the key or the
\* certificate may fail inside OpenSSL (every `?` of the None arm).
TlsSetup(t) ==
    CASE t = None ->
            {Failed, Install(Generated, SelfSignedCert(Generated))}
      [] t.kind = "KeyCert" ->
            {Install(t.key, t.cert)}
      [] File[t.key] \notin Keys \/ File[t.cert] \notin Certs ->
            {Failed}
      [] OTHER ->
            {Install(File[t.key], File[t.cert])}

check_private_key_ignored(r) == TRUE
check_private_key(r) == r.key # None /\ PubKey(r.cert) = r.key

\* build(): mozilla_intermediate_v5, the key and certificate,
\* NO_RENEGOTIATION, then check_private_key().unwrap(). build takes self
\* by value: whatever it returns, the builder's fields are gone (the
\* model resets them, so only the acceptor outlives the step).
build ==
    /\ stage = "config"
    /\ \E r \in TlsSetup(tls) :
          IF r.failed
            THEN /\ stage' = "err"
                 /\ UNCHANGED acceptor
            ELSE /\ acceptor' = [key |-> r.key, cert |-> r.cert,
                                 noRenegotiation |-> TRUE,
                                 ciphers |-> MozillaIntermediate]
                 /\ stage' = IF check_private_key(r) THEN "ok" ELSE "panic"
    /\ tls' = None
    /\ cipher_suites' = None
    /\ cipher_list' = None
    /\ calls' = 0

TlsNext ==
    \/ \E k \in Keys, c \in Certs : certificate(k, c)
    \/ \E k, c \in Paths : certificate_paths_pem(k, c)
    \/ \E s \in CipherSpecs : set_cipher_suites(s)
    \/ \E s \in CipherSpecs : set_cipher_list(s)
    \/ build

(***************************************************************************)
(* Properties                                                              *)
(***************************************************************************)

\* The key and certificate the last certificate setter configured, as
\* build() reads them, or None.
ConfiguredPair ==
    CASE tls = None -> None
      [] tls.kind = "KeyCert" -> <<tls.key, tls.cert>>
      [] OTHER -> <<File[tls.key], File[tls.cert]>>

\* build() panics (the unwrap of check_private_key) only when the caller
\* configured a key that is not the certificate's: never for the
\* generated self-signed pair, never for a matching pair. ConfiguredPair
\* is read in the state build() consumes.
PanicOnlyOnMismatch ==
    [][stage = "config" /\ stage' = "panic" =>
         /\ ConfiguredPair # None
         /\ PubKey(ConfiguredPair[2]) # ConfiguredPair[1]]_tvars

\* An acceptor that build() returns serves the certificate of the last
\* certificate setter (or a self-signed one when there was none) with its
\* matching private key, and has renegotiation disabled.
AcceptorConsistent ==
    [][stage = "config" /\ stage' = "ok" =>
         /\ acceptor'.key # None
         /\ PubKey(acceptor'.cert) = acceptor'.key
         /\ acceptor'.noRenegotiation
         /\ IF ConfiguredPair = None THEN acceptor'.key = Generated
                                     ELSE acceptor'.cert = ConfiguredPair[2]]_tvars
=============================================================================
