------------------------------ MODULE TlsOptions ------------------------------
(***************************************************************************)
(* Where the controller takes its certificates from: MakeHTTPClient        *)
(* (internal/adminapi) for its calls to Kong, toTLSConfig                  *)
(* (internal/admission) for the webhook.                                   *)
(*                                                                         *)
(* An option that names a file is modelled by what is at that path.  PEM   *)
(* texts are opaque; KeyPairs are those tls.X509KeyPair accepts.           *)
(***************************************************************************)
CONSTANTS Text, Empty,     \* option values and contents of files
          Unset,           \* the path option is not given
          Unreadable,      \* os.ReadFile fails on the path given
          KeyPairs, CAs

ASSUME TlsAssumption ==
    /\ Empty \in Text
    /\ {Unset, Unreadable} \cap Text = {}
    /\ Unset # Unreadable
    /\ KeyPairs \subseteq (Text \ {Empty}) \X (Text \ {Empty})
    /\ CAs \subseteq Text \ {Empty}

Path == Text \cup {Unset, Unreadable}

PairOptions == [certPath: Path, cert: Text, keyPath: Path, key: Text]
ClientOptions == [caPath: Path, ca: Text, pair: PairOptions]
Files == Text \cup {Unreadable}
WebhookOptions == [pair: PairOptions, defaultCert: Files, defaultKey: Files]

-----------------------------------------------------------------------------
\* The file, when there is a path, takes the place of the value.
Read(path, value) == IF path = Unset THEN value ELSE path

\* MakeHTTPClient returns no error.
MakeHTTPClient(opts) ==
    LET pair == opts.pair
        cert == Read(pair.certPath, pair.cert)
        key  == Read(pair.keyPath, pair.key)
    IN  /\ opts.caPath = Unset \/ opts.ca = Empty
        /\ opts.ca # Empty => opts.ca \in CAs
        /\ opts.caPath # Unset => opts.caPath \in CAs
        /\ pair.certPath = Unset \/ pair.cert = Empty
        /\ pair.keyPath = Unset \/ pair.key = Empty
        /\ Unreadable \notin {cert, key}
        /\ cert = Empty <=> key = Empty
        /\ cert # Empty => <<cert, key>> \in KeyPairs

\* Seeded bug: a file and a value make a pair, as they do in MakeHTTPClient.
toTLSConfigMixed(opts) ==
    LET pair == opts.pair
        cert == Read(pair.certPath, pair.cert)
        key  == Read(pair.keyPath, pair.key)
    IN  IF cert = Empty /\ key = Empty
        THEN <<opts.defaultCert, opts.defaultKey>> \in KeyPairs
        ELSE <<cert, key>> \in KeyPairs

\* toTLSConfig returns no error: two values, two files, or nothing at all.
toTLSConfig(opts) ==
    LET pair  == opts.pair
        paths == {pair.certPath, pair.keyPath}
        texts == {pair.cert, pair.key}
    IN  \/ /\ paths = {Unset} /\ Empty \notin texts
           /\ <<pair.cert, pair.key>> \in KeyPairs
        \/ /\ Unset \notin paths /\ texts = {Empty}
           /\ <<pair.certPath, pair.keyPath>> \in KeyPairs
        \/ /\ paths = {Unset} /\ texts = {Empty}
           /\ <<opts.defaultCert, opts.defaultKey>> \in KeyPairs

-----------------------------------------------------------------------------
\* What the options mean, by the sources they name.

Sources(path, value) ==
    {[from |-> "file", text |-> p] : p \in {path} \ {Unset}} \cup
    {[from |-> "value", text |-> v] : v \in {value} \ {Empty}}

NamedOnce(sources) == \A s, t \in sources : s = t

\* Nothing is named twice; the CA, if named, is one; certificate and key are a
\* pair, or there is none: both are unset or empty.
ClientCoherent(opts) ==
    LET ca   == Sources(opts.caPath, opts.ca)
        cert == Sources(opts.pair.certPath, opts.pair.cert)
        key  == Sources(opts.pair.keyPath, opts.pair.key)
    IN  /\ NamedOnce(ca) /\ NamedOnce(cert) /\ NamedOnce(key)
        /\ \A s \in ca : s.text \in CAs
        /\ \/ \A s \in cert \cup key : s.text = Empty
           \/ \E s \in cert, t \in key : <<s.text, t.text>> \in KeyPairs

\* The default files serve when nothing is named; otherwise certificate and key
\* are named once, in the same way.
WebhookCoherent(opts) ==
    LET cert == Sources(opts.pair.certPath, opts.pair.cert)
        key  == Sources(opts.pair.keyPath, opts.pair.key)
    IN  \/ cert \cup key = {} /\ <<opts.defaultCert, opts.defaultKey>> \in KeyPairs
        \/ \E s \in cert, t \in key :
              /\ cert = {s} /\ key = {t} /\ s.from = t.from
              /\ <<s.text, t.text>> \in KeyPairs
=============================================================================
