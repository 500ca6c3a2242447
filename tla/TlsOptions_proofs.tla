--------------------------- MODULE TlsOptions_proofs --------------------------
(***************************************************************************)
(* What MakeHTTPClient and toTLSConfig accept, for all options and files.  *)
(***************************************************************************)
EXTENDS TlsOptions, TLAPS

\* The sources of an option, case by case.
LEMMA SourcesCases ==
    ASSUME NEW path \in Path, NEW value \in Text
    PROVE  /\ path = Unset /\ value = Empty => Sources(path, value) = {}
           /\ path = Unset /\ value # Empty =>
                 Sources(path, value) = {[from |-> "value", text |-> value]}
           /\ path # Unset /\ value = Empty =>
                 Sources(path, value) = {[from |-> "file", text |-> path]}
           /\ path # Unset /\ value # Empty => ~NamedOnce(Sources(path, value))
  <1>1. ASSUME path = Unset
        PROVE  Sources(path, value) = {[from |-> "value", text |-> v] : v \in {value} \ {Empty}}
    BY <1>1 DEF Sources
  <1>2. ASSUME value = Empty
        PROVE  Sources(path, value) = {[from |-> "file", text |-> p] : p \in {path} \ {Unset}}
    BY <1>2 DEF Sources
  <1>3. ASSUME path # Unset, value # Empty
        PROVE  ~NamedOnce(Sources(path, value))
    <2>1. /\ [from |-> "file", text |-> path] \in Sources(path, value)
          /\ [from |-> "value", text |-> value] \in Sources(path, value)
      BY <1>3 DEF Sources
    <2>2. [from |-> "file", text |-> path] # [from |-> "value", text |-> value]
      OBVIOUS
    <2> QED
      BY <2>1, <2>2 DEF NamedOnce
  <1> QED
    BY <1>1, <1>2, <1>3

\* The option names at most one source exactly when it is not given both ways,
\* and then the text that Read finds is the source's, or Empty without one.
LEMMA ReadSources ==
    ASSUME NEW path \in Path, NEW value \in Text
    PROVE  /\ NamedOnce(Sources(path, value)) <=> path = Unset \/ value = Empty
           /\ Sources(path, value) = {} <=> path = Unset /\ value = Empty
           /\ path = Unset \/ value = Empty =>
                 \A s \in Sources(path, value) :
                    /\ s.text = Read(path, value)
                    /\ Sources(path, value) = {s}
                    /\ s.from = IF path = Unset THEN "value" ELSE "file"
  <1> DEFINE S == Sources(path, value)
  <1>1. CASE path = Unset /\ value = Empty
    <2>1. S = {}
      BY <1>1, SourcesCases
    <2> QED
      BY <1>1, <2>1 DEF NamedOnce
  <1>2. CASE path = Unset /\ value # Empty
    <2> DEFINE src == [from |-> "value", text |-> value]
    <2>1. S = {src} /\ Read(path, value) = value
      BY <1>2, SourcesCases DEF Read
    <2>2. src.from = "value" /\ src.text = value
      OBVIOUS
    <2> HIDE DEF src
    <2>3. NamedOnce(S) /\ S # {}
      BY <2>1 DEF NamedOnce
    <2>4. \A s \in S : /\ s.text = Read(path, value)
                       /\ S = {s}
                       /\ s.from = IF path = Unset THEN "value" ELSE "file"
      BY <1>2, <2>1, <2>2
    <2> QED
      BY <1>2, <2>3, <2>4
  <1>3. CASE path # Unset /\ value = Empty
    <2> DEFINE src == [from |-> "file", text |-> path]
    <2>1. S = {src} /\ Read(path, value) = path
      BY <1>3, SourcesCases DEF Read
    <2>2. src.from = "file" /\ src.text = path
      OBVIOUS
    <2> HIDE DEF src
    <2>3. NamedOnce(S) /\ S # {}
      BY <2>1 DEF NamedOnce
    <2>4. \A s \in S : /\ s.text = Read(path, value)
                       /\ S = {s}
                       /\ s.from = IF path = Unset THEN "value" ELSE "file"
      BY <1>3, <2>1, <2>2
    <2> QED
      BY <1>3, <2>3, <2>4
  <1>4. CASE path # Unset /\ value # Empty
    <2>1. ~NamedOnce(S)
      BY <1>4, SourcesCases
    <2>2. S # {}
      BY <2>1 DEF NamedOnce
    <2> QED
      BY <1>4, <2>1, <2>2
  <1> QED
    BY <1>1, <1>2, <1>3, <1>4

\* MakeHTTPClient accepts the options that name nothing twice, a CA that is one
\* and a certificate together with its key; and no others.
THEOREM MakeHTTPClientAcceptsCoherent ==
    ASSUME NEW opts \in ClientOptions
    PROVE  MakeHTTPClient(opts) <=> ClientCoherent(opts)
  <1> DEFINE pair == opts.pair
             ca == Sources(opts.caPath, opts.ca)
             cert == Sources(pair.certPath, pair.cert)
             key == Sources(pair.keyPath, pair.key)
             certText == Read(pair.certPath, pair.cert)
             keyText == Read(pair.keyPath, pair.key)
             once == /\ opts.caPath = Unset \/ opts.ca = Empty
                     /\ pair.certPath = Unset \/ pair.cert = Empty
                     /\ pair.keyPath = Unset \/ pair.key = Empty
  <1>1. /\ opts.caPath \in Path /\ opts.ca \in Text
        /\ pair.certPath \in Path /\ pair.cert \in Text
        /\ pair.keyPath \in Path /\ pair.key \in Text
    BY DEF ClientOptions, PairOptions
  <1>2. NamedOnce(ca) /\ NamedOnce(cert) /\ NamedOnce(key) <=> once
    BY <1>1, ReadSources
  <1>3. ASSUME once
        PROVE  (\A s \in ca : s.text \in CAs) <=>
               /\ opts.ca # Empty => opts.ca \in CAs
               /\ opts.caPath # Unset => opts.caPath \in CAs
    <2>1. ca = {} <=> opts.caPath = Unset /\ opts.ca = Empty
      BY <1>1, ReadSources
    <2>2. \A s \in ca : s.text = Read(opts.caPath, opts.ca)
      BY <1>1, <1>3, ReadSources
    <2> HIDE DEF ca
    <2> QED
      BY <1>3, <2>1, <2>2 DEF Read
  <1>4. ASSUME once
        PROVE  (\A s \in cert \cup key : s.text = Empty) <=> certText = Empty /\ keyText = Empty
    <2>1. /\ cert = {} => certText = Empty
          /\ key = {} => keyText = Empty
      BY <1>1, ReadSources DEF Read
    <2>2. \A s \in cert : s.text = certText
      BY <1>1, <1>4, ReadSources
    <2>3. \A s \in key : s.text = keyText
      BY <1>1, <1>4, ReadSources
    <2> HIDE DEF cert, key, certText, keyText
    <2> QED
      BY <2>1, <2>2, <2>3
  <1>5. ASSUME once
        PROVE  (\E s \in cert, t \in key : <<s.text, t.text>> \in KeyPairs) <=>
               <<certText, keyText>> \in KeyPairs
    <2>1. \A s \in cert, t \in key : s.text = certText /\ t.text = keyText
      BY <1>1, <1>5, ReadSources
    <2>2. <<certText, keyText>> \in KeyPairs => certText # Empty /\ keyText # Empty
      BY TlsAssumption
    <2>3. certText # Empty /\ keyText # Empty => cert # {} /\ key # {}
      BY <1>1, ReadSources DEF Read
    <2> QED
      BY <2>1, <2>2, <2>3
  <1>6. <<certText, keyText>> \in KeyPairs =>
           Unreadable \notin {certText, keyText} /\ certText # Empty /\ keyText # Empty
    BY TlsAssumption
  <1>7. Empty # Unreadable
    BY TlsAssumption
  <1>8. MakeHTTPClient(opts) <=>
           /\ once
           /\ opts.ca # Empty => opts.ca \in CAs
           /\ opts.caPath # Unset => opts.caPath \in CAs
           /\ \/ certText = Empty /\ keyText = Empty
              \/ <<certText, keyText>> \in KeyPairs
    BY <1>6, <1>7 DEF MakeHTTPClient
  <1>9. ClientCoherent(opts) <=>
           /\ NamedOnce(ca) /\ NamedOnce(cert) /\ NamedOnce(key)
           /\ \A s \in ca : s.text \in CAs
           /\ \/ \A s \in cert \cup key : s.text = Empty
              \/ \E s \in cert, t \in key : <<s.text, t.text>> \in KeyPairs
    BY DEF ClientCoherent
  <1> HIDE DEF pair, ca, cert, key, certText, keyText, once
  <1> QED
    BY <1>2, <1>3, <1>4, <1>5, <1>8, <1>9

\* toTLSConfig accepts two values, two files, or nothing and the default files,
\* if they are a pair; and no mixture.
THEOREM toTLSConfigAcceptsCoherent ==
    ASSUME NEW opts \in WebhookOptions
    PROVE  toTLSConfig(opts) <=> WebhookCoherent(opts)
  <1> DEFINE pair == opts.pair
             cert == Sources(pair.certPath, pair.cert)
             key == Sources(pair.keyPath, pair.key)
  <1>1. /\ pair.certPath \in Path /\ pair.cert \in Text
        /\ pair.keyPath \in Path /\ pair.key \in Text
    BY DEF WebhookOptions, PairOptions
  <1>2. cert \cup key = {} <=>
           pair.certPath = Unset /\ pair.keyPath = Unset /\ pair.cert = Empty /\ pair.key = Empty
    <2>1. cert = {} <=> pair.certPath = Unset /\ pair.cert = Empty
      BY <1>1, ReadSources
    <2>2. key = {} <=> pair.keyPath = Unset /\ pair.key = Empty
      BY <1>1, ReadSources
    <2> HIDE DEF cert, key
    <2> QED
      BY <2>1, <2>2
  <1> DEFINE values == /\ pair.certPath = Unset /\ pair.keyPath = Unset
                       /\ pair.cert # Empty /\ pair.key # Empty
                       /\ <<pair.cert, pair.key>> \in KeyPairs
             files == /\ pair.certPath # Unset /\ pair.keyPath # Unset
                      /\ pair.cert = Empty /\ pair.key = Empty
                      /\ <<pair.certPath, pair.keyPath>> \in KeyPairs
  <1>3. ASSUME NEW s \in cert, NEW t \in key, cert = {s}, key = {t}, s.from = t.from,
               <<s.text, t.text>> \in KeyPairs
        PROVE  values \/ files
    <2>1. NamedOnce(cert) /\ NamedOnce(key)
      BY <1>3 DEF NamedOnce
    <2>2. (pair.certPath = Unset \/ pair.cert = Empty) /\ (pair.keyPath = Unset \/ pair.key = Empty)
      BY <1>1, <2>1, ReadSources
    <2>3. /\ s.text = Read(pair.certPath, pair.cert)
          /\ s.from = IF pair.certPath = Unset THEN "value" ELSE "file"
      BY <1>1, <2>2, ReadSources
    <2>4. /\ t.text = Read(pair.keyPath, pair.key)
          /\ t.from = IF pair.keyPath = Unset THEN "value" ELSE "file"
      BY <1>1, <2>2, ReadSources
    <2>5. s.text # Empty /\ t.text # Empty
      BY <1>3, TlsAssumption
    <2> HIDE DEF cert, key
    <2> QED
      BY <1>3, <2>2, <2>3, <2>4, <2>5 DEF Read
  <1>4. ASSUME values \/ files
        PROVE  \E s \in cert, t \in key :
                  /\ cert = {s} /\ key = {t} /\ s.from = t.from
                  /\ <<s.text, t.text>> \in KeyPairs
    <2>1. PICK s \in cert : TRUE
      BY <1>1, <1>4, ReadSources
    <2>2. PICK t \in key : TRUE
      BY <1>1, <1>4, ReadSources
    <2>3. /\ s.text = Read(pair.certPath, pair.cert)
          /\ s.from = IF pair.certPath = Unset THEN "value" ELSE "file"
          /\ cert = {s}
      BY <1>1, <1>4, ReadSources
    <2>4. /\ t.text = Read(pair.keyPath, pair.key)
          /\ t.from = IF pair.keyPath = Unset THEN "value" ELSE "file"
          /\ key = {t}
      BY <1>1, <1>4, ReadSources
    <2> HIDE DEF cert, key
    <2> QED
      BY <1>4, <2>3, <2>4 DEF Read
  <1>5. toTLSConfig(opts) <=>
           \/ values \/ files
           \/ /\ pair.certPath = Unset /\ pair.keyPath = Unset /\ pair.cert = Empty /\ pair.key = Empty
              /\ <<opts.defaultCert, opts.defaultKey>> \in KeyPairs
    BY DEF toTLSConfig
  <1>6. WebhookCoherent(opts) <=>
           \/ cert \cup key = {} /\ <<opts.defaultCert, opts.defaultKey>> \in KeyPairs
           \/ \E s \in cert, t \in key :
                 /\ cert = {s} /\ key = {t} /\ s.from = t.from
                 /\ <<s.text, t.text>> \in KeyPairs
    BY DEF WebhookCoherent
  <1> HIDE DEF cert, key, values, files
  <1> QED
    BY <1>2, <1>3, <1>4, <1>5, <1>6
=============================================================================
