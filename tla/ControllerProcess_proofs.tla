------------------------ MODULE ControllerProcess_proofs ------------------------
(***************************************************************************)
(* Theorems about ControllerProcess: its type invariant, and what holds of *)
(* the webhook's verdicts and of the profiler for any number of writes,    *)
(* processes and command lines.                                            *)
(***************************************************************************)
EXTENDS ControllerProcess, WellFoundedInduction, TLAPS

\* Sequence facts about one element replaced and one appended.
LEMMA ReplaceOne ==
    ASSUME NEW S, NEW s \in Seq(S), NEW i \in DOMAIN s, NEW e \in S
    PROVE  /\ [s EXCEPT ![i] = e] \in Seq(S)
           /\ DOMAIN [s EXCEPT ![i] = e] = DOMAIN s
  OBVIOUS

LEMMA AppendOne ==
    ASSUME NEW S, NEW s \in Seq(S), NEW e \in S
    PROVE  /\ Append(s, e) \in Seq(S)
           /\ DOMAIN Append(s, e) = DOMAIN s \cup {Len(s) + 1}
           /\ \A i \in DOMAIN s : Append(s, e)[i] = s[i]
           /\ Append(s, e)[Len(s) + 1] = e
  OBVIOUS

-----------------------------------------------------------------------------
(* Types. *)

\* The server answers with an Answer.
LEMMA AnswerType ==
    ASSUME NEW uid \in Nat, NEW review \in Review
    PROVE  handleValidation(uid, review) \in Answer
  <1>1. ValidateKongFile(review.spec) \in BOOLEAN
    BY DEF ValidateKongFile
  <1>2. HttpError \in Answer
    BY DEF HttpError, Answer
  <1>. QED
    BY <1>1, <1>2 DEF handleValidation, Answer

\* Each of the three actions on a write keeps the writes writes.
LEMMA AdmissionStep ==
    ASSUME AdmissionTypeOK, NEW addr, AdmissionNext(addr)
    PROVE  AdmissionTypeOK'
  <1>1. CASE ListenAndServeTLS(addr)
    BY <1>1 DEF ListenAndServeTLS, AdmissionTypeOK
  <1>2. ASSUME NEW uid \in DOMAIN reviews, ServeHTTP(uid)
        PROVE  AdmissionTypeOK'
    <2>1. uid \in Nat /\ reviews[uid] \in Review
      BY DEF AdmissionTypeOK
    <2>2. handleValidation(uid, reviews[uid]) \in Answer
      BY <2>1, AnswerType
    <2>3. [reviews[uid] EXCEPT !.answer = handleValidation(uid, reviews[uid])] \in Review
      BY <2>1, <2>2 DEF Review
    <2>. QED
      BY <1>2, <2>3, ReplaceOne DEF ServeHTTP, AdmissionTypeOK
  <1>3. ASSUME NEW uid \in DOMAIN reviews, Decide(uid)
        PROVE  AdmissionTypeOK'
    <2>1. reviews[uid] \in Review
      BY DEF AdmissionTypeOK
    <2>. DEFINE verdict == IF Usable(uid)
                           THEN IF reviews[uid].answer.allowed THEN "stored" ELSE "denied"
                           ELSE ByPolicy
    <2>2. verdict \in Verdict
      BY DEF Verdict, ByPolicy
    <2>3. [reviews[uid] EXCEPT !.verdict = verdict] \in Review
      BY <2>1, <2>2 DEF Review
    <2>. QED
      BY <1>3, <2>3, ReplaceOne DEF Decide, AdmissionTypeOK
  <1>4. ASSUME NEW operation \in Operations, NEW resource \in Resources, NEW spec \in AllSpecs,
               Submit(operation, resource, spec)
        PROVE  AdmissionTypeOK'
    <2>1. [operation |-> operation, resource |-> resource, spec |-> spec,
           answer |-> NoAnswer, verdict |-> "pending"] \in Review
      BY DEF Review, Answer, NoAnswer, Verdict
    <2>. QED
      BY <1>4, <2>1, AppendOne DEF Submit, AdmissionTypeOK
  <1>. QED
    BY <1>1, <1>2, <1>3, <1>4 DEF AdmissionNext

\* The goroutines of the diagnostics server keep to their states.
LEMMA DiagnosticsStep ==
    ASSUME DiagnosticsTypeOK, NEW ctxDone, DiagnosticsNext(ctxDone)
    PROVE  DiagnosticsTypeOK'
  BY DEF DiagnosticsTypeOK, DiagnosticsNext, ListenAndServe, ReceiveError, Shutdown,
         ShutdownReturns, receiveConfig, Profile

\* Every step of the main goroutine, of the worker and of the environment.
LEMMA MainStep ==
    ASSUME TypeOK,
           Start \/ ClientReady \/ ClientCancelled \/ ManagerBuilt \/ DiscoveryTimesOut
           \/ ProxyReady \/ ProxyTimesOut \/ RunFails \/ WorkerCalls \/ KongAnswers
           \/ WorkerCancelled \/ ManagerStops \/ Signal
    PROVE  TypeOK'
  <1>. USE DEF TypeOK, DiagnosticsTypeOK, AdmissionTypeOK, diagnosticsVars, admissionVars
  <1>1. ASSUME Exit PROVE TypeOK'
    BY <1>1 DEF Exit, StopDiagnostics
  <1>2. CASE Start
    <2>1. starts' \in 0..MaxStarts
      BY <1>2, ProcessAssumption DEF Start
    <2>2. DiagnosticsTypeOK'
      BY <1>2 DEF Start, StartDiagnosticsServer, Listen
    <2>3. AdmissionTypeOK' /\ line' \in Lines /\ worker' \in BOOLEAN /\ signalled' \in BOOLEAN
      BY <1>2 DEF Start
    <2>4. main' \in {"exited", "client", "discovery", "proxy", "manager"}
      BY <1>2 DEF Start
    <2>. QED
      BY <2>1, <2>2, <2>3, <2>4
  <1>3. CASE ClientReady \/ ManagerBuilt \/ ProxyReady
    BY <1>3 DEF ClientReady, ManagerBuilt, ProxyReady, GoTo
  <1>4. CASE WorkerCalls \/ KongAnswers \/ WorkerCancelled
    BY <1>4 DEF WorkerCalls, KongAnswers, WorkerCancelled
  <1>5. CASE Signal
    BY <1>1, <1>5 DEF Signal
  <1>6. CASE ClientCancelled \/ DiscoveryTimesOut \/ ProxyTimesOut \/ RunFails \/ ManagerStops
    BY <1>1, <1>6 DEF ClientCancelled, DiscoveryTimesOut, ProxyTimesOut, RunFails, ManagerStops
  <1>. QED
    BY <1>2, <1>3, <1>4, <1>5, <1>6

\* Every variable of the process, of its goroutines and of the writes keeps its type,
\* for any number of processes and writes.
THEOREM ProcessTypeInvariant == Spec => []TypeOK
  <1>1. Init => TypeOK
    <2>. SUFFICES ASSUME Init PROVE TypeOK
      OBVIOUS
    <2>1. DiagnosticsTypeOK
      BY DEF Init, DiagnosticsOff, DiagnosticsTypeOK
    <2>2. AdmissionTypeOK
      BY DEF Init, AdmissionInit, AdmissionTypeOK
    <2>3. starts \in 0..MaxStarts
      BY ProcessAssumption DEF Init
    <2>. QED
      BY <2>1, <2>2, <2>3 DEF Init, TypeOK
  <1>2. TypeOK /\ [Next]_vars => TypeOK'
    <2>. SUFFICES ASSUME TypeOK, [Next]_vars PROVE TypeOK'
      OBVIOUS
    <2>1. CASE DiagnosticsNext(signalled) /\ UNCHANGED <<processVars, admissionVars>>
      BY <2>1, DiagnosticsStep DEF TypeOK, AdmissionTypeOK, processVars, admissionVars
    <2>2. CASE /\ AdmissionNext(cfg["admission-webhook-listen"])
               /\ UNCHANGED <<processVars, diagnosticsVars>>
      BY <2>2, AdmissionStep DEF TypeOK, DiagnosticsTypeOK, processVars, diagnosticsVars
    <2>3. CASE UNCHANGED vars
      BY <2>3 DEF vars, processVars, diagnosticsVars, admissionVars, TypeOK,
                  DiagnosticsTypeOK, AdmissionTypeOK
    <2>. QED
      BY <2>1, <2>2, <2>3, MainStep DEF Next, Goroutines
  <1>. QED
    BY <1>1, <1>2, PTL DEF Spec

-----------------------------------------------------------------------------
(* The verdicts. *)

\* What an answer says of the write it answers.
AnswerIsRight(review) ==
    review.answer.status = "response" =>
       IF review.answer.allowed
       THEN /\ review.resource = "kongfiles"
            /\ review.operation # "DELETE"
            /\ ValidateKongFile(review.spec)
       ELSE ~ValidateKongFile(review.spec)

VerdictOf(review) ==
    /\ review.verdict = "stored" /\ Policy = "Fail" =>
          /\ review.resource = "kongfiles"
          /\ review.operation # "DELETE"
          /\ ValidateKongFile(review.spec)
    /\ review.verdict = "denied" => ~ValidateKongFile(review.spec)

VerdictInv == \A uid \in DOMAIN reviews : AnswerIsRight(reviews[uid]) /\ VerdictOf(reviews[uid])

\* A step of the writes keeps answers and verdicts right.
LEMMA VerdictStep ==
    ASSUME AdmissionTypeOK, VerdictInv, NEW addr, AdmissionNext(addr)
    PROVE  VerdictInv'
  <1>1. CASE ListenAndServeTLS(addr)
    BY <1>1 DEF ListenAndServeTLS, VerdictInv
  <1>2. ASSUME NEW uid \in DOMAIN reviews, ServeHTTP(uid)
        PROVE  VerdictInv'
    <2>. DEFINE answer == handleValidation(uid, reviews[uid])
                next   == [reviews[uid] EXCEPT !.answer = answer]
    <2>1. reviews[uid] \in Review
      BY DEF AdmissionTypeOK
    <2>2. AnswerIsRight(next)
      BY <2>1 DEF AnswerIsRight, handleValidation, HttpError, Decodes, Review
    <2>3. VerdictOf(next)
      BY <2>1 DEF VerdictOf, VerdictInv, Review
    <2>4. reviews' = [reviews EXCEPT ![uid] = next]
      BY <1>2 DEF ServeHTTP
    <2>. QED
      BY <2>2, <2>3, <2>4 DEF VerdictInv, AdmissionTypeOK
  <1>3. ASSUME NEW uid \in DOMAIN reviews, Decide(uid)
        PROVE  VerdictInv'
    <2>. DEFINE verdict == IF Usable(uid)
                           THEN IF reviews[uid].answer.allowed THEN "stored" ELSE "denied"
                           ELSE ByPolicy
                next    == [reviews[uid] EXCEPT !.verdict = verdict]
    <2>1. reviews[uid] \in Review
      BY DEF AdmissionTypeOK
    <2>2. AnswerIsRight(next)
      BY <2>1 DEF AnswerIsRight, VerdictInv, Review
    <2>3. VerdictOf(next)
      <3>1. CASE Usable(uid)
        BY <2>1, <3>1 DEF VerdictOf, AnswerIsRight, VerdictInv, Usable, Review
      <3>2. CASE ~Usable(uid)
        BY <2>1, <3>2, AdmissionAssumption DEF VerdictOf, ByPolicy, Review
      <3>. QED
        BY <3>1, <3>2
    <2>4. reviews' = [reviews EXCEPT ![uid] = next]
      BY <1>3 DEF Decide
    <2>. QED
      BY <2>2, <2>3, <2>4 DEF VerdictInv, AdmissionTypeOK
  <1>4. ASSUME NEW operation \in Operations, NEW resource \in Resources, NEW spec \in AllSpecs,
               Submit(operation, resource, spec)
        PROVE  VerdictInv'
    <2>. DEFINE new == [operation |-> operation, resource |-> resource, spec |-> spec,
                        answer |-> NoAnswer, verdict |-> "pending"]
    <2>1. new \in Review
      BY DEF Review, Answer, NoAnswer, Verdict
    <2>2. AnswerIsRight(new) /\ VerdictOf(new)
      BY DEF AnswerIsRight, VerdictOf, NoAnswer
    <2>3. reviews' = Append(reviews, new)
      BY <1>4 DEF Submit
    <2>. HIDE DEF new
    <2>. QED
      BY <2>1, <2>2, <2>3, AppendOne DEF VerdictInv, AdmissionTypeOK
  <1>. QED
    BY <1>1, <1>2, <1>3, <1>4 DEF AdmissionNext

\* Nothing else touches the writes.
LEMMA WritesRemain ==
    ASSUME [Next]_vars
    PROVE  reviews' = reviews \/ AdmissionNext(cfg["admission-webhook-listen"])
  BY DEF Next, Goroutines, Start, ClientReady, ClientCancelled, ManagerBuilt,
         DiscoveryTimesOut, ProxyReady, ProxyTimesOut, RunFails, WorkerCalls, KongAnswers,
         WorkerCancelled, ManagerStops, Signal, Exit, vars, admissionVars

\* Under "Fail" the API server stores only KongFiles the validator accepts, and it
\* denies only those the validator rejects, for any number of writes and processes.
THEOREM VerdictIsRightHolds == Spec => []VerdictIsRight
  <1>1. Init => VerdictInv
    BY DEF Init, AdmissionInit, VerdictInv
  <1>2. TypeOK /\ VerdictInv /\ [Next]_vars => VerdictInv'
    <2>. SUFFICES ASSUME TypeOK, VerdictInv, [Next]_vars PROVE VerdictInv'
      OBVIOUS
    <2>1. CASE reviews' = reviews
      BY <2>1 DEF VerdictInv
    <2>2. CASE AdmissionNext(cfg["admission-webhook-listen"])
      BY <2>2, VerdictStep DEF TypeOK
    <2>. QED
      BY <2>1, <2>2, WritesRemain
  <1>3. VerdictInv => VerdictIsRight
    BY DEF VerdictInv, VerdictOf, VerdictIsRight
  <1>. QED
    BY <1>1, <1>2, <1>3, ProcessTypeInvariant, PTL DEF Spec

-----------------------------------------------------------------------------
(* The profiler. *)

ProfilerInv == server # "off" => cfg["profiling"] = "true"

\* A value "true" of the flag comes from the command line or, if that says
\* nothing, from the environment: it is not the default.
LEMMA ProfilingFrom ==
    ASSUME cfg["profiling"] = "true"
    PROVE  \/ line.given["profiling"] = "true"
           \/ line.given["profiling"] = Unset /\ line.env["profiling"] = "true"
  <1>1. "profiling" \in Flag
    BY DEF Flag, BoolFlags
  <1>2. Default("profiling") = "false"
    BY DEF Default, BoolFlags, ListFlags
  <1>. QED
    BY <1>1, <1>2 DEF cfg, bindEnvVars, FirstSet

\* No process serves profiles that neither its command line nor, where that is
\* silent, its environment asks for.
THEOREM ProfilerAskedForHolds == Spec => []ProfilerAskedFor
  <1>1. Init => ProfilerInv
    BY DEF Init, DiagnosticsOff, ProfilerInv
  <1>2. ProfilerInv /\ [Next]_vars => ProfilerInv'
    <2>. SUFFICES ASSUME ProfilerInv, [Next]_vars PROVE ProfilerInv'
      OBVIOUS
    <2>1. line' = line
      BY DEF Next, Goroutines, Start, ClientReady, ClientCancelled, ManagerBuilt,
             DiscoveryTimesOut, ProxyReady, ProxyTimesOut, RunFails, WorkerCalls, KongAnswers,
             WorkerCancelled, ManagerStops, Signal, Exit, GoTo, vars, processVars
    <2>2. cfg' = cfg
      BY <2>1 DEF cfg
    <2>3. server' = "off" \/ server # "off" \/ server' = server \/ cfg["profiling"] = "true"
      BY DEF Next, Goroutines, Start, StartDiagnosticsServer, Listen, ClientReady,
             ClientCancelled, ManagerBuilt, DiscoveryTimesOut, ProxyReady, ProxyTimesOut,
             RunFails, WorkerCalls, KongAnswers, WorkerCancelled, ManagerStops, Signal, Exit,
             StopDiagnostics, vars,
             diagnosticsVars, DiagnosticsNext, ListenAndServe, ReceiveError, Shutdown,
             ShutdownReturns, receiveConfig, Profile
    <2>. QED
      BY <2>2, <2>3 DEF ProfilerInv
  <1>3. ProfilerInv => ProfilerAskedFor
    BY ProfilingFrom DEF ProfilerInv, ProfilerAskedFor
  <1>. QED
    BY <1>1, <1>2, <1>3, PTL DEF Spec

-----------------------------------------------------------------------------
(* The headers.  RoundTrip is recursive: what it does with n headers, for every *)
(* n, is shown by taking the least n it does not do it with.                   *)

\* Every set of natural numbers that is not empty has a least element.
LEMMA LeastNatural ==
    ASSUME NEW T \in SUBSET Nat, T # {}
    PROVE  \E m \in T : \A n \in T : m <= n
  <1>. DEFINE R == {p \in Nat \X Nat : p[1] < p[2]}
  <1>1. IsWellFoundedOn(R, Nat)
    BY NatLessThanWellFounded DEF OpToRel
  <1>2. PICK m \in T : \A n \in T : <<n, m>> \notin R
    BY <1>1, WFMin
  <1>3. \A n \in T : ~(n < m)
    BY <1>2
  <1>. QED
    BY <1>3

\* sent is, after each of the first n headers of h, what the request carries.
Adds(sent, n, h, own) ==
    sent = [i \in 0..n |-> IF i = 0 THEN own ELSE SetHeader(sent[i - 1], h[i])]

LEMMA AddsAll ==
    ASSUME NEW h, Len(h) \in Nat, NEW own
    PROVE  \E sent : Adds(sent, Len(h), h, own)
  <1>. DEFINE Bad == {n \in Nat : n <= Len(h) /\ ~\E sent : Adds(sent, n, h, own)}
  <1>1. SUFFICES Bad = {}
    OBVIOUS
  <1>2. SUFFICES ASSUME Bad # {} PROVE FALSE
    OBVIOUS
  <1>3. PICK n \in Bad : \A m \in Bad : n <= m
    <2>. HIDE DEF Bad
    <2>1. Bad \in SUBSET Nat
      BY DEF Bad
    <2>. QED
      BY <1>2, <2>1, LeastNatural
  <1>4. n # 0
    <2>. DEFINE none == [i \in {0} |-> own]
    <2>1. Adds(none, 0, h, own)
      <3>1. 0..0 = {0}
        OBVIOUS
      <3>. QED
        BY <3>1 DEF Adds
    <2>. QED
      BY <2>1
  <1>5. n \in Nat /\ n - 1 \in Nat /\ n - 1 <= Len(h) /\ n - 1 \notin Bad
    BY <1>3, <1>4
  <1>6. PICK sent : Adds(sent, n - 1, h, own)
    BY <1>5
  <1>. DEFINE more == [i \in 0..n |-> IF i = n THEN SetHeader(sent[n - 1], h[n]) ELSE sent[i]]
  <1>7. Adds(more, n, h, own)
    <2>1. ASSUME NEW i \in 0..n
          PROVE  more[i] = IF i = 0 THEN own ELSE SetHeader(more[i - 1], h[i])
      <3>1. CASE i = n
        <4>1. more[i - 1] = sent[n - 1]
          BY <1>4, <1>5, <3>1
        <4>. QED
          BY <1>4, <3>1, <4>1
      <3>2. CASE i # n
        <4>1. i \in 0..(n - 1) /\ (i # 0 => i - 1 \in 0..(n - 1))
          BY <1>5, <3>2
        <4>2. sent[i] = IF i = 0 THEN own ELSE SetHeader(sent[i - 1], h[i])
          BY <1>6, <4>1 DEF Adds
        <4>3. i # 0 => more[i - 1] = sent[i - 1]
          BY <1>5, <4>1
        <4>. QED
          BY <3>2, <4>2, <4>3
      <3>. QED
        BY <3>1, <3>2
    <2>. QED
      BY <2>1 DEF Adds
  <1>. QED
    BY <1>3, <1>7

\* The i-th header of h gives a value for the header of this name.
Gives(h, i, name) == Len(h[i]) >= 2 /\ h[i][1] = name

\* sent is own with the first n headers of h, each with the last of its values.
Carries(sent, n, h, own) ==
    /\ DOMAIN sent = DOMAIN own \cup {h[i][1] : i \in {j \in 1..n : Len(h[j]) >= 2}}
    /\ \A name \in DOMAIN sent :
          \/ (\A i \in 1..n : ~Gives(h, i, name)) /\ sent[name] = own[name]
          \/ \E i \in 1..n : /\ Gives(h, i, name)
                             /\ \A j \in 1..n : Gives(h, j, name) => j <= i
                             /\ sent[name] = <<h[i][2]>>

LEMMA SetHeaderCarries ==
    ASSUME NEW h, NEW own, NEW n \in Nat, NEW sent, Len(h[n + 1]) \in Nat, Carries(sent, n, h, own)
    PROVE  Carries(SetHeader(sent, h[n + 1]), n + 1, h, own)
  <1>1. 1..(n + 1) = 1..n \cup {n + 1} /\ n + 1 \notin 1..n /\ \A j \in 1..(n + 1) : j <= n + 1
    OBVIOUS
  <1>2. CASE Len(h[n + 1]) < 2
    <2>1. SetHeader(sent, h[n + 1]) = sent /\ ~(Len(h[n + 1]) >= 2)
      BY <1>2 DEF SetHeader
    <2>2. {j \in 1..(n + 1) : Len(h[j]) >= 2} = {j \in 1..n : Len(h[j]) >= 2}
      BY <1>1, <2>1
    <2>. QED
      BY <1>1, <2>1, <2>2 DEF Carries, Gives
  <1>3. CASE ~(Len(h[n + 1]) < 2)
    <2>. DEFINE title == h[n + 1][1]
                next  == SetHeader(sent, h[n + 1])
    <2>1. Len(h[n + 1]) >= 2
      BY <1>3
    <2>2. /\ DOMAIN next = DOMAIN sent \cup {title}
          /\ next[title] = <<h[n + 1][2]>>
          /\ \A name \in DOMAIN sent \ {title} : next[name] = sent[name]
      BY <1>3 DEF SetHeader
    <2>3. DOMAIN next = DOMAIN own \cup {h[i][1] : i \in {j \in 1..(n + 1) : Len(h[j]) >= 2}}
      <3>1. {j \in 1..(n + 1) : Len(h[j]) >= 2} = {j \in 1..n : Len(h[j]) >= 2} \cup {n + 1}
        BY <1>1, <2>1
      <3>. QED
        BY <2>2, <3>1 DEF Carries
    <2>4. Gives(h, n + 1, title)
      BY <2>1 DEF Gives
    <2>5. ASSUME NEW name \in DOMAIN next
          PROVE  \/ (\A i \in 1..(n + 1) : ~Gives(h, i, name)) /\ next[name] = own[name]
                 \/ \E i \in 1..(n + 1) : /\ Gives(h, i, name)
                                    /\ \A j \in 1..(n + 1) : Gives(h, j, name) => j <= i
                                    /\ next[name] = <<h[i][2]>>
      <3>1. CASE name = title
        BY <1>1, <2>2, <2>4, <3>1
      <3>2. CASE name # title
        <4>1. name \in DOMAIN sent /\ next[name] = sent[name] /\ ~Gives(h, n + 1, name)
          BY <2>2, <3>2 DEF Gives
        <4>2. CASE (\A i \in 1..n : ~Gives(h, i, name)) /\ sent[name] = own[name]
          BY <1>1, <4>1, <4>2
        <4>3. ASSUME NEW i \in 1..n, Gives(h, i, name), sent[name] = <<h[i][2]>>,
                     \A j \in 1..n : Gives(h, j, name) => j <= i
              PROVE  /\ i \in 1..(n + 1)
                     /\ \A j \in 1..(n + 1) : Gives(h, j, name) => j <= i
                     /\ next[name] = <<h[i][2]>>
          BY <1>1, <4>1, <4>3
        <4>. QED
          BY <4>1, <4>2, <4>3 DEF Carries
      <3>. QED
        BY <3>1, <3>2
    <2>. QED
      BY <2>3, <2>5 DEF Carries
  <1>. QED
    BY <1>2, <1>3

\* The request goes out with its own headers, and with each header of the list, with
\* the last of its values.
LEMMA RoundTripCarries ==
    ASSUME NEW h, Len(h) \in Nat, \A i \in 1..Len(h) : Len(h[i]) \in Nat, NEW own
    PROVE  Carries(RoundTrip(h, own), Len(h), h, own)
  <1>. DEFINE sent == CHOOSE f : Adds(f, Len(h), h, own)
  <1>1. Adds(sent, Len(h), h, own) /\ RoundTrip(h, own) = sent[Len(h)]
    <2>1. RoundTrip(h, own) = sent[Len(h)]
      BY DEF RoundTrip, Adds
    <2>2. Adds(sent, Len(h), h, own)
      <3>. HIDE DEF Adds
      <3>. QED
        BY AddsAll
    <2>. QED
      BY <2>1, <2>2
  <1>. HIDE DEF sent
  <1>. DEFINE Bad == {n \in Nat : n <= Len(h) /\ ~Carries(sent[n], n, h, own)}
  <1>2. SUFFICES ASSUME Bad # {} PROVE FALSE
    BY <1>1
  <1>3. PICK n \in Bad : \A m \in Bad : n <= m
    <2>. HIDE DEF Bad
    <2>1. Bad \in SUBSET Nat
      BY DEF Bad
    <2>. QED
      BY <1>2, <2>1, LeastNatural
  <1>4. n # 0
    <2>1. sent[0] = own
      BY <1>1 DEF Adds
    <2>2. 1..0 = {}
      OBVIOUS
    <2>3. Carries(own, 0, h, own)
      BY <2>2 DEF Carries
    <2>. QED
      BY <2>1, <2>3
  <1>5. n - 1 \in Nat /\ n \in 1..Len(h) /\ n - 1 \notin Bad
    BY <1>3, <1>4
  <1>6. Carries(sent[n - 1], n - 1, h, own)
    BY <1>5
  <1>7. sent[n] = SetHeader(sent[n - 1], h[n])
    BY <1>1, <1>5 DEF Adds
  <1>8. (n - 1) + 1 = n
    BY <1>5
  <1>9. Carries(sent[n], n, h, own)
    BY <1>5, <1>6, <1>7, <1>8, SetHeaderCarries
  <1>. QED
    BY <1>9

LEMMA HeadersType ==
    ASSUME line \in Lines
    PROVE  cfg["kong-admin-header"] \in Seq(Seq(STRING))
  <1>. DEFINE flag == "kong-admin-header"
  <1>1. flag \in Flag
    BY DEF Flag, ListFlags
  <1>2. Default(flag) = <<>>
    BY DEF Default, ListFlags
  <1>3. cfg[flag] = FirstSet(line.given[flag], line.env[flag], <<>>)
    BY <1>1, <1>2 DEF cfg, bindEnvVars
  <1>4. <<>> \in Seq(Seq(STRING))
    OBVIOUS
  <1>. QED
    BY <1>3, <1>4, HeadersAssumption DEF FirstSet

\* sent has the headers own and those of h, each of these with the last of its values.
Arrives(sent, h, own) ==
    /\ \A name \in DOMAIN sent :
          \/ /\ \A i \in DOMAIN h : ~Gives(h, i, name)
             /\ name \in DOMAIN own
             /\ sent[name] = own[name]
          \/ \E i \in DOMAIN h : /\ Gives(h, i, name)
                                 /\ \A j \in DOMAIN h : Gives(h, j, name) => j <= i
                                 /\ sent[name] = <<h[i][2]>>
    /\ DOMAIN own \subseteq DOMAIN sent
    /\ \A i \in DOMAIN h : Len(h[i]) >= 2 => h[i][1] \in DOMAIN sent

LEMMA RoundTripArrives ==
    ASSUME NEW S, NEW h \in Seq(S), \A s \in S : Len(s) \in Nat, NEW own
    PROVE  Arrives(RoundTrip(h, own), h, own)
  <1>1. Len(h) \in Nat /\ DOMAIN h = 1..Len(h) /\ \A i \in 1..Len(h) : Len(h[i]) \in Nat
    OBVIOUS
  <1>2. Carries(RoundTrip(h, own), Len(h), h, own)
    BY <1>1, RoundTripCarries
  <1>. DEFINE sent == RoundTrip(h, own)
  <1>. HIDE DEF sent
  <1>3. ASSUME NEW name \in DOMAIN sent, \A i \in DOMAIN h : ~Gives(h, i, name)
        PROVE  name \in DOMAIN own
    BY <1>1, <1>2, <1>3 DEF Carries, Gives, sent
  <1>. QED
    BY <1>1, <1>2, <1>3 DEF Arrives, Carries, sent

\* One more header at the end of the list prevails, and the others are as before.
LEMMA LastPrevails ==
    ASSUME NEW S, NEW h \in Seq(S), NEW title, NEW value, NEW own, NEW sent,
           Arrives(sent, Append(h, <<title, value>>), own)
    PROVE  /\ title \in DOMAIN sent /\ sent[title] = <<value>>
           /\ \A name \in DOMAIN sent \ {title} :
                 \/ /\ \A i \in DOMAIN h : ~Gives(h, i, name)
                    /\ name \in DOMAIN own
                    /\ sent[name] = own[name]
                 \/ \E i \in DOMAIN h : /\ Gives(h, i, name)
                                        /\ \A j \in DOMAIN h : Gives(h, j, name) => j <= i
                                        /\ sent[name] = <<h[i][2]>>
           /\ DOMAIN own \subseteq DOMAIN sent
           /\ \A i \in DOMAIN h : Len(h[i]) >= 2 => h[i][1] \in DOMAIN sent
  <1>. DEFINE more == Append(h, <<title, value>>)
              n    == Len(h) + 1
  <1>1. /\ DOMAIN h = 1..Len(h) /\ Len(h) \in Nat
        /\ DOMAIN more = 1..n /\ 1..n = DOMAIN h \cup {n} /\ n \notin DOMAIN h
        /\ more[n] = <<title, value>>
        /\ \A i \in DOMAIN h : more[i] = h[i] /\ i <= n /\ i # n
    OBVIOUS
  <1>2. Arrives(sent, more, own)
    OBVIOUS
  <1>. HIDE DEF more, n
  <1>3. /\ \A name : Gives(more, n, name) <=> name = title
        /\ more[n][1] = title /\ more[n][2] = value /\ Len(more[n]) >= 2
    BY <1>1 DEF Gives
  <1>4. \A i \in DOMAIN h : \A name : Gives(more, i, name) <=> Gives(h, i, name)
    BY <1>1 DEF Gives
  <1>5. title \in DOMAIN sent
    BY <1>1, <1>2, <1>3 DEF Arrives
  <1>6. sent[title] = <<value>>
    <2>1. PICK i \in 1..n : /\ Gives(more, i, title)
                            /\ \A j \in 1..n : Gives(more, j, title) => j <= i
                            /\ sent[title] = <<more[i][2]>>
      BY <1>1, <1>2, <1>3, <1>5 DEF Arrives
    <2>2. i = n
      BY <1>1, <1>3, <2>1 DEF n
    <2>. QED
      BY <1>3, <2>1, <2>2
  <1>7. ASSUME NEW name \in DOMAIN sent \ {title}
        PROVE  \/ /\ \A i \in DOMAIN h : ~Gives(h, i, name)
                  /\ name \in DOMAIN own
                  /\ sent[name] = own[name]
               \/ \E i \in DOMAIN h : /\ Gives(h, i, name)
                                      /\ \A j \in DOMAIN h : Gives(h, j, name) => j <= i
                                      /\ sent[name] = <<h[i][2]>>
    <2>1. CASE \A i \in DOMAIN more : ~Gives(more, i, name)
      BY <1>1, <1>2, <1>4, <2>1 DEF Arrives
    <2>2. ASSUME NEW i \in DOMAIN more, Gives(more, i, name),
                 \A j \in DOMAIN more : Gives(more, j, name) => j <= i,
                 sent[name] = <<more[i][2]>>
          PROVE  /\ i \in DOMAIN h
                 /\ Gives(h, i, name)
                 /\ \A j \in DOMAIN h : Gives(h, j, name) => j <= i
                 /\ sent[name] = <<h[i][2]>>
      <3>1. i \in DOMAIN h
        BY <1>1, <1>3, <2>2
      <3>. QED
        BY <1>1, <1>4, <2>2, <3>1
    <2>. QED
      BY <1>2, <2>1, <2>2 DEF Arrives
  <1>8. \A i \in DOMAIN h : Len(h[i]) >= 2 => h[i][1] \in DOMAIN sent
    BY <1>1, <1>2 DEF Arrives
  <1>. QED
    BY <1>2, <1>5, <1>6, <1>7, <1>8 DEF Arrives

\* Every request to Kong carries the configured token, and each header the command line
\* names with the last of its values, however many it names and in whatever order.
THEOREM HeadersArriveAlways == Spec => []HeadersArrive
  <1>. DEFINE headers == cfg["kong-admin-header"]
              token   == cfg["kong-admin-token"]
              given   == token # ""
              secret  == {name \in {"kong-admin-token"} : token # ""}
              own     == "accept" :> <<"own">>
              sent    == RoundTrip(KongHeaders(cfg), own)
  <1>1. line \in Lines => HeadersArrive
    <2>. SUFFICES ASSUME line \in Lines PROVE HeadersArrive
      OBVIOUS
    <2>1. headers \in Seq(Seq(STRING))
      BY HeadersType
    <2>2. /\ given => KongHeaders(cfg) = Append(headers, <<"kong-admin-token", token>>)
          /\ ~given => KongHeaders(cfg) = headers
          /\ given => secret = {"kong-admin-token"}
          /\ ~given => secret = {}
      BY DEF KongHeaders
    <2>. SUFFICES
            /\ \A name \in secret : name \in DOMAIN sent /\ sent[name] = <<token>>
            /\ \A name \in DOMAIN sent \ secret :
                  \/ ValuesFor(name) = {} /\ name \in DOMAIN own /\ sent[name] = own[name]
                  \/ \E i \in ValuesFor(name) : /\ \A j \in ValuesFor(name) : j <= i
                                                /\ sent[name] = <<headers[i][2]>>
            /\ DOMAIN own \subseteq DOMAIN sent
            /\ \A i \in DOMAIN headers : Len(headers[i]) >= 2 => headers[i][1] \in DOMAIN sent
      BY DEF HeadersArrive
    <2>3. \A name : ValuesFor(name) = {i \in DOMAIN headers : Gives(headers, i, name)}
      BY DEF ValuesFor, Gives
    <2>. HIDE DEF headers, token, given, secret, own
    <2>4. CASE given
      <3>. DEFINE last == <<"kong-admin-token", token>>
                  S    == Seq(STRING) \cup {last}
      <3>1. Append(headers, last) \in Seq(S)
        BY <2>1
      <3>2. \A s \in S : Len(s) \in Nat
        OBVIOUS
      <3>3. KongHeaders(cfg) = Append(headers, last)
        BY <2>2, <2>4
      <3>4. Arrives(sent, Append(headers, last), own)
        <4>. HIDE DEF S, last
        <4>. QED
          BY <3>1, <3>2, <3>3, RoundTripArrives
      <3>. HIDE DEF sent
      <3>. QED
        BY <2>1, <2>2, <2>3, <2>4, <3>4, LastPrevails
    <2>5. CASE ~given
      <3>1. Arrives(sent, headers, own)
        BY <2>1, <2>2, <2>5, RoundTripArrives
      <3>. HIDE DEF sent
      <3>. QED
        BY <2>2, <2>3, <2>5, <3>1 DEF Arrives
    <2>. QED
      BY <2>4, <2>5
  <1>2. TypeOK => HeadersArrive
    BY <1>1 DEF TypeOK
  <1>. QED
    BY <1>2, ProcessTypeInvariant, PTL
=============================================================================
