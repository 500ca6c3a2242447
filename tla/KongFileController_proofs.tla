----------------------- MODULE KongFileController_proofs -----------------------
(***************************************************************************)
(* Theorems about KongFileController, for every value of its constants.    *)
(***************************************************************************)
EXTENDS KongFileController, FiniteSetTheorems, TLAPS

-----------------------------------------------------------------------------
(* What one version of the API server's and the informer's state says. *)

LEMMA BuildFile ==
    ASSUME NEW s \in AllSpecs
    PROVE  Build(s) \in File
  BY DEF File

LEMMA VersionType ==
    ASSUME KubeTypeOK, NEW k \in Keys
    PROVE  /\ Len(log[k]) \in Nat \ {0}
           /\ DOMAIN log[k] = 1..Len(log[k])
           /\ seen[k] \in DOMAIN log[k]
           /\ \A i \in DOMAIN log[k] : log[k][i] \in Object \cup {NoObj}
           /\ api(k) \in Object \cup {NoObj}
           /\ cached(k) \in Object \cup {NoObj}
  <1>1. log[k] \in Seq(Object \cup {NoObj}) /\ seen[k] \in 1..Len(log[k])
    BY DEF KubeTypeOK
  <1> QED
    BY <1>1 DEF api, cached

\* Appending obj to the history of k.
LEMMA WriteType ==
    ASSUME KubeTypeOK, NEW k \in Keys, NEW obj \in Object \cup {NoObj}, Write(k, obj)
    PROVE  /\ log' \in [Keys -> Seq(Object \cup {NoObj})]
           /\ Len(log'[k]) = Len(log[k]) + 1
           /\ log'[k][Len(log[k]) + 1] = obj
           /\ \A i \in DOMAIN log[k] : log'[k][i] = log[k][i]
           /\ \A q \in Keys \ {k} : log'[q] = log[q]
  <1>1. log[k] \in Seq(Object \cup {NoObj}) /\ log' = [log EXCEPT ![k] = Append(log[k], obj)]
    BY DEF KubeTypeOK, Write
  <1>2. log'[k] = Append(log[k], obj) /\ Append(log[k], obj) \in Seq(Object \cup {NoObj})
    BY <1>1 DEF KubeTypeOK
  <1> QED
    BY <1>1, <1>2 DEF KubeTypeOK

LEMMA WriteKeepsType ==
    ASSUME KubeTypeOK, NEW k \in Keys, NEW obj \in Object \cup {NoObj}, Write(k, obj),
           UNCHANGED seen
    PROVE  KubeTypeOK'
  <1>1. ASSUME NEW q \in Keys PROVE seen'[q] \in 1..Len(log'[q])
    <2>1. seen[q] \in 1..Len(log[q]) /\ Len(log[q]) \in Nat
      BY VersionType
    <2>2. Len(log'[q]) \in {Len(log[q]), Len(log[q]) + 1}
      BY WriteType
    <2> QED
      BY <2>1, <2>2
  <1> QED
    BY <1>1, WriteType DEF KubeTypeOK

\* What users write: an object, and never a validation of their own.
LEMMA UserWritesObject ==
    ASSUME KubeTypeOK, NEW k \in Keys, UserWrites(k)
    PROVE  \E obj \in Object \cup {NoObj} :
              /\ Write(k, obj)
              /\ obj # NoObj =>
                    /\ obj.validated => api(k) # NoObj /\ api(k).validated
                    /\ api(k) # NoObj /\ api(k).terminating => obj.terminating
                    /\ obj.spec \in Specs[k] \/ (api(k) # NoObj /\ obj.spec = api(k).spec)
  <1>1. api(k) \in Object \cup {NoObj}
    BY VersionType
  <1>2. Specs[k] \subseteq AllSpecs
    BY DEF AllSpecs
  <1>3. CASE UserCreate(k)
    <2>1. PICK c \in Classes, s \in Specs[k], f \in BOOLEAN :
             Write(k, [class |-> c, spec |-> s, validated |-> FALSE,
                       terminating |-> FALSE, finalizer |-> f])
      BY <1>3 DEF UserCreate
    <2> DEFINE obj == [class |-> c, spec |-> s, validated |-> FALSE,
                       terminating |-> FALSE, finalizer |-> f]
    <2>2. obj \in Object
      BY <1>2 DEF Object
    <2>3. api(k) = NoObj
      BY <1>3 DEF UserCreate
    <2> QED
      BY <2>1, <2>2, <2>3
  <1>4. CASE UserEditSpec(k)
    <2>1. PICK s \in Specs[k] : Write(k, [api(k) EXCEPT !.spec = s])
      BY <1>4 DEF UserEditSpec
    <2>2. api(k) \in Object
      BY <1>1, <1>4 DEF UserEditSpec
    <2>3. [api(k) EXCEPT !.spec = s] \in Object
      BY <1>2, <2>2 DEF Object
    <2> QED
      BY <2>1, <2>2, <2>3, NoObjAssumption DEF Object
  <1>5. CASE UserEditClass(k)
    <2>1. PICK c \in Classes : Write(k, [api(k) EXCEPT !.class = c])
      BY <1>5 DEF UserEditClass
    <2>2. api(k) \in Object
      BY <1>1, <1>5 DEF UserEditClass
    <2>3. [api(k) EXCEPT !.class = c] \in Object
      BY <2>2 DEF Object
    <2> QED
      BY <2>1, <2>2, <2>3, NoObjAssumption DEF Object
  <1>6. CASE UserDelete(k)
    <2>1. api(k) \in Object
      BY <1>1, <1>6 DEF UserDelete
    <2>2. [api(k) EXCEPT !.terminating = TRUE] \in Object
      BY <2>1 DEF Object
    <2>3. Write(k, NoObj) \/ Write(k, [api(k) EXCEPT !.terminating = TRUE])
      BY <1>6 DEF UserDelete
    <2> QED
      BY <2>1, <2>2, <2>3, NoObjAssumption DEF Object
  <1>7. CASE UserFinalize(k)
    BY <1>7 DEF UserFinalize
  <1> QED
    BY <1>3, <1>4, <1>5, <1>6, <1>7 DEF UserWrites

\* What an accepted status update writes.
LEMMA StatusUpdateObject ==
    ASSUME KubeTypeOK, NEW k \in Keys, NEW ver, StatusUpdate(k, ver)
    PROVE  /\ ver = Len(log[k])
           /\ api(k) \in Object
           /\ \E obj \in Object :
                 /\ Write(k, obj)
                 /\ obj.validated
                 /\ obj.spec = api(k).spec
                 /\ obj.class = api(k).class
                 /\ obj.terminating = api(k).terminating
  <1>1. api(k) \in Object
    BY VersionType DEF StatusUpdate
  <1>2. [api(k) EXCEPT !.validated = TRUE] \in Object
    BY <1>1 DEF Object
  <1> QED
    BY <1>1, <1>2 DEF StatusUpdate, Object

-----------------------------------------------------------------------------
(* Type correctness. *)

LEMMA CallType ==
    ASSUME TypeOK, NEW phase \in {"put", "exists", "delete"}, NEW k \in Keys,
           NEW file \in File, Call(phase, k, file)
    PROVE  worker' \in Reconciling \cup {Idle} /\ dirty' \subseteq Keys
  <1>1. seen[k] \in Nat
    BY DEF TypeOK, KubeTypeOK
  <1> QED
    BY <1>1 DEF Call, TypeOK, Reconciling

LEMMA ForgetType ==
    ASSUME TypeOK, NEW k, Forget(k)
    PROVE  worker' \in Reconciling \cup {Idle} /\ dirty' \subseteq Keys
  BY DEF Forget, TypeOK

LEMMA RequeueType ==
    ASSUME TypeOK, worker # Idle, Requeue
    PROVE  worker' \in Reconciling \cup {Idle} /\ dirty' \subseteq Keys
  BY DEF Requeue, TypeOK, Reconciling

\* A worker in any phase but "idle" is a reconcile of some key.
LEMMA PhaseType ==
    ASSUME TypeOK, worker.phase \in {"put", "exists", "delete", "status"}
    PROVE  worker \in Reconciling /\ worker # Idle
  BY DEF TypeOK, Reconciling, Idle

LEMMA PendingType ==
    ASSUME TypeOK
    PROVE  Pending \subseteq Request
  <1>1. CASE worker \in Reconciling
    BY <1>1 DEF Pending, Request, Reconciling
  <1>2. CASE worker = Idle
    BY <1>2 DEF Pending, Idle
  <1> QED
    BY <1>1, <1>2 DEF TypeOK

LEMMA ApplyType ==
    ASSUME KongTypeOK, NEW req \in Request, Apply(req)
    PROVE  kong' \subseteq File
  BY DEF KongTypeOK, Request, Apply, Others

LEMMA AbandonType ==
    ASSUME KongTypeOK, NEW reqs \in SUBSET Request, Abandon(reqs)
    PROVE  KongTypeOK'
  <1>1. CASE \E req \in reqs : Apply(req) /\ UNCHANGED late
    BY <1>1, ApplyType DEF KongTypeOK
  <1> QED
    BY <1>1 DEF Abandon, KongTypeOK

LEMMA ReconcileType ==
    ASSUME TypeOK, NEW k \in Keys, Reconcile(k)
    PROVE  TypeOK'
  <1>1. cached(k) \in Object \cup {NoObj} /\ store[k] \in AllSpecs \cup {NoSpec}
    BY VersionType DEF TypeOK, StoreTypeOK
  <1>2. cached(k) # NoObj => cached(k).spec \in AllSpecs
    BY <1>1 DEF Object
  <1>3. StoreTypeOK' /\ worker' \in Reconciling \cup {Idle} /\ dirty' \subseteq Keys
    <2>1. CASE ReconcileMissing(k) /\ Exists(k)
      <3>1. store[k] \in AllSpecs
        BY <1>1, <2>1 DEF Exists
      <3>2. Call("delete", k, Build(store[k])) /\ StoreDelete(k)
        BY <2>1 DEF ReconcileMissing, ProxyDelete
      <3> QED
        BY <3>1, <3>2, BuildFile, CallType DEF StoreDelete, TypeOK, StoreTypeOK
    <2>2. CASE ReconcileMissing(k) /\ ~Exists(k)
      BY <2>2, ForgetType DEF ReconcileMissing, TypeOK, StoreTypeOK
    <2>3. CASE ReconcileTerminating(k)
      BY <2>3, <1>2, BuildFile, CallType DEF ReconcileTerminating, TypeOK, StoreTypeOK
    <2>4. CASE ReconcileForeign(k)
      BY <2>4, ForgetType DEF ReconcileForeign, TypeOK, StoreTypeOK
    <2>5. CASE ReconcileValidated(k)
      BY <2>5, ForgetType DEF ReconcileValidated, TypeOK, StoreTypeOK
    <2>6. CASE ReconcilePublish(k)
      <3>1. cached(k).spec \in AllSpecs
        BY <1>2, <2>6 DEF ReconcilePublish, Living
      <3>2. StoreUpdate(k, cached(k).spec) /\ Call("put", k, Build(cached(k).spec))
        BY <2>6 DEF ReconcilePublish, UpdateObject
      <3> QED
        BY <3>1, <3>2, BuildFile, CallType DEF StoreUpdate, TypeOK, StoreTypeOK
    <2> QED
      BY <2>1, <2>2, <2>3, <2>4, <2>5, <2>6 DEF Reconcile
  <1> QED
    BY <1>3 DEF Reconcile, TypeOK, KubeTypeOK, KongTypeOK

\* The answers of Kong leave the API server alone.
LEMMA KongAnswerType ==
    ASSUME TypeOK, PutSucceeds \/ DeleteSucceeds \/ FileExists \/ FileMissing \/ KongFails
    PROVE  TypeOK'
  <1>1. worker \in Reconciling /\ worker # Idle
    BY PhaseType DEF PutSucceeds, DeleteSucceeds, FileExists, FileMissing, KongFails
  <1>2. worker' \in Reconciling \cup {Idle} /\ dirty' \subseteq Keys
    <2>1. CASE PutSucceeds \/ FileExists
      BY <1>1, <2>1 DEF PutSucceeds, FileExists, Reconciling, TypeOK
    <2>2. CASE DeleteSucceeds \/ FileMissing \/ KongFails
      BY <1>1, <2>2, RequeueType DEF DeleteSucceeds, FileMissing, KongFails
    <2> QED
      BY <2>1, <2>2
  <1>3. KongTypeOK'
    <2>1. CASE PutSucceeds \/ DeleteSucceeds
      <3>1. PICK req \in Request : Apply(req)
        BY <2>1, PendingType DEF PutSucceeds, DeleteSucceeds
      <3> QED
        BY <2>1, <3>1, ApplyType DEF PutSucceeds, DeleteSucceeds, TypeOK, KongTypeOK
    <2>2. CASE FileExists \/ FileMissing
      BY <2>2 DEF FileExists, FileMissing, TypeOK, KongTypeOK
    <2>3. CASE KongFails
      BY <2>3, PendingType, AbandonType DEF KongFails, TypeOK
    <2> QED
      BY <2>1, <2>2, <2>3
  <1>4. StoreTypeOK'
    <2>1. CASE FileExists
      BY <2>1 DEF FileExists, StoreDelete, TypeOK, StoreTypeOK
    <2>2. CASE UNCHANGED store
      BY <2>2 DEF TypeOK, StoreTypeOK
    <2> QED
      BY <2>1, <2>2 DEF PutSucceeds, DeleteSucceeds, FileMissing, KongFails
  <1>5. UNCHANGED <<log, seen, crashes>>
    BY DEF PutSucceeds, DeleteSucceeds, FileExists, FileMissing, KongFails
  <1> QED
    BY <1>2, <1>3, <1>4, <1>5 DEF TypeOK, KubeTypeOK

\* So do the answers of the API server leave Kong and the cache alone.
LEMMA StatusAnswerType ==
    ASSUME TypeOK, StatusAccepted \/ StatusConflict \/ StatusFails
    PROVE  TypeOK'
  <1>1. worker \in Reconciling /\ worker # Idle
    BY PhaseType DEF StatusAccepted, StatusConflict, StatusFails
  <1>2. worker' \in Reconciling \cup {Idle} /\ dirty' \subseteq Keys
    <2>1. CASE StatusAccepted
      BY <2>1 DEF StatusAccepted, TypeOK
    <2>2. CASE StatusConflict \/ StatusFails
      BY <1>1, <2>2, RequeueType DEF StatusConflict, StatusFails
    <2> QED
      BY <2>1, <2>2
  <1>3. UNCHANGED <<seen, store, kong, late, crashes>>
    BY DEF StatusAccepted, StatusConflict, StatusFails
  <1>4. KubeTypeOK'
    <2>1. CASE UNCHANGED log
      BY <1>3, <2>1 DEF TypeOK, KubeTypeOK
    <2>2. CASE StatusUpdate(worker.key, worker.ver)
      <3>1. worker.key \in Keys
        BY <1>1 DEF Reconciling
      <3>2. \E obj \in Object : Write(worker.key, obj)
        BY <2>2, <3>1, StatusUpdateObject DEF TypeOK
      <3> QED
        BY <1>3, <3>1, <3>2, WriteKeepsType DEF TypeOK
    <2> QED
      BY <2>1, <2>2 DEF StatusAccepted, StatusConflict, StatusFails
  <1> QED
    BY <1>2, <1>3, <1>4 DEF TypeOK, StoreTypeOK, KongTypeOK

\* A process that ends leaves behind, at most, one more version of one object.
LEMMA StopType ==
    ASSUME TypeOK, Stop
    PROVE  /\ KongTypeOK'
           /\ log' \in [Keys -> Seq(Object \cup {NoObj})]
           /\ \A k \in Keys : Len(log[k]) <= Len(log'[k]) /\ Len(log'[k]) \in Nat
  <1>1. KongTypeOK'
    BY PendingType, AbandonType DEF Stop, TypeOK
  <1>2. CASE UNCHANGED log
    BY <1>1, <1>2, VersionType DEF TypeOK, KubeTypeOK
  <1>3. CASE worker.phase = "status" /\ StatusUpdate(worker.key, worker.ver)
    <2>1. worker.key \in Keys
      BY <1>3, PhaseType DEF Reconciling
    <2>2. PICK obj \in Object : Write(worker.key, obj)
      BY <1>3, <2>1, StatusUpdateObject DEF TypeOK
    <2>3. /\ log' \in [Keys -> Seq(Object \cup {NoObj})]
          /\ Len(log'[worker.key]) = Len(log[worker.key]) + 1
          /\ \A q \in Keys \ {worker.key} : log'[q] = log[q]
      BY <2>1, <2>2, WriteType DEF TypeOK
    <2> QED
      BY <1>1, <2>1, <2>3, VersionType DEF TypeOK
  <1> QED
    BY <1>2, <1>3 DEF Stop

LEMMA CrashType ==
    ASSUME TypeOK, Crash
    PROVE  TypeOK'
  <1>1. KongTypeOK'
    BY StopType DEF Crash
  <1>2. /\ log' \in [Keys -> Seq(Object \cup {NoObj})]
        /\ \A k \in Keys : Len(log[k]) <= Len(log'[k]) /\ Len(log'[k]) \in Nat
    BY StopType DEF Crash
  <1>3. ASSUME NEW k \in Keys
        PROVE  seen'[k] \in DOMAIN log[k] /\ DOMAIN log[k] = 1..Len(log[k])
    <2>1. Len(log[k]) \in DOMAIN log[k] /\ DOMAIN log[k] = 1..Len(log[k])
      BY VersionType DEF TypeOK
    <2> QED
      BY <2>1 DEF Crash, Restart
  <1>4. KubeTypeOK'
    <2>1. seen' \in [Keys -> UNION {DOMAIN log[k] : k \in Keys}]
      BY DEF Crash, Restart
    <2>2. UNION {DOMAIN log[k] : k \in Keys} \subseteq Nat
      BY VersionType DEF TypeOK
    <2>3. seen' \in [Keys -> Nat]
      BY <2>1, <2>2
    <2>4. ASSUME NEW k \in Keys PROVE seen'[k] \in 1..Len(log'[k])
      BY <1>2, <1>3, VersionType DEF TypeOK
    <2> QED
      BY <1>2, <2>3, <2>4 DEF KubeTypeOK
  <1>5. StoreTypeOK'
    BY DEF Crash, Restart, StoreTypeOK
  <1> QED
    BY <1>1, <1>4, <1>5, ControllerAssumption DEF Crash, Restart, TypeOK

LEMMA DeliverType ==
    ASSUME TypeOK, NEW k \in Keys, Deliver(k)
    PROVE  TypeOK'
  <1>1. PICK n \in DOMAIN log[k] : seen' = [seen EXCEPT ![k] = n]
    BY DEF Deliver, Observe
  <1>2. n \in 1..Len(log[k]) /\ n \in Nat
    BY VersionType DEF TypeOK
  <1>3. KubeTypeOK'
    BY <1>1, <1>2 DEF Deliver, TypeOK, KubeTypeOK
  <1> QED
    BY <1>3 DEF Deliver, TypeOK, StoreTypeOK, KongTypeOK

LEMMA TypeInit ==
    ASSUME Init
    PROVE  TypeOK
  <1>1. KubeTypeOK
    BY DEF Init, KubeInit, KubeTypeOK
  <1> QED
    BY <1>1 DEF Init, TypeOK, StoreInit, StoreTypeOK, KongInit, KongTypeOK

LEMMA TypeStep ==
    ASSUME TypeOK, [Next]_vars
    PROVE  TypeOK'
  <1>1. ASSUME NEW k \in Keys, Reconcile(k) PROVE TypeOK'
    BY <1>1, ReconcileType
  <1>2. ASSUME NEW k \in Keys, User(k) PROVE TypeOK'
    <2>1. KubeTypeOK'
      BY <1>2, UserWritesObject, WriteKeepsType DEF User, TypeOK
    <2> QED
      BY <1>2, <2>1 DEF User, TypeOK, StoreTypeOK, KongTypeOK
  <1>3. ASSUME NEW k \in Keys, Deliver(k) PROVE TypeOK'
    BY <1>3, DeliverType
  <1>4. ASSUME NEW k \in Keys, Resync(k) PROVE TypeOK'
    BY <1>4 DEF Resync, TypeOK, KubeTypeOK, StoreTypeOK, KongTypeOK
  <1>5. CASE PutSucceeds \/ DeleteSucceeds \/ FileExists \/ FileMissing \/ KongFails
    BY <1>5, KongAnswerType
  <1>6. CASE StatusAccepted \/ StatusConflict \/ StatusFails
    BY <1>6, StatusAnswerType
  <1>7. CASE Crash
    BY <1>7, CrashType
  <1>8. CASE Late
    <2>1. KongTypeOK'
      <3>1. PICK req \in Request : late' = late \ {req} /\ (Apply(req) \/ UNCHANGED kong)
        BY <1>8 DEF Late, LateArrives, TypeOK, KongTypeOK
      <3> QED
        BY <3>1, ApplyType DEF TypeOK, KongTypeOK
    <2> QED
      BY <1>8, <2>1 DEF Late, TypeOK, KubeTypeOK, StoreTypeOK
  <1>9. CASE UNCHANGED vars
    BY <1>9 DEF vars, TypeOK, KubeTypeOK, StoreTypeOK, KongTypeOK
  <1> QED
    BY <1>1, <1>2, <1>3, <1>4, <1>5, <1>6, <1>7, <1>8, <1>9 DEF Next

\* The API server, Kong, the informer, the cache, the queue and the worker hold
\* what their types say, whatever users, failures and restarts do.
THEOREM TypeInvariant == Spec => []TypeOK
  BY TypeInit, TypeStep, PTL DEF Spec

-----------------------------------------------------------------------------
(* The history of the API server is append-only, so what was requested stays   *)
(* requested.                                                                  *)

\* Every version keeps its place.
Grows == \A k \in Keys : \A i \in DOMAIN log[k] : i \in DOMAIN log'[k] /\ log'[k][i] = log[k][i]

LEMMA WriteGrows ==
    ASSUME KubeTypeOK, NEW k \in Keys, NEW obj \in Object \cup {NoObj}, Write(k, obj)
    PROVE  Grows
  <1> SUFFICES ASSUME NEW q \in Keys, NEW i \in DOMAIN log[q]
               PROVE  i \in DOMAIN log'[q] /\ log'[q][i] = log[q][i]
    BY DEF Grows
  <1>1. i \in 1..Len(log[q]) /\ Len(log[q]) \in Nat
    BY VersionType
  <1>2. CASE q = k
    <2>1. log'[k] \in Seq(Object \cup {NoObj}) /\ Len(log'[k]) = Len(log[k]) + 1
      BY WriteType
    <2> QED
      BY <1>1, <1>2, <2>1, WriteType
  <1>3. CASE q # k
    BY <1>3, WriteType
  <1> QED
    BY <1>2, <1>3

LEMMA NextGrows ==
    ASSUME TypeOK, [Next]_vars \/ Stop
    PROVE  Grows
  <1>1. CASE UNCHANGED log
    BY <1>1 DEF Grows
  <1>2. ASSUME NEW k \in Keys, User(k) PROVE Grows
    BY <1>2, UserWritesObject, WriteGrows DEF User, TypeOK
  <1>3. ASSUME worker.phase = "status", StatusUpdate(worker.key, worker.ver) PROVE Grows
    <2>1. worker.key \in Keys
      BY <1>3, PhaseType DEF Reconciling
    <2> QED
      BY <1>3, <2>1, StatusUpdateObject, WriteGrows DEF TypeOK
  <1>4. CASE \E k \in Keys : Reconcile(k) \/ Deliver(k) \/ Resync(k)
    BY <1>1, <1>4 DEF Reconcile, Deliver, Resync
  <1>5. CASE PutSucceeds \/ DeleteSucceeds \/ FileExists \/ FileMissing \/ KongFails
             \/ StatusConflict \/ Late \/ UNCHANGED vars
    BY <1>1, <1>5 DEF PutSucceeds, DeleteSucceeds, FileExists, FileMissing, KongFails,
                      StatusConflict, Late, vars
  <1>6. CASE StatusAccepted \/ StatusFails \/ Stop
    BY <1>1, <1>3, <1>6 DEF StatusAccepted, StatusFails, Stop
  <1> QED
    BY <1>2, <1>4, <1>5, <1>6 DEF Next, Crash

\* A step adds at most one version.
LEMMA OneVersion ==
    ASSUME TypeOK, [Next]_vars \/ Stop, NEW k \in Keys
    PROVE  Len(log'[k]) \in {Len(log[k]), Len(log[k]) + 1}
  <1>1. ASSUME NEW q \in Keys, NEW obj \in Object \cup {NoObj}, Write(q, obj)
        PROVE  Len(log'[k]) \in {Len(log[k]), Len(log[k]) + 1}
    BY <1>1, WriteType DEF TypeOK
  <1>2. ASSUME NEW q \in Keys, User(q)
        PROVE  Len(log'[k]) \in {Len(log[k]), Len(log[k]) + 1}
    BY <1>1, <1>2, UserWritesObject DEF User, TypeOK
  <1>3. ASSUME worker.phase = "status", StatusUpdate(worker.key, worker.ver)
        PROVE  Len(log'[k]) \in {Len(log[k]), Len(log[k]) + 1}
    <2>1. worker.key \in Keys
      BY <1>3, PhaseType DEF Reconciling
    <2> QED
      BY <1>1, <1>3, <2>1, StatusUpdateObject DEF TypeOK
  <1> QED
    BY <1>2, <1>3
    DEF Next, Reconcile, Deliver, Resync, PutSucceeds, DeleteSucceeds, FileExists, FileMissing,
        KongFails, StatusAccepted, StatusConflict, StatusFails, Crash, Stop, Late, vars

LEMMA RequestedStays ==
    ASSUME Grows, NEW k \in Keys, NEW i \in DOMAIN log[k], NEW f, Requested(k, i, f)
    PROVE  i \in DOMAIN log'[k] /\ Requested(k, i, f)'
  BY DEF Grows, Requested, Ours, MatchesControllerClassName

-----------------------------------------------------------------------------
(* What the portal serves was requested. *)

\* The worker puts, and validates, the file of the version it has read.
WorkerPutsRequested ==
    worker.phase \in {"put", "status"} =>
       /\ worker.ver \in DOMAIN log[worker.key]
       /\ Requested(worker.key, worker.ver, worker.file)

LateWasRequested == \A req \in late : req.method = "PUT" => Asked(req.file)

\* PublishedWasRequested says nothing of requests under way, which a step may
\* turn into files: those of the worker and the late ones have to be named.
PublishInv ==
    /\ TypeOK
    /\ PublishedWasRequested
    /\ WorkerPutsRequested
    /\ LateWasRequested

LEMMA AskedStays ==
    ASSUME Grows, NEW f, Asked(f)
    PROVE  Asked(f)'
  <1>1. PICK k \in Keys : \E i \in DOMAIN log[k] : Requested(k, i, f)
    BY DEF Asked
  <1>2. PICK i \in DOMAIN log[k] : Requested(k, i, f)
    BY <1>1
  <1>3. i \in DOMAIN log'[k] /\ Requested(k, i, f)'
    BY <1>2, RequestedStays
  <1> QED
    BY <1>3 DEF Asked

LEMMA PendingWasRequested ==
    ASSUME PublishInv, NEW req \in Pending, req.method = "PUT"
    PROVE  Asked(req.file)
  <1>1. worker.phase = "put" /\ req.file = worker.file
    BY DEF Pending
  <1>2. worker.key \in Keys
    BY <1>1, PhaseType DEF PublishInv, Reconciling
  <1> QED
    BY <1>1, <1>2 DEF PublishInv, WorkerPutsRequested, Asked

\* A PUT adds its own file to the portal, a DELETE none.
LEMMA ApplyPublishes ==
    ASSUME NEW req \in Request, Apply(req), NEW f \in kong'
    PROVE  f \in kong \/ (req.method = "PUT" /\ f = req.file)
  BY DEF Apply, Others

\* Whatever becomes of abandoned requests, what was asked for is served or late.
LEMMA AbandonPublishes ==
    ASSUME NEW reqs \in SUBSET Request, Abandon(reqs)
    PROVE  /\ \A f \in kong' : f \in kong \/ \E req \in reqs : req.method = "PUT" /\ f = req.file
           /\ late' \subseteq late \cup reqs
  <1>1. CASE UNCHANGED kong
    BY <1>1 DEF Abandon
  <1>2. ASSUME NEW req \in reqs, Apply(req), UNCHANGED late
        PROVE  /\ \A f \in kong' : f \in kong \/ (req.method = "PUT" /\ f = req.file)
               /\ late' \subseteq late
    BY <1>2, ApplyPublishes
  <1> QED
    BY <1>1, <1>2 DEF Abandon

LEMMA ReconcilePutsRequested ==
    ASSUME PublishInv, NEW k \in Keys, Reconcile(k)
    PROVE  WorkerPutsRequested'
  <1>1. UNCHANGED log /\ worker = Idle
    BY DEF Reconcile
  <1>2. CASE ReconcilePublish(k)
    <2>1. seen[k] \in DOMAIN log[k]
      BY VersionType DEF PublishInv, TypeOK
    <2>2. Requested(k, seen[k], Build(cached(k).spec))
      BY <1>2 DEF ReconcilePublish, Living, Requested, Ours, cached
    <2>3. CASE isEmptyString(Build(cached(k).spec).path)
      BY <1>1, <1>2, <2>3 DEF ReconcilePublish, UpdateObject, Call, WorkerPutsRequested, Idle
    <2>4. CASE ~isEmptyString(Build(cached(k).spec).path)
      <3>1. worker' = [phase |-> "put", key |-> k, ver |-> seen[k],
                       file |-> Build(cached(k).spec)]
        BY <1>2, <2>4 DEF ReconcilePublish, UpdateObject, Call
      <3> QED
        BY <1>1, <2>1, <2>2, <3>1 DEF WorkerPutsRequested, Requested
    <2> QED
      BY <2>3, <2>4
  <1>3. CASE ~ReconcilePublish(k)
    <2>1. worker' = Idle \/ worker'.phase \in {"exists", "delete"}
      BY <1>1, <1>3 DEF Reconcile, ReconcileMissing, ReconcileTerminating, ReconcileForeign,
                        ReconcileValidated, ProxyDelete, Forget, Call
    <2> QED
      BY <2>1 DEF WorkerPutsRequested, Idle
  <1> QED
    BY <1>2, <1>3

\* A reconcile under way goes on with the same version and file.
LEMMA WorkerKeepsRequested ==
    ASSUME PublishInv, [Next]_vars
    PROVE  WorkerPutsRequested'
  <1>1. Grows
    BY NextGrows DEF PublishInv
  <1>2. CASE worker'.phase \in {"put", "status"} /\ worker # Idle
    <2>1. /\ worker.phase \in {"put", "status"}
          /\ worker'.key = worker.key /\ worker'.ver = worker.ver /\ worker'.file = worker.file
      <3>1. worker \in Reconciling /\ worker' # Idle /\ ~Requeue /\ ~StatusAccepted
        BY <1>2 DEF PublishInv, TypeOK, Idle, Requeue, StatusAccepted
      <3>2. CASE UNCHANGED worker
        BY <1>2, <3>2
      <3>3. CASE PutSucceeds \/ FileExists
        BY <1>2, <3>1, <3>3 DEF PutSucceeds, FileExists, Reconciling
      <3>4. ASSUME NEW k \in Keys, Reconcile(k) PROVE FALSE
        BY <1>2, <3>4 DEF Reconcile
      <3> QED
        BY <3>1, <3>2, <3>3, <3>4
        DEF Next, User, Deliver, Resync, DeleteSucceeds, FileMissing, KongFails,
            StatusConflict, StatusFails, Crash, Restart, Late, vars
    <2>2. worker.key \in Keys
      BY <2>1, PhaseType DEF PublishInv, Reconciling
    <2>3. worker.ver \in DOMAIN log[worker.key] /\ Requested(worker.key, worker.ver, worker.file)
      BY <2>1 DEF PublishInv, WorkerPutsRequested
    <2>4. worker.ver \in DOMAIN log'[worker.key]
      BY <1>1, <2>2, <2>3 DEF Grows
    <2>5. log'[worker.key][worker.ver] = log[worker.key][worker.ver]
      BY <1>1, <2>2, <2>3 DEF Grows
    <2> QED
      BY <2>1, <2>3, <2>4, <2>5 DEF WorkerPutsRequested, Requested
  <1>3. CASE worker'.phase \in {"put", "status"} /\ worker = Idle
    <2>1. CASE \E k \in Keys : Reconcile(k)
      BY <2>1, ReconcilePutsRequested
    <2>2. CASE UNCHANGED worker
      BY <1>3, <2>2 DEF Idle
    <2>3. CASE Crash
      BY <1>3, <2>3 DEF Crash, Restart, Idle
    <2> QED
      BY <1>3, <2>1, <2>2, <2>3
      DEF Next, User, Deliver, Resync, PutSucceeds, DeleteSucceeds, FileExists, FileMissing,
          KongFails, StatusAccepted, StatusConflict, StatusFails, Late, vars, Idle
  <1>4. CASE worker'.phase \notin {"put", "status"}
    BY <1>4 DEF WorkerPutsRequested
  <1> QED
    BY <1>2, <1>3, <1>4

\* A step adds to the portal, and to the late requests, only what was asked for.
LEMMA KongStepPublishes ==
    ASSUME PublishInv, [Next]_vars \/ Stop
    PROVE  /\ \A f \in kong' : Asked(f)
           /\ \A req \in late' : req.method = "PUT" => Asked(req.file)
  <1>1. \A f \in kong : Asked(f)
    BY DEF PublishInv, PublishedWasRequested, Asked
  <1>2. \A req \in late : req.method = "PUT" => Asked(req.file)
    BY DEF PublishInv, LateWasRequested
  <1>3. Pending \subseteq Request /\ late \subseteq Request
    BY PendingType DEF PublishInv, TypeOK, KongTypeOK
  <1>4. ASSUME Abandon(Pending)
        PROVE  /\ \A f \in kong' : Asked(f)
               /\ \A req \in late' : req.method = "PUT" => Asked(req.file)
    <2>1. /\ \A f \in kong' : f \in kong \/ \E req \in Pending : req.method = "PUT" /\ f = req.file
          /\ late' \subseteq late \cup Pending
      BY <1>3, <1>4, AbandonPublishes
    <2> QED
      BY <1>1, <1>2, <2>1, PendingWasRequested
  <1>5. ASSUME NEW req \in Pending \cup late, Apply(req)
        PROVE  \A f \in kong' : Asked(f)
    BY <1>1, <1>2, <1>3, <1>5, ApplyPublishes, PendingWasRequested
  <1>6. CASE UNCHANGED <<kong, late>>
    BY <1>1, <1>2, <1>6
  <1>7. CASE KongFails \/ Stop
    BY <1>4, <1>7 DEF KongFails, Stop
  <1>8. CASE PutSucceeds \/ DeleteSucceeds
    BY <1>2, <1>5, <1>8 DEF PutSucceeds, DeleteSucceeds
  <1>9. CASE Late
    <2>1. PICK req \in late : late' = late \ {req} /\ (Apply(req) \/ UNCHANGED kong)
      BY <1>9 DEF Late, LateArrives
    <2> QED
      BY <1>1, <1>2, <1>5, <2>1
  <1> QED
    BY <1>6, <1>7, <1>8, <1>9
    DEF Next, Reconcile, User, Deliver, Resync, FileExists, FileMissing,
        StatusAccepted, StatusConflict, StatusFails, Crash, vars

LEMMA PublishInit ==
    ASSUME Init
    PROVE  PublishInv
  <1>1. PublishedWasRequested /\ WorkerPutsRequested /\ LateWasRequested
    BY DEF Init, KongInit, PublishedWasRequested, WorkerPutsRequested, LateWasRequested, Idle
  <1> QED
    BY <1>1, TypeInit DEF PublishInv

LEMMA PublishStep ==
    ASSUME PublishInv, [Next]_vars
    PROVE  PublishInv'
  <1>1. TypeOK'
    BY TypeStep DEF PublishInv
  <1>2. WorkerPutsRequested'
    BY WorkerKeepsRequested
  <1>3. Grows
    BY NextGrows DEF PublishInv
  <1>4. PublishedWasRequested'
    <2>1. \A f \in kong' : Asked(f)'
      BY <1>3, KongStepPublishes, AskedStays
    <2> QED
      BY <2>1 DEF PublishedWasRequested, Asked
  <1>5. LateWasRequested'
    BY <1>3, KongStepPublishes, AskedStays DEF LateWasRequested
  <1> QED
    BY <1>1, <1>2, <1>4, <1>5 DEF PublishInv

LEMMA PublishInvariant == Spec => []PublishInv
  BY PublishInit, PublishStep, PTL DEF Spec

\* Every file the portal serves is the file of a version some KongFile of our class
\* had before it was validated, whatever requests, messages and processes are lost.
THEOREM PublishedWasRequestedHolds == Spec => []PublishedWasRequested
<1>1. PublishInv => PublishedWasRequested
  BY DEF PublishInv
<1> QED
  BY <1>1, PublishInvariant, PTL

-----------------------------------------------------------------------------
(* What becomes validated was put. *)

\* An object that a step validates is validated by the worker, whose file is its own.
LEMMA ValidationStep ==
    ASSUME PublishInv, [Next]_vars \/ Stop, NEW k \in Keys, BecomesValidated(k)
    PROVE  /\ worker.phase = "status" /\ worker.key = k
           /\ StatusAccepted \/ StatusFails \/ Stop
           /\ Ours(api(k)')
           /\ Build(api(k)'.spec) = worker.file
  <1>1. ASSUME NEW q \in Keys, NEW obj \in Object \cup {NoObj}, Write(q, obj)
        PROVE  q = k /\ api(k)' = obj
    <2>1. log'[q] \in Seq(Object \cup {NoObj}) /\ Len(log'[q]) = Len(log[q]) + 1
          /\ log'[q][Len(log[q]) + 1] = obj /\ \A p \in Keys \ {q} : log'[p] = log[p]
      BY <1>1, WriteType DEF PublishInv, TypeOK
    <2>2. api(q)' = obj
      BY <2>1 DEF api
    <2>3. q # k => api(k)' = api(k)
      BY <2>1 DEF api
    <2> QED
      BY <2>2, <2>3 DEF BecomesValidated
  <1>2. ~UNCHANGED log
    BY DEF BecomesValidated, api
  <1>3. ASSUME NEW q \in Keys, User(q) PROVE FALSE
    <2>1. KubeTypeOK /\ UserWrites(q)
      BY <1>3 DEF User, PublishInv, TypeOK
    <2>2. PICK obj \in Object \cup {NoObj} :
             /\ Write(q, obj)
             /\ obj # NoObj =>
                   /\ obj.validated => api(q) # NoObj /\ api(q).validated
                   /\ obj.spec \in Specs[q] \/ (api(q) # NoObj /\ obj.spec = api(q).spec)
      BY <2>1, UserWritesObject, Zenon
    <2>3. q = k /\ api(k)' = obj
      BY <1>1, <2>2
    <2> QED
      BY <2>2, <2>3, Zenon DEF BecomesValidated
  <1>4. /\ worker.phase = "status" /\ StatusUpdate(worker.key, worker.ver)
        /\ StatusAccepted \/ StatusFails \/ Stop
    BY <1>2, <1>3
    DEF Next, Reconcile, Deliver, Resync, PutSucceeds, DeleteSucceeds, FileExists, FileMissing,
        KongFails, StatusAccepted, StatusConflict, StatusFails, Crash, Stop, Late, vars
  <1>5. worker.key \in Keys
    BY <1>4, PhaseType DEF PublishInv, Reconciling
  <1>6. PICK obj \in Object : /\ Write(worker.key, obj)
                              /\ obj.spec = api(worker.key).spec
                              /\ obj.class = api(worker.key).class
    BY <1>4, <1>5, StatusUpdateObject DEF PublishInv, TypeOK
  <1>7. worker.key = k /\ api(k)' = obj
    BY <1>1, <1>5, <1>6
  <1>8. Requested(k, Len(log[k]), worker.file)
    BY <1>4, <1>7 DEF PublishInv, WorkerPutsRequested, StatusUpdate
  <1> QED
    BY <1>4, <1>6, <1>7, <1>8, NoObjAssumption
    DEF Requested, Ours, MatchesControllerClassName, api

\* No edit or re-creation ever inherits the validation of the version it replaced:
\* the spec that becomes validated is the one the reconcile in progress has put.
THEOREM ValidatedWasPutHolds == Spec => ValidatedWasPut
<1>1. PublishInv /\ [Next]_vars =>
         [\A k \in Keys : BecomesValidated(k) =>
             Ours(api(k)') /\ worker # Idle /\ Build(api(k)'.spec) = worker.file]_vars
  <2> SUFFICES ASSUME PublishInv, [Next]_vars, NEW k \in Keys, BecomesValidated(k)
               PROVE  Ours(api(k)') /\ worker # Idle /\ Build(api(k)'.spec) = worker.file
    OBVIOUS
  <2> QED
    BY ValidationStep, PhaseType DEF PublishInv
<1> QED
  BY <1>1, PublishInvariant, PTL DEF Spec, ValidatedWasPut

-----------------------------------------------------------------------------
(* What becomes validated is served, when no abandoned request arrives late. *)

ServedInv ==
    /\ PublishInv
    /\ late = {}
    /\ worker.phase = "status" => worker.file \in kong

\* Without late requests a request that fails is lost or was applied at once.
LEMMA AbandonNow ==
    ASSUME MaxLate = 0, late = {}, NEW reqs, Abandon(reqs), IsFiniteSet(reqs)
    PROVE  late' = {} /\ (reqs = {} => UNCHANGED kong)
  <1>1. ASSUME Cardinality(late \cup reqs) <= MaxLate, late' = late \cup reqs
        PROVE  late' = {}
    <2>1. Cardinality(reqs) = 0
      BY <1>1, FS_CardinalityType
    <2> QED
      BY <1>1, <2>1, FS_EmptySet
  <1> QED
    BY <1>1 DEF Abandon

LEMMA PendingFinite ==
    /\ IsFiniteSet(Pending)
    /\ worker.phase = "status" => Pending = {}
  BY FS_EmptySet, FS_Singleton DEF Pending

LEMMA ServedStep ==
    ASSUME MaxLate = 0, ServedInv, [Next]_vars
    PROVE  late' = {} /\ (worker'.phase = "status" => worker'.file \in kong')
  <1>1. worker \in Reconciling \cup {Idle}
    BY DEF ServedInv, PublishInv, TypeOK
  <1>2. CASE PutSucceeds
    <2>1. worker \in Reconciling /\ kong' = Others(worker.file.path) \cup {worker.file}
      BY <1>1, <1>2 DEF PutSucceeds, Pending, Apply, Idle
    <2> QED
      BY <1>2, <2>1 DEF PutSucceeds, ServedInv, Reconciling
  <1>3. CASE DeleteSucceeds \/ FileMissing \/ StatusAccepted \/ StatusConflict \/ StatusFails
    BY <1>3 DEF DeleteSucceeds, FileMissing, StatusAccepted, StatusConflict, StatusFails,
                Requeue, Idle, ServedInv
  <1>4. CASE KongFails \/ Crash
    BY <1>4, AbandonNow, PendingFinite DEF KongFails, Crash, Stop, Restart, Requeue, Idle, ServedInv
  <1>5. CASE FileExists
    BY <1>1, <1>5 DEF FileExists, Reconciling, Idle, ServedInv
  <1>6. CASE \E k \in Keys : Reconcile(k)
    <2>1. UNCHANGED late /\ worker'.phase # "status"
      BY <1>6 DEF Reconcile, ReconcileMissing, ReconcileTerminating, ReconcileForeign,
                  ReconcileValidated, ReconcilePublish, UpdateObject, ProxyDelete,
                  Forget, Call, Idle
    <2> QED
      BY <2>1 DEF ServedInv
  <1>7. CASE Late
    BY <1>7 DEF Late, LateArrives, ServedInv
  <1>8. CASE (\E k \in Keys : User(k) \/ Deliver(k) \/ Resync(k)) \/ UNCHANGED vars
    BY <1>8 DEF User, Deliver, Resync, vars, ServedInv
  <1> QED
    BY <1>2, <1>3, <1>4, <1>5, <1>6, <1>7, <1>8 DEF Next

\* If requests do not outlive their callers, status.validated is set only when
\* the portal serves the very spec it is set on, of an object of our class.
THEOREM ValidatedWhenServedHolds ==
    ASSUME MaxLate = 0
    PROVE  Spec => ValidatedWhenServed
<1>1. Init => ServedInv
  BY PublishInit DEF ServedInv, Init, KongInit, Idle
<1>2. ServedInv /\ [Next]_vars => ServedInv'
  <2> SUFFICES ASSUME ServedInv, [Next]_vars PROVE ServedInv'
    OBVIOUS
  <2>1. PublishInv'
    BY PublishStep DEF ServedInv
  <2> QED
    BY <2>1, ServedStep DEF ServedInv
<1>3. ServedInv /\ [Next]_vars =>
         [\A k \in Keys : BecomesValidated(k) =>
             Ours(api(k)') /\ Build(api(k)'.spec) \in kong']_vars
  <2> SUFFICES ASSUME ServedInv, [Next]_vars, NEW k \in Keys, BecomesValidated(k)
               PROVE  Ours(api(k)') /\ Build(api(k)'.spec) \in kong'
    OBVIOUS
  <2>1. /\ worker.phase = "status" /\ (StatusAccepted \/ StatusFails \/ Stop)
        /\ Ours(api(k)') /\ Build(api(k)'.spec) = worker.file
    BY ValidationStep DEF ServedInv
  <2>2. UNCHANGED kong
    BY <2>1, AbandonNow, PendingFinite DEF StatusAccepted, StatusFails, Stop, ServedInv
  <2> QED
    BY <2>1, <2>2 DEF ServedInv
<1> QED
  BY <1>1, <1>2, <1>3, PTL DEF Spec, ValidatedWhenServed

-----------------------------------------------------------------------------
(* The proxy's cache mirrors Kong, when no request fails and no process is     *)
(* replaced, and each KongFile has one path of its own.                        *)

\* Edits move no file, no file is anybody else's and every kind is set.
OwnPath ==
    /\ \A k \in Keys : \A s, t \in Specs[k] : Build(s).path = Build(t).path
    /\ \A k \in Keys : \A s \in Specs[k] : ~isEmptyString(Build(s).path)
    /\ \A k, q \in Keys : k # q => PathsOf(k) \cap PathsOf(q) = {}

FilesOf(k) == {f \in kong : f.path \in PathsOf(k)}

CachedFiles(k) == IF Exists(k) THEN {Build(store[k])} ELSE {}

\* Users write under k only what Specs[k] lets them, and nothing else is cached.
LogSpecs == \A k \in Keys : \A i \in DOMAIN log[k] : log[k][i] # NoObj => log[k][i].spec \in Specs[k]

StoreSpecs == \A k \in Keys : Exists(k) => store[k] \in Specs[k]

SpecsKept == LogSpecs /\ StoreSpecs

\* The cache is ahead of Kong while the worker waits for a PUT or a DELETE.
WorkerMirrors ==
    /\ worker.phase \in {"put", "exists", "delete", "status"} =>
          \E s \in Specs[worker.key] : worker.file = Build(s)
    /\ worker.phase \in {"put", "status"} => CachedFiles(worker.key) = {worker.file}
    /\ worker.phase = "delete" => ~Exists(worker.key)
    /\ worker.phase \in {"exists", "status"} => FilesOf(worker.key) = CachedFiles(worker.key)

OthersMirror == \A k \in Keys : ~Busy(k) => FilesOf(k) = CachedFiles(k)

MirrorInv ==
    /\ TypeOK
    /\ late = {}
    /\ SpecsKept
    /\ WorkerMirrors
    /\ OthersMirror

\* Users write only specs of theirs, a status update none, a restart none either.
LEMMA LogSpecsStep ==
    ASSUME TypeOK, LogSpecs, [Next]_vars \/ Stop
    PROVE  LogSpecs'
  <1>1. ASSUME NEW k \in Keys, NEW obj \in Object \cup {NoObj}, Write(k, obj),
               obj # NoObj => obj.spec \in Specs[k]
        PROVE  LogSpecs'
    <2> SUFFICES ASSUME NEW q \in Keys, NEW i \in DOMAIN log'[q], log'[q][i] # NoObj
                 PROVE  log'[q][i].spec \in Specs[q]
      BY DEF LogSpecs
    <2>1. CASE q # k
      BY <1>1, <2>1, WriteType DEF TypeOK, LogSpecs
    <2>2. CASE q = k
      <3>1. log'[k] \in Seq(Object \cup {NoObj}) /\ Len(log'[k]) = Len(log[k]) + 1
            /\ log'[k][Len(log[k]) + 1] = obj /\ DOMAIN log[k] = 1..Len(log[k])
            /\ Len(log[k]) \in Nat
        BY <1>1, WriteType, VersionType DEF TypeOK
      <3>2. i \in DOMAIN log[k] \/ i = Len(log[k]) + 1
        BY <2>2, <3>1
      <3>3. \A j \in DOMAIN log[k] : log'[k][j] = log[k][j]
        BY <1>1, WriteType DEF TypeOK
      <3> QED
        BY <1>1, <2>2, <3>1, <3>2, <3>3 DEF LogSpecs
    <2> QED
      BY <2>1, <2>2
  <1>2. ASSUME NEW k \in Keys PROVE api(k) # NoObj => api(k).spec \in Specs[k]
    BY VersionType DEF TypeOK, LogSpecs, api
  <1>3. ASSUME NEW k \in Keys, User(k)
        PROVE  \E obj \in Object \cup {NoObj} : Write(k, obj) /\ (obj # NoObj => obj.spec \in Specs[k])
    BY <1>3, <1>2, UserWritesObject DEF User, TypeOK
  <1>4. CASE \E k \in Keys : User(k)
    BY <1>1, <1>3, <1>4
  <1>5. ASSUME worker.phase = "status", StatusUpdate(worker.key, worker.ver)
        PROVE  \E k \in Keys : \E obj \in Object \cup {NoObj} :
                  Write(k, obj) /\ (obj # NoObj => obj.spec \in Specs[k])
    <2>1. worker.key \in Keys
      BY <1>5, PhaseType DEF Reconciling
    <2> QED
      BY <1>5, <2>1, <1>2, StatusUpdateObject, NoObjAssumption DEF TypeOK
  <1>6. CASE worker.phase = "status" /\ StatusUpdate(worker.key, worker.ver)
    BY <1>1, <1>5, <1>6
  <1>7. CASE UNCHANGED log
    BY <1>7 DEF LogSpecs
  <1> QED
    BY <1>4, <1>6, <1>7
    DEF Next, Reconcile, Deliver, Resync, PutSucceeds, DeleteSucceeds, FileExists, FileMissing,
        KongFails, StatusAccepted, StatusConflict, StatusFails, Crash, Stop, Late, vars

LEMMA StoreSpecsStep ==
    ASSUME TypeOK, SpecsKept, [Next]_vars
    PROVE  StoreSpecs'
  <1>1. ASSUME NEW k \in Keys PROVE cached(k) # NoObj => cached(k).spec \in Specs[k]
    BY VersionType DEF TypeOK, SpecsKept, LogSpecs, cached
  <1>2. ASSUME NEW k \in Keys, Reconcile(k), ReconcilePublish(k) PROVE cached(k).spec \in Specs[k]
    BY <1>2, <1>1 DEF ReconcilePublish, Living
  <1>3. ASSUME NEW k \in Keys, Reconcile(k)
        PROVE  UNCHANGED store \/ StoreDelete(k) \/ \E s \in Specs[k] : StoreUpdate(k, s)
    BY <1>2, <1>3 DEF Reconcile, ReconcileMissing, ReconcileTerminating, ReconcileForeign,
                ReconcileValidated, ReconcilePublish, UpdateObject, ProxyDelete
  <1>4. CASE \E k \in Keys : Reconcile(k)
    BY <1>3, <1>4 DEF StoreDelete, StoreUpdate, SpecsKept, StoreSpecs, Exists, TypeOK, StoreTypeOK
  <1>5. CASE FileExists
    BY <1>5 DEF FileExists, StoreDelete, SpecsKept, StoreSpecs, Exists, TypeOK, StoreTypeOK
  <1>6. CASE UNCHANGED store
    BY <1>6 DEF SpecsKept, StoreSpecs, Exists
  <1>7. CASE Crash
    BY <1>7 DEF Crash, Restart, StoreSpecs, Exists
  <1> QED
    BY <1>4, <1>5, <1>6, <1>7
    DEF Next, User, Deliver, Resync, PutSucceeds, DeleteSucceeds, FileMissing,
        KongFails, StatusAccepted, StatusConflict, StatusFails, Late, vars

LEMMA OwnFile ==
    ASSUME OwnPath, NEW k \in Keys, NEW s \in Specs[k]
    PROVE  /\ PathsOf(k) = {Build(s).path}
           /\ ~isEmptyString(Build(s).path)
           /\ \A q \in Keys \ {k} : Build(s).path \notin PathsOf(q)
  <1>1. Build(s).path \in PathsOf(k)
    BY DEF PathsOf
  <1>2. PathsOf(k) \subseteq {Build(s).path}
    BY DEF OwnPath, PathsOf
  <1> QED
    BY <1>1, <1>2 DEF OwnPath

\* A request about the file of k changes what Kong serves of k only.
LEMMA ApplyOwn ==
    ASSUME OwnPath, NEW k \in Keys, NEW s \in Specs[k], NEW req, req.file = Build(s), Apply(req)
    PROVE  /\ FilesOf(k)' = IF req.method = "PUT" THEN {Build(s)} ELSE {}
           /\ \A q \in Keys \ {k} : FilesOf(q)' = FilesOf(q)
  BY OwnFile DEF Apply, Others, FilesOf

\* A reconcile that starts: the cache changes first, then the worker waits.
LEMMA ReconcileMirrors ==
    ASSUME OwnPath, MirrorInv, NEW k \in Keys, Reconcile(k)
    PROVE  WorkerMirrors' /\ OthersMirror'
  <1>1. worker = Idle /\ UNCHANGED <<log, seen, kong, late, crashes>>
    BY DEF Reconcile
  <1>2. \A q \in Keys : FilesOf(q) = CachedFiles(q) /\ FilesOf(q)' = FilesOf(q)
    BY <1>1 DEF MirrorInv, OthersMirror, Busy, FilesOf
  <1>3. store \in [Keys -> AllSpecs \cup {NoSpec}]
    BY DEF MirrorInv, TypeOK, StoreTypeOK
  <1>4. cached(k) # NoObj => cached(k).spec \in Specs[k] /\ cached(k).spec \in AllSpecs
    BY VersionType DEF MirrorInv, TypeOK, SpecsKept, LogSpecs, cached, AllSpecs
  <1>5. CASE UNCHANGED <<store, worker>>
    BY <1>1, <1>2, <1>5 DEF WorkerMirrors, OthersMirror, Busy, Idle, CachedFiles, Exists
  <1>6. CASE ReconcileMissing(k) /\ Exists(k)
    <2>1. store[k] \in Specs[k]
      BY <1>6 DEF MirrorInv, SpecsKept, StoreSpecs
    <2>2. worker' = [phase |-> "delete", key |-> k, ver |-> seen[k], file |-> Build(store[k])]
          /\ store' = [store EXCEPT ![k] = NoSpec]
      BY <1>6, <2>1, OwnFile DEF ReconcileMissing, ProxyDelete, StoreDelete, Call
    <2> QED
      BY <1>2, <1>3, <2>1, <2>2 DEF WorkerMirrors, OthersMirror, Busy, Idle, CachedFiles, Exists
  <1>7. CASE ReconcileTerminating(k)
    <2>1. cached(k).spec \in Specs[k]
      BY <1>4, <1>7 DEF ReconcileTerminating
    <2>2. worker' = [phase |-> "exists", key |-> k, ver |-> seen[k], file |-> Build(cached(k).spec)]
          /\ UNCHANGED store
      BY <1>7, <2>1, OwnFile DEF ReconcileTerminating, Call
    <2> QED
      BY <1>2, <2>1, <2>2 DEF WorkerMirrors, OthersMirror, Busy, Idle, CachedFiles, Exists
  <1>8. CASE ReconcilePublish(k)
    <2>1. cached(k).spec \in Specs[k] /\ cached(k).spec \in AllSpecs
      BY <1>4, <1>8 DEF ReconcilePublish, Living
    <2>2. worker' = [phase |-> "put", key |-> k, ver |-> seen[k], file |-> Build(cached(k).spec)]
          /\ store' = [store EXCEPT ![k] = cached(k).spec]
      BY <1>8, <2>1, OwnFile DEF ReconcilePublish, UpdateObject, StoreUpdate, Call
    <2>3. cached(k).spec # NoSpec
      BY <2>1, SpecsAssumption, NoSpecAssumption
    <2>4. WorkerMirrors'
      BY <1>3, <2>1, <2>2, <2>3 DEF WorkerMirrors, CachedFiles, Exists
    <2>5. OthersMirror'
      BY <1>2, <1>3, <2>2 DEF OthersMirror, Busy, Idle, CachedFiles, Exists
    <2> QED
      BY <2>4, <2>5
  <1> QED
    BY <1>1, <1>5, <1>6, <1>7, <1>8
    DEF Reconcile, ReconcileMissing, ReconcileForeign, ReconcileValidated, Forget

LEMMA MirrorStep ==
    ASSUME OwnPath, "kong" \notin Faults, MaxCrashes = 0, MirrorInv, [Next]_vars
    PROVE  MirrorInv'
  <1>1. TypeOK' /\ SpecsKept'
    BY TypeStep, LogSpecsStep, StoreSpecsStep DEF MirrorInv, SpecsKept
  <1>2. ~Crash /\ ~KongFails /\ ~Late
    BY DEF Crash, KongFails, Late, LateArrives, MirrorInv, TypeOK
  <1>3. late' = {}
    BY <1>2 DEF MirrorInv, Next, Reconcile, User, Deliver, Resync, PutSucceeds, DeleteSucceeds,
                FileExists, FileMissing, StatusAccepted, StatusConflict, StatusFails, vars
  <1>4. ASSUME worker.phase \in {"put", "exists", "delete", "status"}
        PROVE  /\ worker \in Reconciling /\ worker # Idle
               /\ \E s \in Specs[worker.key] : worker.file = Build(s)
    BY <1>4, PhaseType DEF MirrorInv, WorkerMirrors
  <1>5. CASE PutSucceeds \/ DeleteSucceeds
    <2>1. worker.phase \in {"put", "delete"}
      BY <1>5 DEF PutSucceeds, DeleteSucceeds
    <2>2. PICK s \in Specs[worker.key] : worker.file = Build(s)
      BY <1>4, <2>1
    <2>3. PICK req \in Pending : Apply(req)
      BY <1>5 DEF PutSucceeds, DeleteSucceeds
    <2>4. req.file = worker.file /\ req.method = (IF worker.phase = "put" THEN "PUT" ELSE "DELETE")
      BY <2>1, <2>3 DEF Pending
    <2>5. PICK k \in Keys : k = worker.key
      BY <1>4, <2>1 DEF Reconciling
    <2>6. /\ FilesOf(k)' = IF worker.phase = "put" THEN {worker.file} ELSE {}
          /\ \A q \in Keys \ {k} : FilesOf(q)' = FilesOf(q)
      BY <2>2, <2>3, <2>4, <2>5, ApplyOwn
    <2>7. \A q \in Keys : CachedFiles(q)' = CachedFiles(q)
      BY <1>5 DEF PutSucceeds, DeleteSucceeds, CachedFiles, Exists
    <2>8. CASE PutSucceeds
      <3>1. worker' = [worker EXCEPT !.phase = "status"] /\ worker.phase = "put"
        BY <2>8 DEF PutSucceeds
      <3>2. worker' \in Reconciling /\ worker'.phase = "status" /\ worker'.key = worker.key
            /\ worker'.file = worker.file
        BY <1>4, <2>1, <3>1 DEF Reconciling
      <3>3. WorkerMirrors'
        BY <2>2, <2>5, <2>6, <2>7, <3>1, <3>2 DEF MirrorInv, WorkerMirrors
      <3>4. OthersMirror'
        BY <1>4, <2>1, <2>5, <2>6, <2>7, <3>2 DEF MirrorInv, OthersMirror, Busy, Reconciling, Idle
      <3> QED
        BY <1>1, <1>3, <3>3, <3>4 DEF MirrorInv
    <2>9. CASE DeleteSucceeds
      <3>1. worker' = Idle /\ worker.phase = "delete" /\ ~Exists(worker.key)
        BY <2>9 DEF DeleteSucceeds, Requeue, MirrorInv, WorkerMirrors
      <3>2. OthersMirror'
        <4>1. CachedFiles(k) = {}
          BY <2>5, <3>1 DEF CachedFiles
        <4> QED
          BY <2>5, <2>6, <2>7, <3>1, <4>1 DEF MirrorInv, OthersMirror, Busy
      <3> QED
        BY <1>1, <1>3, <3>1, <3>2 DEF MirrorInv, WorkerMirrors, Idle
    <2> QED
      BY <1>5, <2>8, <2>9
  <1>6. CASE \E k \in Keys : Reconcile(k)
    BY <1>1, <1>3, <1>6, ReconcileMirrors DEF MirrorInv
  <1>7. CASE FileExists
    <2>1. worker \in Reconciling /\ worker # Idle /\ worker.phase = "exists"
      BY <1>4, <1>7 DEF FileExists
    <2>2. worker' \in Reconciling /\ worker'.phase = "delete" /\ worker'.key = worker.key
          /\ worker'.file = worker.file
      BY <1>7, <2>1 DEF FileExists, Reconciling
    <2>3. store' = [store EXCEPT ![worker.key] = NoSpec] /\ UNCHANGED kong
          /\ store \in [Keys -> AllSpecs \cup {NoSpec}] /\ worker.key \in Keys
      BY <1>7, <2>1 DEF FileExists, StoreDelete, MirrorInv, TypeOK, StoreTypeOK, Reconciling
    <2>4. WorkerMirrors'
      BY <1>4, <2>1, <2>2, <2>3 DEF WorkerMirrors, Exists
    <2>5. OthersMirror'
      BY <2>1, <2>2, <2>3 DEF MirrorInv, OthersMirror, Busy, FilesOf, CachedFiles, Exists,
                              Reconciling, Idle
    <2> QED
      BY <1>1, <1>3, <2>4, <2>5 DEF MirrorInv
  <1>8. CASE FileMissing \/ StatusAccepted \/ StatusConflict \/ StatusFails
    <2>1. worker.phase \in {"exists", "status"} /\ worker' = Idle /\ UNCHANGED <<kong, store>>
      BY <1>8 DEF FileMissing, StatusAccepted, StatusConflict, StatusFails, Requeue
    <2>2. \A k \in Keys : FilesOf(k)' = FilesOf(k) /\ CachedFiles(k)' = CachedFiles(k)
      BY <2>1 DEF FilesOf, CachedFiles, Exists
    <2>3. \A k \in Keys : FilesOf(k) = CachedFiles(k)
      BY <2>1 DEF MirrorInv, WorkerMirrors, OthersMirror, Busy
    <2> QED
      BY <1>1, <1>3, <2>1, <2>2, <2>3 DEF MirrorInv, WorkerMirrors, OthersMirror, Idle
  <1>9. CASE (\E k \in Keys : User(k) \/ Deliver(k) \/ Resync(k)) \/ UNCHANGED vars
    <2>1. UNCHANGED <<kong, store, worker>>
      BY <1>9 DEF User, Deliver, Resync, vars
    <2>2. WorkerMirrors' /\ OthersMirror'
      BY <2>1 DEF MirrorInv, WorkerMirrors, OthersMirror, Busy, FilesOf, CachedFiles, Exists
    <2> QED
      BY <1>1, <1>3, <2>2 DEF MirrorInv
  <1> QED
    BY <1>2, <1>5, <1>6, <1>7, <1>8, <1>9 DEF Next

LEMMA MirrorInit ==
    ASSUME Init
    PROVE  MirrorInv
  <1>1. SpecsKept
    BY DEF Init, KubeInit, StoreInit, SpecsKept, LogSpecs, StoreSpecs, Exists
  <1> QED
    BY <1>1, TypeInit
    DEF Init, StoreInit, KongInit, MirrorInv, WorkerMirrors, OthersMirror, FilesOf, CachedFiles,
        Exists, Idle

\* Between the reconciles of a KongFile the proxy's cache holds it exactly when
\* Kong serves its file, as long as it has a path of its own, every request
\* succeeds and the process lives: what EnsureProxyDeleteObject relies on.
THEOREM CacheMirrorsKongHolds ==
    ASSUME OwnPath, "kong" \notin Faults, MaxCrashes = 0
    PROVE  Spec => []CacheMirrorsKong
<1>1. MirrorInv /\ [Next]_vars => MirrorInv'
  BY MirrorStep
<1>2. MirrorInv => CacheMirrorsKong
  BY DEF MirrorInv, OthersMirror, FilesOf, CachedFiles, CacheMirrorsKong
<1> QED
  BY <1>1, <1>2, MirrorInit, PTL DEF Spec
=============================================================================
