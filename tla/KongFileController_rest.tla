------------------------ MODULE KongFileController_rest ------------------------
(***************************************************************************)
(* What the controller has still to do is never lost, and when nothing is  *)
(* left to do the portal is right: the part of EventuallyValidated and of  *)
(* RemovedFromPortal that does not depend on fairness.                     *)
(***************************************************************************)
EXTENDS KongFileController_proofs

-----------------------------------------------------------------------------
(* How the history of one KongFile goes on. *)

\* Validated, and not being deleted: its file has been put and nobody takes it away.
Kept(obj) == obj # NoObj /\ obj.validated /\ ~obj.terminating

\* The status update of the worker reaches the version it has read.
ValidatesNow(k) ==
    /\ worker.phase = "status"
    /\ worker.key = k
    /\ worker.ver = Len(log[k])
    /\ api(k) # NoObj

\* A step adds a version to the history of k or leaves it alone.  The new version is
\* Kept if the last one was, or if the worker has just validated it.
LEMMA HistoryStep ==
    ASSUME TypeOK, [Next]_vars \/ Stop, NEW k \in Keys, log'[k] # log[k]
    PROVE  /\ Len(log'[k]) = Len(log[k]) + 1
           /\ log'[k] \in Seq(Object \cup {NoObj})
           /\ \A i \in DOMAIN log[k] : log'[k][i] = log[k][i]
           /\ Kept(api(k)') =>
                 Kept(api(k)) \/ (ValidatesNow(k) /\ ~api(k).terminating)
  <1>1. ASSUME NEW q \in Keys, NEW obj \in Object \cup {NoObj}, Write(q, obj)
        PROVE  /\ q = k
               /\ Len(log'[k]) = Len(log[k]) + 1
               /\ log'[k] \in Seq(Object \cup {NoObj})
               /\ \A i \in DOMAIN log[k] : log'[k][i] = log[k][i]
               /\ api(k)' = obj
    BY <1>1, WriteType DEF TypeOK, api
  <1>2. ASSUME NEW q \in Keys, User(q)
        PROVE  \E obj \in Object \cup {NoObj} :
                  Write(q, obj) /\ (q = k /\ Kept(obj) => Kept(api(k)))
    BY <1>2, UserWritesObject DEF User, TypeOK, Kept
  <1>3. ASSUME worker.phase = "status", StatusUpdate(worker.key, worker.ver)
        PROVE  \E q \in Keys : \E obj \in Object \cup {NoObj} :
                  /\ Write(q, obj)
                  /\ q = k /\ Kept(obj) => ValidatesNow(k) /\ ~api(k).terminating
    <2>1. worker.key \in Keys
      BY <1>3, PhaseType DEF Reconciling
    <2>2. PICK obj \in Object :
             Write(worker.key, obj) /\ obj.terminating = api(worker.key).terminating
      BY <1>3, <2>1, StatusUpdateObject DEF TypeOK
    <2>3. worker.key = k => ValidatesNow(k)
      BY <1>3 DEF ValidatesNow, StatusUpdate
    <2> QED
      BY <2>1, <2>2, <2>3 DEF Kept
  <1>4. \/ \E q \in Keys : User(q)
        \/ worker.phase = "status" /\ StatusUpdate(worker.key, worker.ver)
    BY DEF Next, Reconcile, Deliver, Resync, PutSucceeds, DeleteSucceeds, FileExists,
           FileMissing, KongFails, StatusAccepted, StatusConflict, StatusFails, Crash, Stop,
           Late, vars
  <1> QED
    BY <1>1, <1>2, <1>3, <1>4

\* The informer reads what there was before the step.
LEMMA ReadsThePast ==
    ASSUME TypeOK, [Next]_vars, NEW k \in Keys
    PROVE  seen'[k] \in DOMAIN log[k]
  <1>1. seen[k] \in DOMAIN log[k] /\ seen \in [Keys -> Nat]
    BY VersionType DEF TypeOK, KubeTypeOK
  <1>2. CASE UNCHANGED seen
    BY <1>1, <1>2
  <1>3. ASSUME NEW q \in Keys, Deliver(q) PROVE seen'[k] \in DOMAIN log[k]
    BY <1>1, <1>3 DEF Deliver, Observe
  <1>4. CASE Crash
    <2>1. Len(log[k]) \in DOMAIN log[k]
      BY VersionType DEF TypeOK
    <2> QED
      BY <1>4, <2>1 DEF Crash, Restart
  <1> QED
    BY <1>2, <1>3, <1>4
    DEF Next, Reconcile, User, Resync, PutSucceeds, DeleteSucceeds, FileExists, FileMissing,
        KongFails, StatusAccepted, StatusConflict, StatusFails, Late, vars

-----------------------------------------------------------------------------
(* What is not validated is not forgotten. *)

\* A reconcile of what is not validated goes on to a call, or is repeated.
LEMMA ReconcileRemembers ==
    ASSUME TypeOK, NEW k \in Keys, Reconcile(k), NEW q \in Keys, q \in dirty,
           q = k => Ours(cached(k)) /\ ~cached(k).validated
    PROVE  q \in dirty' \/ Busy(q)'
  <1>1. q # k => q \in dirty'
    BY DEF Reconcile, ReconcileMissing, ReconcileTerminating, ReconcileForeign,
           ReconcileValidated, ReconcilePublish, UpdateObject, ProxyDelete, Call, Forget
  <1>2. CASE q = k
    <2>1. ReconcileTerminating(k) \/ ReconcilePublish(k)
      BY <1>2 DEF Reconcile, ReconcileMissing, ReconcileForeign, ReconcileValidated, Ours
    <2> QED
      BY <1>2, <2>1 DEF ReconcileTerminating, ReconcilePublish, UpdateObject, Call, Busy, Idle
  <1> QED
    BY <1>1, <1>2

\* An answer ends the worker's reconcile only with the key back in the queue, unless
\* it is the status update that the API server accepts.
LEMMA AnswerRemembers ==
    ASSUME TypeOK, NEW q \in Keys, q \in dirty \/ Busy(q),
           \/ PutSucceeds \/ DeleteSucceeds \/ FileExists \/ FileMissing \/ KongFails
           \/ StatusConflict \/ StatusFails
    PROVE  q \in dirty' \/ Busy(q)'
  <1>1. worker \in Reconciling /\ worker # Idle
    BY PhaseType DEF PutSucceeds, DeleteSucceeds, FileExists, FileMissing, KongFails,
                     StatusConflict, StatusFails
  <1>2. CASE PutSucceeds \/ FileExists
    BY <1>1, <1>2 DEF PutSucceeds, FileExists, Busy, Reconciling, Idle
  <1>3. CASE Requeue
    BY <1>3 DEF Requeue, Busy
  <1> QED
    BY <1>2, <1>3 DEF DeleteSucceeds, FileMissing, KongFails, StatusConflict, StatusFails

\* A process that starts queues what it lists, if it is of our class.
LEMMA RestartRemembers ==
    ASSUME NEW k \in Keys, Restart, Ours(log[k][seen'[k]])
    PROVE  k \in dirty'
  BY DEF Restart, Ours, FilterFunc, annotationCheckEnabled, MatchesControllerClassName,
         IsControllerClassAnnotationConfigured

LEMMA NeverForgottenStep ==
    ASSUME TypeOK, NeverForgotten, [Next]_vars
    PROVE  NeverForgotten'
  <1> SUFFICES ASSUME NEW k \in Keys, Ours(api(k))', ~api(k)'.validated,
                      ~(seen'[k] < Len(log'[k]))
               PROVE  k \in dirty' \/ Busy(k)'
    BY DEF NeverForgotten
  <1>1. /\ seen'[k] \in DOMAIN log[k]
        /\ Len(log[k]) \in Nat \ {0}
        /\ DOMAIN log[k] = 1..Len(log[k])
    BY ReadsThePast, VersionType DEF TypeOK
  <1>2. log'[k] = log[k]
    BY <1>1, HistoryStep
  <1>3. seen'[k] = Len(log[k]) /\ Ours(api(k)) /\ ~api(k).validated
    BY <1>1, <1>2 DEF api, Ours, MatchesControllerClassName
  <1>4. k \in dirty \/ Busy(k) \/ seen[k] < Len(log[k])
    BY <1>3 DEF NeverForgotten
  <1>5. CASE seen'[k] = seen[k] /\ ~Crash
    <2>1. k \in dirty \/ Busy(k)
      BY <1>1, <1>3, <1>4, <1>5
    <2>2. cached(k) = api(k)
      BY <1>3, <1>5 DEF cached, api
    <2>3. ASSUME NEW q \in Keys, Reconcile(q) PROVE k \in dirty' \/ Busy(k)'
      BY <1>3, <2>1, <2>2, <2>3, ReconcileRemembers DEF Reconcile, Busy
    <2>4. ~StatusAccepted \/ ~Busy(k)
      BY <1>1, <1>2 DEF StatusAccepted, StatusUpdate, Write, Busy, TypeOK, KubeTypeOK
    <2>5. CASE StatusAccepted
      BY <2>1, <2>4, <2>5 DEF StatusAccepted
    <2>6. CASE \/ \E q \in Keys : User(q) \/ Deliver(q) \/ Resync(q)
               \/ Late \/ UNCHANGED vars
      BY <2>1, <2>6 DEF User, Deliver, Resync, Late, Busy, vars
    <2> QED
      BY <1>5, <2>1, <2>3, <2>5, <2>6, AnswerRemembers DEF Next
  <1>6. CASE seen'[k] # seen[k] /\ ~Crash
    <2>1. Deliver(k)
      BY <1>6 DEF Next, Reconcile, User, Deliver, Observe, Resync, PutSucceeds, DeleteSucceeds,
                  FileExists, FileMissing, KongFails, StatusAccepted, StatusConflict,
                  StatusFails, Late, vars, TypeOK, KubeTypeOK
    <2>2. Passes(cached(k), api(k))
      BY <1>3 DEF Passes, Ours, FilterFunc, annotationCheckEnabled, MatchesControllerClassName,
                  IsControllerClassAnnotationConfigured, UpdateFunc,
                  IsControllerClassSpecConfigured
    <2> QED
      BY <1>3, <2>1, <2>2 DEF Deliver, api
  <1>7. CASE Crash
    BY <1>3, <1>7, RestartRemembers DEF Crash, api
  <1> QED
    BY <1>5, <1>6, <1>7

LEMMA NeverForgottenInit ==
    ASSUME Init
    PROVE  NeverForgotten
  BY DEF Init, KubeInit, NeverForgotten, Ours, api

\* An object of our class that is not validated is queued, worked on or still to be
\* told of, under every fault: errors, conflicts, restarts, lagging API servers.
THEOREM NeverForgottenHolds == Spec => []NeverForgotten
<1>1. TypeOK /\ NeverForgotten /\ [Next]_vars => NeverForgotten'
  BY NeverForgottenStep
<1> QED
  BY <1>1, NeverForgottenInit, TypeInvariant, PTL DEF Spec

-----------------------------------------------------------------------------
(* When the controller has come to rest. *)

\* The worker has read nothing the informer has not: no process is replaced.
WorkerHasRead == worker # Idle => worker.ver \in 1..seen[worker.key]

\* What is cached of an object that is gone is queued to be taken away.
DeletionsQueued ==
    \A k \in Keys :
       AlwaysOurs(k) /\ Exists(k) /\ cached(k) = NoObj => k \in dirty \/ Busy(k)

\* Of what the informer has or has still to read, a version is Kept only if the object
\* has stood since the version the informer has, and its file is then cached.
KeptStands ==
    \A k \in Keys : \A i \in seen[k]..Len(log[k]) :
       Kept(log[k][i]) =>
          /\ Exists(k)
          /\ \A j \in seen[k]..i : log[k][j] # NoObj /\ ~log[k][j].terminating

\* While the worker takes a file away its object is not validated again.
NoneKeptWhileDeleting ==
    worker.phase \in {"exists", "delete"} =>
       \A i \in worker.ver..Len(log[worker.key]) : ~Kept(log[worker.key][i])

RestInv ==
    /\ MirrorInv
    /\ NeverForgotten
    /\ WorkerHasRead
    /\ DeletionsQueued
    /\ KeptStands
    /\ NoneKeptWhileDeleting

\* The assumptions of CacheMirrorsKongHolds.
Undisturbed == OwnPath /\ "kong" \notin Faults /\ MaxCrashes = 0

LEMMA NoRestart ==
    ASSUME Undisturbed, RestInv, [Next]_vars
    PROVE  /\ ~Crash
           /\ \A k \in Keys : seen'[k] = seen[k] \/ (Deliver(k) /\ seen[k] < seen'[k])
           /\ \A k \in Keys : /\ seen[k] \in 1..Len(log[k]) /\ seen'[k] \in 1..Len(log[k])
                              /\ Len(log[k]) \in Nat /\ DOMAIN log[k] = 1..Len(log[k])
  <1>1. TypeOK
    BY DEF RestInv, MirrorInv
  <1>2. ~Crash
    BY <1>1 DEF Crash, Undisturbed, TypeOK
  <1>3. ASSUME NEW k \in Keys PROVE seen'[k] = seen[k] \/ (Deliver(k) /\ seen[k] < seen'[k])
    <2>1. ASSUME NEW q \in Keys, Deliver(q)
          PROVE  seen'[k] = seen[k] \/ (q = k /\ seen[k] < seen'[k])
      BY <1>1, <2>1 DEF Deliver, Observe, TypeOK, KubeTypeOK
    <2> QED
      BY <1>2, <2>1
      DEF Next, Reconcile, User, Resync, PutSucceeds, DeleteSucceeds, FileExists, FileMissing,
          KongFails, StatusAccepted, StatusConflict, StatusFails, Late, vars
  <1>4. ASSUME NEW k \in Keys
        PROVE  /\ seen[k] \in 1..Len(log[k]) /\ seen'[k] \in 1..Len(log[k])
               /\ Len(log[k]) \in Nat /\ DOMAIN log[k] = 1..Len(log[k])
    BY <1>1, VersionType, ReadsThePast DEF TypeOK
  <1> QED
    BY <1>2, <1>3, <1>4

LEMMA WorkerHasReadStep ==
    ASSUME Undisturbed, RestInv, [Next]_vars
    PROVE  WorkerHasRead'
  <1> SUFFICES ASSUME worker' # Idle
               PROVE  worker'.ver \in 1..seen'[worker'.key]
    BY DEF WorkerHasRead
  <1>1. TypeOK
    BY DEF RestInv, MirrorInv
  <1>2. ASSUME NEW k \in Keys, Reconcile(k) PROVE worker'.ver = seen'[worker'.key]
    BY <1>2 DEF Reconcile, ReconcileMissing, ReconcileTerminating, ReconcileForeign,
                ReconcileValidated, ReconcilePublish, UpdateObject, ProxyDelete, Call, Forget
  <1>3. CASE \E k \in Keys : Reconcile(k)
    <2>1. PICK k \in Keys : Reconcile(k)
      BY <1>3
    <2>2. worker' \in Reconciling
      BY <1>1, TypeStep DEF TypeOK
    <2> QED
      BY <1>2, <2>1, <2>2, NoRestart DEF Reconciling
  <1>4. CASE worker # Idle /\ worker'.ver = worker.ver /\ worker'.key = worker.key
    <2>1. worker \in Reconciling /\ worker.ver \in 1..seen[worker.key]
      BY <1>1, <1>4 DEF TypeOK, RestInv, WorkerHasRead
    <2>2. /\ seen[worker.key] \in Nat /\ seen'[worker.key] \in Nat
          /\ seen[worker.key] <= seen'[worker.key] /\ worker.ver \in Nat
      BY <2>1, NoRestart DEF Reconciling
    <2> QED
      BY <1>4, <2>1, <2>2
  <1>5. CASE PutSucceeds \/ FileExists
    <2>1. worker \in Reconciling /\ worker # Idle
      BY <1>1, <1>5, PhaseType DEF PutSucceeds, FileExists
    <2> QED
      BY <1>4, <1>5, <2>1 DEF PutSucceeds, FileExists, Reconciling
  <1>6. CASE DeleteSucceeds \/ FileMissing \/ KongFails \/ StatusAccepted \/ StatusConflict
             \/ StatusFails
    BY <1>6 DEF DeleteSucceeds, FileMissing, KongFails, StatusAccepted, StatusConflict,
                StatusFails, Requeue
  <1>7. CASE UNCHANGED worker
    BY <1>4, <1>7
  <1> QED
    BY <1>3, <1>5, <1>6, <1>7, NoRestart DEF Next, User, Deliver, Resync, Late, vars

\* An accepted status update is of the version the informer has.
LEMMA ValidatesSeen ==
    ASSUME RestInv, NEW k \in Keys, ValidatesNow(k)
    PROVE  /\ seen[k] = Len(log[k])
           /\ Exists(k)
  <1>1. TypeOK /\ worker \in Reconciling /\ worker # Idle
    BY PhaseType DEF RestInv, MirrorInv, ValidatesNow
  <1>2. seen[k] \in 1..Len(log[k]) /\ Len(log[k]) \in Nat
    BY <1>1, VersionType DEF TypeOK
  <1>3. worker.ver \in 1..seen[k]
    BY <1>1 DEF RestInv, WorkerHasRead, ValidatesNow
  <1>4. CachedFiles(k) # {}
    BY DEF RestInv, MirrorInv, WorkerMirrors, ValidatesNow
  <1> QED
    BY <1>2, <1>3, <1>4 DEF ValidatesNow, CachedFiles

\* The version the informer has, and those before it, are what they were.
LEMMA PastStands ==
    ASSUME RestInv, Undisturbed, [Next]_vars, NEW k \in Keys
    PROVE  /\ \A i \in 1..Len(log[k]) : log'[k][i] = log[k][i]
           /\ Len(log[k]) \in Nat
           /\ log'[k] = log[k] \/ Len(log'[k]) = Len(log[k]) + 1
           /\ DOMAIN log'[k] = 1..Len(log'[k])
           /\ seen[k] \in 1..Len(log[k]) /\ seen'[k] \in 1..Len(log[k])
           /\ seen[k] <= seen'[k]
           /\ cached(k)' = log[k][seen'[k]]
  <1>1. TypeOK
    BY DEF RestInv, MirrorInv
  <1>2. /\ Len(log[k]) \in Nat /\ DOMAIN log[k] = 1..Len(log[k])
        /\ seen[k] \in 1..Len(log[k]) /\ seen'[k] \in 1..Len(log[k])
        /\ seen'[k] = seen[k] \/ seen[k] < seen'[k]
    BY NoRestart
  <1>3. /\ \A i \in 1..Len(log[k]) : log'[k][i] = log[k][i]
        /\ log'[k] = log[k] \/ Len(log'[k]) = Len(log[k]) + 1
        /\ DOMAIN log'[k] = 1..Len(log'[k])
    BY <1>1, <1>2, HistoryStep
  <1> QED
    BY <1>2, <1>3 DEF cached

\* The cache loses k when the worker finds the object gone, or starts to delete its
\* file, and gains k when the worker starts to publish it.
LEMMA CacheStep ==
    ASSUME TypeOK, [Next]_vars, ~Crash, NEW k \in Keys
    PROVE  /\ Exists(k) /\ ~Exists(k)' => \/ Reconcile(k) /\ ReconcileMissing(k)
                                          \/ FileExists /\ worker.key = k
           /\ Exists(k)' /\ ~Exists(k) => Reconcile(k) /\ ReconcilePublish(k)
  <1>1. store \in [Keys -> AllSpecs \cup {NoSpec}]
    BY DEF TypeOK, StoreTypeOK
  <1>2. ASSUME NEW q \in Keys, Reconcile(q)
        PROVE  /\ Exists(k) /\ ~Exists(k)' => Reconcile(k) /\ ReconcileMissing(k)
               /\ Exists(k)' /\ ~Exists(k) => Reconcile(k) /\ ReconcilePublish(k)
    <2>1. CASE UNCHANGED store
      BY <2>1 DEF Exists
    <2>2. CASE ReconcileMissing(q) /\ StoreDelete(q)
      BY <1>1, <1>2, <2>2 DEF Exists, StoreDelete
    <2>3. CASE ReconcilePublish(q)
      <3>1. cached(q).spec \in AllSpecs /\ cached(q).spec # NoSpec
        <4>1. cached(q) \in Object
          BY <2>3, VersionType DEF ReconcilePublish, Living, TypeOK
        <4> QED
          BY <4>1, SpecsAssumption, NoSpecAssumption DEF Object, AllSpecs
      <3> QED
        BY <1>1, <1>2, <2>3, <3>1 DEF ReconcilePublish, UpdateObject, StoreUpdate, Exists
    <2> QED
      BY <1>2, <2>1, <2>2, <2>3 DEF Reconcile, ReconcileMissing, ProxyDelete,
                  ReconcileTerminating, ReconcileForeign, ReconcileValidated
  <1>3. CASE FileExists
    BY <1>1, <1>3 DEF FileExists, StoreDelete, Exists
  <1>4. CASE UNCHANGED store
    BY <1>4 DEF Exists
  <1> QED
    BY <1>2, <1>3, <1>4
    DEF Next, User, Deliver, Resync, PutSucceeds, DeleteSucceeds, FileMissing,
        KongFails, StatusAccepted, StatusConflict, StatusFails, Late, vars

LEMMA DeletionsQueuedStep ==
    ASSUME Undisturbed, RestInv, [Next]_vars
    PROVE  DeletionsQueued'
  <1> SUFFICES ASSUME NEW k \in Keys, AlwaysOurs(k)', Exists(k)', cached(k)' = NoObj
               PROVE  k \in dirty' \/ Busy(k)'
    BY DEF DeletionsQueued
  <1>1. TypeOK /\ ~Crash
    BY NoRestart DEF RestInv, MirrorInv
  <1>2. /\ \A i \in 1..Len(log[k]) : log'[k][i] = log[k][i]
        /\ seen[k] \in 1..Len(log[k]) /\ seen'[k] \in 1..Len(log[k])
        /\ cached(k)' = log[k][seen'[k]]
        /\ DOMAIN log[k] = 1..Len(log[k]) /\ DOMAIN log'[k] = 1..Len(log'[k])
        /\ DOMAIN log[k] \subseteq DOMAIN log'[k]
    BY PastStands, NoRestart
  <1>3. AlwaysOurs(k)
    BY <1>2 DEF AlwaysOurs, Ours, MatchesControllerClassName
  <1>4. CASE seen'[k] = seen[k]
    <2>1. cached(k) = NoObj
      BY <1>2, <1>4 DEF cached
    <2>2. Exists(k)
      BY <1>1, <2>1, CacheStep DEF ReconcilePublish, Living
    <2>3. k \in dirty \/ Busy(k)
      BY <1>3, <2>1, <2>2 DEF RestInv, DeletionsQueued
    <2>4. ASSUME NEW q \in Keys, Reconcile(q) PROVE k \in dirty'
      <3>1. ~Busy(k)
        BY <2>4 DEF Reconcile, Busy
      <3>2. q # k
        <4>1. ASSUME ReconcileMissing(k) PROVE ~Exists(k)'
          BY <1>1, <2>2, <4>1 DEF ReconcileMissing, ProxyDelete, StoreDelete, Exists, TypeOK,
                                  StoreTypeOK
        <4> QED
          BY <2>1, <2>4, <4>1 DEF Reconcile, ReconcileTerminating, ReconcileForeign,
                                  ReconcileValidated, ReconcilePublish, Living
      <3> QED
        BY <2>3, <2>4, <3>1, <3>2
        DEF Reconcile, ReconcileMissing, ReconcileTerminating, ReconcileForeign,
            ReconcileValidated, ReconcilePublish, UpdateObject, ProxyDelete, Call, Forget
    <2>5. ASSUME StatusAccepted PROVE ~Busy(k)
      <3>1. Busy(k) => ValidatesNow(k)
        BY <2>5 DEF StatusAccepted, StatusUpdate, ValidatesNow, Busy
      <3>2. ValidatesNow(k) => cached(k) = api(k) /\ api(k) # NoObj
        BY ValidatesSeen DEF cached, api, ValidatesNow
      <3> QED
        BY <2>1, <3>1, <3>2
    <2>6. CASE StatusAccepted
      BY <2>3, <2>5, <2>6 DEF StatusAccepted
    <2>7. CASE \/ \E q \in Keys : User(q) \/ Deliver(q) \/ Resync(q)
               \/ Late \/ UNCHANGED vars
      BY <2>3, <2>7 DEF User, Deliver, Resync, Late, Busy, vars
    <2> QED
      BY <1>1, <2>3, <2>4, <2>6, <2>7, AnswerRemembers DEF Next
  <1>5. CASE seen'[k] # seen[k]
    <2>1. Deliver(k) /\ Exists(k) /\ UNCHANGED worker
      BY <1>5, NoRestart DEF Deliver, Exists
    <2>2. CASE cached(k) = NoObj
      BY <1>3, <2>1, <2>2 DEF RestInv, DeletionsQueued, Deliver, Busy
    <2>3. CASE cached(k) # NoObj
      <3>1. Ours(cached(k))
        BY <1>2, <1>3, <2>3 DEF AlwaysOurs, cached
      <3>2. Passes(cached(k), NoObj)
        BY <2>3, <3>1 DEF Passes, Ours, FilterFunc, annotationCheckEnabled,
                          MatchesControllerClassName, IsControllerClassAnnotationConfigured
      <3> QED
        BY <1>2, <2>1, <3>2 DEF Deliver
    <2> QED
      BY <2>2, <2>3
  <1> QED
    BY <1>4, <1>5

LEMMA KeptStandsStep ==
    ASSUME Undisturbed, RestInv, [Next]_vars
    PROVE  KeptStands'
  <1> SUFFICES ASSUME NEW k \in Keys, NEW i \in seen'[k]..Len(log'[k]), Kept(log'[k][i])
               PROVE  /\ Exists(k)'
                      /\ \A j \in seen'[k]..i : log'[k][j] # NoObj /\ ~log'[k][j].terminating
    BY DEF KeptStands, Kept
  <1>1. TypeOK /\ ~Crash
    BY NoRestart DEF RestInv, MirrorInv
  <1>2. /\ \A j \in 1..Len(log[k]) : log'[k][j] = log[k][j]
        /\ Len(log[k]) \in Nat
        /\ log'[k] = log[k] \/ Len(log'[k]) = Len(log[k]) + 1
        /\ seen[k] \in 1..Len(log[k]) /\ seen'[k] \in 1..Len(log[k])
        /\ seen[k] <= seen'[k]
    BY PastStands
  \* What follows from a version that was Kept before the step.
  <1>3. ASSUME NEW n \in seen'[k]..Len(log[k]), Kept(log[k][n])
        PROVE  /\ Exists(k)
               /\ \A j \in seen'[k]..n : log'[k][j] # NoObj /\ ~log'[k][j].terminating
    <2>1. n \in seen[k]..Len(log[k])
      BY <1>2, <1>3
    <2>2. Exists(k) /\ \A j \in seen[k]..n : log[k][j] # NoObj /\ ~log[k][j].terminating
      BY <1>3, <2>1 DEF RestInv, KeptStands
    <2>3. \A j \in seen'[k]..n : j \in seen[k]..n /\ j \in 1..Len(log[k])
      BY <1>2, <2>1
    <2> QED
      BY <1>2, <2>2, <2>3
  <1>4. CASE i \in 1..Len(log[k])
    <2>1. Kept(log[k][i]) /\ i \in seen'[k]..Len(log[k])
      BY <1>2, <1>4 DEF Kept
    <2>2. Exists(k)'
      <3>1. ~(Reconcile(k) /\ ReconcileMissing(k))
        <4>1. ASSUME Reconcile(k), ReconcileMissing(k) PROVE log[k][seen[k]] # NoObj
          BY <1>2, <2>1 DEF RestInv, KeptStands
        <4> QED
          BY <4>1 DEF ReconcileMissing, cached
      <3>2. ~(FileExists /\ worker.key = k)
        <4> SUFFICES ASSUME FileExists, worker.key = k PROVE FALSE
          OBVIOUS
        <4>1. worker \in Reconciling /\ worker # Idle /\ worker.phase = "exists"
          BY <1>1, PhaseType DEF FileExists
        <4>2. worker.ver \in 1..seen[k]
          BY <4>1 DEF RestInv, WorkerHasRead
        <4>3. i \in worker.ver..Len(log[k])
          BY <1>2, <1>4, <4>2
        <4> QED
          BY <2>1, <4>1, <4>3 DEF RestInv, NoneKeptWhileDeleting
      <3> QED
        BY <1>1, <1>3, <2>1, <3>1, <3>2, CacheStep
    <2> QED
      BY <1>3, <2>1, <2>2
  <1>5. CASE i \notin 1..Len(log[k])
    <2>1. log'[k] # log[k] /\ i = Len(log[k]) + 1 /\ Len(log'[k]) = Len(log[k]) + 1
      BY <1>2, <1>5
    <2>2. UNCHANGED <<seen, store>>
      BY <1>1, <2>1 DEF Next, Reconcile, User, Deliver, Resync, PutSucceeds, DeleteSucceeds,
                  FileExists, FileMissing, KongFails, StatusAccepted, StatusConflict,
                  StatusFails, Late, vars
    <2>3. Kept(api(k)')
      BY <2>1 DEF api
    <2>4. Kept(api(k)) \/ (ValidatesNow(k) /\ ~api(k).terminating)
      BY <1>1, <2>1, <2>3, HistoryStep
    <2>5. Exists(k) /\ \A j \in seen'[k]..Len(log[k]) : log'[k][j] # NoObj /\ ~log'[k][j].terminating
      <3>1. CASE Kept(api(k))
        BY <1>2, <1>3, <3>1 DEF api
      <3>2. CASE ValidatesNow(k) /\ ~api(k).terminating
        <4>1. seen'[k] = Len(log[k]) /\ Exists(k)
          BY <2>2, <3>2, ValidatesSeen
        <4>2. log'[k][Len(log[k])] = api(k) /\ api(k) # NoObj
          BY <1>2, <3>2 DEF api, ValidatesNow
        <4>3. \A j \in seen'[k]..Len(log[k]) : j = Len(log[k])
          BY <1>2, <4>1
        <4> QED
          BY <3>2, <4>1, <4>2, <4>3
      <3> QED
        BY <2>4, <3>1, <3>2
    <2>6. \A j \in seen'[k]..i : j \in seen'[k]..Len(log[k]) \/ j = i
      BY <1>2, <2>1
    <2> QED
      BY <2>2, <2>5, <2>6 DEF Kept, Exists
  <1> QED
    BY <1>4, <1>5

\* A reconcile that takes a file away starts from an object gone or being deleted.
LEMMA DeletionStarts ==
    ASSUME TypeOK, NEW k \in Keys, Reconcile(k), worker'.phase \in {"exists", "delete"}
    PROVE  /\ worker'.key = k
           /\ worker'.ver = seen[k]
           /\ cached(k) = NoObj \/ cached(k).terminating
  <1>1. worker = Idle
    BY DEF Reconcile
  <1>2. CASE ReconcileMissing(k) \/ ReconcileTerminating(k)
    BY <1>1, <1>2 DEF ReconcileMissing, ReconcileTerminating, ProxyDelete, Call, Forget, Idle
  <1>3. CASE ReconcilePublish(k)
    BY <1>1, <1>3 DEF ReconcilePublish, UpdateObject, Call, Idle
  <1>4. CASE ReconcileForeign(k) \/ ReconcileValidated(k)
    BY <1>1, <1>4 DEF ReconcileForeign, ReconcileValidated, Forget, Idle
  <1> QED
    BY <1>2, <1>3, <1>4 DEF Reconcile

LEMMA NoneKeptStep ==
    ASSUME Undisturbed, RestInv, [Next]_vars
    PROVE  NoneKeptWhileDeleting'
  <1> SUFFICES ASSUME worker'.phase \in {"exists", "delete"},
                      NEW i \in worker'.ver..Len(log'[worker'.key]),
                      Kept(log'[worker'.key][i])
               PROVE  FALSE
    BY DEF NoneKeptWhileDeleting, Kept
  <1>1. TypeOK /\ TypeOK' /\ ~Crash
    BY NoRestart, TypeStep DEF RestInv, MirrorInv
  <1>2. worker' \in Reconciling /\ worker' # Idle
    BY <1>1 DEF TypeOK, Idle
  <1>3. PICK k \in Keys : k = worker'.key
    BY <1>2 DEF Reconciling
  <1>4. /\ \A j \in 1..Len(log[k]) : log'[k][j] = log[k][j]
        /\ Len(log[k]) \in Nat
        /\ log'[k] = log[k] \/ Len(log'[k]) = Len(log[k]) + 1
        /\ seen[k] \in 1..Len(log[k])
    BY PastStands
  <1>5. ASSUME NEW q \in Keys, Reconcile(q) PROVE FALSE
    <2>1. q = k /\ worker'.ver = seen[k] /\ (cached(k) = NoObj \/ cached(k).terminating)
      BY <1>1, <1>3, <1>5, DeletionStarts
    <2>2. i \in seen[k]..Len(log[k]) /\ Kept(log[k][i]) /\ seen[k] \in seen[k]..i
      BY <1>3, <1>4, <1>5, <2>1 DEF Reconcile
    <2> QED
      BY <2>1, <2>2 DEF RestInv, KeptStands, cached
  <1>6. CASE /\ worker.phase \in {"exists", "delete"}
             /\ worker'.key = worker.key
             /\ worker'.ver = worker.ver
    <2>1. \A j \in worker.ver..Len(log[k]) : ~Kept(log[k][j])
      BY <1>3, <1>6 DEF RestInv, NoneKeptWhileDeleting
    <2>2. worker \in Reconciling /\ worker # Idle
      BY <1>1, <1>6, PhaseType
    <2>3. worker.ver \in 1..Len(log[k])
      <3>1. worker.ver \in 1..seen[k]
        BY <1>3, <1>6, <2>2 DEF RestInv, WorkerHasRead
      <3> QED
        BY <1>4, <3>1
    <2>4. CASE log'[k] = log[k]
      BY <1>3, <1>6, <2>1, <2>4 DEF Kept
    <2>5. CASE Len(log'[k]) = Len(log[k]) + 1
      <3>1. ~Kept(api(k)')
        <4>1. ~Kept(api(k))
          BY <1>4, <2>1, <2>3 DEF api
        <4>2. ~ValidatesNow(k)
          BY <1>6 DEF ValidatesNow
        <4> QED
          BY <1>1, <1>4, <2>5, <4>1, <4>2, HistoryStep DEF Kept
      <3>2. i = Len(log'[k])
        <4>1. i \in worker.ver..(Len(log[k]) + 1) /\ Kept(log'[k][i])
          BY <1>3, <1>6, <2>5 DEF Kept
        <4>2. i \notin worker.ver..Len(log[k])
          <5> SUFFICES ASSUME i \in worker.ver..Len(log[k]) PROVE FALSE
            OBVIOUS
          <5>1. i \in 1..Len(log[k])
            BY <1>4, <2>3
          <5> QED
            BY <1>4, <2>1, <4>1, <5>1 DEF Kept
        <4> QED
          BY <1>4, <2>3, <2>5, <4>1, <4>2
      <3> QED
        BY <1>3, <3>1, <3>2 DEF api, Kept
    <2> QED
      BY <1>4, <2>4, <2>5
  <1>7. CASE FileExists
    BY <1>1, <1>6, <1>7, PhaseType DEF FileExists, Reconciling
  <1>8. CASE PutSucceeds
    <2>1. worker'.phase = "status"
      BY <1>1, <1>8, PhaseType DEF PutSucceeds, Reconciling
    <2> QED
      BY <2>1
  <1>9. CASE \/ DeleteSucceeds \/ FileMissing \/ KongFails \/ StatusAccepted \/ StatusConflict
             \/ StatusFails
    BY <1>2, <1>9 DEF DeleteSucceeds, FileMissing, KongFails, StatusAccepted, StatusConflict,
                      StatusFails, Requeue
  <1>10. CASE UNCHANGED worker
    BY <1>6, <1>10
  <1> QED
    BY <1>1, <1>5, <1>7, <1>8, <1>9, <1>10 DEF Next, User, Deliver, Resync, Late, vars

LEMMA RestStep ==
    ASSUME Undisturbed, RestInv, [Next]_vars
    PROVE  RestInv'
  <1>1. MirrorInv'
    BY MirrorStep DEF Undisturbed, RestInv
  <1>2. NeverForgotten'
    BY NeverForgottenStep DEF RestInv, MirrorInv
  <1> QED
    BY <1>1, <1>2, WorkerHasReadStep, DeletionsQueuedStep, KeptStandsStep, NoneKeptStep
    DEF RestInv

LEMMA RestInit ==
    ASSUME Init
    PROVE  RestInv
  <1>1. \A k \in Keys : log[k] = <<NoObj>> /\ seen[k] = 1 /\ ~Exists(k)
    BY DEF Init, KubeInit, StoreInit, Exists
  <1>2. MirrorInv
    BY MirrorInit
  <1>3. KeptStands
    <2>1. \A k \in Keys : \A i \in seen[k]..Len(log[k]) : log[k][i] = NoObj
      BY <1>1
    <2> QED
      BY <2>1 DEF KeptStands, Kept
  <1> QED
    BY <1>1, <1>2, <1>3, NeverForgottenInit
    DEF Init, RestInv, WorkerHasRead, DeletionsQueued, NoneKeptWhileDeleting, Idle

LEMMA RestSuffices ==
    ASSUME RestInv
    PROVE  RestIsRight
  <1> SUFFICES ASSUME AtRest, NEW k \in Keys, AlwaysOurs(k)
               PROVE  /\ api(k) = NoObj => FilesOf(k) = {}
                      /\ api(k) # NoObj /\ ~api(k).terminating =>
                            \E s \in Specs[k] : FilesOf(k) = {Build(s)}
    BY DEF RestIsRight, FilesOf
  <1>1. k \notin dirty /\ ~Busy(k) /\ seen[k] = Len(log[k]) /\ cached(k) = api(k)
    BY DEF AtRest, Busy, cached, api
  <1>2. FilesOf(k) = CachedFiles(k)
    BY <1>1 DEF RestInv, MirrorInv, OthersMirror
  <1>3. ASSUME api(k) = NoObj PROVE FilesOf(k) = {}
    BY <1>1, <1>2, <1>3 DEF RestInv, DeletionsQueued, CachedFiles
  <1>4. ASSUME api(k) # NoObj, ~api(k).terminating
        PROVE  \E s \in Specs[k] : FilesOf(k) = {Build(s)}
    <2>1. Len(log[k]) \in Nat /\ Len(log[k]) \in DOMAIN log[k]
      BY VersionType DEF RestInv, MirrorInv, TypeOK
    <2>2. Ours(api(k))
      BY <1>4, <2>1 DEF AlwaysOurs, api
    <2>3. api(k).validated
      BY <1>1, <2>1, <2>2 DEF RestInv, NeverForgotten
    <2>4. Exists(k)
      BY <1>1, <1>4, <2>1, <2>3 DEF RestInv, KeptStands, Kept, api
    <2>5. store[k] \in Specs[k] /\ CachedFiles(k) = {Build(store[k])}
      BY <2>4 DEF RestInv, MirrorInv, SpecsKept, StoreSpecs, CachedFiles
    <2> QED
      BY <1>2, <2>5
  <1> QED
    BY <1>3, <1>4

\* When the controller has come to rest, the portal holds one file of each KongFile
\* that stands and none of one that is gone: if each has a path of its own, no request
\* to Kong fails and the process lives; API errors, conflicts, lagging and skipped
\* events, skewed clocks, edits and re-creations notwithstanding.
THEOREM RestIsRightHolds ==
    ASSUME OwnPath, "kong" \notin Faults, MaxCrashes = 0
    PROVE  Spec => []RestIsRight
<1>1. RestInv /\ [Next]_vars => RestInv'
  BY RestStep DEF Undisturbed
<1> QED
  BY <1>1, RestInit, RestSuffices, PTL DEF Spec

-----------------------------------------------------------------------------
(* Which KongFiles share a path: what OwnPath asks of the users. *)

\* The segments of a path, those of Folder named because the provers do not know
\* a literal to be in STRING.
Segment == STRING \cup {"content", "base", "assets", "specs"}

\* One or two elements make a sequence that is not empty.
LEMMA ShortSequences ==
    ASSUME NEW S, NEW x \in S, NEW y \in S
    PROVE  /\ <<x>> \in Seq(S) /\ Len(<<x>>) > 0
           /\ <<x, y>> \in Seq(S) /\ Len(<<x, y>>) > 0
  OBVIOUS

\* Folders are not empty, and the first segment tells the kind.
LEMMA FolderType ==
    ASSUME NEW k \in Kind
    PROVE  /\ Folder[k] \in Seq(Segment) /\ Len(Folder[k]) > 0
           /\ \A q \in Kind : Folder[k][1] = Folder[q][1] => k = q
  <1>1. /\ Folder["CONTENT"] = <<"content">>
        /\ Folder["ASSET"] = <<"base", "assets">>
        /\ Folder["SPECIFICATION"] = <<"specs">>
    BY DEF Folder
  <1>2. Kind = {"CONTENT", "SPECIFICATION", "ASSET"}
    BY DEF Kind
  <1>3. \A q \in Kind : Folder[q] \in Seq(Segment) /\ Len(Folder[q]) > 0
    <2>2. ASSUME NEW q \in Kind
          PROVE  Folder[q] \in {<<"content">>, <<"base", "assets">>, <<"specs">>}
      BY <1>1, <1>2
    <2>3. /\ <<"content">> \in Seq(Segment) /\ Len(<<"content">>) > 0
          /\ <<"base", "assets">> \in Seq(Segment) /\ Len(<<"base", "assets">>) > 0
          /\ <<"specs">> \in Seq(Segment) /\ Len(<<"specs">>) > 0
      <3>1. {"content", "base", "assets", "specs"} \subseteq Segment
        BY DEF Segment
      <3> QED
        BY <3>1, ShortSequences, Zenon
    <2> QED
      BY <2>2, <2>3
  <1>4. \A q \in Kind : Folder[q][1] = IF q = "CONTENT" THEN "content"
                                       ELSE IF q = "ASSET" THEN "base" ELSE "specs"
    BY <1>1, <1>2
  <1> QED
    BY <1>2, <1>3, <1>4

\* Joining segments is associative.
LEMMA JoinedTwice ==
    ASSUME NEW a \in Seq(Segment), NEW b \in Seq(Segment), NEW c \in Seq(Segment)
    PROVE  (a \o b) \o c = a \o (b \o c)
  <1> DEFINE left == (a \o b) \o c  right == a \o (b \o c)
  <1>1. /\ Len(a) \in Nat /\ Len(b) \in Nat /\ Len(c) \in Nat
        /\ Len(a \o b) = Len(a) + Len(b) /\ Len(b \o c) = Len(b) + Len(c)
        /\ a \o b \in Seq(Segment) /\ b \o c \in Seq(Segment)
    OBVIOUS
  <1>2. Len(left) = Len(a) + Len(b) + Len(c) /\ Len(right) = Len(a) + Len(b) + Len(c)
    BY <1>1
  <1>3. left \in Seq(Segment) /\ right \in Seq(Segment)
    BY <1>1
  <1>4. ASSUME NEW i \in 1..(Len(a) + Len(b) + Len(c)) PROVE left[i] = right[i]
    <2>1. left[i] = IF i <= Len(a) + Len(b) THEN (a \o b)[i] ELSE c[i - (Len(a) + Len(b))]
      BY <1>1
    <2>2. right[i] = IF i <= Len(a) THEN a[i] ELSE (b \o c)[i - Len(a)]
      BY <1>1
    <2>3. i <= Len(a) + Len(b) => (a \o b)[i] = IF i <= Len(a) THEN a[i] ELSE b[i - Len(a)]
      BY <1>1
    <2>4. i > Len(a) => (b \o c)[i - Len(a)] =
             IF i - Len(a) <= Len(b) THEN b[i - Len(a)] ELSE c[(i - Len(a)) - Len(b)]
      BY <1>1
    <2>5. (i - Len(a)) - Len(b) = i - (Len(a) + Len(b))
      BY <1>1
    <2> HIDE DEF left, right
    <2> QED
      BY <1>1, <2>1, <2>2, <2>3, <2>4, <2>5
  <1> HIDE DEF left, right
  <1>5. left = right
    BY <1>1, <1>2, <1>3, <1>4
  <1> QED
    BY <1>5 DEF left, right

\* The path and the name of a spec are segments.
LEMMA SegmentsType ==
    ASSUME NEW s \in KongFileSpec
    PROVE  s.path \in Seq(Segment) /\ s.name \in Seq(Segment)
  <1>1. s.path \in Seq(STRING) /\ s.name \in Seq(STRING)
    BY DEF KongFileSpec
  <1>2. ASSUME NEW T, NEW x \in Seq(STRING) PROVE x \in Seq(STRING \cup T)
    OBVIOUS
  <1> QED
    BY <1>1, <1>2 DEF Segment

\* The path of a file is its folder, then the path and the name joined.
LEMMA JoinedPath ==
    ASSUME NEW s \in KongFileSpec, s.kind \in Kind
    PROVE  Build(s).path = Folder[s.kind] \o (s.path \o s.name)
  <1>1. Build(s).path = Folder[s.kind] \o s.path \o s.name
    BY DEF Build
  <1>2. /\ s.path \in Seq(Segment) /\ s.name \in Seq(Segment)
    BY SegmentsType
  <1>3. Folder[s.kind] \in Seq(Segment)
    BY FolderType
  <1> QED
    BY <1>1, <1>2, <1>3, JoinedTwice

\* Sequences are equal if their lengths and their elements are.
LEMMA SameSequence ==
    ASSUME NEW S, NEW b \in Seq(S), NEW c \in Seq(S), Len(b) = Len(c),
           \A i \in 1..Len(b) : b[i] = c[i]
    PROVE  b = c
  OBVIOUS

\* What follows the same folder is the same.
LEMMA SameTail ==
    ASSUME NEW a \in Seq(Segment), NEW b \in Seq(Segment), NEW c \in Seq(Segment),
           a \o b = a \o c
    PROVE  b = c
  <1>1. Len(b) = Len(c)
    <2>1. Len(a \o b) = Len(a) + Len(b) /\ Len(a \o c) = Len(a) + Len(c)
      OBVIOUS
    <2> QED
      BY <2>1
  <1>2. ASSUME NEW i \in 1..Len(b) PROVE b[i] = c[i]
    <2>1. (a \o b)[Len(a) + i] = b[i]
      OBVIOUS
    <2>2. (a \o c)[Len(a) + i] = c[i]
      BY <1>1
    <2> QED
      BY <2>1, <2>2
  <1>3. \A i \in 1..Len(b) : b[i] = c[i]
    BY <1>2
  <1> QED
    BY <1>1, <1>3, SameSequence, Zenon

\* Two ways of splitting one sequence begin alike.
LEMMA SameFirst ==
    ASSUME NEW a \in Seq(Segment), NEW b \in Seq(Segment), NEW c \in Seq(Segment),
           NEW d \in Seq(Segment), Len(a) > 0, Len(b) > 0, a \o c = b \o d
    PROVE  a[1] = b[1]
  <1>1. (a \o c)[1] = a[1] /\ (b \o d)[1] = b[1]
    OBVIOUS
  <1> QED
    BY <1>1

\* Two KongFiles of published kinds have the same file in the portal exactly if they are
\* of one kind and their path and name join to the same segments: files of two kinds
\* never meet, and where the path ends and the name begins makes no difference.
THEOREM SamePath ==
    ASSUME NEW s \in KongFileSpec, NEW t \in KongFileSpec, s.kind \in Kind, t.kind \in Kind
    PROVE  Build(s).path = Build(t).path <=> s.kind = t.kind /\ s.path \o s.name = t.path \o t.name
  <1>1. /\ Build(s).path = Folder[s.kind] \o (s.path \o s.name)
        /\ Build(t).path = Folder[t.kind] \o (t.path \o t.name)
    BY JoinedPath
  <1>2. /\ s.path \o s.name \in Seq(Segment) /\ t.path \o t.name \in Seq(Segment)
    <2>1. /\ s.path \in Seq(Segment) /\ s.name \in Seq(Segment)
          /\ t.path \in Seq(Segment) /\ t.name \in Seq(Segment)
      BY SegmentsType
    <2> QED
      BY <2>1
  <1>3. \A k \in Kind : Folder[k] \in Seq(Segment) /\ Len(Folder[k]) > 0
    BY FolderType
  <1>4. \A k, q \in Kind : Folder[k][1] = Folder[q][1] => k = q
    BY FolderType
  <1>5. ASSUME Build(s).path = Build(t).path PROVE s.kind = t.kind
    <2>1. Folder[s.kind] \o (s.path \o s.name) = Folder[t.kind] \o (t.path \o t.name)
      BY <1>1, <1>5
    <2>2. Folder[s.kind][1] = Folder[t.kind][1]
      <3> DEFINE a == Folder[s.kind]     c == s.path \o s.name
                 b == Folder[t.kind]     d == t.path \o t.name
      <3>1. /\ a \in Seq(Segment) /\ Len(a) > 0 /\ c \in Seq(Segment)
            /\ b \in Seq(Segment) /\ Len(b) > 0 /\ d \in Seq(Segment)
            /\ a \o c = b \o d
        BY <1>2, <1>3, <2>1
      <3> HIDE DEF a, b, c, d
      <3>2. a[1] = b[1]
        BY <3>1, SameFirst
      <3> QED
        BY <3>2 DEF a, b
    <2> QED
      BY <1>4, <2>2
  <1>6. ASSUME Build(s).path = Build(t).path PROVE s.path \o s.name = t.path \o t.name
    <2>1. Folder[s.kind] \o (s.path \o s.name) = Folder[s.kind] \o (t.path \o t.name)
      BY <1>1, <1>5, <1>6
    <2> QED
      BY <1>2, <1>3, <2>1, SameTail
  <1> QED
    BY <1>1, <1>5, <1>6
=============================================================================
