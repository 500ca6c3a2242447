----------------------- MODULE KongFileController_refines ----------------------
(***************************************************************************)
(* KongFileController keeps the promise of PortalPublication.              *)
(***************************************************************************)
EXTENDS KongFileController_proofs

\* What the cache, the worker and the late requests would take from the portal
\* belongs to a KongFile that has been deleted, or will when it is taken.
StoreWasSeen ==
    \A k \in Keys : Exists(k) =>
       \E j \in 1..seen[k] : log[k][j] # NoObj /\ log[k][j].spec = store[k]

WorkerDeletesGone == worker.phase \in {"exists", "delete"} => Deleted(worker.file.path)

LateWasGone == \A req \in late : req.method = "DELETE" => Deleted(req.file.path)

DeleteInv ==
    /\ PublishInv
    /\ StoreWasSeen
    /\ WorkerDeletesGone
    /\ LateWasGone

LEMMA DeletedStays ==
    ASSUME KubeTypeOK, Grows, NEW path, Deleted(path)
    PROVE  Deleted(path)'
  <1>1. PICK k \in Keys : \E i \in DOMAIN log[k] : \E j \in 1..i :
           /\ log[k][j] # NoObj
           /\ Build(log[k][j].spec).path = path
           /\ Left(log[k][i])
    BY DEF Deleted
  <1>2. PICK i \in DOMAIN log[k] : \E j \in 1..i :
           /\ log[k][j] # NoObj
           /\ Build(log[k][j].spec).path = path
           /\ Left(log[k][i])
    BY <1>1
  <1>3. PICK j \in 1..i :
           /\ log[k][j] # NoObj
           /\ Build(log[k][j].spec).path = path
           /\ Left(log[k][i])
    BY <1>2
  <1>4. j \in DOMAIN log[k]
    BY VersionType
  <1>5. /\ i \in DOMAIN log'[k] /\ log'[k][i] = log[k][i]
        /\ log'[k][j] = log[k][j]
    BY <1>4 DEF Grows
  <1> QED
    BY <1>3, <1>5 DEF Deleted, Left

\* The informer only ever moves forward, but for a restart, which empties the cache.
LEMMA StoreWasSeenStep ==
    ASSUME DeleteInv, [Next]_vars
    PROVE  StoreWasSeen'
  <1>1. Grows /\ KubeTypeOK
    BY NextGrows DEF DeleteInv, PublishInv, TypeOK
  <1>2. ASSUME NEW k \in Keys, store'[k] = store[k], store'[k] # NoSpec,
               seen[k] <= seen'[k], seen'[k] \in Nat
        PROVE  \E j \in 1..seen'[k] : log'[k][j] # NoObj /\ log'[k][j].spec = store'[k]
    <2>1. PICK j \in 1..seen[k] : log[k][j] # NoObj /\ log[k][j].spec = store[k]
      BY <1>2 DEF DeleteInv, StoreWasSeen, Exists
    <2>2. j \in DOMAIN log[k] /\ seen[k] \in Nat
      BY <1>1, VersionType
    <2>3. log'[k][j] = log[k][j]
      BY <1>1, <2>2 DEF Grows
    <2> QED
      BY <1>2, <2>1, <2>2, <2>3
  <1>3. \A k \in Keys : seen[k] \in Nat /\ seen'[k] \in Nat
    BY TypeStep, VersionType DEF DeleteInv, PublishInv, TypeOK, KubeTypeOK
  <1>4. CASE Crash
    BY <1>4 DEF Crash, Restart, StoreWasSeen, Exists
  <1>5. CASE \E q \in Keys : Deliver(q)
    <2>1. UNCHANGED store /\ \A k \in Keys : seen[k] <= seen'[k]
      BY <1>3, <1>5 DEF Deliver, Observe, DeleteInv, PublishInv, TypeOK, KubeTypeOK
    <2> QED
      BY <1>2, <1>3, <2>1 DEF StoreWasSeen, Exists
  <1>6. CASE (\E q \in Keys : Reconcile(q)) \/ FileExists
    <2>1. UNCHANGED <<log, seen>>
      BY <1>6 DEF Reconcile, FileExists
    <2>2. store \in [Keys -> AllSpecs \cup {NoSpec}]
      BY DEF DeleteInv, PublishInv, TypeOK, StoreTypeOK
    <2>3. ASSUME NEW k \in Keys, store'[k] # store[k]
          PROVE  store'[k] = NoSpec \/ (cached(k) # NoObj /\ store'[k] = cached(k).spec)
      BY <1>6, <2>2, <2>3
      DEF Reconcile, ReconcileMissing, ReconcileTerminating, ReconcileForeign, ReconcileValidated,
          ReconcilePublish, Living, UpdateObject, ProxyDelete, StoreUpdate, StoreDelete, FileExists
    <2>4. ASSUME NEW k \in Keys, store'[k] # NoSpec
          PROVE  \E j \in 1..seen'[k] : log'[k][j] # NoObj /\ log'[k][j].spec = store'[k]
      <3>1. CASE store'[k] = store[k]
        BY <1>2, <1>3, <2>1, <2>4, <3>1
      <3>2. CASE store'[k] # store[k]
        <4>1. seen[k] \in 1..seen[k]
          BY <1>1, VersionType
        <4> QED
          BY <2>1, <2>3, <2>4, <3>2, <4>1 DEF cached
      <3> QED
        BY <3>1, <3>2
    <2> QED
      BY <2>4 DEF StoreWasSeen, Exists
  <1>7. CASE UNCHANGED <<store, seen>>
    BY <1>2, <1>3, <1>7 DEF StoreWasSeen, Exists
  <1> QED
    BY <1>4, <1>5, <1>6, <1>7
    DEF Next, User, Resync, PutSucceeds, DeleteSucceeds, FileMissing, KongFails,
        StatusAccepted, StatusConflict, StatusFails, Late, vars

\* A reconcile asks Kong about, or deletes, only files of deleted KongFiles.
LEMMA ReconcileDeletesGone ==
    ASSUME DeleteInv, NEW k \in Keys, Reconcile(k)
    PROVE  WorkerDeletesGone'
  <1>1. UNCHANGED log /\ worker = Idle
    BY DEF Reconcile
  <1>2. seen[k] \in DOMAIN log[k] /\ seen[k] \in 1..seen[k]
    BY VersionType DEF DeleteInv, PublishInv, TypeOK
  <1>3. CASE ReconcileMissing(k) /\ Exists(k)
    <2>1. PICK j \in 1..seen[k] : log[k][j] # NoObj /\ log[k][j].spec = store[k]
      BY <1>3 DEF DeleteInv, StoreWasSeen
    <2>2. log[k][seen[k]] = NoObj
      BY <1>3 DEF ReconcileMissing, cached
    <2>3. Deleted(Build(store[k]).path)
      BY <1>2, <2>1, <2>2 DEF Deleted, Left
    <2>4. worker' = Idle \/ worker'.file = Build(store[k])
      BY <1>1, <1>3 DEF ReconcileMissing, ProxyDelete, Call
    <2> QED
      BY <1>1, <2>3, <2>4 DEF WorkerDeletesGone, Deleted, Idle
  <1>4. CASE ReconcileTerminating(k)
    <2>1. Deleted(Build(cached(k).spec).path)
      BY <1>2, <1>4 DEF ReconcileTerminating, Deleted, Left, cached
    <2>2. worker' = Idle \/ worker'.file = Build(cached(k).spec)
      BY <1>1, <1>4 DEF ReconcileTerminating, Call
    <2> QED
      BY <1>1, <2>1, <2>2 DEF WorkerDeletesGone, Deleted, Idle
  <1>5. CASE worker' = Idle \/ worker'.phase = "put"
    BY <1>5 DEF WorkerDeletesGone, Idle
  <1> QED
    BY <1>1, <1>3, <1>4, <1>5
    DEF Reconcile, ReconcileMissing, ReconcileForeign, ReconcileValidated, ReconcilePublish,
        UpdateObject, Forget, Call

\* A reconcile under way asks and deletes the same file throughout.
LEMMA WorkerDeletesGoneStep ==
    ASSUME DeleteInv, [Next]_vars
    PROVE  WorkerDeletesGone'
  <1>1. Grows /\ KubeTypeOK
    BY NextGrows DEF DeleteInv, PublishInv, TypeOK
  <1>2. CASE \E k \in Keys : Reconcile(k)
    BY <1>2, ReconcileDeletesGone
  <1>3. CASE UNCHANGED worker \/ FileExists
    <2>1. CASE worker'.phase \in {"exists", "delete"}
      <3>1. worker'.file = worker.file /\ worker.phase \in {"exists", "delete"}
        BY <1>3, <2>1, PhaseType DEF FileExists, DeleteInv, PublishInv, Reconciling
      <3>2. PICK path : path = worker.file.path
        OBVIOUS
      <3>3. Deleted(path)'
        BY <1>1, <3>1, <3>2, DeletedStays DEF DeleteInv, WorkerDeletesGone
      <3> QED
        BY <3>1, <3>2, <3>3 DEF WorkerDeletesGone, Deleted
    <2> QED
      BY <2>1 DEF WorkerDeletesGone
  <1>4. CASE worker' = Idle
    BY <1>4 DEF WorkerDeletesGone, Idle
  <1>5. CASE PutSucceeds
    BY <1>5, PhaseType DEF PutSucceeds, WorkerDeletesGone, DeleteInv, PublishInv, Reconciling
  <1> QED
    BY <1>2, <1>3, <1>4, <1>5
    DEF Next, User, Deliver, Resync, DeleteSucceeds, FileMissing, KongFails, StatusAccepted,
        StatusConflict, StatusFails, Requeue, Crash, Restart, Late, vars

LEMMA PendingWasGone ==
    ASSUME DeleteInv, NEW req \in Pending, req.method = "DELETE"
    PROVE  Deleted(req.file.path)
  <1>1. worker.phase = "delete" /\ req.file = worker.file
    BY DEF Pending
  <1> QED
    BY <1>1 DEF DeleteInv, WorkerDeletesGone

LEMMA LateWasGoneStep ==
    ASSUME DeleteInv, [Next]_vars \/ Stop
    PROVE  LateWasGone'
  <1>1. Grows /\ KubeTypeOK
    BY NextGrows DEF DeleteInv, PublishInv, TypeOK
  <1>2. late' \subseteq late \cup Pending
    <2>1. Abandon(Pending) => late' \subseteq late \cup Pending
      BY DEF Abandon
    <2> QED
      BY <2>1 DEF Next, Reconcile, User, Deliver, Resync, PutSucceeds, DeleteSucceeds, FileExists,
                  FileMissing, KongFails, StatusAccepted, StatusConflict, StatusFails, Crash, Stop,
                  Late, LateArrives, vars
  <1>3. ASSUME NEW req \in late', req.method = "DELETE" PROVE Deleted(req.file.path)
    BY <1>2, <1>3, PendingWasGone DEF DeleteInv, LateWasGone
  <1>4. ASSUME NEW req \in late', req.method = "DELETE"
        PROVE  \E path : path = req.file.path /\ Deleted(path)'
    BY <1>1, <1>3, <1>4, DeletedStays
  <1> QED
    BY <1>4 DEF LateWasGone, Deleted

-----------------------------------------------------------------------------
(* The refinement. *)

AskedFiles == {f \in File : Asked(f)}
GonePaths == {path \in {f.path : f \in File} : Deleted(path)}

\* A request the controller sends, whenever Kong applies it, publishes what was
\* asked for or withdraws what is gone.
LEMMA ApplyIsPromised ==
    ASSUME DeleteInv, NEW req \in Pending \cup late, Apply(req)
    PROVE  \/ \E f \in AskedFiles : Promise!Publish(f)
           \/ \E path \in GonePaths : Promise!Withdraw(path)
  <1>1. req \in Request
    BY PendingType DEF DeleteInv, PublishInv, TypeOK, KongTypeOK
  <1>2. CASE req.method = "PUT"
    <2>1. Asked(req.file) /\ req.file \in File
      BY <1>1, <1>2, PendingWasRequested DEF DeleteInv, PublishInv, LateWasRequested, Request
    <2>2. Promise!Publish(req.file)
      BY <1>2 DEF Apply, Others, Promise!Publish, Promise!Elsewhere
    <2> QED
      BY <2>1, <2>2 DEF AskedFiles
  <1>3. CASE req.method = "DELETE"
    <2>1. Deleted(req.file.path) /\ req.file \in File
      BY <1>1, <1>3, PendingWasGone DEF DeleteInv, LateWasGone, Request
    <2>2. Promise!Withdraw(req.file.path)
      BY <1>3 DEF Apply, Others, Promise!Withdraw, Promise!Elsewhere
    <2> QED
      BY <2>1, <2>2 DEF GonePaths
  <1> QED
    BY <1>1, <1>2, <1>3 DEF Request

LEMMA MoveIsPromised ==
    ASSUME DeleteInv, [Next]_vars \/ Stop
    PROVE  Promise!Move
  <1>1. Grows /\ KubeTypeOK
    BY NextGrows DEF DeleteInv, PublishInv, TypeOK
  <1>2. AskedFiles \subseteq AskedFiles'
    BY <1>1, AskedStays DEF AskedFiles
  <1>3. GonePaths \subseteq GonePaths'
    BY <1>1, DeletedStays DEF GonePaths
  <1> QED
    BY <1>2, <1>3 DEF Promise!Move, AskedFiles, GonePaths

LEMMA StepIsPromised ==
    ASSUME DeleteInv, [Next]_vars \/ Stop
    PROVE  Promise!Next
  <1>1. \/ UNCHANGED kong
        \/ \E req \in Pending \cup late : Apply(req)
    <2>1. Abandon(Pending) => UNCHANGED kong \/ \E req \in Pending : Apply(req)
      BY DEF Abandon
    <2> QED
      BY <2>1 DEF Next, Reconcile, User, Deliver, Resync, PutSucceeds, DeleteSucceeds, FileExists,
                  FileMissing, KongFails, StatusAccepted, StatusConflict, StatusFails, Crash, Stop,
                  Late, LateArrives, vars
  <1> QED
    BY <1>1, ApplyIsPromised, MoveIsPromised DEF Promise!Next, AskedFiles, GonePaths

LEMMA DeleteInit ==
    ASSUME Init
    PROVE  DeleteInv
  BY PublishInit DEF DeleteInv, Init, StoreInit, KongInit, StoreWasSeen, WorkerDeletesGone,
                     LateWasGone, Exists, Idle

LEMMA DeleteStep ==
    ASSUME DeleteInv, [Next]_vars
    PROVE  DeleteInv'
  <1>1. PublishInv'
    BY PublishStep DEF DeleteInv
  <1> QED
    BY <1>1, StoreWasSeenStep, WorkerDeletesGoneStep, LateWasGoneStep DEF DeleteInv

LEMMA InitIsPromised ==
    ASSUME Init
    PROVE  Promise!Init
  <1>1. \A k \in Keys : log[k] = <<NoObj>>
    BY DEF Init, KubeInit
  <1>2. \A f : ~Asked(f)
    BY <1>1 DEF Asked, Requested, Ours
  <1>3. \A path : ~Deleted(path)
    BY <1>1 DEF Deleted
  <1> QED
    BY <1>2, <1>3 DEF Promise!Init, Init, KongInit

\* The portal changes only by files some KongFile of our class asked for and by
\* files of deleted KongFiles, through every failure and restart.
THEOREM KeepsPromiseHolds == Spec => KeepsPromise
<1>1. Init => DeleteInv
  BY DeleteInit
<1>2. DeleteInv /\ [Next]_vars => DeleteInv'
  BY DeleteStep
<1>3. Init => Promise!Init
  BY InitIsPromised
<1>4. DeleteInv /\ [Next]_vars => [Promise!Next]_Promise!vars
  BY StepIsPromised
<1> QED
  BY <1>1, <1>2, <1>3, <1>4, PTL DEF Spec, KeepsPromise, Promise!Spec

-----------------------------------------------------------------------------
(* The same with another process of the controller at work.                *)

\* What the invariant says of the state all processes share.
SharedInv ==
    /\ log \in [Keys -> Seq(Object \cup {NoObj})]
    /\ KongTypeOK
    /\ PublishedWasRequested
    /\ LateWasRequested
    /\ LateWasGone

\* A step of this process, or its end, keeps its share of it.
LEMMA SharedStep ==
    ASSUME DeleteInv, [Next]_vars \/ Stop
    PROVE  Grows /\ SharedInv'
  <1>1. Grows
    BY NextGrows DEF DeleteInv, PublishInv
  <1>2. log' \in [Keys -> Seq(Object \cup {NoObj})] /\ KongTypeOK'
    BY TypeStep, StopType DEF DeleteInv, PublishInv, TypeOK, KubeTypeOK
  <1>3. PublishedWasRequested'
    <2>1. \A f \in kong' : Asked(f)'
      BY <1>1, KongStepPublishes, AskedStays DEF DeleteInv
    <2> QED
      BY <2>1 DEF PublishedWasRequested, Asked
  <1>4. LateWasRequested'
    BY <1>1, KongStepPublishes, AskedStays DEF DeleteInv, LateWasRequested
  <1> QED
    BY <1>1, <1>2, <1>3, <1>4, LateWasGoneStep DEF SharedInv

\* A step of another process that keeps it leaves this one's invariant true.
LEMMA OtherStep ==
    ASSUME DeleteInv, Grows, SharedInv', crashes' \in Nat,
           UNCHANGED <<seen, store, dirty, worker>>
    PROVE  DeleteInv'
  <1>1. ASSUME NEW k \in Keys
        PROVE  /\ DOMAIN log[k] \subseteq DOMAIN log'[k] /\ DOMAIN log'[k] = 1..Len(log'[k])
               /\ seen[k] \in 1..Len(log'[k])
               /\ DOMAIN log[k] = 1..Len(log[k])
    BY VersionType DEF DeleteInv, PublishInv, TypeOK, SharedInv, Grows
  <1>2. TypeOK'
    BY <1>1 DEF DeleteInv, PublishInv, TypeOK, KubeTypeOK, StoreTypeOK, SharedInv
  <1>3. WorkerPutsRequested'
    <2> SUFFICES ASSUME worker.phase \in {"put", "status"}
                 PROVE  /\ worker.ver \in DOMAIN log'[worker.key]
                        /\ Requested(worker.key, worker.ver, worker.file)'
      BY DEF WorkerPutsRequested
    <2>1. worker.key \in Keys
      BY PhaseType DEF DeleteInv, PublishInv, Reconciling
    <2>2. worker.ver \in DOMAIN log[worker.key] /\ Requested(worker.key, worker.ver, worker.file)
      BY DEF DeleteInv, PublishInv, WorkerPutsRequested
    <2> QED
      BY <2>1, <2>2 DEF Grows, Requested, Ours, MatchesControllerClassName
  <1>4. StoreWasSeen'
    <2> SUFFICES ASSUME NEW k \in Keys, store[k] # NoSpec
                 PROVE  \E j \in 1..seen[k] : log'[k][j] # NoObj /\ log'[k][j].spec = store[k]
      BY DEF StoreWasSeen, Exists
    <2>1. PICK j \in 1..seen[k] : log[k][j] # NoObj /\ log[k][j].spec = store[k]
      BY DEF DeleteInv, StoreWasSeen, Exists
    <2>2. j \in DOMAIN log[k]
      BY VersionType DEF DeleteInv, PublishInv, TypeOK
    <2> QED
      BY <2>1, <2>2 DEF Grows
  <1>5. WorkerDeletesGone'
    <2> SUFFICES ASSUME worker.phase \in {"exists", "delete"}
                 PROVE  \E path : path = worker.file.path /\ Deleted(path)'
      BY DEF WorkerDeletesGone, Deleted
    <2> QED
      BY DeletedStays DEF DeleteInv, PublishInv, TypeOK, WorkerDeletesGone
  <1> QED
    BY <1>2, <1>3, <1>4, <1>5 DEF DeleteInv, PublishInv, SharedInv

\* A process that starts to lead brings nothing of its own.
LEMMA RestartStep ==
    ASSUME DeleteInv, Restart, UNCHANGED <<log, kong, late>>, crashes' \in Nat
    PROVE  DeleteInv'
  <1>1. ASSUME NEW k \in Keys PROVE seen'[k] \in 1..Len(log[k]) /\ seen'[k] \in Nat
    BY VersionType DEF Restart, DeleteInv, PublishInv, TypeOK
  <1>2. seen' \in [Keys -> Nat]
    BY <1>1 DEF Restart
  <1>3. TypeOK'
    BY <1>1, <1>2
    DEF Restart, DeleteInv, PublishInv, TypeOK, KubeTypeOK, StoreTypeOK, KongTypeOK
  <1>4. WorkerPutsRequested' /\ StoreWasSeen' /\ WorkerDeletesGone'
    BY DEF Restart, WorkerPutsRequested, StoreWasSeen, Exists, WorkerDeletesGone, Idle
  <1>5. PublishedWasRequested' /\ LateWasRequested' /\ LateWasGone'
    BY DEF DeleteInv, PublishInv, PublishedWasRequested, LateWasRequested, LateWasGone,
           Asked, Requested, Deleted
  <1> QED
    BY <1>3, <1>4, <1>5 DEF DeleteInv, PublishInv
=============================================================================
