---------------------------- MODULE Handover_proofs ----------------------------
(***************************************************************************)
(* Two overlapping leaders keep the promise one leader keeps.  Each process *)
(* satisfies, with its own variables, the invariant of                      *)
(* KongFileController_refines; a step of one is, for the other, a step of   *)
(* its environment.                                                         *)
(***************************************************************************)
EXTENDS Handover, KongFileController_refines

\* The theorems about one process, read of the deposed one.
D == INSTANCE KongFileController_refines
        WITH seen <- oldSeen, store <- oldStore, dirty <- oldDirty, worker <- oldWorker

HInv == DeleteInv /\ D!DeleteInv

-----------------------------------------------------------------------------
(* Handover's instance of the controller and that of the theorems are one.   *)

LEMMA SameReconcile ==
    ASSUME NEW k \in Keys, Deposed!Reconcile(k)
    PROVE  D!Reconcile(k)
  BY DEF D!Reconcile, D!ReconcileMissing, D!ReconcileTerminating, D!ReconcileForeign,
         D!ReconcileValidated, D!ReconcilePublish, D!Living, D!UpdateObject, D!ProxyDelete,
         D!Call, D!Forget, D!StoreUpdate, D!StoreDelete, D!Exists, D!cached, D!Build, D!Idle,
         D!isEmptyString, D!MatchesControllerClassName, D!Folder, D!Kind, D!EmptyPath,
         Deposed!Reconcile, Deposed!ReconcileMissing, Deposed!ReconcileTerminating,
         Deposed!ReconcileForeign, Deposed!ReconcileValidated, Deposed!ReconcilePublish,
         Deposed!Living, Deposed!UpdateObject, Deposed!ProxyDelete, Deposed!Call, Deposed!Forget,
         Deposed!StoreUpdate, Deposed!StoreDelete, Deposed!Exists, Deposed!cached, Deposed!Build,
         Deposed!Idle, Deposed!isEmptyString, Deposed!MatchesControllerClassName,
         Deposed!Folder, Deposed!Kind, Deposed!EmptyPath

LEMMA SameDeliver ==
    ASSUME NEW k \in Keys, Deposed!Deliver(k)
    PROVE  D!Deliver(k)
  BY DEF D!Deliver, D!Observe, D!Passes, D!FilterFunc, D!UpdateFunc, D!cached,
         D!IsControllerClassAnnotationConfigured, D!IsControllerClassSpecConfigured,
         D!annotationCheckEnabled, D!specCheckEnabled, Deposed!Deliver, Deposed!Observe,
         Deposed!Passes, Deposed!FilterFunc, Deposed!UpdateFunc, Deposed!cached,
         Deposed!IsControllerClassAnnotationConfigured, Deposed!IsControllerClassSpecConfigured,
         Deposed!annotationCheckEnabled, Deposed!specCheckEnabled

LEMMA SameKongAnswers ==
    ASSUME Deposed!PutSucceeds \/ Deposed!DeleteSucceeds \/ Deposed!FileExists
           \/ Deposed!FileMissing \/ Deposed!KongFails
    PROVE  D!PutSucceeds \/ D!DeleteSucceeds \/ D!FileExists \/ D!FileMissing \/ D!KongFails
  BY DEF D!PutSucceeds, D!DeleteSucceeds, D!FileExists, D!FileMissing, D!KongFails, D!Pending,
         D!Apply, D!Others, D!Serves, D!Abandon, D!Cardinality, D!Requeue, D!StoreDelete, D!Idle,
         Deposed!PutSucceeds, Deposed!DeleteSucceeds, Deposed!FileExists, Deposed!FileMissing,
         Deposed!KongFails, Deposed!Pending, Deposed!Apply, Deposed!Others, Deposed!Serves,
         Deposed!Abandon, Deposed!Cardinality, Deposed!Requeue, Deposed!StoreDelete, Deposed!Idle

LEMMA SameStatusAnswers ==
    ASSUME Deposed!StatusAccepted \/ Deposed!StatusConflict \/ Deposed!StatusFails
    PROVE  D!StatusAccepted \/ D!StatusConflict \/ D!StatusFails
  BY DEF D!StatusAccepted, D!StatusConflict, D!StatusFails, D!StatusUpdate, D!Requeue, D!Write,
         D!api, D!Idle, Deposed!StatusAccepted, Deposed!StatusConflict, Deposed!StatusFails,
         Deposed!StatusUpdate, Deposed!Requeue, Deposed!Write, Deposed!api, Deposed!Idle

LEMMA SameStop ==
    ASSUME Deposed!Stop
    PROVE  D!Stop
  BY DEF D!Stop, D!Pending, D!Apply, D!Others, D!Abandon, D!Cardinality, D!StatusUpdate,
         D!Write, D!api, Deposed!Stop, Deposed!Pending, Deposed!Apply, Deposed!Others,
         Deposed!Abandon, Deposed!Cardinality, Deposed!StatusUpdate, Deposed!Write, Deposed!api

LEMMA DeposedStepIsNext ==
    ASSUME DeposedStep
    PROVE  D!Next
  BY SameReconcile, SameDeliver, SameKongAnswers, SameStatusAnswers
  DEF DeposedStep, Deposed!Answered, D!Next

-----------------------------------------------------------------------------
(* What the processes share is the same seen from either.                    *)

\* The theorems of an instance hold under the assumptions of its module.
LEMMA SameAssumptions ==
    /\ Specs \in [Keys -> SUBSET D!KongFileSpec]
    /\ ControllerClass \in Classes /\ Webhook \in BOOLEAN /\ MaxLog \in Nat
    /\ NoObj \notin D!Object
    /\ NoSpec \notin D!KongFileSpec
    /\ MaxLate \in Nat
    /\ Faults \subseteq {"kong", "api", "skew", "stale"} /\ MaxCrashes \in Nat
  <1>1. D!KongFileSpec = KongFileSpec /\ D!Object = Object
    BY DEF D!KongFileSpec, KongFileSpec, D!Object, Object, D!AllSpecs, AllSpecs, D!Kind, Kind
  <1> QED
    BY <1>1, SpecsAssumption, KubeAssumption, NoObjAssumption, NoSpecAssumption, LateAssumption,
       ControllerAssumption

LEMMA SameGrows == Grows <=> D!Grows
  BY DEF Grows, D!Grows

LEMMA SameShared == SharedInv' <=> (D!SharedInv)'
  BY DEF SharedInv, D!SharedInv, Object, D!Object, AllSpecs, D!AllSpecs, KongTypeOK,
         D!KongTypeOK, Request, D!Request, File, D!File, Build, D!Build, Folder, D!Folder, Kind,
         D!Kind, EmptyPath, D!EmptyPath, PublishedWasRequested, D!PublishedWasRequested,
         LateWasRequested, D!LateWasRequested, LateWasGone, D!LateWasGone, Asked, D!Asked,
         Requested, D!Requested, Ours, D!Ours, MatchesControllerClassName,
         D!MatchesControllerClassName, Deleted, D!Deleted, Left, D!Left

LEMMA SameDeleted == \A path : Deleted(path) <=> D!Deleted(path)
  BY DEF Deleted, D!Deleted, Left, D!Left, Build, D!Build, Folder, D!Folder, Kind, D!Kind,
         EmptyPath, D!EmptyPath

LEMMA SameMove == Promise!Next <=> D!Promise!Next
  BY DEF Promise!Next, D!Promise!Next, Promise!Move, D!Promise!Move, Promise!Publish,
         D!Promise!Publish, Promise!Withdraw, D!Promise!Withdraw, Promise!Elsewhere,
         D!Promise!Elsewhere, File, D!File, Build, D!Build, Folder, D!Folder, Kind, D!Kind,
         EmptyPath, D!EmptyPath, AllSpecs, D!AllSpecs, Asked, D!Asked, Requested, D!Requested,
         Ours, D!Ours, MatchesControllerClassName, D!MatchesControllerClassName,
         Deleted, D!Deleted, Left, D!Left

-----------------------------------------------------------------------------
(* A step of one process is a step of the environment of the other.          *)

LEMMA LeaderKeeps ==
    ASSUME HInv, Next, Leads
    PROVE  HInv' /\ Promise!Next
  <1>1. DeleteInv' /\ Promise!Next /\ Grows /\ SharedInv'
    BY DeleteStep, StepIsPromised, SharedStep DEF HInv
  <1>2. crashes' \in Nat
    BY <1>1 DEF DeleteInv, PublishInv, TypeOK
  <1>3. D!Grows /\ (D!SharedInv)'
    BY <1>1, SameGrows, SameShared
  <1>4. UNCHANGED <<oldSeen, oldStore, oldDirty, oldWorker>>
    BY DEF Leads, oldVars
  <1>5. (D!DeleteInv)'
    BY <1>2, <1>3, <1>4, D!OtherStep, SameAssumptions DEF HInv
  <1> QED
    BY <1>1, <1>5 DEF HInv

\* A step of the deposed process, or its end, keeps what all share.
LEMMA DeposedShares ==
    ASSUME HInv, D!Next \/ D!Stop
    PROVE  Promise!Next /\ Grows /\ SharedInv'
  <1>1. D!Promise!Next /\ D!Grows /\ (D!SharedInv)'
    BY D!StepIsPromised, D!SharedStep, SameAssumptions DEF HInv
  <1> QED
    BY <1>1, SameMove, SameGrows, SameShared

LEMMA DeposedKeeps ==
    ASSUME HInv, DeposedStep
    PROVE  HInv' /\ Promise!Next
  <1>1. D!Next
    BY DeposedStepIsNext
  <1>2. (D!DeleteInv)'
    BY <1>1, D!DeleteStep, SameAssumptions DEF HInv
  <1>3. Promise!Next /\ Grows /\ SharedInv'
    BY <1>1, DeposedShares
  <1>4. crashes' \in Nat
    BY <1>2 DEF D!DeleteInv, D!PublishInv, D!TypeOK
  <1>5. DeleteInv'
    BY <1>3, <1>4, OtherStep DEF HInv, DeposedStep
  <1> QED
    BY <1>2, <1>3, <1>5 DEF HInv

\* Without a deposed process there is nothing its invariant could be about.
LEMMA NoLeaderKeeps ==
    ASSUME SharedInv', NoLeader', crashes' \in Nat,
           \A k \in Keys : Len(log'[k]) \in Nat \ {0}
    PROVE  (D!DeleteInv)'
  <1>1. (D!SharedInv)'
    BY SameShared
  <1>2. (D!TypeOK)'
    BY <1>1 DEF D!TypeOK, D!KubeTypeOK, D!StoreTypeOK, NoLeader, D!SharedInv, D!Idle, Idle
  <1>3. (D!WorkerPutsRequested)' /\ (D!StoreWasSeen)' /\ (D!WorkerDeletesGone)'
    BY DEF D!WorkerPutsRequested, D!StoreWasSeen, D!Exists, D!WorkerDeletesGone, NoLeader, Idle
  <1> QED
    BY <1>1, <1>2, <1>3 DEF D!DeleteInv, D!PublishInv, D!SharedInv

LEMMA ExitKeeps ==
    ASSUME HInv, DeposedExits
    PROVE  HInv' /\ Promise!Next
  <1>1. D!Stop
    BY SameStop DEF DeposedExits
  <1>2. Promise!Next /\ Grows /\ SharedInv'
    BY <1>1, DeposedShares
  <1>3. crashes' \in Nat
    BY DEF HInv, DeleteInv, PublishInv, TypeOK, DeposedExits
  <1>4. DeleteInv'
    BY <1>2, <1>3, OtherStep DEF HInv, DeposedExits
  <1>5. NoLeader'
    BY DEF DeposedExits, NoLeader
  <1>6. \A k \in Keys : Len(log'[k]) \in Nat \ {0}
    BY <1>4, VersionType DEF DeleteInv, PublishInv, TypeOK, KubeTypeOK
  <1> QED
    BY <1>2, <1>3, <1>4, <1>5, <1>6, NoLeaderKeeps DEF HInv

\* What the leader leaves to the deposed process is its own state.
LEMMA DeposeKeeps ==
    ASSUME HInv, Depose
    PROVE  HInv' /\ Promise!Next
  <1>1. crashes' \in Nat /\ UNCHANGED <<log, kong, late>>
    BY DEF Depose, HInv, DeleteInv, PublishInv, TypeOK
  <1>2. DeleteInv'
    BY <1>1, RestartStep DEF HInv, Depose
  <1>3. SharedInv'
    BY <1>2 DEF DeleteInv, PublishInv, TypeOK, KubeTypeOK, SharedInv
  <1>4. (D!SharedInv)'
    BY <1>3, SameShared
  <1>5. (D!TypeOK)'
    BY <1>1, <1>4
    DEF Depose, HInv, DeleteInv, PublishInv, TypeOK, KubeTypeOK, StoreTypeOK, Reconciling, Idle,
        AllSpecs, File, Build, Folder, Kind, EmptyPath, D!TypeOK, D!KubeTypeOK, D!StoreTypeOK,
        D!SharedInv, D!Reconciling, D!Idle, D!AllSpecs, D!File, D!Build, D!Folder, D!Kind,
        D!EmptyPath
  <1>6. (D!WorkerPutsRequested)'
    BY <1>1
    DEF Depose, HInv, DeleteInv, PublishInv, WorkerPutsRequested, D!WorkerPutsRequested,
        Requested, D!Requested, Ours, D!Ours, MatchesControllerClassName,
        D!MatchesControllerClassName, Build, D!Build, Folder, D!Folder, Kind, D!Kind,
        EmptyPath, D!EmptyPath
  <1>7. (D!StoreWasSeen)'
    BY <1>1 DEF Depose, HInv, DeleteInv, StoreWasSeen, D!StoreWasSeen, Exists, D!Exists
  <1>8. (D!WorkerDeletesGone)'
    <2> SUFFICES ASSUME worker.phase \in {"exists", "delete"}
                 PROVE  (D!Deleted(oldWorker.file.path))'
      BY DEF Depose, D!WorkerDeletesGone
    <2>1. D!Deleted(worker.file.path)
      BY SameDeleted DEF HInv, DeleteInv, WorkerDeletesGone
    <2> QED
      BY <1>1, <2>1 DEF Depose, D!Deleted, D!Left
  <1>9. Promise!Next
    <2>1. AskedFiles = AskedFiles' /\ GonePaths = GonePaths'
      BY <1>1 DEF AskedFiles, Asked, Requested, GonePaths, Deleted
    <2> QED
      BY <1>1, <2>1 DEF Promise!Next, Promise!Move, AskedFiles, GonePaths
  <1> QED
    BY <1>2, <1>4, <1>5, <1>6, <1>7, <1>8, <1>9
    DEF HInv, D!DeleteInv, D!PublishInv, D!SharedInv

LEMMA HandoverStep ==
    ASSUME HInv, [HandoverNext]_allVars
    PROVE  HInv' /\ Promise!Next
  <1>1. CASE UNCHANGED allVars
    <2>1. [Next]_vars /\ SharedInv' /\ Grows
      BY <1>1, SharedStep DEF HInv, allVars
    <2>2. (D!DeleteInv)'
      BY <1>1, D!DeleteStep, SameAssumptions DEF HInv, allVars, oldVars, vars, D!vars
    <2> QED
      BY <2>1, <2>2, DeleteStep, StepIsPromised DEF HInv
  <1> QED
    BY <1>1, LeaderKeeps, DeposeKeeps, DeposedKeeps, ExitKeeps DEF HandoverNext

LEMMA HandoverInitInv ==
    ASSUME HandoverInit
    PROVE  HInv
  <1>1. DeleteInv
    BY DeleteInit DEF HandoverInit
  <1>2. D!Init
    BY DEF HandoverInit, NoLeader, Init, D!Init, KubeInit, D!KubeInit, D!StoreInit, KongInit,
           D!KongInit, Idle, D!Idle
  <1> QED
    BY <1>1, <1>2, D!DeleteInit, SameAssumptions DEF HInv

LEMMA HandoverInvariant == HandoverSpec => []HInv
  BY HandoverInitInv, HandoverStep, PTL DEF HandoverSpec

\* Leader and deposed leader together change the portal only by files asked for and
\* by files of deleted KongFiles, however their requests interleave.
THEOREM TwoLeadersKeepPromise == HandoverSpec => KeepsPromise
<1>1. HandoverInit => Promise!Init
  BY InitIsPromised DEF HandoverInit
<1>2. HInv /\ [HandoverNext]_allVars => [Promise!Next]_Promise!vars
  BY HandoverStep
<1> QED
  BY <1>1, <1>2, HandoverInvariant, PTL DEF HandoverSpec, KeepsPromise, Promise!Spec

\* Everything they publish was requested.
THEOREM TwoLeadersPublishRequested == HandoverSpec => []PublishedWasRequested
<1>1. HInv => PublishedWasRequested
  BY DEF HInv, DeleteInv, PublishInv
<1> QED
  BY <1>1, HandoverInvariant, PTL

-----------------------------------------------------------------------------
(* Type correctness, and who validates.                                      *)

Paths == {f.path : f \in File}

\* The deposed process writes to the API server only from a status update.
LEMMA DeposedWrites ==
    ASSUME HInv, DeposedStep \/ DeposedExits, log' # log
    PROVE  oldWorker.phase = "status" /\ oldWorker.file.path \in Paths
  <1>1. oldWorker.phase = "status"
    BY DEF DeposedStep, DeposedExits, Deposed!Answered, Deposed!Reconcile, Deposed!Deliver,
           Deposed!PutSucceeds, Deposed!DeleteSucceeds, Deposed!FileExists, Deposed!FileMissing,
           Deposed!KongFails, Deposed!StatusAccepted, Deposed!StatusConflict,
           Deposed!StatusFails, Deposed!Stop
  <1>2. oldWorker.file \in D!File
    BY <1>1, D!PhaseType, SameAssumptions DEF HInv, D!DeleteInv, D!PublishInv, D!Reconciling
  <1>3. D!File = File
    BY DEF File, D!File, Build, D!Build, Folder, D!Folder, Kind, D!Kind, EmptyPath, D!EmptyPath,
           AllSpecs, D!AllSpecs
  <1> QED
    BY <1>1, <1>2, <1>3 DEF Paths

LEMMA HandoverTypeStep ==
    ASSUME HInv, HandoverTypeOK, [HandoverNext]_allVars
    PROVE  HandoverTypeOK'
  <1>1. HInv'
    BY HandoverStep
  <1>2. Changed \subseteq Paths
    BY <1>1 DEF Changed, Paths, HInv, DeleteInv, PublishInv, TypeOK, KongTypeOK, File
  <1>3. overtaken' \subseteq Paths
    <2>1. CASE Next /\ Leads
      BY <1>2, <2>1 DEF Leads, InOrder, HandoverTypeOK, Paths
    <2>2. CASE DeposedStep \/ DeposedExits
      BY <1>2, <2>2, DeposedWrites DEF DeposedStep, DeposedExits, Overtakes, HandoverTypeOK, Paths
    <2>3. CASE Depose \/ UNCHANGED allVars
      BY <2>3 DEF Depose, allVars, HandoverTypeOK, Paths
    <2> QED
      BY <2>1, <2>2, <2>3 DEF HandoverNext
  <1>4. deposed' \in BOOLEAN /\ (~deposed' => NoLeader')
    BY DEF HandoverNext, Leads, Depose, DeposedStep, DeposedExits, allVars, oldVars,
           HandoverTypeOK, NoLeader
  <1>5. TypeOK' /\ (Deposed!TypeOK)'
    <2>1. TypeOK' /\ (D!TypeOK)'
      BY <1>1 DEF HInv, DeleteInv, PublishInv, D!DeleteInv, D!PublishInv
    <2> QED
      BY <2>1
      DEF D!TypeOK, Deposed!TypeOK, D!KubeTypeOK, Deposed!KubeTypeOK, D!StoreTypeOK,
          Deposed!StoreTypeOK, D!KongTypeOK, Deposed!KongTypeOK, D!Object, Deposed!Object,
          D!AllSpecs, Deposed!AllSpecs, D!Request, Deposed!Request, D!File, Deposed!File,
          D!Build, Deposed!Build, D!Folder, Deposed!Folder, D!Kind, Deposed!Kind, D!EmptyPath,
          Deposed!EmptyPath, D!Reconciling, Deposed!Reconciling, D!Idle, Deposed!Idle
  <1> QED
    BY <1>3, <1>4, <1>5 DEF HandoverTypeOK, Paths

\* The state of two overlapping leaders is of the right type.
THEOREM HandoverTypeInvariant == HandoverSpec => []HandoverTypeOK
<1>1. HandoverInit => HandoverTypeOK
  <2> SUFFICES ASSUME HandoverInit PROVE HandoverTypeOK
    OBVIOUS
  <2>1. HInv
    BY HandoverInitInv
  <2>2. TypeOK /\ D!TypeOK
    BY <2>1 DEF HInv, DeleteInv, PublishInv, D!DeleteInv, D!PublishInv
  <2> QED
    BY <2>2
    DEF HandoverTypeOK, HandoverInit, D!TypeOK, Deposed!TypeOK, D!KubeTypeOK, Deposed!KubeTypeOK,
        D!StoreTypeOK, Deposed!StoreTypeOK, D!KongTypeOK, Deposed!KongTypeOK, D!Object,
        Deposed!Object, D!AllSpecs, Deposed!AllSpecs, D!Request, Deposed!Request, D!File,
        Deposed!File, D!Build, Deposed!Build, D!Folder, Deposed!Folder, D!Kind, Deposed!Kind,
        D!EmptyPath, Deposed!EmptyPath, D!Reconciling, Deposed!Reconciling, D!Idle, Deposed!Idle
<1>2. HInv /\ HandoverTypeOK /\ [HandoverNext]_allVars => HandoverTypeOK'
  BY HandoverTypeStep
<1> QED
  BY <1>1, <1>2, HandoverInvariant, PTL DEF HandoverSpec

\* Leader or deposed, the process that validates a version has itself put its file:
\* neither takes over the validation, or the unfinished work, of the other.
THEOREM ValidatedByItsPublisherHolds == HandoverSpec => ValidatedByItsPublisher
<1>1. HInv /\ [HandoverNext]_allVars =>
         [\A k \in Keys : BecomesValidated(k) =>
            /\ Ours(api(k)')
            /\ ValidatedWasPutByIts(worker, k) \/ ValidatedWasPutByIts(oldWorker, k)]_allVars
  <2> SUFFICES ASSUME HInv, HandoverNext, NEW k \in Keys, BecomesValidated(k)
               PROVE  /\ Ours(api(k)')
                      /\ ValidatedWasPutByIts(worker, k) \/ ValidatedWasPutByIts(oldWorker, k)
    OBVIOUS
  <2>1. CASE Next
    <3>1. worker.phase = "status" /\ worker.key = k /\ Ours(api(k)')
          /\ Build(api(k)'.spec) = worker.file
      BY <2>1, ValidationStep DEF HInv, DeleteInv
    <3>2. worker # Idle
      BY <3>1, PhaseType DEF HInv, DeleteInv, PublishInv
    <3> QED
      BY <3>1, <3>2 DEF ValidatedWasPutByIts
  <2>2. CASE DeposedStep \/ DeposedExits
    <3>1. D!Next \/ D!Stop
      BY <2>2, DeposedStepIsNext, SameStop DEF DeposedExits
    <3>2. D!BecomesValidated(k)
      BY DEF BecomesValidated, D!BecomesValidated, api, D!api
    <3>3. oldWorker.phase = "status" /\ oldWorker.key = k /\ D!Ours((D!api(k))')
          /\ D!Build((D!api(k))'.spec) = oldWorker.file
      BY <3>1, <3>2, D!ValidationStep, SameAssumptions DEF HInv, D!DeleteInv
    <3>4. oldWorker # Idle
      BY <3>3 DEF Idle
    <3>5. Ours(api(k)') /\ Build(api(k)'.spec) = oldWorker.file
      BY <3>3 DEF api, D!api, Ours, D!Ours, MatchesControllerClassName,
                  D!MatchesControllerClassName, Build, D!Build, Folder, D!Folder, Kind, D!Kind,
                  EmptyPath, D!EmptyPath
    <3> QED
      BY <3>3, <3>4, <3>5 DEF ValidatedWasPutByIts
  <2>3. CASE Depose
    BY <2>3 DEF Depose, BecomesValidated, api
  <2> QED
    BY <2>1, <2>2, <2>3 DEF HandoverNext
<1> QED
  BY <1>1, HandoverInvariant, PTL DEF HandoverSpec, ValidatedByItsPublisher
=============================================================================
