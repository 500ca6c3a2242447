---------------------------- MODULE Handover_served ----------------------------
(***************************************************************************)
(* A validated KongFile is served unless its file was last changed out of  *)
(* order: for any number of KongFiles whose paths are distinct, crashes,   *)
(* handovers and late requests.                                            *)
(***************************************************************************)
EXTENDS Handover_proofs, KongFileController_rest

\* No two KongFiles build the same path.
PathsApart == \A k, q \in Keys : k # q => PathsOf(k) \cap PathsOf(q) = {}

\* If every KongFile is of a published kind, the paths are distinct exactly if no two
\* KongFiles of one kind join path and name to the same segments: the condition of
\* ServedUnlessOvertakenHolds in terms of what users write.
THEOREM WhenPathsApart ==
    ASSUME \A k \in Keys : \A s \in Specs[k] : s.kind \in Kind
    PROVE  PathsApart <=> \A k, q \in Keys : k # q =>
                            \A s \in Specs[k], t \in Specs[q] :
                               s.kind = t.kind => s.path \o s.name # t.path \o t.name
  <1>1. ASSUME NEW k \in Keys, NEW q \in Keys, NEW s \in Specs[k], NEW t \in Specs[q]
        PROVE  Build(s).path = Build(t).path
                 <=> s.kind = t.kind /\ s.path \o s.name = t.path \o t.name
    <2>1. s \in KongFileSpec /\ t \in KongFileSpec
      BY SpecsAssumption
    <2> QED
      BY <2>1, SamePath
  <1>2. PathsApart <=> \A k, q \in Keys : k # q =>
                          \A s \in Specs[k], t \in Specs[q] : Build(s).path # Build(t).path
    BY DEF PathsApart, PathsOf
  <1>3. ASSUME NEW k \in Keys, NEW q \in Keys
        PROVE  (\A s \in Specs[k], t \in Specs[q] : Build(s).path # Build(t).path)
                 <=> \A s \in Specs[k], t \in Specs[q] :
                        s.kind = t.kind => s.path \o s.name # t.path \o t.name
    <2>1. ASSUME NEW s \in Specs[k], NEW t \in Specs[q]
          PROVE  Build(s).path # Build(t).path
                   <=> (s.kind = t.kind => s.path \o s.name # t.path \o t.name)
      BY <1>1
    <2> QED
      BY <2>1, Zenon
  <1> QED
    BY <1>2, <1>3, Zenon

-----------------------------------------------------------------------------
(* The leader's worker. *)

\* It works on a file of the key it has taken.
WorkerOwn ==
    worker.phase \in {"put", "exists", "delete", "status"} =>
       \E s \in Specs[worker.key] : worker.file = Build(s)

LEMMA WorkerOwnStep ==
    ASSUME TypeOK, SpecsKept, WorkerOwn, [Next]_vars
    PROVE  WorkerOwn'
  <1>1. ASSUME NEW k \in Keys, Reconcile(k)
        PROVE  WorkerOwn'
    <2>1. cached(k) # NoObj => cached(k).spec \in Specs[k]
      BY VersionType DEF TypeOK, SpecsKept, LogSpecs, cached
    <2>2. Exists(k) => store[k] \in Specs[k]
      BY DEF SpecsKept, StoreSpecs
    <2>3. \/ worker' = worker
          \/ worker'.key = k /\ \E s \in Specs[k] : worker'.file = Build(s)
      BY <1>1, <2>1, <2>2
      DEF Reconcile, ReconcileMissing, ReconcileTerminating, ReconcileForeign, ReconcileValidated,
          ReconcilePublish, Living, UpdateObject, ProxyDelete, Call, Forget
    <2> QED
      BY <2>3 DEF WorkerOwn
  <1>2. CASE PutSucceeds \/ FileExists
    BY <1>2, PhaseType DEF PutSucceeds, FileExists, WorkerOwn, Reconciling
  <1>3. CASE UNCHANGED worker
    BY <1>3 DEF WorkerOwn
  <1>4. CASE worker' = Idle
    BY <1>4 DEF WorkerOwn, Idle
  <1> QED
    BY <1>1, <1>2, <1>3, <1>4
    DEF Next, User, Deliver, Resync, DeleteSucceeds, FileMissing, KongFails, StatusAccepted,
        StatusConflict, StatusFails, Requeue, Crash, Restart, Late, vars

\* The version for which it asks about, or deletes, a file is of an object that goes.
WorkerLeaves ==
    worker.phase \in {"exists", "delete"} =>
       /\ worker.ver \in DOMAIN log[worker.key]
       /\ Left(log[worker.key][worker.ver])

LEMMA WorkerLeavesStays ==
    ASSUME TypeOK, WorkerLeaves, Grows, UNCHANGED worker
    PROVE  WorkerLeaves'
  BY PhaseType DEF WorkerLeaves, Grows, Left, Reconciling

LEMMA WorkerLeavesStep ==
    ASSUME TypeOK, WorkerLeaves, [Next]_vars
    PROVE  WorkerLeaves'
  <1>1. Grows
    BY NextGrows
  <1>2. ASSUME NEW k \in Keys, Reconcile(k)
        PROVE  WorkerLeaves'
    <2>1. seen[k] \in DOMAIN log[k] /\ UNCHANGED log /\ worker = Idle
      BY <1>2, VersionType DEF TypeOK, Reconcile
    <2>2. CASE worker' = Idle \/ worker'.phase = "put"
      BY <2>2 DEF WorkerLeaves, Idle
    <2>3. CASE worker' # Idle /\ (ReconcileMissing(k) \/ ReconcileTerminating(k))
      <3>1. worker'.key = k /\ worker'.ver = seen[k]
        BY <2>1, <2>3 DEF ReconcileMissing, ReconcileTerminating, ProxyDelete, Call, Forget
      <3>2. Left(log[k][seen[k]])
        BY <2>3 DEF ReconcileMissing, ReconcileTerminating, cached, Left
      <3> QED
        BY <2>1, <3>1, <3>2 DEF WorkerLeaves, Left
    <2> QED
      BY <1>2, <2>1, <2>2, <2>3
      DEF Reconcile, ReconcileForeign, ReconcileValidated, ReconcilePublish, UpdateObject, Call,
          Forget
  <1>3. CASE FileExists
    BY <1>3, PhaseType DEF FileExists, WorkerLeaves, Reconciling
  <1>4. CASE PutSucceeds
    BY <1>4, PhaseType DEF PutSucceeds, WorkerLeaves, Reconciling
  <1>5. CASE UNCHANGED worker
    BY <1>1, <1>5, WorkerLeavesStays
  <1>6. CASE worker' = Idle
    BY <1>6 DEF WorkerLeaves, Idle
  <1> QED
    BY <1>2, <1>3, <1>4, <1>5, <1>6
    DEF Next, User, Deliver, Resync, DeleteSucceeds, FileMissing, KongFails, StatusAccepted,
        StatusConflict, StatusFails, Requeue, Crash, Restart, Late, vars

-----------------------------------------------------------------------------
(* The inductive invariant. *)

\* Between the answer to its PUT and that to its status update, the leader knows
\* its file is served, unless something out of order has come between.
PutServed ==
    worker.phase = "status" /\ worker.ver = Len(log[worker.key]) =>
       worker.file \in kong \/ worker.file.path \in overtaken

ServedHInv ==
    /\ HInv
    /\ SpecsKept
    /\ WorkerOwn
    /\ WorkerLeaves
    /\ PutServed
    /\ ServedUnlessOvertaken

LEMMA ServedType ==
    ASSUME ServedHInv
    PROVE  /\ TypeOK /\ PublishInv
           /\ \A k \in Keys : /\ Len(log[k]) \in Nat \ {0}
                              /\ DOMAIN log[k] = 1..Len(log[k])
                              /\ api(k) = log[k][Len(log[k])]
  BY VersionType DEF ServedHInv, HInv, DeleteInv, PublishInv, TypeOK, api

\* What a step in order of the leader changes is no file of a settled object: the
\* worker has read the newest version, and that has nothing left to do.
LEMMA InOrderSpares ==
    ASSUME PathsApart, ServedHInv, Next, ~OutOfOrder, NEW k \in Keys, Settled(k)
    PROVE  Build(api(k).spec).path \notin Changed
  <1> DEFINE p == Build(api(k).spec).path
  <1>1. SUFFICES ASSUME p \in Changed PROVE FALSE
    OBVIOUS
  <1>2. late' = late
    BY DEF OutOfOrder
  <1>3. PICK req \in Pending : Apply(req)
    <2>1. kong' # kong
      BY <1>1 DEF Changed
    <2>2. Abandon(Pending) => \E req \in Pending : Apply(req)
      BY <2>1 DEF Abandon
    <2> QED
      BY <1>2, <2>1, <2>2
      DEF Next, Reconcile, User, Deliver, Resync, PutSucceeds, DeleteSucceeds, FileExists,
          FileMissing, KongFails, StatusAccepted, StatusConflict, StatusFails, Crash, Stop,
          Late, LateArrives
  <1>4. worker.phase \in {"put", "delete"} /\ req.file = worker.file
    BY <1>3 DEF Pending
  <1>5. worker # Idle /\ worker.key \in Keys
    BY <1>4, ServedType, PhaseType DEF Reconciling
  <1>6. req.file.path = p
    BY <1>1, <1>3 DEF Apply, Others, Changed
  <1>7. worker.key = k
    <2>1. api(k).spec \in Specs[k]
      BY ServedType DEF ServedHInv, SpecsKept, LogSpecs, Settled
    <2>2. PICK s \in Specs[worker.key] : worker.file = Build(s)
      BY <1>4 DEF ServedHInv, WorkerOwn
    <2>3. p \in PathsOf(k) /\ p \in PathsOf(worker.key)
      BY <1>4, <1>6, <2>1, <2>2 DEF PathsOf
    <2> QED
      BY <1>5, <2>3 DEF PathsApart
  <1>8. worker.ver \in DOMAIN log[k]
    BY <1>4, <1>7, ServedType DEF PublishInv, WorkerPutsRequested, ServedHInv, WorkerLeaves
  <1>9. /\ log[k][Len(log[k])] # NoObj
        /\ log[k][Len(log[k])].validated
        /\ ~log[k][Len(log[k])].terminating
    <2>1. PICK i \in 1..(Len(log[k]) - 1) : \A j \in i..Len(log[k]) :
             /\ log[k][j] # NoObj
             /\ ~log[k][j].terminating
             /\ log[k][j].spec = api(k).spec
             /\ log[k][j].validated <=> j > i
      BY DEF Settled
    <2>2. Len(log[k]) \in i..Len(log[k]) /\ Len(log[k]) > i
      BY <2>1, ServedType
    <2> QED
      BY <2>1, <2>2
  <1>10. worker.ver = Len(log[k])
    <2>1. ~(Len(log[k]) > worker.ver)
      BY <1>5, <1>7, <1>9, ServedType DEF OutOfOrder, Outdated
    <2> QED
      BY <1>8, <2>1, ServedType
  <1> QED
    BY <1>4, <1>7, <1>9, <1>10, ServedType
    DEF PublishInv, WorkerPutsRequested, Requested, ServedHInv, WorkerLeaves, Left

\* An object is settled because it was before, or because this step validates it.
LEMMA NewlySettled ==
    ASSUME ServedHInv, Grows, NEW k \in Keys, Settled(k)',
           Len(log'[k]) \in {Len(log[k]), Len(log[k]) + 1},
           log'[k] \in Seq(Object \cup {NoObj})
    PROVE  \/ Settled(k) /\ api(k)'.spec = api(k).spec
           \/ BecomesValidated(k)
  <1> DEFINE n == Len(log[k])
             m == Len(log'[k])
  <1>1. n \in Nat \ {0} /\ DOMAIN log[k] = 1..n /\ api(k) = log[k][n]
    BY ServedType
  <1>2. \A j \in 1..n : log'[k][j] = log[k][j]
    BY <1>1 DEF Grows
  <1>3. api(k)' = log'[k][m] /\ m \in {n, n + 1}
    BY DEF api
  <1>4. PICK i \in 1..(m - 1) : \A j \in i..m :
           /\ log'[k][j] # NoObj
           /\ ~log'[k][j].terminating
           /\ log'[k][j].spec = api(k)'.spec
           /\ log'[k][j].validated <=> j > i
    BY DEF Settled
  <1> HIDE DEF n, m
  <1>5. i \in 1..n /\ n \in i..m /\ m \in i..m /\ m > i
    <2>1. n \in Nat \ {0} /\ m \in {n, n + 1}
      BY <1>1, <1>3
    <2>2. i \in Nat /\ 1 <= i /\ i <= m - 1
      BY <2>1
    <2> QED
      BY <2>1, <2>2
  <1>6. CASE i < n
    <2>1. log[k][n] = log'[k][n]
      BY <1>1, <1>2
    <2>2. api(k).spec = api(k)'.spec /\ api(k) # NoObj
      BY <1>1, <1>4, <1>5, <2>1
    <2>3. ASSUME NEW j \in i..n
          PROVE  /\ log[k][j] # NoObj
                 /\ ~log[k][j].terminating
                 /\ log[k][j].spec = api(k).spec
                 /\ log[k][j].validated <=> j > i
      <3>1. j \in i..m /\ j \in 1..n
        BY <1>1, <1>3, <1>5
      <3> QED
        BY <1>2, <1>4, <2>2, <3>1
    <2>4. i \in 1..(n - 1)
      BY <1>1, <1>5, <1>6
    <2> QED
      BY <2>2, <2>3, <2>4 DEF Settled, n
  <1>7. CASE i = n
    <2>1. log'[k][n] # NoObj /\ ~log'[k][n].validated
      BY <1>4, <1>5, <1>7
    <2>2. log'[k][m] # NoObj /\ log'[k][m].validated
      BY <1>4, <1>5
    <2>3. log'[k][n] = log[k][n]
      BY <1>1, <1>2
    <2> QED
      BY <1>1, <1>3, <2>1, <2>2, <2>3 DEF BecomesValidated
  <1> QED
    BY <1>1, <1>5, <1>6, <1>7

\* A settled object stays served, or overtaken, through a step of the leader.
LEMMA LeaderServes ==
    ASSUME PathsApart, ServedHInv, Next, Leads
    PROVE  ServedUnlessOvertaken'
  <1>1. Grows /\ SharedInv'
    BY SharedStep DEF ServedHInv, HInv
  <1> SUFFICES ASSUME NEW k \in Keys, Settled(k)'
               PROVE  LET f == Build(api(k)'.spec) IN f \in kong' \/ f.path \in overtaken'
    BY DEF ServedUnlessOvertaken
  <1>2. \/ Settled(k) /\ api(k)'.spec = api(k).spec
        \/ BecomesValidated(k)
    BY <1>1, OneVersion, ServedType, NewlySettled DEF SharedInv
  <1>3. CASE Settled(k) /\ api(k)'.spec = api(k).spec
    <2> DEFINE f == Build(api(k).spec)
    <2>1. f \in kong \/ f.path \in overtaken
      BY <1>3 DEF ServedHInv, ServedUnlessOvertaken
    <2>2. f \in kong /\ f \notin kong' => f.path \in Changed
      BY DEF Changed
    <2>3. CASE OutOfOrder
      BY <1>3, <2>1, <2>2, <2>3 DEF Leads, InOrder
    <2>4. CASE ~OutOfOrder
      <3>1. f.path \notin Changed
        BY <1>3, <2>4, InOrderSpares
      <3> QED
        BY <1>3, <2>1, <2>2, <2>4, <3>1 DEF Leads, InOrder
    <2> QED
      BY <2>3, <2>4
  <1>4. CASE BecomesValidated(k)
    <2>1. /\ worker.phase = "status" /\ worker.key = k
          /\ StatusAccepted \/ StatusFails \/ Stop
          /\ Build(api(k)'.spec) = worker.file
      BY <1>4, ServedType, ValidationStep
    <2>2. log' # log
      BY <1>4 DEF BecomesValidated, api
    <2>3. worker.ver = Len(log[worker.key])
      BY <2>1, <2>2 DEF StatusAccepted, StatusFails, Stop, StatusUpdate
    <2>4. worker.file \in kong \/ worker.file.path \in overtaken
      BY <2>1, <2>3 DEF ServedHInv, PutServed
    <2>5. kong' = kong
      BY <2>1 DEF StatusAccepted, StatusFails, Stop, Abandon, Pending
    <2>6. Changed = {}
      BY <2>5 DEF Changed
    <2> QED
      BY <2>1, <2>4, <2>5, <2>6 DEF Leads, InOrder
  <1> QED
    BY <1>2, <1>3, <1>4

\* The leader's own steps keep what it knows of its file.
LEMMA LeaderKnows ==
    ASSUME ServedHInv, Next, Leads
    PROVE  PutServed'
  <1> SUFFICES ASSUME worker'.phase = "status", worker'.ver = Len(log'[worker'.key])
               PROVE  worker'.file \in kong' \/ worker'.file.path \in overtaken'
    BY DEF PutServed
  <1>1. CASE PutSucceeds
    <2>1. PICK req \in Pending : Apply(req)
      BY <1>1 DEF PutSucceeds
    <2>2. worker'.file = worker.file /\ req.method = "PUT" /\ req.file = worker.file
      BY <1>1, <2>1, ServedType, PhaseType DEF PutSucceeds, Pending, Reconciling
    <2> QED
      BY <2>1, <2>2 DEF Apply
  <1>2. CASE UNCHANGED worker
    <2>1. worker.key \in Keys
      BY <1>2, ServedType, PhaseType DEF Reconciling
    <2>2. worker.ver = Len(log[worker.key])
      <3>1. worker.ver \in 1..Len(log[worker.key]) /\ Len(log[worker.key]) \in Nat
        BY <1>2, <2>1, ServedType DEF PublishInv, WorkerPutsRequested
      <3>2. Len(log'[worker.key]) \in {Len(log[worker.key]), Len(log[worker.key]) + 1}
        BY <2>1, OneVersion, ServedType
      <3> QED
        BY <1>2, <3>1, <3>2
    <2>3. worker.file \in kong \/ worker.file.path \in overtaken
      BY <1>2, <2>2 DEF ServedHInv, PutServed
    <2>4. worker.file \in kong /\ worker.file \notin kong' => worker.file.path \in Changed
      BY DEF Changed
    <2>5. kong' = kong \/ late' # late
      <3>1. Pending = {}
        BY <1>2 DEF Pending
      <3> QED
        BY <1>2, <3>1
        DEF Next, Reconcile, User, Deliver, Resync, PutSucceeds, DeleteSucceeds, FileExists,
            FileMissing, KongFails, StatusAccepted, StatusConflict, StatusFails, Crash, Stop,
            Abandon, Late, LateArrives
    <2>6. kong' = kong => Changed = {}
      BY DEF Changed
    <2> QED
      BY <1>2, <2>3, <2>4, <2>5, <2>6 DEF Leads, InOrder, OutOfOrder
  <1>3. CASE worker' = Idle \/ FileExists
    BY <1>3, ServedType, PhaseType DEF Idle, FileExists, Reconciling
  <1>4. CASE \E k \in Keys : Reconcile(k)
    BY <1>4 DEF Reconcile, ReconcileMissing, ReconcileTerminating, ReconcileForeign,
                ReconcileValidated, ReconcilePublish, UpdateObject, ProxyDelete, Call, Forget, Idle
  <1> QED
    BY <1>1, <1>2, <1>3, <1>4
    DEF Next, User, Deliver, Resync, DeleteSucceeds, FileMissing, KongFails, StatusAccepted,
        StatusConflict, StatusFails, Requeue, Crash, Restart, Late

\* Whatever the deposed process changes, it overtakes.
LEMMA DeposedServes ==
    ASSUME ServedHInv, DeposedStep \/ DeposedExits
    PROVE  ServedUnlessOvertaken' /\ PutServed'
  <1>1. D!Next \/ D!Stop
    BY DeposedStepIsNext, SameStop DEF DeposedExits
  <1>2. Grows /\ SharedInv'
    BY <1>1, DeposedShares DEF ServedHInv
  <1>3. ASSUME NEW k \in Keys PROVE Len(log'[k]) \in {Len(log[k]), Len(log[k]) + 1}
    BY <1>1, D!OneVersion, SameAssumptions DEF ServedHInv, HInv, D!DeleteInv, D!PublishInv
  <1>4. /\ overtaken \cup Changed \subseteq overtaken'
        /\ log' # log => oldWorker.file.path \in overtaken'
    BY DEF DeposedStep, DeposedExits, Overtakes
  <1>5. ASSUME NEW f, f \in kong \/ f.path \in overtaken
        PROVE  f \in kong' \/ f.path \in overtaken'
    BY <1>4, <1>5 DEF Changed
  <1>6. ServedUnlessOvertaken'
    <2> SUFFICES ASSUME NEW k \in Keys, Settled(k)'
                 PROVE  LET f == Build(api(k)'.spec) IN f \in kong' \/ f.path \in overtaken'
      BY DEF ServedUnlessOvertaken
    <2>1. \/ Settled(k) /\ api(k)'.spec = api(k).spec
          \/ BecomesValidated(k)
      BY <1>2, <1>3, NewlySettled DEF SharedInv
    <2>2. CASE Settled(k) /\ api(k)'.spec = api(k).spec
      BY <1>5, <2>2 DEF ServedHInv, ServedUnlessOvertaken
    <2>3. CASE BecomesValidated(k)
      <3>1. log' # log
        BY <2>3 DEF BecomesValidated, api
      <3>2. D!BecomesValidated(k)
        BY <2>3 DEF BecomesValidated, D!BecomesValidated, api, D!api
      <3>3. D!Build((D!api(k))'.spec) = oldWorker.file
        BY <1>1, <3>2, D!ValidationStep, SameAssumptions DEF ServedHInv, HInv, D!DeleteInv
      <3>4. Build(api(k)'.spec) = oldWorker.file
        BY <3>3 DEF api, D!api, Build, D!Build, Folder, D!Folder, Kind, D!Kind,
                    EmptyPath, D!EmptyPath
      <3> QED
        BY <1>4, <3>1, <3>4
    <2> QED
      BY <2>1, <2>2, <2>3
  <1>7. PutServed'
    <2>1. worker' = worker
      BY DEF DeposedStep, DeposedExits
    <2> SUFFICES ASSUME worker.phase = "status", worker.ver = Len(log'[worker.key])
                 PROVE  worker.file \in kong' \/ worker.file.path \in overtaken'
      BY <2>1 DEF PutServed
    <2>2. worker.key \in Keys /\ worker.ver \in 1..Len(log[worker.key])
      BY ServedType, PhaseType DEF Reconciling, PublishInv, WorkerPutsRequested
    <2>3. worker.ver = Len(log[worker.key])
      BY <1>3, <2>2, ServedType
    <2> QED
      BY <1>5, <2>3 DEF ServedHInv, PutServed
  <1> QED
    BY <1>6, <1>7

LEMMA ServedHStep ==
    ASSUME PathsApart, ServedHInv, [HandoverNext]_allVars
    PROVE  ServedHInv'
  <1>1. HInv'
    BY HandoverStep DEF ServedHInv
  <1>2. CASE Next /\ Leads
    BY <1>1, <1>2, LeaderServes, LeaderKnows, LogSpecsStep, StoreSpecsStep, WorkerOwnStep,
       WorkerLeavesStep, ServedType DEF ServedHInv, SpecsKept
  <1>3. CASE DeposedStep \/ DeposedExits
    <2>1. D!Next \/ D!Stop
      BY <1>3, DeposedStepIsNext, SameStop DEF DeposedExits
    <2>2. Grows /\ UNCHANGED <<store, worker>>
      BY <1>3, <2>1, DeposedShares DEF ServedHInv, DeposedStep, DeposedExits
    <2>3. LogSpecs'
      <3>1. D!TypeOK /\ D!LogSpecs
        BY DEF ServedHInv, HInv, D!DeleteInv, D!PublishInv, SpecsKept, LogSpecs, D!LogSpecs
      <3>2. (D!LogSpecs)'
        BY <2>1, <3>1, D!LogSpecsStep, SameAssumptions
      <3> QED
        BY <3>2 DEF LogSpecs, D!LogSpecs
    <2>4. StoreSpecs' /\ WorkerOwn'
      BY <2>2 DEF ServedHInv, SpecsKept, StoreSpecs, Exists, WorkerOwn
    <2>5. WorkerLeaves'
      BY <2>2, WorkerLeavesStays, ServedType DEF ServedHInv
    <2> QED
      BY <1>1, <1>3, <2>3, <2>4, <2>5, DeposedServes DEF ServedHInv, SpecsKept
  <1>4. CASE Depose
    <2>1. UNCHANGED <<log, kong, overtaken>> /\ worker' = Idle
      BY <1>4 DEF Depose, Restart
    <2>2. SpecsKept' /\ WorkerOwn' /\ WorkerLeaves' /\ PutServed'
      BY <1>4, <2>1 DEF Depose, Restart, ServedHInv, SpecsKept, LogSpecs, StoreSpecs, Exists,
                        WorkerOwn, WorkerLeaves, PutServed, Idle
    <2>3. ServedUnlessOvertaken'
      BY <2>1 DEF ServedHInv, ServedUnlessOvertaken, Settled, api
    <2> QED
      BY <1>1, <2>2, <2>3 DEF ServedHInv
  <1>5. CASE UNCHANGED allVars
    BY <1>1, <1>5
    DEF allVars, vars, ServedHInv, SpecsKept, LogSpecs, StoreSpecs, Exists, WorkerOwn,
        WorkerLeaves, Left, PutServed, ServedUnlessOvertaken, Settled, api
  <1> QED
    BY <1>2, <1>3, <1>4, <1>5 DEF HandoverNext

\* A validated KongFile is served as it is unless the last change of its file was
\* a late request's, a deposed leader's, or made for a version read out of date.
THEOREM ServedUnlessOvertakenHolds ==
    ASSUME PathsApart
    PROVE  HandoverSpec => []ServedUnlessOvertaken
<1>1. HandoverInit => ServedHInv
  <2> SUFFICES ASSUME HandoverInit PROVE ServedHInv
    OBVIOUS
  <2>1. \A k \in Keys : log[k] = <<NoObj>> /\ store[k] = NoSpec
    BY DEF HandoverInit, Init, KubeInit, StoreInit
  <2>2. worker = Idle
    BY DEF HandoverInit, Init
  <2>3. SpecsKept /\ WorkerOwn /\ WorkerLeaves /\ PutServed
    BY <2>1, <2>2 DEF SpecsKept, LogSpecs, StoreSpecs, Exists, WorkerOwn, WorkerLeaves, PutServed,
                      Idle
  <2>4. ServedUnlessOvertaken
    BY <2>1 DEF ServedUnlessOvertaken, Settled, api
  <2> QED
    BY <2>3, <2>4, HandoverInitInv DEF ServedHInv
<1>2. ServedHInv /\ [HandoverNext]_allVars => ServedHInv'
  BY ServedHStep
<1>3. ServedHInv => ServedUnlessOvertaken
  BY DEF ServedHInv
<1> QED
  BY <1>1, <1>2, <1>3, PTL DEF HandoverSpec

-----------------------------------------------------------------------------
(* The leader forgets nothing, whatever the deposed process does.              *)

\* What the other process writes the leader's informer has still to tell of.
LEMMA OthersRemember ==
    ASSUME TypeOK, NeverForgotten, Grows, log' \in [Keys -> Seq(Object \cup {NoObj})],
           UNCHANGED <<seen, dirty, worker>>
    PROVE  NeverForgotten'
  <1> SUFFICES ASSUME NEW k \in Keys, Ours(api(k))', ~api(k)'.validated,
                      ~(seen[k] < Len(log'[k]))
               PROVE  k \in dirty \/ Busy(k)
    BY DEF NeverForgotten, Busy
  <1>1. /\ seen[k] \in 1..Len(log[k])
        /\ Len(log[k]) \in Nat \ {0}
        /\ DOMAIN log[k] = 1..Len(log[k])
    BY VersionType DEF TypeOK
  <1>2. log'[k] \in Seq(Object \cup {NoObj}) /\ Len(log'[k]) \in Nat
    OBVIOUS
  <1>3. Len(log[k]) \in 1..Len(log'[k]) /\ log'[k][Len(log[k])] = api(k)
    <2>1. Len(log[k]) \in DOMAIN log[k]
      BY <1>1
    <2>2. Len(log[k]) \in DOMAIN log'[k] /\ log'[k][Len(log[k])] = api(k)
      BY <2>1 DEF Grows, api
    <2>3. DOMAIN log'[k] = 1..Len(log'[k])
      BY <1>2
    <2> QED
      BY <2>2, <2>3
  <1>4. Len(log'[k]) = Len(log[k]) /\ seen[k] = Len(log[k])
    BY <1>1, <1>2, <1>3
  <1>5. Ours(api(k)) /\ ~api(k).validated
    BY <1>3, <1>4 DEF api, Ours, MatchesControllerClassName
  <1> QED
    BY <1>1, <1>4, <1>5 DEF NeverForgotten

LEMMA NeverForgottenHStep ==
    ASSUME HInv, NeverForgotten, [HandoverNext]_allVars
    PROVE  NeverForgotten'
  <1>1. TypeOK /\ TypeOK'
    BY HandoverStep DEF HInv, DeleteInv, PublishInv
  <1>2. CASE Next \/ UNCHANGED allVars
    BY <1>1, <1>2, NeverForgottenStep DEF allVars
  <1>3. CASE Depose
    <2> SUFFICES ASSUME NEW k \in Keys, Ours(api(k))', ~(seen'[k] < Len(log'[k]))
                 PROVE  k \in dirty'
      BY DEF NeverForgotten
    <2>1. log' = log /\ seen'[k] \in 1..Len(log[k]) /\ Len(log[k]) \in Nat
      BY <1>1, <1>3, VersionType DEF Depose, TypeOK, KubeTypeOK
    <2>2. log[k][seen'[k]] = api(k)'
      BY <2>1 DEF api
    <2> QED
      BY <1>3, <2>2, RestartRemembers DEF Depose
  <1>4. CASE DeposedStep \/ DeposedExits
    <2>1. D!Next \/ D!Stop
      BY <1>4, DeposedStepIsNext, SameStop DEF DeposedExits
    <2>2. Grows
      BY <2>1, DeposedShares
    <2>3. UNCHANGED <<seen, dirty, worker>>
      BY <1>4 DEF DeposedStep, DeposedExits
    <2> QED
      BY <1>1, <2>2, <2>3, OthersRemember DEF TypeOK, KubeTypeOK
  <1> QED
    BY <1>2, <1>3, <1>4 DEF HandoverNext

\* With a deposed leader at work beside it, validating and being refused, the leader
\* still has every object of our class that is not validated on its list.
THEOREM LeaderNeverForgets == HandoverSpec => []NeverForgotten
<1>1. HandoverInit => NeverForgotten
  BY NeverForgottenInit DEF HandoverInit
<1>2. HInv /\ NeverForgotten /\ [HandoverNext]_allVars => NeverForgotten'
  BY NeverForgottenHStep
<1> QED
  BY <1>1, <1>2, HandoverInvariant, PTL DEF HandoverSpec
=============================================================================
