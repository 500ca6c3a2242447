-------------------------- MODULE KongFileController --------------------------
(***************************************************************************)
(* KongFileReconciler.Reconcile and the proxy it drives                    *)
(* (internal/controllers/developer, internal/dataplane/proxy), composed    *)
(* with the API server and informer (KubeApi), the proxy's cache           *)
(* (CacheStores), Kong's Admin API (KongAdmin) and the workqueue.          *)
(*                                                                         *)
(* One worker takes keys from the workqueue.  Between two remote calls a   *)
(* reconcile touches only the worker's own state and the informer's cache, *)
(* so each stretch of it is one action: Reconcile(k) runs from r.Get to    *)
(* the first request to Kong, the actions after it run from the answer to  *)
(* the next request or to the return.                                      *)
(***************************************************************************)
EXTENDS KubeApi, CacheStores, KongAdmin

CONSTANTS Faults,      \* which of the failures below happen in this model
          MaxCrashes   \* how often the controller process is replaced

ASSUME ControllerAssumption ==
    /\ Faults \subseteq {"kong", "api", "skew", "stale"}
    /\ MaxCrashes \in Nat

VARIABLES dirty,       \* the keys in the workqueue
          worker,      \* the reconcile in progress, or Idle
          crashes

vars == <<log, seen, store, kong, late, dirty, worker, crashes>>

Idle == [phase |-> "idle"]

\* A reconcile of version ver of key, waiting for the answer to a PUT, GET or
\* DELETE of file ("put", "exists", "delete") or to the status update ("status").
Reconciling == [phase: {"put", "exists", "delete", "status"},
                key: Keys, ver: Nat, file: File]

TypeOK ==
    /\ KubeTypeOK
    /\ StoreTypeOK
    /\ KongTypeOK
    /\ dirty \subseteq Keys
    /\ worker \in Reconciling \cup {Idle}
    /\ crashes \in Nat

Init ==
    /\ KubeInit
    /\ StoreInit
    /\ KongInit
    /\ dirty = {}
    /\ worker = Idle
    /\ crashes = 0

-----------------------------------------------------------------------------
\* The workqueue.

\* The reconcile ends without an error and asks for nothing more.
Forget(k) ==
    /\ dirty' = dirty \ {k}
    /\ UNCHANGED worker

\* Seeded bug: the error is logged, and not returned.
RequeueNever ==
    /\ worker' = Idle
    /\ UNCHANGED dirty

\* The reconcile returns an error or Requeue: true; the key comes back later.
Requeue ==
    /\ dirty' = dirty \cup {worker.key}
    /\ worker' = Idle

\* The services of kong: a request about file in the reconcile of k.  Without a
\* path it fails at once and the key, an error having been returned, stays.
Call(phase, k, file) ==
    IF isEmptyString(file.path)
    THEN UNCHANGED <<dirty, worker>>
    ELSE /\ worker' = [phase |-> phase, key |-> k, ver |-> seen[k], file |-> file]
         /\ dirty' = dirty \ {k}

-----------------------------------------------------------------------------
\* Seeded bug: a KongFile that is cached keeps the path it was published at, so that
\* an edit that moves it leaves no file behind.
UpdateObjectKeepsPath(k, spec) ==
    /\ StoreUpdate(k, spec)
    /\ Call("put", k, [Build(spec) EXCEPT !.path = IF Exists(k) THEN Build(store[k]).path ELSE @])

\* The proxy: the cache first, then Kong.  The cache keeps the change whatever
\* becomes of the request.
UpdateObject(k, spec) ==
    /\ StoreUpdate(k, spec)
    /\ Call("put", k, Build(spec))

\* Seeded bug: the cache keeps the object.
ProxyDeleteKeepsCache(k, spec) ==
    /\ UNCHANGED store
    /\ Call("delete", k, Build(spec))

ProxyDelete(k, spec) ==
    /\ StoreDelete(k)
    /\ Call("delete", k, Build(spec))

-----------------------------------------------------------------------------
\* Reconcile, from r.Get on.

\* Seeded bug: only the cache entry goes.
ReconcileMissingUncaches(k) ==
    /\ cached(k) = NoObj
    /\ Forget(k)
    /\ StoreDelete(k)

\* Seeded bug: the deletion timestamp is not looked at.
ReconcileTerminatingAny(k) ==
    /\ cached(k) # NoObj
    /\ Call("exists", k, Build(cached(k).spec))
    /\ UNCHANGED store

\* r.Get finds nothing: EnsureProxyDeleteObject.
ReconcileMissing(k) ==
    /\ cached(k) = NoObj
    /\ IF Exists(k)
       THEN ProxyDelete(k, store[k])
       ELSE Forget(k) /\ UNCHANGED store

\* The object is being deleted and its deletion timestamp has passed: first ask
\* Kong whether it has the file.  The class is not looked at.
ReconcileTerminating(k) ==
    /\ cached(k) # NoObj
    /\ cached(k).terminating
    /\ Call("exists", k, Build(cached(k).spec))
    /\ UNCHANGED store

\* The object is not being deleted, or by the clock of this process not yet.
Living(k) ==
    /\ cached(k) # NoObj
    /\ cached(k).terminating => "skew" \in Faults

\* Another controller's object: nothing is done, cached or not.
ReconcileForeign(k) ==
    /\ Living(k)
    /\ ~MatchesControllerClassName(cached(k))
    /\ Forget(k)
    /\ UNCHANGED store

\* Our object, published before.
ReconcileValidated(k) ==
    /\ Living(k)
    /\ MatchesControllerClassName(cached(k))
    /\ cached(k).validated
    /\ Forget(k)
    /\ UNCHANGED store

\* Seeded bug: the class is not looked at.
ReconcilePublishAny(k) ==
    /\ Living(k)
    /\ ~cached(k).validated
    /\ UpdateObject(k, cached(k).spec)

\* Our object, not published yet.
ReconcilePublish(k) ==
    /\ Living(k)
    /\ MatchesControllerClassName(cached(k))
    /\ ~cached(k).validated
    /\ UpdateObject(k, cached(k).spec)

Reconcile(k) ==
    /\ worker = Idle
    /\ k \in dirty
    /\ \/ ReconcileMissing(k)
       \/ ReconcileTerminating(k)
       \/ ReconcileForeign(k)
       \/ ReconcileValidated(k)
       \/ ReconcilePublish(k)
    /\ UNCHANGED <<log, seen, kong, late, crashes>>

-----------------------------------------------------------------------------
\* The answers of Kong.

\* The request the worker waits for that changes Kong's files, if any.
Pending ==
    CASE worker.phase = "put"    -> {[method |-> "PUT", file |-> worker.file]}
      [] worker.phase = "delete" -> {[method |-> "DELETE", file |-> worker.file]}
      [] OTHER                   -> {}

\* The PUT succeeds; the object in hand is marked validated and its status sent.
PutSucceeds ==
    /\ worker.phase = "put"
    /\ \E req \in Pending : Apply(req)
    /\ worker' = [worker EXCEPT !.phase = "status"]
    /\ UNCHANGED <<log, seen, store, late, dirty, crashes>>

\* The DELETE succeeds; Result{Requeue: true}.
DeleteSucceeds ==
    /\ worker.phase = "delete"
    /\ \E req \in Pending : Apply(req)
    /\ Requeue
    /\ UNCHANGED <<log, seen, store, late, crashes>>

\* ObjectExists is true: DeleteObject of the object in hand.
FileExists ==
    /\ worker.phase = "exists"
    /\ Serves(worker.file.path)
    /\ StoreDelete(worker.key)
    /\ worker' = [worker EXCEPT !.phase = "delete"]
    /\ UNCHANGED <<log, seen, kong, late, dirty, crashes>>

\* The 404 comes back as an error, never as (false, nil).
FileMissing ==
    /\ worker.phase = "exists"
    /\ ~Serves(worker.file.path)
    /\ Requeue
    /\ UNCHANGED <<log, seen, store, kong, late, crashes>>

\* Seeded bug: the error of UpdateObject is dropped.
KongFailsUnnoticed ==
    /\ "kong" \in Faults
    /\ worker.phase \in {"put", "exists", "delete"}
    /\ Abandon(Pending)
    /\ IF worker.phase = "put"
       THEN worker' = [worker EXCEPT !.phase = "status"] /\ UNCHANGED dirty
       ELSE Requeue
    /\ UNCHANGED <<log, seen, store, crashes>>

\* client.Do returns an error.
KongFails ==
    /\ "kong" \in Faults
    /\ worker.phase \in {"put", "exists", "delete"}
    /\ Abandon(Pending)
    /\ Requeue
    /\ UNCHANGED <<log, seen, store, crashes>>

-----------------------------------------------------------------------------
\* The answers of the API server to r.Status().Update.

\* Seeded bug: the object is read again before its status is set.
StatusAcceptedLatest ==
    /\ worker.phase = "status"
    /\ StatusUpdate(worker.key, Len(log[worker.key]))
    /\ worker' = Idle
    /\ UNCHANGED <<seen, store, kong, late, dirty, crashes>>

StatusAccepted ==
    /\ worker.phase = "status"
    /\ StatusUpdate(worker.key, worker.ver)
    /\ worker' = Idle
    /\ UNCHANGED <<seen, store, kong, late, dirty, crashes>>

\* A conflict: the object has been written or deleted since it was read.
StatusConflict ==
    /\ worker.phase = "status"
    /\ worker.ver # Len(log[worker.key])
    /\ Requeue
    /\ UNCHANGED <<log, seen, store, kong, late, crashes>>

\* Any other error; the update may have been made all the same.
StatusFails ==
    /\ "api" \in Faults
    /\ worker.phase = "status"
    /\ UNCHANGED log \/ StatusUpdate(worker.key, worker.ver)
    /\ Requeue
    /\ UNCHANGED <<seen, store, kong, late, crashes>>

-----------------------------------------------------------------------------
\* A process starts to lead with an empty cache and an informer that lists the
\* objects (from an API server that may lag behind) and gets a create event for
\* each that exists.
Restart ==
    /\ worker' = Idle
    /\ store' = [k \in Keys |-> NoSpec]
    /\ seen' \in [Keys -> UNION {DOMAIN log[k] : k \in Keys}]
    /\ \A k \in Keys : IF "stale" \in Faults THEN seen'[k] \in DOMAIN log[k]
                                            ELSE seen'[k] = Len(log[k])
    /\ dirty' = {k \in Keys : log[k][seen'[k]] # NoObj /\ FilterFunc(log[k][seen'[k]])}

\* The process ends, whatever its worker waits for: a request to Kong, or a
\* status update that the API server may or may not have made.
Stop ==
    /\ Abandon(Pending)
    /\ \/ UNCHANGED log
       \/ worker.phase = "status" /\ StatusUpdate(worker.key, worker.ver)

\* The process is replaced: it crashes or is rolled, and ends before the next leads.
Crash ==
    /\ crashes < MaxCrashes
    /\ crashes' = crashes + 1
    /\ Stop
    /\ Restart

-----------------------------------------------------------------------------
\* The environment of the controller.

User(k) ==
    /\ UserWrites(k)
    /\ UNCHANGED <<seen, store, kong, late, dirty, worker, crashes>>

\* The informer moves on and hands the event to the filter and the workqueue.
Deliver(k) ==
    /\ \E n \in DOMAIN log[k] : Observe(k, n)
    /\ dirty' = IF Passes(cached(k), log[k][seen'[k]]) THEN dirty \cup {k} ELSE dirty
    /\ UNCHANGED <<log, store, kong, late, worker, crashes>>

\* Every SyncPeriod the informer repeats what it has as an update event.
Resync(k) ==
    /\ "resync" \in UserOps
    /\ cached(k) # NoObj
    /\ UpdateFunc(cached(k), cached(k))
    /\ dirty' = dirty \cup {k}
    /\ UNCHANGED <<log, seen, store, kong, late, worker, crashes>>

Late ==
    /\ LateArrives
    /\ UNCHANGED <<log, seen, store, dirty, worker, crashes>>

-----------------------------------------------------------------------------
Next ==
    \/ \E k \in Keys : Reconcile(k) \/ User(k) \/ Deliver(k) \/ Resync(k)
    \/ PutSucceeds \/ DeleteSucceeds \/ FileExists \/ FileMissing \/ KongFails
    \/ StatusAccepted \/ StatusConflict \/ StatusFails
    \/ Crash \/ Late

Spec == Init /\ [][Next]_vars

\* Every call returns, with an answer or an error.
Answered ==
    PutSucceeds \/ DeleteSucceeds \/ FileExists \/ FileMissing \/ KongFails
    \/ StatusAccepted \/ StatusConflict \/ StatusFails

\* The informer keeps reading; the workqueue is first in, first out and hands
\* out every key in it; every call returns; and a call made again and again
\* succeeds once, so no key is retried for ever because of lost messages.
Fairness ==
    /\ WF_vars(Answered)
    /\ \A k \in Keys :
          /\ WF_vars(Deliver(k))
          /\ SF_vars(Reconcile(k))
          /\ SF_vars(worker # Idle /\ worker.key = k /\ PutSucceeds)
          /\ SF_vars(worker # Idle /\ worker.key = k /\ DeleteSucceeds)
          /\ SF_vars(worker # Idle /\ worker.key = k /\ StatusAccepted)

FairSpec == Spec /\ Fairness

-----------------------------------------------------------------------------
\* Safety.

Ours(obj) == obj # NoObj /\ MatchesControllerClassName(obj)

\* f is the file of the i-th version of k, a version of our class still to be published.
Requested(k, i, f) ==
    /\ Ours(log[k][i])
    /\ ~log[k][i].validated
    /\ Build(log[k][i].spec) = f

\* Some version of some KongFile of our class asks for f.
Asked(f) == \E k \in Keys : \E i \in DOMAIN log[k] : Requested(k, i, f)

\* Every file the portal serves is, path and contents together, the file of a
\* version that some KongFile of our class had before it was validated: crashes,
\* lost and late requests, stale reads and changes of class notwithstanding.
PublishedWasRequested ==
    \A f \in kong : Asked(f)

Left(obj) == obj = NoObj \/ obj.terminating

\* Some KongFile had a file at this path, then or later, when it was deleted.
Deleted(path) ==
    \E k \in Keys : \E i \in DOMAIN log[k] : \E j \in 1..i :
       /\ log[k][j] # NoObj
       /\ Build(log[k][j].spec).path = path
       /\ Left(log[k][i])

Promise == INSTANCE PortalPublication
              WITH asked  <- {f \in File : Asked(f)},
                   gone   <- {path \in {f.path : f \in File} : Deleted(path)},
                   portal <- kong

\* The controller keeps the promise of PortalPublication: the portal changes by
\* files asked for and by files of deleted KongFiles, one at a time, and by no
\* mixture of one version's path with another's contents.
KeepsPromise == Promise!Spec

BecomesValidated(k) ==
    /\ api(k) # NoObj /\ ~api(k).validated
    /\ api(k)' # NoObj /\ api(k)'.validated

\* status.validated is set only on the spec whose file Kong serves at that
\* moment, and only on an object of our class: an edit or a re-creation between
\* r.Get and r.Status().Update never inherits the validation of what it replaced.
\* (It takes that no abandoned request arrives late: MaxLate = 0.)
ValidatedWhenServed ==
    [][\A k \in Keys : BecomesValidated(k) =>
          Ours(api(k)') /\ Build(api(k)'.spec) \in kong']_vars

\* The same without the proviso: the spec that becomes validated is the one that
\* the reconcile in progress has put.
ValidatedWasPut ==
    [][\A k \in Keys : BecomesValidated(k) =>
          Ours(api(k)') /\ worker # Idle /\ Build(api(k)'.spec) = worker.file]_vars

\* The worker is in the middle of a call for k.
Busy(k) == worker # Idle /\ worker.key = k

PathsOf(k) == {Build(s).path : s \in Specs[k]}

\* Between the reconciles of k the proxy's cache holds k exactly when Kong serves
\* its file, with the same contents: ObjectExistsInCache answers for the proxy.
CacheMirrorsKong ==
    \A k \in Keys :
       ~Busy(k) => {f \in kong : f.path \in PathsOf(k)} =
                   IF Exists(k) THEN {Build(store[k])} ELSE {}

\* An object of our class that is not validated is never forgotten: it is queued, or
\* worked on, or the informer has still to tell of it.  No error, conflict, restart,
\* skipped event or change of class drops it.
NeverForgotten ==
    \A k \in Keys :
       Ours(api(k)) /\ ~api(k).validated =>
          k \in dirty \/ Busy(k) \/ seen[k] < Len(log[k])

\* The queue is empty, the worker waits for work, and the informer knows what is.
AtRest ==
    /\ worker = Idle
    /\ dirty = {}
    /\ \A k \in Keys : seen[k] = Len(log[k])

AlwaysOurs(k) == \A i \in DOMAIN log[k] : log[k][i] = NoObj \/ Ours(log[k][i])

\* When the controller has come to rest, a KongFile that is there has one file in the
\* portal and one that is gone has none, whatever was created, edited, deleted and
\* re-created meanwhile.  (Of a KongFile that has never been another controller's;
\* the file may be that of an earlier spec: LatestPublished.)
RestIsRight ==
    AtRest => \A k \in Keys : AlwaysOurs(k) =>
       LET files == {f \in kong : f.path \in PathsOf(k)}
       IN  /\ api(k) = NoObj => files = {}
           /\ api(k) # NoObj /\ ~api(k).terminating => \E s \in Specs[k] : files = {Build(s)}

-----------------------------------------------------------------------------
\* Liveness.

\* An object of our class that can be published and is left alone is validated.
Wanted(k, s) ==
    /\ Ours(api(k))
    /\ ~api(k).terminating
    /\ api(k).spec = s

EventuallyValidated ==
    \A k \in Keys : \A s \in Specs[k] :
       Wanted(k, s) ~> (~Wanted(k, s) \/ api(k).validated)

\* Once an object that never was another controller's is gone for good, so is its file.
RemovedFromPortal ==
    \A k \in Keys :
       <>[](api(k) = NoObj /\ AlwaysOurs(k)) => <>[](\A f \in kong : f.path \notin PathsOf(k))

\* An object of our class that stays is in the end served as it is.
LatestPublished ==
    \A k \in Keys : \A s \in Specs[k] :
       <>[]Wanted(k, s) => <>[](Build(s) \in kong)

\* Once no deleted object is held back by a finalizer, the controller comes to rest:
\* the requeues after a DELETE and after an error end with what they wait for.
Quiesces ==
    <>[](\A k \in Keys : api(k) # NoObj => ~api(k).terminating) => <>[](worker = Idle /\ dirty = {})

-----------------------------------------------------------------------------
\* What the repository says of the program and the code does not keep.

\* kongfile_controller.go:80-82: of an object without our class the controller is
\* "ensuring it's removed from configuration".
RemovedWhenUnclaimed ==
    \A k \in Keys :
       <>[](api(k) # NoObj /\ ~Ours(api(k))) =>
           <>[](\A f \in kong : f.path \notin PathsOf(k))

\* kongfile_controller.go:75-78: the requeue is there to "wait until the object is no
\* longer present", after which nothing is asked for, and ObjectExists "indicates if"
\* it is (proxy.go:52): so with its file gone a terminating object is left alone, however
\* long another controller's finalizer keeps it.
TerminatingSettles ==
    \A k \in Keys :
       <>[](api(k) # NoObj /\ api(k).terminating) => <>[](k \notin dirty /\ ~Busy(k))

\* utils.go:25: the predicate "filters out objects" of other classes, so no call
\* is made for an object that never was of ours.
CallsOnlyForClaimed ==
    \A k \in Keys : Busy(k) => \E i \in DOMAIN log[k] : Ours(log[k][i])
=============================================================================
