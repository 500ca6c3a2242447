# A verification development for kong-portal-controller

kong-portal-controller is a Kubernetes operator. A user creates a `KongFile`; the
controller publishes it as a file of Kong's developer portal (`PUT /files/<path>`
on the Admin API), marks the object `status.validated`, and withdraws the file
(`DELETE /files/<path>`) when the object goes. This directory holds TLA+ modules
that model the controller, TLC configurations that check them on small instances,
and theorems about them that TLAPS has checked for every value of the constants.

* `tlc -config <run>.cfg <module>` repeats a run, `tlapm <module>.tla` a proof;
  `PROJECT.json` lists both, with the source lines every definition stands for.
* Paths below are relative to `src/`.

## 1. The system

### Parts, state, operations

| Part | Code | State | Operations |
|---|---|---|---|
| KongFile reconciler | `internal/controllers/developer` | none between calls (one worker) | `Reconcile`, `EnsureProxyDeleteObject`, event filter |
| Proxy | `internal/dataplane/proxy` | database mode, version, `configApplied` | `UpdateObject`, `DeleteObject`, `ObjectExists`, `ObjectExistsInCache`, `Build`, `initialize`, `IsReady` |
| Cache stores | `internal/store` | `KongFile`s by namespace/name | `Get`, `Add`, `Update`, `Delete` |
| Kong file service | `internal/kong` | none | `Create`, `Update` (PUT), `Delete`, `Get` |
| Class filter | `internal/controllers/utils`, `internal/annotations` | none | predicates over events and objects |
| API types | `pkg/apis/v1` | `spec`, `status.validated` | – |
| Admission validator and server | `internal/admission` | none | `ValidateKongFile`, `ServeHTTP`, choice of the key pair |
| Manager start-up | `internal/manager` | configuration | `Run`: Kong client, workspace, manager, admission server, proxy, controllers, health checks |
| Kong Admin client | `internal/adminapi` | a mutex | TLS options, headers, look-up and creation of the workspace |
| Diagnostics server | `internal/diagnostics` | where its goroutines wait | `Listen`, `receiveConfig`, the profiler |
| Command line | `internal/cmd`, `internal/manager/config.go` | the configuration | flags, environment, signals, `Execute` |
| Metrics, logging, metadata | `internal/metrics`, `internal/util`, `internal/manager/metadata` | – | `MakeLogger` (in `CommandLine`); the rest is output |

Outside the repository, and modelled only from how the code uses it: the API server
with its resourceVersions and status subresource, controller-runtime's informer,
workqueue and leader election, Kong.

### How the parts interact

The informer turns watch events into keys on the workqueue, if the class filter lets
them pass. The single worker takes a key and calls `Reconcile`, which reads the
object *from the informer's cache*, calls the proxy, which writes its own cache
*before* it calls Kong, and last writes `status.validated` with the
resourceVersion it read. Between the read and the write lie up to two requests to
Kong during which users, the informer and other processes go on. `Run` builds all
this, in each of several replicas; the lease lets one of them reconcile, but fences none
of its requests: a leader that has lost the lease goes on until it notices. One context,
which the first signal cancels, runs through all of a process: `Execute` hands it to the
diagnostics server, to the calls of the start-up, to the proxy and to the manager.

### What is hard, and what makes each part correct

* *Reconciler, with the API server*: validation must never be inherited by an
  edited or re-created object; publication must survive conflicts, errors and
  restarts; every requeue must end; only objects of our class are our business.
* *Proxy and cache stores*: the cache decides whether a deleted object still has a
  file, is written before Kong, and is empty after a restart.
* *File service*: a request whose caller has an error may be applied all the same,
  even later than requests sent after it.
* *Path construction*: different specs build one path (`css/a` + `x`, `css` + `a/x`);
  some build none.
* *Leaders*: two at once may put, delete and validate for the same object.
* *Admission*: an answer may be missing, late or an error, the server may not have come up;
  what it has not accepted must not pass.
* *Process*: Kong may never answer; goroutines wait for one another on a channel without
  a buffer, or for clients without a deadline; still a signal has to end it.
* *Start-up*: replicas race for the workspace; Kong's database is read twice; the
  CRD is looked for once, and a look-up that fails counts as one that has found it.

`PROJECT.json` lists the hazards line by line, those nothing covers yet included.

## 2. The modules

| Module | Models | How it corresponds to the code |
|---|---|---|
| `KongFile` | API type, `Build`, `isEmptyString`, `ValidateKongFile` | specs and files are records; a path is a sequence of segments, so joining directories, names and extensions is concatenation, and two specs may build one path |
| `ClassFilter` | `utils.go` predicates as written | `UpdateFunc` keeps the precedence of `&&` over `\|\|` and the check that always returns true |
| `KubeApi` | API server and informer (external) | `log[k]` is every state of object `k`, `seen[k]` how far the informer has read; a resourceVersion is a position in `log[k]` |
| `CacheStores` | `store.go` | `store[k]`: the spec cached, or none |
| `KongAdmin` | the Admin API behind `file_service.go` | `kong`: the files served; `late`: requests whose caller is gone |
| `KongFileController` | reconciler, proxy and workqueue, composed with all of the above | one action per stretch of `Reconcile` between two remote calls, one per kind of answer |
| `PortalPublication` | the abstract promise | files asked for, paths of deleted objects, the portal |
| `ManagerStartup` | `Run` in several replicas, `GetKongClientForWorkspace`, `initialize`, `setupControllers`, leader election | `phase[p]` is the call `Run` of replica `p` makes next |
| `ManagerStartup_since` | the same beside the set of replicas that have been up since before the CRD was there | `before` is a history variable, read by `SomebodyReconciles` only |
| `TlsOptions` | `MakeHTTPClient`, `toTLSConfig` | what the two accept, as operators on the options and the files they name, next to a definition of coherent options by the sources named; `ManagerStartup` calls the operators |
| `Handover` | a leader that has lost its lease, beside its successor | extends `KongFileController`, whose variables are the leader's, and instantiates it a second time for the deposed process, with an informer, cache, queue and worker of its own and the same API server and Kong |
| `CommandLine` | `FlagSet`, `bindEnvVars`, `MakeLogger`, `GetKongClient`, `RoundTrip` | flags by the type of their values; what they and the environment amount to, as operators |
| `Diagnostics` | `Listen` and its two goroutines | where each of the three waits, and whether a client is served |
| `Admission` | `setupAdmissionServer`, `ServeHTTP`, `handleValidation`, and the API server (external) | `reviews`: the writes, each with the answer it got and what became of it |
| `ControllerProcess` | `main`, `Execute`, `rootcmd.Run` and what `manager.Run` waits for, composed with the three above | `main` is what the main goroutine waits for; an end of the process ends its goroutines wherever they are |
| `MC...` | small instances for TLC | |
| `..._proofs`, `..._refines`, `..._served`, `..._rest` | theorems | |

In `KongFileController`, `worker` is the reconcile in progress: its key, the version
it has read, the file it has built and the call it waits for. `Reconcile(k)` runs from
`r.Get` to the first request; its five disjuncts are the five ways through the
function (object missing, terminating, of another class, validated, to be published).
`PutSucceeds`, `FileExists`, `FileMissing`, `DeleteSucceeds`, `KongFails`,
`StatusAccepted`, `StatusConflict` and `StatusFails` go on from each answer. `Crash`
replaces the process, between any two of them: it is a `Stop`, in which a request under
way is applied, lost or left in flight, and a `Restart`, with an empty cache and an
informer that lists the objects again (from an API server that may lag).

In `Handover` the two come apart. `Depose` starts a new leader while the old one keeps all
it has; the old one takes any step of the controller, on its own copy of the state, until
`DeposedExits` stops it. The history variable `overtaken` collects the paths whose file was
last changed by a request out of order: a late one, a deposed leader's, or one made
for a version read before another was validated. It is read by a property only.

In `ControllerProcess` a call is one state, as long as it lasts; `ManagerStartup` has what
`Run` does from call to call. The calls are told apart by what ends them: those for the Kong
client by the context (`"client"`), `ctrl.NewManager` by the timeout of its own discovery
(`"discovery"`), the proxy's by its deadline (`"proxy"`, with which the look-up of the CRD, again a
discovery with a timeout, is counted). Kong's answers are actions without fairness.

In `ManagerStartup` the command line is chosen in the initial state, from a set `Configs`,
and is the same in all replicas. An action goes from one remote call to the next, or to the return
of `Run`, upon which the process exits and the kubelet starts it again. The last call, the
look-up of the CRD, has three outcomes: it is there, it is not (and the process runs without
its reconciler), or the call fails, which `CRDExists` takes for "there" (`LookupCRDFails`). If it is not
there after all, the leader's manager gives up waiting for the kind and ends (`WatchFails`).

Definitions introduced by "Seeded bug" model no code. They are the operation that
follows them with a plausible mistake in it, and no specification uses them. They
are there to put in its place: every property of every passing run then fails.

### Abstractions

* Contents, titles and layouts of files are opaque; names and paths are short
  sequences. Formatting, logging and metrics are left out.
* One worker (`MaxConcurrentReconciles` is not set, its default is 1).
* An error of `r.Get` other than NotFound is returned and the key retried: a stutter.
* A DELETE of a path without a file succeeds. An error of the cache store is never
  returned by its code.
* The cache stores the object's pointer, the model its spec: the only later change of
  the object in hand is `status.validated`, which nothing reads from the cache.
* In `KongFileController` every request to Kong returns, with an answer or an error. One
  that Kong leaves unanswered holds the worker until the process is signalled:
  `ControllerProcess` models that.
* The clock of the process may lag (`"skew"` in `Faults`): a terminating object may
  then look alive at any read.
* In `KongFileController` and `ManagerStartup` the lease changes hands with the end of its
  holder's process; `Handover` drops that. At most one deposed process runs at a time,
  users' writes and late requests interleave with both.
* Header names are compared as Go compares map keys, by case. Kong does not: a
  `--kong-admin-header` that spells `kong-admin-token` in capitals is sent beside the token.
* The webhook is taken to be registered for `CREATE` and, to see what happens, `DELETE`, of
  KongFiles and of another resource. Bodies that are no AdmissionReview do not come from
  an API server.
* Numbers and durations are texts; of those that are neither number nor boolean two are
  used. `stderrthreshold`, which "has no effect", is
  bound like the others: a variable for it that is no number ends the process.
* Nobody but the controller writes portal files.
* The proxy timeout is a plain number or one `%g` prints with an exponent, which
  `ParseDuration` refuses. With database "off" `IsReady` waits for a `configApplied` nobody
  sets; `AllRun` promises readiness where Kong was never without a database.

## 3. The runs

| Run | Properties | What it shows |
|---|---|---|
| `shared` | `TypeOK`, `PublishedWasRequested`, `NeverForgotten`, `KeepsPromise`, `ValidatedWasPut` | two objects that can share a path, edits that move files, changes of class, deletions without finalizers, lost and late requests, API errors, stale relists, a restart: the portal changes only as asked, only the spec just put becomes validated, and what waits for it is always queued, worked on, or still to be told of by the informer |
| `validated` | `ValidatedWhenServed`, `EventuallyValidated`, `LatestPublished`, `Quiesces` | an object that is never edited, but may be deleted and re-created with another spec, is validated only while Kong serves the very file, is in the end validated and served, through conflicts, lost requests, errors and two restarts, and the controller comes to rest, unless a terminating object is kept for ever |
| `removed` | `CacheMirrorsKong`, `RestIsRight`, `ValidatedWhenServed`, `KeepsPromise`, `RemovedFromPortal` | one object through five writes, with finalizers, re-creations, edits around a validation, a clock that lags, API errors and resyncs: an edit between the PUT and the status update does not inherit the validation, and only what is asked for or deleted changes the portal. As Kong always answers here and the process lives on, cache and Kong agree between reconciles, at rest the portal has one file of what stands and none of what is gone, and what is gone for good leaves it |
| `startup` | `TypeOK`, `WorkspaceBeforeUse`, `LeaderSupported`, `OnlyCoherent`, `AllRun`, `SomebodyReconciles` | two replicas under two usable command lines and ten with a mistake each, failed calls, kills, races for the workspace, reconfigurations, a CRD installed before, while or after they start, look-ups that miss it or fail: all come up that can, and in the end there is a leader that reconciles, unless it has been up since before the CRD was there |
| `handover` | `ServedUnlessOvertaken`, `KeepsPromise`, `ValidatedByItsPublisher`, `EventuallyValidated` | two leaders at once, with lost and late requests, API errors, stale lists, finalizers and edits: both together keep the promise, each validates only what it has put itself, the new one gets everything validated, and a validated file is lost only to a request out of order |
| `process` | `TypeOK`, `VerdictIsRight`, `ProfilerAskedFor`, `HeadersArrive`, `StopsOnSignal`, `SenderIsReleased` | processes under three usable command lines and three with a mistake, two writes under review, a Kong that never answers, profiles that never end, addresses that are taken |

Six runs end in a violation each, of something a comment of the repository says
and the code does not do:

| Run | Violates | What the code does |
|---|---|---|
| `delete_fails` | `RemovedFromPortal` | `DeleteObject` empties the cache before it calls Kong; after one error nothing remembers the file (`kongfile_controller.go:133-134`) |
| `unclaimed` | `RemovedWhenUnclaimed` | an object whose class is changed is "removed" only in the log message (`:80-82`) |
| `foreign` | `CallsOnlyForClaimed` | the event filter lets every update pass (`utils.go:25,40`), so a terminating object that never was ours is looked up, and deleted, in Kong |
| `edited` | `LatestPublished` | an edit of a validated object is never published (`:35-36`, `:86`) |
| `finalizer` | `TerminatingSettles` | a terminating object whose file is gone is not left alone (`kongfile_controller.go:75-78`): Kong's 404 is an error of `ObjectExists` (`cached_proxy_resolver.go:140-143`, against `proxy.go:52`), so the key is retried until the last finalizer goes |
| `webhook_off` | `OffNeedsNoCertificates` | with the webhook "off" (`config.go:137`) its key pair is read all the same, and `Run` fails without one |

One more trait of the code has no run, since no comment says otherwise. A KongFile without a
kind is admitted (`validator.go:37-60`), has no path (`Build`) and is retried for ever; the runs
use objects that have a kind.

`Quiesces` is what is left of the end of every requeue: it is promised once no terminating
object is kept by a finalizer. `validated` has finalizers that go, so every requeue of
`Reconcile` and `EnsureProxyDeleteObject` is taken in it; `finalizer` shows that the condition is needed.

`ServedUnlessOvertaken` says which hazards are left, and is tight: with any of the three
kinds of disorder taken out of `overtaken`, TLC finds a validated KongFile without its file. An
abandoned DELETE that arrives after the PUT of the re-created object is one
(`file_service.go:115`), a PUT of a deposed leader another; nothing puts the file back, as
line 86 of the reconciler skips what is validated.

The positive runs are set where these do not interfere, and say so by their
constants: `validated` has no `editSpec` among its `UserOps` (`edited`), and only
objects with a path; `removed` has no failing Kong (`delete_fails`), no restart (which
empties the cache, with the same effect) and an object that keeps its path (one moved
between the PUT and the status update leaves the first file behind). The object may
change its class and come back; what `RestIsRight` and `RemovedFromPortal` promise is only
for one that was never another controller's (`AlwaysOurs`): an object whose class is taken
away keeps its file (`unclaimed`), and a deletion that follows is not ours to answer.

### Bounds

`MaxLog` bounds the history of one object, which begins at length 1 (there is no such object yet)
and grows by a user's write or a status update. Users write only while it is shorter than `MaxLog`,
the controller always. 3, in `shared`, therefore allows two writes (create, and an edit, change of
class or deletion), the second only if no validation comes between; 4, in `handover`, three (create,
delete, re-create; or create, a validation, an edit); 5, in `validated`, four (create, delete with a
finalizer, finalize, re-create); 6, in `removed`, five. `shared` thus reaches no re-creation and no
write after a validation: `removed`, `validated` and `handover` do, with one object, and the
theorems about its properties speak of any history of any number of objects. Two objects are all
that meet at one path; `removed`, where each has a path of its own, takes one, and
`CacheMirrorsKongHolds` and `RestIsRightHolds` are for any number. One restart suffices to separate
any pair of calls, `validated` has two in a row. In `shared` and `handover` `MaxLate = 1` puts a
request out of order with every later one. `ValidatedWhenServed`, which takes that none is, is
checked for one object; for several that share a path there is the theorem. In `ManagerStartup` two
replicas race, and `MaxChanges = 2` (the sum of kills, reconfigurations and the CRD's installation)
allows a reconfiguration between the two reads and another after it, or the CRD's installation and
the end of a leader that has missed it. In `handover` one deposition is all it takes for two
leaders. In `process` two writes meet one another and two processes, the second of which starts
after a signal, an error or a start that failed. The theorems of section 4 do not depend on any of
these.

No symmetry is used: objects differ by their specs, and liveness is checked.
`CHECK_DEADLOCK FALSE` is in the configurations because the histories are finite: when
the users have stopped and the queue is empty the system is at rest, and rightly so.
That it comes to rest in no other way is what `Quiesces`, `EventuallyValidated` and
`AllRun` check. In `process` the number of starts is bounded, so a process that has ended for
the last time is rightly the end.

### Fairness

`Fairness` of `KongFileController`:

* `WF(Answered)`: a call to Kong or the API server returns, with an answer or an error.
* `WF(Deliver(k))`: the informer goes on reading.
* `SF(Reconcile(k))`: the workqueue is first in, first out, and a key that is retried
  comes back after its back-off; with one worker the action is disabled and enabled
  over and over, so weak fairness would not do.
* `SF` of the successful answers: a call made again and again succeeds once. This is
  about the network, not the code. Without it nothing distributed is live, and a lost
  message is still allowed any finite number of times (a restart only `MaxCrashes`).

`Handover` takes this fairness for the leader only. The deposed process may be paused for
ever, at whatever point it is, or never notice.

`ManagerStartup` has the same two kinds: the kubelet restarts what exits (`WF(Start)`),
every call returns, and a call made again and again succeeds once.

A replica whose look-up of the CRD has failed may wait for the missing kind as long as it likes:
`WatchFails` has no fairness.

`ControllerProcess` assumes nothing of Kong, of the profiler's clients, of a second signal or
of controller-runtime's grace period. A call that was given a context returns when that is
done (`ClientCancelled`, `WorkerCancelled`), or its deadline has passed (`ManagerBuilt` or
`DiscoveryTimesOut`, `ProxyReady` or `ProxyTimesOut`); the manager returns once its worker has; a receiver that waits receives
(`ReceiveError`). That is what Go's HTTP client, contexts and `select` promise.

## 4. The theorems

All leaves are checked by SMT, Zenon or LS4; nothing is assumed but the named
`ASSUME`s of the modules on their constants, which TLC evaluates in the runs, and the
hypotheses in the theorems' statements.

| Theorem | Says |
|---|---|
| `TypeInvariant` | `Spec => []TypeOK` |
| `PublishedWasRequestedHolds` | every file served was asked for, path and contents together |
| `ValidatedWasPutHolds` | only the spec just put becomes validated |
| `ValidatedWhenServedHolds` | if `MaxLate = 0`, validation is set only while Kong serves the file |
| `NeverForgottenHolds` | with every fault, an object of our class that is not validated is queued, worked on or still to be told of |
| `RestIsRightHolds` | under the hypotheses of `CacheMirrorsKongHolds`, when the controller rests the portal holds one file of each KongFile that stands and none of one that is gone |
| `SamePath`, `WhenPathsApart` | which KongFiles share a path, in terms of the kind, path and name users write: the hypothesis of the theorems that ask for distinct paths |
| `CacheMirrorsKongHolds` | if Kong does not fail, the process is not replaced and paths are not shared or moved, cache and Kong agree between reconciles |
| `KeepsPromiseHolds` | `Spec` implements `PortalPublication`, with every fault |
| `StartupTypeInvariant`, `WorkspaceBeforeUseHolds`, `LeaderSupportedHolds`, `OnlyCoherentHolds` | the start-up, for any number of replicas, restarts and command lines |
| `TwoLeadersKeepPromise` | a leader and a deposed one together implement `PortalPublication` |
| `TwoLeadersPublishRequested`, `HandoverTypeInvariant` | `PublishedWasRequested` and types, with two leaders |
| `ValidatedByItsPublisherHolds` | of two leaders, who validates has put that very spec itself |
| `ServedUnlessOvertakenHolds` | where no two KongFiles share a path, a validated KongFile left alone is served, or a request out of order was the last at its path |
| `LeaderNeverForgets` | nor does a deposed process beside the leader make it forget one |
| `HeadersArriveAlways` | every header with a colon reaches Kong, with the last value given for its name, and the token prevails, for any list of headers |
| `ProcessTypeInvariant`, `VerdictIsRightHolds`, `ProfilerAskedForHolds` | the process and the webhook, for any number of writes, starts and command lines |
| `MakeHTTPClientAcceptsCoherent`, `toTLSConfigAcceptsCoherent` | the two accept exactly the coherent options |

The arguments:

* **`PublishInv`.** A file gets into Kong by the request of the worker or by a late
  one, so the invariant says of all three places that their file was asked for by a
  version in `log`. `log` only grows, hence what was asked for stays so. That the
  worker's file is `Build` of the version it holds makes `ValidatedWasPut` follow:
  a status update is accepted only at the current version, so that is the one put.
* **`ServedInv`.** While the worker is in its status update Kong serves its file. No
  other request can come between when none outlives its caller: hence `MaxLate = 0`,
  and one worker.
* **`MirrorInv`.** The relation of cache and Kong for each key, told apart by what the
  worker is doing for it: it is broken at the cache write and mended by Kong's answer.
  Distinct paths keep one key's requests away from another's file.
* **`NeverForgotten`** is inductive, given types: who takes a key off the queue has read that
  it needs nothing, or has been overtaken by a version the informer will tell of, and the
  filter lets that event pass (`UpdateFunc` lets every update pass). The only step
  that validates ends what the invariant asks for.
* **`RestInv`**, for `RestIsRight`. By `MirrorInv` the portal at rest is what the cache says,
  so the cache has to be right: a KongFile that has an entry and that the informer knows
  to be gone is queued or worked on (`DeletionsQueued`); one that stands and is validated
  has its entry (`KeptStands`), because the update that validates it is of the version the
  informer has (`WorkerHasRead`), and the entry goes only when the informer has told
  of its end, after which no update validates it again (`NoneKeptWhileDeleting`). What is not validated is not
  forgotten, so nobody rests before it is: `NeverForgotten`. It is not inductive
  without the hypotheses: after one failed DELETE the entry is gone and the file is not.
* **`DeleteInv`**, with `PublishInv`, gives the refinement: a DELETE, waiting or late, is
  of a path some version in `log` had before or at a deletion. Each action is a
  `Publish`, a `Withdraw` or leaves the portal alone while what is asked for and what is
  deleted grow.
* **`LeaderInv`.** Being at `controllers` or beyond implies an accepted mode, which `Exit`
  takes back together with the phase; the leader runs. `WorkspaceBeforeUse` is
  inductive as it is, given that Kong never loses the workspace.
* **Coherence.** An option names at most one source exactly when it is not given both
  ways, and then `Read` finds that source's text (`ReadSources`); with this the checks of
  `MakeHTTPClient`, made one after the other and partly after reading, amount to the
  definition by sources. Two empty client files count as no certificate: that is what
  the code makes of them. `OnlyCoherent` follows because `Start` and `BuildManager` are
  the only ways past the two checks.

* **Two leaders.** The invariants of one worker speak of the variables of one instance of
  `KongFileController`, and hold for each leader by the same lemmas, cited once as they are
  and once through the instance with the deposed leader's variables. What remains is that a
  step of one does not disturb the other: `log` only grows, and `PublishInv` and
  `DeleteInv` say of each request only what some version in `log` asks for. `Depose` gives the
  deposed process the leader's state, invariants and all, and the leader a fresh one.
* **`ServedUnlessOvertaken`.** The inductive invariant follows the leader's worker: where it
  waits for its status update, its file is served or its path overtaken. A path leaves
  `overtaken` only by a request in order, which is a PUT of the object's own present file
  or a DELETE of one that is going; with own paths no other key can take the file away.
* **The path.** `Build` joins folder, path and name; the folder's first segment tells the kind,
  and joining is associative and can be cancelled from the left. Hence files of two
  kinds never meet, and where the path ends and the name begins makes no difference.
* **Headers.** `RoundTrip` is a recursive function on the number of headers added. The library's
  induction takes an operator, which the provers cannot instantiate; the lemmas take the
  least number for which they fail instead (`LeastNatural`, from the well-foundedness of `<` on
  the naturals), and the step before it gives the contradiction. `HeadersAssumption` says
  that the values of list flags are sequences of texts, as `pflag` makes them.
* **`VerdictInv`.** An answer is right about the write it is the answer to, from when it is
  given; `Decide` follows usable answers only, and the policy otherwise.

Every invariant, every action property and the refinement that the passing runs check
are theorems. Model-checked only is all liveness (`EventuallyValidated`, `LatestPublished`,
`Quiesces`, `RemovedFromPortal`, `AllRun`, `SomebodyReconciles`, `StopsOnSignal`,
`SenderIsReleased`), which rests on fairness and `ENABLED`. `NeverForgotten` and `RestIsRight`
are the safety part of two of them: there is always somebody who has yet to act for
`EventuallyValidated`, and nobody stops acting before `RemovedFromPortal`.

## 5. Not modelled

* **Files of the portal changed by others.** The model's Kong changes by requests of the
  controller only. The code has no answer to drift, a resync skips what is validated, so
  there is nothing to check beyond `edited` and `ServedUnlessOvertaken`.
* **Workers and watches of several namespaces.** `MaxConcurrentReconciles` is one. The
  namespaces watched filter events before the model's informer sees them.
* **`GetKubeconfig` and `GetKubeClient`**: they hand settings to the Kubernetes client.
* **The diagnostics server's dump of configurations, `CacheStores.Add`, the `Store` wrapper,
  `validController`, `Create` of the file service, `UpdateKongAdmin`**: nobody calls them.
* **Metrics, metadata and the wording of logs**: output only; of the logger there is
  what keeps a process from starting.
* **Generated deep copies and clientsets.**

What could follow: several deposed leaders at once; `VerdictIsRight` as the assumption
`Webhook` of `KubeApi`, by a refinement; the invariants that make `StopsOnSignal` hold, proved as
a bound on the number of steps.
