------------------------------- MODULE Handover -------------------------------
(***************************************************************************)
(* Two leaders at once.  Run gives the manager leader election; a leader   *)
(* that does not renew its lease in time is replaced, but its process goes *)
(* on until it notices and exits (RunManager returns the manager's error): *)
(* its worker may be waiting for Kong, and no request is fenced by the     *)
(* lease.  The variables of KongFileController are the leader's; the       *)
(* deposed process has its own informer, cache, workqueue and worker, and  *)
(* shares the API server and Kong.                                         *)
(***************************************************************************)
EXTENDS KongFileController

VARIABLES deposed,     \* is a former leader still running
          oldSeen, oldStore, oldDirty, oldWorker,   \* what it works with
          overtaken    \* paths whose file was last changed out of order

oldVars == <<deposed, oldSeen, oldStore, oldDirty, oldWorker>>

allVars == <<vars, oldVars, overtaken>>

Deposed == INSTANCE KongFileController
              WITH seen <- oldSeen, store <- oldStore, dirty <- oldDirty, worker <- oldWorker

NoLeader ==
    /\ oldSeen = [k \in Keys |-> 1]
    /\ oldStore = [k \in Keys |-> NoSpec]
    /\ oldDirty = {}
    /\ oldWorker = Idle

HandoverTypeOK ==
    /\ TypeOK
    /\ Deposed!TypeOK
    /\ deposed \in BOOLEAN
    /\ ~deposed => NoLeader
    /\ overtaken \subseteq {f.path : f \in File}

HandoverInit ==
    /\ Init
    /\ deposed = FALSE
    /\ NoLeader
    /\ overtaken = {}

-----------------------------------------------------------------------------
(* The history variable overtaken. *)

\* The paths whose file this step changes.
Changed == {f.path : f \in (kong \ kong') \cup (kong' \ kong)}

\* A version of k later than ver has been validated.
Outdated(k, ver) ==
    \E i \in DOMAIN log[k] : i > ver /\ log[k][i] # NoObj /\ log[k][i].validated

\* A late request reaches Kong, or the reconcile that makes a request has read a
\* version older than one already validated.
OutOfOrder == late' # late \/ (worker # Idle /\ Outdated(worker.key, worker.ver))

InOrder ==
    overtaken' = IF OutOfOrder THEN overtaken \cup Changed ELSE overtaken \ Changed

\* The deposed process changes a file, or ends a reconcile whose PUT the leader's
\* requests may have followed.
Overtakes ==
    overtaken' = overtaken \cup Changed \cup
                 (IF log' # log THEN {oldWorker.file.path} ELSE {})

-----------------------------------------------------------------------------
\* The leader, and all that is not a process of the controller.
Leads == UNCHANGED oldVars /\ InOrder

\* The leader loses its lease without noticing and another process takes over.
Depose ==
    /\ ~deposed
    /\ crashes < MaxCrashes
    /\ crashes' = crashes + 1
    /\ deposed' = TRUE
    /\ oldSeen' = seen
    /\ oldStore' = store
    /\ oldDirty' = dirty
    /\ oldWorker' = worker
    /\ Restart
    /\ UNCHANGED <<log, kong, late, overtaken>>

\* The deposed process does not know that it is deposed.
DeposedStep ==
    /\ deposed
    /\ \/ \E k \in Keys : Deposed!Reconcile(k) \/ Deposed!Deliver(k)
       \/ Deposed!Answered
    /\ Overtakes
    /\ UNCHANGED <<deposed, seen, store, dirty, worker>>

\* It notices, and exits.
DeposedExits ==
    /\ deposed
    /\ Deposed!Stop
    /\ deposed' = FALSE
    /\ oldSeen' = [k \in Keys |-> 1]
    /\ oldStore' = [k \in Keys |-> NoSpec]
    /\ oldDirty' = {}
    /\ oldWorker' = Idle
    /\ Overtakes
    /\ UNCHANGED <<seen, store, dirty, worker, crashes>>

HandoverNext ==
    \/ Next /\ Leads
    \/ Depose
    \/ DeposedStep
    \/ DeposedExits

HandoverSpec == HandoverInit /\ [][HandoverNext]_allVars

\* The fairness of KongFileController, for the leader only: the deposed process
\* may be paused for ever.
HandoverFairness ==
    /\ WF_allVars(Answered /\ Leads)
    /\ \A k \in Keys :
          /\ WF_allVars(Deliver(k) /\ Leads)
          /\ SF_allVars(Reconcile(k) /\ Leads)
          /\ SF_allVars(worker # Idle /\ worker.key = k /\ PutSucceeds /\ Leads)
          /\ SF_allVars(worker # Idle /\ worker.key = k /\ DeleteSucceeds /\ Leads)
          /\ SF_allVars(worker # Idle /\ worker.key = k /\ StatusAccepted /\ Leads)

FairHandoverSpec == HandoverSpec /\ HandoverFairness

-----------------------------------------------------------------------------
\* The object has been validated, and has had one spec since before it was.
Settled(k) ==
    /\ api(k) # NoObj
    /\ \E i \in 1..(Len(log[k]) - 1) :
          \A j \in i..Len(log[k]) :
             /\ log[k][j] # NoObj
             /\ ~log[k][j].terminating
             /\ log[k][j].spec = api(k).spec
             /\ log[k][j].validated <=> j > i

\* A KongFile that has been validated, and not edited or deleted since, is served
\* as it is, unless the last request that changed its file came out of order: it
\* was late, it was a deposed leader's, or it was made for a version read from a
\* lagging API server.  Nothing else takes a published file away for good.
ServedUnlessOvertaken ==
    \A k \in Keys :
       Settled(k) => Build(api(k).spec) \in kong \/ Build(api(k).spec).path \in overtaken

\* Who sets status.validated, leader or deposed, has itself put the file of the
\* spec it sets it on.
ValidatedWasPutByIts(w, k) ==
    w # Idle /\ w.key = k /\ Build(api(k)'.spec) = w.file

ValidatedByItsPublisher ==
    [][\A k \in Keys : BecomesValidated(k) =>
          /\ Ours(api(k)')
          /\ ValidatedWasPutByIts(worker, k) \/ ValidatedWasPutByIts(oldWorker, k)]_allVars
=============================================================================
