---------------------------- MODULE ManagerStartup -----------------------------
(***************************************************************************)
(* manager.Run (internal/manager) in several replicas of the controller    *)
(* that start, fail and are restarted beside one another: from the look-up *)
(* of the Kong workspace (internal/adminapi) to the leader that reconciles.*)
(*                                                                         *)
(* Each action runs from one remote call to the next, or to the return of  *)
(* Run, upon which the process exits and the kubelet starts it again.      *)
(***************************************************************************)
EXTENDS Naturals, TlsOptions

CONSTANTS Replicas,
          None,              \* no replica, no database
          Configs,           \* the command lines of the deployment to consider
          MaxChanges         \* how often Kong and the cluster are changed

\* The flags Run depends on: is --kong-workspace given; --admission-webhook-listen;
\* how many parts --publish-service has (0 if not given); is the proxy timeout
\* printed by %g as a plain number, or, very large or small, with an exponent.
Config == [workspace: BOOLEAN, listen: {"off", "address"}, publishService: 0..3,
           timeout: {"plain", "exponent"}, client: ClientOptions, webhook: WebhookOptions]

ASSUME StartupAssumption ==
    /\ None \notin Replicas
    /\ Configs \subseteq Config
    /\ MaxChanges \in Nat

VARIABLES config,     \* the command line, the same in every replica
          phase,      \* phase[p]: the call that Run of p makes next
          mode,       \* mode[p]: dbmode of p's proxy
          watches,    \* watches[p]: is the KongFile reconciler set up in p
          leader,     \* the replica that holds the lease, or None
          workspace,  \* does Kong have the workspace
          database,   \* the database of Kong's configuration
          crd,        \* is the KongFile CRD installed
          changes

local == <<phase, mode, watches>>
outside == <<config, workspace, database, crd, changes>>
vars == <<local, leader, outside>>

\* What Kong may say of its database, and what initialize takes.
Databases == {"off", "", "postgres", "cassandra"}
Supported == {"off", "", "postgres"}

Calls == {"lookup", "create", "root", "manager", "proxy", "controllers"}

TypeOK ==
    /\ config \in Configs
    /\ phase \in [Replicas -> Calls \cup {"running", "exited"}]
    /\ mode \in [Replicas -> Supported \cup {None}]
    /\ watches \in [Replicas -> BOOLEAN]
    /\ leader \in Replicas \cup {None}
    /\ database \in Databases
    /\ {workspace, crd} \subseteq BOOLEAN
    /\ changes \in 0..MaxChanges

Init ==
    /\ config \in Configs
    /\ phase = [p \in Replicas |-> "exited"]
    /\ mode = [p \in Replicas |-> None]
    /\ watches = [p \in Replicas |-> FALSE]
    /\ leader = None
    /\ workspace \in BOOLEAN
    /\ database \in Databases
    /\ crd \in BOOLEAN
    /\ changes = 0

-----------------------------------------------------------------------------
GoTo(p, next) == phase' = [phase EXCEPT ![p] = next]

\* Run returns an error or the process stops; nothing of it is left.
Exit(p) ==
    /\ GoTo(p, "exited")
    /\ mode' = [mode EXCEPT ![p] = None]
    /\ watches' = [watches EXCEPT ![p] = FALSE]

\* GetKongClient, which gives up when MakeHTTPClient does; then
\* GetKongClientForWorkspace, which makes no call when no workspace is given.
Start(p) ==
    /\ phase[p] = "exited"
    /\ MakeHTTPClient(config.client)
    /\ GoTo(p, IF config.workspace THEN "lookup" ELSE "root")
    /\ UNCHANGED <<mode, watches, leader, outside>>

\* Seeded bug: the workspace is created without having been looked up.
LookupNothing(p) ==
    /\ phase[p] = "lookup"
    /\ GoTo(p, "create")
    /\ UNCHANGED <<mode, watches, leader, outside>>

LookupWorkspace(p) ==
    /\ phase[p] = "lookup"
    /\ GoTo(p, IF workspace THEN "root" ELSE "create")
    /\ UNCHANGED <<mode, watches, leader, outside>>

\* Seeded bug: the error of Workspaces.Create is dropped.
CreateFailsUnnoticed(p) ==
    /\ phase[p] = "create"
    /\ GoTo(p, "root")
    /\ UNCHANGED <<mode, watches, leader, outside>>

\* Kong refuses a second workspace of the same name.
CreateWorkspace(p) ==
    /\ phase[p] = "create"
    /\ ~workspace
    /\ workspace' = TRUE
    /\ GoTo(p, "root")
    /\ UNCHANGED <<mode, watches, leader, config, database, crd, changes>>

CreateConflicts(p) ==
    /\ phase[p] = "create"
    /\ workspace
    /\ Exit(p)
    /\ UNCHANGED <<leader, outside>>

\* Run reads the database of Kong, and only logs it.
ReadRoot(p) ==
    /\ phase[p] = "root"
    /\ GoTo(p, "manager")
    /\ UNCHANGED <<mode, watches, leader, outside>>

\* setupControllerOptions: --publish-service is <namespace>/<name>, if given.
ControllerOptions == config.publishService \in {0, 2}

\* The manager, then the admission server, whatever its address is.
BuildManager(p) ==
    /\ phase[p] = "manager"
    /\ IF ControllerOptions /\ toTLSConfig(config.webhook)
       THEN GoTo(p, "proxy") /\ UNCHANGED <<mode, watches>>
       ELSE Exit(p)
    /\ UNCHANGED <<leader, outside>>

\* Seeded bug: any database will do.
InitializeUnchecked(p) ==
    /\ phase[p] = "proxy"
    /\ mode' = [mode EXCEPT ![p] = database]
    /\ GoTo(p, "controllers")
    /\ UNCHANGED <<watches, leader, outside>>

\* setupProxyServer: time.ParseDuration knows no exponents.
ParseDuration == config.timeout = "plain"

\* initialize reads the database a second time, and checks it.
InitializeProxy(p) ==
    /\ phase[p] = "proxy"
    /\ IF ParseDuration /\ database \in Supported
       THEN /\ mode' = [mode EXCEPT ![p] = database]
            /\ GoTo(p, "controllers")
            /\ UNCHANGED watches
       ELSE Exit(p)
    /\ UNCHANGED <<leader, outside>>

\* Seeded bug: the controller is never handed to the manager.
SetupNoController(p) ==
    /\ phase[p] = "controllers"
    /\ GoTo(p, "running")
    /\ UNCHANGED <<mode, watches, leader, outside>>

\* MaybeSetupWithManager asks whether the CRD exists, once; then mgr.Start.
SetupControllers(p) ==
    /\ phase[p] = "controllers"
    /\ watches' = [watches EXCEPT ![p] = crd]
    /\ GoTo(p, "running")
    /\ UNCHANGED <<mode, leader, outside>>

\* Seeded bug: after an error the CRD is taken to be missing.
LookupCRDFailsMissing(p) ==
    /\ phase[p] = "controllers"
    /\ GoTo(p, "running")
    /\ UNCHANGED <<mode, watches, leader, outside>>

\* CRDExists: only a "no match" says no.  After any other error of the look-up the
\* reconciler is set up, and Run goes on.
LookupCRDFails(p) ==
    /\ phase[p] = "controllers"
    /\ watches' = [watches EXCEPT ![p] = TRUE]
    /\ GoTo(p, "running")
    /\ UNCHANGED <<mode, leader, outside>>

\* Another call fails and Run returns its error.  The workspace may be made all the same.
CallFails(p) ==
    /\ phase[p] \in Calls \ {"controllers"}
    /\ workspace' \in IF phase[p] = "create" THEN {workspace, TRUE} ELSE {workspace}
    /\ Exit(p)
    /\ UNCHANGED <<leader, config, database, crd, changes>>

-----------------------------------------------------------------------------
\* Leader election is always on: the reconcilers run in the leader only.
Elect(p) ==
    /\ phase[p] = "running"
    /\ leader = None
    /\ leader' = p
    /\ UNCHANGED <<local, outside>>

\* The leader starts its reconciler and there is no such kind to watch: mgr.Start
\* returns the error.
WatchFails(p) ==
    /\ leader = p
    /\ watches[p]
    /\ ~crd
    /\ Exit(p)
    /\ leader' = None
    /\ UNCHANGED outside

\* Kong, the CRD and the processes change under the controller's feet.
Changing ==
    /\ changes < MaxChanges
    /\ changes' = changes + 1

Reconfigure ==
    /\ Changing
    /\ database' \in Databases \ {database}
    /\ UNCHANGED <<config, local, leader, workspace, crd>>

InstallCRD ==
    /\ Changing
    /\ ~crd
    /\ crd' = TRUE
    /\ UNCHANGED <<config, local, leader, workspace, database>>

\* The process is killed, or stops because it has lost its lease.
Kill(p) ==
    /\ Changing
    /\ phase[p] # "exited"
    /\ Exit(p)
    /\ leader' = IF leader = p THEN None ELSE leader
    /\ UNCHANGED <<config, workspace, database, crd>>

-----------------------------------------------------------------------------
Succeed(p) ==
    \/ LookupWorkspace(p) \/ CreateWorkspace(p) \/ CreateConflicts(p)
    \/ ReadRoot(p) \/ BuildManager(p) \/ InitializeProxy(p) \/ SetupControllers(p)

Next ==
    \/ \E p \in Replicas :
          \/ Start(p) \/ Succeed(p) \/ CallFails(p) \/ LookupCRDFails(p)
          \/ Elect(p) \/ WatchFails(p) \/ Kill(p)
    \/ Reconfigure \/ InstallCRD

Spec == Init /\ [][Next]_vars

\* The kubelet restarts what has exited, every call returns, a call made again
\* and again succeeds once, and a free lease is taken.
Fairness ==
    /\ \A p \in Replicas :
          /\ WF_vars(Start(p))
          /\ WF_vars(Succeed(p) \/ CallFails(p) \/ LookupCRDFails(p))
          /\ SF_vars(LookupWorkspace(p))
          /\ SF_vars(CreateWorkspace(p) \/ CreateConflicts(p))
          /\ SF_vars(ReadRoot(p))
          /\ SF_vars(BuildManager(p))
          /\ SF_vars(InitializeProxy(p))
          /\ SF_vars(SetupControllers(p))
    /\ WF_vars(\E p \in Replicas : Elect(p))

FairSpec == Spec /\ Fairness

-----------------------------------------------------------------------------
\* No replica sends Kong a request about its workspace before the workspace is
\* there, however many of them look it up and create it at once.
WorkspaceBeforeUse ==
    \A p \in Replicas :
       config.workspace /\ phase[p] \notin {"exited", "lookup", "create"} => workspace

\* No leader works against a database initialize has not accepted, even if Kong
\* is reconfigured between the two times Run asks.
LeaderSupported == leader # None => phase[leader] = "running" /\ mode[leader] \in Supported

\* Nothing is sent to Kong under TLS options that name a source twice or half a
\* pair, and no replica comes up with a webhook whose certificate and key are not a
\* pair or are named in two ways.
OnlyCoherent ==
    \A p \in Replicas :
       /\ phase[p] # "exited" => ClientCoherent(config.client)
       /\ phase[p] \in {"proxy", "controllers", "running"} => WebhookCoherent(config.webhook)

\* The command lines with which the controller can come up.
Startable ==
    /\ ClientCoherent(config.client)
    /\ WebhookCoherent(config.webhook)
    /\ config.publishService \in {0, 2}
    /\ config.timeout = "plain"

\* Nobody sets configApplied, so without a database the proxy is never ready.
IsReady(p) == phase[p] = "running" /\ mode[p] # "off"

\* Once Kong's database stays a supported one, every replica that can start is in
\* the end up for good, and ready if Kong was never without a database: no race
\* for the workspace and no reconfiguration keeps one from it.
AllRun ==
    Startable /\ <>[](database \in Supported) =>
       /\ <>[](\A p \in Replicas : phase[p] = "running")
       /\ [](database # "off") => <>[](\A p \in Replicas : IsReady(p))

-----------------------------------------------------------------------------
\* config.go:137: "Setting it to 'off' disables the admission controller", so its
\* certificates do not matter.
OffNeedsNoCertificates ==
    config.listen = "off" /\ <>[](database \in Supported) =>
       \A p \in Replicas : <>(phase[p] = "running")
=============================================================================
