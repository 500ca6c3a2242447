------------------------ MODULE ManagerStartup_proofs -------------------------
(***************************************************************************)
(* Theorems about ManagerStartup, for any number of replicas, any number   *)
(* of restarts and changes of Kong, and both settings of the workspace.    *)
(***************************************************************************)
EXTENDS ManagerStartup, TlsOptions_proofs

-----------------------------------------------------------------------------
(* How the parts of a step are typed. *)

LEMMA ExitType ==
    ASSUME TypeOK, NEW p \in Replicas, Exit(p)
    PROVE  /\ phase' \in [Replicas -> Calls \cup {"running", "exited"}]
           /\ mode' \in [Replicas -> Supported \cup {None}]
           /\ watches' \in [Replicas -> BOOLEAN]
           /\ phase'[p] = "exited"
           /\ \A q \in Replicas \ {p} : phase'[q] = phase[q] /\ mode'[q] = mode[q]
  BY DEF TypeOK, Exit, GoTo

LEMMA GoToType ==
    ASSUME TypeOK, NEW p \in Replicas, NEW next \in Calls \cup {"running"}, GoTo(p, next)
    PROVE  /\ phase' \in [Replicas -> Calls \cup {"running", "exited"}]
           /\ phase'[p] = next
           /\ \A q \in Replicas \ {p} : phase'[q] = phase[q]
  BY DEF TypeOK, GoTo

\* A step of Run in p.
RunStep(p) == Start(p) \/ Succeed(p) \/ CallFails(p) \/ LookupCRDFails(p)

\* Run of p goes on to a call, to mgr.Start, or to its end.
LEMMA StepType ==
    ASSUME TypeOK, NEW p \in Replicas, RunStep(p)
    PROVE  TypeOK'
  <1>1. CASE Start(p)
    <2>1. PICK next \in {"lookup", "root"} : GoTo(p, next)
      BY <1>1 DEF Start
    <2>2. next \in Calls \cup {"running"}
      BY <2>1 DEF Calls
    <2> QED
      BY <1>1, <2>1, <2>2, GoToType DEF Start, TypeOK, outside
  <1>2. CASE LookupWorkspace(p)
    <2>1. PICK next \in {"root", "create"} : GoTo(p, next)
      BY <1>2 DEF LookupWorkspace
    <2>2. next \in Calls \cup {"running"}
      BY <2>1 DEF Calls
    <2> QED
      BY <1>2, <2>1, <2>2, GoToType DEF LookupWorkspace, TypeOK, outside
  <1>3. CASE CreateWorkspace(p)
    <2>1. "root" \in Calls \cup {"running"}
      BY DEF Calls
    <2> QED
      BY <1>3, <2>1, GoToType DEF CreateWorkspace, TypeOK
  <1>4. CASE CreateConflicts(p)
    BY <1>4, ExitType DEF CreateConflicts, TypeOK, outside
  <1>5. CASE ReadRoot(p)
    <2>1. "manager" \in Calls \cup {"running"}
      BY DEF Calls
    <2> QED
      BY <1>5, <2>1, GoToType DEF ReadRoot, TypeOK, outside
  <1>6. CASE BuildManager(p)
    <2>1. "proxy" \in Calls \cup {"running"}
      BY DEF Calls
    <2>2. CASE ControllerOptions /\ toTLSConfig(config.webhook)
      BY <1>6, <2>1, <2>2, GoToType DEF BuildManager, TypeOK, outside
    <2>3. CASE ~(ControllerOptions /\ toTLSConfig(config.webhook))
      BY <1>6, <2>3, ExitType DEF BuildManager, TypeOK, outside
    <2> QED
      BY <2>2, <2>3
  <1>7. CASE InitializeProxy(p)
    <2>1. "controllers" \in Calls \cup {"running"}
      BY DEF Calls
    <2>2. CASE ParseDuration /\ database \in Supported
      BY <1>7, <2>1, <2>2, GoToType DEF InitializeProxy, TypeOK, outside
    <2>3. CASE ~(ParseDuration /\ database \in Supported)
      BY <1>7, <2>3, ExitType DEF InitializeProxy, TypeOK, outside
    <2> QED
      BY <2>2, <2>3
  <1>8. CASE SetupControllers(p)
    <2>1. crd \in BOOLEAN
      BY DEF TypeOK
    <2> QED
      BY <1>8, <2>1, GoToType DEF SetupControllers, TypeOK, outside
  <1>9. CASE CallFails(p)
    <2>1. workspace' \in BOOLEAN
      BY <1>9 DEF CallFails, TypeOK
    <2> QED
      BY <1>9, <2>1, ExitType DEF CallFails, TypeOK
  <1>10. CASE LookupCRDFails(p)
    BY <1>10, GoToType DEF LookupCRDFails, TypeOK, outside
  <1> QED
    BY <1>1, <1>2, <1>3, <1>4, <1>5, <1>6, <1>7, <1>8, <1>9, <1>10 DEF RunStep, Succeed

LEMMA ChangingType ==
    ASSUME TypeOK, Changing
    PROVE  changes' \in 0..MaxChanges
  BY StartupAssumption DEF TypeOK, Changing

\* Every variable keeps its type: of the database a replica works with, that it
\* is one initialize accepts.
THEOREM StartupTypeInvariant == Spec => []TypeOK
  <1>1. Init => TypeOK
    BY StartupAssumption DEF Init, TypeOK
  <1>2. TypeOK /\ [Next]_vars => TypeOK'
    <2> SUFFICES ASSUME TypeOK, [Next]_vars PROVE TypeOK'
      OBVIOUS
    <2>1. ASSUME NEW p \in Replicas, RunStep(p) PROVE TypeOK'
      BY <2>1, StepType
    <2>2. ASSUME NEW p \in Replicas, Elect(p) PROVE TypeOK'
      BY <2>2 DEF Elect, TypeOK, local, outside
    <2>3. ASSUME NEW p \in Replicas, Kill(p) PROVE TypeOK'
      <3>1. Exit(p) /\ Changing /\ leader' \in Replicas \cup {None}
        BY <2>3 DEF Kill, TypeOK
      <3> QED
        BY <2>3, <3>1, ExitType, ChangingType DEF Kill, TypeOK
    <2>4. ASSUME NEW p \in Replicas, WatchFails(p) PROVE TypeOK'
      BY <2>4, ExitType DEF WatchFails, TypeOK, outside
    <2>5. CASE Reconfigure
      <3>1. Changing /\ database' \in Databases
        BY <2>5 DEF Reconfigure
      <3> QED
        BY <2>5, <3>1, ChangingType DEF Reconfigure, TypeOK, local
    <2>6. CASE InstallCRD
      <3>1. Changing
        BY <2>6 DEF InstallCRD
      <3> QED
        BY <2>6, <3>1, ChangingType DEF InstallCRD, TypeOK, local
    <2>7. CASE UNCHANGED vars
      BY <2>7 DEF vars, local, outside, TypeOK
    <2> QED
      BY <2>1, <2>2, <2>3, <2>4, <2>5, <2>6, <2>7 DEF RunStep, Next
  <1> QED
    BY <1>1, <1>2, PTL DEF Spec
-----------------------------------------------------------------------------
(* The workspace is never taken away, and every way on to the calls after   *)
(* its creation has found it or made it.                                    *)

Past(p) == phase[p] \notin {"exited", "lookup", "create"}

LEMMA StepFindsWorkspace ==
    ASSUME TypeOK, WorkspaceBeforeUse, NEW p \in Replicas, RunStep(p)
    PROVE  /\ config' = config
           /\ workspace => workspace'
           /\ config.workspace /\ Past(p)' => workspace'
           /\ \A q \in Replicas \ {p} : phase'[q] = phase[q]
  <1> USE DEF Past
  <1>1. CASE Start(p)
    BY <1>1 DEF Start, GoTo, TypeOK, outside
  <1>2. CASE LookupWorkspace(p)
    BY <1>2 DEF LookupWorkspace, GoTo, TypeOK, outside
  <1>3. CASE CreateWorkspace(p)
    BY <1>3 DEF CreateWorkspace, GoTo, TypeOK
  <1>4. CASE CreateConflicts(p)
    BY <1>4, ExitType DEF CreateConflicts, outside
  <1>5. CASE ReadRoot(p)
    BY <1>5 DEF ReadRoot, GoTo, TypeOK, outside, WorkspaceBeforeUse
  <1>6. CASE BuildManager(p)
    <2>1. config' = config /\ workspace' = workspace /\ (config.workspace => workspace)
      BY <1>6 DEF BuildManager, outside, WorkspaceBeforeUse
    <2>2. CASE ControllerOptions /\ toTLSConfig(config.webhook)
      BY <1>6, <2>1, <2>2 DEF BuildManager, GoTo, TypeOK
    <2>3. CASE ~(ControllerOptions /\ toTLSConfig(config.webhook))
      BY <1>6, <2>1, <2>3, ExitType DEF BuildManager
    <2> QED
      BY <2>2, <2>3
  <1>7. CASE InitializeProxy(p)
    <2>1. config' = config /\ workspace' = workspace /\ (config.workspace => workspace)
      BY <1>7 DEF InitializeProxy, outside, WorkspaceBeforeUse
    <2>2. CASE ParseDuration /\ database \in Supported
      BY <1>7, <2>1, <2>2 DEF InitializeProxy, GoTo, TypeOK
    <2>3. CASE ~(ParseDuration /\ database \in Supported)
      BY <1>7, <2>1, <2>3, ExitType DEF InitializeProxy
    <2> QED
      BY <2>2, <2>3
  <1>8. CASE SetupControllers(p)
    BY <1>8 DEF SetupControllers, GoTo, TypeOK, outside, WorkspaceBeforeUse
  <1>9. CASE CallFails(p)
    <2>1. workspace => workspace'
      BY <1>9 DEF CallFails, TypeOK
    <2> QED
      BY <1>9, <2>1, ExitType DEF CallFails
  <1>10. CASE LookupCRDFails(p)
    BY <1>10 DEF LookupCRDFails, GoTo, TypeOK, outside, WorkspaceBeforeUse
  <1> QED
    BY <1>1, <1>2, <1>3, <1>4, <1>5, <1>6, <1>7, <1>8, <1>9, <1>10 DEF RunStep, Succeed

\* No replica gets past the creation of the workspace while there is none, with
\* any number of replicas that look it up and create it at once.
THEOREM WorkspaceBeforeUseHolds == Spec => []WorkspaceBeforeUse
  <1>1. Init => WorkspaceBeforeUse
    BY DEF Init, WorkspaceBeforeUse
  <1>2. TypeOK /\ WorkspaceBeforeUse /\ [Next]_vars => WorkspaceBeforeUse'
    <2> SUFFICES ASSUME TypeOK, WorkspaceBeforeUse, [Next]_vars,
                        NEW q \in Replicas, config'.workspace, Past(q)'
                 PROVE  workspace'
      BY DEF WorkspaceBeforeUse, Past
    <2>1. config.workspace /\ Past(q) => workspace
      BY DEF WorkspaceBeforeUse, Past
    <2>2. ASSUME NEW p \in Replicas, RunStep(p) PROVE workspace'
      <3>1. CASE q = p
        BY <2>2, <3>1, StepFindsWorkspace
      <3>2. CASE q # p
        <4>1. Past(q)
          BY <2>2, <3>2, StepFindsWorkspace DEF Past
        <4> QED
          BY <2>1, <2>2, <4>1, StepFindsWorkspace
      <3> QED
        BY <3>1, <3>2
    <2>3. ASSUME NEW p \in Replicas, Elect(p) PROVE workspace'
      BY <2>1, <2>3 DEF Elect, local, outside, Past
    <2>4. ASSUME NEW p \in Replicas, Kill(p) PROVE workspace'
      <3>1. Exit(p) /\ config' = config /\ workspace' = workspace
        BY <2>4 DEF Kill
      <3>2. q # p /\ phase'[q] = phase[q]
        BY <3>1, ExitType DEF Past
      <3> QED
        BY <2>1, <3>1, <3>2 DEF Past
    <2>5. ASSUME NEW p \in Replicas, WatchFails(p) PROVE workspace'
      <3>1. Exit(p) /\ config' = config /\ workspace' = workspace
        BY <2>5 DEF WatchFails, outside
      <3>2. q # p /\ phase'[q] = phase[q]
        BY <3>1, ExitType DEF Past
      <3> QED
        BY <2>1, <3>1, <3>2 DEF Past
    <2>6. CASE Reconfigure \/ InstallCRD \/ UNCHANGED vars
      BY <2>1, <2>6 DEF Reconfigure, InstallCRD, vars, local, outside, Past
    <2> QED
      BY <2>2, <2>3, <2>4, <2>5, <2>6 DEF RunStep, Next
  <1> QED
    BY <1>1, <1>2, StartupTypeInvariant, PTL DEF Spec

-----------------------------------------------------------------------------
(* The leader is a replica that runs, and whoever has come to its           *)
(* controllers has been through initialize in this very process.            *)

\* p has been through initialize.
Initialized(p) == phase[p] \in {"controllers", "running"} => mode[p] \in Supported

LeaderInv ==
    /\ \A p \in Replicas : Initialized(p)
    /\ leader # None => phase[leader] = "running"

LEMMA StepInitializes ==
    ASSUME TypeOK, LeaderInv, NEW p \in Replicas, RunStep(p)
    PROVE  /\ Initialized(p)'
           /\ \A q \in Replicas \ {p} : phase'[q] = phase[q] /\ mode'[q] = mode[q]
           /\ leader' = leader
           /\ phase[p] # "running"
  <1> USE DEF Initialized
  <1>1. CASE Start(p)
    BY <1>1 DEF Start, GoTo, TypeOK
  <1>2. CASE LookupWorkspace(p)
    BY <1>2 DEF LookupWorkspace, GoTo, TypeOK
  <1>3. CASE CreateWorkspace(p)
    BY <1>3 DEF CreateWorkspace, GoTo, TypeOK
  <1>4. CASE CreateConflicts(p)
    BY <1>4, ExitType DEF CreateConflicts
  <1>5. CASE ReadRoot(p)
    BY <1>5 DEF ReadRoot, GoTo, TypeOK
  <1>6. CASE BuildManager(p)
    <2>1. leader' = leader /\ phase[p] = "manager"
      BY <1>6 DEF BuildManager
    <2>2. CASE ControllerOptions /\ toTLSConfig(config.webhook)
      BY <1>6, <2>1, <2>2 DEF BuildManager, GoTo, TypeOK
    <2>3. CASE ~(ControllerOptions /\ toTLSConfig(config.webhook))
      BY <1>6, <2>1, <2>3, ExitType DEF BuildManager
    <2> QED
      BY <2>2, <2>3
  <1>7. CASE InitializeProxy(p)
    <2>1. leader' = leader /\ phase[p] = "proxy"
      BY <1>7 DEF InitializeProxy
    <2>2. CASE ParseDuration /\ database \in Supported
      BY <1>7, <2>1, <2>2 DEF InitializeProxy, GoTo, TypeOK
    <2>3. CASE ~(ParseDuration /\ database \in Supported)
      BY <1>7, <2>1, <2>3, ExitType DEF InitializeProxy
    <2> QED
      BY <2>2, <2>3
  <1>8. CASE SetupControllers(p)
    BY <1>8 DEF SetupControllers, GoTo, TypeOK, LeaderInv
  <1>9. CASE CallFails(p)
    BY <1>9, ExitType DEF CallFails, Calls
  <1>10. CASE LookupCRDFails(p)
    BY <1>10 DEF LookupCRDFails, GoTo, TypeOK, LeaderInv
  <1> QED
    BY <1>1, <1>2, <1>3, <1>4, <1>5, <1>6, <1>7, <1>8, <1>9, <1>10 DEF RunStep, Succeed

\* The replica that reconciles has itself found a database that initialize takes,
\* although Kong may have been reconfigured, and other replicas restarted, since.
THEOREM LeaderSupportedHolds == Spec => []LeaderSupported
  <1>1. Init => LeaderInv
    BY DEF Init, LeaderInv, Initialized
  <1>2. TypeOK /\ LeaderInv /\ [Next]_vars => LeaderInv'
    <2> SUFFICES ASSUME TypeOK, LeaderInv, [Next]_vars PROVE LeaderInv'
      OBVIOUS
    <2>1. leader \in Replicas \cup {None}
      BY DEF TypeOK
    <2>2. ASSUME NEW p \in Replicas, RunStep(p) PROVE LeaderInv'
      <3>1. \A q \in Replicas : Initialized(q)'
        BY <2>2, StepInitializes DEF LeaderInv, Initialized
      <3>2. leader' # None => phase'[leader'] = "running"
        BY <2>1, <2>2, StepInitializes DEF LeaderInv
      <3> QED
        BY <3>1, <3>2 DEF LeaderInv
    <2>3. ASSUME NEW p \in Replicas, Elect(p) PROVE LeaderInv'
      BY <2>3 DEF Elect, local, LeaderInv, Initialized
    <2>4. ASSUME NEW p \in Replicas, Kill(p) PROVE LeaderInv'
      <3>1. Exit(p) /\ leader' = (IF leader = p THEN None ELSE leader)
        BY <2>4 DEF Kill
      <3>2. \A q \in Replicas : Initialized(q)'
        BY <3>1, ExitType DEF LeaderInv, Initialized
      <3>3. leader' # None => phase'[leader'] = "running"
        BY <2>1, <3>1, ExitType DEF LeaderInv
      <3> QED
        BY <3>2, <3>3 DEF LeaderInv
    <2>5. ASSUME NEW p \in Replicas, WatchFails(p) PROVE LeaderInv'
      <3>1. \A q \in Replicas : Initialized(q)'
        BY <2>5, ExitType DEF WatchFails, LeaderInv, Initialized
      <3> QED
        BY <2>5, <3>1 DEF WatchFails, LeaderInv
    <2>6. CASE Reconfigure \/ InstallCRD \/ UNCHANGED vars
      BY <2>6 DEF Reconfigure, InstallCRD, vars, local, LeaderInv, Initialized
    <2> QED
      BY <2>2, <2>3, <2>4, <2>5, <2>6 DEF RunStep, Next
  <1>3. TypeOK /\ LeaderInv => LeaderSupported
    BY DEF TypeOK, LeaderInv, Initialized, LeaderSupported
  <1> QED
    BY <1>1, <1>2, <1>3, StartupTypeInvariant, PTL DEF Spec
-----------------------------------------------------------------------------
(* Start and BuildManager decide by the operators of TlsOptions, which      *)
(* accept exactly the coherent options; later calls only carry this on.     *)

Beyond(p) == phase[p] \in {"proxy", "controllers", "running"}

LEMMA StepCoherent ==
    ASSUME TypeOK, OnlyCoherent, NEW p \in Replicas, RunStep(p)
    PROVE  /\ config' = config
           /\ phase'[p] # "exited" => MakeHTTPClient(config.client) \/ ClientCoherent(config.client)
           /\ Beyond(p)' => toTLSConfig(config.webhook) \/ WebhookCoherent(config.webhook)
           /\ \A q \in Replicas \ {p} : phase'[q] = phase[q]
  <1> USE DEF Beyond
  <1>1. CASE Start(p)
    BY <1>1 DEF Start, GoTo, TypeOK, outside
  <1>2. CASE LookupWorkspace(p)
    BY <1>2 DEF LookupWorkspace, GoTo, TypeOK, outside, OnlyCoherent
  <1>3. CASE CreateWorkspace(p)
    BY <1>3 DEF CreateWorkspace, GoTo, TypeOK, OnlyCoherent
  <1>4. CASE CreateConflicts(p)
    BY <1>4, ExitType DEF CreateConflicts, outside
  <1>5. CASE ReadRoot(p)
    BY <1>5 DEF ReadRoot, GoTo, TypeOK, outside, OnlyCoherent
  <1>6. CASE BuildManager(p)
    <2>1. config' = config /\ ClientCoherent(config.client)
      BY <1>6 DEF BuildManager, outside, OnlyCoherent
    <2>2. CASE ControllerOptions /\ toTLSConfig(config.webhook)
      BY <1>6, <2>1, <2>2 DEF BuildManager, GoTo, TypeOK
    <2>3. CASE ~(ControllerOptions /\ toTLSConfig(config.webhook))
      BY <1>6, <2>1, <2>3, ExitType DEF BuildManager
    <2> QED
      BY <2>2, <2>3
  <1>7. CASE InitializeProxy(p)
    <2>1. config' = config /\ ClientCoherent(config.client) /\ WebhookCoherent(config.webhook)
      BY <1>7 DEF InitializeProxy, outside, OnlyCoherent
    <2>2. CASE ParseDuration /\ database \in Supported
      BY <1>7, <2>1, <2>2 DEF InitializeProxy, GoTo, TypeOK
    <2>3. CASE ~(ParseDuration /\ database \in Supported)
      BY <1>7, <2>1, <2>3, ExitType DEF InitializeProxy
    <2> QED
      BY <2>2, <2>3
  <1>8. CASE SetupControllers(p)
    BY <1>8 DEF SetupControllers, GoTo, TypeOK, outside, OnlyCoherent
  <1>9. CASE CallFails(p)
    BY <1>9, ExitType DEF CallFails
  <1>10. CASE LookupCRDFails(p)
    BY <1>10 DEF LookupCRDFails, GoTo, TypeOK, outside, OnlyCoherent
  <1> QED
    BY <1>1, <1>2, <1>3, <1>4, <1>5, <1>6, <1>7, <1>8, <1>9, <1>10 DEF RunStep, Succeed

\* Whatever the options and files, no replica calls Kong, and none comes up, with
\* TLS options that are not coherent.
THEOREM OnlyCoherentHolds == Spec => []OnlyCoherent
  <1>1. Init => OnlyCoherent
    BY DEF Init, OnlyCoherent
  <1>2. TypeOK /\ OnlyCoherent /\ [Next]_vars => OnlyCoherent'
    <2> SUFFICES ASSUME TypeOK, OnlyCoherent, [Next]_vars PROVE OnlyCoherent'
      OBVIOUS
    <2>1. config.client \in ClientOptions /\ config.webhook \in WebhookOptions
      BY StartupAssumption DEF TypeOK, Config
    <2>2. ASSUME NEW p \in Replicas, RunStep(p) PROVE OnlyCoherent'
      <3>1. phase'[p] # "exited" => ClientCoherent(config.client)
        BY <2>1, <2>2, StepCoherent, MakeHTTPClientAcceptsCoherent
      <3>2. Beyond(p)' => WebhookCoherent(config.webhook)
        BY <2>1, <2>2, StepCoherent, toTLSConfigAcceptsCoherent
      <3>3. config' = config /\ \A q \in Replicas \ {p} : phase'[q] = phase[q]
        BY <2>2, StepCoherent
      <3> QED
        BY <3>1, <3>2, <3>3 DEF OnlyCoherent, Beyond
    <2>3. ASSUME NEW p \in Replicas, Elect(p) PROVE OnlyCoherent'
      BY <2>3 DEF Elect, local, outside, OnlyCoherent
    <2>4. ASSUME NEW p \in Replicas, Kill(p) PROVE OnlyCoherent'
      <3>1. Exit(p) /\ config' = config
        BY <2>4 DEF Kill
      <3> QED
        BY <3>1, ExitType DEF OnlyCoherent
    <2>5. ASSUME NEW p \in Replicas, WatchFails(p) PROVE OnlyCoherent'
      <3>1. Exit(p) /\ config' = config
        BY <2>5 DEF WatchFails, outside
      <3> QED
        BY <3>1, ExitType DEF OnlyCoherent
    <2>6. CASE Reconfigure \/ InstallCRD \/ UNCHANGED vars
      BY <2>6 DEF Reconfigure, InstallCRD, vars, local, outside, OnlyCoherent
    <2> QED
      BY <2>2, <2>3, <2>4, <2>5, <2>6 DEF RunStep, Next
  <1> QED
    BY <1>1, <1>2, StartupTypeInvariant, PTL DEF Spec
=============================================================================
