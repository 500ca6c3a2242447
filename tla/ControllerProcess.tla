--------------------------- MODULE ControllerProcess ---------------------------
(***************************************************************************)
(* One process of the controller from the command line to its end          *)
(* (internal/cmd, rootcmd.Run, manager.Run): the main goroutine, the       *)
(* worker of the manager and the goroutines of the diagnostics server      *)
(* (Diagnostics) and of the admission server (Admission), all under the    *)
(* one context that a signal cancels.                                      *)
(*                                                                         *)
(* Kong may leave a request without an answer for as long as it likes.     *)
(* What Run does between its calls, and what it does not accept, is in     *)
(* ManagerStartup.                                                         *)
(***************************************************************************)
EXTENDS CommandLine, Diagnostics, Admission

CONSTANTS Lines,         \* the command lines, with their environments, to consider
          MaxStarts      \* at most this many processes, one after the other

ASSUME ProcessAssumption == MaxStarts \in Nat

ASSUME HeadersAssumption ==
    \A l \in Lines : \A v \in {l.given["kong-admin-header"], l.env["kong-admin-header"]} :
       v # Unset => v \in Seq(Seq(STRING))

VARIABLES line,          \* the command line, the same in every process
          main,          \* the main goroutine: "exited", or waiting for Kong under
                         \* the context ("client"), for the API server or Kong with
                         \* a deadline ("discovery", "proxy"), or for the manager
                         \* ("manager")
          worker,        \* does the worker wait for Kong
          signalled,     \* is the context of SetupSignalHandler done
          starts

admissionVars == <<webhook, reviews>>
processVars == <<line, main, worker, signalled, starts>>
vars == <<processVars, diagnosticsVars, admissionVars>>

cfg == bindEnvVars(line)

TypeOK ==
    /\ DiagnosticsTypeOK
    /\ AdmissionTypeOK
    /\ line \in Lines
    /\ main \in {"exited", "client", "discovery", "proxy", "manager"}
    /\ {worker, signalled} \subseteq BOOLEAN
    /\ starts \in 0..MaxStarts

Init ==
    /\ DiagnosticsOff
    /\ AdmissionInit
    /\ line \in Lines
    /\ main = "exited"
    /\ worker = FALSE
    /\ signalled = FALSE
    /\ starts = 0

-----------------------------------------------------------------------------
\* The process ends, however far its goroutines are.  Writes remain.
Exit ==
    /\ main' = "exited"
    /\ worker' = FALSE
    /\ StopDiagnostics
    /\ webhook' = "off"
    /\ UNCHANGED <<line, signalled, starts, reviews>>

GoTo(next) ==
    /\ main' = next
    /\ UNCHANGED <<line, worker, signalled, starts>>

\* StartDiagnosticsServer
StartDiagnosticsServer ==
    IF cfg["profiling"] = "true" THEN Listen ELSE UNCHANGED diagnosticsVars

\* Execute and rootcmd.Run.  When the environment does not bind or there is no
\* such logger, the process ends as it has begun.
Start ==
    /\ main = "exited"
    /\ starts < MaxStarts
    /\ starts' = starts + 1
    /\ signalled' = FALSE
    /\ IF Binds(line) /\ MakeLogger(cfg)
       THEN main' = "client" /\ StartDiagnosticsServer
       ELSE UNCHANGED <<main, diagnosticsVars>>
    /\ UNCHANGED <<line, worker, admissionVars>>

\* Run has its client of Kong, and makes the manager.
ClientReady ==
    /\ main = "client"
    /\ GoTo("discovery")
    /\ UNCHANGED <<diagnosticsVars, admissionVars>>

\* Seeded bug: the calls for the client are made without the context.
ClientNotCancelled == FALSE /\ UNCHANGED vars

\* The calls for the client are made with the context.
ClientCancelled ==
    /\ main = "client"
    /\ signalled
    /\ Exit

\* ctrl.NewManager asks the API server for its kinds, without a context but with a
\* timeout.  Then the admission server starts, and the proxy asks Kong with a
\* context of its own.
ManagerBuilt ==
    /\ main = "discovery"
    /\ GoTo("proxy")
    /\ webhook' = "starting"
    /\ UNCHANGED <<diagnosticsVars, reviews>>

DiscoveryTimesOut ==
    /\ main = "discovery"
    /\ Exit

\* Kong has answered, and so has the API server, or the look-up of the CRD has timed
\* out, which Run does not mind.
ProxyReady ==
    /\ main = "proxy"
    /\ GoTo("manager")
    /\ UNCHANGED <<diagnosticsVars, admissionVars>>

\* proxyRequestTimeout has passed.
ProxyTimesOut ==
    /\ main = "proxy"
    /\ Exit

\* An error of Run, from one of its calls or from the manager, which loses its lease.
RunFails ==
    /\ main # "exited"
    /\ Exit

\* The worker sends Kong a request, and Kong answers.
WorkerCalls ==
    /\ main = "manager"
    /\ ~signalled
    /\ ~worker
    /\ worker' = TRUE
    /\ UNCHANGED <<line, main, signalled, starts, diagnosticsVars, admissionVars>>

KongAnswers ==
    /\ worker
    /\ worker' = FALSE
    /\ UNCHANGED <<line, main, signalled, starts, diagnosticsVars, admissionVars>>

\* The proxy's requests carry the context Run was given.
WorkerCancelled == signalled /\ KongAnswers

\* mgr.Start returns when its context is done and the worker has come to an end.
ManagerStops ==
    /\ main = "manager"
    /\ signalled
    /\ ~worker
    /\ Exit

\* The first signal cancels the context, the second ends the process.
Signal ==
    /\ main # "exited"
    /\ IF signalled
       THEN Exit
       ELSE /\ signalled' = TRUE
            /\ UNCHANGED <<line, main, worker, starts, diagnosticsVars, admissionVars>>

-----------------------------------------------------------------------------
Goroutines ==
    \/ DiagnosticsNext(signalled) /\ UNCHANGED <<processVars, admissionVars>>
    \/ AdmissionNext(cfg["admission-webhook-listen"]) /\ UNCHANGED <<processVars, diagnosticsVars>>

Next ==
    \/ Start \/ ClientReady \/ ClientCancelled \/ ManagerBuilt \/ DiscoveryTimesOut
    \/ ProxyReady \/ ProxyTimesOut \/ RunFails
    \/ WorkerCalls \/ KongAnswers \/ WorkerCancelled \/ ManagerStops \/ Signal
    \/ Goroutines

Spec == Init /\ [][Next]_vars

\* Nothing is assumed of Kong, of the clients of the profiler, of a second signal
\* or of the manager's grace period: only that what a goroutine waits for it sees.
Fairness ==
    /\ WF_vars(ClientCancelled)
    /\ WF_vars(ManagerBuilt \/ DiscoveryTimesOut)
    /\ WF_vars(ProxyReady \/ ProxyTimesOut)
    /\ WF_vars(WorkerCancelled)
    /\ WF_vars(ManagerStops)
    /\ WF_vars(ReceiveError /\ UNCHANGED <<processVars, admissionVars>>)

FairSpec == Spec /\ Fairness

-----------------------------------------------------------------------------
\* A write of a KongFile that the API server lets through under "Fail" is one the
\* validator accepts, and one it refuses on the webhook's word is one the
\* validator rejects: in whatever order answers, timeouts, other writes, signals
\* and restarts come, and with a server that failed to listen.
VerdictIsRight ==
    \A uid \in DOMAIN reviews :
       LET review == reviews[uid] IN
       /\ review.verdict = "stored" /\ Policy = "Fail" =>
             /\ review.resource = "kongfiles"
             /\ review.operation # "DELETE"
             /\ ValidateKongFile(review.spec)
       /\ review.verdict = "denied" => ~ValidateKongFile(review.spec)

\* A profiler is there only if it was asked for: on the command line, or, where
\* the command line does not say, in the environment.
ProfilerAskedFor ==
    server # "off" =>
       \/ line.given["profiling"] = "true"
       \/ line.given["profiling"] = Unset /\ line.env["profiling"] = "true"

\* The places where the command line gives a header of this name a value.
ValuesFor(name) ==
    {i \in DOMAIN cfg["kong-admin-header"] :
        Len(cfg["kong-admin-header"][i]) >= 2 /\ cfg["kong-admin-header"][i][1] = name}

\* Every request to Kong carries the configured token and no other one, each header
\* the command line names, with the last of its values, and nothing else but the
\* request's own headers.
HeadersArrive ==
    main # "exited" =>
       LET headers == cfg["kong-admin-header"]
           token   == cfg["kong-admin-token"]
           secret  == {name \in {"kong-admin-token"} : token # ""}
           own     == "accept" :> <<"own">>
           sent    == RoundTrip(KongHeaders(cfg), own)
       IN  /\ \A name \in secret : name \in DOMAIN sent /\ sent[name] = <<token>>
           /\ \A name \in DOMAIN sent \ secret :
                 \/ ValuesFor(name) = {} /\ name \in DOMAIN own /\ sent[name] = own[name]
                 \/ \E i \in ValuesFor(name) : /\ \A j \in ValuesFor(name) : j <= i
                                               /\ sent[name] = <<headers[i][2]>>
           /\ DOMAIN own \subseteq DOMAIN sent
           /\ \A i \in DOMAIN headers : Len(headers[i]) >= 2 => headers[i][1] \in DOMAIN sent

\* The process stops on a signal, at whatever point of its start-up it is, although
\* Kong never answers the worker or the start-up, and the diagnostics server waits
\* for a client that takes its time.
StopsOnSignal == signalled ~> main = "exited"

\* The goroutine that sends the error of the diagnostics server does not wait for
\* ever, even if the context was done first and nobody receives any more.
SenderIsReleased == server = "sending" ~> server # "sending"
=============================================================================
