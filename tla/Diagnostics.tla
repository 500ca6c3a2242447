----------------------------- MODULE Diagnostics ------------------------------
(***************************************************************************)
(* The diagnostics server (internal/diagnostics): the goroutine of Listen, *)
(* that of ListenAndServe, and that of receiveConfig.  The first two meet  *)
(* on a channel without a buffer: who sends an error waits until the other *)
(* receives it.                                                            *)
(***************************************************************************)
VARIABLES listener,    \* Listen: where it is
          server,      \* ListenAndServe and the error it sends
          collecting,  \* is receiveConfig running
          profile      \* does a client wait for a profile

diagnosticsVars == <<listener, server, collecting, profile>>

DiagnosticsTypeOK ==
    /\ listener \in {"off", "select", "shutdown", "done"}
    /\ server \in {"off", "starting", "serving", "sending", "done"}
    /\ {collecting, profile} \subseteq BOOLEAN

DiagnosticsOff ==
    /\ listener = "off"
    /\ server = "off"
    /\ collecting = FALSE
    /\ profile = FALSE

\* The process ends, and its goroutines with it.
StopDiagnostics ==
    /\ listener' = "off"
    /\ server' = "off"
    /\ collecting' = FALSE
    /\ profile' = FALSE

-----------------------------------------------------------------------------
\* Listen starts the other two and waits.
Listen ==
    /\ listener' = "select"
    /\ server' = "starting"
    /\ collecting' = TRUE
    /\ UNCHANGED profile

\* The address is free or taken, unless Shutdown has been called before.
ListenAndServe ==
    /\ server = "starting"
    /\ server' \in IF listener = "select" THEN {"serving", "sending"} ELSE {"done"}
    /\ UNCHANGED <<listener, collecting, profile>>

\* Seeded bug: Listen waits for the context only.
ReceiveNothing == FALSE /\ UNCHANGED diagnosticsVars

\* case err := <-errChan
ReceiveError ==
    /\ server = "sending"
    /\ listener = "select"
    /\ listener' = "done"
    /\ server' = "done"
    /\ UNCHANGED <<collecting, profile>>

\* case <-ctx.Done(): Shutdown closes the address and waits for the clients.
Shutdown(ctxDone) ==
    /\ ctxDone
    /\ listener = "select"
    /\ listener' = "shutdown"
    /\ server' = IF server = "serving" THEN "done" ELSE server
    /\ UNCHANGED <<collecting, profile>>

ShutdownReturns ==
    /\ listener = "shutdown"
    /\ ~profile
    /\ listener' = "done"
    /\ UNCHANGED <<server, collecting, profile>>

receiveConfig(ctxDone) ==
    /\ ctxDone
    /\ collecting
    /\ collecting' = FALSE
    /\ UNCHANGED <<listener, server, profile>>

\* A client of /debug/pprof, for as long as it likes.
Profile ==
    /\ profile' = ~profile
    /\ server = "serving" \/ profile
    /\ UNCHANGED <<listener, server, collecting>>

DiagnosticsNext(ctxDone) ==
    \/ ListenAndServe \/ ReceiveError \/ Shutdown(ctxDone) \/ ShutdownReturns
    \/ receiveConfig(ctxDone) \/ Profile
=============================================================================
