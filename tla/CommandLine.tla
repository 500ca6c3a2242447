----------------------------- MODULE CommandLine ------------------------------
(***************************************************************************)
(* What the process makes of its command line and environment before it    *)
(* calls anybody (internal/cmd/rootcmd, manager.Config.FlagSet,            *)
(* util.MakeLogger), and of the headers for Kong that it finds there       *)
(* (Config.GetKongClient, HeaderRoundTripper).                             *)
(*                                                                         *)
(* A value is a string, or, for a flag that may be given several times,    *)
(* the sequence of its values; a header among them is the sequence of the  *)
(* parts around its first colon.                                           *)
(***************************************************************************)
EXTENDS SequencesExt

CONSTANT Unset        \* a flag that is not given, a variable that is not set

\* FlagSet: every flag, by the type of its value.
BoolFlags ==
    {"debug-log-reduce-redundancy", "kong-admin-tls-skip-verify", "anonymous-reports",
     "enable-reverse-sync", "profiling", "update-status-on-shutdown"}

NumberFlags ==
    {"sync-period", "apiserver-qps", "apiserver-burst", "proxy-timeout-seconds",
     "kong-admin-concurrency", "stderrthreshold"}

ListFlags ==
    {"kong-admin-header", "kong-admin-filter-tag", "watch-namespace", "publish-status-address"}

StringFlags ==
    {"log-level", "log-format", "kong-admin-tls-server-name", "kong-admin-ca-cert-file",
     "kong-admin-ca-cert", "kong-admin-token", "kong-workspace",
     "kong-admin-tls-client-cert-file", "kong-admin-tls-client-key-file",
     "kong-admin-tls-client-cert", "kong-admin-tls-client-key", "apiserver-host",
     "metrics-bind-address", "health-probe-bind-address", "kong-admin-url",
     "kong-custom-entities-secret", "kubeconfig", "controller-class", "election-id",
     "election-namespace", "publish-service", "admission-webhook-listen",
     "admission-webhook-cert-file", "admission-webhook-key-file", "admission-webhook-cert",
     "admission-webhook-key"}

Flag == BoolFlags \cup NumberFlags \cup ListFlags \cup StringFlags

\* The defaults, of FlagSet and of the constants it names.
Default(flag) ==
    CASE flag = "log-level"                              -> "info"
      [] flag = "log-format"                             -> "text"
      [] flag = "anonymous-reports"                      -> "true"
      [] flag \in BoolFlags \ {"anonymous-reports"}      -> "false"
      [] flag = "sync-period"                            -> "48h"
      [] flag = "apiserver-qps"                          -> "100"
      [] flag = "apiserver-burst"                        -> "300"
      [] flag = "metrics-bind-address"                   -> ":10255"
      [] flag = "health-probe-bind-address"              -> ":10254"
      [] flag = "kong-admin-url"                         -> "http://localhost:8001"
      [] flag \in {"proxy-timeout-seconds", "kong-admin-concurrency"} -> "10"
      [] flag = "controller-class"                       -> "kong"
      [] flag = "election-id"                            -> "4g374a9e.konghq.com"
      [] flag = "kong-admin-filter-tag"                  -> <<"managed-by-portal-controller">>
      [] flag \in ListFlags \ {"kong-admin-filter-tag"}  -> <<>>
      [] flag = "admission-webhook-listen"               -> "off"
      [] flag = "stderrthreshold"                        -> "0"
      [] OTHER                                           -> ""

\* pflag.Value.Set; of the texts that are no booleans or numbers two are used.
Parses(flag, value) ==
    flag \in BoolFlags \cup NumberFlags => value \notin {"", "junk"}

-----------------------------------------------------------------------------
\* A line is a command line, which gives some flags, with an environment, which sets
\* some variables.  Does cobra take the one, and bindEnvVars the other?  The variable
\* of a flag that is given is not looked at.
Binds(line) ==
    \A flag \in Flag :
       IF line.given[flag] # Unset THEN Parses(flag, line.given[flag])
       ELSE line.env[flag] # Unset => Parses(flag, line.env[flag])

FirstSet(first, second, default) ==
    IF first # Unset THEN first ELSE IF second # Unset THEN second ELSE default

\* Seeded bug: the environment takes precedence.
bindEnvVarsFirst(line) ==
    [flag \in Flag |-> FirstSet(line.env[flag], line.given[flag], Default(flag))]

\* The configuration: flags take precedence over environment variables.
bindEnvVars(line) ==
    [flag \in Flag |-> FirstSet(line.given[flag], line.env[flag], Default(flag))]

\* Is there a logger for this level and format?
MakeLogger(cfg) ==
    /\ cfg["log-level"] \in {"panic", "fatal", "error", "warn", "info", "debug", "trace"}
    /\ cfg["log-format"] \in {"text", "json"}

-----------------------------------------------------------------------------
\* Seeded bug: the token comes before the headers of the command line.
KongHeadersTokenFirst(cfg) ==
    IF cfg["kong-admin-token"] = "" THEN cfg["kong-admin-header"]
    ELSE <<<<"kong-admin-token", cfg["kong-admin-token"]>>>> \o cfg["kong-admin-header"]

\* GetKongClient: the headers to add, the token last.
KongHeaders(cfg) ==
    IF cfg["kong-admin-token"] = "" THEN cfg["kong-admin-header"]
    ELSE Append(cfg["kong-admin-header"], <<"kong-admin-token", cfg["kong-admin-token"]>>)

\* A header to add replaces what is there under its name; one without a colon is skipped.
SetHeader(sent, header) ==
    IF Len(header) < 2 THEN sent
    ELSE [name \in DOMAIN sent \cup {header[1]} |->
            IF name = header[1] THEN <<header[2]>> ELSE sent[name]]

\* RoundTrip: what is sent for a request with headers own, to which one header after
\* the other is added.
RoundTrip(headers, own) ==
    LET sent[n \in 0..Len(headers)] ==
          IF n = 0 THEN own ELSE SetHeader(sent[n - 1], headers[n])
    IN  sent[Len(headers)]
=============================================================================
