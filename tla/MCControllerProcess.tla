------------------------- MODULE MCControllerProcess --------------------------
(***************************************************************************)
(* A small instance of ControllerProcess for TLC.                          *)
(***************************************************************************)
EXTENDS ControllerProcess

CONSTANT k1

Page(title) ==
    [kind |-> "CONTENT", path |-> <<"guides">>, name |-> <<"a">>,
     title |-> title, layout |-> "system", content |-> "1"]

\* One page the validator accepts and one without a title.
Pages == [k \in Keys |-> {Page("A"), Page("")}]

Nothing == [given |-> [flag \in Flag |-> Unset], env |-> [flag \in Flag |-> Unset]]

\* A token that competes with a header, headers given twice, one that is none, and a
\* variable that is not looked at.
Token == [Nothing EXCEPT
    !.env["kong-admin-token"] = "secret",
    !.given["kong-admin-header"] =
        <<<<"kong-admin-token", "old">>, <<"accept", "x">>, <<"accept", "y">>, <<"junk">>>>,
    !.given["profiling"] = "false",
    !.env["profiling"] = "junk"]

\* The profiler asked for in the environment, and the same taken back on the command line.
Profiler == [Nothing EXCEPT !.env["profiling"] = "true",
                            !.given["admission-webhook-listen"] = "address"]
NoProfiler == [Profiler EXCEPT !.given["profiling"] = "false", !.env["log-format"] = "json"]

\* What does not bind, and what no logger takes.
Mistakes ==
    {[Profiler EXCEPT !.given["profiling"] = "junk"],
     [Nothing EXCEPT !.env["stderrthreshold"] = ""],
     [Nothing EXCEPT !.env["log-level"] = "loud"]}

CommandLines == {Token, Profiler, NoProfiler} \cup Mistakes
=============================================================================
