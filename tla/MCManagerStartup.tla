--------------------------- MODULE MCManagerStartup ----------------------------
(***************************************************************************)
(* Two replicas of ManagerStartup for TLC, with a set of command lines.    *)
(***************************************************************************)
EXTENDS ManagerStartup_since

CONSTANTS p1, p2

Texts == {"", "ca", "cert", "key", "junk"}
OnePair == {<<"cert", "key">>}

\* No option given; the files of the webhook are mounted where they are expected.
NoPair == [certPath |-> Unset, cert |-> "", keyPath |-> Unset, key |-> ""]
Plain ==
    [workspace |-> TRUE, listen |-> "address", publishService |-> 0, timeout |-> "plain",
     client |-> [caPath |-> Unset, ca |-> "", pair |-> NoPair],
     webhook |-> [pair |-> NoPair, defaultCert |-> "cert", defaultKey |-> "key"]]

\* Everything given, and nothing mounted.
Full ==
    [workspace |-> FALSE, listen |-> "address", publishService |-> 2, timeout |-> "plain",
     client |-> [caPath |-> "ca", ca |-> "",
                 pair |-> [NoPair EXCEPT !.certPath = "cert", !.key = "key"]],
     webhook |-> [pair |-> [NoPair EXCEPT !.cert = "cert", !.key = "key"],
                  defaultCert |-> Unreadable, defaultKey |-> Unreadable]]

\* What Run cannot use, one mistake each.
Mistakes ==
    {[Full EXCEPT !.client.ca = "ca"],
     [Full EXCEPT !.client.caPath = "junk"],
     [Full EXCEPT !.client.pair.cert = "cert"],
     [Full EXCEPT !.client.pair.key = ""],
     [Full EXCEPT !.client.pair.certPath = Unreadable],
     [Full EXCEPT !.webhook.pair.keyPath = "key"],
     [Full EXCEPT !.webhook.pair.keyPath = "key", !.webhook.pair.key = ""],
     [Full EXCEPT !.webhook.pair = NoPair],
     [Full EXCEPT !.publishService = 3],
     [Full EXCEPT !.timeout = "exponent"]}

CommandLines == {Plain, Full} \cup Mistakes

\* The webhook is switched off, and nothing is mounted for it.
SwitchedOff ==
    {[Plain EXCEPT !.listen = "off", !.webhook.defaultCert = Unreadable,
                   !.webhook.defaultKey = Unreadable]}
=============================================================================
