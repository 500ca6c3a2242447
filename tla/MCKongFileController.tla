------------------------- MODULE MCKongFileController -------------------------
(***************************************************************************)
(* Small instances of KongFileController for TLC.                          *)
(***************************************************************************)
EXTENDS KongFileController

CONSTANTS k1, k2

Asset(path, name, content) ==
    [kind |-> "ASSET", path |-> path, name |-> name,
     title |-> "", layout |-> "", content |-> content]

\* Each key has a path of its own; an edit changes the contents.
OwnPaths ==
    [k \in Keys |-> IF k = k1 THEN {Asset(<<"css">>, <<"a">>, "1"), Asset(<<"css">>, <<"a">>, "2")}
                              ELSE {Asset(<<"css">>, <<"b">>, "1")}]

\* An edit moves the file and changes its contents.  "css/a" with "x" and "css" with
\* "a/x" are one path.
SharedPaths ==
    [k \in Keys |-> IF k = k1 THEN {Asset(<<"css", "a">>, <<"x">>, "1"), Asset(<<"css">>, <<"b">>, "3")}
                              ELSE {Asset(<<"css">>, <<"a", "x">>, "2")}]
=============================================================================
