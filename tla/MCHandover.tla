------------------------------ MODULE MCHandover ------------------------------
(***************************************************************************)
(* A small instance of Handover for TLC.                                   *)
(***************************************************************************)
EXTENDS Handover

CONSTANT k1

Stylesheet(content) ==
    [kind |-> "ASSET", path |-> <<"css">>, name |-> <<"a">>,
     title |-> "", layout |-> "", content |-> content]

\* An edit changes the contents.
TwoContents == [k \in Keys |-> {Stylesheet("1"), Stylesheet("2")}]
=============================================================================
