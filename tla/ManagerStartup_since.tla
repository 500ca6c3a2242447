------------------------- MODULE ManagerStartup_since --------------------------
(***************************************************************************)
(* ManagerStartup beside a record of the replicas that have been up since  *)
(* before the KongFile CRD was there: whether a replica reconciles is      *)
(* settled once, when its Run asks for the CRD.                            *)
(***************************************************************************)
EXTENDS ManagerStartup

VARIABLE before    \* the replicas up without a break since the CRD was missing

SinceInit == Init /\ before = {}

SinceNext ==
    /\ Next
    /\ before' = {p \in IF crd' THEN before ELSE Replicas : phase'[p] = "running"}

SinceSpec == SinceInit /\ [][SinceNext]_<<vars, before>> /\ Fairness

\* Once the CRD is there and Kong's database stays a supported one, there is in the
\* end a leader for good, and it reconciles KongFiles, unless it has been up since
\* before the CRD was: no failed look-up, restart or handover leaves another one idle.
SomebodyReconciles ==
    Startable /\ <>[](database \in Supported) /\ <>[]crd =>
       <>[](leader # None /\ (watches[leader] \/ leader \in before))
=============================================================================
