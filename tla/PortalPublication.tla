--------------------------- MODULE PortalPublication ---------------------------
(***************************************************************************)
(* What the controller promises about the developer portal, without        *)
(* informers, queues, caches, requests and restarts: the portal gets only  *)
(* files somebody has asked for, one per path, and loses only files of     *)
(* KongFiles that have been deleted.                                       *)
(***************************************************************************)
CONSTANT File        \* files: records with a field "path"

VARIABLES asked,     \* the files asked for so far
          gone,      \* the paths of files of KongFiles deleted so far
          portal     \* the files the portal serves

vars == <<asked, gone, portal>>

Init ==
    /\ asked = {}
    /\ gone = {}
    /\ portal = {}

\* Users ask for more, and delete more; neither can be taken back.
Move ==
    /\ asked \subseteq asked' /\ asked' \subseteq File
    /\ gone \subseteq gone'

Elsewhere(path) == {f \in portal : f.path # path}

Publish(f) == portal' = Elsewhere(f.path) \cup {f}

Withdraw(path) == portal' = Elsewhere(path)

Next ==
    /\ Move
    /\ \/ UNCHANGED portal
       \/ \E f \in asked : Publish(f)
       \/ \E path \in gone : Withdraw(path)

Spec == Init /\ [][Next]_vars
=============================================================================
