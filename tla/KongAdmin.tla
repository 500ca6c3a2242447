------------------------------ MODULE KongAdmin -------------------------------
(***************************************************************************)
(* Kong's Admin API as internal/kong/file_service.go uses it: the files of *)
(* the developer portal, and the requests that change them.                *)
(*                                                                         *)
(* A request may fail on the way (client.Do returns an error).  Kong may   *)
(* never see it, may have applied it and lost the answer, or may apply it  *)
(* later, when its caller no longer waits: such requests are in "late".    *)
(***************************************************************************)
EXTENDS Naturals, FiniteSets, KongFile

CONSTANT MaxLate     \* at most this many late requests at a time

ASSUME LateAssumption == MaxLate \in Nat

VARIABLES kong,      \* the files the portal serves
          late       \* requests whose caller is gone

Request == [method: {"PUT", "DELETE"}, file: File]

KongTypeOK ==
    /\ kong \subseteq File
    /\ late \subseteq Request

KongInit ==
    /\ kong = {}
    /\ late = {}

-----------------------------------------------------------------------------
Others(path) == {f \in kong : f.path # path}

\* PUT /files/<path> replaces the file there; DELETE removes it if it exists.
Apply(req) ==
    kong' = IF req.method = "PUT"
            THEN Others(req.file.path) \cup {req.file}
            ELSE Others(req.file.path)

\* GET /files/<path> succeeds; of a path without a file it is a 404, which the
\* client reports as an error.
Serves(path) == \E f \in kong : f.path = path

-----------------------------------------------------------------------------
\* What becomes of requests whose caller stops waiting (an error, a crash).
Abandon(reqs) ==
    \/ UNCHANGED <<kong, late>>                        \* Kong never sees them
    \/ /\ \E req \in reqs : Apply(req)                 \* applied, answer lost
       /\ UNCHANGED late
    \/ /\ Cardinality(late \cup reqs) <= MaxLate       \* still under way
       /\ late' = late \cup reqs
       /\ UNCHANGED kong

\* A late request reaches Kong, or is lost after all.
LateArrives ==
    \E req \in late :
       /\ late' = late \ {req}
       /\ Apply(req) \/ UNCHANGED kong
=============================================================================
