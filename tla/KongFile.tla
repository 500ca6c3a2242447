------------------------------- MODULE KongFile -------------------------------
(***************************************************************************)
(* The KongFile resource (pkg/apis/v1/kongfile_types.go), the file of the  *)
(* developer portal it stands for (proxy.Build) and the check the          *)
(* admission webhook makes of it (admission.ValidateKongFile).             *)
(*                                                                         *)
(* A path is the sequence of the segments of the Go string between its     *)
(* slashes, so joining two strings with "/" is concatenation: "a/b" is     *)
(* <<"a", "b">> and the empty string is <<"">>.  Titles, layouts and       *)
(* contents are opaque strings.                                            *)
(***************************************************************************)
EXTENDS Sequences

CONSTANTS Keys,      \* namespace/name of the KongFiles
          Specs      \* Specs[k]: the specs users write under k

Kind == {"CONTENT", "SPECIFICATION", "ASSET"}

EmptyPath == <<"">>

\* The CRD makes every field optional; an unset field is the empty string.
KongFileSpec == [kind: Kind \cup {""}, path: Seq(STRING), name: Seq(STRING),
                 title: STRING, layout: STRING, content: STRING]

ASSUME SpecsAssumption == Specs \in [Keys -> SUBSET KongFileSpec]

AllSpecs == UNION {Specs[k] : k \in Keys}

-----------------------------------------------------------------------------
\* services.isEmptyString: a file without a path is refused before any request.
isEmptyString(path) == path = EmptyPath

\* Where the portal keeps the files of each kind.
Folder == [CONTENT       |-> <<"content">>,
           ASSET         |-> <<"base", "assets">>,
           SPECIFICATION |-> <<"specs">>]

\* The file of a KongFile.  A kind that is none of the three leaves both the
\* path and the contents empty.
Build(spec) ==
    [path     |-> IF spec.kind \in Kind
                  THEN Folder[spec.kind] \o spec.path \o spec.name
                  ELSE EmptyPath,
     contents |-> CASE spec.kind = "CONTENT" -> <<spec.title, spec.layout, spec.content>>
                    [] spec.kind \in {"SPECIFICATION", "ASSET"} -> <<spec.content>>
                    [] OTHER -> <<>>]

File == {Build(s) : s \in AllSpecs}

-----------------------------------------------------------------------------
\* The webhook's answer for a resource whose metadata.name is not empty (the
\* API server gives every resource a name).
ValidateKongFile(spec) ==
    /\ spec.name # EmptyPath
    /\ spec.path # EmptyPath
    /\ spec.kind = "CONTENT" => spec.title # "" /\ spec.layout # ""
=============================================================================
