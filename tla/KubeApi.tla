------------------------------- MODULE KubeApi --------------------------------
(***************************************************************************)
(* The Kubernetes API server and the informer of the controller's manager, *)
(* as the reconciler uses them (neither is in this repository).            *)
(*                                                                         *)
(* log[k] is every state the KongFile named k has had, in etcd order, and  *)
(* starts with NoObj; a position in it is a resourceVersion.  The informer *)
(* has read log[k] up to seen[k]: what r.Get returns is the object there,  *)
(* which may be older than the API server's.                               *)
(***************************************************************************)
EXTENDS Naturals, Sequences, KongFile, ClassFilter

CONSTANTS Classes,    \* values of the class annotation
          NoObj,      \* there is no such object
          Webhook,    \* is ValidateKongFile registered with the API server
          UserOps,    \* what users (and the resync timer) do in this model
          MaxLog      \* users write no more once log[k] is this long

ASSUME KubeAssumption ==
    /\ ControllerClass \in Classes
    /\ Webhook \in BOOLEAN
    /\ MaxLog \in Nat

\* validated is status.validated; finalizer says that some other controller
\* holds a finalizer, terminating that the deletion timestamp is set.
Object == [class: Classes, spec: AllSpecs, validated: BOOLEAN,
           terminating: BOOLEAN, finalizer: BOOLEAN]

ASSUME NoObjAssumption == NoObj \notin Object

VARIABLES log, seen

api(k)    == log[k][Len(log[k])]     \* the object now
cached(k) == log[k][seen[k]]         \* the object in the informer's cache

KubeTypeOK ==
    /\ log \in [Keys -> Seq(Object \cup {NoObj})]
    /\ seen \in [Keys -> Nat]
    /\ \A k \in Keys : seen[k] \in 1..Len(log[k])

KubeInit ==
    /\ log = [k \in Keys |-> <<NoObj>>]
    /\ seen = [k \in Keys |-> 1]

-----------------------------------------------------------------------------
Write(k, obj) == log' = [log EXCEPT ![k] = Append(@, obj)]

\* A user may write to k, by an operation of this model.
May(op, k) == op \in UserOps /\ Len(log[k]) < MaxLog

Admitted(spec) == Webhook => ValidateKongFile(spec)

UserCreate(k) ==
    /\ May("create", k)
    /\ api(k) = NoObj
    /\ \E c \in Classes, s \in Specs[k], f \in BOOLEAN :
          /\ Admitted(s)
          /\ f => "finalize" \in UserOps
          /\ Write(k, [class |-> c, spec |-> s, validated |-> FALSE,
                       terminating |-> FALSE, finalizer |-> f])

\* status is a subresource: no user write reaches it, so it outlives an edit.
UserEditSpec(k) ==
    /\ May("editSpec", k)
    /\ api(k) # NoObj
    /\ \E s \in Specs[k] \ {api(k).spec} :
          /\ Admitted(s)
          /\ Write(k, [api(k) EXCEPT !.spec = s])

UserEditClass(k) ==
    /\ May("editClass", k)
    /\ api(k) # NoObj
    /\ \E c \in Classes \ {api(k).class} : Write(k, [api(k) EXCEPT !.class = c])

\* The controller sets no finalizer, so without another's the object is gone.
UserDelete(k) ==
    /\ May("delete", k)
    /\ api(k) # NoObj
    /\ ~api(k).terminating
    /\ Write(k, IF api(k).finalizer THEN [api(k) EXCEPT !.terminating = TRUE] ELSE NoObj)

\* The other controller drops its finalizer from a terminating object.
UserFinalize(k) ==
    /\ May("finalize", k)
    /\ api(k) # NoObj
    /\ api(k).terminating
    /\ Write(k, NoObj)

UserWrites(k) ==
    UserCreate(k) \/ UserEditSpec(k) \/ UserEditClass(k) \/ UserDelete(k) \/ UserFinalize(k)

-----------------------------------------------------------------------------
\* r.Status().Update: accepted only at the current version of the object.
StatusUpdate(k, ver) ==
    /\ ver = Len(log[k])
    /\ api(k) # NoObj
    /\ Write(k, [api(k) EXCEPT !.validated = TRUE])

-----------------------------------------------------------------------------
\* Does the informer's move from one object to another queue a reconcile?
Passes(old, new) ==
    CASE old = NoObj /\ new = NoObj -> FALSE
      [] old = NoObj /\ new # NoObj -> FilterFunc(new)
      [] old # NoObj /\ new = NoObj -> FilterFunc(old)
      [] OTHER                      -> UpdateFunc(old, new)

\* The informer receives the next watch event of k, or relists after a broken
\* watch and skips to a later state.
Observe(k, n) ==
    /\ n \in {seen[k] + 1, Len(log[k])}
    /\ seen[k] < n
    /\ seen' = [seen EXCEPT ![k] = n]
=============================================================================
