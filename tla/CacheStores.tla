----------------------------- MODULE CacheStores ------------------------------
(***************************************************************************)
(* internal/store: the proxy's cache of the KongFiles it has been given,   *)
(* keyed by namespace/name.  It is memory of the process; all the proxy    *)
(* ever uses of an entry is its spec.                                      *)
(***************************************************************************)
EXTENDS KongFile

CONSTANT NoSpec      \* nothing is cached

ASSUME NoSpecAssumption == NoSpec \notin KongFileSpec

VARIABLE store

StoreTypeOK == store \in [Keys -> AllSpecs \cup {NoSpec}]

StoreInit == store = [k \in Keys |-> NoSpec]

Exists(k) == store[k] # NoSpec

StoreUpdate(k, spec) == store' = [store EXCEPT ![k] = spec]

StoreDelete(k) == store' = [store EXCEPT ![k] = NoSpec]
=============================================================================
