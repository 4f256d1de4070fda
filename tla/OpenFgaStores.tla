--------------------------- MODULE OpenFgaStores ---------------------------
(***************************************************************************)
(* The stores and authorization models OpenFGA keeps in PostgreSQL, as far *)
(* as the API can tell them apart: the stores that carry the configured    *)
(* name and the models of each.  Ids are ULIDs, so their order is the      *)
(* order of creation; an id is never used again.                           *)
(***************************************************************************)
EXTENDS Integers

CONSTANTS MaxStore,   \* bound: stores ever created under the configured name
          MaxModel,   \* bound: models ever written
          AgeCap      \* bound: unlistedFor stops counting here

ASSUME BoundsAssumption ==
    /\ MaxStore \in Nat \ {0}
    /\ MaxModel \in Nat
    /\ AgeCap \in Nat

Stores == 1..MaxStore
Models == 1..MaxModel
NoStore == 0
NoModel == 0      \* also: a request that names no model means the latest

VARIABLES status,       \* per store: what the store table says of it
          owner,        \* per model: the store it was written to, or NoStore
          unlistedFor   \* history, per store: time since it left the listing

storeVars == <<status, owner, unlistedFor>>

StoreTypeOK ==
    /\ status \in [Stores -> {"unused", "live", "deleted", "wiped"}]
    /\ owner \in [Models -> Stores \cup {NoStore}]
    /\ unlistedFor \in [Stores -> 0..AgeCap]

Live == {s \in Stores : status[s] = "live"}

\* A soft-deleted store keeps its models and still answers.
HasRows(s) == s \in Stores /\ status[s] \in {"live", "deleted"}

ModelsOf(s) == {m \in Models : HasRows(s) /\ owner[m] = s}

\* ListStores: rows that are not deleted, by id; the client takes the first.
Listed == IF Live = {} THEN {NoStore} ELSE {s \in Live : \A x \in Live : s <= x}

\* ReadAuthorizationModels with page size 1: the newest, or nothing.
Latest(s) == IF ModelsOf(s) = {} THEN {NoModel}
             ELSE {m \in ModelsOf(s) : \A x \in ModelsOf(s) : x <= m}

\* What a check against (store, model) gets: an answer, or "store or model gone".
CheckReply(s, m) ==
    IF (m = NoModel /\ ModelsOf(s) # {}) \/ m \in ModelsOf(s) THEN "ok" ELSE "gone"

StoreInit ==
    /\ status = [s \in Stores |-> "unused"]
    /\ owner = [m \in Models |-> NoStore]
    /\ unlistedFor = [s \in Stores |-> 0]

CreateStore(s) ==
    /\ status[s] = "unused"
    /\ \A x \in Stores : x < s => status[x] # "unused"
    /\ status' = [status EXCEPT ![s] = "live"]
    /\ UNCHANGED <<owner, unlistedFor>>

WriteModel(s, m) ==
    /\ status[s] = "live"
    /\ owner[m] = NoStore
    /\ \A x \in Models : x < m => owner[x] # NoStore
    /\ owner' = [owner EXCEPT ![m] = s]
    /\ UNCHANGED <<status, unlistedFor>>

\* Soft delete: the row stays, marked, and leaves every later listing.
DeleteStore(s) ==
    /\ status[s] = "live"
    /\ status' = [status EXCEPT ![s] = "deleted"]
    /\ UNCHANGED <<owner, unlistedFor>>

\* The datastore is replaced by an empty one behind the same OpenFGA address.
Wipe ==
    /\ \E s \in Stores : HasRows(s)
    /\ status' = [s \in Stores |-> IF HasRows(s) THEN "wiped" ELSE status[s]]
    /\ UNCHANGED <<owner, unlistedFor>>

StoreNext ==
    \/ \E s \in Stores : CreateStore(s) \/ DeleteStore(s)
    \/ \E s \in Stores, m \in Models : WriteModel(s, m)
    \/ Wipe

\* The passage of one unit of time, as the history variable sees it.
StoresAge ==
    /\ unlistedFor' = [s \in Stores |->
          IF status[s] \in {"deleted", "wiped"} /\ unlistedFor[s] < AgeCap
          THEN unlistedFor[s] + 1 ELSE unlistedFor[s]]
    /\ UNCHANGED <<status, owner>>
=============================================================================
