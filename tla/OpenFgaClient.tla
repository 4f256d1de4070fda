--------------------------- MODULE OpenFgaClient ---------------------------
(***************************************************************************)
(* The API's OpenFGA service (api/src/openfga.ts): the cached target (store *)
(* and model), the lookup that concurrent requests share, and withTarget,   *)
(* which runs every check, batch check and list against the target, looks   *)
(* a gone target up again once and retries a transient failure once.        *)
(*                                                                          *)
(* A client is a slot that carries one HTTP request at a time.  A call to   *)
(* OpenFGA is three steps: it is sent, OpenFGA evaluates it, the reply is   *)
(* received; it may fail, time out or be aborted at any point in between.   *)
(***************************************************************************)
EXTENDS OpenFgaStores

CONSTANTS Clients,
          Ids,           \* identities of target objects; freed ones are reused
          StoreTTL,      \* FGA_STORE_CACHE_TTL, in ticks
          CallTimeout,   \* CALL_TIMEOUT, in ticks
          PinnedStore,   \* FGA_STORE_ID, or NoStore
          PinnedModel    \* FGA_MODEL_ID, or NoModel

ASSUME ClientAssumption ==
    /\ StoreTTL \in Nat
    /\ CallTimeout \in Nat \ {0}
    /\ PinnedStore \in Stores \cup {NoStore}
    /\ PinnedModel \in Models \cup {NoModel}
    /\ 0 \notin Ids

VARIABLES entry,      \* the cache's only entry: its lookup's progress or exit
          cached,     \* the target object it holds, if the exit is a success
          entryAge,   \* time since the exit
          lookup,     \* the lookup in flight
          pc,         \* per client: where its request is
          held,       \* per client: the target object of its last call
          attempt,    \* per client: 2 once its target was reported gone
          tries,      \* per client: 2 once a transient failure was retried
          timer,      \* per client: how long its call has been in flight
          reply,      \* per client: OpenFGA's reply on its way back
          sent        \* history, per client: calls its request has sent

cacheVars == <<entry, cached, entryAge, lookup>>
requestVars == <<pc, held, attempt, tries, timer, reply, sent>>
vars == <<storeVars, cacheVars, requestVars>>

Exits == {"ok", "transient", "final"}   \* final: a failure no retry can fix
Over == {"idle", "failed"}             \* idle: no request, or the last got its answer

Targets == [id : Ids \cup {0}, store : Stores \cup {NoStore}, model : Models \cup {NoModel}]
NoTarget == [id |-> 0, store |-> NoStore, model |-> NoModel]

Phases == {"none", "listing", "listed", "reading", "read"}
NoLookup == [phase |-> "none", store |-> NoStore, model |-> NoModel, timer |-> 0]

TypeOK ==
    /\ StoreTypeOK
    /\ entry \in {"none", "pending"} \cup Exits
    /\ cached \in Targets
    /\ entryAge \in 0..StoreTTL
    /\ lookup \in [phase : Phases, store : Stores \cup {NoStore},
                   model : Models \cup {NoModel}, timer : 0..CallTimeout]
    /\ pc \in [Clients -> Over \cup {"start", "waiting", "calling", "backoff"}]
    /\ held \in [Clients -> Targets]
    /\ attempt \in [Clients -> 1..2]
    /\ tries \in [Clients -> 1..2]
    /\ timer \in [Clients -> 0..CallTimeout]
    /\ reply \in [Clients -> {"none", "ok", "gone"}]
    /\ sent \in [Clients -> Nat]

(***************************************************************************)
(* The cache, and what the end of a call does to a request.                 *)
(***************************************************************************)
Waiters == {c \in Clients : pc[c] = "waiting"}

\* Mutant: failures live as long as successes.
TimeToLiveAll(exit) == StoreTTL

\* A failure gets a zero TTL.
TimeToLive(exit) == IF exit = "ok" THEN StoreTTL ELSE 0

\* Mutant: a success is kept until it is reported gone.
FreshUntilGone == entry = "ok"

Fresh == entry \in Exits /\ entryAge < TimeToLive(entry)

\* A new object is none of those a request still compares by reference.
FreshId(i) == \A c \in Clients : held[c].id # i

\* The requests in S send their call against target object t.
StartCalls(S, t) ==
    /\ pc' = [c \in Clients |-> IF c \in S THEN "calling" ELSE pc[c]]
    /\ held' = [c \in Clients |-> IF c \in S THEN t ELSE held[c]]
    /\ sent' = [c \in Clients |-> IF c \in S THEN sent[c] + 1 ELSE sent[c]]
    /\ UNCHANGED <<attempt, tries, timer, reply>>

\* Mutant: retries without a limit.
WillRetryForever(c, exit) == exit = "transient"

\* Effect.retry: once, and only what a retry can fix.
WillRetry(c, exit) == exit = "transient" /\ tries[c] = 1

\* The attempts of the requests in S end with this exit.
EndAttempts(S, exit) ==
    /\ pc' = [c \in Clients |-> IF c \notin S THEN pc[c]
                                ELSE IF exit = "ok" THEN "idle"
                                ELSE IF WillRetry(c, exit) THEN "backoff" ELSE "failed"]
    /\ tries' = [c \in Clients |-> IF c \in S /\ ~WillRetry(c, exit) THEN 1 ELSE tries[c]]
    /\ sent' = [c \in Clients |-> IF c \in S /\ ~WillRetry(c, exit) THEN 0 ELSE sent[c]]
    /\ held' = [c \in Clients |-> IF c \in S THEN NoTarget ELSE held[c]]
    /\ attempt' = [c \in Clients |-> IF c \in S THEN 1 ELSE attempt[c]]
    /\ timer' = [c \in Clients |-> IF c \in S THEN 0 ELSE timer[c]]
    /\ reply' = [c \in Clients |-> IF c \in S THEN "none" ELSE reply[c]]

\* The lookup succeeds: its target is cached as a new object, and the requests
\* in S that waited for it send their call.
Settle(S, s, m) ==
    /\ \E i \in Ids :
          /\ FreshId(i)
          /\ cached' = [id |-> i, store |-> s, model |-> m]
          /\ StartCalls(S, [id |-> i, store |-> s, model |-> m])
    /\ entry' = "ok"
    /\ entryAge' = 0
    /\ lookup' = NoLookup

\* Mutant: the failure wakes nobody.
FailLookupAlone(exit) ==
    /\ entry' = exit
    /\ entryAge' = 0
    /\ cached' = NoTarget
    /\ lookup' = NoLookup
    /\ UNCHANGED requestVars

\* The shared lookup fails: so do all that wait for it.
FailLookup(exit) ==
    /\ entry' = exit
    /\ entryAge' = 0
    /\ cached' = NoTarget
    /\ lookup' = NoLookup
    /\ EndAttempts(Waiters, exit)

(***************************************************************************)
(* Requests at the cache.                                                   *)
(***************************************************************************)
Arrive(c) ==
    /\ pc[c] \in Over
    /\ pc' = [pc EXCEPT ![c] = "start"]
    /\ UNCHANGED <<storeVars, cacheVars, held, attempt, tries, timer, reply, sent>>

Hit(c) ==
    /\ pc[c] = "start"
    /\ Fresh
    /\ IF entry = "ok" THEN StartCalls({c}, cached) ELSE EndAttempts({c}, entry)
    /\ UNCHANGED <<storeVars, cacheVars>>

JoinLookup(c) ==
    /\ pc[c] = "start"
    /\ entry = "pending"
    /\ pc' = [pc EXCEPT ![c] = "waiting"]
    /\ UNCHANGED <<storeVars, cacheVars, held, attempt, tries, timer, reply, sent>>

Miss(c) == pc[c] = "start" /\ ~Fresh /\ entry # "pending"

StartLookup(c) ==
    /\ PinnedStore = NoStore \/ PinnedModel = NoModel
    /\ entry' = "pending"
    /\ entryAge' = 0
    /\ cached' = NoTarget
    /\ lookup' = [phase |-> IF PinnedStore = NoStore THEN "listing" ELSE "reading",
                  store |-> PinnedStore, model |-> NoModel, timer |-> 0]
    /\ pc' = [pc EXCEPT ![c] = "waiting"]
    /\ UNCHANGED <<storeVars, held, attempt, tries, timer, reply, sent>>

\* With both pinned the lookup makes no call and settles at once.
PinnedLookup(c) ==
    /\ PinnedStore # NoStore
    /\ PinnedModel # NoModel
    /\ Settle({c}, PinnedStore, PinnedModel)
    /\ UNCHANGED storeVars

LookUp(c) == Miss(c) /\ (StartLookup(c) \/ PinnedLookup(c))

(***************************************************************************)
(* The lookup: list the stores, read the newest model, unless pinned.       *)
(***************************************************************************)
ServeList ==
    /\ lookup.phase = "listing"
    /\ \E s \in Listed : lookup' = [lookup EXCEPT !.phase = "listed", !.store = s]
    /\ UNCHANGED <<storeVars, entry, cached, entryAge, requestVars>>

ReceiveList ==
    /\ lookup.phase = "listed"
    /\ lookup.store # NoStore
    /\ \/ /\ PinnedModel = NoModel
          /\ lookup' = [lookup EXCEPT !.phase = "reading", !.timer = 0]
          /\ UNCHANGED <<entry, cached, entryAge, requestVars>>
       \/ /\ PinnedModel # NoModel
          /\ Settle(Waiters, lookup.store, PinnedModel)
    /\ UNCHANGED storeVars

StoreNotFound ==
    /\ lookup.phase = "listed"
    /\ lookup.store = NoStore
    /\ FailLookup("final")
    /\ UNCHANGED storeVars

ServeModels ==
    /\ lookup.phase = "reading"
    /\ \E m \in Latest(lookup.store) : lookup' = [lookup EXCEPT !.phase = "read", !.model = m]
    /\ UNCHANGED <<storeVars, entry, cached, entryAge, requestVars>>

ReceiveModels ==
    /\ lookup.phase = "read"
    /\ Settle(Waiters, lookup.store, lookup.model)
    /\ UNCHANGED storeVars

LookupCallFails(exit) ==
    /\ lookup.phase # "none"
    /\ FailLookup(exit)
    /\ UNCHANGED storeVars

LookupTimesOut ==
    /\ lookup.phase # "none"
    /\ lookup.timer = CallTimeout
    /\ FailLookup("final")
    /\ UNCHANGED storeVars

(***************************************************************************)
(* The request's own call.                                                  *)
(***************************************************************************)
ServeCheck(c) ==
    /\ pc[c] = "calling"
    /\ reply[c] = "none"
    /\ reply' = [reply EXCEPT ![c] = CheckReply(held[c].store, held[c].model)]
    /\ UNCHANGED <<storeVars, cacheVars, pc, held, attempt, tries, timer, sent>>

\* The call returns: it succeeds with OpenFGA's reply, and may fail at any point.
CallEnds(c, exit) ==
    /\ pc[c] = "calling"
    /\ exit = "ok" => reply[c] = "ok"
    /\ EndAttempts({c}, exit)
    /\ UNCHANGED <<storeVars, cacheVars>>

\* Mutants: a report drops nothing, or whatever the cache holds.
DropNothing(c) == UNCHANGED <<entry, cached, entryAge>>

DropAnything(c) ==
    IF entry = "ok"
    THEN entry' = "none" /\ cached' = NoTarget /\ entryAge' = 0
    ELSE UNCHANGED <<entry, cached, entryAge>>

\* Cache.invalidateWhen: only while the entry still holds the object that failed.
DropIfHeld(c) ==
    IF entry = "ok" /\ cached.id = held[c].id
    THEN entry' = "none" /\ cached' = NoTarget /\ entryAge' = 0
    ELSE UNCHANGED <<entry, cached, entryAge>>

\* Mutant: looks up again every time.
GoneAgain(c) ==
    /\ pc[c] = "calling"
    /\ reply[c] = "gone"
    /\ DropIfHeld(c)
    /\ pc' = [pc EXCEPT ![c] = "start"]
    /\ attempt' = [attempt EXCEPT ![c] = @ + 1]
    /\ timer' = [timer EXCEPT ![c] = 0]
    /\ reply' = [reply EXCEPT ![c] = "none"]
    /\ UNCHANGED <<storeVars, lookup, held, tries, sent>>

Gone(c) ==
    /\ pc[c] = "calling"
    /\ reply[c] = "gone"
    /\ DropIfHeld(c)
    /\ IF attempt[c] = 1
       THEN /\ pc' = [pc EXCEPT ![c] = "start"]
            /\ attempt' = [attempt EXCEPT ![c] = 2]
            /\ timer' = [timer EXCEPT ![c] = 0]
            /\ reply' = [reply EXCEPT ![c] = "none"]
            /\ UNCHANGED <<held, tries, sent>>
       ELSE EndAttempts({c}, "final")
    /\ UNCHANGED <<storeVars, lookup>>

CallTimesOut(c) ==
    /\ pc[c] = "calling"
    /\ timer[c] = CallTimeout
    /\ EndAttempts({c}, "final")
    /\ UNCHANGED <<storeVars, cacheVars>>

Retry(c) ==
    /\ pc[c] = "backoff"
    /\ pc' = [pc EXCEPT ![c] = "start"]
    /\ tries' = [tries EXCEPT ![c] = 2]
    /\ UNCHANGED <<storeVars, cacheVars, held, attempt, timer, reply, sent>>

\* Mutant: the lookup of a client that went away runs on.
DisconnectAlone(c) ==
    /\ pc[c] \notin Over
    /\ pc' = [pc EXCEPT ![c] = "idle"]
    /\ held' = [held EXCEPT ![c] = NoTarget]
    /\ attempt' = [attempt EXCEPT ![c] = 1]
    /\ timer' = [timer EXCEPT ![c] = 0]
    /\ reply' = [reply EXCEPT ![c] = "none"]
    /\ tries' = [tries EXCEPT ![c] = 1]
    /\ sent' = [sent EXCEPT ![c] = 0]
    /\ UNCHANGED <<storeVars, cacheVars>>

\* The client goes away; the last waiter takes the lookup with it.
Disconnect(c) ==
    /\ pc[c] \notin Over
    /\ pc' = [pc EXCEPT ![c] = "idle"]
    /\ held' = [held EXCEPT ![c] = NoTarget]
    /\ attempt' = [attempt EXCEPT ![c] = 1]
    /\ timer' = [timer EXCEPT ![c] = 0]
    /\ reply' = [reply EXCEPT ![c] = "none"]
    /\ tries' = [tries EXCEPT ![c] = 1]
    /\ sent' = [sent EXCEPT ![c] = 0]
    /\ IF Waiters = {c} THEN entry' = "none" /\ lookup' = NoLookup
                        ELSE UNCHANGED <<entry, lookup>>
    /\ UNCHANGED <<storeVars, cached, entryAge>>

(***************************************************************************)
(* Time passes for every timer, but for none past its timeout.              *)
(***************************************************************************)
Tick ==
    /\ \A c \in Clients : timer[c] < CallTimeout
    /\ lookup.timer < CallTimeout
    /\ timer' = [c \in Clients |-> IF pc[c] = "calling" THEN timer[c] + 1 ELSE timer[c]]
    /\ lookup' = [lookup EXCEPT !.timer = IF lookup.phase # "none" THEN @ + 1 ELSE @]
    /\ entryAge' = IF entry \in Exits /\ entryAge < StoreTTL THEN entryAge + 1 ELSE entryAge
    /\ StoresAge
    /\ UNCHANGED <<entry, cached, pc, held, attempt, tries, reply, sent>>

Init ==
    /\ StoreInit
    /\ entry = "none"
    /\ cached = NoTarget
    /\ entryAge = 0
    /\ lookup = NoLookup
    /\ pc = [c \in Clients |-> "idle"]
    /\ held = [c \in Clients |-> NoTarget]
    /\ attempt = [c \in Clients |-> 1]
    /\ tries = [c \in Clients |-> 1]
    /\ timer = [c \in Clients |-> 0]
    /\ reply = [c \in Clients |-> "none"]
    /\ sent = [c \in Clients |-> 0]

LookupNext ==
    \/ ServeList
    \/ ReceiveList
    \/ StoreNotFound
    \/ ServeModels
    \/ ReceiveModels
    \/ \E exit \in {"transient", "final"} : LookupCallFails(exit)
    \/ LookupTimesOut

RequestNext(c) ==
    \/ Arrive(c)
    \/ Hit(c)
    \/ JoinLookup(c)
    \/ LookUp(c)
    \/ ServeCheck(c)
    \/ \E exit \in Exits : CallEnds(c, exit)
    \/ Gone(c)
    \/ CallTimesOut(c)
    \/ Retry(c)
    \/ Disconnect(c)

WorldNext == StoreNext /\ UNCHANGED <<cacheVars, requestVars>>

Next ==
    \/ LookupNext
    \/ \E c \in Clients : RequestNext(c)
    \/ WorldNext
    \/ Tick

Spec == Init /\ [][Next]_vars

(***************************************************************************)
(* Fairness: fibers run, timers fire and clocks advance.  Nothing obliges   *)
(* OpenFGA to answer, a client to stay or an operator to act.               *)
(***************************************************************************)
ProcessFairness(c) == WF_vars(Hit(c) \/ JoinLookup(c) \/ LookUp(c) \/ Retry(c))

FairSpec ==
    /\ Spec
    /\ WF_vars(Tick)
    /\ WF_vars(LookupTimesOut)
    /\ \A c \in Clients : ProcessFairness(c) /\ WF_vars(CallTimesOut(c))

(***************************************************************************)
(* Properties                                                               *)
(***************************************************************************)

\* One shared lookup, and only for somebody: a lookup is in flight exactly
\* while the entry is pending, and exactly while a request waits for it.  A
\* request never waits for a lookup that was cancelled or has settled
\* (openfga.ts:8-9, 161-168).
LookupIsAwaited ==
    /\ (lookup.phase # "none") <=> (entry = "pending")
    /\ (entry = "pending") <=> (Waiters # {})

\* A request whose target was reported gone never finds that same object in
\* the cache again, whatever other requests looked up, dropped or let expire
\* in the meantime (openfga.ts:173-195).
GoneNotReused ==
    \A c \in Clients :
        pc[c] \in {"start", "waiting"} /\ attempt[c] = 2 /\ entry = "ok"
            => cached.id # held[c].id

\* A store deleted or replaced under the same name is caught by the TTL: no
\* call is in flight against a store that left the listing longer ago than
\* the TTL and three call timeouts, the list and the read that fetched it and
\* the call itself (openfga.ts:6-7).  A pinned store is never looked up again.
StalenessBound == StoreTTL + 3 * CallTimeout

BoundedStaleness ==
    PinnedStore = NoStore =>
        \A c \in Clients :
            pc[c] = "calling" => unlistedFor[held[c].store] <= StalenessBound

\* The inductive form of BoundedStaleness: how long ago the store that each
\* stage holds may have left the listing (openfga.ts:144-168, 173-178).
AgeInv ==
    /\ \A s \in Stores : status[s] \in {"unused", "live"} => unlistedFor[s] = 0
    /\ PinnedStore = NoStore =>
        /\ lookup.phase = "listed" /\ lookup.store # NoStore
              => unlistedFor[lookup.store] <= lookup.timer
        /\ lookup.phase \in {"reading", "read"}
              => lookup.store # NoStore /\ unlistedFor[lookup.store] <= CallTimeout + lookup.timer
        /\ entry = "ok"
              => /\ cached.store # NoStore
                 /\ entryAge < StoreTTL => unlistedFor[cached.store] <= 2 * CallTimeout + entryAge
        /\ \A c \in Clients : pc[c] = "calling"
              => /\ held[c].store # NoStore
                 /\ unlistedFor[held[c].store] <= 2 * CallTimeout + StoreTTL + timer[c]

\* One retry policy: a request sends at most two calls per try, the second
\* only after a target was reported gone, and has at most two tries
\* (openfga.ts:10-12, 187-193).
CallBudget ==
    \A c \in Clients : sent[c] <= 2 * tries[c]

\* The inductive form of CallBudget: what a request may have sent where it is,
\* and what it has reset by then (openfga.ts:173-195).
RequestInv ==
    \A c \in Clients :
        /\ pc[c] \in Over => sent[c] = 0 /\ tries[c] = 1 /\ attempt[c] = 1
        /\ pc[c] = "backoff" => sent[c] <= 2 /\ tries[c] = 1 /\ attempt[c] = 1
        /\ pc[c] \in {"start", "waiting"} => sent[c] <= 2 * (tries[c] - 1) + attempt[c] - 1
        /\ pc[c] = "calling" => sent[c] <= 2 * (tries[c] - 1) + attempt[c]
        /\ pc[c] # "calling" => timer[c] = 0

\* A target that has not expired is dropped only when a call on that very
\* object was told it is gone, so a late report about an older target never
\* costs the others the one just looked up (openfga.ts:179-185).
FreshTargetKept ==
    [][ entry = "ok" /\ Fresh /\ cached' # cached
        => \E c \in Clients : reply[c] = "gone" /\ held[c].id = cached.id ]_vars

\* A failed lookup is not cached: a request that arrives at the cache never
\* fails there with a failure from before it came (openfga.ts:9, 161-163).
FailureNotCached ==
    [][ \A c \in Clients : pc[c] = "start" => pc'[c] \notin {"failed", "backoff"} ]_vars

\* Every request ends, even if OpenFGA never answers anything again
\* (openfga.ts:130-142).
RequestEnds == \A c \in Clients : pc[c] \notin Over ~> pc[c] \in Over

\* The service implements the promise it makes of every request: the calls it
\* may send, its one retry and its end (openfga.ts:10-13, 173-195).
Promise == INSTANCE RequestPromise WITH
    running <- [c \in Clients |-> pc[c] \notin Over],
    retried <- [c \in Clients |-> tries[c] = 2],
    calls   <- sent

PromiseKept == Promise!Spec

\* The header's claim: the cached pair is dropped as soon as OpenFGA says the
\* store or the model is gone (openfga.ts:4-6).  Claimed only of a store and a
\* model that were there when they were looked up and have been wiped since.
GonePairDropped ==
    [][ \A c \in Clients :
          Gone(c) /\ held[c].model # NoModel /\ held[c].store \in {s \in Stores : status[s] = "wiped"}
            => ~ /\ Fresh'
                 /\ cached'.store = held[c].store
                 /\ cached'.model = held[c].model ]_vars
=============================================================================
