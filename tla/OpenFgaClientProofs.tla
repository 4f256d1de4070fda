------------------------ MODULE OpenFgaClientProofs ------------------------
(***************************************************************************)
(* Proofs about OpenFgaClient, for any number of clients, stores and models, *)
(* any TTL and timeout, and every combination of pins.                       *)
(***************************************************************************)
EXTENDS OpenFgaClient, TLAPS

USE DEF Stores, Models, NoStore, NoModel, Exits, Over, Targets, NoTarget, Phases, NoLookup

(***************************************************************************)
(* Type correctness                                                         *)
(***************************************************************************)
LEMMA InitType == Init => TypeOK
  BY BoundsAssumption, ClientAssumption
  DEF Init, StoreInit, TypeOK, StoreTypeOK

\* The store table keeps its types, whoever changes it and as it ages.
LEMMA StoreStepType ==
  ASSUME StoreTypeOK, StoreNext \/ StoresAge \/ UNCHANGED storeVars
  PROVE  StoreTypeOK'
<1>1. ASSUME NEW s \in Stores, CreateStore(s) PROVE StoreTypeOK'
  BY <1>1 DEF StoreTypeOK, CreateStore
<1>2. ASSUME NEW s \in Stores, DeleteStore(s) PROVE StoreTypeOK'
  BY <1>2 DEF StoreTypeOK, DeleteStore
<1>3. ASSUME NEW s \in Stores, NEW m \in Models, WriteModel(s, m) PROVE StoreTypeOK'
  BY <1>3 DEF StoreTypeOK, WriteModel
<1>4. CASE Wipe
  BY <1>4 DEF StoreTypeOK, Wipe
<1>5. CASE StoresAge
  BY <1>5, BoundsAssumption DEF StoreTypeOK, StoresAge
<1>6. CASE UNCHANGED storeVars
  BY <1>6 DEF StoreTypeOK, storeVars
<1> QED BY <1>1, <1>2, <1>3, <1>4, <1>5, <1>6 DEF StoreNext

\* The calls of any set of requests, sent against a target.
LEMMA StartCallsType ==
  ASSUME TypeOK, NEW S, NEW t \in Targets, StartCalls(S, t)
  PROVE  /\ pc' \in [Clients -> Over \cup {"start", "waiting", "calling", "backoff"}]
         /\ held' \in [Clients -> Targets]
         /\ attempt' \in [Clients -> 1..2]
         /\ tries' \in [Clients -> 1..2]
         /\ timer' \in [Clients -> 0..CallTimeout]
         /\ reply' \in [Clients -> {"none", "ok", "gone"}]
         /\ sent' \in [Clients -> Nat]
  BY DEF TypeOK, StartCalls

\* The end of the attempts of any set of requests.
LEMMA EndAttemptsType ==
  ASSUME TypeOK, NEW S, NEW exit, EndAttempts(S, exit)
  PROVE  /\ pc' \in [Clients -> Over \cup {"start", "waiting", "calling", "backoff"}]
         /\ held' \in [Clients -> Targets]
         /\ attempt' \in [Clients -> 1..2]
         /\ tries' \in [Clients -> 1..2]
         /\ timer' \in [Clients -> 0..CallTimeout]
         /\ reply' \in [Clients -> {"none", "ok", "gone"}]
         /\ sent' \in [Clients -> Nat]
  BY ClientAssumption DEF TypeOK, EndAttempts

LEMMA ListedType == Listed \subseteq Stores \cup {NoStore}
  BY DEF Listed, Live

LEMMA LatestType == ASSUME NEW s PROVE Latest(s) \subseteq Models \cup {NoModel}
  BY DEF Latest, ModelsOf
\* The two ways a lookup settles.
LEMMA SettleType ==
  ASSUME TypeOK, StoreTypeOK', NEW S, NEW s \in Stores \cup {NoStore},
         NEW m \in Models \cup {NoModel}, Settle(S, s, m)
  PROVE  TypeOK'
<1>1. PICK i \in Ids : /\ cached' = [id |-> i, store |-> s, model |-> m]
                       /\ StartCalls(S, [id |-> i, store |-> s, model |-> m])
  BY DEF Settle
<1>2. [id |-> i, store |-> s, model |-> m] \in Targets
  OBVIOUS
<1>3. /\ pc' \in [Clients -> Over \cup {"start", "waiting", "calling", "backoff"}]
      /\ held' \in [Clients -> Targets]
      /\ attempt' \in [Clients -> 1..2]
      /\ tries' \in [Clients -> 1..2]
      /\ timer' \in [Clients -> 0..CallTimeout]
      /\ reply' \in [Clients -> {"none", "ok", "gone"}]
      /\ sent' \in [Clients -> Nat]
  BY <1>1, <1>2, StartCallsType
<1> QED BY <1>1, <1>2, <1>3, ClientAssumption DEF Settle, TypeOK

LEMMA FailLookupType ==
  ASSUME TypeOK, StoreTypeOK', NEW exit \in Exits, FailLookup(exit)
  PROVE  TypeOK'
<1>1. EndAttempts(Waiters, exit)
  BY DEF FailLookup
<1>2. /\ pc' \in [Clients -> Over \cup {"start", "waiting", "calling", "backoff"}]
      /\ held' \in [Clients -> Targets]
      /\ attempt' \in [Clients -> 1..2]
      /\ tries' \in [Clients -> 1..2]
      /\ timer' \in [Clients -> 0..CallTimeout]
      /\ reply' \in [Clients -> {"none", "ok", "gone"}]
      /\ sent' \in [Clients -> Nat]
  BY <1>1, EndAttemptsType
<1> QED BY <1>2, ClientAssumption DEF FailLookup, TypeOK

LEMMA TypeStep == TypeOK /\ [Next]_vars => TypeOK'
<1> SUFFICES ASSUME TypeOK, [Next]_vars PROVE TypeOK'
  OBVIOUS
<1>1. ASSUME UNCHANGED storeVars PROVE StoreTypeOK'
  BY <1>1, StoreStepType DEF TypeOK
<1>2. CASE ServeList
  BY <1>1, <1>2, ListedType DEF ServeList, TypeOK, requestVars
<1>3. CASE ReceiveList
  <2>1. CASE PinnedModel = NoModel
    <3>1. lookup' = [lookup EXCEPT !.phase = "reading", !.timer = 0]
      BY <1>3, <2>1 DEF ReceiveList
    <3>2. lookup' \in [phase : Phases, store : Stores \cup {NoStore},
                      model : Models \cup {NoModel}, timer : 0..CallTimeout]
      <4>1. lookup' = [phase |-> "reading", store |-> lookup.store, model |-> lookup.model, timer |-> 0]
        BY <3>1 DEF TypeOK
      <4>2. 0 \in 0..CallTimeout
        BY ClientAssumption
      <4> QED BY <4>1, <4>2 DEF TypeOK
    <3>3. UNCHANGED <<storeVars, entry, cached, entryAge, requestVars>>
      BY <1>3, <2>1 DEF ReceiveList
    <3> QED BY <1>1, <3>2, <3>3 DEF TypeOK, requestVars
  <2>2. CASE PinnedModel # NoModel
    <3>1. Settle(Waiters, lookup.store, PinnedModel) /\ StoreTypeOK' /\ lookup.store \in Stores \cup {NoStore}
      BY <1>1, <1>3, <2>2 DEF ReceiveList, TypeOK
    <3> QED BY <3>1, SettleType, ClientAssumption
  <2> QED BY <2>1, <2>2
<1>4. CASE StoreNotFound
  BY <1>1, <1>4, FailLookupType DEF StoreNotFound
<1>5. CASE ServeModels
  <2>1. PICK m \in Latest(lookup.store) : lookup' = [lookup EXCEPT !.phase = "read", !.model = m]
    BY <1>5 DEF ServeModels
  <2>2. m \in Models \cup {NoModel}
    BY LatestType
  <2>3. lookup' \in [phase : Phases, store : Stores \cup {NoStore},
                    model : Models \cup {NoModel}, timer : 0..CallTimeout]
    BY <2>1, <2>2 DEF TypeOK
  <2> QED BY <1>1, <1>5, <2>3 DEF ServeModels, TypeOK, requestVars
<1>6. CASE ReceiveModels
  <2>1. /\ Settle(Waiters, lookup.store, lookup.model)
        /\ StoreTypeOK'
        /\ lookup.store \in Stores \cup {NoStore}
        /\ lookup.model \in Models \cup {NoModel}
    BY <1>1, <1>6 DEF ReceiveModels, TypeOK
  <2> QED BY <2>1, SettleType
<1>7. ASSUME NEW exit \in {"transient", "final"}, LookupCallFails(exit) PROVE TypeOK'
  BY <1>1, <1>7, FailLookupType DEF LookupCallFails
<1>8. CASE LookupTimesOut
  BY <1>1, <1>8, FailLookupType DEF LookupTimesOut
<1>9. ASSUME NEW c \in Clients, RequestNext(c) PROVE TypeOK'
  <2>1. CASE Arrive(c)
    BY <1>1, <2>1 DEF Arrive, TypeOK, cacheVars
  <2>2. CASE Hit(c)
    <3>1. \/ StartCalls({c}, cached)
          \/ EndAttempts({c}, entry)
      BY <2>2 DEF Hit
    <3>2. cached \in Targets
      BY DEF TypeOK
    <3> QED BY <1>1, <2>2, <3>1, <3>2, StartCallsType, EndAttemptsType DEF Hit, TypeOK, cacheVars
  <2>3. CASE JoinLookup(c)
    BY <1>1, <2>3 DEF JoinLookup, TypeOK, cacheVars
  <2>4. CASE Miss(c) /\ StartLookup(c)
    BY <1>1, <2>4, ClientAssumption DEF StartLookup, TypeOK
  <2>5. CASE Miss(c) /\ PinnedLookup(c)
    BY <1>1, <2>5, SettleType, ClientAssumption DEF PinnedLookup
  <2>6. CASE ServeCheck(c)
    BY <1>1, <2>6 DEF ServeCheck, TypeOK, cacheVars, CheckReply
  <2>7. CASE CallTimesOut(c) \/ \E exit \in Exits : CallEnds(c, exit)
    <3>1. PICK exit \in Exits : EndAttempts({c}, exit) /\ UNCHANGED <<storeVars, cacheVars>>
      BY <2>7 DEF CallTimesOut, CallEnds
    <3> QED BY <1>1, <3>1, EndAttemptsType DEF TypeOK, cacheVars
  <2>8. CASE Gone(c)
    <3>1. UNCHANGED <<entry, cached, entryAge>> \/ (entry' = "none" /\ cached' = NoTarget /\ entryAge' = 0)
      BY <2>8 DEF Gone, DropIfHeld
    <3>2. /\ entry' \in {"none", "pending"} \cup Exits
          /\ cached' \in Targets
          /\ entryAge' \in 0..StoreTTL
      BY <3>1, ClientAssumption DEF TypeOK
    <3>3. CASE EndAttempts({c}, "final")
      BY <1>1, <2>8, <3>2, <3>3, EndAttemptsType DEF Gone, TypeOK
    <3>4. CASE attempt[c] = 1
      <4>1. timer' \in [Clients -> 0..CallTimeout]
        BY <2>8, <3>4, ClientAssumption DEF Gone, TypeOK
      <4>2. /\ pc' \in [Clients -> Over \cup {"start", "waiting", "calling", "backoff"}]
            /\ attempt' \in [Clients -> 1..2]
            /\ reply' \in [Clients -> {"none", "ok", "gone"}]
        BY <2>8, <3>4 DEF Gone, TypeOK
      <4> QED BY <1>1, <2>8, <3>2, <3>4, <4>1, <4>2 DEF Gone, TypeOK
    <3> QED BY <2>8, <3>3, <3>4 DEF Gone
  <2>9. CASE Retry(c)
    BY <1>1, <2>9 DEF Retry, TypeOK, cacheVars
  <2>10. CASE Disconnect(c)
    BY <1>1, <2>10, ClientAssumption DEF Disconnect, TypeOK
  <2> QED BY <1>9, <2>1, <2>2, <2>3, <2>4, <2>5, <2>6, <2>7, <2>8, <2>9, <2>10 DEF RequestNext, LookUp
<1>10. CASE WorldNext
  BY <1>10, StoreStepType DEF WorldNext, TypeOK, cacheVars, requestVars
<1>11. CASE Tick
  <2>1. StoreTypeOK'
    BY <1>11, StoreStepType DEF Tick, TypeOK
  <2>2. timer' \in [Clients -> 0..CallTimeout]
    BY <1>11, ClientAssumption DEF Tick, TypeOK
  <2>3. entryAge' \in 0..StoreTTL
    BY <1>11, ClientAssumption DEF Tick, TypeOK
  <2>4. lookup' \in [phase : Phases, store : Stores \cup {NoStore},
                    model : Models \cup {NoModel}, timer : 0..CallTimeout]
    BY <1>11, ClientAssumption DEF Tick, TypeOK
  <2> QED BY <1>11, <2>1, <2>2, <2>3, <2>4 DEF Tick, TypeOK
<1>12. CASE UNCHANGED vars
  BY <1>1, <1>12 DEF vars, TypeOK, cacheVars, requestVars
<1> QED BY <1>2, <1>3, <1>4, <1>5, <1>6, <1>7, <1>8, <1>9, <1>10, <1>11, <1>12
        DEF Next, LookupNext

\* Every variable keeps its type in every reachable state.
THEOREM TypeCorrect == Spec => []TypeOK
  BY InitType, TypeStep, PTL DEF Spec
(***************************************************************************)
(* The shared lookup is awaited                                             *)
(***************************************************************************)
LEMMA AwaitedInit == Init => LookupIsAwaited
  BY DEF Init, LookupIsAwaited, Waiters

\* A settled lookup leaves no waiter behind.
LEMMA SettleWakesAll ==
  ASSUME TypeOK, NEW S, Waiters \subseteq S, NEW s, NEW m, Settle(S, s, m)
  PROVE  LookupIsAwaited'
  BY DEF Settle, StartCalls, LookupIsAwaited, Waiters, TypeOK

LEMMA FailLookupWakesAll ==
  ASSUME TypeOK, NEW exit \in Exits, FailLookup(exit)
  PROVE  LookupIsAwaited'
  BY DEF FailLookup, EndAttempts, LookupIsAwaited, Waiters, TypeOK

\* A step that moves no request to or from the lookup changes nothing.
LEMMA AwaitedUnmoved ==
  ASSUME LookupIsAwaited,
         \A c \in Clients : (pc'[c] = "waiting") <=> (pc[c] = "waiting"),
         (lookup'.phase # "none") <=> (lookup.phase # "none"),
         (entry' = "pending") <=> (entry = "pending")
  PROVE  LookupIsAwaited'
  BY DEF LookupIsAwaited, Waiters

LEMMA AwaitedStep == TypeOK /\ LookupIsAwaited /\ [Next]_vars => LookupIsAwaited'
<1> SUFFICES ASSUME TypeOK, LookupIsAwaited, [Next]_vars PROVE LookupIsAwaited'
  OBVIOUS
<1>1. CASE ServeList \/ ServeModels
  BY <1>1, AwaitedUnmoved DEF ServeList, ServeModels, requestVars, TypeOK
<1>2. CASE ReceiveList
  <2>1. CASE PinnedModel = NoModel
    BY <1>2, <2>1, AwaitedUnmoved DEF ReceiveList, requestVars, TypeOK
  <2>2. CASE PinnedModel # NoModel
    BY <1>2, <2>2, SettleWakesAll DEF ReceiveList
  <2> QED BY <2>1, <2>2
<1>3. CASE ReceiveModels
  BY <1>3, SettleWakesAll DEF ReceiveModels
<1>4. CASE StoreNotFound \/ LookupTimesOut \/ \E exit \in {"transient", "final"} : LookupCallFails(exit)
  BY <1>4, FailLookupWakesAll DEF StoreNotFound, LookupTimesOut, LookupCallFails
<1>5. ASSUME NEW c \in Clients, RequestNext(c) PROVE LookupIsAwaited'
  <2>1. CASE Arrive(c) \/ Retry(c)
    BY <2>1, AwaitedUnmoved DEF Arrive, Retry, cacheVars, TypeOK
  <2>2. CASE Hit(c)
    BY <2>2, AwaitedUnmoved DEF Hit, StartCalls, EndAttempts, cacheVars, TypeOK
  <2>3. CASE JoinLookup(c)
    BY <2>3 DEF JoinLookup, LookupIsAwaited, Waiters, cacheVars, TypeOK
  <2>4. CASE Miss(c) /\ StartLookup(c)
    BY <2>4 DEF StartLookup, LookupIsAwaited, Waiters, TypeOK
  <2>5. CASE Miss(c) /\ PinnedLookup(c)
    <3>1. Waiters = {}
      BY <2>5 DEF PinnedLookup, Miss, LookupIsAwaited
    <3> QED BY <2>5, <3>1, SettleWakesAll DEF PinnedLookup
  <2>6. CASE ServeCheck(c)
    BY <2>6, AwaitedUnmoved DEF ServeCheck, cacheVars
  <2>7. CASE CallTimesOut(c) \/ \E exit \in Exits : CallEnds(c, exit)
    BY <2>7, AwaitedUnmoved DEF CallTimesOut, CallEnds, EndAttempts, cacheVars, TypeOK
  <2>8. CASE Gone(c)
    <3>1. (entry' = "pending") <=> (entry = "pending")
      BY <2>8 DEF Gone, DropIfHeld
    <3>2. \A d \in Clients : (pc'[d] = "waiting") <=> (pc[d] = "waiting")
      BY <2>8 DEF Gone, EndAttempts, TypeOK
    <3> QED BY <2>8, <3>1, <3>2, AwaitedUnmoved DEF Gone
  <2>9. CASE Disconnect(c)
    <3>1. CASE Waiters = {c}
      BY <2>9, <3>1 DEF Disconnect, LookupIsAwaited, Waiters, TypeOK
    <3>2. CASE Waiters # {c}
      <4>1. UNCHANGED <<entry, lookup>> /\ Waiters' = Waiters \ {c}
        BY <2>9, <3>2 DEF Disconnect, Waiters, TypeOK
      <4>2. (Waiters' # {}) <=> (Waiters # {})
        BY <3>2, <4>1
      <4> QED BY <4>1, <4>2 DEF LookupIsAwaited
    <3> QED BY <3>1, <3>2
  <2> QED BY <1>5, <2>1, <2>2, <2>3, <2>4, <2>5, <2>6, <2>7, <2>8, <2>9 DEF RequestNext, LookUp
<1>6. CASE WorldNext
  BY <1>6, AwaitedUnmoved DEF WorldNext, cacheVars, requestVars
<1>7. CASE Tick
  BY <1>7, AwaitedUnmoved DEF Tick, TypeOK
<1>8. CASE UNCHANGED vars
  BY <1>8, AwaitedUnmoved DEF vars, cacheVars, requestVars
<1> QED BY <1>1, <1>2, <1>3, <1>4, <1>5, <1>6, <1>7, <1>8 DEF Next, LookupNext

\* A lookup is in flight exactly while some request waits for it: no request
\* waits for ever for a lookup that is over, and no lookup outlives its last
\* waiter.
THEOREM LookupAwaited == Spec => []LookupIsAwaited
<1>1. Init => TypeOK /\ LookupIsAwaited
  BY InitType, AwaitedInit
<1>2. TypeOK /\ LookupIsAwaited /\ [Next]_vars => (TypeOK /\ LookupIsAwaited)'
  BY TypeStep, AwaitedStep
<1> QED BY <1>1, <1>2, PTL DEF Spec
(***************************************************************************)
(* The call budget                                                          *)
(***************************************************************************)
LEMMA RequestInit == Init => RequestInv
  BY DEF Init, RequestInv

LEMMA StartCallsRequest ==
  ASSUME TypeOK, RequestInv, NEW S, NEW t, StartCalls(S, t),
         \A c \in S : c \in Clients => pc[c] \in {"start", "waiting"}
  PROVE  RequestInv'
<1> SUFFICES ASSUME NEW c \in Clients
             PROVE  /\ pc'[c] \in Over => sent'[c] = 0 /\ tries'[c] = 1 /\ attempt'[c] = 1
                    /\ pc'[c] = "backoff" => sent'[c] <= 2 /\ tries'[c] = 1 /\ attempt'[c] = 1
                    /\ pc'[c] \in {"start", "waiting"} => sent'[c] <= 2 * (tries'[c] - 1) + attempt'[c] - 1
                    /\ pc'[c] = "calling" => sent'[c] <= 2 * (tries'[c] - 1) + attempt'[c]
                    /\ pc'[c] # "calling" => timer'[c] = 0
  BY DEF RequestInv
<1>1. UNCHANGED <<tries, attempt, timer>>
  BY DEF StartCalls
<1>2. CASE c \in S
  <2>1. pc'[c] = "calling" /\ sent'[c] = sent[c] + 1
    BY <1>2 DEF StartCalls
  <2>2. sent[c] <= 2 * (tries[c] - 1) + attempt[c] - 1
    BY <1>2 DEF RequestInv
  <2>3. sent[c] \in Nat /\ tries[c] \in 1..2 /\ attempt[c] \in 1..2
    BY DEF TypeOK
  <2> QED BY <1>1, <2>1, <2>2, <2>3
<1>3. CASE c \notin S
  BY <1>1, <1>3 DEF StartCalls, RequestInv
<1> QED BY <1>2, <1>3

LEMMA EndAttemptsRequest ==
  ASSUME TypeOK, RequestInv, NEW S, NEW exit \in Exits, EndAttempts(S, exit),
         \A c \in S : c \in Clients => pc[c] \in {"start", "waiting", "calling"}
  PROVE  RequestInv'
<1> SUFFICES ASSUME NEW c \in Clients
             PROVE  /\ pc'[c] \in Over => sent'[c] = 0 /\ tries'[c] = 1 /\ attempt'[c] = 1
                    /\ pc'[c] = "backoff" => sent'[c] <= 2 /\ tries'[c] = 1 /\ attempt'[c] = 1
                    /\ pc'[c] \in {"start", "waiting"} => sent'[c] <= 2 * (tries'[c] - 1) + attempt'[c] - 1
                    /\ pc'[c] = "calling" => sent'[c] <= 2 * (tries'[c] - 1) + attempt'[c]
                    /\ pc'[c] # "calling" => timer'[c] = 0
  BY DEF RequestInv
<1>1. CASE c \in S /\ WillRetry(c, exit)
  <2>1. pc'[c] = "backoff" /\ timer'[c] = 0 /\ attempt'[c] = 1
        /\ tries'[c] = tries[c] /\ sent'[c] = sent[c]
    BY <1>1 DEF EndAttempts, WillRetry
  <2>2. tries[c] = 1 /\ (sent[c] <= attempt[c] - 1 \/ sent[c] <= attempt[c])
    <3>1. tries[c] = 1
      BY <1>1 DEF WillRetry
    <3> QED BY <1>1, <3>1 DEF RequestInv, TypeOK
  <2>3. sent[c] \in Nat /\ attempt[c] \in 1..2
    BY DEF TypeOK
  <2> QED BY <2>1, <2>2, <2>3
<1>2. CASE c \in S /\ ~WillRetry(c, exit)
  BY <1>2 DEF EndAttempts
<1>3. CASE c \notin S
  BY <1>3 DEF EndAttempts, RequestInv
<1> QED BY <1>1, <1>2, <1>3

LEMMA SettleRequest ==
  ASSUME TypeOK, RequestInv, NEW S, NEW s, NEW m, Settle(S, s, m),
         \A c \in S : c \in Clients => pc[c] \in {"start", "waiting"}
  PROVE  RequestInv'
  BY StartCallsRequest DEF Settle

LEMMA FailLookupRequest ==
  ASSUME TypeOK, RequestInv, NEW exit \in Exits, FailLookup(exit)
  PROVE  RequestInv'
  BY EndAttemptsRequest DEF FailLookup, Waiters

LEMMA RequestStep == TypeOK /\ RequestInv /\ [Next]_vars => RequestInv'
<1> SUFFICES ASSUME TypeOK, RequestInv, [Next]_vars PROVE RequestInv'
  OBVIOUS
<1>1. CASE UNCHANGED requestVars
  BY <1>1 DEF requestVars, RequestInv
<1>2. CASE ServeList \/ ServeModels \/ WorldNext \/ UNCHANGED vars
  BY <1>1, <1>2 DEF ServeList, ServeModels, WorldNext, vars
<1>3. CASE ReceiveList
  BY <1>1, <1>3, SettleRequest DEF ReceiveList, Waiters
<1>4. CASE ReceiveModels
  BY <1>4, SettleRequest DEF ReceiveModels, Waiters
<1>5. CASE StoreNotFound \/ LookupTimesOut \/ \E exit \in {"transient", "final"} : LookupCallFails(exit)
  BY <1>5, FailLookupRequest DEF StoreNotFound, LookupTimesOut, LookupCallFails
<1>6. ASSUME NEW c \in Clients, RequestNext(c) PROVE RequestInv'
  <2>1. CASE Arrive(c) \/ JoinLookup(c) \/ (Miss(c) /\ StartLookup(c)) \/ Retry(c)
    BY <2>1 DEF Arrive, JoinLookup, StartLookup, Miss, Retry, RequestInv, TypeOK
  <2>2. CASE Hit(c)
    BY <2>2, StartCallsRequest, EndAttemptsRequest DEF Hit, Fresh
  <2>3. CASE Miss(c) /\ PinnedLookup(c)
    BY <2>3, SettleRequest DEF PinnedLookup, Miss
  <2>4. CASE ServeCheck(c)
    BY <2>4 DEF ServeCheck, RequestInv
  <2>5. CASE CallTimesOut(c) \/ \E exit \in Exits : CallEnds(c, exit)
    BY <2>5, EndAttemptsRequest DEF CallTimesOut, CallEnds
  <2>6. CASE Gone(c)
    <3>1. CASE attempt[c] = 1
      BY <2>6, <3>1 DEF Gone, RequestInv, TypeOK
    <3>2. CASE attempt[c] # 1
      BY <2>6, <3>2, EndAttemptsRequest DEF Gone
    <3> QED BY <3>1, <3>2
  <2>7. CASE Disconnect(c)
    BY <2>7 DEF Disconnect, RequestInv, TypeOK
  <2> QED BY <1>6, <2>1, <2>2, <2>3, <2>4, <2>5, <2>6, <2>7 DEF RequestNext, LookUp
<1>7. CASE Tick
  BY <1>7 DEF Tick, RequestInv, TypeOK
<1> QED BY <1>2, <1>3, <1>4, <1>5, <1>6, <1>7 DEF Next, LookupNext

\* The inductive invariant bounds the calls wherever the request is.
LEMMA RequestImpliesBudget == TypeOK /\ RequestInv => CallBudget
<1> SUFFICES ASSUME TypeOK, RequestInv, NEW c \in Clients PROVE sent[c] <= 2 * tries[c]
  BY DEF CallBudget
<1>1. sent[c] \in Nat /\ tries[c] \in 1..2 /\ attempt[c] \in 1..2
      /\ pc[c] \in Over \cup {"start", "waiting", "calling", "backoff"}
  BY DEF TypeOK
<1> QED BY <1>1 DEF RequestInv

\* No request sends more than two calls per try, and none has a third try.
THEOREM BudgetKept == Spec => []CallBudget
<1>1. Init => TypeOK /\ RequestInv
  BY InitType, RequestInit
<1>2. TypeOK /\ RequestInv /\ [Next]_vars => (TypeOK /\ RequestInv)'
  BY TypeStep, RequestStep
<1> QED BY <1>1, <1>2, RequestImpliesBudget, PTL DEF Spec
(***************************************************************************)
(* A target reported gone is never used again by the request it failed      *)
(***************************************************************************)
LEMMA GoneInit == Init => GoneNotReused
  BY DEF Init, GoneNotReused

\* A new object differs from every object a request still remembers.
LEMMA SettleGone ==
  ASSUME TypeOK, NEW S, NEW s, NEW m, Settle(S, s, m)
  PROVE  GoneNotReused'
<1>1. PICK i \in Ids : /\ FreshId(i)
                       /\ cached' = [id |-> i, store |-> s, model |-> m]
                       /\ StartCalls(S, [id |-> i, store |-> s, model |-> m])
  BY DEF Settle
<1>2. ASSUME NEW c \in Clients, pc'[c] \in {"start", "waiting"} PROVE cached'.id # held'[c].id
  <2>1. c \notin S
    BY <1>1, <1>2 DEF StartCalls
  <2>2. held'[c] = held[c]
    BY <1>1, <2>1 DEF StartCalls
  <2> QED BY <1>1, <2>2 DEF FreshId
<1> QED BY <1>2 DEF GoneNotReused

\* No request turns back to the cache with a gone target but by Gone.
LEMMA GoneUnmoved ==
  ASSUME GoneNotReused,
         entry' = "ok" => entry = "ok" /\ cached' = cached,
         \A c \in Clients : pc'[c] \in {"start", "waiting"} /\ attempt'[c] = 2
             => /\ pc[c] \in {"start", "waiting"}
                /\ attempt[c] = 2
                /\ held'[c] = held[c]
  PROVE  GoneNotReused'
  BY DEF GoneNotReused

LEMMA EndAttemptsGone ==
  ASSUME TypeOK, NEW S, NEW exit, EndAttempts(S, exit),
         NEW c \in Clients, pc'[c] \in {"start", "waiting"}
  PROVE  pc[c] = pc'[c] /\ attempt'[c] = attempt[c] /\ held'[c] = held[c]
  BY DEF EndAttempts

LEMMA GoneStep == TypeOK /\ RequestInv /\ GoneNotReused /\ [Next]_vars => GoneNotReused'
<1> SUFFICES ASSUME TypeOK, RequestInv, GoneNotReused, [Next]_vars PROVE GoneNotReused'
  OBVIOUS
<1>1. CASE ServeList \/ ServeModels \/ WorldNext \/ UNCHANGED vars
  BY <1>1, GoneUnmoved DEF ServeList, ServeModels, WorldNext, vars, cacheVars, requestVars
<1>2. CASE ReceiveList
  BY <1>2, SettleGone, GoneUnmoved DEF ReceiveList, requestVars
<1>3. CASE ReceiveModels
  BY <1>3, SettleGone DEF ReceiveModels
<1>4. CASE StoreNotFound \/ LookupTimesOut \/ \E exit \in {"transient", "final"} : LookupCallFails(exit)
  <2>1. PICK exit \in {"transient", "final"} : FailLookup(exit)
    BY <1>4 DEF StoreNotFound, LookupTimesOut, LookupCallFails
  <2> QED BY <2>1 DEF FailLookup, GoneNotReused
<1>5. ASSUME NEW c \in Clients, RequestNext(c) PROVE GoneNotReused'
  <2>1. CASE Arrive(c) \/ Retry(c)
    <3>1. attempt[c] = 1
      BY <2>1 DEF Arrive, Retry, RequestInv
    <3> QED BY <2>1, <3>1, GoneUnmoved DEF Arrive, Retry, cacheVars, TypeOK
  <2>2. CASE JoinLookup(c) \/ (Miss(c) /\ StartLookup(c))
    BY <2>2 DEF JoinLookup, StartLookup, GoneNotReused, cacheVars
  <2>3. CASE Hit(c)
    <3>1. CASE entry = "ok"
      BY <2>3, <3>1, GoneUnmoved DEF Hit, StartCalls, cacheVars
    <3>2. CASE entry # "ok"
      BY <2>3, <3>2 DEF Hit, GoneNotReused, cacheVars
    <3> QED BY <3>1, <3>2
  <2>4. CASE Miss(c) /\ PinnedLookup(c)
    BY <2>4, SettleGone DEF PinnedLookup
  <2>5. CASE ServeCheck(c)
    BY <2>5, GoneUnmoved DEF ServeCheck, cacheVars
  <2>6. CASE CallTimesOut(c) \/ \E exit \in Exits : CallEnds(c, exit)
    <3>1. PICK exit : EndAttempts({c}, exit) /\ UNCHANGED cacheVars
      BY <2>6 DEF CallTimesOut, CallEnds
    <3> QED BY <3>1, EndAttemptsGone, GoneUnmoved DEF cacheVars
  <2>7. CASE Gone(c)
    <3>1. entry' = "ok" => entry = "ok" /\ cached' = cached /\ cached.id # held[c].id
      BY <2>7 DEF Gone, DropIfHeld
    <3>2. CASE attempt[c] = 1
      <4>1. held' = held /\ \A d \in Clients \ {c} : pc'[d] = pc[d] /\ attempt'[d] = attempt[d]
        BY <2>7, <3>2 DEF Gone, TypeOK
      <4> QED BY <3>1, <4>1 DEF GoneNotReused
    <3>3. CASE attempt[c] # 1
      BY <2>7, <3>1, <3>3, EndAttemptsGone, GoneUnmoved DEF Gone
    <3> QED BY <3>2, <3>3
  <2>8. CASE Disconnect(c)
    BY <2>8, GoneUnmoved DEF Disconnect, TypeOK
  <2> QED BY <1>5, <2>1, <2>2, <2>3, <2>4, <2>5, <2>6, <2>7, <2>8 DEF RequestNext, LookUp
<1>6. CASE Tick
  BY <1>6, GoneUnmoved DEF Tick
<1> QED BY <1>1, <1>2, <1>3, <1>4, <1>5, <1>6 DEF Next, LookupNext

\* The second attempt of a request is never made against the object whose
\* call was told the store or model is gone.
THEOREM GoneNeverReused == Spec => []GoneNotReused
<1>1. Init => TypeOK /\ RequestInv /\ GoneNotReused
  BY InitType, RequestInit, GoneInit
<1>2. TypeOK /\ RequestInv /\ GoneNotReused /\ [Next]_vars => (TypeOK /\ RequestInv /\ GoneNotReused)'
  BY TypeStep, RequestStep, GoneStep
<1> QED BY <1>1, <1>2, PTL DEF Spec

(***************************************************************************)
(* What a step may never do to the cache                                    *)
(***************************************************************************)
\* A target that has not expired leaves the cache only when a call on that
\* very object was told it is gone.
THEOREM FreshTargetStays == Spec => FreshTargetKept
<1>1. TypeOK /\ LookupIsAwaited /\ [Next]_vars
        => [ entry = "ok" /\ Fresh /\ cached' # cached
             => \E c \in Clients : reply[c] = "gone" /\ held[c].id = cached.id ]_vars
  <2> SUFFICES ASSUME TypeOK, LookupIsAwaited, [Next]_vars, entry = "ok", Fresh, cached' # cached
               PROVE  \E c \in Clients : reply[c] = "gone" /\ held[c].id = cached.id
    OBVIOUS
  <2>1. lookup.phase = "none" /\ Waiters = {}
    BY DEF LookupIsAwaited
  <2>2. PICK c \in Clients : RequestNext(c)
    BY <2>1 DEF Next, LookupNext, ServeList, ReceiveList, StoreNotFound, ServeModels, ReceiveModels,
               LookupCallFails, LookupTimesOut, WorldNext, Tick, vars, cacheVars
  <2>3. Gone(c)
    BY <2>2 DEF RequestNext, LookUp, Arrive, Hit, JoinLookup, StartLookup, PinnedLookup, Miss,
               ServeCheck, CallEnds, CallTimesOut, Retry, Disconnect, cacheVars
  <2> QED BY <2>3 DEF Gone, DropIfHeld
<1> QED BY <1>1, TypeCorrect, LookupAwaited, PTL DEF Spec, FreshTargetKept

\* A failed lookup is not cached: nobody fails at the cache itself.
THEOREM FailuresForgotten == Spec => FailureNotCached
<1>1. TypeOK /\ [Next]_vars
        => [ \A c \in Clients : pc[c] = "start" => pc'[c] \notin {"failed", "backoff"} ]_vars
  <2> SUFFICES ASSUME TypeOK, [Next]_vars, NEW c \in Clients, pc[c] = "start"
               PROVE  pc'[c] \notin {"failed", "backoff"}
    OBVIOUS
  <2>1. CASE LookupNext
    BY <2>1 DEF LookupNext, ServeList, ReceiveList, StoreNotFound, ServeModels, ReceiveModels,
               LookupCallFails, LookupTimesOut, Settle, FailLookup, StartCalls, EndAttempts, Waiters,
               requestVars
  <2>2. ASSUME NEW d \in Clients, RequestNext(d) PROVE pc'[c] \notin {"failed", "backoff"}
    <3>1. CASE Hit(d)
      <4>1. entry = "ok"
        BY <3>1 DEF Hit, Fresh, TimeToLive, TypeOK
      <4> QED BY <3>1, <4>1 DEF Hit, StartCalls
    <3>2. CASE CallTimesOut(d) \/ Gone(d) \/ \E exit \in Exits : CallEnds(d, exit)
      BY <3>2 DEF CallTimesOut, CallEnds, Gone, EndAttempts, TypeOK
    <3>3. CASE Miss(d) /\ PinnedLookup(d)
      BY <3>3 DEF PinnedLookup, Settle, StartCalls
    <3> QED BY <2>2, <3>1, <3>2, <3>3 DEF RequestNext, LookUp, Arrive, JoinLookup, StartLookup, Miss,
               ServeCheck, Retry, Disconnect, TypeOK
  <2>3. CASE WorldNext \/ Tick \/ UNCHANGED vars
    BY <2>3 DEF WorldNext, Tick, vars, requestVars
  <2> QED BY <2>1, <2>2, <2>3 DEF Next
<1> QED BY <1>1, TypeCorrect, PTL DEF Spec, FailureNotCached
(***************************************************************************)
(* How long a deleted store can be asked                                    *)
(***************************************************************************)
LEMMA AgeInit == Init => AgeInv
  BY DEF Init, StoreInit, AgeInv

\* The store table: a store leaves the listing with its age at zero.
UnlistedInv == \A s \in Stores : status[s] \in {"unused", "live"} => unlistedFor[s] = 0

LEMMA UnlistedStep ==
  ASSUME TypeOK, UnlistedInv, [Next]_vars
  PROVE  UnlistedInv'
<1>1. CASE UNCHANGED storeVars
  BY <1>1 DEF storeVars, UnlistedInv
<1>2. CASE WorldNext
  BY <1>2 DEF WorldNext, StoreNext, CreateStore, DeleteStore, WriteModel, Wipe, HasRows,
             UnlistedInv, TypeOK, StoreTypeOK
<1>3. CASE Tick
  BY <1>3 DEF Tick, StoresAge, UnlistedInv, TypeOK, StoreTypeOK
<1>4. ASSUME NEW c \in Clients, RequestNext(c) PROVE UNCHANGED storeVars
  BY <1>4 DEF RequestNext, LookUp, Arrive, Hit, JoinLookup, StartLookup, PinnedLookup, ServeCheck,
             Gone, CallEnds, CallTimesOut, Retry, Disconnect
<1>5. LookupNext => UNCHANGED storeVars
  BY DEF LookupNext, ServeList, ReceiveList, StoreNotFound, ServeModels, ReceiveModels,
         LookupCallFails, LookupTimesOut
<1> QED BY <1>1, <1>2, <1>3, <1>4, <1>5 DEF Next, vars

\* Only time moves the ages.
LEMMA AgesStill ==
  ASSUME [Next]_vars, ~Tick
  PROVE  unlistedFor' = unlistedFor
<1>1. ASSUME NEW c \in Clients, RequestNext(c) PROVE UNCHANGED storeVars
  BY <1>1 DEF RequestNext, LookUp, Arrive, Hit, JoinLookup, StartLookup, PinnedLookup, ServeCheck,
             Gone, CallEnds, CallTimesOut, Retry, Disconnect
<1>2. LookupNext => UNCHANGED storeVars
  BY DEF LookupNext, ServeList, ReceiveList, StoreNotFound, ServeModels, ReceiveModels,
         LookupCallFails, LookupTimesOut
<1>3. WorldNext => unlistedFor' = unlistedFor
  BY DEF WorldNext, StoreNext, CreateStore, DeleteStore, WriteModel, Wipe
<1> QED BY <1>1, <1>2, <1>3 DEF Next, vars, storeVars

LEMMA AgeTypes ==
  ASSUME TypeOK
  PROVE  /\ \A s \in Stores : unlistedFor[s] \in Nat
         /\ lookup.timer \in Nat /\ lookup.timer <= CallTimeout
         /\ \A c \in Clients : timer[c] \in Nat /\ timer[c] <= CallTimeout
         /\ entryAge \in Nat /\ StoreTTL \in Nat /\ CallTimeout \in Nat
         /\ lookup.store \in Stores \cup {NoStore} /\ cached.store \in Stores \cup {NoStore}
         /\ \A c \in Clients : held[c].store \in Stores \cup {NoStore}
  BY BoundsAssumption, ClientAssumption DEF TypeOK, StoreTypeOK

\* A target fetched within two timeouts is fresh enough for all who waited.
LEMMA SettleAge ==
  ASSUME TypeOK, RequestInv, AgeInv, UnlistedInv', PinnedStore = NoStore, unlistedFor' = unlistedFor,
         NEW s \in Stores, NEW m, unlistedFor[s] <= 2 * CallTimeout, Settle(Waiters, s, m)
  PROVE  AgeInv'
<1>1. PICK i \in Ids : /\ cached' = [id |-> i, store |-> s, model |-> m]
                       /\ StartCalls(Waiters, [id |-> i, store |-> s, model |-> m])
  BY DEF Settle
<1>2. entry' = "ok" /\ entryAge' = 0 /\ lookup' = NoLookup /\ s # NoStore
  BY DEF Settle
<1>3. ASSUME NEW c \in Clients, pc'[c] = "calling"
      PROVE  /\ held'[c].store # NoStore
             /\ unlistedFor[held'[c].store] <= 2 * CallTimeout + StoreTTL + timer'[c]
  <2>1. timer' = timer
    BY <1>1 DEF StartCalls
  <2>2. CASE c \in Waiters
    <3>1. held'[c].store = s /\ timer[c] = 0
      BY <1>1, <2>2 DEF StartCalls, Waiters, RequestInv
    <3> QED BY <1>2, <2>1, <3>1, AgeTypes
  <2>3. CASE c \notin Waiters
    <3>1. held'[c] = held[c] /\ pc[c] = "calling"
      BY <1>1, <1>3, <2>3 DEF StartCalls
    <3> QED BY <2>1, <3>1 DEF AgeInv
  <2> QED BY <2>2, <2>3
<1>4. unlistedFor'[cached'.store] <= 2 * CallTimeout + entryAge' /\ cached'.store # NoStore
  BY <1>1, <1>2, AgeTypes
<1> QED BY <1>2, <1>3, <1>4 DEF AgeInv, UnlistedInv

\* A step that starts no call and settles no lookup with success.
LEMMA AgeUnmoved ==
  ASSUME AgeInv, UnlistedInv', unlistedFor' = unlistedFor,
         lookup' = lookup \/ lookup'.phase = "none",
         entry' = "ok" => entry = "ok" /\ cached' = cached /\ entryAge' = entryAge,
         \A c \in Clients : pc'[c] = "calling"
             => pc[c] = "calling" /\ held'[c] = held[c] /\ timer'[c] = timer[c]
  PROVE  AgeInv'
  BY DEF AgeInv, UnlistedInv

LEMMA AgeTick ==
  ASSUME TypeOK, AgeInv, Tick, UnlistedInv'
  PROVE  AgeInv'
<1> SUFFICES ASSUME PinnedStore = NoStore PROVE AgeInv'
  BY DEF AgeInv, UnlistedInv
<1>1. \A s \in Stores : unlistedFor'[s] \in Nat /\ unlistedFor'[s] <= unlistedFor[s] + 1
  BY AgeTypes DEF Tick, StoresAge
<1>2. /\ lookup'.phase = lookup.phase
      /\ lookup'.store = lookup.store
      /\ lookup.phase # "none" => lookup'.timer = lookup.timer + 1
  BY DEF Tick, TypeOK
<1>3. /\ lookup.phase = "listed" /\ lookup.store # NoStore => unlistedFor'[lookup.store] <= lookup'.timer
      /\ lookup.phase \in {"reading", "read"}
            => lookup.store # NoStore /\ unlistedFor'[lookup.store] <= CallTimeout + lookup'.timer
  <2>1. CASE lookup.store \in Stores
    <3>1. /\ unlistedFor[lookup.store] \in Nat /\ unlistedFor'[lookup.store] \in Nat
          /\ unlistedFor'[lookup.store] <= unlistedFor[lookup.store] + 1
          /\ lookup.timer \in Nat /\ CallTimeout \in Nat
      BY <1>1, <2>1, AgeTypes
    <3>2. CASE lookup.phase = "listed" /\ lookup.store # NoStore
      BY <1>2, <3>1, <3>2 DEF AgeInv
    <3>3. CASE lookup.phase \in {"reading", "read"}
      BY <1>2, <3>1, <3>3 DEF AgeInv
    <3> QED BY <3>2, <3>3
  <2>2. CASE lookup.store = NoStore
    BY <2>2 DEF AgeInv
  <2> QED BY <2>1, <2>2, AgeTypes
<1>4. ASSUME entry = "ok", entryAge' < StoreTTL
      PROVE  unlistedFor'[cached.store] <= 2 * CallTimeout + entryAge'
  <2>1. entryAge < StoreTTL /\ entryAge' = entryAge + 1
    BY <1>4, AgeTypes DEF Tick
  <2>2. unlistedFor[cached.store] <= 2 * CallTimeout + entryAge /\ cached.store \in Stores
    BY <1>4, <2>1, AgeTypes DEF AgeInv
  <2>3. unlistedFor'[cached.store] \in Nat /\ unlistedFor'[cached.store] <= unlistedFor[cached.store] + 1
    BY <1>1, <2>2
  <2> QED BY <2>1, <2>2, <2>3, AgeTypes
<1>5. ASSUME NEW c \in Clients, pc[c] = "calling"
      PROVE  unlistedFor'[held[c].store] <= 2 * CallTimeout + StoreTTL + timer'[c]
  <2>1. timer'[c] = timer[c] + 1
    BY <1>5 DEF Tick, TypeOK
  <2>2. held[c].store \in Stores /\ unlistedFor[held[c].store] <= 2 * CallTimeout + StoreTTL + timer[c]
    BY <1>5, AgeTypes DEF AgeInv
  <2>3. unlistedFor'[held[c].store] \in Nat /\ unlistedFor'[held[c].store] <= unlistedFor[held[c].store] + 1
    BY <1>1, <2>2
  <2> QED BY <2>1, <2>2, <2>3, AgeTypes
<1>6. UNCHANGED <<entry, cached, pc, held>>
  BY DEF Tick
<1> QED BY <1>2, <1>3, <1>4, <1>5, <1>6 DEF AgeInv, UnlistedInv

LEMMA AgeStep == TypeOK /\ RequestInv /\ AgeInv /\ [Next]_vars => AgeInv'
<1> SUFFICES ASSUME TypeOK, RequestInv, AgeInv, [Next]_vars PROVE AgeInv'
  OBVIOUS
<1>1. UnlistedInv'
  BY UnlistedStep DEF AgeInv, UnlistedInv
<1>2. CASE Tick
  BY <1>1, <1>2, AgeTick
<1>3. CASE PinnedStore # NoStore
  BY <1>1, <1>3 DEF AgeInv, UnlistedInv
<1>4. CASE ~Tick /\ PinnedStore = NoStore
  <2>1. unlistedFor' = unlistedFor
    BY <1>4, AgesStill
  <2>2. CASE ServeList
    <3>1. PICK s \in Listed : lookup' = [lookup EXCEPT !.phase = "listed", !.store = s]
      BY <2>2 DEF ServeList
    <3>2. s # NoStore => unlistedFor[s] = 0
      BY <3>1 DEF Listed, Live, AgeInv
    <3>3. lookup'.phase = "listed" /\ lookup'.store = s /\ lookup'.timer = lookup.timer
      BY <3>1 DEF TypeOK
    <3>4. UNCHANGED <<entry, cached, entryAge, pc, held, timer>>
      BY <2>2 DEF ServeList, requestVars
    <3> QED BY <1>1, <1>4, <2>1, <3>2, <3>3, <3>4, AgeTypes DEF AgeInv, UnlistedInv
  <2>3. CASE ReceiveList
    <3>1. lookup.store \in Stores /\ unlistedFor[lookup.store] <= CallTimeout
      BY <1>4, <2>3, AgeTypes DEF ReceiveList, AgeInv
    <3>2. CASE PinnedModel = NoModel
      <4>1. lookup'.phase = "reading" /\ lookup'.store = lookup.store /\ lookup'.timer = 0
        BY <2>3, <3>2 DEF ReceiveList, TypeOK
      <4>2. UNCHANGED <<entry, cached, entryAge, pc, held, timer>>
        BY <2>3, <3>2 DEF ReceiveList, requestVars
      <4> QED BY <1>1, <1>4, <2>1, <3>1, <4>1, <4>2, AgeTypes DEF AgeInv, UnlistedInv
    <3>3. CASE PinnedModel # NoModel
      <4>1. Settle(Waiters, lookup.store, PinnedModel)
        BY <2>3, <3>3 DEF ReceiveList
      <4>2. unlistedFor[lookup.store] <= 2 * CallTimeout
        BY <3>1, AgeTypes
      <4> QED BY <1>1, <1>4, <2>1, <3>1, <4>1, <4>2, SettleAge
    <3> QED BY <3>2, <3>3
  <2>4. CASE ServeModels
    <3>1. lookup'.phase = "read" /\ lookup'.store = lookup.store /\ lookup'.timer = lookup.timer
      BY <2>4 DEF ServeModels, TypeOK
    <3>2. UNCHANGED <<entry, cached, entryAge, pc, held, timer>>
      BY <2>4 DEF ServeModels, requestVars
    <3> QED BY <1>1, <1>4, <2>1, <2>4, <3>1, <3>2 DEF AgeInv, UnlistedInv, ServeModels
  <2>5. CASE ReceiveModels
    <3>1. /\ lookup.store \in Stores
          /\ unlistedFor[lookup.store] <= CallTimeout + lookup.timer
          /\ Settle(Waiters, lookup.store, lookup.model)
      BY <1>4, <2>5, AgeTypes DEF ReceiveModels, AgeInv
    <3>2. unlistedFor[lookup.store] <= 2 * CallTimeout
      BY <3>1, AgeTypes
    <3> QED BY <1>1, <1>4, <2>1, <3>1, <3>2, SettleAge
  <2>6. CASE StoreNotFound \/ LookupTimesOut \/ \E exit \in {"transient", "final"} : LookupCallFails(exit)
    <3>1. PICK exit \in {"transient", "final"} : FailLookup(exit)
      BY <2>6 DEF StoreNotFound, LookupTimesOut, LookupCallFails
    <3> QED BY <1>1, <2>1, <3>1, AgeUnmoved DEF FailLookup, EndAttempts
  <2>7. ASSUME NEW c \in Clients, RequestNext(c) PROVE AgeInv'
    <3>1. CASE Arrive(c) \/ JoinLookup(c) \/ Retry(c) \/ ServeCheck(c)
      BY <1>1, <2>1, <3>1, AgeUnmoved DEF Arrive, JoinLookup, Retry, ServeCheck, cacheVars, TypeOK
    <3>2. CASE Hit(c)
      <4>1. CASE entry = "ok"
        <5>1. /\ cached.store \in Stores
              /\ unlistedFor[cached.store] <= 2 * CallTimeout + StoreTTL
          BY <1>4, <3>2, <4>1, AgeTypes DEF Hit, Fresh, TimeToLive, AgeInv
        <5>2. pc[c] = "start" /\ StartCalls({c}, cached) /\ UNCHANGED cacheVars
          BY <3>2, <4>1 DEF Hit
        <5>3. ASSUME NEW d \in Clients, pc'[d] = "calling"
              PROVE  /\ held'[d].store # NoStore
                     /\ unlistedFor[held'[d].store] <= 2 * CallTimeout + StoreTTL + timer'[d]
          <6>1. CASE d = c
            <7>1. held'[d] = cached /\ timer'[d] = 0
              BY <5>2, <6>1 DEF StartCalls, RequestInv
            <7> QED BY <5>1, <7>1, AgeTypes
          <6>2. CASE d # c
            BY <1>4, <5>2, <5>3, <6>2 DEF StartCalls, AgeInv
          <6> QED BY <6>1, <6>2
        <5> QED BY <1>1, <1>4, <2>1, <5>2, <5>3 DEF AgeInv, UnlistedInv, cacheVars
      <4>2. CASE entry # "ok"
        BY <1>1, <2>1, <3>2, <4>2, AgeUnmoved DEF Hit, EndAttempts, cacheVars
      <4> QED BY <4>1, <4>2
    <3>3. CASE Miss(c) /\ StartLookup(c)
      BY <1>1, <1>4, <2>1, <3>3 DEF StartLookup, Miss, AgeInv, UnlistedInv, TypeOK
    <3>4. CASE CallTimesOut(c) \/ \E exit \in Exits : CallEnds(c, exit)
      <4>1. PICK exit : EndAttempts({c}, exit) /\ UNCHANGED cacheVars
        BY <3>4 DEF CallTimesOut, CallEnds
      <4> QED BY <1>1, <2>1, <4>1, AgeUnmoved DEF EndAttempts, cacheVars
    <3>5. CASE Gone(c)
      <4>1. entry' = "ok" => entry = "ok" /\ cached' = cached /\ entryAge' = entryAge
        BY <3>5 DEF Gone, DropIfHeld
      <4>2. \A d \in Clients : pc'[d] = "calling"
                => pc[d] = "calling" /\ held'[d] = held[d] /\ timer'[d] = timer[d]
        BY <3>5 DEF Gone, EndAttempts, TypeOK
      <4> QED BY <1>1, <2>1, <3>5, <4>1, <4>2, AgeUnmoved DEF Gone
    <3>6. CASE Disconnect(c)
      BY <1>1, <2>1, <3>6, AgeUnmoved DEF Disconnect, TypeOK
    <3>7. CASE Miss(c) /\ PinnedLookup(c)
      BY <1>4, <3>7 DEF PinnedLookup
    <3> QED BY <2>7, <3>1, <3>2, <3>3, <3>4, <3>5, <3>6, <3>7 DEF RequestNext, LookUp
  <2>8. CASE WorldNext \/ UNCHANGED vars
    BY <1>1, <2>1, <2>8, AgeUnmoved DEF WorldNext, vars, cacheVars, requestVars
  <2> QED BY <1>4, <2>2, <2>3, <2>4, <2>5, <2>6, <2>7, <2>8 DEF Next, LookupNext
<1> QED BY <1>2, <1>3, <1>4

LEMMA AgeImpliesStaleness == TypeOK /\ AgeInv => BoundedStaleness
<1> SUFFICES ASSUME TypeOK, AgeInv, PinnedStore = NoStore, NEW c \in Clients, pc[c] = "calling"
             PROVE  unlistedFor[held[c].store] <= StoreTTL + 3 * CallTimeout
  BY DEF BoundedStaleness, StalenessBound
<1>1. held[c].store \in Stores /\ unlistedFor[held[c].store] <= 2 * CallTimeout + StoreTTL + timer[c]
  BY AgeTypes DEF AgeInv
<1> QED BY <1>1, AgeTypes

\* However requests, lookups, expiry and failures interleave, no call is in
\* flight against a store that was deleted, or wiped, more than the TTL and
\* three call timeouts ago.
THEOREM StalenessBounded == Spec => []BoundedStaleness
<1>1. Init => TypeOK /\ RequestInv /\ AgeInv
  BY InitType, RequestInit, AgeInit
<1>2. TypeOK /\ RequestInv /\ AgeInv /\ [Next]_vars => (TypeOK /\ RequestInv /\ AgeInv)'
  BY TypeStep, RequestStep, AgeStep
<1> QED BY <1>1, <1>2, AgeImpliesStaleness, PTL DEF Spec
(***************************************************************************)
(* The promise is kept, as far as safety goes: TLC checks that it ends       *)
(***************************************************************************)
LEMMA PromiseInit == Init => Promise!Init
<1> SUFFICES ASSUME Init PROVE Promise!Init
  OBVIOUS
<1>1. \A c \in Clients : (pc[c] \notin Over) = FALSE
  BY DEF Init
<1>2. \A c \in Clients : (tries[c] = 2) = FALSE
  BY DEF Init
<1>3. [c \in Clients |-> pc[c] \notin Over] = [c \in Clients |-> FALSE]
  BY <1>1, Zenon
<1>4. [c \in Clients |-> tries[c] = 2] = [c \in Clients |-> FALSE]
  BY <1>2, Zenon
<1> QED BY <1>3, <1>4 DEF Init, Promise!Init

LEMMA StartCallsPromise ==
  ASSUME TypeOK, RequestInv, NEW S \in SUBSET Clients, NEW t, StartCalls(S, t),
         \A c \in S : pc[c] \in {"start", "waiting"}
  PROVE  Promise!Call(S)
<1>1. ASSUME NEW c \in S
      PROVE  pc[c] \notin Over /\ sent[c] < IF tries[c] = 2 THEN 4 ELSE 2
  BY <1>1 DEF RequestInv, TypeOK
<1>2. \A c \in S : [d \in Clients |-> pc[d] \notin Over][c]
                   /\ sent[c] < Promise!Budget(c)
  BY <1>1 DEF Promise!Budget
<1>3. sent' = [c \in Clients |-> IF c \in S THEN sent[c] + 1 ELSE sent[c]]
  BY DEF StartCalls
<1>4. ASSUME NEW c \in Clients PROVE (pc'[c] \notin Over) <=> (pc[c] \notin Over)
  BY <1>1 DEF StartCalls
<1>5. tries' = tries
  BY DEF StartCalls
<1> QED BY <1>2, <1>3, <1>4, <1>5 DEF Promise!Call

LEMMA EndAttemptsPromise ==
  ASSUME TypeOK, RequestInv, NEW S \in SUBSET Clients, NEW exit, EndAttempts(S, exit),
         \A c \in S : pc[c] \notin Over
  PROVE  Promise!Next
<1>1. PICK E \in SUBSET Clients : E = {c \in S : ~WillRetry(c, exit)}
  OBVIOUS
<1>2. ASSUME NEW c \in Clients
      PROVE  (pc'[c] \notin Over) <=> (pc[c] \notin Over /\ c \notin E)
  <2>1. CASE c \in S /\ exit = "ok"
    BY <1>1, <2>1 DEF EndAttempts, WillRetry
  <2>2. CASE c \in S /\ exit # "ok"
    BY <1>1, <2>2 DEF EndAttempts
  <2>3. CASE c \notin S
    BY <1>1, <2>3 DEF EndAttempts, TypeOK
  <2> QED BY <2>1, <2>2, <2>3
<1>3. ASSUME NEW c \in Clients
      PROVE  (tries'[c] = 2) <=> (tries[c] = 2 /\ c \notin E)
  BY <1>1 DEF EndAttempts, TypeOK
<1>4. sent' = [c \in Clients |-> IF c \in E THEN 0 ELSE sent[c]]
  BY <1>1 DEF EndAttempts, TypeOK
<1>5. \A c \in E : [d \in Clients |-> pc[d] \notin Over][c]
  BY <1>1
<1>6. Promise!End(E)
  BY <1>2, <1>3, <1>4, <1>5 DEF Promise!End
<1> QED BY <1>6 DEF Promise!Next

\* A step the promise does not see.
LEMMA PromiseStutter ==
  ASSUME \A c \in Clients : (pc'[c] \in Over) <=> (pc[c] \in Over), tries' = tries, sent' = sent
  PROVE  UNCHANGED Promise!vars
  BY DEF Promise!vars

LEMMA SettlePromise ==
  ASSUME TypeOK, RequestInv, NEW S \in SUBSET Clients, NEW s, NEW m, Settle(S, s, m),
         \A c \in S : pc[c] \in {"start", "waiting"}
  PROVE  [Promise!Next]_Promise!vars
  BY StartCallsPromise DEF Settle, Promise!Next

LEMMA FailPromise ==
  ASSUME TypeOK, RequestInv, NEW exit, FailLookup(exit)
  PROVE  [Promise!Next]_Promise!vars
<1>1. Waiters \in SUBSET Clients /\ \A c \in Waiters : pc[c] \notin Over
  BY DEF Waiters
<1> QED BY <1>1, EndAttemptsPromise DEF FailLookup

LEMMA PromiseStep == TypeOK /\ RequestInv /\ [Next]_vars => [Promise!Next]_Promise!vars
<1> SUFFICES ASSUME TypeOK, RequestInv, [Next]_vars PROVE [Promise!Next]_Promise!vars
  OBVIOUS
<1>1. CASE ServeList \/ ServeModels \/ WorldNext \/ Tick \/ UNCHANGED vars
  BY <1>1, PromiseStutter DEF ServeList, ServeModels, WorldNext, Tick, vars, requestVars
<1>2. CASE ReceiveList
  BY <1>2, SettlePromise, PromiseStutter DEF ReceiveList, Waiters, requestVars
<1>3. CASE ReceiveModels
  BY <1>3, SettlePromise DEF ReceiveModels, Waiters
<1>4. CASE StoreNotFound \/ LookupTimesOut \/ \E exit \in {"transient", "final"} : LookupCallFails(exit)
  BY <1>4, FailPromise DEF StoreNotFound, LookupTimesOut, LookupCallFails
<1>5. ASSUME NEW c \in Clients, RequestNext(c) PROVE [Promise!Next]_Promise!vars
  <2>1. CASE Arrive(c)
    <3>1. pc[c] \in Over /\ pc' = [pc EXCEPT ![c] = "start"] /\ tries' = tries /\ sent' = sent
      BY <2>1 DEF Arrive
    <3>2. \A d \in Clients : (pc'[d] \notin Over) <=> (pc[d] \notin Over \/ d = c)
      BY <3>1 DEF TypeOK
    <3>3. [d \in Clients |-> pc'[d] \notin Over]
             = [[d \in Clients |-> pc[d] \notin Over] EXCEPT ![c] = TRUE]
      BY <3>2
    <3>4. Promise!Begin(c)
      BY <3>1, <3>3 DEF Promise!Begin
    <3> QED BY <3>4 DEF Promise!Next
  <2>2. CASE JoinLookup(c) \/ (Miss(c) /\ StartLookup(c))
    BY <2>2, PromiseStutter DEF JoinLookup, StartLookup, Miss, TypeOK
  <2>3. CASE Hit(c)
    <3>1. CASE entry = "ok"
      BY <2>3, <3>1, StartCallsPromise DEF Hit, Promise!Next
    <3>2. CASE entry # "ok"
      BY <2>3, <3>2, EndAttemptsPromise DEF Hit
    <3> QED BY <3>1, <3>2
  <2>4. CASE Miss(c) /\ PinnedLookup(c)
    BY <2>4, SettlePromise DEF PinnedLookup, Miss
  <2>5. CASE ServeCheck(c)
    BY <2>5, PromiseStutter DEF ServeCheck
  <2>6. CASE CallTimesOut(c) \/ \E exit \in Exits : CallEnds(c, exit)
    <3>1. PICK exit : EndAttempts({c}, exit) /\ pc[c] = "calling"
      BY <2>6 DEF CallTimesOut, CallEnds
    <3> QED BY <3>1, EndAttemptsPromise
  <2>7. CASE Gone(c)
    <3>1. CASE attempt[c] = 1
      BY <2>7, <3>1, PromiseStutter DEF Gone, TypeOK
    <3>2. CASE attempt[c] # 1
      BY <2>7, <3>2, EndAttemptsPromise DEF Gone
    <3> QED BY <3>1, <3>2
  <2>8. CASE Retry(c)
    <3>1. /\ pc[c] = "backoff" /\ pc' = [pc EXCEPT ![c] = "start"]
          /\ tries[c] = 1 /\ tries' = [tries EXCEPT ![c] = 2] /\ sent' = sent
      BY <2>8 DEF Retry, RequestInv
    <3>2. \A d \in Clients : (pc'[d] \notin Over) <=> (pc[d] \notin Over)
      BY <3>1 DEF TypeOK
    <3>3. [d \in Clients |-> tries'[d] = 2] = [[d \in Clients |-> tries[d] = 2] EXCEPT ![c] = TRUE]
      BY <3>1 DEF TypeOK
    <3>4. Promise!Retry(c)
      <4>1. [d \in Clients |-> pc'[d] \notin Over] = [d \in Clients |-> pc[d] \notin Over]
        BY <3>2
      <4>2. pc[c] \notin Over /\ tries[c] # 2
        BY <3>1
      <4>3. [d \in Clients |-> pc[d] \notin Over][c] /\ ~[d \in Clients |-> tries[d] = 2][c]
        BY <4>2, Zenon
      <4> QED BY <3>1, <3>3, <4>1, <4>3 DEF Promise!Retry
    <3> QED BY <3>4 DEF Promise!Next
  <2>9. CASE Disconnect(c)
    <3>1. /\ pc[c] \notin Over /\ pc' = [pc EXCEPT ![c] = "idle"]
          /\ tries' = [tries EXCEPT ![c] = 1] /\ sent' = [sent EXCEPT ![c] = 0]
      BY <2>9 DEF Disconnect
    <3>2. \A d \in Clients : (pc'[d] \notin Over) <=> (pc[d] \notin Over /\ d \notin {c})
      BY <3>1 DEF TypeOK
    <3>3. \A d \in Clients : (tries'[d] = 2) <=> (tries[d] = 2 /\ d \notin {c})
      BY <3>1 DEF TypeOK
    <3>4. sent' = [d \in Clients |-> IF d \in {c} THEN 0 ELSE sent[d]]
      BY <3>1 DEF TypeOK
    <3>5. Promise!End({c})
      BY <3>1, <3>2, <3>3, <3>4 DEF Promise!End
    <3> QED BY <3>5 DEF Promise!Next
  <2> QED BY <1>5, <2>1, <2>2, <2>3, <2>4, <2>5, <2>6, <2>7, <2>8, <2>9 DEF RequestNext, LookUp
<1> QED BY <1>1, <1>2, <1>3, <1>4, <1>5 DEF Next, LookupNext

\* Every behaviour of the service keeps the safety part of what it promises of
\* a request: its calls, its one retry, its end.
THEOREM PromiseSafe == Spec => Promise!SafeSpec
<1>1. Init => TypeOK /\ RequestInv
  BY InitType, RequestInit
<1>2. TypeOK /\ RequestInv /\ [Next]_vars => (TypeOK /\ RequestInv)'
  BY TypeStep, RequestStep
<1> QED BY <1>1, <1>2, PromiseInit, PromiseStep, PTL DEF Spec, Promise!SafeSpec
=============================================================================
