-------------------------- MODULE CheckCacheProofs --------------------------
(***************************************************************************)
(* The properties of CheckCache for every number of requests and problems, *)
(* every TTL and every step.                                                *)
(***************************************************************************)
EXTENDS CheckCache, TLAPS

\* Rounding down to a step goes back less than a step.
LEMMA StampBounds ==
    ASSUME NEW t \in Nat
    PROVE Stamp(t) \in Int /\ Stamp(t) <= t /\ t - Stamp(t) < Step
<1>1. t % Step \in 0 .. (Step - 1)
  BY ConstantsAssumption
<1>2. QED BY <1>1, ConstantsAssumption DEF Stamp

\* What an entry is good for, and what a request has to go by: nothing is
\* older than the stamp it is found by.
EntriesSound == \A p \in Problems, s \in Stamps :
    entries[<<p, s>>] # Missing => /\ entries[<<p, s>>].asof >= s
                                   /\ entries[<<p, s>>].at = s

RequestSound(q) ==
    /\ q # Idle => /\ q.stamp = Stamp(q.began)
                   /\ q.began <= now
                   /\ q.problem <= q.asked
    /\ q \in Answering => /\ q.asof >= q.stamp
                          /\ q.at = q.stamp
                          /\ q.fresh => q.asof >= q.began

IInv == TypeOK /\ EntriesSound /\ \A r \in Requests : RequestSound(request[r])

\* Entries, requests being evaluated and answers are told apart by their fields.
LEMMA Shapes ==
    /\ Idle \notin Asking \cup Answering
    /\ Missing \notin Entry
    /\ \A q \in Asking : q.pc \in {"look", "evaluate"} /\ q \notin Answering
    /\ \A q \in Answering : q.pc \in {"save", "answered"}
BY DEF Idle, Asking, Answering, Missing, Entry

LEMMA InitIInv == Init => IInv
<1> SUFFICES ASSUME Init PROVE IInv OBVIOUS
<1>1. 0 \in Times BY ConstantsAssumption DEF Times
<1>2. TypeOK BY <1>1 DEF Init, TypeOK
<1>3. EntriesSound BY DEF Init, EntriesSound, Problems
<1>4. \A r \in Requests : RequestSound(request[r])
  BY Shapes DEF Init, RequestSound
<1>5. QED BY <1>2, <1>3, <1>4 DEF IInv

\* A request that takes a step of its own leaves the others alone.
LEMMA OneRequest ==
    ASSUME IInv, NEW r \in Requests, NEW q, now' = now,
           request' = [request EXCEPT ![r] = q],
           q \in {Idle} \cup Asking \cup Answering, RequestSound(q)
    PROVE /\ request' \in [Requests -> {Idle} \cup Asking \cup Answering]
          /\ (\A x \in Requests : RequestSound(request[x]))'
<1>1. request \in [Requests -> {Idle} \cup Asking \cup Answering]
  BY DEF IInv, TypeOK
<1>2. request' \in [Requests -> {Idle} \cup Asking \cup Answering]
  BY <1>1
<1>3. ASSUME NEW x \in Requests PROVE RequestSound(request[x])'
  <2>1. RequestSound(request'[x])
    BY <1>1 DEF IInv
  <2> QED BY <2>1 DEF RequestSound
<1> QED BY <1>2, <1>3

\* Where a request that is not idle stands.
LEMMA Standing ==
    ASSUME IInv, NEW r \in Requests
    PROVE /\ request[r] \in {Idle} \cup Asking \cup Answering
          /\ RequestSound(request[r])
          /\ request[r].pc \in {"look", "evaluate"} => request[r] \in Asking
          /\ request[r].pc \in {"save", "answered"} => request[r] \in Answering
BY Shapes DEF IInv, TypeOK, Idle

LEMMA NextIInv == IInv /\ [Next]_vars => IInv'
<1> SUFFICES ASSUME IInv, [Next]_vars PROVE IInv' OBVIOUS
<1> USE ConstantsAssumption
<1>a. now \in Times /\ now \in Nat /\ Times \subseteq Nat BY DEF IInv, TypeOK, Times
<1>b. \A t \in Times : Stamp(t) \in Stamps BY DEF Stamps
<1>c. \A s \in Stamps : s \in Int BY StampBounds, <1>a DEF Stamps
<1>d. Problems \subseteq Nat BY DEF Problems
<1>e. entries \in [Problems \X Stamps -> Entry \cup {Missing}] BY DEF IInv, TypeOK
<1>f. ASSUME NEW r \in Requests, NEW q \in Asking \cup Answering, RequestSound(q),
             request' = [request EXCEPT ![r] = q], UNCHANGED <<now, entries>>
      PROVE IInv'
  BY <1>f, OneRequest DEF IInv, TypeOK, EntriesSound
<1>1. ASSUME NEW r \in Requests, NEW p \in Problems, NEW fresh \in BOOLEAN, Begin(r, p, fresh)
      PROVE IInv'
  <2> DEFINE q == [pc |-> "look", fresh |-> fresh, asked |-> p, problem |-> p,
                   began |-> now, stamp |-> Stamp(now)]
  <2>1. q \in Asking BY <1>a, <1>b DEF Asking
  <2>2. RequestSound(q) BY <2>1, <1>a, <1>d, Shapes DEF RequestSound
  <2>3. request' = [request EXCEPT ![r] = q] /\ UNCHANGED <<now, entries>> BY <1>1 DEF Begin
  <2> HIDE DEF q
  <2> QED BY <2>1, <2>2, <2>3, <1>f
<1>2. ASSUME NEW r \in Requests, Hit(r) PROVE IInv'
  <2> DEFINE q == request[r]
             e == entries[<<q.problem, q.stamp>>]
  <2>1. q \in Asking /\ RequestSound(q) BY <1>2, Standing DEF Hit
  <2>2. q.problem \in Problems /\ q.asked \in Problems /\ q.stamp \in Stamps BY <2>1 DEF Asking
  <2>3. e \in Entry /\ e.asof >= q.stamp /\ e.at = q.stamp
    BY <1>2, <1>e, <2>2 DEF Hit, Key, IInv, EntriesSound
  <2>4. ~q.fresh BY <1>2 DEF Hit, SkipsCache
  <2>5. PICK q2 : /\ request' = [request EXCEPT ![r] = q2]
                  /\ \/ q.problem = q.asked /\ q2 = Found(q, "answered", q.problem, e.asof, e.at)
                     \/ q.problem # q.asked /\ q2 = Found(q, "save", q.problem + 1, e.asof, e.at)
    BY <1>2 DEF Hit, Key
  <2>6. q2.problem \in Problems /\ q2.problem <= q.asked
    BY <2>1, <2>2, <2>5, <1>d, Shapes DEF Found, RequestSound, Problems
  <2>7. q2 \in Answering BY <2>1, <2>3, <2>5, <2>6 DEF Found, Asking, Answering, Entry
  <2>8. RequestSound(q2)
    <3>1. q2.stamp = q.stamp /\ q2.began = q.began /\ q2.asked = q.asked /\ q2.fresh = q.fresh
          /\ q2.asof = e.asof /\ q2.at = e.at
      BY <2>5 DEF Found
    <3> QED BY <3>1, <2>1, <2>3, <2>4, <2>6, Shapes DEF RequestSound
  <2>9. UNCHANGED <<now, entries>> BY <1>2 DEF Hit
  <2> QED BY <2>5, <2>7, <2>8, <2>9, <1>f
<1>3. ASSUME NEW r \in Requests, Miss(r) PROVE IInv'
  <2> DEFINE q == request[r]
             q2 == [q EXCEPT !.pc = "evaluate"]
  <2>1. q \in Asking /\ RequestSound(q) BY <1>3, Standing DEF Miss
  <2>2. q2 \in Asking BY <2>1 DEF Asking
  <2>3. q2.stamp = q.stamp /\ q2.began = q.began /\ q2.asked = q.asked /\ q2.problem = q.problem
    BY <2>1 DEF Asking
  <2>4. RequestSound(q2) BY <2>1, <2>2, <2>3, Shapes DEF RequestSound
  <2>5. request' = [request EXCEPT ![r] = q2] /\ UNCHANGED <<now, entries>>
    BY <1>3, <1>e DEF Miss, IInv, TypeOK
  <2> QED BY <2>2, <2>4, <2>5, <1>f
<1>4. ASSUME NEW r \in Requests, Dispatch(r) PROVE IInv'
  <2> DEFINE q == request[r]
             q2 == [q EXCEPT !.pc = "look", !.problem = q.problem - 1]
  <2>1. q \in Asking /\ RequestSound(q) BY <1>4, Standing DEF Dispatch
  <2>2. q.problem \in Problems /\ q.asked \in Problems /\ q.problem > 0
    BY <2>1, <1>4 DEF Asking, Dispatch
  <2>3. q.problem - 1 \in Problems /\ q.problem - 1 <= q.asked
    BY <2>1, <2>2, Shapes DEF Problems, RequestSound
  <2>4. q2 \in Asking BY <2>1, <2>3 DEF Asking
  <2>5. q2.stamp = q.stamp /\ q2.began = q.began /\ q2.asked = q.asked /\ q2.problem = q.problem - 1
    BY <2>1 DEF Asking
  <2>6. RequestSound(q2) BY <2>1, <2>3, <2>4, <2>5, Shapes DEF RequestSound
  <2>7. request' = [request EXCEPT ![r] = q2] /\ UNCHANGED <<now, entries>>
    BY <1>4 DEF Dispatch, IInv, TypeOK
  <2> QED BY <2>4, <2>6, <2>7, <1>f
<1>5. ASSUME NEW r \in Requests, ReadTuples(r) PROVE IInv'
  <2> DEFINE q == request[r]
             q2 == Found(q, "save", 0, now, q.stamp)
  <2>1. q \in Asking /\ RequestSound(q) BY <1>5, Standing DEF ReadTuples
  <2>2. q.asked \in Problems /\ q.stamp \in Stamps /\ q.began \in Times BY <2>1 DEF Asking
  <2>3. 0 \in Problems /\ 0 <= q.asked BY <2>2 DEF Problems
  <2>4. q2 \in Answering BY <2>1, <2>2, <2>3, <1>a DEF Found, Asking, Answering
  <2>5. q.stamp <= q.began /\ q.began <= now
    BY <2>1, <2>2, <1>a, StampBounds, Shapes DEF RequestSound
  <2>6. now >= q.stamp /\ now >= q.began
    <3>1. q.stamp \in Int BY <2>2, <1>c
    <3>2. q.began \in Nat BY <2>2, <1>a
    <3> QED BY <3>1, <3>2, <2>5, <1>a
  <2>7. q2.stamp = q.stamp /\ q2.began = q.began /\ q2.asked = q.asked /\ q2.problem = 0
        /\ q2.asof = now /\ q2.at = q.stamp
    BY DEF Found
  <2>8. RequestSound(q2) BY <2>1, <2>3, <2>6, <2>7, Shapes DEF RequestSound
  <2>9. request' = [request EXCEPT ![r] = q2] /\ UNCHANGED <<now, entries>>
    BY <1>5 DEF ReadTuples, IInv, TypeOK
  <2> QED BY <2>4, <2>8, <2>9, <1>f
<1>6. ASSUME NEW r \in Requests, Save(r) PROVE IInv'
  <2> DEFINE q == request[r]
             e == [asof |-> q.asof, at |-> q.at, until |-> now + TTL]
             q2 == IF q.problem = q.asked THEN [q EXCEPT !.pc = "answered"]
                                          ELSE [q EXCEPT !.problem = @ + 1]
  <2>1. q \in Answering /\ RequestSound(q) BY <1>6, Standing DEF Save
  <2>2. q.problem \in Problems /\ q.asked \in Problems /\ q.stamp \in Stamps BY <2>1 DEF Answering
  <2>3. q.asof >= q.stamp /\ q.at = q.stamp BY <2>1 DEF RequestSound
  <2>4. e \in Entry BY <2>1, <1>a DEF Answering, Entry
  <2>5. entries' = [entries EXCEPT ![<<q.problem, q.stamp>>] = e] /\ now' = now
    BY <1>6 DEF Save, Key
  <2>6. entries' \in [Problems \X Stamps -> Entry \cup {Missing}] BY <2>4, <2>5, <1>e
  <2>7. EntriesSound'
    <3> SUFFICES ASSUME NEW p \in Problems, NEW s \in Stamps, entries'[<<p, s>>] # Missing
                 PROVE entries'[<<p, s>>].asof >= s /\ entries'[<<p, s>>].at = s
      BY DEF EntriesSound
    <3>1. CASE <<p, s>> = <<q.problem, q.stamp>> BY <3>1, <2>3, <2>5, <1>e, <2>2
    <3>2. CASE <<p, s>> # <<q.problem, q.stamp>> BY <3>2, <2>5, <1>e DEF IInv, EntriesSound
    <3> QED BY <3>1, <3>2
  <2>8. q2.problem \in Problems /\ q2.problem <= q.asked
    BY <2>1, <2>2, <1>d, Shapes DEF RequestSound, Problems, Answering
  <2>9. q2 \in Answering BY <2>1, <2>8 DEF Answering
  <2>10. q2.stamp = q.stamp /\ q2.began = q.began /\ q2.asked = q.asked /\ q2.fresh = q.fresh
         /\ q2.asof = q.asof /\ q2.at = q.at
    BY <2>1 DEF Answering
  <2>11. RequestSound(q2) BY <2>1, <2>8, <2>9, <2>10, Shapes DEF RequestSound
  <2>12. request' = [request EXCEPT ![r] = q2] BY <1>6 DEF Save
  <2> QED BY <2>5, <2>6, <2>7, <2>9, <2>11, <2>12, OneRequest DEF IInv, TypeOK
<1>7. ASSUME NEW r \in Requests, End(r) PROVE IInv'
  <2>1. RequestSound(Idle) BY Shapes DEF RequestSound
  <2>2. request' = [request EXCEPT ![r] = Idle] /\ UNCHANGED <<now, entries>> BY <1>7 DEF End
  <2> QED BY <2>1, <2>2, OneRequest DEF IInv, TypeOK, EntriesSound
<1>8. ASSUME NEW k \in Problems \X Stamps, Evict(k) PROVE IInv'
  <2>1. UNCHANGED <<now, request>> /\ entries' = [entries EXCEPT ![k] = Missing]
    BY <1>8 DEF Evict
  <2>2. TypeOK' BY <2>1 DEF IInv, TypeOK
  <2>3. EntriesSound' BY <2>1, <1>e DEF IInv, EntriesSound
  <2>4. (\A r \in Requests : RequestSound(request[r]))' BY <2>1 DEF IInv, RequestSound
  <2> QED BY <2>2, <2>3, <2>4 DEF IInv
<1>9. CASE Tick
  <2>1. /\ now' = now + 1 /\ now' \in Times
        /\ request' = request
        /\ entries' = [k \in Problems \X Stamps |->
               IF entries[k].until <= now' THEN Missing ELSE entries[k]]
    BY <1>9, <1>a DEF Tick, Times
  <2>2. TypeOK' BY <2>1, <1>e DEF IInv, TypeOK
  <2>3. EntriesSound' BY <2>1, <1>e DEF IInv, EntriesSound
  <2>4. ASSUME NEW r \in Requests PROVE RequestSound(request[r])'
    <3>1. RequestSound(request[r]) /\ request[r] \in {Idle} \cup Asking \cup Answering
      BY Standing
    <3>2. request[r] # Idle => request[r].began \in Nat
      BY <3>1, <1>a DEF Asking, Answering
    <3> QED BY <3>1, <3>2, <2>1, <1>a DEF RequestSound
  <2> QED BY <2>2, <2>3, <2>4 DEF IInv
<1>10. CASE UNCHANGED vars
  BY <1>10 DEF vars, IInv, TypeOK, EntriesSound, RequestSound
<1> QED BY <1>1, <1>2, <1>3, <1>4, <1>5, <1>6, <1>7, <1>8, <1>9, <1>10 DEF Next

THEOREM Invariant == Spec => []IInv
BY InitIInv, NextIInv, PTL DEF Spec

\* Every variable keeps its type.
THEOREM TypeCorrect == Spec => []TypeOK
<1>1. IInv => TypeOK BY DEF IInv
<1> QED BY <1>1, Invariant, PTL

\* An answer is less than a step older than its request, however long the TTL
\* and however often it was saved again.
THEOREM AgeBounded == Spec => []AnswerWithinStep
<1>1. IInv => AnswerWithinStep
  <2> SUFFICES ASSUME IInv, NEW r \in Answered
               PROVE /\ request[r].began - request[r].asof < Step
                     /\ request[r].began - request[r].at < Step
    BY DEF AnswerWithinStep
  <2> DEFINE q == request[r]
  <2>1. q \in Answering /\ RequestSound(q) BY Standing DEF Answered
  <2>2. q.asof >= q.stamp /\ q.at = q.stamp /\ q.stamp = Stamp(q.began)
    BY <2>1, Shapes DEF RequestSound
  <2>3. q.began \in Nat /\ q.asof \in Nat BY <2>1, ConstantsAssumption DEF Answering, Times
  <2>4. Stamp(q.began) \in Int /\ q.began - Stamp(q.began) < Step BY <2>3, StampBounds
  <2> QED BY <2>2, <2>3, <2>4, ConstantsAssumption
<1> QED BY <1>1, Invariant, PTL

\* A HIGHER_CONSISTENCY answer rests on nothing read before it was asked.
THEOREM FreshnessKept == Spec => []FreshWhenAsked
<1>1. IInv => FreshWhenAsked
  <2> SUFFICES ASSUME IInv, NEW r \in Answered, request[r].fresh
               PROVE request[r].asof >= request[r].began
    BY DEF FreshWhenAsked
  <2> QED BY Standing DEF Answered, RequestSound
<1> QED BY <1>1, Invariant, PTL
=============================================================================
