-------------------------- MODULE MpmcQueueProofs --------------------------
(***************************************************************************)
(* The queue of MpmcQueue, for any number of senders and receivers and any  *)
(* capacities: it implements FifoQueue, and drains before it fails.         *)
(*                                                                         *)
(* Everything rests on the sequence numbers of the slots (Slots): what the  *)
(* slot of every position within one lap may show, and who may change it.   *)
(***************************************************************************)
EXTENDS MpmcQueue, SequenceTheorems, TLAPS

Owns(p, q) == pc[p] = "own" /\ pos[p] = q

\* The slot of a claimed position is published, or one sender is about to
\* publish it; that of a free position is writable, or one receiver is about
\* to recycle it from the lap before.
Slots ==
    /\ tail <= head
    /\ head <= tail + capacity
    /\ \A q \in tail..(head - 1) :
          seqOf[Index(q)] = q + 1 \/ \E s \in Senders : Owns(s, q)
    /\ \A q \in head..(tail + capacity - 1) :
          seqOf[Index(q)] = q \/ \E r \in Receivers : Owns(r, q - capacity)

\* What a sender may rely on where it is.
SenderAt(s) ==
    /\ pc[s] \in Locked => ~done
    /\ pc[s] # "idle" => item[s] \in 1..MaxSends
    /\ pc[s] \in {"look", "claim"} => pos[s] <= head
    /\ pc[s] = "claim" /\ pos[s] = head => seqOf[Index(head)] = head
    /\ pc[s] = "own" => /\ tail <= pos[s]
                        /\ pos[s] < head
                        /\ seqOf[Index(pos[s])] = pos[s]

\* And a receiver.
ReceiverAt(r) ==
    /\ pc[r] # "signal" => item[r] = NoItem
    /\ pc[r] \in {"look", "claim"} => /\ pos[r] <= tail
                                      /\ pos[r] < tail => seqOf[Index(pos[r])] > pos[r]
    /\ pc[r] = "claim" /\ pos[r] = tail => seqOf[Index(tail)] = tail + 1
    /\ pc[r] = "own" => /\ head <= pos[r] + capacity
                        /\ pos[r] < tail
                        /\ seqOf[Index(pos[r])] = pos[r] + 1

\* No two senders own the same position, nor two receivers.
Exclusive ==
    /\ \A s1, s2 \in Senders : pc[s1] = "own" /\ Owns(s2, pos[s1]) => s1 = s2
    /\ \A r1, r2 \in Receivers : pc[r1] = "own" /\ Owns(r2, pos[r1]) => r1 = r2

IInv ==
    /\ TypeOK
    /\ sends <= MaxSends
    /\ Slots
    /\ \A s \in Senders : SenderAt(s)
    /\ \A r \in Receivers : ReceiverAt(r)
    /\ Exclusive

\* The remainder is what an index must be: within the ring, the position
\* itself in the first lap, the same one lap later, and another for every
\* other position less than a lap away.
LEMMA Ring ==
    ASSUME NEW N \in Nat, N >= 2
    PROVE  /\ \A p \in Nat : p % N \in 0..(N - 1)
           /\ \A p \in 0..(N - 1) : p % N = p
           /\ \A p \in Nat : (p + N) % N = p % N
           /\ \A p, q \in Nat : p # q /\ p < q + N /\ q < p + N => p % N # q % N
<1>1. \A p \in Nat : p % N \in 0..(N - 1) /\ p \div N \in Int /\ p = N * (p \div N) + (p % N)
  OBVIOUS
<1>2. \A a \in Int : a > 0 => N * a >= N
  OBVIOUS
<1>3. ASSUME NEW p \in Nat, NEW q \in Nat, p % N = q % N, p < q + N, q < p + N PROVE p = q
  <2> DEFINE a == p \div N
             b == q \div N
  <2>1. a \in Int /\ b \in Int /\ a - b \in Int /\ b - a \in Int BY <1>1
  <2>2. p - q = N * (a - b) /\ q - p = N * (b - a)
    <3>1. N * (a - b) = N * a - N * b /\ N * (b - a) = N * b - N * a BY <2>1
    <3> QED BY <1>1, <1>3, <3>1
  <2>3. ~(a - b > 0) /\ ~(b - a > 0)
    <3> HIDE DEF a, b
    <3> QED BY <1>2, <1>3, <2>1, <2>2
  <2>4. a = b
    <3> HIDE DEF a, b
    <3> QED BY <2>1, <2>3
  <2> QED BY <1>1, <1>3, <2>4
<1>4. ASSUME NEW p \in 0..(N - 1) PROVE p % N = p
  OBVIOUS
<1>5. ASSUME NEW p \in Nat PROVE (p + N) % N = p % N
  <2> DEFINE a == p \div N
             b == (p + N) \div N
  <2>1. a \in Int /\ b \in Int /\ b - a - 1 \in Int /\ a + 1 - b \in Int BY <1>1
  <2>2. p + N = N * b + ((p + N) % N) /\ p = N * a + (p % N) BY <1>1
  <2>3. N * (b - a - 1) = N * b - N * a - N /\ N * (a + 1 - b) = N * a + N - N * b
    <3> HIDE DEF a, b
    <3> QED BY <2>1
  <2>4. p % N \in 0..(N - 1) /\ (p + N) % N \in 0..(N - 1) BY <1>1
  <2>5. ~(b - a - 1 > 0) /\ ~(a + 1 - b > 0)
    <3> HIDE DEF a, b
    <3>1. N * (b - a - 1) < N /\ N * (a + 1 - b) < N BY <2>1, <2>2, <2>3, <2>4
    <3> QED BY <1>2, <2>1, <3>1
  <2>6. b = a + 1
    <3> HIDE DEF a, b
    <3> QED BY <2>1, <2>5
  <2>7. N * b = N * a + N BY <2>1, <2>6
  <2> HIDE DEF a, b
  <2> QED BY <2>1, <2>2, <2>4, <2>7
<1> QED BY <1>1, <1>3, <1>4, <1>5

\* Every position has a slot of the ring.
LEMMA Indices ==
    ASSUME TypeOK
    PROVE  /\ \A p \in Nat : Index(p) \in 0..(capacity - 1)
           /\ \A p \in Nat : Index(p + capacity) = Index(p)
           /\ \A p, q \in Nat :
                 p # q /\ p < q + capacity /\ q < p + capacity => Index(p) # Index(q)
BY Ring DEF TypeOK, Index

\* The types that the arithmetic of positions needs.
Numbers == /\ capacity \in Nat /\ capacity >= 2
           /\ head \in Nat
           /\ tail \in Nat

\* The arithmetic that the types give, without the rest of TypeOK.
LEMMA NumbersOK ==
    ASSUME TypeOK
    PROVE  /\ Numbers
           /\ \A p \in Procs : pos[p] \in Nat
           /\ \A p \in Nat : seqOf[Index(p)] \in Nat
BY Indices DEF TypeOK, Numbers

\* The empty ring: every slot is writable in its first lap.
LEMMA InitIInv == Init => IInv
<1> SUFFICES ASSUME Init PROVE IInv OBVIOUS
<1>1. TypeOK
  <2>1. /\ seqOf \in [0..(capacity - 1) -> Nat]
        /\ data \in [0..(capacity - 1) -> Nat]
    BY QueueAssumption DEF Init, NoItem
  <2>2. /\ pc \in [Procs -> Steps]
        /\ pos \in [Procs -> Nat]
        /\ snap \in [Procs -> Nat]
        /\ item \in [Procs -> Nat]
    BY DEF Init, Steps, NoItem
  <2> QED BY <2>1, <2>2, QueueAssumption DEF Init, TypeOK
<1>2. Slots
  <2>1. \A q \in 0..(capacity - 1) : Index(q) = q
    BY Ring, QueueAssumption DEF Init, Index
  <2> QED BY <2>1, QueueAssumption DEF Init, Slots
<1>3. (\A s \in Senders : SenderAt(s)) /\ (\A r \in Receivers : ReceiverAt(r)) /\ Exclusive
  BY DEF Init, SenderAt, ReceiverAt, Exclusive, Owns, Procs, Locked
<1> QED BY <1>1, <1>2, <1>3, QueueAssumption DEF Init, IInv

(***************************************************************************)
(* Types.                                                                   *)
(***************************************************************************)
LEMMA GoToType ==
    ASSUME TypeOK, NEW p \in Procs, NEW step \in Steps, GoTo(p, step)
    PROVE  pc' \in [Procs -> Steps]
BY DEF TypeOK, GoTo

\* Ending a call, with a parked process woken or none.
LEMMA SignalType ==
    ASSUME TypeOK, NEW p \in Procs, NEW S \in SUBSET Procs,
           pc' \in {[pc EXCEPT ![p] = "idle", ![q] = "retry"] : q \in Parked(S)}
                    \cup {[pc EXCEPT ![p] = "idle"]}
    PROVE  pc' \in [Procs -> Steps]
BY DEF TypeOK, Steps, Parked

\* The locals of a call that returns are reset.
LEMMA ReturnType ==
    ASSUME TypeOK, NEW p \in Procs, Return(p)
    PROVE  /\ pos' \in [Procs -> Nat]
           /\ snap' \in [Procs -> Nat]
           /\ item' \in [Procs -> Nat]
           /\ cancelled' \in SUBSET Procs
BY DEF TypeOK, Return, NoItem

\* A larger ring is as well formed as the one it replaces.
LEMMA ExtendType ==
    ASSUME TypeOK, Slots, NEW n \in Nat, n > capacity, ExtendRing(n)
    PROVE  /\ capacity' \in Nat /\ capacity' >= 2
           /\ extended' \in Nat
           /\ seqOf' \in [0..(capacity' - 1) -> Nat]
           /\ data' \in [0..(capacity' - 1) -> Nat]
           /\ head' \in Nat
           /\ tail' \in Nat
<1>1. \A i \in 0..(n - 1) : tail + i \in Nat /\ Index(tail + i) \in 0..(capacity - 1)
  <2> TAKE i \in 0..(n - 1)
  <2>1. tail + i \in Nat BY DEF TypeOK
  <2> QED BY <2>1, Indices
<1>2. data' \in [0..(capacity' - 1) -> Nat]
  BY <1>1 DEF TypeOK, ExtendRing, NoItem
<1>3. seqOf' \in [0..(capacity' - 1) -> Nat]
  BY DEF ExtendRing
<1>4. head' \in Nat /\ tail' \in Nat /\ extended' \in Nat
  BY DEF TypeOK, Slots, ExtendRing
<1>5. capacity' \in Nat /\ capacity' >= 2
  BY DEF TypeOK, ExtendRing
<1> QED BY <1>2, <1>3, <1>4, <1>5

\* Every step of a sender keeps the types.
LEMMA SendType ==
    ASSUME IInv, NEW s \in Senders, SendNext(s)
    PROVE  TypeOK'
<1>1. TypeOK /\ Slots /\ s \in Procs /\ Receivers \subseteq Procs
  BY DEF IInv, Procs
<1>2. CASE Send(s)
  BY <1>1, <1>2 DEF Send, GoTo, TypeOK, Steps, Locked, lockVars, slotVars, tokenVars
<1>3. CASE LookSend(s)
  <2>1. pc' \in [Procs -> Steps]
    BY <1>1, <1>3, GoToType DEF LookSend, TypeOK, Steps, Locked
  <2>2. pos' = pos \/ pos' = [pos EXCEPT ![s] = head]
    BY <1>3 DEF LookSend
  <2>3. PICK n \in {0, capacity} : snap' = snap \/ snap' = [snap EXCEPT ![s] = n]
    BY <1>3 DEF LookSend
  <2>4. pos' \in [Procs -> Nat]
    BY <1>1, <2>2 DEF TypeOK
  <2>5. snap' \in [Procs -> Nat]
    <3>1. n \in Nat BY <1>1 DEF TypeOK
    <3> QED BY <1>1, <2>3, <3>1 DEF TypeOK
  <2> QED BY <1>1, <1>3, <2>1, <2>4, <2>5 DEF LookSend, TypeOK, lockVars, slotVars, tokenVars
<1>4. CASE ClaimSend(s)
  <2>1. pc' \in [Procs -> Steps]
    BY <1>1, <1>4, GoToType DEF ClaimSend, Steps, Locked
  <2>2. head' \in Nat
    BY <1>1, <1>4 DEF ClaimSend, TypeOK
  <2> QED BY <1>1, <1>4, <2>1, <2>2 DEF ClaimSend, TypeOK, lockVars, slotVars, tokenVars
<1>5. CASE Publish(s)
  <2>1. pc' \in [Procs -> Steps]
    BY <1>1, <1>5, GoToType DEF Publish, Steps, Locked
  <2>2. pos[s] + 1 \in Nat /\ item[s] \in Nat
    BY <1>1 DEF TypeOK
  <2>3. seqOf' \in [0..(capacity - 1) -> Nat] /\ data' \in [0..(capacity - 1) -> Nat]
    BY <1>1, <1>5, <2>2 DEF Publish, TypeOK
  <2> QED BY <1>1, <1>5, <2>1, <2>3 DEF Publish, TypeOK, lockVars, tokenVars
<1>6. CASE SendEnds(s)
  <2>1. pc' \in [Procs -> Steps] /\ empty' \in BOOLEAN
    <3>1. pc' \in {[pc EXCEPT ![s] = "idle", ![q] = "retry"] : q \in Parked(Receivers)}
                      \cup {[pc EXCEPT ![s] = "idle"]}
      BY <1>6 DEF SendEnds, Signal, GoTo
    <3>2. empty' \in BOOLEAN BY <1>1, <1>6 DEF SendEnds, Signal, TypeOK
    <3>3. Receivers \in SUBSET Procs BY DEF Procs
    <3> QED BY <1>1, <3>1, <3>2, <3>3, SignalType
  <2> QED BY <1>1, <1>6, <2>1, ReturnType DEF SendEnds, TypeOK, lockVars, slotVars
<1>7. CASE Lock(s)
  BY <1>1, <1>7 DEF Lock, GoTo, TypeOK, Steps, Locked, lockVars, slotVars, tokenVars
<1>8. CASE Extend(s)
  <2>1. CASE ExtendRing(2 * capacity)
    <3>1. 2 * capacity \in Nat /\ 2 * capacity > capacity
      BY <1>1 DEF TypeOK
    <3> QED BY <1>1, <1>8, <2>1, <3>1, ExtendType DEF Extend, GoTo, TypeOK, Steps, Locked, tokenVars
  <2> QED BY <1>1, <1>8, <2>1 DEF Extend, GoTo, TypeOK, Steps, Locked, tokenVars, slotVars
<1>9. CASE ParkSend(s)
  BY <1>1, <1>9 DEF ParkSend, Park, GoTo, TypeOK, Steps, Locked, lockVars, slotVars
<1>10. CASE RetrySend(s)
  BY <1>1, <1>10 DEF RetrySend, GoTo, TypeOK, Steps, Locked, lockVars, slotVars, tokenVars
<1>11. CASE SendFails(s)
  <2>1. pc' \in [Procs -> Steps]
    BY <1>1, <1>11 DEF SendFails, GoTo, TypeOK, Steps
  <2> QED BY <1>1, <1>11, <2>1, ReturnType DEF SendFails, TypeOK, lockVars, slotVars, tokenVars
<1> QED BY <1>2, <1>3, <1>4, <1>5, <1>6, <1>7, <1>8, <1>9, <1>10, <1>11 DEF SendNext

\* Every step of a receiver keeps the types.
LEMMA RecvType ==
    ASSUME IInv, NEW r \in Receivers, RecvNext(r)
    PROVE  TypeOK'
<1>1. TypeOK /\ r \in Procs /\ Senders \subseteq Procs
  BY DEF IInv, Procs
<1>2. CASE Recv(r)
  BY <1>1, <1>2 DEF Recv, GoTo, TypeOK, Steps, Locked, lockVars, slotVars, tokenVars
<1>3. CASE LookRecv(r)
  BY <1>1, <1>3 DEF LookRecv, GoTo, TypeOK, Steps, Locked, lockVars, slotVars, tokenVars
<1>4. CASE ClaimRecv(r)
  <2>1. pc' \in [Procs -> Steps]
    BY <1>1, <1>4, GoToType DEF ClaimRecv, Steps, Locked
  <2>2. tail' \in Nat
    BY <1>1, <1>4 DEF ClaimRecv, TypeOK
  <2> QED BY <1>1, <1>4, <2>1, <2>2 DEF ClaimRecv, TypeOK, lockVars, slotVars, tokenVars
<1>5. CASE Recycle(r)
  <2>1. Index(pos[r]) \in 0..(capacity - 1)
    BY <1>1, Indices DEF TypeOK
  <2>2. data[Index(pos[r])] \in Nat /\ pos[r] + capacity \in Nat /\ NoItem \in Nat
    BY <1>1, <2>1 DEF TypeOK, NoItem
  <2>3. pc' \in [Procs -> Steps]
    BY <1>1, <1>5, GoToType DEF Recycle, Steps, Locked
  <2>4. /\ item' \in [Procs -> Nat]
        /\ data' \in [0..(capacity - 1) -> Nat]
        /\ seqOf' \in [0..(capacity - 1) -> Nat]
    BY <1>1, <1>5, <2>2 DEF Recycle, TypeOK
  <2> QED BY <1>1, <1>5, <2>3, <2>4 DEF Recycle, TypeOK, lockVars, tokenVars
<1>6. CASE RecvEnds(r)
  <2>1. pc' \in [Procs -> Steps] /\ full' \in BOOLEAN
    <3>1. pc' \in {[pc EXCEPT ![r] = "idle", ![q] = "retry"] : q \in Parked(Senders)}
                      \cup {[pc EXCEPT ![r] = "idle"]}
      BY <1>6 DEF RecvEnds, Signal, GoTo
    <3>2. full' \in BOOLEAN BY <1>1, <1>6 DEF RecvEnds, Signal, TypeOK
    <3>3. Senders \in SUBSET Procs BY DEF Procs
    <3> QED BY <1>1, <3>1, <3>2, <3>3, SignalType
  <2> QED BY <1>1, <1>6, <2>1, ReturnType DEF RecvEnds, TypeOK, lockVars, slotVars
<1>7. CASE RecvFails(r)
  <2>1. pc' \in [Procs -> Steps]
    BY <1>1, <1>7 DEF RecvFails, GoTo, TypeOK, Steps
  <2> QED BY <1>1, <1>7, <2>1, ReturnType DEF RecvFails, TypeOK, lockVars, slotVars, tokenVars
<1>8. CASE ParkRecv(r)
  BY <1>1, <1>8 DEF ParkRecv, Park, GoTo, TypeOK, Steps, Locked, lockVars, slotVars
<1> QED BY <1>2, <1>3, <1>4, <1>5, <1>6, <1>7, <1>8 DEF RecvNext

\* So does every step of the queue.
LEMMA StepType == IInv /\ [Next]_vars => TypeOK'
<1> SUFFICES ASSUME IInv, [Next]_vars PROVE TypeOK' OBVIOUS
<1>1. TypeOK /\ Slots BY DEF IInv
<1>2. ASSUME NEW p \in Procs, Cancel(p) PROVE TypeOK'
  BY <1>1, <1>2 DEF Cancel, TypeOK, Steps, lockVars, slotVars, tokenVars
<1>3. ASSUME NEW n \in GrowTo, Grow(n) PROVE TypeOK'
  <2>1. n \in Nat /\ n > capacity BY <1>1, <1>3, QueueAssumption DEF Grow, TypeOK
  <2> QED BY <1>1, <1>3, <2>1, ExtendType DEF Grow, TypeOK, tokenVars
<1>4. CASE Close
  BY <1>1, <1>4 DEF Close, TypeOK, Steps, slotVars, tokenVars
<1>5. CASE UNCHANGED vars
  BY <1>1, <1>5 DEF vars, TypeOK, lockVars, slotVars, tokenVars
<1> QED BY <1>2, <1>3, <1>4, <1>5, SendType, RecvType DEF Next

(***************************************************************************)
(* Steps that leave the ring and its owners alone.                          *)
(***************************************************************************)
Still(p) ==
    /\ pos'[p] = pos[p]
    /\ item'[p] = item[p]
    /\ pc'[p] = pc[p] \/ (pc[p] = "parked" /\ pc'[p] = "retry")

RingStill == UNCHANGED <<capacity, seqOf, head, tail>>

\* Nobody starts to own a position, and nobody stops.
OwnersStill == \A p \in Procs : \A q : Owns(p, q)' <=> Owns(p, q)

\* With the ring and its owners left alone, every slot means what it did.
LEMMA SlotsStill ==
    ASSUME IInv, RingStill, OwnersStill
    PROVE  Slots' /\ Exclusive'
<1>1. Slots /\ Exclusive /\ Senders \subseteq Procs /\ Receivers \subseteq Procs
  BY DEF IInv, Procs
<1>2. Slots'
  BY <1>1 DEF Slots, RingStill, OwnersStill, Index
<1>3. Exclusive'
  <2>1. \A p1, p2 \in Procs : pc'[p1] = "own" /\ Owns(p2, pos[p1])'
                               => Owns(p1, pos'[p1]) /\ Owns(p2, pos'[p1])
    BY DEF OwnersStill, Owns
  <2> QED BY <1>1, <2>1 DEF Exclusive, Owns, OwnersStill
<1> QED BY <1>2, <1>3

\* And a process that did not step stands where it stood.
LEMMA AtStill ==
    ASSUME IInv, RingStill, done' = done, NEW p \in Procs, Still(p)
    PROVE  /\ p \in Senders => SenderAt(p)'
           /\ p \in Receivers => ReceiverAt(p)'
<1>1. p \in Senders => SenderAt(p)'
  BY DEF IInv, SenderAt, Still, RingStill, Index, Locked
<1>2. p \in Receivers => ReceiverAt(p)'
  BY DEF IInv, ReceiverAt, Still, RingStill, Index
<1> QED BY <1>1, <1>2

\* A step of one process that only parked ones notice.
LEMMA QuietStep ==
    ASSUME IInv, TypeOK', sends' <= MaxSends, RingStill, done' = done,
           NEW p \in Procs, pc[p] # "own", pc'[p] # "own",
           p \in Senders => SenderAt(p)', p \in Receivers => ReceiverAt(p)',
           \A x \in Procs : x # p => Still(x)
    PROVE  IInv'
<1>1. OwnersStill
  BY DEF OwnersStill, Owns, Still
<1>2. Procs = Senders \cup Receivers BY DEF Procs
<1>3. (\A s \in Senders : SenderAt(s)') /\ (\A r \in Receivers : ReceiverAt(r)')
  <2>1. ASSUME NEW s \in Senders PROVE SenderAt(s)'
    <3>1. CASE s = p BY <3>1
    <3>2. CASE s # p BY <1>2, <3>2, AtStill
    <3> QED BY <3>1, <3>2
  <2>2. ASSUME NEW r \in Receivers PROVE ReceiverAt(r)'
    <3>1. CASE r = p BY <3>1
    <3>2. CASE r # p BY <1>2, <3>2, AtStill
    <3> QED BY <3>1, <3>2
  <2> QED BY <2>1, <2>2
<1>4. Slots' /\ Exclusive'
  BY <1>1, SlotsStill
<1> QED BY <1>3, <1>4 DEF IInv

\* Ending a call is such a step: who is woken was parked.
LEMMA SignalQuiet ==
    ASSUME IInv, TypeOK', sends' <= MaxSends, RingStill, done' = done,
           NEW p \in Procs, pc[p] = "signal", Return(p), NEW S \in SUBSET Procs,
           pc' \in {[pc EXCEPT ![p] = "idle", ![q] = "retry"] : q \in Parked(S)}
                    \cup {[pc EXCEPT ![p] = "idle"]}
    PROVE  IInv'
<1>1. TypeOK BY DEF IInv
<1>2. pc'[p] = "idle" /\ item'[p] = NoItem
  BY <1>1 DEF TypeOK, Return, Parked
<1>3. (p \in Senders => SenderAt(p)') /\ (p \in Receivers => ReceiverAt(p)')
  BY <1>2 DEF SenderAt, ReceiverAt, Locked
<1>4. \A x \in Procs : x # p => Still(x)
  BY <1>1 DEF TypeOK, Return, Parked, Still
<1> QED BY <1>2, <1>3, <1>4, QuietStep

\* A sender's steps that claim and publish nothing.
LEMMA SendQuiet ==
    ASSUME IInv, TypeOK', NEW s \in Senders,
           \/ Send(s) \/ LookSend(s) \/ (ClaimSend(s) /\ head # pos[s]) \/ SendEnds(s)
           \/ Lock(s) \/ ParkSend(s) \/ RetrySend(s) \/ SendFails(s)
    PROVE  IInv'
<1>1. TypeOK /\ SenderAt(s) /\ s \in Procs /\ s \notin Receivers /\ sends <= MaxSends
  BY QueueAssumption DEF IInv, Procs
<1> DEFINE Quiet == /\ sends' <= MaxSends
                    /\ RingStill
                    /\ done' = done
                    /\ pc[s] # "own"
                    /\ pc'[s] # "own"
                    /\ SenderAt(s)'
                    /\ \A x \in Procs : x # s => Still(x)
<1>2. Quiet => IInv'
  BY <1>1, QuietStep
<1> HIDE DEF Quiet
<1>3. CASE Send(s)
  <2>1. Quiet
    BY <1>1, <1>3, QueueAssumption
       DEF Quiet, Send, GoTo, SenderAt, Still, RingStill, TypeOK, Locked, lockVars, slotVars
  <2> QED BY <1>2, <2>1
<1>4. CASE LookSend(s)
  <2>1. seqOf[Index(pos[s])] \in Nat /\ pos[s] \in Nat /\ head \in Nat
    BY <1>1, Indices DEF TypeOK
  <2>2. /\ pc'[s] \in {"look", "claim", "extend", "park"}
        /\ pos'[s] \in {pos[s], head}
        /\ pc'[s] = "claim" => pos'[s] = pos[s] /\ seqOf[Index(pos[s])] = pos[s]
    <3>1. \/ seqOf[Index(pos[s])] - pos[s] = 0 /\ GoTo(s, "claim") /\ pos' = pos
          \/ pc' = pc /\ pos' = [pos EXCEPT ![s] = head]
          \/ (GoTo(s, "extend") \/ GoTo(s, "park")) /\ pos' = pos
      BY <1>4 DEF LookSend
    <3>2. seqOf[Index(pos[s])] - pos[s] = 0 => seqOf[Index(pos[s])] = pos[s]
      BY <2>1
    <3>3. pc[s] = "look" /\ pc \in [Procs -> Steps] /\ pos \in [Procs -> Nat]
      BY <1>1, <1>4 DEF LookSend, TypeOK
    <3> QED BY <1>1, <3>1, <3>2, <3>3 DEF GoTo
  <2>3. \A x \in Procs : x # s => Still(x)
    BY <1>1, <1>4 DEF LookSend, GoTo, TypeOK, Still
  <2>4. RingStill /\ done' = done /\ UNCHANGED <<item, sends>> /\ pc[s] = "look"
    BY <1>4 DEF LookSend, RingStill, lockVars, slotVars
  <2>5. SenderAt(s)'
    BY <1>1, <2>1, <2>2, <2>4 DEF SenderAt, RingStill, Index, Locked
  <2> QED BY <1>1, <1>2, <2>2, <2>3, <2>4, <2>5 DEF Quiet
<1>5. CASE ClaimSend(s) /\ head # pos[s]
  <2>1. Quiet
    BY <1>1, <1>5 DEF Quiet, ClaimSend, GoTo, SenderAt, Still, RingStill, TypeOK, Locked, lockVars, slotVars
  <2> QED BY <1>2, <2>1
<1>6. CASE SendEnds(s)
  <2>1. pc' \in {[pc EXCEPT ![s] = "idle", ![q] = "retry"] : q \in Parked(Receivers)}
                 \cup {[pc EXCEPT ![s] = "idle"]}
    BY <1>6 DEF SendEnds, Signal, GoTo
  <2>2. Receivers \in SUBSET Procs BY DEF Procs
  <2> QED BY <1>1, <1>6, <2>1, <2>2, SignalQuiet DEF SendEnds, RingStill, lockVars, slotVars
<1>7. CASE Lock(s)
  <2>1. Quiet
    BY <1>1, <1>7 DEF Quiet, Lock, GoTo, SenderAt, Still, RingStill, TypeOK, Locked, lockVars, slotVars
  <2> QED BY <1>2, <2>1
<1>8. CASE ParkSend(s)
  <2>1. Quiet
    BY <1>1, <1>8 DEF Quiet, ParkSend, Park, GoTo, SenderAt, Still, RingStill, TypeOK, Locked, lockVars, slotVars
  <2> QED BY <1>2, <2>1
<1>9. CASE RetrySend(s)
  <2>1. Quiet
    BY <1>1, <1>9 DEF Quiet, RetrySend, GoTo, SenderAt, Still, RingStill, TypeOK, Locked, lockVars, slotVars
  <2> QED BY <1>2, <2>1
<1>10. CASE SendFails(s)
  <2>1. Quiet
    BY <1>1, <1>10
       DEF Quiet, SendFails, Return, GoTo, SenderAt, Still, RingStill, TypeOK, Locked, lockVars, slotVars
  <2> QED BY <1>2, <2>1
<1> QED BY <1>3, <1>4, <1>5, <1>6, <1>7, <1>8, <1>9, <1>10

\* A receiver's steps that claim and recycle nothing.
LEMMA RecvQuiet ==
    ASSUME IInv, TypeOK', NEW r \in Receivers,
           \/ Recv(r) \/ LookRecv(r) \/ (ClaimRecv(r) /\ tail # pos[r]) \/ RecvEnds(r)
           \/ RecvFails(r) \/ ParkRecv(r)
    PROVE  IInv'
<1>1. TypeOK /\ ReceiverAt(r) /\ r \in Procs /\ r \notin Senders /\ sends <= MaxSends
  BY QueueAssumption DEF IInv, Procs
<1> DEFINE Quiet == /\ sends' <= MaxSends
                    /\ RingStill
                    /\ done' = done
                    /\ pc[r] # "own"
                    /\ pc'[r] # "own"
                    /\ ReceiverAt(r)'
                    /\ \A x \in Procs : x # r => Still(x)
<1>2. Quiet => IInv'
  BY <1>1, QuietStep
<1> HIDE DEF Quiet
<1>3. CASE Recv(r)
  <2>1. Quiet
    BY <1>1, <1>3 DEF Quiet, Recv, GoTo, ReceiverAt, Still, RingStill, TypeOK, lockVars, slotVars
  <2> QED BY <1>2, <2>1
<1>4. CASE LookRecv(r)
  <2>1. seqOf[Index(pos[r])] \in Nat /\ pos[r] \in Nat /\ tail \in Nat
    BY <1>1, Indices DEF TypeOK
  <2>2. /\ pc'[r] \in {"look", "claim", "park"}
        /\ pos'[r] \in {pos[r], tail}
        /\ pc'[r] = "claim" => pos'[r] = pos[r] /\ seqOf[Index(pos[r])] = pos[r] + 1
    <3>1. \/ seqOf[Index(pos[r])] - (pos[r] + 1) = 0 /\ GoTo(r, "claim") /\ pos' = pos
          \/ pc' = pc /\ pos' = [pos EXCEPT ![r] = tail]
          \/ GoTo(r, "park") /\ pos' = pos
      BY <1>4 DEF LookRecv
    <3>2. seqOf[Index(pos[r])] - (pos[r] + 1) = 0 => seqOf[Index(pos[r])] = pos[r] + 1
      BY <2>1
    <3>3. pc[r] = "look" /\ pc \in [Procs -> Steps] /\ pos \in [Procs -> Nat]
      BY <1>1, <1>4 DEF LookRecv, TypeOK
    <3> QED BY <1>1, <3>1, <3>2, <3>3 DEF GoTo
  <2>3. \A x \in Procs : x # r => Still(x)
    BY <1>1, <1>4 DEF LookRecv, GoTo, TypeOK, Still
  <2>4. RingStill /\ done' = done /\ UNCHANGED <<item, sends>> /\ pc[r] = "look"
    BY <1>4 DEF LookRecv, RingStill, lockVars, slotVars
  <2>5. ReceiverAt(r)'
    BY <1>1, <2>1, <2>2, <2>4 DEF ReceiverAt, RingStill, Index
  <2> QED BY <1>1, <1>2, <2>2, <2>3, <2>4, <2>5 DEF Quiet
<1>5. CASE ClaimRecv(r) /\ tail # pos[r]
  <2>1. Quiet
    BY <1>1, <1>5 DEF Quiet, ClaimRecv, GoTo, ReceiverAt, Still, RingStill, TypeOK, Index, lockVars, slotVars
  <2> QED BY <1>2, <2>1
<1>6. CASE RecvEnds(r)
  <2>1. pc' \in {[pc EXCEPT ![r] = "idle", ![q] = "retry"] : q \in Parked(Senders)}
                 \cup {[pc EXCEPT ![r] = "idle"]}
    BY <1>6 DEF RecvEnds, Signal, GoTo
  <2>2. Senders \in SUBSET Procs BY DEF Procs
  <2> QED BY <1>1, <1>6, <2>1, <2>2, SignalQuiet DEF RecvEnds, RingStill, lockVars, slotVars
<1>7. CASE RecvFails(r)
  <2>1. Quiet
    BY <1>1, <1>7 DEF Quiet, RecvFails, Return, GoTo, ReceiverAt, Still, RingStill, TypeOK, lockVars, slotVars
  <2> QED BY <1>2, <2>1
<1>8. CASE ParkRecv(r)
  <2>1. Quiet
    BY <1>1, <1>8 DEF Quiet, ParkRecv, Park, GoTo, ReceiverAt, Still, RingStill, TypeOK, lockVars, slotVars
  <2> QED BY <1>2, <2>1
<1> QED BY <1>3, <1>4, <1>5, <1>6, <1>7, <1>8

(***************************************************************************)
(* The four steps that move a position through its lap.                     *)
(***************************************************************************)
\* A sender that wins the race for head finds its slot writable.
LEMMA HeadIsFree ==
    ASSUME IInv, NEW s \in Senders, ClaimSend(s), head = pos[s]
    PROVE  /\ seqOf[Index(head)] = head
           /\ head < tail + capacity
           /\ \A r \in Receivers : pc[r] = "own" => head < pos[r] + capacity
<1>1. TypeOK /\ Slots /\ SenderAt(s) /\ s \in Procs
  BY DEF IInv, Procs
<1>0. Numbers /\ (\A p \in Procs : pos[p] \in Nat) /\ (\A p \in Nat : seqOf[Index(p)] \in Nat)
  BY <1>1, NumbersOK
<1>2. seqOf[Index(head)] = head
  BY <1>1 DEF ClaimSend, SenderAt
<1>3. head # tail + capacity
  <2> SUFFICES ASSUME head = tail + capacity PROVE FALSE OBVIOUS
  <2>1. Index(head) = Index(tail) /\ tail \in tail..(head - 1)
    BY <1>1, Indices DEF TypeOK
  <2>2. seqOf[Index(tail)] = tail + 1 \/ \E x \in Senders : Owns(x, tail)
    BY <1>1, <2>1 DEF Slots
  <2>3. seqOf[Index(tail)] \in {tail, tail + 1}
    BY <2>2 DEF IInv, SenderAt, Owns
  <2> QED BY <1>1, <1>2, <2>1, <2>3 DEF TypeOK
<1>4. ASSUME NEW r \in Receivers, pc[r] = "own" PROVE head < pos[r] + capacity
  <2>1. head <= pos[r] + capacity /\ seqOf[Index(pos[r])] = pos[r] + 1 /\ pos[r] \in Nat
    BY <1>1, <1>4 DEF IInv, ReceiverAt, TypeOK, Procs
  <2>2. head # pos[r] + capacity
    BY <1>0, <1>1, <1>2, <2>1, Indices DEF Numbers
  <2> QED BY <1>0, <2>1, <2>2 DEF Numbers
<1> QED BY <1>0, <1>1, <1>2, <1>3, <1>4 DEF Slots, Numbers

\* Claiming a position: from writable to one sender's.
LEMMA ClaimSendIInv ==
    ASSUME IInv, TypeOK', NEW s \in Senders, ClaimSend(s), head = pos[s]
    PROVE  IInv'
<1>1. TypeOK /\ Slots /\ SenderAt(s) /\ Exclusive /\ s \in Procs /\ s \notin Receivers
  BY QueueAssumption DEF IInv, Procs
<1>0. Numbers /\ (\A p \in Procs : pos[p] \in Nat) /\ (\A p \in Nat : seqOf[Index(p)] \in Nat)
  BY <1>1, NumbersOK
<1>2. /\ pc[s] = "claim" /\ pc'[s] = "own" /\ \A p \in Procs : p # s => pc'[p] = pc[p]
      /\ head' = head + 1
      /\ UNCHANGED <<capacity, done, seqOf, tail, pos, item, sends>>
  BY <1>1 DEF ClaimSend, GoTo, TypeOK, lockVars, slotVars
<1>3. /\ seqOf[Index(head)] = head
      /\ head < tail + capacity
      /\ \A r \in Receivers : pc[r] = "own" => head < pos[r] + capacity
  BY HeadIsFree
<1>4. Slots'
  <2>1. ASSUME NEW q \in tail..head
        PROVE  seqOf[Index(q)] = q + 1 \/ \E x \in Senders : Owns(x, q)'
    <3>1. CASE q = head BY <1>2, <3>1 DEF Owns
    <3>2. CASE q # head
      <4>1. q \in tail..(head - 1) BY <1>1, <3>2 DEF TypeOK
      <4>2. \A x \in Senders : Owns(x, q) => Owns(x, q)' BY <1>2 DEF Owns, Procs
      <4> QED BY <1>1, <4>1, <4>2 DEF Slots
    <3> QED BY <3>1, <3>2
  <2>2. ASSUME NEW q \in (head + 1)..(tail + capacity - 1)
        PROVE  seqOf[Index(q)] = q \/ \E r \in Receivers : Owns(r, q - capacity)'
    <3>1. q \in head..(tail + capacity - 1) BY <1>1 DEF TypeOK
    <3>2. \A r \in Receivers : Owns(r, q - capacity) => Owns(r, q - capacity)'
      BY <1>1, <1>2 DEF Owns, Procs
    <3> QED BY <1>1, <3>1, <3>2 DEF Slots
  <2>3. tail' <= head' /\ head' <= tail' + capacity' /\ head' - 1 = head
    <3>1. tail <= head /\ head \in Nat /\ tail \in Nat /\ capacity \in Nat
      BY <1>0, <1>1 DEF Slots, Numbers
    <3> QED BY <1>2, <1>3, <3>1
  <2> QED BY <1>2, <2>1, <2>2, <2>3 DEF Slots, Index
<1>5. ASSUME NEW x \in Senders PROVE SenderAt(x)'
  <2>1. SenderAt(x) /\ x \in Procs /\ pos[x] \in Nat BY <1>1 DEF IInv, TypeOK, Procs
  <2>2. CASE x = s
    BY <1>1, <1>2, <1>3, <2>1, <2>2 DEF SenderAt, Index, TypeOK, Slots, Locked
  <2>3. CASE x # s
    <3>1. /\ pc'[x] = pc[x] /\ pos'[x] = pos[x] /\ item'[x] = item[x]
          /\ seqOf' = seqOf /\ capacity' = capacity /\ tail' = tail /\ done' = done
          /\ head' = head + 1
      BY <1>2, <2>1, <2>3
    <3>2. head \in Nat BY <1>0 DEF Numbers
    <3> QED BY <2>1, <3>1, <3>2 DEF SenderAt, Index
  <2> QED BY <2>2, <2>3
<1>6. ASSUME NEW r \in Receivers PROVE ReceiverAt(r)'
  <2>1. ReceiverAt(r) /\ r \in Procs /\ r # s /\ pos[r] \in Nat BY <1>1 DEF IInv, TypeOK, Procs
  <2>2. pc[r] = "own" => head + 1 <= pos[r] + capacity
    BY <1>0, <1>3, <2>1 DEF Numbers
  <2> QED BY <1>2, <2>1, <2>2 DEF ReceiverAt, Index
<1>7. Exclusive'
  <2>1. \A x \in Senders : pc[x] = "own" => pos[x] < head /\ pos[x] \in Nat
    BY <1>1 DEF IInv, SenderAt, TypeOK, Procs
  <2>2. \A x \in Senders : pc'[x] = "own" => x = s \/ pc[x] = "own"
    BY <1>2 DEF Procs
  <2>3. \A r \in Receivers : pc'[r] = pc[r]
    BY <1>1, <1>2 DEF Procs
  <2> QED BY <1>1, <1>2, <2>1, <2>2, <2>3, <1>0 DEF Exclusive, Owns, Numbers
<1> QED BY <1>2, <1>4, <1>5, <1>6, <1>7 DEF IInv

\* What a sender owns differs from every other position that matters.
LEMMA PublishIInv ==
    ASSUME IInv, TypeOK', NEW s \in Senders, Publish(s)
    PROVE  IInv'
<1>1. TypeOK /\ Slots /\ SenderAt(s) /\ Exclusive /\ s \in Procs /\ s \notin Receivers
  BY QueueAssumption DEF IInv, Procs
<1>0. Numbers /\ (\A p \in Procs : pos[p] \in Nat) /\ (\A p \in Nat : seqOf[Index(p)] \in Nat)
  BY <1>1, NumbersOK
<1>2. /\ pc[s] = "own" /\ pc'[s] = "signal" /\ \A p \in Procs : p # s => pc'[p] = pc[p]
      /\ UNCHANGED <<capacity, done, head, tail, pos, item, sends>>
  BY <1>1 DEF Publish, GoTo, TypeOK, lockVars
<1>3. pos[s] \in Nat /\ tail <= pos[s] /\ pos[s] < head /\ seqOf[Index(pos[s])] = pos[s]
  BY <1>1, <1>2 DEF SenderAt, TypeOK
<1>4. /\ seqOf'[Index(pos[s])] = pos[s] + 1
      /\ \A i \in 0..(capacity - 1) : i # Index(pos[s]) => seqOf'[i] = seqOf[i]
  BY <1>1, <1>3, Indices DEF Publish, TypeOK
<1>5. \A q \in Nat : q # pos[s] /\ q < pos[s] + capacity /\ pos[s] < q + capacity
                     => seqOf'[Index(q)] = seqOf[Index(q)]
  BY <1>1, <1>3, <1>4, Indices
<1>6. Slots'
  <2>1. ASSUME NEW q \in tail..(head - 1)
        PROVE  seqOf'[Index(q)] = q + 1 \/ \E x \in Senders : Owns(x, q)'
    <3>1. CASE q = pos[s] BY <1>4, <3>1
    <3>2. CASE q # pos[s]
      <4>1. seqOf'[Index(q)] = seqOf[Index(q)]
        BY <1>0, <1>1, <1>3, <1>5, <3>2 DEF Slots, Numbers
      <4>2. \A x \in Senders : Owns(x, q) => Owns(x, q)' BY <1>2, <3>2 DEF Owns, Procs
      <4> QED BY <1>1, <4>1, <4>2 DEF Slots
    <3> QED BY <3>1, <3>2
  <2>2. ASSUME NEW q \in head..(tail + capacity - 1)
        PROVE  seqOf'[Index(q)] = q \/ \E r \in Receivers : Owns(r, q - capacity)'
    <3>1. seqOf'[Index(q)] = seqOf[Index(q)]
      BY <1>0, <1>1, <1>3, <1>5 DEF Slots, Numbers
    <3>2. \A r \in Receivers : Owns(r, q - capacity) => Owns(r, q - capacity)'
      BY <1>1, <1>2 DEF Owns, Procs
    <3> QED BY <1>1, <3>1, <3>2 DEF Slots
  <2> QED BY <1>1, <1>2, <2>1, <2>2 DEF Slots, Index
<1>7. ASSUME NEW x \in Senders PROVE SenderAt(x)'
  <2>1. SenderAt(x) /\ x \in Procs /\ pos[x] \in Nat BY <1>1 DEF IInv, TypeOK, Procs
  <2>2. CASE x = s
    BY <1>1, <1>2, <2>1, <2>2 DEF SenderAt, Locked
  <2>3. CASE x # s
    <3>1. pc[x] = "own" => seqOf'[Index(pos[x])] = seqOf[Index(pos[x])]
      <4>1. pc[x] = "own" => pos[x] # pos[s] BY <1>1, <1>2, <2>3 DEF Exclusive, Owns
      <4> QED BY <1>0, <1>1, <1>3, <1>5, <2>1, <4>1 DEF SenderAt, Slots, Numbers
    <3>2. pc[x] = "claim" /\ pos[x] = head => seqOf'[Index(head)] = head
      <4> SUFFICES ASSUME pc[x] = "claim", pos[x] = head PROVE seqOf'[Index(head)] = head
        OBVIOUS
      <4>1. seqOf[Index(head)] = head BY <2>1 DEF SenderAt
      <4>2. Index(head) # Index(pos[s])
        <5> SUFFICES ASSUME Index(head) = Index(pos[s]) PROVE FALSE OBVIOUS
        <5> QED BY <1>0, <1>3, <4>1 DEF Numbers
      <4> QED BY <1>0, <1>1, <1>4, <4>1, <4>2, Indices DEF Numbers
    <3> QED BY <1>2, <2>1, <2>3, <3>1, <3>2 DEF SenderAt, Index
  <2> QED BY <2>2, <2>3
<1>8. ASSUME NEW r \in Receivers PROVE ReceiverAt(r)'
  <2>1. ReceiverAt(r) /\ r \in Procs /\ r # s /\ pos[r] \in Nat BY <1>1 DEF IInv, TypeOK, Procs
  <2>2. seqOf'[Index(pos[r])] >= seqOf[Index(pos[r])] /\ seqOf[Index(pos[r])] \in Nat
    <3>1. Index(pos[r]) \in 0..(capacity - 1) BY <1>1, <2>1, Indices
    <3> QED BY <1>0, <1>3, <1>4, <2>1, <3>1
  <2>3. pc[r] = "own" => seqOf'[Index(pos[r])] = seqOf[Index(pos[r])]
    BY <1>0, <1>1, <1>3, <1>5, <2>1 DEF ReceiverAt, Slots, Numbers
  <2>4. pc[r] = "claim" /\ pos[r] = tail => seqOf'[Index(tail)] = tail + 1
    <3> SUFFICES ASSUME pc[r] = "claim", pos[r] = tail PROVE seqOf'[Index(tail)] = tail + 1
      OBVIOUS
    <3>1. seqOf[Index(tail)] = tail + 1 BY <2>1 DEF ReceiverAt
    <3>2. tail # pos[s]
      <4> SUFFICES ASSUME tail = pos[s] PROVE FALSE OBVIOUS
      <4> QED BY <1>0, <1>3, <3>1 DEF Numbers
    <3> QED BY <1>0, <1>1, <1>3, <1>5, <3>1, <3>2 DEF Slots, Numbers
  <2>5. seqOf'[Index(pos[r])] \in Nat
    <3>1. Index(pos[r]) \in 0..(capacity - 1) BY <1>1, <2>1, Indices
    <3> QED BY <1>2, <3>1 DEF TypeOK
  <2> QED BY <1>0, <1>2, <2>1, <2>2, <2>3, <2>4, <2>5 DEF ReceiverAt, Index, Numbers
<1>9. Exclusive'
  <2>1. \A p \in Procs : pc'[p] = "own" => pc[p] = "own" BY <1>2
  <2> QED BY <1>1, <1>2, <2>1 DEF Exclusive, Owns, Procs
<1> QED BY <1>2, <1>6, <1>7, <1>8, <1>9 DEF IInv

\* A receiver that wins the race for tail finds its slot published.
LEMMA TailIsPublished ==
    ASSUME IInv, NEW r \in Receivers, ClaimRecv(r), tail = pos[r]
    PROVE  /\ seqOf[Index(tail)] = tail + 1
           /\ tail < head
           /\ \A s \in Senders : pc[s] = "own" => tail < pos[s]
<1>1. TypeOK /\ Slots /\ ReceiverAt(r)
  BY DEF IInv
<1>0. Numbers /\ (\A p \in Procs : pos[p] \in Nat) /\ (\A p \in Nat : seqOf[Index(p)] \in Nat)
  BY <1>1, NumbersOK
<1>2. seqOf[Index(tail)] = tail + 1
  BY <1>1 DEF ClaimRecv, ReceiverAt
<1>3. tail # head
  <2> SUFFICES ASSUME tail = head PROVE FALSE OBVIOUS
  <2>1. seqOf[Index(tail)] = tail \/ \E x \in Receivers : Owns(x, tail - capacity)
    BY <1>0, <1>1 DEF Slots, Numbers
  <2>2. ASSUME NEW x \in Receivers, Owns(x, tail - capacity) PROVE FALSE
    <3>1. pos[x] \in Nat /\ tail = pos[x] + capacity /\ seqOf[Index(pos[x])] = pos[x] + 1
      BY <1>0, <2>2 DEF IInv, ReceiverAt, Owns, Procs, Numbers
    <3>2. Index(tail) = Index(pos[x])
      BY <1>1, <3>1, Indices
    <3> QED BY <1>0, <1>2, <3>1, <3>2 DEF Numbers
  <2> QED BY <1>0, <1>2, <2>1, <2>2 DEF Numbers
<1>4. ASSUME NEW s \in Senders, pc[s] = "own" PROVE tail < pos[s]
  <2>1. tail <= pos[s] /\ seqOf[Index(pos[s])] = pos[s] /\ pos[s] \in Nat
    BY <1>0, <1>4 DEF IInv, SenderAt, Procs
  <2>2. tail # pos[s]
    <3> SUFFICES ASSUME tail = pos[s] PROVE FALSE OBVIOUS
    <3> QED BY <1>0, <1>2, <2>1 DEF Numbers
  <2> QED BY <1>0, <2>1, <2>2 DEF Numbers
<1> QED BY <1>0, <1>1, <1>2, <1>3, <1>4 DEF Slots, Numbers

\* Claiming an item: from published to one receiver's.
LEMMA ClaimRecvIInv ==
    ASSUME IInv, TypeOK', NEW r \in Receivers, ClaimRecv(r), tail = pos[r]
    PROVE  IInv'
<1>1. TypeOK /\ Slots /\ ReceiverAt(r) /\ Exclusive /\ r \in Procs /\ r \notin Senders
  BY QueueAssumption DEF IInv, Procs
<1>0. Numbers /\ (\A p \in Procs : pos[p] \in Nat) /\ (\A p \in Nat : seqOf[Index(p)] \in Nat)
  BY <1>1, NumbersOK
<1>2. /\ pc[r] = "claim" /\ pc'[r] = "own" /\ \A p \in Procs : p # r => pc'[p] = pc[p]
      /\ tail' = tail + 1
      /\ UNCHANGED <<capacity, done, seqOf, head, pos, item, sends>>
  BY <1>1 DEF ClaimRecv, GoTo, TypeOK, lockVars, slotVars
<1>3. /\ seqOf[Index(tail)] = tail + 1
      /\ tail < head
      /\ \A s \in Senders : pc[s] = "own" => tail < pos[s]
  BY TailIsPublished
<1>4. Slots'
  <2>1. ASSUME NEW q \in (tail + 1)..(head - 1)
        PROVE  seqOf[Index(q)] = q + 1 \/ \E x \in Senders : Owns(x, q)'
    <3>1. q \in tail..(head - 1) BY <1>0 DEF Numbers
    <3>2. \A x \in Senders : Owns(x, q) => Owns(x, q)' BY <1>1, <1>2 DEF Owns, Procs
    <3> QED BY <1>1, <3>1, <3>2 DEF Slots
  <2>2. ASSUME NEW q \in head..(tail + capacity)
        PROVE  seqOf[Index(q)] = q \/ \E x \in Receivers : Owns(x, q - capacity)'
    <3>1. CASE q = tail + capacity
      <4>1. q - capacity = pos[r] BY <1>0, <3>1 DEF Numbers
      <4> QED BY <1>2, <4>1 DEF Owns
    <3>2. CASE q # tail + capacity
      <4>1. q \in head..(tail + capacity - 1) BY <1>0, <3>2 DEF Numbers
      <4>2. \A x \in Receivers : Owns(x, q - capacity) => Owns(x, q - capacity)'
        BY <1>1, <1>2 DEF Owns, Procs
      <4> QED BY <1>1, <4>1, <4>2 DEF Slots
    <3> QED BY <3>1, <3>2
  <2>3. tail' <= head' /\ head' <= tail' + capacity' /\ tail' + capacity' - 1 = tail + capacity
    BY <1>0, <1>1, <1>2, <1>3 DEF Slots, Numbers
  <2> QED BY <1>2, <2>1, <2>2, <2>3 DEF Slots, Index
<1>5. ASSUME NEW s \in Senders PROVE SenderAt(s)'
  <2>1. SenderAt(s) /\ s \in Procs /\ s # r /\ pos[s] \in Nat BY <1>1 DEF IInv, TypeOK, Procs
  <2>2. pc[s] = "own" => tail + 1 <= pos[s]
    BY <1>0, <1>3, <2>1 DEF Numbers
  <2> QED BY <1>2, <2>1, <2>2 DEF SenderAt, Index
<1>6. ASSUME NEW x \in Receivers PROVE ReceiverAt(x)'
  <2>1. ReceiverAt(x) /\ x \in Procs /\ pos[x] \in Nat BY <1>1 DEF IInv, TypeOK, Procs
  <2>2. CASE x = r
    <3>1. head <= pos[r] + capacity /\ pos[r] < tail + 1
      BY <1>0, <1>1 DEF Slots, Numbers
    <3> QED BY <1>1, <1>2, <1>3, <2>2, <3>1 DEF ReceiverAt, Index
  <2>3. CASE x # r
    <3>1. pc[x] \in {"look", "claim"} => /\ pos[x] <= tail + 1
                                         /\ pos[x] # tail + 1
                                         /\ seqOf[Index(pos[x])] > pos[x]
      <4> SUFFICES ASSUME pc[x] \in {"look", "claim"}
                   PROVE  pos[x] <= tail /\ seqOf[Index(pos[x])] > pos[x]
        BY <1>0, <2>1 DEF Numbers
      <4>1. CASE pos[x] = tail BY <1>0, <1>3, <4>1 DEF Numbers
      <4>2. CASE pos[x] # tail BY <1>0, <2>1, <4>2 DEF ReceiverAt, Numbers
      <4> QED BY <4>1, <4>2
    <3>2. pc[x] = "own" => pos[x] < tail + 1
      BY <1>0, <2>1 DEF ReceiverAt, Numbers
    <3> QED BY <1>2, <2>1, <2>3, <3>1, <3>2 DEF ReceiverAt, Index
  <2> QED BY <2>2, <2>3
<1>7. Exclusive'
  <2>1. \A x \in Receivers : pc[x] = "own" => pos[x] < tail /\ pos[x] \in Nat
    BY <1>1 DEF IInv, ReceiverAt, TypeOK, Procs
  <2>2. \A x \in Receivers : pc'[x] = "own" => x = r \/ pc[x] = "own"
    BY <1>2 DEF Procs
  <2>3. \A s \in Senders : pc'[s] = pc[s]
    BY <1>1, <1>2 DEF Procs
  <2> QED BY <1>0, <1>1, <1>2, <2>1, <2>2, <2>3 DEF Exclusive, Owns, Numbers
<1> QED BY <1>2, <1>4, <1>5, <1>6, <1>7 DEF IInv

\* Recycling a slot makes it writable for the position one lap later.
LEMMA RecycleIInv ==
    ASSUME IInv, TypeOK', NEW r \in Receivers, Recycle(r)
    PROVE  IInv'
<1>1. TypeOK /\ Slots /\ ReceiverAt(r) /\ Exclusive /\ r \in Procs /\ r \notin Senders
  BY QueueAssumption DEF IInv, Procs
<1>0. Numbers /\ (\A p \in Procs : pos[p] \in Nat) /\ (\A p \in Nat : seqOf[Index(p)] \in Nat)
  BY <1>1, NumbersOK
<1>2. /\ pc[r] = "own" /\ pc'[r] = "signal"
      /\ \A p \in Procs : p # r => pc'[p] = pc[p] /\ item'[p] = item[p]
      /\ UNCHANGED <<capacity, done, head, tail, pos, sends>>
  BY <1>1 DEF Recycle, GoTo, TypeOK, lockVars
<1>3. /\ pos[r] \in Nat /\ head <= pos[r] + capacity /\ pos[r] < tail
      /\ seqOf[Index(pos[r])] = pos[r] + 1
  BY <1>0, <1>1, <1>2 DEF ReceiverAt
<1>4. /\ seqOf'[Index(pos[r])] = pos[r] + capacity
      /\ \A i \in 0..(capacity - 1) : i # Index(pos[r]) => seqOf'[i] = seqOf[i]
  BY <1>1, <1>3, Indices DEF Recycle, TypeOK
<1>5. \A q \in Nat : q # pos[r] + capacity /\ q < pos[r] + 2 * capacity /\ pos[r] < q
                     => seqOf'[Index(q)] = seqOf[Index(q)]
  <2> TAKE q \in Nat
  <2> HAVE q # pos[r] + capacity /\ q < pos[r] + 2 * capacity /\ pos[r] < q
  <2> DEFINE p == pos[r] + capacity
  <2>1. p \in Nat /\ q # p /\ q < p + capacity /\ p < q + capacity
    BY <1>0, <1>3 DEF Numbers
  <2>2. Index(p) = Index(pos[r])
    BY <1>1, <1>3, Indices
  <2> HIDE DEF p
  <2>3. Index(q) # Index(p) /\ Index(q) \in 0..(capacity - 1)
    BY <1>1, <2>1, Indices
  <2> QED BY <1>4, <2>2, <2>3
<1>6. Slots'
  <2>1. ASSUME NEW q \in tail..(head - 1)
        PROVE  seqOf'[Index(q)] = q + 1 \/ \E x \in Senders : Owns(x, q)'
    <3>1. seqOf'[Index(q)] = seqOf[Index(q)]
      BY <1>0, <1>3, <1>5 DEF Numbers
    <3>2. \A x \in Senders : Owns(x, q) => Owns(x, q)' BY <1>1, <1>2 DEF Owns, Procs
    <3> QED BY <1>1, <3>1, <3>2 DEF Slots
  <2>2. ASSUME NEW q \in head..(tail + capacity - 1)
        PROVE  seqOf'[Index(q)] = q \/ \E x \in Receivers : Owns(x, q - capacity)'
    <3>1. CASE q = pos[r] + capacity
      <4>1. Index(q) = Index(pos[r]) BY <1>1, <1>3, <3>1, Indices
      <4> QED BY <1>4, <3>1, <4>1
    <3>2. CASE q # pos[r] + capacity
      <4>1. seqOf'[Index(q)] = seqOf[Index(q)]
        BY <1>0, <1>1, <1>3, <1>5, <3>2 DEF Slots, Numbers
      <4>2. q - capacity # pos[r] BY <1>0, <1>3, <3>2 DEF Numbers
      <4>3. \A x \in Receivers : Owns(x, q - capacity) => Owns(x, q - capacity)'
        BY <1>2, <4>2 DEF Owns, Procs
      <4> QED BY <1>1, <4>1, <4>3 DEF Slots
    <3> QED BY <3>1, <3>2
  <2> QED BY <1>1, <1>2, <2>1, <2>2 DEF Slots, Index
<1>7. ASSUME NEW s \in Senders PROVE SenderAt(s)'
  <2>1. SenderAt(s) /\ s \in Procs /\ s # r /\ pos[s] \in Nat BY <1>1 DEF IInv, TypeOK, Procs
  <2>2. pc[s] = "own" => seqOf'[Index(pos[s])] = seqOf[Index(pos[s])]
    BY <1>0, <1>1, <1>3, <1>5, <2>1 DEF SenderAt, Slots, Numbers
  <2>3. pc[s] = "claim" /\ pos[s] = head => seqOf'[Index(head)] = head
    <3> SUFFICES ASSUME pc[s] = "claim", pos[s] = head PROVE seqOf'[Index(head)] = head
      OBVIOUS
    <3>1. seqOf[Index(head)] = head BY <2>1 DEF SenderAt
    <3>2. head # pos[r] + capacity
      <4> SUFFICES ASSUME head = pos[r] + capacity PROVE FALSE OBVIOUS
      <4>1. Index(head) = Index(pos[r]) BY <1>1, <1>3, Indices
      <4> QED BY <1>0, <1>3, <3>1, <4>1 DEF Numbers
    <3> QED BY <1>0, <1>1, <1>3, <1>5, <3>1, <3>2 DEF Slots, Numbers
  <2> QED BY <1>2, <2>1, <2>2, <2>3 DEF SenderAt, Index
<1>8. ASSUME NEW x \in Receivers PROVE ReceiverAt(x)'
  <2>1. ReceiverAt(x) /\ x \in Procs /\ pos[x] \in Nat BY <1>1 DEF IInv, TypeOK, Procs
  <2>2. CASE x = r BY <1>2, <2>2 DEF ReceiverAt
  <2>3. CASE x # r
    <3>1. pos[x] < seqOf[Index(pos[x])] => pos[x] < seqOf'[Index(pos[x])]
      <4>1. Index(pos[x]) \in 0..(capacity - 1) BY <1>1, <2>1, Indices
      <4>2. CASE Index(pos[x]) = Index(pos[r])
        BY <1>0, <1>3, <1>4, <2>1, <4>2 DEF Numbers
      <4>3. CASE Index(pos[x]) # Index(pos[r])
        BY <1>4, <4>1, <4>3
      <4> QED BY <4>2, <4>3
    <3>2. pc[x] = "own" => seqOf'[Index(pos[x])] = seqOf[Index(pos[x])]
      <4> SUFFICES ASSUME pc[x] = "own" PROVE seqOf'[Index(pos[x])] = seqOf[Index(pos[x])]
        OBVIOUS
      <4>1. pos[x] # pos[r] BY <1>1, <1>2, <2>3 DEF Exclusive, Owns
      <4>2. pos[x] < pos[r] + capacity /\ pos[r] < pos[x] + capacity
        BY <1>0, <1>1, <1>3, <2>1 DEF ReceiverAt, Slots, Numbers
      <4>3. Index(pos[x]) # Index(pos[r]) /\ Index(pos[x]) \in 0..(capacity - 1)
        BY <1>1, <1>3, <2>1, <4>1, <4>2, Indices
      <4> QED BY <1>4, <4>3
    <3>3. pc[x] = "claim" /\ pos[x] = tail => seqOf'[Index(tail)] = tail + 1
      <4> SUFFICES ASSUME pc[x] = "claim", pos[x] = tail PROVE seqOf'[Index(tail)] = tail + 1
        OBVIOUS
      <4>1. seqOf[Index(tail)] = tail + 1 BY <2>1 DEF ReceiverAt
      <4>2. tail # pos[r] + capacity
        <5> SUFFICES ASSUME tail = pos[r] + capacity PROVE FALSE OBVIOUS
        <5>1. Index(tail) = Index(pos[r]) BY <1>1, <1>3, Indices
        <5> QED BY <1>0, <1>3, <4>1, <5>1 DEF Numbers
      <4> QED BY <1>0, <1>1, <1>3, <1>5, <4>1, <4>2 DEF Slots, Numbers
    <3>4. seqOf'[Index(pos[x])] > pos[x] <=> pos[x] < seqOf'[Index(pos[x])] OBVIOUS
    <3>5. seqOf[Index(pos[x])] > pos[x] <=> pos[x] < seqOf[Index(pos[x])] OBVIOUS
    <3> QED BY <1>2, <2>1, <2>3, <3>1, <3>2, <3>3, <3>4, <3>5 DEF ReceiverAt, Index
  <2> QED BY <2>2, <2>3
<1>9. Exclusive'
  <2>1. \A p \in Procs : pc'[p] = "own" => pc[p] = "own" BY <1>2
  <2> QED BY <1>1, <1>2, <2>1 DEF Exclusive, Owns, Procs
<1> QED BY <1>2, <1>6, <1>7, <1>8, <1>9 DEF IInv

\* A new ring starts a first lap: nobody is left who knows the old positions.
LEMMA ExtendIInv ==
    ASSUME IInv, TypeOK', NobodyHolds, NEW n \in Nat, n > capacity, ExtendRing(n),
           UNCHANGED <<done, item, sends>>,
           \A p \in Procs : pc'[p] \notin Locked /\ (pc'[p] # "idle" => pc[p] # "idle")
    PROVE  IInv'
<1>1. TypeOK /\ Slots /\ Numbers
  BY NumbersOK DEF IInv
<1>2. /\ capacity' = n
      /\ \A i \in 0..(n - 1) : seqOf'[i] = IF i < head - tail THEN i + 1 ELSE i
      /\ head' = head - tail /\ tail' = 0
  BY DEF ExtendRing
<1>3. \A q \in 0..(n - 1) : q % n = q
  <2>1. n >= 2 BY <1>1 DEF Numbers
  <2> QED BY <2>1, Ring
<1>4. head' \in Nat /\ head' <= n
  BY <1>1, <1>2 DEF Slots, Numbers
<1>5. Slots'
  <2>1. ASSUME NEW q \in 0..(head' - 1) PROVE seqOf'[q % n] = q + 1
    BY <1>2, <1>3, <1>4
  <2>2. ASSUME NEW q \in head'..(n - 1) PROVE seqOf'[q % n] = q
    BY <1>2, <1>3, <1>4
  <2> QED BY <1>2, <1>4, <2>1, <2>2 DEF Slots, Index
<1>6. (\A s \in Senders : SenderAt(s)') /\ (\A r \in Receivers : ReceiverAt(r)')
  <2>1. ASSUME NEW s \in Senders PROVE SenderAt(s)'
    <3>1. SenderAt(s) /\ s \in Procs BY DEF IInv, Procs
    <3> QED BY <3>1 DEF SenderAt, Locked
  <2>2. ASSUME NEW r \in Receivers PROVE ReceiverAt(r)'
    <3>1. ReceiverAt(r) /\ r \in Procs BY DEF IInv, Procs
    <3> QED BY <3>1 DEF ReceiverAt, Locked, NobodyHolds
  <2> QED BY <2>1, <2>2
<1>7. Exclusive'
  BY DEF Exclusive, Owns, Locked, Procs
<1> QED BY <1>5, <1>6, <1>7 DEF IInv

\* Every step of the queue keeps the invariant.
LEMMA StepIInv == IInv /\ [Next]_vars => IInv'
<1> SUFFICES ASSUME IInv, [Next]_vars PROVE IInv' OBVIOUS
<1>1. TypeOK' BY StepType
<1>2. TypeOK /\ Numbers BY NumbersOK DEF IInv
<1>3. ASSUME NEW s \in Senders, SendNext(s) PROVE IInv'
  <2>1. CASE ClaimSend(s)
    BY <1>1, <2>1, ClaimSendIInv, SendQuiet
  <2>2. CASE Publish(s) BY <1>1, <2>2, PublishIInv
  <2>3. CASE Extend(s)
    <3>1. \A p \in Procs : pc'[p] \notin Locked /\ (pc'[p] # "idle" => pc[p] # "idle")
      BY <1>2, <2>3 DEF Extend, GoTo, NobodyHolds, Locked, TypeOK
    <3>2. CASE ExtendRing(2 * capacity)
      <4>1. 2 * capacity \in Nat /\ 2 * capacity > capacity BY <1>2 DEF Numbers
      <4> QED BY <1>1, <2>3, <3>1, <3>2, <4>1, ExtendIInv DEF Extend
    <3>3. CASE UNCHANGED <<capacity, extended, slotVars, head, tail>>
      <4>1. RingStill /\ done' = done /\ UNCHANGED <<pos, item, sends>>
        BY <2>3, <3>3 DEF Extend, RingStill, slotVars
      <4>2. s \in Procs /\ s \notin Receivers /\ pc[s] = "locking" /\ pc'[s] = "retry"
        BY <1>2, <2>3, QueueAssumption DEF Extend, GoTo, TypeOK, Procs
      <4>3. \A x \in Procs : x # s => Still(x)
        BY <1>2, <2>3 DEF Extend, GoTo, TypeOK, Still
      <4>4. SenderAt(s)' BY <4>1, <4>2 DEF IInv, SenderAt, Locked
      <4>5. sends' <= MaxSends BY <4>1 DEF IInv
      <4> QED BY <1>1, <4>1, <4>2, <4>3, <4>4, <4>5, QuietStep
    <3> QED BY <2>3, <3>2, <3>3 DEF Extend
  <2>4. CASE \/ Send(s) \/ LookSend(s) \/ SendEnds(s)
             \/ Lock(s) \/ ParkSend(s) \/ RetrySend(s) \/ SendFails(s)
    BY <1>1, <2>4, SendQuiet
  <2> QED BY <1>3, <2>1, <2>2, <2>3, <2>4 DEF SendNext
<1>4. ASSUME NEW r \in Receivers, RecvNext(r) PROVE IInv'
  <2>1. CASE ClaimRecv(r)
    BY <1>1, <2>1, ClaimRecvIInv, RecvQuiet
  <2>2. CASE Recycle(r) BY <1>1, <2>2, RecycleIInv
  <2>3. CASE Recv(r) \/ LookRecv(r) \/ RecvEnds(r) \/ RecvFails(r) \/ ParkRecv(r)
    BY <1>1, <2>3, RecvQuiet
  <2> QED BY <1>4, <2>1, <2>2, <2>3 DEF RecvNext
<1>5. ASSUME NEW p \in Procs, Cancel(p) PROVE IInv'
  <2>1. RingStill /\ done' = done /\ UNCHANGED <<item, pos, sends>>
    BY <1>5 DEF Cancel, RingStill, lockVars, slotVars
  <2>2. \A x \in Procs : Still(x)
    BY <1>2, <1>5, <2>1 DEF Cancel, TypeOK, Still
  <2>3. pc[p] # "own" /\ pc'[p] # "own"
    BY <1>2, <1>5 DEF Cancel, TypeOK
  <2>4. (p \in Senders => SenderAt(p)') /\ (p \in Receivers => ReceiverAt(p)')
    BY <2>1, <2>2, AtStill
  <2>5. sends' <= MaxSends BY <2>1 DEF IInv
  <2> QED BY <1>1, <2>1, <2>2, <2>3, <2>4, <2>5, QuietStep
<1>6. ASSUME NEW n \in GrowTo, Grow(n) PROVE IInv'
  <2>1. n \in Nat /\ n > capacity BY <1>2, <1>6, QueueAssumption DEF Grow, Numbers
  <2>2. \A p \in Procs : pc'[p] \notin Locked /\ (pc'[p] # "idle" => pc[p] # "idle")
    BY <1>6 DEF Grow, NobodyHolds
  <2> QED BY <1>1, <1>6, <2>1, <2>2, ExtendIInv DEF Grow
<1>7. CASE Close
  <2>1. RingStill /\ UNCHANGED <<item, pos, sends>>
    BY <1>7 DEF Close, RingStill, slotVars
  <2>2. \A p \in Procs : /\ pc[p] \notin Locked /\ pc'[p] \notin Locked
                         /\ pc'[p] # "idle" => pc[p] # "idle"
    BY <1>2, <1>7 DEF Close, NobodyHolds, TypeOK, Locked
  <2>3. OwnersStill
    BY <2>1, <2>2 DEF OwnersStill, Owns, Locked
  <2>4. ASSUME NEW s \in Senders PROVE SenderAt(s)'
    <3>1. SenderAt(s) /\ s \in Procs BY DEF IInv, Procs
    <3> QED BY <2>1, <2>2, <3>1 DEF SenderAt, Locked
  <2>5. ASSUME NEW r \in Receivers PROVE ReceiverAt(r)'
    <3>1. ReceiverAt(r) /\ r \in Procs BY DEF IInv, Procs
    <3> QED BY <2>1, <2>2, <3>1 DEF ReceiverAt, Locked
  <2> QED BY <1>1, <2>1, <2>3, <2>4, <2>5, SlotsStill DEF IInv
<1>8. CASE UNCHANGED vars
  <2>1. RingStill /\ OwnersStill /\ done' = done /\ sends' = sends
    BY <1>8 DEF vars, lockVars, slotVars, RingStill, OwnersStill, Owns
  <2>2. \A p \in Procs : Still(p)
    BY <1>8 DEF vars, Still
  <2>3. ASSUME NEW s \in Senders PROVE SenderAt(s)'
    <3>1. s \in Procs BY DEF Procs
    <3> QED BY <2>1, <2>2, <3>1, AtStill
  <2>4. ASSUME NEW r \in Receivers PROVE ReceiverAt(r)'
    <3>1. r \in Procs BY DEF Procs
    <3> QED BY <2>1, <2>2, <3>1, AtStill
  <2> QED BY <1>1, <2>1, <2>3, <2>4, SlotsStill DEF IInv
<1> QED BY <1>3, <1>4, <1>5, <1>6, <1>7, <1>8 DEF Next

\* The slots' sequence numbers keep their meaning through every race.
THEOREM Invariant == Spec => []IInv
<1>1. Init => IInv BY InitIInv
<1>2. IInv /\ [Next]_vars => IInv' BY StepIInv
<1> QED BY <1>1, <1>2, PTL DEF Spec

\* Every variable keeps its type.
THEOREM TypeCorrect == Spec => []TypeOK
<1>1. IInv => TypeOK BY DEF IInv
<1> QED BY <1>1, Invariant, PTL

\* A Recv whose context lives fails only once the queue is closed and empty
\* for good, whatever senders and other receivers were doing.
THEOREM DrainsFirst == Spec => DrainedFirst
<1>1. IInv /\ [Next]_vars
        => [ \A r \in Receivers : pc[r] = "look" /\ pc'[r] = "idle" /\ r \notin cancelled
                => done /\ head = tail ]_vars
  <2> SUFFICES ASSUME IInv, [Next]_vars, NEW r \in Receivers,
                      pc[r] = "look", pc'[r] = "idle", r \notin cancelled
               PROVE  done /\ head = tail
    OBVIOUS
  <2>1. TypeOK /\ Slots /\ ReceiverAt(r) /\ r \in Procs /\ r \notin Senders
    BY QueueAssumption DEF IInv, Procs
  <2>2. Numbers /\ pos[r] \in Nat /\ \A p \in Nat : seqOf[Index(p)] \in Nat
    BY <2>1, NumbersOK
  <2>3. RecvFails(r)
    <3>1. ASSUME NEW s \in Senders, SendNext(s) PROVE FALSE
      <4>1. pc'[r] = pc[r]
        BY <2>1, <3>1 DEF SendNext, Send, LookSend, ClaimSend, Publish, SendEnds, Signal, Parked, Lock,
             Extend, ParkSend, Park, RetrySend, SendFails, GoTo, TypeOK
      <4> QED BY <4>1
    <3>2. ASSUME NEW x \in Receivers, RecvNext(x), ~RecvFails(r) PROVE FALSE
      <4>1. pc'[r] # "idle"
        BY <2>1, <3>2 DEF RecvNext, Recv, LookRecv, ClaimRecv, Recycle, RecvEnds, Signal, Parked,
             RecvFails, ParkRecv, Park, GoTo, TypeOK
      <4> QED BY <4>1
    <3>3. ASSUME NEW p \in Procs, Cancel(p) PROVE FALSE
      BY <2>1, <3>3 DEF Cancel, TypeOK
    <3>4. ASSUME NEW n \in GrowTo, Grow(n) PROVE FALSE BY <3>4 DEF Grow
    <3>5. ~Close /\ ~UNCHANGED vars
      BY <2>1 DEF Close, vars, NobodyHolds, Locked
    <3> QED BY <3>1, <3>2, <3>3, <3>4, <3>5 DEF Next
  <2>4. done /\ seqOf[Index(pos[r])] < pos[r] + 1
    BY <2>3 DEF RecvFails
  <2>5. pos[r] = tail
    BY <2>1, <2>2, <2>4 DEF ReceiverAt, Numbers
  <2>6. ~(tail < head)
    <3> SUFFICES ASSUME tail < head PROVE FALSE OBVIOUS
    <3>1. seqOf[Index(tail)] = tail + 1 \/ \E s \in Senders : Owns(s, tail)
      BY <2>1, <2>2 DEF Slots, Numbers
    <3>2. \A s \in Senders : ~Owns(s, tail)
      BY <2>4 DEF IInv, SenderAt, Owns, Locked
    <3> QED BY <2>2, <2>4, <2>5, <3>1, <3>2 DEF Numbers
  <2> QED BY <2>1, <2>2, <2>4, <2>6 DEF Slots, Numbers
<1> QED BY <1>1, Invariant, PTL DEF Spec, DrainedFirst

(***************************************************************************)
(* Nobody is stuck.                                                         *)
(***************************************************************************)
\* Every lap from any position on passes every slot.
LEMMA LapCovers ==
    ASSUME NEW N \in Nat, N >= 2, NEW p \in Nat, NEW h \in Nat
    PROVE  \E q \in h..(h + N - 1) : q % N = p % N
<1> DEFINE i == p % N
           j == h % N
           k == h \div N
<1>1. i \in 0..(N - 1) /\ j \in 0..(N - 1) /\ k \in Int /\ h = N * k + j
  OBVIOUS
<1>2. ASSUME NEW x \in Nat, NEW m \in Int, x = N * m + i PROVE x % N = i
  <2> DEFINE d == x \div N
             r == x % N
  <2>1. d \in Int /\ r \in 0..(N - 1) /\ x = N * d + r OBVIOUS
  <2>2. \A a \in Int : a > 0 => N * a >= N OBVIOUS
  <2> HIDE DEF i, d, r
  <2>3. N * (m - d) = N * m - N * d /\ N * (d - m) = N * d - N * m BY <2>1
  <2>4. N * (m - d) < N /\ N * (d - m) < N BY <1>1, <1>2, <2>1, <2>3
  <2>5. m - d \in Int /\ d - m \in Int BY <2>1
  <2>6. ~(m - d > 0) /\ ~(d - m > 0) BY <2>2, <2>4, <2>5
  <2>7. m = d BY <2>1, <2>6
  <2>8. N * m = N * d /\ N * m \in Int BY <1>2, <2>7
  <2>9. r = i BY <1>1, <1>2, <2>1, <2>8
  <2> QED BY <2>9 DEF r
<1> HIDE DEF i, j, k
<1>3. CASE i >= j
  <2>1. h + (i - j) = N * k + i BY <1>1
  <2>2. h + (i - j) \in h..(h + N - 1) BY <1>1, <1>3
  <2>3. (h + (i - j)) % N = i BY <1>1, <1>2, <2>1, <2>2
  <2> QED BY <2>2, <2>3 DEF i
<1>4. CASE i < j
  <2>1. h + (i - j) + N = N * (k + 1) + i
    <3>1. N * (k + 1) = N * k + N BY <1>1
    <3> QED BY <1>1, <3>1
  <2>2. h + (i - j) + N \in h..(h + N - 1) BY <1>1, <1>4
  <2>3. (h + (i - j) + N) % N = i
    <3>1. k + 1 \in Int BY <1>1
    <3>2. h + (i - j) + N \in Nat BY <2>2
    <3> QED BY <1>2, <2>1, <3>1, <3>2
  <2> QED BY <2>2, <2>3 DEF i
<1> QED BY <1>1, <1>3, <1>4

Waits(p) == pc[p] \in {"park", "parked"}

\* A token in a channel means that nobody is parked on it, and a closed
\* channel lets everybody through.
Unclaimed ==
    /\ empty => Parked(Receivers) = {}
    /\ full => Parked(Senders) = {}
    /\ done => Parked(Procs) = {}

\* Receivers that all wait were right to: there is nothing to read, or a
\* token or the sender of an item is about to wake one of them.
ReadersWoken ==
    ~done /\ (\A r \in Receivers : Waits(r))
        => head = tail \/ empty \/ \E s \in Senders : pc[s] \in {"own", "signal"}

\* A sender that waits was right to: there is something to read, or a token,
\* the receiver of an item or another sender is about to go on for it.
WritersWoken ==
    ~done /\ (\E s \in Senders : Waits(s))
        => \/ head # tail
           \/ full
           \/ \E r \in Receivers : pc[r] \in {"own", "signal"}
           \/ \E s \in Senders : pc[s] \in {"look", "claim", "extend", "locking", "retry"}

WakeInv == Unclaimed /\ ReadersWoken /\ WritersWoken

\* Who finds an empty ring sees a writable slot, if no receiver still owns one.
LEMMA RoomWhenEmpty ==
    ASSUME IInv, NEW s \in Senders, pc[s] = "look", head = tail,
           \A r \in Receivers : pc[r] # "own"
    PROVE  seqOf[Index(pos[s])] >= pos[s]
<1>1. TypeOK /\ Slots /\ SenderAt(s) /\ s \in Procs BY DEF IInv, Procs
<1>2. Numbers /\ pos[s] \in Nat /\ pos[s] <= head BY <1>1, NumbersOK DEF SenderAt
<1>3. PICK q \in head..(head + capacity - 1) : q % capacity = pos[s] % capacity
  BY <1>2, LapCovers DEF Numbers
<1>4. q \in head..(tail + capacity - 1) /\ q >= pos[s] BY <1>2, <1>3 DEF Numbers
<1>5. seqOf[Index(q)] = q BY <1>1, <1>4 DEF Slots, Owns
<1> QED BY <1>3, <1>4, <1>5 DEF Index

\* A receiver that finds nothing to read finds the ring empty, or the sender
\* of the next item at work.
LEMMA NothingToRead ==
    ASSUME IInv, NEW r \in Receivers, pc[r] = "look", seqOf[Index(pos[r])] < pos[r] + 1
    PROVE  head = tail \/ \E s \in Senders : pc[s] = "own"
<1>1. TypeOK /\ Slots /\ ReceiverAt(r) /\ r \in Procs BY DEF IInv, Procs
<1>2. Numbers /\ pos[r] \in Nat /\ seqOf[Index(pos[r])] \in Nat BY <1>1, NumbersOK
<1>3. pos[r] <= tail /\ (pos[r] < tail => seqOf[Index(pos[r])] > pos[r]) BY <1>1 DEF ReceiverAt
<1>4. pos[r] = tail BY <1>2, <1>3 DEF Numbers
<1>5. CASE tail < head
  <2>1. tail \in tail..(head - 1) BY <1>2, <1>5 DEF Numbers
  <2>2. seqOf[Index(tail)] = tail + 1 \/ \E s \in Senders : Owns(s, tail) BY <1>1, <2>1 DEF Slots
  <2> QED BY <1>2, <1>4, <2>2 DEF Owns
<1> QED BY <1>1, <1>2, <1>5 DEF Slots, Numbers

\* Nobody waits at the start.
LEMMA InitWakeInv == Init => WakeInv
BY DEF Init, WakeInv, Unclaimed, ReadersWoken, WritersWoken, Parked, Waits, Procs

\* A step that wakes nobody, of one process: the others wait as they did.
Alone(p) == \A x \in Procs : x # p => pc'[x] = pc[x]

\* A sender's step keeps it, if the sender's context has not ended: a sender
\* that takes the token of full goes on to an item, and not away.
LEMMA SendWakeInv ==
    ASSUME IInv, WakeInv, NEW s \in Senders, SendNext(s), s \notin cancelled
    PROVE  WakeInv'
<1>1. TypeOK /\ Slots /\ SenderAt(s) /\ s \in Procs /\ s \notin Receivers
  BY QueueAssumption DEF IInv, Procs
<1>2. Numbers /\ pc \in [Procs -> Steps] /\ tail <= head BY <1>1, NumbersOK DEF TypeOK, Slots
<1>3. Receivers \subseteq Procs /\ Senders \subseteq Procs BY DEF Procs
\* Steps that leave the tokens alone, and let the others wait as they did.
<1> DEFINE Apart == /\ UNCHANGED <<full, empty, done, tail>>
                    /\ Alone(s)
                    /\ pc'[s] # "parked"
<1>4. ASSUME Apart PROVE Unclaimed'
  <2>1. \A x \in Procs : pc'[x] = "parked" => pc[x] = "parked" BY <1>4 DEF Alone
  <2> QED BY <1>3, <1>4, <2>1 DEF WakeInv, Unclaimed, Parked
<1>5. ASSUME Apart, \/ head' = head /\ ~(pc[s] \in {"own", "signal"} /\ pc'[s] \notin {"own", "signal"})
                    \/ pc'[s] = "own"
      PROVE ReadersWoken'
  <2>1. \A r \in Receivers : pc'[r] = pc[r] BY <1>1, <1>3, <1>5 DEF Alone
  <2>2. \A x \in Senders : x # s => pc'[x] = pc[x] BY <1>3, <1>5 DEF Alone
  <2> QED BY <1>5, <2>1, <2>2 DEF WakeInv, ReadersWoken, Waits
<1>6. ASSUME Apart,
             \/ pc'[s] \in {"look", "claim", "extend", "locking", "retry"}
             \/ head' # tail'
             \/ \E r \in Receivers : pc[r] = "own"
      PROVE WritersWoken'
  <2>1. \A r \in Receivers : pc'[r] = pc[r] BY <1>1, <1>3, <1>6 DEF Alone
  <2> QED BY <1>6, <2>1 DEF WritersWoken
<1> HIDE DEF Apart
<1>7. CASE Send(s)
  <2>1. Apart /\ head' = head /\ pc[s] = "idle" /\ pc'[s] = "look"
    BY <1>1, <1>2, <1>7 DEF Apart, Send, GoTo, Alone, lockVars, tokenVars
  <2> QED BY <1>4, <1>5, <1>6, <2>1 DEF WakeInv
<1>8. CASE LookSend(s)
  <2>1. /\ Apart /\ head' = head /\ pc[s] = "look"
        /\ pc'[s] \in {"look", "claim", "extend", "park"}
        /\ pc'[s] = "park" => seqOf[Index(pos[s])] - pos[s] < 0
    BY <1>1, <1>2, <1>8 DEF Apart, LookSend, GoTo, Alone, lockVars, tokenVars
  <2>2. ASSUME pc'[s] = "park" PROVE head' # tail' \/ \E r \in Receivers : pc[r] = "own"
    <3>1. pos[s] \in Nat /\ seqOf[Index(pos[s])] \in Nat BY <1>1, NumbersOK
    <3>2. ~(seqOf[Index(pos[s])] >= pos[s]) BY <2>1, <2>2, <3>1
    <3> QED BY <2>1, <3>2, RoomWhenEmpty DEF Apart
  <2> QED BY <1>4, <1>5, <1>6, <2>1, <2>2 DEF WakeInv
<1>9. CASE ClaimSend(s)
  <2>1. /\ Apart /\ pc[s] = "claim"
        /\ \/ pc'[s] = "own" /\ head' = head + 1
           \/ pc'[s] = "look" /\ head' = head
    BY <1>1, <1>2, <1>9 DEF Apart, ClaimSend, GoTo, Alone, lockVars, tokenVars
  <2>2. head' = head + 1 => head' # tail' BY <1>2, <2>1 DEF Apart, Numbers
  <2> QED BY <1>4, <1>5, <1>6, <2>1, <2>2 DEF WakeInv
<1>10. CASE Publish(s)
  <2>1. Apart /\ head' = head /\ pc[s] = "own" /\ pc'[s] = "signal"
    BY <1>1, <1>2, <1>10 DEF Apart, Publish, GoTo, Alone, lockVars, tokenVars
  <2>2. head' # tail'
    <3>1. tail <= pos[s] /\ pos[s] < head /\ pos[s] \in Nat BY <1>1, <2>1, NumbersOK DEF SenderAt
    <3> QED BY <1>2, <2>1, <3>1 DEF Apart, Numbers
  <2> QED BY <1>4, <1>5, <1>6, <2>1, <2>2 DEF WakeInv
<1>11. CASE SendEnds(s)
  <2>1. /\ UNCHANGED <<full, done, head, tail>> /\ pc[s] = "signal" /\ pc'[s] = "idle"
        /\ \A x \in Procs : x # s => pc'[x] = pc[x] \/ (pc[x] = "parked" /\ pc'[x] = "retry")
        /\ \A x \in Senders : x # s => pc'[x] = pc[x]
        /\ \/ \E r \in Receivers : pc'[r] = "retry" /\ empty' = empty
           \/ Parked(Receivers) = {} /\ empty'
    <3>1. UNCHANGED <<full, done, head, tail>> /\ pc[s] = "signal"
      BY <1>11 DEF SendEnds, lockVars
    <3>2. CASE \E q \in Parked(Receivers) : pc' = [pc EXCEPT ![s] = "idle", ![q] = "retry"]
      <4>1. PICK q \in Parked(Receivers) : pc' = [pc EXCEPT ![s] = "idle", ![q] = "retry"]
        BY <3>2
      <4>2. q \in Receivers /\ q \in Procs /\ pc[q] = "parked" /\ q \notin Senders
        BY <1>3, QueueAssumption DEF Parked
      <4>3. empty' = empty BY <1>11, <4>2 DEF SendEnds, Signal, Parked
      <4> QED BY <1>1, <1>2, <1>3, <3>1, <4>1, <4>2, <4>3
    <3>3. CASE Parked(Receivers) = {} /\ empty' = TRUE /\ pc' = [pc EXCEPT ![s] = "idle"]
      BY <1>1, <1>2, <1>3, <3>1, <3>3
    <3> QED BY <1>11, <3>2, <3>3 DEF SendEnds, Signal, GoTo
  <2>2. \A x \in Procs : pc'[x] = "parked" => pc[x] = "parked" BY <2>1
  <2>3. Unclaimed' BY <1>3, <2>1, <2>2 DEF WakeInv, Unclaimed, Parked
  <2>4. ReadersWoken' BY <2>1 DEF ReadersWoken, Waits
  <2>5. WritersWoken'
    <3>1. \A r \in Receivers : pc[r] \in {"own", "signal"} => pc'[r] = pc[r]
      BY <1>1, <1>3, <2>1
    <3> QED BY <2>1, <3>1 DEF WakeInv, WritersWoken, Waits
  <2> QED BY <2>3, <2>4, <2>5 DEF WakeInv
<1>12. CASE Lock(s)
  <2>1. Apart /\ head' = head /\ pc[s] = "extend" /\ pc'[s] = "locking"
    BY <1>1, <1>2, <1>12 DEF Apart, Lock, GoTo, Alone, lockVars, tokenVars
  <2> QED BY <1>4, <1>5, <1>6, <2>1 DEF WakeInv
<1>13. CASE Extend(s)
  <2>1. /\ UNCHANGED <<full, empty, done>> /\ Alone(s) /\ pc[s] = "locking" /\ pc'[s] = "retry"
        /\ \/ head' = head /\ tail' = tail
           \/ head' = head - tail /\ tail' = 0
    BY <1>1, <1>2, <1>13 DEF Extend, ExtendRing, GoTo, Alone, tokenVars
  <2>2. head = tail => head' = tail' BY <1>2, <2>1 DEF Numbers
  <2>3. \A r \in Receivers : pc'[r] = pc[r] BY <1>1, <1>3, <2>1 DEF Alone
  <2>4. \A x \in Procs : pc'[x] = "parked" => pc[x] = "parked" BY <2>1 DEF Alone
  <2>5. Unclaimed' BY <1>3, <2>1, <2>4 DEF WakeInv, Unclaimed, Parked
  <2>6. ReadersWoken'
    <3>1. \A x \in Senders : x # s => pc'[x] = pc[x] BY <1>3, <2>1 DEF Alone
    <3> QED BY <2>1, <2>2, <2>3, <3>1 DEF WakeInv, ReadersWoken, Waits
  <2>7. WritersWoken' BY <2>1 DEF WritersWoken
  <2> QED BY <2>5, <2>6, <2>7 DEF WakeInv
<1>14. CASE ParkSend(s)
  <2>1. UNCHANGED <<empty, done, head, tail>> /\ Alone(s) /\ pc[s] = "park"
    BY <1>1, <1>2, <1>14 DEF ParkSend, Park, GoTo, Alone, lockVars
  <2>2. \/ pc'[s] = "retry" /\ ~full'
        \/ pc'[s] = "parked" /\ ~full /\ ~full' /\ ~done
    BY <1>1, <1>2, <1>14 DEF ParkSend, Park, GoTo
  <2>3. \A r \in Receivers : pc'[r] = pc[r] BY <1>1, <1>3, <2>1 DEF Alone
  <2>4. \A x \in Senders : x # s => pc'[x] = pc[x] BY <1>3, <2>1 DEF Alone
  <2>5. Unclaimed' BY <1>3, <2>1, <2>2, <2>3, <2>4 DEF WakeInv, Unclaimed, Parked, Procs
  <2>6. ReadersWoken' BY <2>1, <2>2, <2>3, <2>4 DEF WakeInv, ReadersWoken, Waits
  <2>7. WritersWoken'
    <3>1. CASE pc'[s] = "retry" BY <3>1 DEF WritersWoken
    <3>2. CASE pc'[s] = "parked" BY <2>1, <2>2, <2>3, <2>4, <3>2 DEF WakeInv, WritersWoken, Waits
    <3> QED BY <2>2, <3>1, <3>2
  <2> QED BY <2>5, <2>6, <2>7 DEF WakeInv
<1>15. CASE RetrySend(s)
  <2>1. Apart /\ head' = head /\ pc[s] = "retry" /\ pc'[s] = "look"
    BY <1>1, <1>2, <1>15 DEF Apart, RetrySend, GoTo, Alone, lockVars, tokenVars
  <2> QED BY <1>4, <1>5, <1>6, <2>1 DEF WakeInv
<1>16. CASE SendFails(s)
  <2>1. Apart /\ head' = head /\ pc[s] = "retry" /\ done /\ done'
    BY <1>1, <1>2, <1>16 DEF Apart, SendFails, GoTo, Alone, lockVars, tokenVars
  <2>2. WritersWoken' BY <2>1 DEF WritersWoken
  <2> QED BY <1>4, <1>5, <2>1, <2>2 DEF WakeInv
<1> QED BY <1>7, <1>8, <1>9, <1>10, <1>11, <1>12, <1>13, <1>14, <1>15, <1>16 DEF SendNext

\* A receiver's step keeps it.
LEMMA RecvWakeInv ==
    ASSUME IInv, WakeInv, NEW r \in Receivers, RecvNext(r)
    PROVE  WakeInv'
<1>1. TypeOK /\ Slots /\ ReceiverAt(r) /\ r \in Procs /\ r \notin Senders
  BY QueueAssumption DEF IInv, Procs
<1>2. Numbers /\ pc \in [Procs -> Steps] /\ tail <= head BY <1>1, NumbersOK DEF TypeOK, Slots
<1>3. Receivers \subseteq Procs /\ Senders \subseteq Procs BY DEF Procs
<1> DEFINE Apart == /\ UNCHANGED <<full, empty, done, head>>
                    /\ Alone(r)
                    /\ pc'[r] # "parked"
<1>4. ASSUME Apart PROVE Unclaimed'
  <2>1. \A x \in Procs : pc'[x] = "parked" => pc[x] = "parked" BY <1>4 DEF Alone
  <2> QED BY <1>3, <1>4, <2>1 DEF WakeInv, Unclaimed, Parked
\* While a receiver is at work, not all of them wait.
<1>5. ASSUME pc'[r] \notin {"park", "parked"} PROVE ReadersWoken'
  BY <1>5 DEF ReadersWoken, Waits
<1>6. ASSUME Apart, \/ tail' = tail /\ ~(pc[r] \in {"own", "signal"} /\ pc'[r] \notin {"own", "signal"})
                    \/ pc'[r] \in {"own", "signal"}
      PROVE WritersWoken'
  <2>1. \A s \in Senders : pc'[s] = pc[s] BY <1>1, <1>3, <1>6 DEF Alone
  <2>2. \A x \in Receivers : x # r => pc'[x] = pc[x] BY <1>3, <1>6 DEF Alone
  <2> QED BY <1>6, <2>1, <2>2 DEF WakeInv, WritersWoken, Waits
<1> HIDE DEF Apart
<1>7. CASE Recv(r)
  <2>1. Apart /\ tail' = tail /\ pc[r] \in {"idle", "retry"} /\ pc'[r] = "look"
    BY <1>1, <1>2, <1>7 DEF Apart, Recv, GoTo, Alone, lockVars, tokenVars
  <2> QED BY <1>4, <1>5, <1>6, <2>1 DEF WakeInv
<1>8. CASE LookRecv(r)
  <2>1. /\ Apart /\ tail' = tail /\ pc[r] = "look"
        /\ pc'[r] \in {"look", "claim", "park"}
        /\ pc'[r] = "park" => seqOf[Index(pos[r])] - (pos[r] + 1) < 0
    BY <1>1, <1>2, <1>8 DEF Apart, LookRecv, GoTo, Alone, lockVars, tokenVars
  <2>2. ASSUME pc'[r] = "park" PROVE ReadersWoken'
    <3>1. pos[r] \in Nat /\ seqOf[Index(pos[r])] \in Nat BY <1>1, NumbersOK
    <3>2. seqOf[Index(pos[r])] < pos[r] + 1 BY <2>1, <2>2, <3>1
    <3>3. head = tail \/ \E s \in Senders : pc[s] = "own" BY <2>1, <3>2, NothingToRead
    <3>4. \A s \in Senders : pc'[s] = pc[s] BY <1>1, <1>3, <2>1 DEF Apart, Alone
    <3> QED BY <2>1, <3>3, <3>4 DEF ReadersWoken, Apart
  <2> QED BY <1>4, <1>5, <1>6, <2>1, <2>2 DEF WakeInv
<1>9. CASE ClaimRecv(r)
  <2>1. /\ Apart /\ pc[r] = "claim"
        /\ \/ pc'[r] = "own"
           \/ pc'[r] = "look" /\ tail' = tail
    BY <1>1, <1>2, <1>9 DEF Apart, ClaimRecv, GoTo, Alone, lockVars, tokenVars
  <2> QED BY <1>4, <1>5, <1>6, <2>1 DEF WakeInv
<1>10. CASE Recycle(r)
  <2>1. Apart /\ tail' = tail /\ pc[r] = "own" /\ pc'[r] = "signal"
    BY <1>1, <1>2, <1>10 DEF Apart, Recycle, GoTo, Alone, lockVars, tokenVars
  <2> QED BY <1>4, <1>5, <1>6, <2>1 DEF WakeInv
<1>11. CASE RecvEnds(r)
  <2>1. /\ UNCHANGED <<empty, done, head, tail>> /\ pc[r] = "signal" /\ pc'[r] = "idle"
        /\ \A x \in Procs : x # r => pc'[x] = pc[x] \/ (pc[x] = "parked" /\ pc'[x] = "retry")
        /\ \/ \E s \in Senders : pc'[s] = "retry" /\ full' = full
           \/ Parked(Senders) = {} /\ full'
           \/ done /\ full' = full
    <3>1. UNCHANGED <<empty, done, head, tail>> /\ pc[r] = "signal"
      BY <1>11 DEF RecvEnds, lockVars
    <3>2. CASE ~done /\ \E q \in Parked(Senders) : pc' = [pc EXCEPT ![r] = "idle", ![q] = "retry"]
      <4>1. PICK q \in Parked(Senders) : pc' = [pc EXCEPT ![r] = "idle", ![q] = "retry"]
        BY <3>2
      <4>2. q \in Senders /\ q \in Procs /\ pc[q] = "parked" /\ q \notin Receivers
        BY <1>3, QueueAssumption DEF Parked
      <4>3. full' = full BY <1>11, <3>2, <4>2 DEF RecvEnds, Signal, Parked
      <4> QED BY <1>1, <1>2, <1>3, <3>1, <4>1, <4>2, <4>3
    <3>3. CASE Parked(Senders) = {} /\ full' = TRUE /\ pc' = [pc EXCEPT ![r] = "idle"]
      BY <1>1, <1>2, <1>3, <3>1, <3>3
    <3>4. CASE done /\ full' = full /\ pc' = [pc EXCEPT ![r] = "idle"]
      BY <1>1, <1>2, <1>3, <3>1, <3>4
    <3> QED BY <1>11, <3>2, <3>3, <3>4 DEF RecvEnds, Signal, GoTo
  <2>2. \A x \in Procs : pc'[x] = "parked" => pc[x] = "parked" BY <2>1
  <2>3. Unclaimed' BY <1>3, <2>1, <2>2 DEF WakeInv, Unclaimed, Parked
  <2>4. WritersWoken' BY <2>1 DEF WritersWoken
  <2> QED BY <1>5, <2>1, <2>3, <2>4 DEF WakeInv
<1>12. CASE RecvFails(r)
  <2>1. Apart /\ tail' = tail /\ pc[r] = "look" /\ pc'[r] = "idle"
    BY <1>1, <1>2, <1>12 DEF Apart, RecvFails, GoTo, Alone, lockVars, tokenVars
  <2> QED BY <1>4, <1>5, <1>6, <2>1 DEF WakeInv
<1>13. CASE ParkRecv(r)
  <2>1. UNCHANGED <<full, done, head, tail>> /\ Alone(r) /\ pc[r] = "park"
    BY <1>1, <1>2, <1>13 DEF ParkRecv, Park, GoTo, Alone, lockVars
  <2>2. \/ pc'[r] = "retry" /\ ~empty'
        \/ pc'[r] = "parked" /\ ~empty /\ ~empty' /\ ~done
    BY <1>1, <1>2, <1>13 DEF ParkRecv, Park, GoTo
  <2>3. \A s \in Senders : pc'[s] = pc[s] BY <1>1, <1>3, <2>1 DEF Alone
  <2>4. \A x \in Receivers : x # r => pc'[x] = pc[x] BY <1>3, <2>1 DEF Alone
  <2>5. Unclaimed' BY <1>3, <2>1, <2>2, <2>3, <2>4 DEF WakeInv, Unclaimed, Parked, Procs
  <2>6. ReadersWoken'
    <3>1. CASE pc'[r] = "parked" BY <2>1, <2>2, <2>3, <2>4, <3>1 DEF WakeInv, ReadersWoken, Waits
    <3> QED BY <1>5, <2>2, <3>1
  <2>7. WritersWoken'
    <3>1. \A x \in Receivers : pc[x] \in {"own", "signal"} => pc'[x] \in {"own", "signal"}
      BY <2>1, <2>4
    <3> QED BY <2>1, <2>3, <3>1 DEF WakeInv, WritersWoken, Waits
  <2> QED BY <2>5, <2>6, <2>7 DEF WakeInv
<1> QED BY <1>7, <1>8, <1>9, <1>10, <1>11, <1>12, <1>13 DEF RecvNext

\* As long as no sender's context ends, every step of the queue keeps it.
LEMMA StepWakeInv ==
    ASSUME IInv, WakeInv, cancelled \cap Senders = {}, Cancellable \cap Senders = {}, [Next]_vars
    PROVE  WakeInv' /\ (cancelled \cap Senders = {})'
<1>1. TypeOK /\ Numbers BY NumbersOK DEF IInv
<1>2. pc \in [Procs -> Steps] /\ Receivers \subseteq Procs /\ Senders \subseteq Procs
  BY <1>1 DEF TypeOK, Procs
<1>3. (cancelled \cap Senders = {})'
  <2>1. ASSUME NEW s \in Senders, SendNext(s) PROVE cancelled' \subseteq cancelled
    BY <2>1 DEF SendNext, Send, LookSend, ClaimSend, Publish, SendEnds, Lock, Extend, ParkSend,
         RetrySend, SendFails, Return
  <2>2. ASSUME NEW r \in Receivers, RecvNext(r) PROVE cancelled' \subseteq cancelled
    BY <2>2 DEF RecvNext, Recv, LookRecv, ClaimRecv, Recycle, RecvEnds, RecvFails, ParkRecv, Return
  <2>3. ASSUME NEW p \in Procs, Cancel(p) PROVE cancelled' \subseteq cancelled \cup Cancellable
    BY <2>3 DEF Cancel
  <2>4. (\E n \in GrowTo : Grow(n)) \/ Close \/ UNCHANGED vars => cancelled' = cancelled
    BY DEF Grow, Close, vars
  <2> QED BY <2>1, <2>2, <2>3, <2>4 DEF Next
<1>4. ASSUME NEW p \in Procs, Cancel(p) PROVE WakeInv'
  <2>1. /\ UNCHANGED <<full, empty, done, head, tail>> /\ p \notin Senders /\ p \in Receivers
        /\ Alone(p)
        /\ \/ pc[p] = "look" /\ pc' = pc
           \/ pc[p] = "parked" /\ pc'[p] = "retry"
    BY <1>2, <1>4 DEF Cancel, Alone, Procs, lockVars, tokenVars
  <2>2. \A x \in Procs : pc'[x] = "parked" => pc[x] = "parked" BY <2>1 DEF Alone
  <2>3. Unclaimed' BY <1>2, <2>1, <2>2 DEF WakeInv, Unclaimed, Parked
  <2>4. ReadersWoken' BY <2>1 DEF ReadersWoken, Waits
  <2>5. \A x \in Procs : pc[x] \in {"own", "signal"} => pc'[x] = pc[x] BY <2>1 DEF Alone
  <2>6. \A s \in Senders : pc'[s] = pc[s] BY <1>2, <2>1 DEF Alone
  <2>7. WritersWoken' BY <1>2, <2>1, <2>5, <2>6 DEF WakeInv, WritersWoken, Waits
  <2> QED BY <2>3, <2>4, <2>7 DEF WakeInv
<1>5. ASSUME NEW n \in GrowTo, Grow(n) PROVE WakeInv'
  <2>1. UNCHANGED <<full, empty, done, pc>> /\ head' = head - tail /\ tail' = 0
    BY <1>5 DEF Grow, ExtendRing, tokenVars
  <2>2. (head = tail) <=> (head' = tail') BY <1>1, <2>1 DEF Numbers
  <2> QED BY <2>1, <2>2 DEF WakeInv, Unclaimed, ReadersWoken, WritersWoken, Parked, Waits
<1>6. CASE Close
  <2>1. done' = TRUE /\ \A p \in Procs : pc'[p] # "parked" BY <1>2, <1>6 DEF Close
  <2>2. Parked(Procs)' = {} /\ Parked(Senders)' = {} BY <1>2, <2>1 DEF Parked
  <2>3. Unclaimed'
    <3>1. Parked(Procs)' = {} => Unclaimed'
      BY <2>1, <1>2 DEF Unclaimed, Parked
    <3> QED BY <2>2, <3>1
  <2>4. ReadersWoken' /\ WritersWoken'
    BY <1>2, <2>1, <2>2 DEF ReadersWoken, WritersWoken, Parked
  <2> QED BY <1>3, <2>3, <2>4 DEF WakeInv
<1>7. CASE UNCHANGED vars
  BY <1>7 DEF vars, lockVars, tokenVars, WakeInv, Unclaimed, ReadersWoken, WritersWoken, Parked, Waits
<1>8. ASSUME NEW s \in Senders, SendNext(s) PROVE WakeInv'
  <2>1. s \notin cancelled OBVIOUS
  <2> QED BY <1>8, <2>1, SendWakeInv
<1> QED BY <1>3, <1>4, <1>5, <1>6, <1>7, <1>8, RecvWakeInv DEF Next

\* No wake-up is lost: with any number of senders and receivers, as long as no
\* sender's context ends, they never all wait for each other.
THEOREM NeverStuck ==
    ASSUME Receivers # {}, Cancellable \cap Senders = {}
    PROVE  Spec => []NobodyStuck
<1> DEFINE Inv == WakeInv /\ cancelled \cap Senders = {}
<1>1. Init => Inv
  <2>1. Init => cancelled \cap Senders = {} BY DEF Init
  <2> QED BY <2>1, InitWakeInv
<1>2. IInv /\ Inv /\ [Next]_vars => Inv'
  BY StepWakeInv
<1>3. Inv => NobodyStuck
  <2> SUFFICES ASSUME WakeInv, \A p \in Procs : pc[p] \in {"idle", "parked"},
                      Parked(Senders) # {}, Parked(Receivers) = Receivers
               PROVE  FALSE
    BY DEF NobodyStuck
  <2>1. Parked(Senders) \subseteq Parked(Procs) BY DEF Parked, Procs
  <2>2. ~done /\ ~empty /\ ~full BY <2>1 DEF WakeInv, Unclaimed
  <2>3. head = tail BY <2>2 DEF WakeInv, ReadersWoken, Parked, Waits, Procs
  <2> QED BY <2>2, <2>3 DEF WakeInv, WritersWoken, Parked, Waits, Procs
<1> QED BY <1>1, <1>2, <1>3, Invariant, PTL DEF Spec

(***************************************************************************)
(* The refinement of FifoQueue.  Items holds the item at every position, as *)
(* a function, so that what a step keeps can be said of positions.          *)
(***************************************************************************)
Items == [q \in Nat |-> ItemAt(q)]

QueueNow == [k \in 1..(head - tail) |-> ItemAt(tail + k - 1)]

TakenNow == [r \in Receivers |-> IF pc[r] = "own" THEN data[Index(pos[r])] ELSE item[r]]

\* The queue that FifoQueue sees, by positions.
LEMMA QueueItems ==
    Numbers => QueueNow = [k \in 1..(head - tail) |-> Items[tail + k - 1]]
<1> SUFFICES ASSUME Numbers
             PROVE  \A k \in 1..(head - tail) : ItemAt(tail + k - 1) = Items[tail + k - 1]
  BY DEF QueueNow
<1> TAKE k \in 1..(head - tail)
<1>1. tail + k - 1 \in Nat BY DEF Numbers
<1> QED BY <1>1 DEF Items

\* The same in the next state.
LEMMA QueueItemsNext ==
    (Numbers => QueueNow = [k \in 1..(head - tail) |-> Items[tail + k - 1]])'
BY QueueItems, PTL

\* A published item is in its slot, another still with its sender.
LEMMA ItemsWhere ==
    IInv => \A q \in Nat :
        /\ seqOf[Index(q)] = q + 1 => Items[q] = data[Index(q)]
        /\ \A s \in Senders : Owns(s, q) => Items[q] = item[s]
<1> SUFFICES ASSUME IInv, NEW q \in Nat
             PROVE  /\ seqOf[Index(q)] = q + 1 => ItemAt(q) = data[Index(q)]
                    /\ \A s \in Senders : Owns(s, q) => ItemAt(q) = item[s]
  BY DEF Items
<1>1. ASSUME NEW s \in Senders, Owns(s, q) PROVE ItemAt(q) = item[s]
  <2>1. Writer(q) \in Senders /\ Owns(Writer(q), q)
    BY <1>1 DEF Writer, Owns
  <2>2. Writer(q) = s
    BY <1>1, <2>1 DEF IInv, Exclusive, Owns
  <2>3. seqOf[Index(q)] = q
    BY <1>1 DEF IInv, SenderAt, Owns
  <2>4. q # q + 1 OBVIOUS
  <2> QED BY <2>2, <2>3, <2>4 DEF ItemAt
<1> QED BY <1>1 DEF ItemAt

\* The same in the next state.
LEMMA ItemsWhereNext ==
    (IInv => \A q \in Nat :
        /\ seqOf[Index(q)] = q + 1 => Items[q] = data[Index(q)]
        /\ \A s \in Senders : Owns(s, q) => Items[q] = item[s])'
BY ItemsWhere, PTL

\* The item at a claimed position stays what it is while its slot does.
LEMMA ItemKept ==
    ASSUME IInv, IInv', capacity' = capacity, NEW q \in tail..(head - 1),
           seqOf'[Index(q)] = seqOf[Index(q)], data'[Index(q)] = data[Index(q)],
           \A s \in Senders : Owns(s, q) => Owns(s, q)' /\ item'[s] = item[s]
    PROVE  Items'[q] = Items[q]
<1>1. TypeOK /\ Slots /\ Numbers BY NumbersOK DEF IInv
<1>2. q \in Nat BY <1>1 DEF Numbers
<1>3. CASE seqOf[Index(q)] = q + 1
  <2>1. Items[q] = data[Index(q)] BY <1>2, <1>3, ItemsWhere
  <2>2. Items'[q] = data'[Index(q)] BY <1>2, <1>3, ItemsWhereNext DEF Index
  <2> QED BY <2>1, <2>2
<1>4. ASSUME NEW s \in Senders, Owns(s, q) PROVE Items'[q] = Items[q]
  <2>1. Items[q] = item[s] BY <1>2, <1>4, ItemsWhere
  <2>2. Items'[q] = item'[s] BY <1>2, <1>4, ItemsWhereNext
  <2> QED BY <1>4, <2>1, <2>2
<1> QED BY <1>1, <1>3, <1>4 DEF Slots

\* The items from position a up to b, as a sequence.
Slice(f, a, b) == [k \in 1..(b - a) |-> f[a + k - 1]]

\* One more position at the end is an Append.
LEMMA Enqueued ==
    ASSUME NEW a \in Nat, NEW b \in Nat, a <= b, NEW f, NEW g,
           \A q \in a..(b - 1) : g[q] = f[q]
    PROVE  Slice(g, a, b + 1) = Append(Slice(f, a, b), g[b])
<1> DEFINE S == {f[q] : q \in Nat} \cup {g[q] : q \in Nat}
           u == [k \in 1..(b - a) |-> f[a + k - 1]]
           v == [k \in 1..(b + 1 - a) |-> g[a + k - 1]]
<1>1. \A k \in 1..(b + 1 - a) : a + k - 1 \in Nat OBVIOUS
<1>2. u \in [1..(b - a) -> S] /\ v \in [1..(b + 1 - a) -> S] BY <1>1
<1>3. b - a \in Nat /\ b + 1 - a \in Nat OBVIOUS
<1>4. u \in Seq(S) /\ v \in Seq(S) /\ Len(u) = b - a /\ Len(v) = b + 1 - a
  <2> HIDE DEF u, v, S
  <2> QED BY <1>2, <1>3, SeqDef
<1>5. \A k \in 1..(b - a) : v[k] = u[k]
  <2> TAKE k \in 1..(b - a)
  <2>1. a + k - 1 \in a..(b - 1) OBVIOUS
  <2> QED BY <2>1
<1>6. v[b + 1 - a] = g[b]
  <2>1. a + (b + 1 - a) - 1 = b OBVIOUS
  <2> QED BY <2>1
<1>7. g[b] \in S OBVIOUS
<1> HIDE DEF u, v, S
<1>8. Append(u, g[b]) \in Seq(S) /\ Len(Append(u, g[b])) = b + 1 - a
  BY <1>3, <1>4, <1>7
<1>9. \A k \in 1..(b + 1 - a) : Append(u, g[b])[k] = v[k]
  BY <1>3, <1>4, <1>5, <1>6, <1>7
<1>10. v = Append(u, g[b])
  BY <1>4, <1>8, <1>9, SeqEqual
<1> QED BY <1>10 DEF u, v, Slice

\* One position fewer at the front is a Tail, and takes the Head.
LEMMA Dequeued ==
    ASSUME NEW a \in Nat, NEW b \in Nat, a < b, NEW f, NEW g,
           \A q \in (a + 1)..(b - 1) : g[q] = f[q]
    PROVE  /\ Slice(f, a, b) # <<>>
           /\ Head(Slice(f, a, b)) = f[a]
           /\ Slice(g, a + 1, b) = Tail(Slice(f, a, b))
<1> DEFINE S == {f[q] : q \in Nat} \cup {g[q] : q \in Nat}
           u == [k \in 1..(b - a) |-> f[a + k - 1]]
           v == [k \in 1..(b - (a + 1)) |-> g[(a + 1) + k - 1]]
<1>1. /\ \A k \in 1..(b - a) : a + k - 1 \in Nat
      /\ \A k \in 1..(b - (a + 1)) : (a + 1) + k - 1 \in Nat
  OBVIOUS
<1>2. u \in [1..(b - a) -> S] /\ v \in [1..(b - (a + 1)) -> S] BY <1>1
<1>3. b - a \in Nat /\ b - (a + 1) \in Nat /\ b - a # 0 OBVIOUS
<1>4. u \in Seq(S) /\ v \in Seq(S) /\ Len(u) = b - a /\ Len(v) = b - (a + 1)
  <2> HIDE DEF u, v, S
  <2> QED BY <1>2, <1>3, SeqDef
<1>5. \A k \in 1..(b - (a + 1)) : v[k] = u[k + 1]
  <2> TAKE k \in 1..(b - (a + 1))
  <2>1. (a + 1) + k - 1 \in (a + 1)..(b - 1) /\ a + (k + 1) - 1 = (a + 1) + k - 1 OBVIOUS
  <2>2. k + 1 \in 1..(b - a) OBVIOUS
  <2> QED BY <2>1, <2>2
<1>6. u[1] = f[a]
  <2>1. 1 \in 1..(b - a) /\ a + 1 - 1 = a OBVIOUS
  <2> QED BY <2>1
<1> HIDE DEF u, v, S
<1>7. u # <<>> BY <1>3, <1>4
<1>8. Head(u) = f[a] BY <1>4, <1>6, <1>7
<1>9. Tail(u) \in Seq(S) /\ Len(Tail(u)) = Len(u) - 1 /\ \A k \in 1..Len(Tail(u)) : Tail(u)[k] = u[k + 1]
  BY <1>4, <1>7, HeadTailProperties
<1>10. Len(v) = Len(Tail(u)) BY <1>3, <1>4, <1>9
<1>11. v = Tail(u)
  BY <1>4, <1>5, <1>9, <1>10, SeqEqual
<1> QED BY <1>7, <1>8, <1>11 DEF u, v, Slice

\* The queue is what its positions hold.
LEMMA QueueSame ==
    ASSUME Numbers, Numbers', head' = head, tail' = tail,
           \A q \in tail..(head - 1) : Items'[q] = Items[q]
    PROVE  QueueNow' = QueueNow
<1>1. \A k \in 1..(head - tail) : tail + k - 1 \in tail..(head - 1)
  BY DEF Numbers
<1> QED BY <1>1, QueueItems, QueueItemsNext

\* It grows at head.
LEMMA QueueGrows ==
    ASSUME Numbers, Numbers', tail <= head, head' = head + 1, tail' = tail,
           \A q \in tail..(head - 1) : Items'[q] = Items[q]
    PROVE  QueueNow' = Append(QueueNow, Items'[head])
<1>1. Slice(Items', tail, head + 1) = Append(Slice(Items, tail, head), Items'[head])
  <2>1. /\ tail \in Nat /\ head \in Nat /\ tail <= head
        /\ \A q \in tail..(head - 1) : Items'[q] = Items[q]
    BY DEF Numbers
  <2> QED BY ONLY <2>1, Enqueued
<1>2. QueueNow = Slice(Items, tail, head)
  BY QueueItems DEF Slice
<1>3. QueueNow' = Slice(Items', tail, head + 1)
  BY QueueItemsNext DEF Slice
<1> QED BY <1>1, <1>2, <1>3

\* It shrinks at tail.
LEMMA QueueShrinks ==
    ASSUME Numbers, Numbers', tail < head, head' = head, tail' = tail + 1,
           \A q \in (tail + 1)..(head - 1) : Items'[q] = Items[q]
    PROVE  /\ QueueNow # <<>>
           /\ Head(QueueNow) = Items[tail]
           /\ QueueNow' = Tail(QueueNow)
<1>1. /\ Slice(Items, tail, head) # <<>>
      /\ Head(Slice(Items, tail, head)) = Items[tail]
      /\ Slice(Items', tail + 1, head) = Tail(Slice(Items, tail, head))
  <2>1. /\ tail \in Nat /\ head \in Nat /\ tail < head
        /\ \A q \in (tail + 1)..(head - 1) : Items'[q] = Items[q]
    BY DEF Numbers
  <2> QED BY ONLY <2>1, Dequeued
<1>2. QueueNow = Slice(Items, tail, head)
  BY QueueItems DEF Slice
<1>3. QueueNow' = Slice(Items', tail + 1, head)
  BY QueueItemsNext DEF Slice
<1> QED BY <1>1, <1>2, <1>3

\* Nothing that is taken changes while the receivers and their slots do not.
LEMMA TakenSame ==
    ASSUME IInv,
           \A r \in Receivers :
               /\ pc'[r] = "own" <=> pc[r] = "own"
               /\ pc[r] = "own" => data'[Index(pos[r])'] = data[Index(pos[r])]
               /\ pc[r] # "own" => item'[r] = item[r]
    PROVE  TakenNow' = TakenNow
BY DEF TakenNow, Index

(***************************************************************************)
(* The steps of FifoQueue, said of QueueNow and TakenNow.                   *)
(***************************************************************************)
LEMMA AsStutter ==
    ASSUME QueueNow' = QueueNow, TakenNow' = TakenNow, done' = done
    PROVE  UNCHANGED Fifo!fifoVars
BY DEF Fifo!fifoVars, QueueNow, TakenNow

\* An item enters.
LEMMA AsEnter ==
    ASSUME NEW i \in 1..MaxSends, ~done, QueueNow' = Append(QueueNow, i),
           TakenNow' = TakenNow, done' = done
    PROVE  Fifo!Next
BY DEF Fifo!Next, Fifo!Enter, QueueNow, TakenNow

\* The oldest item goes to one receiver.
LEMMA AsTake ==
    ASSUME NEW r \in Receivers, QueueNow # <<>>, TakenNow[r] = NoItem,
           TakenNow' = [TakenNow EXCEPT ![r] = Head(QueueNow)],
           QueueNow' = Tail(QueueNow), done' = done
    PROVE  Fifo!Next
<1>1. Fifo!Take(r) BY DEF Fifo!Take, QueueNow, TakenNow
<1> QED BY <1>1 DEF Fifo!Next

\* A receiver returns what it took.
LEMMA AsReturn ==
    ASSUME NEW r \in Receivers, TakenNow[r] # NoItem,
           TakenNow' = [TakenNow EXCEPT ![r] = NoItem],
           QueueNow' = QueueNow, done' = done
    PROVE  Fifo!Next
<1>1. Fifo!Return(r) BY DEF Fifo!Return, QueueNow, TakenNow
<1> QED BY <1>1 DEF Fifo!Next

\* The queue closes.
LEMMA AsShut ==
    ASSUME done', QueueNow' = QueueNow, TakenNow' = TakenNow
    PROVE  Fifo!Next
<1>1. done' = TRUE OBVIOUS
<1> QED BY <1>1 DEF Fifo!Next, Fifo!Shut, QueueNow, TakenNow

(***************************************************************************)
(* Which step of FifoQueue each step of the queue is.                       *)
(***************************************************************************)
\* A step that leaves the ring, its items and its senders alone.
LEMMA QueueStill ==
    ASSUME IInv, IInv', RingStill, data' = data,
           \A s \in Senders : pc[s] = "own" => /\ pc'[s] = "own"
                                              /\ pos'[s] = pos[s]
                                              /\ item'[s] = item[s]
    PROVE  QueueNow' = QueueNow
<1>1. Numbers /\ Numbers' BY NumbersOK DEF IInv, RingStill, Numbers
<1>2. ASSUME NEW q \in tail..(head - 1) PROVE Items'[q] = Items[q]
  <2>1. \A s \in Senders : Owns(s, q) => Owns(s, q)' /\ item'[s] = item[s] BY DEF Owns
  <2> QED BY <2>1, ItemKept DEF RingStill
<1> QED BY <1>1, <1>2, QueueSame DEF RingStill

\* An item enters when its position is claimed, not when it is published.
LEMMA ClaimSendEnters ==
    ASSUME IInv, IInv', NEW s \in Senders, ClaimSend(s), head = pos[s]
    PROVE  Fifo!Next
<1>1. TypeOK /\ Slots /\ SenderAt(s) /\ s \in Procs /\ s \notin Receivers /\ Numbers /\ Numbers'
  BY QueueAssumption, NumbersOK DEF IInv, Procs, ClaimSend, lockVars, Numbers
<1>2. /\ pc[s] = "claim" /\ pc'[s] = "own" /\ \A p \in Procs : p # s => pc'[p] = pc[p]
      /\ head' = head + 1
      /\ UNCHANGED <<capacity, done, seqOf, data, tail, pos, item>>
  BY <1>1 DEF ClaimSend, GoTo, TypeOK, lockVars, slotVars
<1>3. \A q \in tail..(head - 1) : Items'[q] = Items[q]
  <2> TAKE q \in tail..(head - 1)
  <2>1. \A x \in Senders : Owns(x, q) => Owns(x, q)' /\ item'[x] = item[x]
    BY <1>2 DEF Owns, Procs
  <2> QED BY <1>2, <2>1, ItemKept
<1>4. Items'[head] = item[s]
  <2>1. pc'[s] = "own" /\ pos'[s] = head /\ head \in Nat BY <1>1, <1>2 DEF Numbers
  <2>2. Items'[head] = item'[s] BY <2>1, ItemsWhereNext DEF Owns
  <2> QED BY <1>2, <2>2
<1>5. QueueNow' = Append(QueueNow, item[s])
  <2>1. tail <= head BY <1>1 DEF Slots
  <2> QED BY <1>1, <1>2, <1>3, <1>4, <2>1, QueueGrows
<1>6. TakenNow' = TakenNow
  <2>1. \A r \in Receivers : pc'[r] = pc[r] BY <1>1, <1>2 DEF Procs
  <2> QED BY <1>2, <2>1 DEF TakenNow, Index
<1>7. ~done /\ item[s] \in 1..MaxSends
  BY <1>1, <1>2 DEF SenderAt, Locked
<1> QED BY <1>2, <1>5, <1>6, <1>7, AsEnter

\* And is taken when its position is claimed.
LEMMA ClaimRecvTakes ==
    ASSUME IInv, IInv', NEW r \in Receivers, ClaimRecv(r), tail = pos[r]
    PROVE  Fifo!Next
<1>1. TypeOK /\ Slots /\ ReceiverAt(r) /\ r \in Procs /\ r \notin Senders /\ Numbers /\ Numbers'
  BY QueueAssumption, NumbersOK DEF IInv, Procs, ClaimRecv, lockVars, Numbers
<1>2. /\ pc[r] = "claim" /\ pc'[r] = "own" /\ \A p \in Procs : p # r => pc'[p] = pc[p]
      /\ tail' = tail + 1
      /\ UNCHANGED <<capacity, done, seqOf, data, head, pos, item>>
  BY <1>1 DEF ClaimRecv, GoTo, TypeOK, lockVars, slotVars
<1>3. seqOf[Index(tail)] = tail + 1 /\ tail < head
  BY TailIsPublished
<1>4. \A q \in (tail + 1)..(head - 1) : Items'[q] = Items[q]
  <2> TAKE q \in (tail + 1)..(head - 1)
  <2>1. q \in tail..(head - 1) BY <1>1 DEF Numbers
  <2>2. \A x \in Senders : Owns(x, q) => Owns(x, q)' /\ item'[x] = item[x]
    BY <1>1, <1>2 DEF Owns, Procs
  <2> QED BY <1>2, <2>1, <2>2, ItemKept
<1>5. Items[tail] = data[Index(tail)]
  BY <1>1, <1>3, ItemsWhere DEF Numbers
<1>6. QueueNow # <<>> /\ Head(QueueNow) = Items[tail] /\ QueueNow' = Tail(QueueNow)
  BY <1>1, <1>2, <1>3, <1>4, QueueShrinks
<1>7. TakenNow[r] = NoItem /\ TakenNow' = [TakenNow EXCEPT ![r] = data[Index(tail)]]
  <2>1. item[r] = NoItem BY <1>1, <1>2 DEF ReceiverAt
  <2>2. \A x \in Receivers : x # r => pc'[x] = pc[x] BY <1>2 DEF Procs
  <2> QED BY <1>2, <2>1, <2>2 DEF TakenNow, Index
<1> QED BY <1>2, <1>5, <1>6, <1>7, AsTake

\* A position is published: its item moves from the sender into the slot.
LEMMA PublishStutters ==
    ASSUME IInv, IInv', NEW s \in Senders, Publish(s)
    PROVE  UNCHANGED Fifo!fifoVars
<1>1. TypeOK /\ Slots /\ SenderAt(s) /\ s \in Procs /\ s \notin Receivers /\ Numbers
  BY QueueAssumption, NumbersOK DEF IInv, Procs
<1>2. /\ pc[s] = "own" /\ \A p \in Procs : p # s => pc'[p] = pc[p]
      /\ UNCHANGED <<capacity, done, head, tail, pos, item>>
  BY <1>1 DEF Publish, GoTo, TypeOK, lockVars
<1>3. pos[s] \in Nat /\ tail <= pos[s] /\ pos[s] < head /\ seqOf[Index(pos[s])] = pos[s]
  BY <1>1, <1>2 DEF SenderAt, TypeOK
<1>4. /\ seqOf'[Index(pos[s])] = pos[s] + 1 /\ data'[Index(pos[s])] = item[s]
      /\ \A i \in 0..(capacity - 1) :
            i # Index(pos[s]) => seqOf'[i] = seqOf[i] /\ data'[i] = data[i]
  BY <1>1, <1>3, Indices DEF Publish, TypeOK
<1>5. \A q \in Nat : q # pos[s] /\ q < pos[s] + capacity /\ pos[s] < q + capacity
          => seqOf'[Index(q)] = seqOf[Index(q)] /\ data'[Index(q)] = data[Index(q)]
  BY <1>1, <1>3, <1>4, Indices
<1>6. ASSUME NEW q \in tail..(head - 1) PROVE Items'[q] = Items[q]
  <2>1. CASE q = pos[s]
    <3>1. Items[q] = item[s] BY <1>2, <1>3, <2>1, ItemsWhere DEF Owns
    <3>2. Items'[q] = data'[Index(q)] BY <1>2, <1>3, <1>4, <2>1, ItemsWhereNext DEF Index
    <3> QED BY <1>4, <2>1, <3>1, <3>2
  <2>2. CASE q # pos[s]
    <3>1. seqOf'[Index(q)] = seqOf[Index(q)] /\ data'[Index(q)] = data[Index(q)]
      BY <1>1, <1>3, <1>5, <2>2 DEF Slots, Numbers
    <3>2. \A x \in Senders : Owns(x, q) => Owns(x, q)' /\ item'[x] = item[x]
      BY <1>2, <2>2 DEF Owns, Procs
    <3> QED BY <1>2, <3>1, <3>2, ItemKept
  <2> QED BY <2>1, <2>2
<1>7. QueueNow' = QueueNow
  <2>1. Numbers' BY <1>1, <1>2 DEF Numbers
  <2> QED BY <1>1, <1>2, <1>6, <2>1, QueueSame
<1>8. TakenNow' = TakenNow
  <2>1. ASSUME NEW r \in Receivers, pc[r] = "own" PROVE data'[Index(pos[r])'] = data[Index(pos[r])]
    <3>1. pos[r] \in Nat /\ head <= pos[r] + capacity /\ pos[r] < tail
      BY <1>1, <2>1 DEF IInv, ReceiverAt, TypeOK, Procs
    <3>2. pos[r] # pos[s] /\ pos[r] < pos[s] + capacity /\ pos[s] < pos[r] + capacity
      BY <1>1, <1>3, <3>1 DEF Numbers
    <3> QED BY <1>2, <1>5, <3>1, <3>2 DEF Index
  <2>2. \A r \in Receivers : pc'[r] = pc[r] BY <1>1, <1>2 DEF Procs
  <2> QED BY <1>2, <2>1, <2>2, TakenSame
<1> QED BY <1>2, <1>7, <1>8, AsStutter

\* A slot is recycled: its item moves to the receiver that had taken it.
LEMMA RecycleStutters ==
    ASSUME IInv, IInv', NEW r \in Receivers, Recycle(r)
    PROVE  UNCHANGED Fifo!fifoVars
<1>1. TypeOK /\ Slots /\ ReceiverAt(r) /\ Exclusive /\ r \in Procs /\ r \notin Senders /\ Numbers
  BY QueueAssumption, NumbersOK DEF IInv, Procs
<1>2. /\ pc[r] = "own" /\ pc'[r] = "signal" /\ item'[r] = data[Index(pos[r])]
      /\ \A p \in Procs : p # r => pc'[p] = pc[p] /\ item'[p] = item[p]
      /\ UNCHANGED <<capacity, done, head, tail, pos>>
  BY <1>1 DEF Recycle, GoTo, TypeOK, lockVars
<1>3. pos[r] \in Nat /\ head <= pos[r] + capacity /\ pos[r] < tail
  BY <1>1, <1>2 DEF ReceiverAt, TypeOK
<1>4. \A i \in 0..(capacity - 1) :
          i # Index(pos[r]) => seqOf'[i] = seqOf[i] /\ data'[i] = data[i]
  BY <1>1, <1>3, Indices DEF Recycle, TypeOK
<1>5. \A q \in Nat : q # pos[r] /\ q < pos[r] + capacity /\ pos[r] < q + capacity
          => seqOf'[Index(q)] = seqOf[Index(q)] /\ data'[Index(q)] = data[Index(q)]
  BY <1>1, <1>3, <1>4, Indices
<1>6. ASSUME NEW q \in tail..(head - 1) PROVE Items'[q] = Items[q]
  <2>1. q \in Nat /\ q # pos[r] /\ q < pos[r] + capacity /\ pos[r] < q + capacity
    BY <1>1, <1>3 DEF Numbers
  <2>2. \A x \in Senders : Owns(x, q) => Owns(x, q)' /\ item'[x] = item[x]
    BY <1>1, <1>2 DEF Owns, Procs
  <2> QED BY <1>2, <1>5, <2>1, <2>2, ItemKept
<1>7. QueueNow' = QueueNow
  <2>1. Numbers' BY <1>1, <1>2 DEF Numbers
  <2> QED BY <1>1, <1>2, <1>6, <2>1, QueueSame
<1>8. ASSUME NEW x \in Receivers
      PROVE  (IF pc'[x] = "own" THEN data'[Index(pos[x])'] ELSE item'[x])
                = IF pc[x] = "own" THEN data[Index(pos[x])] ELSE item[x]
  <2>1. CASE x = r BY <1>2, <2>1
  <2>2. CASE x # r
    <3>1. pc'[x] = pc[x] /\ item'[x] = item[x] BY <1>2, <2>2 DEF Procs
    <3>2. ASSUME pc[x] = "own" PROVE data'[Index(pos[x])'] = data[Index(pos[x])]
      <4>1. pos[x] \in Nat /\ head <= pos[x] + capacity /\ pos[x] < tail
        BY <1>1, <3>2 DEF IInv, ReceiverAt, TypeOK, Procs
      <4>2. pos[x] # pos[r] BY <1>1, <1>2, <2>2, <3>2 DEF Exclusive, Owns
      <4>3. pos[x] < pos[r] + capacity /\ pos[r] < pos[x] + capacity
        BY <1>1, <1>3, <4>1 DEF Slots, Numbers
      <4> QED BY <1>2, <1>5, <4>1, <4>2, <4>3 DEF Index
    <3> QED BY <3>1, <3>2
  <2> QED BY <2>1, <2>2
<1>9. TakenNow' = TakenNow
  BY <1>8 DEF TakenNow
<1> QED BY <1>2, <1>7, <1>9, AsStutter

\* Laying out a larger ring moves no item in the queue.
LEMMA ExtendStutters ==
    ASSUME IInv, IInv', NobodyHolds, NEW n \in Nat, n > capacity, ExtendRing(n),
           UNCHANGED <<done, item>>, \A p \in Procs : pc'[p] \notin Locked
    PROVE  UNCHANGED Fifo!fifoVars
<1>1. TypeOK /\ Slots /\ Numbers /\ TypeOK' /\ Slots'
  BY NumbersOK DEF IInv
<1>2. /\ capacity' = n
      /\ \A i \in 0..(n - 1) : seqOf'[i] = IF i < head - tail THEN i + 1 ELSE i
      /\ \A i \in 0..(n - 1) : data'[i] = IF i < head - tail THEN data[Index(tail + i)] ELSE NoItem
      /\ head' = head - tail /\ tail' = 0
  BY DEF ExtendRing
<1>3. n >= 2 /\ head - tail \in Nat /\ head - tail <= n
  BY <1>1 DEF Slots, Numbers
<1>4. \A q \in 0..(n - 1) : q % n = q
  BY <1>3, Ring
<1>5. ASSUME NEW k \in 1..(head - tail) PROVE Items'[0 + k - 1] = Items[tail + k - 1]
  <2>1. /\ k - 1 \in 0..(n - 1) /\ k - 1 < head - tail /\ 0 + k - 1 = k - 1
        /\ tail + k - 1 \in tail..(head - 1) /\ tail + k - 1 \in Nat /\ tail + k - 1 = tail + (k - 1)
    BY <1>1, <1>3 DEF Numbers
  <2>2. seqOf[Index(tail + k - 1)] = (tail + k - 1) + 1
    <3>1. \A s \in Senders : ~Owns(s, tail + k - 1)
      BY DEF NobodyHolds, Owns, Locked, Procs
    <3> QED BY <1>1, <2>1, <3>1 DEF Slots
  <2>3. Items[tail + k - 1] = data[Index(tail + k - 1)]
    BY <2>1, <2>2, ItemsWhere
  <2>4. seqOf'[(k - 1) % capacity'] = (k - 1) + 1 /\ data'[(k - 1) % capacity'] = data[Index(tail + (k - 1))]
    BY <1>2, <1>4, <2>1
  <2>5. Items'[k - 1] = data'[(k - 1) % capacity']
    BY <2>1, <2>4, ItemsWhereNext DEF Index
  <2> QED BY <2>1, <2>3, <2>4, <2>5
<1>6. QueueNow' = QueueNow
  <2>1. Numbers' BY <1>1, <1>2, <1>3 DEF Numbers
  <2>2. QueueNow = [k \in 1..(head - tail) |-> Items[tail + k - 1]] BY <1>1, QueueItems
  <2>3. QueueNow' = [k \in 1..(head - tail) |-> Items'[0 + k - 1]]
    <3>1. head' - tail' = head - tail BY <1>2, <1>3
    <3> QED BY <1>2, <2>1, <3>1, QueueItemsNext
  <2> QED BY <1>5, <2>2, <2>3
<1>7. TakenNow' = TakenNow
  <2>1. \A r \in Receivers : pc[r] # "own" /\ pc'[r] # "own"
    BY DEF NobodyHolds, Locked, Procs
  <2> QED BY <2>1 DEF TakenNow
<1> QED BY <1>6, <1>7, AsStutter

\* A step of one process that owns nothing, and holds no item a caller waits for.
LEMMA OthersStutter ==
    ASSUME IInv, IInv', RingStill, UNCHANGED <<data, done>>,
           NEW p \in Procs, pc[p] # "own", pc'[p] # "own",
           p \in Receivers => item'[p] = item[p],
           \A x \in Procs : x # p => Still(x)
    PROVE  UNCHANGED Fifo!fifoVars
<1>1. ASSUME NEW x \in Procs
      PROVE  /\ (pc[x] = "own") => (pc'[x] = "own") /\ pos'[x] = pos[x] /\ item'[x] = item[x]
             /\ (pc'[x] = "own") => (pc[x] = "own")
  <2>1. CASE x = p BY <2>1
  <2>2. CASE x # p BY <2>2 DEF Still
  <2> QED BY <2>1, <2>2
<1>2. QueueNow' = QueueNow
  <2>1. ASSUME NEW s \in Senders, pc[s] = "own"
        PROVE  pc'[s] = "own" /\ pos'[s] = pos[s] /\ item'[s] = item[s]
    <3>1. s \in Procs BY DEF Procs
    <3> QED BY <1>1, <2>1, <3>1
  <2> QED BY <2>1, QueueStill
<1>3. TakenNow' = TakenNow
  <2>1. ASSUME NEW r \in Receivers PROVE (pc'[r] = "own") <=> (pc[r] = "own")
    <3>1. r \in Procs BY DEF Procs
    <3> QED BY <1>1, <3>1
  <2>2. \A r \in Receivers : item'[r] = item[r]
    BY DEF Still, Procs
  <2>3. ASSUME NEW r \in Receivers, pc[r] = "own" PROVE data'[Index(pos[r])'] = data[Index(pos[r])]
    <3>1. r \in Procs BY DEF Procs
    <3>2. pos'[r] = pos[r] BY <1>1, <2>3, <3>1
    <3> QED BY <3>2 DEF RingStill, Index
  <2> QED BY <2>1, <2>2, <2>3, TakenSame
<1> QED BY <1>2, <1>3, AsStutter

\* Every step of a sender is a step of FifoQueue or a stutter.
LEMMA SendRefines ==
    ASSUME IInv, IInv', NEW s \in Senders, SendNext(s)
    PROVE  [Fifo!Next]_(Fifo!fifoVars)
<1>1. TypeOK /\ Numbers /\ s \in Procs /\ s \notin Receivers
  BY QueueAssumption, NumbersOK DEF IInv, Procs
<1>2. CASE ClaimSend(s) /\ head = pos[s] BY <1>2, ClaimSendEnters
<1>3. CASE Publish(s) BY <1>3, PublishStutters
<1>4. CASE Extend(s) /\ ExtendRing(2 * capacity)
  <2>1. 2 * capacity \in Nat /\ 2 * capacity > capacity BY <1>1 DEF Numbers
  <2>2. \A p \in Procs : pc'[p] \notin Locked
    BY <1>1, <1>4 DEF Extend, GoTo, NobodyHolds, Locked, TypeOK
  <2> QED BY <1>4, <2>1, <2>2, ExtendStutters DEF Extend
<1> DEFINE Quiet == /\ RingStill
                    /\ UNCHANGED <<data, done>>
                    /\ pc[s] # "own"
                    /\ pc'[s] # "own"
                    /\ \A x \in Procs : x # s => Still(x)
<1>5. Quiet => UNCHANGED Fifo!fifoVars
  BY <1>1, OthersStutter
<1>6. CASE Send(s)
  <2>1. Quiet BY <1>1, <1>6 DEF Send, GoTo, Still, RingStill, TypeOK, lockVars, slotVars
  <2> QED BY <1>5, <2>1
<1>7. CASE LookSend(s)
  <2>1. Quiet BY <1>1, <1>7 DEF LookSend, GoTo, Still, RingStill, TypeOK, lockVars, slotVars
  <2> QED BY <1>5, <2>1
<1>8. CASE ClaimSend(s) /\ head # pos[s]
  <2>1. Quiet BY <1>1, <1>8 DEF ClaimSend, GoTo, Still, RingStill, TypeOK, lockVars, slotVars
  <2> QED BY <1>5, <2>1
<1>9. CASE SendEnds(s)
  <2>1. Quiet
    BY <1>1, <1>9 DEF SendEnds, Signal, Parked, Return, GoTo, Still, RingStill, TypeOK, lockVars, slotVars
  <2> QED BY <1>5, <2>1
<1>10. CASE Lock(s)
  <2>1. Quiet BY <1>1, <1>10 DEF Lock, GoTo, Still, RingStill, TypeOK, lockVars, slotVars
  <2> QED BY <1>5, <2>1
<1>11. CASE Extend(s) /\ UNCHANGED <<capacity, extended, slotVars, head, tail>>
  <2>1. Quiet BY <1>1, <1>11 DEF Extend, GoTo, Still, RingStill, TypeOK, slotVars
  <2> QED BY <1>5, <2>1
<1>12. CASE ParkSend(s)
  <2>1. Quiet BY <1>1, <1>12 DEF ParkSend, Park, GoTo, Still, RingStill, TypeOK, lockVars, slotVars
  <2> QED BY <1>5, <2>1
<1>13. CASE RetrySend(s)
  <2>1. Quiet BY <1>1, <1>13 DEF RetrySend, GoTo, Still, RingStill, TypeOK, lockVars, slotVars
  <2> QED BY <1>5, <2>1
<1>14. CASE SendFails(s)
  <2>1. Quiet BY <1>1, <1>14 DEF SendFails, Return, GoTo, Still, RingStill, TypeOK, lockVars, slotVars
  <2> QED BY <1>5, <2>1
<1>15. Extend(s) => \/ ExtendRing(2 * capacity)
                    \/ UNCHANGED <<capacity, extended, slotVars, head, tail>>
  BY DEF Extend
<1> HIDE DEF Quiet
<1> QED BY <1>2, <1>3, <1>4, <1>6, <1>7, <1>8, <1>9, <1>10, <1>11, <1>12, <1>13, <1>14, <1>15 DEF SendNext

\* Every step of a receiver is, too.
LEMMA RecvRefines ==
    ASSUME IInv, IInv', NEW r \in Receivers, RecvNext(r)
    PROVE  [Fifo!Next]_(Fifo!fifoVars)
<1>1. TypeOK /\ ReceiverAt(r) /\ r \in Procs /\ r \notin Senders
  BY QueueAssumption DEF IInv, Procs
<1>2. CASE ClaimRecv(r) /\ tail = pos[r] BY <1>2, ClaimRecvTakes
<1>3. CASE Recycle(r) BY <1>3, RecycleStutters
<1>4. CASE RecvEnds(r)
  <2>1. /\ RingStill /\ UNCHANGED <<data, done>>
        /\ pc[r] = "signal" /\ pc'[r] = "idle" /\ item'[r] = NoItem
        /\ \A x \in Procs : x # r => Still(x)
    BY <1>1, <1>4 DEF RecvEnds, Signal, Parked, Return, GoTo, Still, RingStill, TypeOK, lockVars, slotVars
  <2>2. ASSUME NEW x \in Procs, x # r
        PROVE  /\ (pc'[x] = "own") <=> (pc[x] = "own")
               /\ pos'[x] = pos[x] /\ item'[x] = item[x]
    BY <2>1, <2>2 DEF Still
  <2>3. QueueNow' = QueueNow
    <3>1. ASSUME NEW s \in Senders, pc[s] = "own"
          PROVE  pc'[s] = "own" /\ pos'[s] = pos[s] /\ item'[s] = item[s]
      <4>1. s \in Procs /\ s # r BY <1>1 DEF Procs
      <4> QED BY <2>2, <3>1, <4>1
    <3> QED BY <2>1, <3>1, QueueStill
  <2>4. TakenNow' = [TakenNow EXCEPT ![r] = NoItem]
    <3>1. capacity' = capacity /\ data' = data BY <2>1 DEF RingStill
    <3>2. ASSUME NEW x \in Receivers PROVE TakenNow'[x] = [TakenNow EXCEPT ![r] = NoItem][x]
      <4>1. CASE x = r BY <2>1, <4>1 DEF TakenNow
      <4>2. CASE x # r
        <5>1. x \in Procs BY DEF Procs
        <5>2. /\ (pc'[x] = "own") <=> (pc[x] = "own")
              /\ pos'[x] = pos[x] /\ item'[x] = item[x]
          BY <2>2, <4>2, <5>1
        <5> QED BY <3>1, <4>2, <5>2 DEF TakenNow, Index
      <4> QED BY <4>1, <4>2
    <3> QED BY <3>2 DEF TakenNow
  <2>5. CASE TakenNow[r] # NoItem
    BY <2>1, <2>3, <2>4, <2>5, AsReturn
  <2>6. CASE TakenNow[r] = NoItem
    <3>1. TakenNow' = TakenNow BY <2>4, <2>6 DEF TakenNow
    <3> QED BY <2>1, <2>3, <3>1, AsStutter
  <2> QED BY <2>5, <2>6
<1> DEFINE Quiet == /\ RingStill
                    /\ UNCHANGED <<data, done>>
                    /\ pc[r] # "own"
                    /\ pc'[r] # "own"
                    /\ item'[r] = item[r]
                    /\ \A x \in Procs : x # r => Still(x)
<1>5. Quiet => UNCHANGED Fifo!fifoVars
  BY <1>1, OthersStutter
<1>6. CASE Recv(r)
  <2>1. Quiet BY <1>1, <1>6 DEF Recv, GoTo, Still, RingStill, TypeOK, lockVars, slotVars
  <2> QED BY <1>5, <2>1
<1>7. CASE LookRecv(r)
  <2>1. Quiet BY <1>1, <1>7 DEF LookRecv, GoTo, Still, RingStill, TypeOK, lockVars, slotVars
  <2> QED BY <1>5, <2>1
<1>8. CASE ClaimRecv(r) /\ tail # pos[r]
  <2>1. Quiet BY <1>1, <1>8 DEF ClaimRecv, GoTo, Still, RingStill, TypeOK, lockVars, slotVars
  <2> QED BY <1>5, <2>1
<1>9. CASE RecvFails(r)
  <2>1. Quiet
    BY <1>1, <1>9 DEF RecvFails, Return, GoTo, ReceiverAt, Still, RingStill, TypeOK, lockVars, slotVars
  <2> QED BY <1>5, <2>1
<1>10. CASE ParkRecv(r)
  <2>1. Quiet BY <1>1, <1>10 DEF ParkRecv, Park, GoTo, Still, RingStill, TypeOK, lockVars, slotVars
  <2> QED BY <1>5, <2>1
<1> HIDE DEF Quiet
<1> QED BY <1>2, <1>3, <1>4, <1>6, <1>7, <1>8, <1>9, <1>10 DEF RecvNext

\* And every step of the queue.
LEMMA StepRefines ==
    ASSUME IInv, IInv', [Next]_vars
    PROVE  [Fifo!Next]_(Fifo!fifoVars)
<1>1. TypeOK /\ Numbers BY NumbersOK DEF IInv
<1>2. ASSUME NEW p \in Procs, Cancel(p) PROVE UNCHANGED Fifo!fifoVars
  <2>1. RingStill /\ UNCHANGED <<data, done, item>>
    BY <1>2 DEF Cancel, RingStill, lockVars, slotVars
  <2>2. pc[p] # "own" /\ pc'[p] # "own" /\ \A x \in Procs : Still(x)
    BY <1>1, <1>2 DEF Cancel, TypeOK, Still
  <2> QED BY <2>1, <2>2, OthersStutter
<1>3. ASSUME NEW n \in GrowTo, Grow(n) PROVE UNCHANGED Fifo!fifoVars
  <2>1. n \in Nat /\ n > capacity BY <1>1, <1>3, QueueAssumption DEF Grow, Numbers
  <2>2. \A p \in Procs : pc'[p] \notin Locked BY <1>3 DEF Grow, NobodyHolds
  <2> QED BY <1>3, <2>1, <2>2, ExtendStutters DEF Grow
<1>4. CASE Close
  <2>1. RingStill /\ UNCHANGED <<data, item, pos>> /\ done'
    BY <1>4 DEF Close, RingStill, slotVars
  <2>2. \A p \in Procs : pc[p] # "own" /\ pc'[p] # "own"
    BY <1>1, <1>4 DEF Close, NobodyHolds, TypeOK, Locked
  <2>3. QueueNow' = QueueNow
    <3>1. \A s \in Senders : pc[s] # "own" BY <2>2 DEF Procs
    <3> QED BY <2>1, <3>1, QueueStill
  <2>4. TakenNow' = TakenNow
    <3>1. \A r \in Receivers : pc[r] # "own" /\ pc'[r] # "own" BY <2>2 DEF Procs
    <3> QED BY <2>1, <3>1 DEF TakenNow
  <2> QED BY <2>1, <2>3, <2>4, AsShut
<1>5. CASE UNCHANGED vars
  <2>1. RingStill /\ UNCHANGED <<data, done, item, pc, pos>>
    BY <1>5 DEF vars, lockVars, slotVars, RingStill
  <2>2. QueueNow' = QueueNow BY <2>1, QueueStill
  <2>3. TakenNow' = TakenNow BY <2>1 DEF TakenNow, RingStill, Index
  <2> QED BY <2>1, <2>2, <2>3, AsStutter
<1> QED BY <1>2, <1>3, <1>4, <1>5, SendRefines, RecvRefines DEF Next

\* The empty ring is the empty queue.
LEMMA InitRefines == Init => Fifo!Init
<1> SUFFICES ASSUME Init PROVE Fifo!Init OBVIOUS
<1>1. QueueNow = <<>>
  <2>1. 1..(head - tail) = {} BY DEF Init
  <2> QED BY <2>1 DEF QueueNow
<1>2. TakenNow = [r \in Receivers |-> NoItem]
  BY DEF Init, TakenNow, Procs
<1> QED BY <1>1, <1>2 DEF Fifo!Init, QueueNow, TakenNow, Init

\* The ring buffer is a queue: items leave in the order in which their
\* positions were claimed, each to one receiver, and nothing enters a closed
\* queue, for any number of senders and receivers, through every extension.
THEOREM Refines == Spec => FifoKept
<1>1. Init => Fifo!Init BY InitRefines
<1>2. IInv /\ IInv' /\ [Next]_vars => [Fifo!Next]_(Fifo!fifoVars) BY StepRefines
<1> QED BY <1>1, <1>2, Invariant, PTL DEF Spec, FifoKept, Fifo!Spec
=============================================================================
