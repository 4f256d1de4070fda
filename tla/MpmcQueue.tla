----------------------------- MODULE MpmcQueue -----------------------------
(***************************************************************************)
(* The bounded ring buffer of OpenFGA's list pipeline (mpmc/queue.go).      *)
(* Senders and receivers claim positions with a compare-and-swap on head    *)
(* and tail under a shared read lock and hand the slots over through their  *)
(* sequence numbers; growing and closing take the write lock.               *)
(*                                                                         *)
(* A step is one atomic access of shared memory.  A section under the write *)
(* lock is one step, since nobody holds the read lock meanwhile.            *)
(***************************************************************************)
EXTENDS Integers

CONSTANTS Senders, Receivers,
          Capacity,      \* the initial capacity
          Extensions,    \* how often a full buffer may double, in one queue or another
          GrowTo,        \* the capacities Grow is called with
          Cancellable,   \* the processes whose context may be cancelled
          MaxSends       \* bound: calls of Send

ASSUME QueueAssumption ==
    /\ Capacity \in Nat /\ Capacity >= 2
    /\ GrowTo \subseteq Nat
    /\ Extensions \subseteq Nat
    /\ MaxSends \in Nat
    /\ Senders \cap Receivers = {}

VARIABLES capacity, extensions, extended, done,
          seqOf,     \* per slot: its sequence number
          data,      \* per slot: its item
          head, tail,
          full,      \* a token waits in the channel that senders park on
          empty,     \* and in the one that receivers park on
          pc, pos,   \* per process: where it is, the position it works on
          snap,      \* per process: the capacity it saw full
          item,      \* per process: the item it sends or has received
          cancelled, \* the processes whose context is cancelled
          sends      \* calls of Send so far: each sends its own number

lockVars == <<capacity, extensions, extended, done>>
slotVars == <<seqOf, data>>
tokenVars == <<full, empty>>
vars == <<lockVars, slotVars, head, tail, tokenVars, pc, pos, snap, item, cancelled, sends>>

Procs == Senders \cup Receivers

\* Between these steps a process holds the read lock.
Locked == {"look", "claim", "own", "signal"}
Steps == Locked \cup {"idle", "extend", "locking", "park", "parked", "retry"}

NoItem == 0

TypeOK ==
    /\ capacity \in Nat /\ capacity >= 2
    /\ extensions \in Extensions
    /\ extended \in Nat
    /\ done \in BOOLEAN
    /\ seqOf \in [0..(capacity - 1) -> Nat]
    /\ data \in [0..(capacity - 1) -> Nat]
    /\ head \in Nat
    /\ tail \in Nat
    /\ full \in BOOLEAN
    /\ empty \in BOOLEAN
    /\ pc \in [Procs -> Steps]
    /\ pos \in [Procs -> Nat]
    /\ snap \in [Procs -> Nat]
    /\ item \in [Procs -> Nat]
    /\ cancelled \in SUBSET Procs
    /\ sends \in Nat

\* mask: with a power of two as capacity, the bitwise and is the remainder.
Index(position) == position % capacity

GoTo(p, step) == pc' = [pc EXCEPT ![p] = step]

\* A writer that waits for the lock lets no more readers in.
Admits == \A p \in Procs : pc[p] # "locking"

\* The call of p returns, and its locals with it.
Return(p) ==
    /\ pos' = [pos EXCEPT ![p] = 0]
    /\ snap' = [snap EXCEPT ![p] = 0]
    /\ item' = [item EXCEPT ![p] = NoItem]
    /\ cancelled' = cancelled \ {p}

(***************************************************************************)
(* Waking.  A channel holds one token: a parked process takes it at once,   *)
(* an empty channel keeps it, a full one drops it.                          *)
(***************************************************************************)
Parked(S) == {p \in S : pc[p] = "parked"}

\* Mutant: a token that nobody waits for is dropped.
SignalParked(p, S, token) ==
    /\ UNCHANGED token
    /\ \/ \E q \in Parked(S) : pc' = [pc EXCEPT ![p] = "idle", ![q] = "retry"]
       \/ Parked(S) = {} /\ GoTo(p, "idle")

Signal(p, S, token) ==
    \/ /\ \E q \in Parked(S) : pc' = [pc EXCEPT ![p] = "idle", ![q] = "retry"]
       /\ UNCHANGED token
    \/ /\ Parked(S) = {}
       /\ token' = TRUE
       /\ GoTo(p, "idle")

\* The token, or a closed channel, lets p through.
Park(p, token) ==
    IF token \/ done
    THEN token' = FALSE /\ GoTo(p, "retry")
    ELSE UNCHANGED token /\ GoTo(p, "parked")

(***************************************************************************)
(* Send.  A closed queue turns the call away before it does anything.       *)
(***************************************************************************)
Send(s) ==
    /\ pc[s] = "idle"
    /\ Admits
    /\ ~done
    /\ sends < MaxSends
    /\ sends' = sends + 1
    /\ item' = [item EXCEPT ![s] = sends + 1]
    /\ pos' = [pos EXCEPT ![s] = head]
    /\ GoTo(s, "look")
    /\ UNCHANGED <<lockVars, slotVars, head, tail, tokenVars, snap, cancelled>>

\* The slot is writable, or another sender took it, or no receiver recycled
\* it yet: then the buffer is full.
LookSend(s) ==
    /\ pc[s] = "look"
    /\ s \notin cancelled
    /\ LET diff == seqOf[Index(pos[s])] - pos[s] IN
       \/ diff = 0 /\ GoTo(s, "claim") /\ UNCHANGED <<pos, snap>>
       \/ diff > 0 /\ pos' = [pos EXCEPT ![s] = head] /\ UNCHANGED <<pc, snap>>
       \/ /\ diff < 0
          /\ GoTo(s, IF extended < extensions THEN "extend" ELSE "park")
          /\ snap' = [snap EXCEPT ![s] = IF extended < extensions THEN capacity ELSE 0]
          /\ UNCHANGED pos
    /\ UNCHANGED <<lockVars, slotVars, head, tail, tokenVars, item, cancelled, sends>>

\* Who loses the race looks again.
ClaimSend(s) ==
    /\ pc[s] = "claim"
    /\ \/ head = pos[s] /\ head' = head + 1 /\ GoTo(s, "own")
       \/ head # pos[s] /\ UNCHANGED head /\ GoTo(s, "look")
    /\ UNCHANGED <<lockVars, slotVars, tail, tokenVars, pos, snap, item, cancelled, sends>>

Publish(s) ==
    /\ pc[s] = "own"
    /\ data' = [data EXCEPT ![Index(pos[s])] = item[s]]
    /\ seqOf' = [seqOf EXCEPT ![Index(pos[s])] = pos[s] + 1]
    /\ GoTo(s, "signal")
    /\ UNCHANGED <<lockVars, head, tail, tokenVars, pos, snap, item, cancelled, sends>>

SendEnds(s) ==
    /\ pc[s] = "signal"
    /\ Signal(s, Receivers, empty)
    /\ Return(s)
    /\ UNCHANGED <<lockVars, slotVars, head, tail, full, sends>>

\* Mutant: the new length is not recorded.
ExtendUnrecorded(n) ==
    /\ seqOf' = [i \in 0..(n - 1) |-> IF i < head - tail THEN i + 1 ELSE i]
    /\ data' = [i \in 0..(n - 1) |-> IF i < head - tail THEN data[Index(tail + i)] ELSE NoItem]
    /\ capacity' = capacity
    /\ extended' = extended + 1
    /\ head' = head - tail
    /\ tail' = 0

\* The ring is laid out anew from its tail, and positions start from zero.
ExtendRing(n) ==
    /\ seqOf' = [i \in 0..(n - 1) |-> IF i < head - tail THEN i + 1 ELSE i]
    /\ data' = [i \in 0..(n - 1) |-> IF i < head - tail THEN data[Index(tail + i)] ELSE NoItem]
    /\ capacity' = n
    /\ extended' = extended + 1
    /\ head' = head - tail
    /\ tail' = 0

NobodyHolds == \A p \in Procs : pc[p] \notin Locked

Lock(s) ==
    /\ pc[s] = "extend"
    /\ GoTo(s, "locking")
    /\ UNCHANGED <<lockVars, slotVars, head, tail, tokenVars, pos, snap, item, cancelled, sends>>

\* Another sender may have grown the buffer first.
Extend(s) ==
    /\ pc[s] = "locking"
    /\ NobodyHolds
    /\ IF capacity = snap[s] /\ ~done /\ s \notin cancelled
       THEN ExtendRing(2 * capacity)
       ELSE UNCHANGED <<capacity, extended, slotVars, head, tail>>
    /\ GoTo(s, "retry")
    /\ UNCHANGED <<extensions, done, tokenVars, pos, snap, item, cancelled, sends>>

ParkSend(s) ==
    /\ pc[s] = "park"
    /\ Park(s, full)
    /\ UNCHANGED <<lockVars, slotVars, head, tail, empty, pos, snap, item, cancelled, sends>>

RetrySend(s) ==
    /\ pc[s] = "retry"
    /\ Admits
    /\ ~done
    /\ pos' = [pos EXCEPT ![s] = head]
    /\ GoTo(s, "look")
    /\ UNCHANGED <<lockVars, slotVars, head, tail, tokenVars, snap, item, cancelled, sends>>

\* False: the queue was closed, or the context cancelled.
SendFails(s) ==
    /\ \/ pc[s] = "retry" /\ Admits /\ done
       \/ pc[s] = "look" /\ s \in cancelled
    /\ GoTo(s, "idle")
    /\ Return(s)
    /\ UNCHANGED <<lockVars, slotVars, head, tail, tokenVars, sends>>

(***************************************************************************)
(* Recv.                                                                    *)
(***************************************************************************)
Recv(r) ==
    /\ pc[r] \in {"idle", "retry"}
    /\ Admits
    /\ pos' = [pos EXCEPT ![r] = tail]
    /\ GoTo(r, "look")
    /\ UNCHANGED <<lockVars, slotVars, head, tail, tokenVars, snap, item, cancelled, sends>>

\* The slot is readable, or another receiver took it, or it is not written.
LookRecv(r) ==
    /\ pc[r] = "look"
    /\ LET diff == seqOf[Index(pos[r])] - (pos[r] + 1) IN
       \/ diff = 0 /\ GoTo(r, "claim") /\ UNCHANGED pos
       \/ diff > 0 /\ pos' = [pos EXCEPT ![r] = tail] /\ UNCHANGED pc
       \/ diff < 0 /\ ~done /\ r \notin cancelled /\ GoTo(r, "park") /\ UNCHANGED pos
    /\ UNCHANGED <<lockVars, slotVars, head, tail, tokenVars, snap, item, cancelled, sends>>

\* Mutant: a closed queue is left without a look.
RecvFailsEarly(r) ==
    /\ pc[r] = "look"
    /\ done \/ r \in cancelled
    /\ GoTo(r, "idle")
    /\ Return(r)
    /\ UNCHANGED <<lockVars, slotVars, head, tail, tokenVars, sends>>

\* False: nothing to read, and the queue was closed or the context cancelled.
RecvFails(r) ==
    /\ pc[r] = "look"
    /\ seqOf[Index(pos[r])] < pos[r] + 1
    /\ done \/ r \in cancelled
    /\ GoTo(r, "idle")
    /\ Return(r)
    /\ UNCHANGED <<lockVars, slotVars, head, tail, tokenVars, sends>>

ClaimRecv(r) ==
    /\ pc[r] = "claim"
    /\ \/ tail = pos[r] /\ tail' = tail + 1 /\ GoTo(r, "own")
       \/ tail # pos[r] /\ UNCHANGED tail /\ GoTo(r, "look")
    /\ UNCHANGED <<lockVars, slotVars, head, tokenVars, pos, snap, item, cancelled, sends>>

\* Mutant: the slot is handed back before its item is read out.
RecycleFirst(r) ==
    /\ pc[r] = "own"
    /\ item[r] = NoItem \/ seqOf[Index(pos[r])] = pos[r] + 1
    /\ IF seqOf[Index(pos[r])] = pos[r] + 1
       THEN /\ seqOf' = [seqOf EXCEPT ![Index(pos[r])] = pos[r] + capacity]
            /\ UNCHANGED <<data, item, pc>>
       ELSE /\ item' = [item EXCEPT ![r] = data[Index(pos[r])]]
            /\ GoTo(r, "signal")
            /\ UNCHANGED slotVars
    /\ UNCHANGED <<lockVars, head, tail, tokenVars, pos, snap, cancelled, sends>>

\* The item is read out, the slot cleared, and writable one lap later.
Recycle(r) ==
    /\ pc[r] = "own"
    /\ item' = [item EXCEPT ![r] = data[Index(pos[r])]]
    /\ data' = [data EXCEPT ![Index(pos[r])] = NoItem]
    /\ seqOf' = [seqOf EXCEPT ![Index(pos[r])] = pos[r] + capacity]
    /\ GoTo(r, "signal")
    /\ UNCHANGED <<lockVars, head, tail, tokenVars, pos, snap, cancelled, sends>>

\* A closed channel gets no token.
RecvEnds(r) ==
    /\ pc[r] = "signal"
    /\ IF done THEN GoTo(r, "idle") /\ UNCHANGED full ELSE Signal(r, Senders, full)
    /\ Return(r)
    /\ UNCHANGED <<lockVars, slotVars, head, tail, empty, sends>>

ParkRecv(r) ==
    /\ pc[r] = "park"
    /\ Park(r, empty)
    /\ UNCHANGED <<lockVars, slotVars, head, tail, full, pos, snap, item, cancelled, sends>>

(***************************************************************************)
(* Contexts, Grow and Close.                                                *)
(***************************************************************************)
\* A context matters where it is looked at: earlier or later makes no difference.
Cancel(p) ==
    /\ p \in Cancellable
    /\ pc[p] \in {"look", "parked"}
    /\ cancelled' = cancelled \cup {p}
    /\ pc' = IF pc[p] = "parked" THEN [pc EXCEPT ![p] = "retry"] ELSE pc
    /\ UNCHANGED <<lockVars, slotVars, head, tail, tokenVars, pos, snap, item, sends>>

Grow(n) ==
    /\ NobodyHolds
    /\ capacity < n
    /\ ExtendRing(n)
    /\ UNCHANGED <<extensions, done, tokenVars, pc, pos, snap, item, cancelled, sends>>

Close ==
    /\ NobodyHolds
    /\ ~done
    /\ done' = TRUE
    /\ pc' = [p \in Procs |-> IF pc[p] = "parked" THEN "retry" ELSE pc[p]]
    /\ UNCHANGED <<capacity, extensions, extended, slotVars, head, tail, tokenVars, pos, snap, item, cancelled, sends>>

Init ==
    /\ capacity = Capacity
    /\ extensions \in Extensions
    /\ extended = 0
    /\ done = FALSE
    /\ seqOf = [i \in 0..(Capacity - 1) |-> i]
    /\ data = [i \in 0..(Capacity - 1) |-> NoItem]
    /\ head = 0
    /\ tail = 0
    /\ full = FALSE
    /\ empty = FALSE
    /\ pc = [p \in Procs |-> "idle"]
    /\ pos = [p \in Procs |-> 0]
    /\ snap = [p \in Procs |-> 0]
    /\ item = [p \in Procs |-> NoItem]
    /\ cancelled = {}
    /\ sends = 0

SendNext(s) ==
    \/ Send(s) \/ LookSend(s) \/ ClaimSend(s) \/ Publish(s) \/ SendEnds(s)
    \/ Lock(s) \/ Extend(s) \/ ParkSend(s) \/ RetrySend(s) \/ SendFails(s)

RecvNext(r) ==
    \/ Recv(r) \/ LookRecv(r) \/ ClaimRecv(r) \/ Recycle(r) \/ RecvEnds(r)
    \/ RecvFails(r) \/ ParkRecv(r)

Next ==
    \/ \E s \in Senders : SendNext(s)
    \/ \E r \in Receivers : RecvNext(r)
    \/ \E p \in Procs : Cancel(p)
    \/ \E n \in GrowTo : Grow(n)
    \/ Close

Spec == Init /\ [][Next]_vars

(***************************************************************************)
(* Properties                                                               *)
(***************************************************************************)

\* Who works on a slot: the sender or receiver that claimed its position.
Writer(position) == CHOOSE s \in Senders : pc[s] = "own" /\ pos[s] = position

\* The item at a claimed position: in its slot once published, until then
\* still with the sender that claimed it.
ItemAt(position) ==
    IF seqOf[Index(position)] = position + 1 THEN data[Index(position)] ELSE item[Writer(position)]

\* Items leave in the order in which their positions were claimed, each to
\* one receiver, whatever races, extensions and laps happen in between
\* (queue.go:27-41).
Fifo == INSTANCE FifoQueue WITH
    queue  <- [k \in 1..(head - tail) |-> ItemAt(tail + k - 1)],
    taken  <- [r \in Receivers |-> IF pc[r] = "own" THEN data[Index(pos[r])] ELSE item[r]],
    closed <- done,
    Items  <- 1..MaxSends

FifoKept == Fifo!Spec

\* Items sent before Close are drained: a Recv whose context lives returns
\* false only on a closed queue that is empty for good (queue.go:39-41).
DrainedFirst ==
    [][ \A r \in Receivers : pc[r] = "look" /\ pc'[r] = "idle" /\ r \notin cancelled
            => done /\ head = tail ]_vars

\* Senders and receivers never all wait for each other: once nobody is in the
\* middle of a call, a Send is blocked only while some receiver is not, whose
\* next Recv wakes it (queue.go:203-206).
NobodyStuck ==
    (\A p \in Procs : pc[p] \in {"idle", "parked"}) /\ Parked(Senders) # {}
        => Parked(Receivers) # Receivers
=============================================================================
