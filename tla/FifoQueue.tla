----------------------------- MODULE FifoQueue -----------------------------
(* What a concurrent queue promises: items leave in the order in which they *)
(* entered, each goes to one receiver, and nothing enters a closed queue.   *)
EXTENDS Sequences

CONSTANTS Items, Receivers, NoItem

VARIABLES queue,    \* the items that entered and were not taken
          taken,    \* per receiver: the item it took and has not returned yet
          closed

fifoVars == <<queue, taken, closed>>

Init ==
    /\ queue = <<>>
    /\ taken = [r \in Receivers |-> NoItem]
    /\ closed = FALSE

Enter(i) ==
    /\ ~closed
    /\ queue' = Append(queue, i)
    /\ UNCHANGED <<taken, closed>>

Take(r) ==
    /\ queue # <<>>
    /\ taken[r] = NoItem
    /\ taken' = [taken EXCEPT ![r] = Head(queue)]
    /\ queue' = Tail(queue)
    /\ UNCHANGED closed

Return(r) ==
    /\ taken[r] # NoItem
    /\ taken' = [taken EXCEPT ![r] = NoItem]
    /\ UNCHANGED <<queue, closed>>

Shut ==
    /\ closed' = TRUE
    /\ UNCHANGED <<queue, taken>>

Next ==
    \/ \E i \in Items : Enter(i)
    \/ \E r \in Receivers : Take(r) \/ Return(r)
    \/ Shut

Spec == Init /\ [][Next]_fifoVars
=============================================================================
