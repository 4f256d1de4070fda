--------------------------- MODULE RequestPromise ---------------------------
(***************************************************************************)
(* What the API's OpenFGA service promises of every request, whatever      *)
(* OpenFGA and the other clients do: it sends at most two calls, and two   *)
(* more after its one retry, and it ends.                                  *)
(***************************************************************************)
EXTENDS Naturals

CONSTANT Clients

VARIABLES running,   \* per client: whether a request is being served
          retried,   \* per client: whether its one retry has been used
          calls      \* per client: calls its request has sent to OpenFGA

vars == <<running, retried, calls>>

Init ==
    /\ running = [c \in Clients |-> FALSE]
    /\ retried = [c \in Clients |-> FALSE]
    /\ calls = [c \in Clients |-> 0]

Budget(c) == IF retried[c] THEN 4 ELSE 2

Begin(c) ==
    /\ ~running[c]
    /\ running' = [running EXCEPT ![c] = TRUE]
    /\ UNCHANGED <<retried, calls>>

\* Requests that waited together send their calls together.
Call(S) ==
    /\ \A c \in S : running[c] /\ calls[c] < Budget(c)
    /\ calls' = [c \in Clients |-> IF c \in S THEN calls[c] + 1 ELSE calls[c]]
    /\ UNCHANGED <<running, retried>>

Retry(c) ==
    /\ running[c]
    /\ ~retried[c]
    /\ retried' = [retried EXCEPT ![c] = TRUE]
    /\ UNCHANGED <<running, calls>>

\* Answered, failed, or given up by the client.
End(S) ==
    /\ \A c \in S : running[c]
    /\ running' = [c \in Clients |-> running[c] /\ c \notin S]
    /\ retried' = [c \in Clients |-> retried[c] /\ c \notin S]
    /\ calls' = [c \in Clients |-> IF c \in S THEN 0 ELSE calls[c]]

Next ==
    \/ \E c \in Clients : Begin(c) \/ Retry(c)
    \/ \E S \in SUBSET Clients : Call(S) \/ End(S)

SafeSpec == Init /\ [][Next]_vars

Ends(c) == \E S \in SUBSET Clients : c \in S /\ End(S)

Spec == SafeSpec /\ \A c \in Clients : WF_vars(Ends(c))
=============================================================================
