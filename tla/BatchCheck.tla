----------------------------- MODULE BatchCheck -----------------------------
(***************************************************************************)
(* POST /batch-check from the caller's list to the answers in its order.    *)
(* OpenFGA evaluates each distinct check of a batch once, all of them at    *)
(* the same time while tuples change, and replies with a map of correlation *)
(* ids in whatever order it comes out; the API matches it to the request.   *)
(*                                                                         *)
(* A batch holds no more items than the SDK sends in one call and OpenFGA   *)
(* evaluates at once (50, as the API's own limit), so it is one call whose  *)
(* tasks need not wait for each other.                                      *)
(***************************************************************************)
EXTENDS Integers, Sequences, Functions

CONSTANTS Ids,       \* correlation ids
          Checks,    \* what an item asks: user, relation and object
          MaxItems   \* bound: items of a batch (50 in the code)

ASSUME BatchAssumption == MaxItems \in Nat

VARIABLES batch,       \* the items in the caller's order
          phase,
          current,     \* per check: the decisions OpenFGA may give it now, by
                       \* the tuples as they are or from its cache
          held,        \* per check: those it might give since the call was sent
          cancelled,   \* the context of the call ended at OpenFGA
          task,        \* per check: where its evaluation is, or its outcome
          reply,       \* the results in the order the SDK hands them over
          answer       \* the items of the API's answer

vars == <<batch, phase, current, held, cancelled, task, reply, answer>>

Item == [id : Ids, check : Checks]
Decisions == {"allowed", "denied"}
Outcomes == Decisions \cup {"failed"}
Result == [id : Ids, outcome : Outcomes]

TypeOK ==
    /\ batch \in Seq(Item)
    /\ phase \in {"idle", "refused", "called", "replied", "answered"}
    /\ current \in [Checks -> (SUBSET Decisions) \ {{}}]
    /\ held \in [Checks -> SUBSET Decisions]
    /\ cancelled \in BOOLEAN
    /\ task \in [Checks -> Outcomes \cup {"none", "waiting", "running"}]
    /\ reply \in Seq(Result)
    /\ answer \in Seq(Result)

\* BatchCheckInput: 1 to MaxItems items, no id twice.
Accepted(b) ==
    /\ Len(b) \in 1..MaxItems
    /\ \A i, j \in 1..Len(b) : b[i].id = b[j].id => i = j

\* The distinct checks of a batch, and the ids that wait for one of them.
Keys(b) == {b[i].check : i \in 1..Len(b)}

\* Mutant: a check that was seen before keeps its first id only.
FirstIdOf(b, k) ==
    {b[i].id : i \in {i \in 1..Len(b) : b[i].check = k /\ \A j \in 1..(i - 1) : b[j].check # k}}

IdsOf(b, k) == {b[i].id : i \in {i \in 1..Len(b) : b[i].check = k}}

\* The call starts, or starts over, with one task per distinct check.
Call(b) ==
    /\ phase' = "called"
    /\ task' = [k \in Checks |-> IF k \in Keys(b) THEN "waiting" ELSE "none"]
    /\ held' = current
    /\ cancelled' = FALSE

(***************************************************************************)
(* The API                                                                  *)
(***************************************************************************)
\* OpenFGA repeats the checks of Accepted and finds nothing more to refuse.
Request(b) ==
    /\ phase = "idle"
    /\ batch' = b
    /\ IF Accepted(b)
       THEN Call(b)
       ELSE phase' = "refused" /\ UNCHANGED <<task, held, cancelled>>
    /\ UNCHANGED <<current, reply, answer>>

\* The call failed in passing, or its target was gone: the client repeats it whole.
Repeat ==
    /\ phase = "called"
    /\ Call(batch)
    /\ UNCHANGED <<batch, current, reply, answer>>

\* Answered, refused, failed for good, or the caller left.
End ==
    /\ phase # "idle"
    /\ phase' = "idle"
    /\ batch' = <<>>
    /\ reply' = <<>>
    /\ answer' = <<>>
    /\ task' = [k \in Checks |-> "none"]
    /\ held' = [k \in Checks |-> {}]
    /\ cancelled' = FALSE
    /\ UNCHANGED current

\* Mutant: results are matched to items by their place in the list.
MatchByPlace ==
    /\ phase = "replied"
    /\ phase' = "answered"
    /\ answer' = [i \in 1..Len(batch) |->
           [id |-> batch[i].id, outcome |-> IF i <= Len(reply) THEN reply[i].outcome ELSE "failed"]]
    /\ UNCHANGED <<batch, current, held, cancelled, task, reply>>

\* The answers in the order of the request; one without a result is an error.
ReplyTo(id) == {i \in 1..Len(reply) : reply[i].id = id}

Match ==
    /\ phase = "replied"
    /\ phase' = "answered"
    /\ answer' = [i \in 1..Len(batch) |->
           [id |-> batch[i].id,
            outcome |-> IF ReplyTo(batch[i].id) = {} THEN "failed"
                        ELSE reply[CHOOSE j \in ReplyTo(batch[i].id) : TRUE].outcome]]
    /\ UNCHANGED <<batch, current, held, cancelled, task, reply>>

(***************************************************************************)
(* OpenFGA                                                                  *)
(***************************************************************************)
Start(k) ==
    /\ phase = "called"
    /\ task[k] = "waiting"
    /\ ~cancelled
    /\ task' = [task EXCEPT ![k] = "running"]
    /\ UNCHANGED <<batch, phase, current, held, cancelled, reply, answer>>

\* Mutant: a task that finds its context ended leaves no outcome.
SkipSilently(k) ==
    /\ phase = "called"
    /\ task[k] = "waiting"
    /\ cancelled
    /\ task' = [task EXCEPT ![k] = "none"]
    /\ UNCHANGED <<batch, phase, current, held, cancelled, reply, answer>>

Skip(k) ==
    /\ phase = "called"
    /\ task[k] = "waiting"
    /\ cancelled
    /\ task' = [task EXCEPT ![k] = "failed"]
    /\ UNCHANGED <<batch, phase, current, held, cancelled, reply, answer>>

\* The check gets a decision, or its evaluation fails.
Evaluate(k) ==
    /\ phase = "called"
    /\ task[k] = "running"
    /\ \E outcome \in current[k] \cup {"failed"} : task' = [task EXCEPT ![k] = outcome]
    /\ UNCHANGED <<batch, phase, current, held, cancelled, reply, answer>>

Cancel ==
    /\ phase = "called"
    /\ ~cancelled
    /\ cancelled' = TRUE
    /\ UNCHANGED <<batch, phase, current, held, task, reply, answer>>

\* Every id gets the outcome of its check.
Results == UNION {{[id |-> id, outcome |-> task[k]] : id \in IdsOf(batch, k)} : k \in Keys(batch)}

\* All tasks have ended.  A map has no order: the results come in any.
Collect ==
    /\ phase = "called"
    /\ \A k \in Checks : task[k] \notin {"waiting", "running"}
    /\ \E n \in 0..Len(batch) : reply' \in Bijection(1..n, Results)
    /\ phase' = "replied"
    /\ UNCHANGED <<batch, current, held, cancelled, task, answer>>

\* Somebody writes or deletes a tuple the check depends on.
Write(k) ==
    /\ \E d \in Decisions \ current[k] :
        /\ current' = [current EXCEPT ![k] = @ \cup {d}]
        /\ held' = IF phase = "called" THEN [held EXCEPT ![k] = @ \cup {d}] ELSE held
    /\ UNCHANGED <<batch, phase, cancelled, task, reply, answer>>

\* The cache no longer has the decision from before a write.
Expire(k) ==
    /\ \E d \in Decisions : current[k] = Decisions /\ current' = [current EXCEPT ![k] = {d}]
    /\ UNCHANGED <<batch, phase, held, cancelled, task, reply, answer>>

Init ==
    /\ batch = <<>>
    /\ phase = "idle"
    /\ current \in [Checks -> {{d} : d \in Decisions}]
    /\ held = [k \in Checks |-> {}]
    /\ cancelled = FALSE
    /\ task = [k \in Checks |-> "none"]
    /\ reply = <<>>
    /\ answer = <<>>

\* A caller may send one item too many.
Batches == UNION {[1..n -> Item] : n \in 0..(MaxItems + 1)}

Next ==
    \/ \E b \in Batches : Request(b)
    \/ Repeat \/ End \/ Match \/ Cancel \/ Collect
    \/ \E k \in Checks : Start(k) \/ Skip(k) \/ Evaluate(k) \/ Write(k) \/ Expire(k)

Spec == Init /\ [][Next]_vars

(***************************************************************************)
(* Properties                                                               *)
(***************************************************************************)

\* The answers stand in the caller's order, and each is about its own check:
\* a decision OpenFGA gave such a check while the call ran, or an error, and
\* that only if its evaluation failed.  Neither the order of the reply, nor a
\* check that two items share, nor tuples written meanwhile give one item the
\* decision of another, or a failure the look of a denial (openfga.ts:208-231,
\* README.md:247).
AnswersItsOwn ==
    phase = "answered" =>
        /\ Len(answer) = Len(batch)
        /\ \A i \in 1..Len(batch) :
            LET outcome == answer[i].outcome  check == batch[i].check IN
            /\ answer[i].id = batch[i].id
            /\ outcome = "failed" => task[check] = "failed"
            /\ outcome # "failed" => outcome \in held[check]

\* When the outcomes are handed out, every check of the batch has one, also
\* those a cancelled context kept from running: OpenFGA takes each as given
\* (batch_check_command.go:189-197).
OutcomeForEvery ==
    phase \in {"replied", "answered"} => \A k \in Keys(batch) : task[k] \in Outcomes
=============================================================================
