-------------------------- MODULE BatchCheckProofs --------------------------
(***************************************************************************)
(* The properties of BatchCheck for every set of ids and checks and every   *)
(* size of a batch.                                                         *)
(***************************************************************************)
EXTENDS BatchCheck, SequenceTheorems, TLAPS

Sent == phase \in {"called", "replied", "answered"}

\* What was sent passed the API's own checks, and each of its checks has a
\* task whose decision, once made, is one that was held.
TasksSound ==
    Sent => /\ Accepted(batch)
            /\ \A k \in Keys(batch) : task[k] # "none"
            /\ \A k \in Checks : task[k] \in Decisions => task[k] \in held[k]
            /\ phase = "called" => \A k \in Checks : current[k] \subseteq held[k]

\* The reply names every id of the batch, with the outcome of its check.
ReplySound ==
    phase \in {"replied", "answered"} =>
        /\ \A k \in Keys(batch) : task[k] \in Outcomes
        /\ \A i \in 1..Len(batch) : ReplyTo(batch[i].id) # {}
        /\ \A i \in 1..Len(batch) : \A j \in ReplyTo(batch[i].id) :
               reply[j].outcome = task[batch[i].check]

IInv == TypeOK /\ TasksSound /\ ReplySound /\ AnswersItsOwn

LEMMA BatchesAreSequences == Batches \subseteq Seq(Item)
BY SeqDef, BatchAssumption DEF Batches

\* The items of a batch, and what they ask.
LEMMA ItemsOf ==
    ASSUME NEW b \in Seq(Item)
    PROVE /\ \A i \in 1..Len(b) : b[i] \in Item /\ b[i].id \in Ids /\ b[i].check \in Checks
          /\ Keys(b) \subseteq Checks
<1>1. \A i \in 1..Len(b) : b[i] \in Item OBVIOUS
<1>2. \A x \in Item : x.id \in Ids /\ x.check \in Checks BY DEF Item
<1>3. \A i \in 1..Len(b) : b[i].check \in Checks BY <1>1, <1>2
<1>4. Keys(b) \subseteq Checks BY ONLY <1>3 DEF Keys
<1> QED BY <1>1, <1>2, <1>4

LEMMA InitIInv == Init => IInv
<1> SUFFICES ASSUME Init PROVE IInv OBVIOUS
<1>1. TypeOK
  <2>1. <<>> \in Seq(Item) /\ <<>> \in Seq(Result) OBVIOUS
  <2>2. held \in [Checks -> SUBSET Decisions] BY DEF Init
  <2>3. task \in [Checks -> Outcomes \cup {"none", "waiting", "running"}] BY DEF Init
  <2>4. current \in [Checks -> (SUBSET Decisions) \ {{}}]
    <3>1. {{d} : d \in Decisions} \subseteq (SUBSET Decisions) \ {{}} OBVIOUS
    <3> QED BY <3>1 DEF Init
  <2> QED BY <2>1, <2>2, <2>3, <2>4 DEF Init, TypeOK
<1>2. TasksSound /\ ReplySound /\ AnswersItsOwn
  BY DEF Init, TasksSound, ReplySound, AnswersItsOwn, Sent
<1> QED BY <1>1, <1>2 DEF IInv

\* A call that starts is sound, whatever came before it.
LEMMA CallIInv ==
    ASSUME TypeOK, NEW b \in Seq(Item), Accepted(b), Call(b), batch' = b,
           UNCHANGED <<current, reply, answer>>
    PROVE IInv'
<1>1. TypeOK' BY DEF TypeOK, Call
<1>2. TasksSound'
  <2>1. \A k \in Checks : task'[k] \notin Decisions BY DEF Call, Decisions
  <2>2. \A k \in Keys(b) : k \in Checks /\ task'[k] # "none"
    BY ItemsOf DEF Call
  <2>3. held' = current BY DEF Call
  <2> QED BY <2>1, <2>2, <2>3 DEF TasksSound, Call, Accepted, Keys
<1>3. ReplySound' /\ AnswersItsOwn' BY DEF ReplySound, AnswersItsOwn, Call
<1> QED BY <1>1, <1>2, <1>3 DEF IInv

\* A step of a task: it keeps to what was held, and a check keeps its task.
LEMMA TaskIInv ==
    ASSUME IInv, phase = "called", NEW k \in Checks, NEW s \in Outcomes \cup {"running"},
           s \in Decisions => s \in current[k], task' = [task EXCEPT ![k] = s],
           UNCHANGED <<batch, phase, current, held, cancelled, reply, answer>>
    PROVE IInv'
<1>1. TypeOK' BY DEF IInv, TypeOK
<1>2. TasksSound'
  <2>1. Keys(batch) \subseteq Checks BY ItemsOf DEF IInv, TypeOK
  <2>2. s # "none" BY DEF Outcomes, Decisions
  <2>3. \A x \in Checks : task'[x] = IF x = k THEN s ELSE task[x] BY DEF IInv, TypeOK
  <2> QED BY <2>1, <2>2, <2>3 DEF IInv, TasksSound, Sent, Accepted, Keys
<1>3. ReplySound' /\ AnswersItsOwn' BY DEF ReplySound, AnswersItsOwn
<1> QED BY <1>1, <1>2, <1>3 DEF IInv

\* Collecting gives every id the outcome of its check, and no other.
LEMMA CollectIInv == ASSUME IInv, Collect PROVE IInv'
<1>1. PICK n \in 0..Len(batch) : reply' \in Bijection(1..n, Results)
  BY DEF Collect
<1>2. /\ reply' \in [1..n -> Results]
      /\ \A r \in Results : \E j \in 1..n : reply'[j] = r
  BY <1>1 DEF Bijection, Injection, Surjection
<1>3. batch \in Seq(Item) /\ n \in Nat BY <1>1 DEF IInv, TypeOK
<1>4. Accepted(batch) BY DEF IInv, TasksSound, Sent, Collect
<1>5. Keys(batch) \subseteq Checks BY <1>3, ItemsOf
<1>6. \A k \in Keys(batch) : task[k] \in Outcomes
  BY <1>5 DEF IInv, TypeOK, TasksSound, Sent, Collect
<1> DEFINE ResultOf(i) == [id |-> batch[i].id, outcome |-> task[batch[i].check]]
<1>7. ASSUME NEW r \in Results
      PROVE r \in Result /\ \E i \in 1..Len(batch) : r = ResultOf(i)
  <2>1. PICK k \in Keys(batch) : r \in {[id |-> id, outcome |-> task[k]] : id \in IdsOf(batch, k)}
    BY DEF Results
  <2>2. PICK id \in IdsOf(batch, k) : r = [id |-> id, outcome |-> task[k]] BY <2>1
  <2>3. PICK i \in 1..Len(batch) : batch[i].check = k /\ id = batch[i].id BY DEF IdsOf
  <2>4. r = ResultOf(i) BY <2>2, <2>3
  <2>5. id \in Ids /\ task[k] \in Outcomes BY <2>3, <1>3, <1>6, ItemsOf
  <2> QED BY <2>2, <2>4, <2>5 DEF Result
<1>8. ASSUME NEW i \in 1..Len(batch) PROVE ResultOf(i) \in Results
  <2> DEFINE k == batch[i].check
  <2>1. k \in Keys(batch) BY DEF Keys
  <2>2. batch[i].id \in IdsOf(batch, k) BY DEF IdsOf
  <2> HIDE DEF k
  <2>3. [id |-> batch[i].id, outcome |-> task[k]] \in Results BY <2>1, <2>2 DEF Results
  <2> QED BY <2>3 DEF k
<1>9. reply' \in Seq(Result) /\ Len(reply') = n
  <2>1. reply' \in [1..n -> Result] BY <1>2, <1>7
  <2> QED BY <2>1, <1>3, SeqDef
<1>10. TypeOK' BY <1>9 DEF IInv, TypeOK, Collect
<1>11. TasksSound' BY <1>4 DEF IInv, TasksSound, Sent, Collect, Accepted, Keys
<1>12. ReplySound'
  <2>1. \A k \in Keys(batch) : task[k] \in Outcomes BY <1>6
  <2>2. ASSUME NEW i \in 1..Len(batch)
        PROVE \E j \in 1..n : reply'[j].id = batch[i].id
    <3>1. PICK j \in 1..n : reply'[j] = ResultOf(i) BY <1>2, <1>8
    <3> QED BY <3>1
  <2>3. ASSUME NEW i \in 1..Len(batch), NEW j \in 1..n, reply'[j].id = batch[i].id
        PROVE reply'[j].outcome = task[batch[i].check]
    <3>1. PICK x \in 1..Len(batch) :
              reply'[j] = [id |-> batch[x].id, outcome |-> task[batch[x].check]]
      BY <1>2, <1>7
    <3>2. x = i BY <3>1, <2>3, <1>4 DEF Accepted
    <3> QED BY <3>1, <3>2
  <2> QED BY <2>1, <2>2, <2>3, <1>9 DEF ReplySound, ReplyTo, Collect, Keys
<1>13. AnswersItsOwn' BY DEF AnswersItsOwn, Collect
<1> QED BY <1>10, <1>11, <1>12, <1>13 DEF IInv

\* Matching picks, for each item, the outcome of its own check.
LEMMA MatchIInv == ASSUME IInv, Match PROVE IInv'
<1> DEFINE outcome(i) == IF ReplyTo(batch[i].id) = {} THEN "failed"
                         ELSE reply[CHOOSE j \in ReplyTo(batch[i].id) : TRUE].outcome
<1>1. batch \in Seq(Item) /\ Len(batch) \in Nat BY DEF IInv, TypeOK
<1>2. ASSUME NEW i \in 1..Len(batch) PROVE outcome(i) = task[batch[i].check]
  <2>1. ReplyTo(batch[i].id) # {} BY DEF IInv, ReplySound, Match
  <2>2. (CHOOSE j \in ReplyTo(batch[i].id) : TRUE) \in ReplyTo(batch[i].id) BY <2>1
  <2> QED BY <2>1, <2>2 DEF IInv, ReplySound, Match
<1>3. \A i \in 1..Len(batch) : batch[i] \in Item /\ batch[i].check \in Keys(batch)
  BY <1>1 DEF Keys
<1>4. \A i \in 1..Len(batch) : task[batch[i].check] \in Outcomes
  BY <1>3 DEF IInv, ReplySound, Match
<1>5. answer' = [i \in 1..Len(batch) |-> [id |-> batch[i].id, outcome |-> task[batch[i].check]]]
  BY <1>2 DEF Match
<1>6. answer' \in Seq(Result) /\ Len(answer') = Len(batch)
  <2>1. answer' \in [1..Len(batch) -> Result] BY <1>3, <1>4, <1>5 DEF Result, Item
  <2> QED BY <2>1, <1>1, SeqDef
<1>7. TypeOK' BY <1>6 DEF IInv, TypeOK, Match
<1>8. TasksSound' BY DEF IInv, TasksSound, Sent, Match, Accepted, Keys
<1>9. ReplySound' BY DEF IInv, ReplySound, ReplyTo, Match, Keys
<1>10. AnswersItsOwn'
  <2>1. ASSUME NEW i \in 1..Len(batch)
        PROVE LET o == answer'[i].outcome  check == batch[i].check IN
              /\ answer'[i].id = batch[i].id
              /\ o = "failed" => task[check] = "failed"
              /\ o # "failed" => o \in held[check]
    <3>1. batch[i].check \in Checks BY <1>3 DEF Item
    <3>2. answer'[i].id = batch[i].id /\ answer'[i].outcome = task[batch[i].check] BY <1>5
    <3>3. task[batch[i].check] # "failed" => task[batch[i].check] \in held[batch[i].check]
      BY <3>1, <1>4 DEF IInv, TasksSound, Sent, Match, Outcomes
    <3> QED BY <3>2, <3>3
  <2> QED BY <2>1, <1>6 DEF AnswersItsOwn, Match
<1> QED BY <1>7, <1>8, <1>9, <1>10 DEF IInv

LEMMA NextIInv == IInv /\ [Next]_vars => IInv'
<1> SUFFICES ASSUME IInv, [Next]_vars PROVE IInv' OBVIOUS
<1>1. ASSUME NEW b \in Batches, Request(b) PROVE IInv'
  <2>1. b \in Seq(Item) BY BatchesAreSequences
  <2>2. CASE Accepted(b) BY <1>1, <2>1, <2>2, CallIInv DEF Request, IInv
  <2>3. CASE ~Accepted(b)
    <3>1. TypeOK' BY <1>1, <2>1, <2>3 DEF Request, IInv, TypeOK
    <3> QED BY <1>1, <2>3, <3>1
        DEF Request, IInv, TasksSound, ReplySound, AnswersItsOwn, Sent
  <2> QED BY <2>2, <2>3
<1>2. ASSUME Repeat PROVE IInv'
  BY <1>2, CallIInv DEF Repeat, IInv, TypeOK, TasksSound, Sent
<1>3. ASSUME End PROVE IInv'
  <2>1. <<>> \in Seq(Item) /\ <<>> \in Seq(Result) OBVIOUS
  <2>2. held' \in [Checks -> SUBSET Decisions] BY <1>3 DEF End
  <2>3. task' \in [Checks -> Outcomes \cup {"none", "waiting", "running"}] BY <1>3 DEF End
  <2>4. TypeOK' BY <1>3, <2>1, <2>2, <2>3 DEF End, IInv, TypeOK
  <2> QED BY <1>3, <2>4 DEF End, IInv, TasksSound, ReplySound, AnswersItsOwn, Sent
<1>4. ASSUME Match PROVE IInv' BY <1>4, MatchIInv
<1>5. ASSUME Cancel PROVE IInv'
  <2>1. TypeOK' BY <1>5 DEF Cancel, IInv, TypeOK
  <2>2. TasksSound' BY <1>5 DEF Cancel, IInv, TasksSound, Sent, Accepted, Keys
  <2> QED BY <1>5, <2>1, <2>2 DEF Cancel, IInv, ReplySound, AnswersItsOwn
<1>6. ASSUME Collect PROVE IInv' BY <1>6, CollectIInv
<1>7. ASSUME NEW k \in Checks, Start(k) PROVE IInv'
  BY <1>7, TaskIInv DEF Start, Decisions
<1>8. ASSUME NEW k \in Checks, Skip(k) PROVE IInv'
  BY <1>8, TaskIInv DEF Skip, Decisions, Outcomes
<1>9. ASSUME NEW k \in Checks, Evaluate(k) PROVE IInv'
  <2>1. current[k] \subseteq Outcomes BY DEF IInv, TypeOK, Outcomes
  <2> QED BY <1>9, <2>1, TaskIInv DEF Evaluate, Decisions, Outcomes
<1>10. ASSUME NEW k \in Checks, Write(k) PROVE IInv'
  <2>1. PICK d \in Decisions : /\ current' = [current EXCEPT ![k] = @ \cup {d}]
            /\ held' = IF phase = "called" THEN [held EXCEPT ![k] = @ \cup {d}] ELSE held
    BY <1>10 DEF Write
  <2>2. UNCHANGED <<batch, phase, cancelled, task, reply, answer>> BY <1>10 DEF Write
  <2>3. current \in [Checks -> (SUBSET Decisions) \ {{}}] /\ held \in [Checks -> SUBSET Decisions]
    BY DEF IInv, TypeOK
  <2>4. TypeOK'
    <3>1. current[k] \cup {d} \in (SUBSET Decisions) \ {{}} BY <2>3
    <3>2. current' \in [Checks -> (SUBSET Decisions) \ {{}}] BY <2>1, <2>3, <3>1
    <3>3. held' \in [Checks -> SUBSET Decisions] BY <2>1, <2>3
    <3> QED BY <2>2, <3>2, <3>3 DEF IInv, TypeOK
  <2>5. \A x \in Checks : held[x] \subseteq held'[x] BY <2>1, <2>3
  <2>6. phase = "called" /\ TasksSound => \A x \in Checks : current'[x] \subseteq held'[x]
    BY <2>1, <2>3 DEF TasksSound, Sent
  <2>7. TasksSound' BY <2>2, <2>5, <2>6 DEF IInv, TasksSound, Sent, Accepted, Keys
  <2>8. ReplySound' BY <2>2 DEF IInv, ReplySound, ReplyTo, Keys
  <2>9. AnswersItsOwn'
    <3>1. phase = "answered" => held' = held BY <2>1
    <3> QED BY <3>1, <2>2 DEF IInv, AnswersItsOwn
  <2> QED BY <2>4, <2>7, <2>8, <2>9 DEF IInv
<1>11. ASSUME NEW k \in Checks, Expire(k) PROVE IInv'
  <2>1. PICK d \in Decisions : current[k] = Decisions /\ current' = [current EXCEPT ![k] = {d}]
    BY <1>11 DEF Expire
  <2>2. current \in [Checks -> (SUBSET Decisions) \ {{}}] BY DEF IInv, TypeOK
  <2>3. \A x \in Checks : current'[x] \subseteq current[x] BY <2>1, <2>2
  <2>4. current' \in [Checks -> (SUBSET Decisions) \ {{}}] BY <2>1, <2>2
  <2>5. UNCHANGED <<batch, phase, held, cancelled, task, reply, answer>> BY <1>11 DEF Expire
  <2>6. TypeOK' BY <2>4, <2>5 DEF IInv, TypeOK
  <2>7. TasksSound' BY <2>3, <2>5 DEF IInv, TasksSound, Sent, Accepted, Keys
  <2>8. ReplySound' BY <2>5 DEF IInv, ReplySound, ReplyTo, Keys
  <2> QED BY <2>5, <2>6, <2>7, <2>8 DEF IInv, AnswersItsOwn
<1>12. ASSUME UNCHANGED vars PROVE IInv'
  BY <1>12 DEF vars, IInv, TypeOK, TasksSound, ReplySound, ReplyTo, AnswersItsOwn, Sent, Accepted, Keys
<1> QED BY <1>1, <1>2, <1>3, <1>4, <1>5, <1>6, <1>7, <1>8, <1>9, <1>10, <1>11, <1>12 DEF Next

THEOREM Invariant == Spec => []IInv
<1> QED BY InitIInv, NextIInv, PTL DEF Spec

\* The batch, its tasks and its answers keep their types.
THEOREM TypeCorrect == Spec => []TypeOK
<1>1. IInv => TypeOK BY DEF IInv
<1> QED BY <1>1, Invariant, PTL

\* Whatever ids a batch has, however its items share checks and in whichever
\* order the reply comes, each item is answered with its own check's outcome.
THEOREM EachItsOwn == Spec => []AnswersItsOwn
<1>1. IInv => AnswersItsOwn BY DEF IInv
<1> QED BY <1>1, Invariant, PTL

\* Nothing is handed out for a check that has no outcome.
THEOREM NoneWithoutOutcome == Spec => []OutcomeForEvery
<1>1. IInv => OutcomeForEvery BY DEF IInv, ReplySound, OutcomeForEvery
<1> QED BY <1>1, Invariant, PTL
=============================================================================
