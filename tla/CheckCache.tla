----------------------------- MODULE CheckCache -----------------------------
(***************************************************************************)
(* How old an answer of /check can be.  The API stamps each request with    *)
(* the time rounded down to a step (api/src/handlers.ts); OpenFGA keys its *)
(* cache of checks and sub-problems by that stamp among others, and keeps  *)
(* each entry for a TTL that starts when it is saved, not when its tuples  *)
(* were read (internal/graph/cached_resolver.go, pkg/storage/cache.go).    *)
(*                                                                         *)
(* The check is a chain of problems: problem n asks problem n-1, and       *)
(* problem 0 reads tuples.  Of an answer only its age counts: when its     *)
(* tuples were read (asof), and with which current_time (at).              *)
(***************************************************************************)
EXTENDS Integers

CONSTANTS Requests,
          Chain,     \* the problem furthest from the tuples
          TTL,       \* OPENFGA_CHECK_QUERY_CACHE_TTL
          Step,      \* CURRENT_TIME_STEP
          MaxTime    \* bound: where the clock stops

ASSUME ConstantsAssumption ==
    /\ Chain \in Nat
    /\ TTL \in Nat
    /\ Step \in Nat \ {0}
    /\ MaxTime \in Nat

VARIABLES now,       \* the clock
          entries,   \* per cache key <<problem, stamp>>: Missing, or what is saved
          request    \* per request: where it is

vars == <<now, entries, request>>

Problems == 0 .. Chain
Times == 0 .. MaxTime

\* The current_time of a request that begins at t.
Stamp(t) == t - (t % Step)
Stamps == {Stamp(t) : t \in Times}

Missing == [until |-> 0]
Entry == [asof : Times, at : Stamps, until : Nat]

Idle == [pc |-> "idle"]
Asking == [pc : {"look", "evaluate"}, fresh : BOOLEAN, asked : Problems, problem : Problems,
           began : Times, stamp : Stamps]
Answering == [pc : {"save", "answered"}, fresh : BOOLEAN, asked : Problems, problem : Problems,
              began : Times, stamp : Stamps, asof : Times, at : Stamps]

TypeOK ==
    /\ now \in Times
    /\ entries \in [Problems \X Stamps -> Entry \cup {Missing}]
    /\ request \in [Requests -> {Idle} \cup Asking \cup Answering]

(***************************************************************************)
(* Actions                                                                  *)
(***************************************************************************)

\* Mutant: the cache key leaves the context out.
KeyOfProblem(p, r) == <<p, 0>>

Key(p, r) == <<p, request[r].stamp>>

\* Mutant: only the check itself skips the cache, not its sub-problems.
SkipsIfAsked(q) == q.fresh /\ q.problem = q.asked

SkipsCache(q) == q.fresh

\* The API stamps a request and sends it on.  Asked: some problem, and
\* whether the answer must be fresh (HIGHER_CONSISTENCY).
Begin(r, p, fresh) ==
    /\ request[r] = Idle
    /\ request' = [request EXCEPT ![r] =
           [pc |-> "look", fresh |-> fresh, asked |-> p, problem |-> p,
            began |-> now, stamp |-> Stamp(now)]]
    /\ UNCHANGED <<now, entries>>

\* The answer to a problem, as the request carries it on.
Found(q, pc, problem, asof, at) ==
    [pc |-> pc, fresh |-> q.fresh, asked |-> q.asked, problem |-> problem,
     began |-> q.began, stamp |-> q.stamp, asof |-> asof, at |-> at]

\* The problem is in the cache: answered, or its caller is evaluated with it.
Hit(r) ==
    LET q == request[r] e == entries[Key(q.problem, r)] IN
    /\ q.pc = "look"
    /\ ~SkipsCache(q)
    /\ e # Missing
    /\ request' = [request EXCEPT ![r] =
           IF q.problem = q.asked THEN Found(q, "answered", q.problem, e.asof, e.at)
                                  ELSE Found(q, "save", q.problem + 1, e.asof, e.at)]
    /\ UNCHANGED <<now, entries>>

\* It is not there, no longer, or must not be used.
Miss(r) ==
    LET q == request[r] IN
    /\ q.pc = "look"
    /\ SkipsCache(q) \/ entries[Key(q.problem, r)] = Missing
    /\ request' = [request EXCEPT ![r].pc = "evaluate"]
    /\ UNCHANGED <<now, entries>>

\* The sub-problem is asked in turn.
Dispatch(r) ==
    LET q == request[r] IN
    /\ q.pc = "evaluate"
    /\ q.problem > 0
    /\ request' = [request EXCEPT ![r].pc = "look", ![r].problem = q.problem - 1]
    /\ UNCHANGED <<now, entries>>

\* The tuples are read, and their conditions evaluated at the request's stamp.
ReadTuples(r) ==
    /\ request[r].pc = "evaluate"
    /\ request[r].problem = 0
    /\ request' = [request EXCEPT ![r] = Found(@, "save", 0, now, @.stamp)]
    /\ UNCHANGED <<now, entries>>

\* Mutant: one save too many.
SavePastAsked(r) ==
    LET q == request[r] IN
    /\ q.pc = "save"
    /\ entries' = [entries EXCEPT ![Key(q.problem, r)] =
           [asof |-> q.asof, at |-> q.at, until |-> now + TTL]]
    /\ request' = [request EXCEPT ![r] =
           IF q.problem > q.asked THEN [q EXCEPT !.pc = "answered"]
                                  ELSE [q EXCEPT !.problem = @ + 1]]
    /\ UNCHANGED now

\* The answer is saved, and its time starts again.
Save(r) ==
    LET q == request[r] IN
    /\ q.pc = "save"
    /\ entries' = [entries EXCEPT ![Key(q.problem, r)] =
           [asof |-> q.asof, at |-> q.at, until |-> now + TTL]]
    /\ request' = [request EXCEPT ![r] =
           IF q.problem = q.asked THEN [q EXCEPT !.pc = "answered"]
                                  ELSE [q EXCEPT !.problem = @ + 1]]
    /\ UNCHANGED now

\* The evaluation fails or is given up: nothing more is saved.  An answered
\* request ends the same way.
End(r) ==
    /\ request[r] # Idle
    /\ request' = [request EXCEPT ![r] = Idle]
    /\ UNCHANGED <<now, entries>>

\* The cache is full: an entry leaves before its time.
Evict(k) ==
    /\ entries[k] # Missing
    /\ entries' = [entries EXCEPT ![k] = Missing]
    /\ UNCHANGED <<now, request>>

\* Time passes, and entries with it.
Tick ==
    /\ now < MaxTime
    /\ now' = now + 1
    /\ entries' = [k \in Problems \X Stamps |->
           IF entries[k].until <= now' THEN Missing ELSE entries[k]]
    /\ UNCHANGED request

Init ==
    /\ now = 0
    /\ entries = [k \in Problems \X Stamps |-> Missing]
    /\ request = [r \in Requests |-> Idle]

Next ==
    \/ \E r \in Requests, p \in Problems, fresh \in BOOLEAN : Begin(r, p, fresh)
    \/ \E r \in Requests : Hit(r) \/ Miss(r) \/ Dispatch(r) \/ ReadTuples(r) \/ Save(r) \/ End(r)
    \/ \E k \in Problems \X Stamps : Evict(k)
    \/ Tick

Spec == Init /\ [][Next]_vars

(***************************************************************************)
(* Properties                                                               *)
(***************************************************************************)

Answered == {r \in Requests : request[r].pc = "answered"}

\* However often an answer was saved again, the tuples and the time it rests
\* on are less than one step older than the request: the stamp in the key
\* bounds what the TTL, which each save restarts, does not (README.md:246,
\* handlers.ts:68-75).
AnswerWithinStep == \A r \in Answered :
    /\ request[r].began - request[r].asof < Step
    /\ request[r].began - request[r].at < Step

\* A HIGHER_CONSISTENCY answer sees every write made before it was asked
\* (README.md:452): no sub-problem of it comes from the cache.
FreshWhenAsked == \A r \in Answered : request[r].fresh => request[r].asof >= request[r].began
=============================================================================
