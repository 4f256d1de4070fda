---------------------------- MODULE CheckResolver ----------------------------
(***************************************************************************)
(* How OpenFGA evaluates a check: the rewrite of the relation is walked,   *)
(* usersets and tuple-to-usersets become sub-problems on other objects,    *)
(* and those go through a cache that all requests share (internal/graph).  *)
(*                                                                         *)
(* Children run concurrently, reads fail and the planner picks among       *)
(* strategies, so an evaluation has a set of possible outcomes.  Its       *)
(* context may end under it: the request is cancelled or times out, or the *)
(* answer that another branch gave first cancels this one.  The tuples     *)
(* stand still: how stale an answer can be is CheckCache's matter.         *)
(***************************************************************************)
EXTENDS AuthzModel, Naturals

CONSTANTS TupleSets,   \* the sets of tuples a store may hold
          Roots,       \* the checks that are asked: pairs of object and relation
          MaxDepth,    \* resolveNodeLimit
          MaxCached    \* bound: entries of the LRU cache

VARIABLES tuples,   \* rigid: what the store holds
          cache,    \* per sub-problem: "none" or the cached answer
          cut       \* history: an evaluation whose context ended was saved

vars == <<tuples, cache, cut>>

Problems == {p \in Objects \X UNION {DOMAIN Relations[t] : t \in DOMAIN Relations} :
                p[2] \in DOMAIN Relations[TypeOf[p[1]]]}

ASSUME ResolverAssumption ==
    /\ \A T \in TupleSets : WellTyped(T)
    /\ Roots \subseteq Problems
    /\ MaxDepth \in Nat \ {0}
    /\ MaxCached \in Nat

Cached == {p \in Problems : cache[p] # "none"}

TypeOK ==
    /\ tuples \in TupleSets
    /\ cache \in [Problems -> {"none", "no", "yes"}]
    /\ Cardinality(Cached) <= MaxCached
    /\ cut \in BOOLEAN

(***************************************************************************)
(* Reducers.  An outcome is an answer, a no that a cycle made (flagged:     *)
(* "cycle"), or an error.  Each child has a set of possible outcomes.       *)
(***************************************************************************)
\* Mutant: a cycle ends a union as it ends an intersection.
CycleEnds == [no |-> 0, error |-> 1, yes |-> 2, cycle |-> 3]

\* What wins in a union.
Weight == [no |-> 0, cycle |-> 1, error |-> 2, yes |-> 3]

\* Mutant: the flag of a child that met a cycle is lost.
AnyOfForgets(children) ==
    IF children = {} THEN {"no"}
    ELSE LET result == {x \in UNION children :
                           \A c \in children : \E y \in c : Weight[y] <= Weight[x]}
         IN {IF x = "cycle" THEN "no" ELSE x : x \in result}

\* union, and the dispatches: yes wins, then an error, then the flag.
AnyOf(children) ==
    IF children = {} THEN {"no"}
    ELSE {x \in UNION children : \A c \in children : \E y \in c : Weight[y] <= Weight[x]}

\* intersection: whichever falsy child comes first, else an error, else yes.
AllOf(children) ==
    LET truthy == \A c \in children : {"error", "yes"} \cap c # {} IN
    ((UNION children) \cap {"no", "cycle"})
        \cup {x \in (UNION children) \cap {"error", "yes"} :
                 truthy /\ (x = "yes" => \A c \in children : "yes" \in c)}

\* Once the context has ended, the answers of children may be dropped, and the
\* loop over them may end on the closed channel as if all had come: whatever
\* came, or what the loop began with.  (An error is possible too: see Check.)
SomeOf(c, children) == IF c.mode = "ended" THEN {"no"} \cup UNION children ELSE AnyOf(children)

EachOf(c, children) == IF c.mode = "ended" THEN {"yes"} \cup UNION children ELSE AllOf(children)

\* exclusion waits for both: a flagged child, a false base or a true subtrahend deny.
Except(base, sub) ==
    (base \cap {"no", "cycle"})
        \cup (IF "yes" \in sub THEN {"no"} ELSE {})
        \cup (sub \cap {"cycle"})
        \cup (IF "error" \in base /\ {"no", "error"} \cap sub # {} THEN {"error"} ELSE {})
        \cup (IF "yes" \in base THEN (IF "no" \in sub THEN {"yes"} ELSE {}) \cup (sub \cap {"error"})
                                ELSE {})

Answer(b) == IF b THEN {"yes"} ELSE {"no"}

\* A read of the datastore fails, or its query has run into its deadline.
Read(outcomes) == outcomes \cup {"error"}

(***************************************************************************)
(* Strategies that need no sub-problems.                                    *)
(***************************************************************************)
\* The tuples of the relation itself, for the user or for everyone.
DirectlyHeld(p) ==
    \/ <<p[1], p[2], User>> \in tuples
    \/ Allows(ToEveryone, p[1], p[2]) /\ <<p[1], p[2], Everyone>> \in tuples

\* weight two: the objects the user has a relation on, from the user's side.
\* It serves relations that are held directly and unions of such.
WeightTwo(p) == \E leaf \in Children(RewriteOf(p[1], p[2])) :
    DirectlyHeld(IF leaf[1] = "computed" THEN <<p[1], leaf[2]>> ELSE p)

UserTeams == {t \in Teams : WeightTwo(<<t, "member">>)}

SubTeams(S) == UNION {Named(tuples, t, "member") : t \in S}

Searches == [level : SUBSET Objects, visited : SUBSET Objects, depth : 0..(MaxDepth - 1)]

\* The teams below, level by level, against the teams of the user.
Match[s \in Searches] ==
    IF s.depth + 1 = MaxDepth THEN {"error"}
    ELSE IF s.level = {} THEN {"no"}
    ELSE LET below == SubTeams(s.level \ s.visited)
         IN IF below \cap UserTeams # {} THEN {"yes"}
            ELSE Match[[level |-> below, visited |-> s.visited \cup s.level, depth |-> s.depth + 1]]

Recursive(t, depth) ==
    LET level == SubTeams({t}) IN
    IF level = {} \/ UserTeams = {} THEN {"no"}
    ELSE IF level \cap UserTeams # {} THEN {"yes"}
    ELSE Match[[level |-> level, visited |-> {}, depth |-> depth]]

\* Which parents the weight-two strategy can serve: one read of the computed
\* relation, no userset and no recursion.
HasWeightTwo(relation, tupleset) == tupleset = "org" /\ relation \in {"admin", "member", "blocked"}

(***************************************************************************)
(* Evaluation of a call: a problem, what the path from the root has visited *)
(* and how deep it is.  answer is what the calls it makes may come to.  A   *)
(* "fresh" call is a HIGHER_CONSISTENCY request's, which reads no cache; a  *)
(* "live" one may; the context of an "ended" one ends before it is done.    *)
(***************************************************************************)
Modes == {"fresh", "live", "ended"}

Calls == [at : Problems, seen : SUBSET Problems, depth : 0..MaxDepth, mode : Modes]

Call(p, seen, depth, mode) == [at |-> p, seen |-> seen, depth |-> depth, mode |-> mode]

Ended(c) == [c EXCEPT !.mode = "ended"]

\* Who dispatches asks its context at the end: an answer counts only if it
\* came from a child whose context lived.
Counted(c) == IF c.mode = "ended" THEN "live" ELSE c.mode

Path(c) == c.seen \cup {c.at}

\* Mutant: the path keeps objects only.
RepeatsObject(c) == \E q \in c.seen : q[1] = c.at[1]

Repeats(c) == c.at \in c.seen

\* The calls that a child of the rewrite makes: of sub-problems, through the
\* resolvers around, and of another relation of the object, at once.
Dispatched(c, leaf) ==
    CASE leaf[1] = "this" /\ Allows(ToTeams, c.at[1], c.at[2]) ->
            {Call(<<t, "member">>, Path(c), c.depth + 1, Counted(c)) : t \in Named(tuples, c.at[1], c.at[2])}
      [] leaf[1] = "from" ->
            {Call(<<o, leaf[2]>>, Path(c), c.depth + 1, Counted(c)) : o \in Named(tuples, c.at[1], leaf[3])}
      [] OTHER -> {}

Sideways(c, leaf) == Call(<<c.at[1], leaf[2]>>, Path(c), c.depth, c.mode)

\* A sub-problem: found in the cache, unless the request will not read it or
\* looked before the entry was there.
Dispatch(answer, d) ==
    answer[d] \cup (IF d.mode = "fresh" \/ cache[d.at] = "none" THEN {} ELSE {cache[d.at]})

Teamed(answer, c) ==
    AnyOf({Dispatch(answer, d) : d \in Dispatched(c, This)})
        \cup (IF TypeOf[c.at[1]] = "team" THEN Recursive(c.at[1], c.depth) ELSE {})

Direct(answer, c) ==
    SomeOf(c, {Read(Answer(<<c.at[1], c.at[2], User>> \in tuples))}
        \cup (IF Allows(ToEveryone, c.at[1], c.at[2])
              THEN {Read(Answer(<<c.at[1], c.at[2], Everyone>> \in tuples))} ELSE {})
        \cup (IF Allows(ToTeams, c.at[1], c.at[2]) THEN {Read(Teamed(answer, c))} ELSE {}))

\* weight two, cut short between an object of the user and a parent that is
\* another one: both streams close, and the loop ends as if they were at their
\* ends.
Unmatched(c, leaf) ==
    c.mode = "ended" /\ \E o \in Orgs, d \in Dispatched(c, leaf) :
                            o # d.at[1] /\ WeightTwo(<<o, leaf[2]>>)

FromParents(answer, c, leaf) ==
    Read(AnyOf({Dispatch(answer, d) : d \in Dispatched(c, leaf)})
         \cup (IF HasWeightTwo(leaf[2], leaf[3])
               THEN Answer(\E d \in Dispatched(c, leaf) : WeightTwo(d.at))
                        \cup (IF Unmatched(c, leaf) THEN {"no"} ELSE {})
               ELSE {}))

Leaf(answer, c, leaf) ==
    CASE leaf[1] = "this" -> Direct(answer, c)
      [] leaf[1] = "computed" -> answer[Sideways(c, leaf)]
      [] leaf[1] = "from" -> FromParents(answer, c, leaf)

Union(answer, c, rw) ==
    IF rw[1] = "or" THEN SomeOf(c, {Leaf(answer, c, leaf) : leaf \in rw[2]}) ELSE Leaf(answer, c, rw)

\* Rewrites nest this deep: an intersection has leaves, an exclusion unions.
Rewrite(answer, c, rw) ==
    CASE rw[1] = "and" -> EachOf(c, {Leaf(answer, c, leaf) : leaf \in rw[2]})
      [] rw[1] = "but not" -> Except(Union(answer, c, rw[2]), Union(answer, c, rw[3]))
      [] OTHER -> Union(answer, c, rw)

\* An ended context is an error wherever it is asked for.
Check[c \in Calls] ==
    IF c.depth = MaxDepth THEN {"error"}
    ELSE (IF Repeats(c) THEN {"cycle"} ELSE Rewrite(Check, c, RewriteOf(c.at[1], c.at[2])))
            \cup (IF c.mode = "ended" THEN {"error"} ELSE {})

\* What is dispatched while a call is evaluated.
Below[c \in Calls] ==
    IF c.depth = MaxDepth \/ Repeats(c) THEN {}
    ELSE UNION {(UNION {{d} \cup Below[d] : d \in Dispatched(c, leaf)})
                  \cup (IF leaf[1] = "computed" THEN Below[Sideways(c, leaf)] ELSE {}) :
                    leaf \in Leaves(RewriteOf(c.at[1], c.at[2]))}

Root(p, mode) == Call(p, {}, 0, mode)

\* Every call of a sub-problem, with the path of the request that makes it.
\* The context of each may end, whether or not somebody still waits for it.  (What
\* a fresh call comes to, a live one that finds nothing in the cache does too.)
Reached == UNION {{Root(p, "live")} \cup Below[Root(p, "live")] : p \in Roots}

Asked == Reached \cup {Ended(c) : c \in Reached}

Meaning(p) == Holds(tuples, p[1], p[2])

(***************************************************************************)
(* The cached resolver around it.                                           *)
(***************************************************************************)
\* Answers that no cycle and no error touched.
Savable == {"no", "yes"}

\* Mutant: nothing makes room.
SaveAlways(p, outcome) == cache' = [cache EXCEPT ![p] = outcome]

\* Room for one more entry; which one leaves is the LRU's choice.
Save(p, outcome) ==
    \E out \in SUBSET (Cached \ {p}) :
        /\ Cardinality(Cached \cup {p}) - Cardinality(out) <= MaxCached
        /\ Cardinality(out) <= 1
        /\ cache' = [q \in Problems |-> IF q = p THEN outcome
                                        ELSE IF q \in out THEN "none" ELSE cache[q]]

\* Mutant: what a cycle made is saved as the no it looks like.
ResolveAndSave(f) ==
    /\ \E outcome \in Check[f] \ {"error"} :
          Save(f.at, IF outcome = "yes" THEN "yes" ELSE "no")
    /\ cut' = (cut \/ f.mode = "ended")
    /\ UNCHANGED tuples

\* A sub-problem met on some path is evaluated, and its answer saved: by a
\* HIGHER_CONSISTENCY request too, which only does not read the cache, and
\* without a look at the context.
Resolve(f) ==
    /\ \E outcome \in Check[f] \cap Savable : Save(f.at, outcome)
    /\ cut' = (cut \/ f.mode = "ended")
    /\ UNCHANGED tuples

Expire(p) ==
    /\ cache[p] # "none"
    /\ cache' = [cache EXCEPT ![p] = "none"]
    /\ UNCHANGED <<tuples, cut>>

Init ==
    /\ tuples \in TupleSets
    /\ cache = [p \in Problems |-> "none"]
    /\ cut = FALSE

Next ==
    \/ \E f \in Asked : Resolve(f)
    \/ \E p \in Problems : Expire(p)

Spec == Init /\ [][Next]_vars

(***************************************************************************)
(* Properties                                                               *)
(***************************************************************************)

\* Relations that no intersection and no exclusion takes part in.
Additive(p) == p[2] \notin {"can_edit", "can_view", "can_share"}

\* What the cache holds is what the tuples say, whatever path of whatever
\* request it was computed on, as long as no evaluation was saved whose context
\* had ended; and even then no cached role or membership is one that the tuples
\* do not give (cached_resolver.go:186-203).
CacheExact ==
    /\ ~cut => \A p \in Cached : cache[p] = "yes" <=> Meaning(p)
    /\ \A p \in Cached : Additive(p) /\ cache[p] = "yes" => Meaning(p)

\* Requests whose answers the cache cannot have spoilt.
Trusted == IF cut THEN {"fresh"} ELSE {"fresh", "live"}

\* The answers to the roots are right: a yes is due, and a no that no cycle
\* made means that access is not.  A HIGHER_CONSISTENCY request that is not
\* cancelled is right whatever others have saved, and a role or a membership
\* that is not due is never answered (check.go:156-372, 396-473).
DecisionsRight ==
    /\ \A p \in Roots, mode \in Trusted : LET outcomes == Check[Root(p, mode)] IN
          /\ "yes" \in outcomes => Meaning(p)
          /\ "no" \in outcomes => ~Meaning(p)
    /\ \A p \in Roots, mode \in Modes :
          Additive(p) /\ "yes" \in Check[Root(p, mode)] => Meaning(p)

\* An intersection allows only what all its operands allow, so a share that is
\* answered from the cache is one that the tuples give (check.go:220-222).
SharesDue == \A p \in Cached : p[2] = "can_share" /\ cache[p] = "yes" => Meaning(p)

\* Some relation leads from an object back to itself.
Cyclic(T) == \E t \in {"member", "parent"}, o \in Objects :
    \E x \in Named(T, o, t) : o \in Above(T, x, t)

\* Only a cycle in the tuples makes a cycle: diamonds, shared folders and
\* cancelled branches do not (check.go:475-488).
AcyclicDecides ==
    ~Cyclic(tuples) => \A p \in Roots, mode \in Modes : "cycle" \notin Check[Root(p, mode)]

\* A relation without exclusion loses nothing to a cycle: between teams it
\* neither grants outsiders nor denies members (core.fga.yaml:167-183).
CyclesResolve ==
    \A p \in Roots, mode \in Trusted :
        p[2] \in {"member", "viewer", "editor", "manager"} /\ Meaning(p)
            => Check[Root(p, mode)] \subseteq {"yes", "error"}
=============================================================================
