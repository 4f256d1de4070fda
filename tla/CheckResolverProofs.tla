-------------------------- MODULE CheckResolverProofs --------------------------
EXTENDS CheckResolver, FiniteSetTheorems, WellFoundedInduction, TLAPS

\* Induction on natural numbers, for a set of numbers.
LEMMA NatSets ==
    ASSUME NEW P, 0 \in P, \A n \in Nat : n \in P => n + 1 \in P
    PROVE  Nat \subseteq P
<1>1. IsWellFoundedOn(OpToRel(<, Nat), Nat) BY NatLessThanWellFounded
<1> SUFFICES ASSUME Nat \ P # {} PROVE FALSE OBVIOUS
<1>2. PICK n \in Nat \ P : \A m \in Nat \ P : <<m, n>> \notin OpToRel(<, Nat)
  BY <1>1, WFMin
<1>3. \A m \in Nat \ P : ~(m < n) BY <1>2 DEF OpToRel
<1>4. n # 0 /\ n - 1 \in Nat /\ n - 1 < n /\ n = (n - 1) + 1 OBVIOUS
<1> QED BY <1>3, <1>4

\* A definition by recursion: a value at x takes values of smaller rank only.
Recursion(S, V, rank, N, Step) ==
    /\ V # {} /\ N \in Nat
    /\ rank \in [S -> Nat] /\ \A x \in S : rank[x] < N
    /\ Step \in [[S -> V] -> [S -> V]]
    /\ \A f, g \in [S -> V] : \A x \in S :
          (\A y \in S : rank[y] < rank[x] => f[y] = g[y]) => Step[f][x] = Step[g][x]

\* The function that it defines exists.
LEMMA FixedPoint ==
    ASSUME NEW S, NEW V, NEW rank, NEW N, NEW Step, Recursion(S, V, rank, N, Step)
    PROVE  \E f \in [S -> V] : f = Step[f]
<1> USE DEF Recursion
<1> DEFINE P == {n \in Nat : \E f \in [S -> V] : \A x \in S : rank[x] < n => Step[f][x] = f[x]}
<1>1. 0 \in P
  <2>1. PICK v \in V : TRUE OBVIOUS
  <2>2. [x \in S |-> v] \in [S -> V] BY <2>1
  <2>3. \A x \in S : ~(rank[x] < 0) OBVIOUS
  <2> QED BY <2>2, <2>3
<1>2. ASSUME NEW n \in Nat, n \in P PROVE n + 1 \in P
  <2>1. PICK f \in [S -> V] : \A x \in S : rank[x] < n => Step[f][x] = f[x] BY <1>2
  <2>2. Step[f] \in [S -> V] OBVIOUS
  <2>3. ASSUME NEW x \in S, rank[x] < n + 1 PROVE Step[Step[f]][x] = Step[f][x]
    <3>1. \A y \in S : rank[y] < rank[x] => Step[f][y] = f[y] BY <2>1, <2>3
    <3> QED BY <2>2, <3>1
  <2> QED BY <2>2, <2>3
<1>3. N \in P
  <2> HIDE DEF P
  <2> QED BY <1>1, <1>2, NatSets
<1>4. PICK f \in [S -> V] : \A x \in S : Step[f][x] = f[x] BY <1>3
<1> QED BY <1>4

Outcomes == {"no", "yes", "cycle", "error"}

\* A union says yes if a child does, and no only if all do.
LEMMA AnyOfAnswers ==
    ASSUME NEW children, \A c \in children : c \subseteq Outcomes
    PROVE  /\ AnyOf(children) \subseteq Outcomes
           /\ "yes" \in AnyOf(children) => \E c \in children : "yes" \in c
           /\ "no" \in AnyOf(children) => \A c \in children : "no" \in c
           /\ "cycle" \in AnyOf(children) =>
                  /\ \E c \in children : "cycle" \in c
                  /\ \A c \in children : "no" \in c \/ "cycle" \in c
<1>1. CASE children = {} BY <1>1 DEF AnyOf, Outcomes
<1>2. CASE children # {}
  <2>1. AnyOf(children) = {x \in UNION children : \A c \in children : \E y \in c : Weight[y] <= Weight[x]}
    BY <1>2 DEF AnyOf
  <2>2. Weight["no"] = 0 /\ Weight["cycle"] = 1 /\ Weight["error"] = 2 /\ Weight["yes"] = 3
    BY DEF Weight
  <2> QED BY <2>1, <2>2 DEF Outcomes
<1> QED BY <1>1, <1>2

\* An intersection says yes only if all children do, and no only if one does.
LEMMA AllOfAnswers ==
    ASSUME NEW children, \A c \in children : c \subseteq Outcomes
    PROVE  /\ AllOf(children) \subseteq Outcomes
           /\ "yes" \in AllOf(children) => \A c \in children : "yes" \in c
           /\ "no" \in AllOf(children) => \E c \in children : "no" \in c
           /\ "cycle" \in AllOf(children) => \E c \in children : "cycle" \in c
BY DEF AllOf, Outcomes

\* When the context has ended a union keeps a yes and a cycle due, and nothing
\* else; until then it is a union.
LEMMA SomeOfAnswers ==
    ASSUME NEW call, NEW children, \A c \in children : c \subseteq Outcomes
    PROVE  /\ SomeOf(call, children) \subseteq Outcomes
           /\ "yes" \in SomeOf(call, children) => \E c \in children : "yes" \in c
           /\ "cycle" \in SomeOf(call, children) => \E c \in children : "cycle" \in c
           /\ call.mode # "ended" =>
                /\ "no" \in SomeOf(call, children) => \A c \in children : "no" \in c
                /\ "cycle" \in SomeOf(call, children) =>
                      \A c \in children : "no" \in c \/ "cycle" \in c
<1>1. CASE call.mode = "ended"
  <2>1. SomeOf(call, children) = {"no"} \cup UNION children BY <1>1 DEF SomeOf
  <2> QED BY <1>1, <2>1 DEF Outcomes
<1>2. CASE call.mode # "ended"
  <2>1. SomeOf(call, children) = AnyOf(children) BY <1>2 DEF SomeOf
  <2> QED BY <2>1, AnyOfAnswers
<1> QED BY <1>1, <1>2

\* An intersection keeps a no and a cycle due.
LEMMA EachOfAnswers ==
    ASSUME NEW call, NEW children, \A c \in children : c \subseteq Outcomes
    PROVE  /\ EachOf(call, children) \subseteq Outcomes
           /\ "no" \in EachOf(call, children) => \E c \in children : "no" \in c
           /\ "cycle" \in EachOf(call, children) => \E c \in children : "cycle" \in c
           /\ call.mode # "ended" /\ "yes" \in EachOf(call, children) => \A c \in children : "yes" \in c
<1>1. CASE call.mode = "ended"
  <2>1. EachOf(call, children) = {"yes"} \cup UNION children BY <1>1 DEF EachOf
  <2> QED BY <1>1, <2>1 DEF Outcomes
<1>2. CASE call.mode # "ended"
  <2>1. EachOf(call, children) = AllOf(children) BY <1>2 DEF EachOf
  <2> QED BY <2>1, AllOfAnswers
<1> QED BY <1>1, <1>2

\* An exclusion says yes only if its base does and its subtrahend does not.
LEMMA ExceptAnswers ==
    ASSUME NEW base, NEW sub, base \subseteq Outcomes, sub \subseteq Outcomes
    PROVE  /\ Except(base, sub) \subseteq Outcomes
           /\ "yes" \in Except(base, sub) => "yes" \in base /\ "no" \in sub
           /\ "no" \in Except(base, sub) => "no" \in base \/ "yes" \in sub
           /\ "cycle" \in Except(base, sub) => "cycle" \in base \/ "cycle" \in sub
BY DEF Except, Outcomes

(***************************************************************************)
(* The model.                                                               *)
(***************************************************************************)
\* The objects of each type.
LEMMA Types ==
    /\ \A o \in Orgs : o \in Objects /\ TypeOf[o] = "org"
    /\ \A o \in Teams : o \in Objects /\ TypeOf[o] = "team"
    /\ \A o \in Folders : o \in Objects /\ TypeOf[o] = "folder"
    /\ \A o \in Projects : o \in Objects /\ TypeOf[o] = "project"
BY ObjectsAssumption DEF Objects, TypeOf

\* The relations of each type.
LEMMA RelationNames ==
    /\ DOMAIN Relations = {"org", "team", "folder", "project"}
    /\ DOMAIN Relations["org"] = {"admin", "member", "blocked"}
    /\ DOMAIN Relations["team"] = {"maintainer", "member"}
    /\ DOMAIN Relations["folder"] = {"owner", "manager", "editor", "viewer", "blocked_in_org"}
    /\ DOMAIN Relations["project"] = {"owner", "contributor", "viewer", "blocked", "member",
          "can_manage", "is_blocked", "can_edit", "can_view", "can_share"}
BY DEF Relations, OrgRelations, TeamRelations, FolderRelations, ProjectRelations

\* A problem is a relation of an object's type.
LEMMA ProblemsAre ==
    /\ \A o \in Objects : \A r \in DOMAIN Relations[TypeOf[o]] : <<o, r>> \in Problems
    /\ \A p \in Problems : /\ p[1] \in Objects /\ p[2] \in DOMAIN Relations[TypeOf[p[1]]]
                           /\ p = <<p[1], p[2]>>
    /\ \A o \in Objects : TypeOf[o] \in {"org", "team", "folder", "project"}
<1>1. \A o \in Objects : TypeOf[o] \in {"org", "team", "folder", "project"} BY Types DEF Objects
<1> QED BY <1>1, RelationNames DEF Problems

\* The type that each link leads to.
LinkTo == [parent |-> "folder", org |-> "org", folder |-> "folder"]
Links == {"parent", "org", "folder"}

\* A rewrite that reads tuples, another relation of the object, or a relation
\* of the objects that a link leads to.
IsLeaf(type, rw) ==
    \/ rw = This
    \/ \E r \in DOMAIN Relations[type] : rw = Computed(r)
    \/ \E l \in Links : \E r \in DOMAIN Relations[LinkTo[l]] : rw = From(r, l)

IsUnion(type, rw) ==
    \/ IsLeaf(type, rw)
    \/ \E S : rw = Or(S) /\ \A leaf \in S : IsLeaf(type, leaf)

IsRewrite(type, rw) ==
    \/ IsUnion(type, rw)
    \/ \E S : rw = And(S) /\ \A leaf \in S : IsLeaf(type, leaf)
    \/ \E base, sub : rw = ButNot(base, sub) /\ IsUnion(type, base) /\ IsUnion(type, sub)

\* The rewrites of the model nest no deeper than the evaluation goes.
LEMMA RewritesNest ==
    ASSUME NEW p \in Problems
    PROVE  IsRewrite(TypeOf[p[1]], RewriteOf(p[1], p[2]))
<1> DEFINE type == TypeOf[p[1]]
<1>1. type \in {"org", "team", "folder", "project"} /\ p[2] \in DOMAIN Relations[type]
  BY ProblemsAre
<1>2. RewriteOf(p[1], p[2]) = Relations[type][p[2]] BY DEF RewriteOf
<1> SUFFICES IsRewrite(type, Relations[type][p[2]]) BY <1>2
<1>3. ASSUME NEW ty \in {"org", "team", "folder", "project"}
      PROVE  /\ IsLeaf(ty, This)
             /\ \A r \in DOMAIN Relations[ty] : IsLeaf(ty, Computed(r))
             /\ \A l \in Links : \A r \in DOMAIN Relations[LinkTo[l]] : IsLeaf(ty, From(r, l))
  BY DEF IsLeaf
<1>4. LinkTo["parent"] = "folder" /\ LinkTo["org"] = "org" /\ LinkTo["folder"] = "folder"
  BY DEF LinkTo
<1>5. ASSUME NEW ty
      PROVE  /\ \A leaf : IsLeaf(ty, leaf) => IsUnion(ty, leaf) /\ IsRewrite(ty, leaf)
             /\ \A S : (\A leaf \in S : IsLeaf(ty, leaf)) => /\ IsUnion(ty, Or(S)) /\ IsRewrite(ty, Or(S))
                                                             /\ IsRewrite(ty, And(S))
             /\ \A b, s : IsUnion(ty, b) /\ IsUnion(ty, s) => IsRewrite(ty, ButNot(b, s))
  BY DEF IsRewrite, IsUnion
<1> HIDE DEF type
<1>6. CASE type = "org"
  BY <1>1, <1>3, <1>5, <1>6, RelationNames DEF Relations, OrgRelations
<1>7. CASE type = "team"
  <2>1. IsLeaf("team", Computed("maintainer")) /\ IsLeaf("team", This) BY <1>3, RelationNames
  <2>2. IsRewrite("team", Relations["team"]["maintainer"]) BY <1>5, <2>1 DEF Relations, TeamRelations
  <2>3. IsRewrite("team", Relations["team"]["member"]) BY <1>5, <2>1 DEF Relations, TeamRelations
  <2> QED BY <1>1, <1>7, <2>2, <2>3, RelationNames
<1>8. CASE type = "folder"
  <2> DEFINE R == Relations["folder"]
  <2>1. /\ \A r \in {"owner", "editor"} : IsLeaf("folder", Computed(r))
        /\ \A r \in {"manager", "editor", "viewer", "blocked_in_org"} : IsLeaf("folder", From(r, "parent"))
        /\ IsLeaf("folder", From("blocked", "org")) /\ IsLeaf("folder", This)
    BY <1>3, <1>4, RelationNames DEF Links
  <2>2. IsRewrite("folder", R["owner"]) BY <1>5, <2>1 DEF Relations, FolderRelations
  <2>3. IsRewrite("folder", R["manager"]) BY <1>5, <2>1 DEF Relations, FolderRelations
  <2>4. IsRewrite("folder", R["editor"]) BY <1>5, <2>1 DEF Relations, FolderRelations
  <2>5. IsRewrite("folder", R["viewer"]) BY <1>5, <2>1 DEF Relations, FolderRelations
  <2>6. IsRewrite("folder", R["blocked_in_org"]) BY <1>5, <2>1 DEF Relations, FolderRelations
  <2> HIDE DEF R
  <2> QED BY <1>1, <1>8, <2>2, <2>3, <2>4, <2>5, <2>6, RelationNames DEF R
<1>9. CASE type = "project"
  <2> DEFINE R == Relations["project"]
  <2>1. /\ \A r \in {"owner", "contributor", "viewer", "can_manage", "blocked", "is_blocked", "member", "can_edit"} :
                IsLeaf("project", Computed(r))
        /\ \A r \in {"manager", "editor", "viewer", "blocked_in_org"} : IsLeaf("project", From(r, "folder"))
        /\ \A r \in {"admin", "blocked", "member"} : IsLeaf("project", From(r, "org"))
        /\ IsLeaf("project", This)
    BY <1>3, <1>4, RelationNames DEF Links
  <2>2. \A r \in {"owner", "contributor", "viewer", "blocked"} : IsRewrite("project", R[r])
    BY <1>5, <2>1 DEF Relations, ProjectRelations
  <2>3. IsRewrite("project", R["member"]) BY <1>5, <2>1 DEF Relations, ProjectRelations
  <2>4. IsRewrite("project", R["can_manage"]) BY <1>5, <2>1 DEF Relations, ProjectRelations
  <2>5. IsRewrite("project", R["is_blocked"]) BY <1>5, <2>1 DEF Relations, ProjectRelations
  <2>6. IsRewrite("project", R["can_edit"])
    <3>1. IsUnion("project", Or({Computed("contributor"), From("editor", "folder"), Computed("can_manage")}))
      BY <1>5, <2>1
    <3> QED BY <1>5, <2>1, <3>1 DEF Relations, ProjectRelations
  <2>7. IsRewrite("project", R["can_view"])
    <3>1. IsUnion("project", Or({Computed("member"), From("viewer", "folder"), Computed("can_manage")}))
      BY <1>5, <2>1
    <3> QED BY <1>5, <2>1, <3>1 DEF Relations, ProjectRelations
  <2>8. IsRewrite("project", R["can_share"]) BY <1>5, <2>1 DEF Relations, ProjectRelations
  <2> HIDE DEF R
  <2> QED BY <1>1, <1>9, <2>2, <2>3, <2>4, <2>5, <2>6, <2>7, <2>8, RelationNames DEF R
<1> QED BY <1>1, <1>6, <1>7, <1>8, <1>9

(***************************************************************************)
(* What relations mean.                                                     *)
(***************************************************************************)
\* A tuple's subject has the type its relation takes.
LEMMA LinksTyped ==
    ASSUME NEW T \in TupleSets, NEW o \in Objects, NEW r, NEW x \in Named(T, o, r)
    PROVE  /\ x \in Objects /\ Takes(o, r, x) /\ x # User /\ x # Everyone
           /\ r \in Links => TypeOf[x] = LinkTo[r]
           /\ r \notin Links => x \in Teams /\ Allows(ToTeams, o, r)
<1>1. x \in Objects /\ <<o, r, x>> \in T BY DEF Named
<1>2. Takes(o, r, x) BY <1>1, ResolverAssumption DEF WellTyped
<1>3. x # User /\ x # Everyone BY <1>1, ObjectsAssumption
<1>4. x \in Teams => Allows(ToTeams, o, r) /\ r \notin Links
  <2>1. x \in Teams => x \notin Orgs /\ x \notin Folders BY ObjectsAssumption
  <2>2. \A l \in Links : <<TypeOf[o], l>> \notin ToTeams BY DEF Links, ToTeams
  <2> QED BY <1>2, <1>3, <2>1, <2>2 DEF Takes, Allows
<1>5. x \in Orgs => r = "org" /\ TypeOf[x] = "org"
  <2>1. x \in Orgs => x \notin Teams /\ x \notin Folders BY ObjectsAssumption
  <2> QED BY <1>2, <1>3, <2>1, Types DEF Takes
<1>6. x \in Folders => r \in {"parent", "folder"} /\ TypeOf[x] = "folder"
  <2>1. x \in Folders => x \notin Teams /\ x \notin Orgs BY ObjectsAssumption
  <2> QED BY <1>2, <1>3, <2>1, Types DEF Takes
<1>7. x \in Orgs \cup Teams \cup Folders BY <1>2, <1>3 DEF Takes
<1> QED BY <1>1, <1>2, <1>3, <1>4, <1>5, <1>6, <1>7 DEF Links, LinkTo

\* A team is named only by relations that teams may be granted.
LEMMA GrantsTyped ==
    ASSUME NEW T \in TupleSets, NEW o \in Objects, NEW r
    PROVE  /\ \A t \in Teams : <<o, r, t>> \in T => Allows(ToTeams, o, r)
           /\ <<o, r, Everyone>> \in T => Allows(ToEveryone, o, r)
           /\ Allows(ToTeams, o, r) => r \notin Links /\ \A x \in Named(T, o, r) : x \in Teams
<1>1. ASSUME NEW t \in Teams, <<o, r, t>> \in T PROVE Allows(ToTeams, o, r)
  <2>1. t \in Objects /\ t # User /\ t # Everyone /\ t \notin Orgs /\ t \notin Folders
    BY ObjectsAssumption DEF Objects
  <2>2. Takes(o, r, t) BY <1>1, ResolverAssumption DEF WellTyped
  <2> QED BY <2>1, <2>2 DEF Takes
<1>2. ASSUME <<o, r, Everyone>> \in T PROVE Allows(ToEveryone, o, r)
  <2>1. Everyone \notin Teams \cup Orgs \cup Folders /\ Everyone # User
    BY ObjectsAssumption DEF Objects, User, Everyone
  <2>2. Takes(o, r, Everyone) BY <1>2, ResolverAssumption DEF WellTyped
  <2> QED BY <2>1, <2>2 DEF Takes
<1>3. Allows(ToTeams, o, r) => r \notin Links BY DEF Allows, ToTeams, Links
<1> QED BY <1>1, <1>2, <1>3, LinksTyped

\* Above is the least set that is closed under the relation.
LEMMA AboveLeast ==
    ASSUME NEW T, NEW r, NEW o \in Objects
    PROVE  /\ o \in Above(T, o, r) /\ Above(T, o, r) \subseteq Objects
           /\ \A x \in Above(T, o, r) : Named(T, x, r) \subseteq Above(T, o, r)
           /\ \A C : o \in C /\ (\A x \in C \cap Objects : Named(T, x, r) \subseteq C) => Above(T, o, r) \subseteq C
<1>1. o \in Above(T, o, r) /\ Above(T, o, r) \subseteq Objects BY DEF Above
<1>2. ASSUME NEW x \in Above(T, o, r), NEW y \in Named(T, x, r) PROVE y \in Above(T, o, r)
  <2>1. y \in Objects BY DEF Named
  <2>2. ASSUME NEW C \in SUBSET Objects, o \in C, Closed(T, r, C) PROVE y \in C
    <3>1. x \in C BY <2>2 DEF Above
    <3> QED BY <2>2, <3>1 DEF Closed
  <2> QED BY <2>1, <2>2 DEF Above
<1>3. ASSUME NEW C, o \in C, \A x \in C \cap Objects : Named(T, x, r) \subseteq C
      PROVE  Above(T, o, r) \subseteq C
  <2>1. o \in C \cap Objects /\ Closed(T, r, C \cap Objects) BY <1>3 DEF Closed, Named
  <2> QED BY <2>1 DEF Above
<1> QED BY <1>1, <1>2, <1>3

\* What is above an object is the object and what is above the next ones.
LEMMA AboveStep ==
    ASSUME NEW T, NEW r, NEW o \in Objects
    PROVE  /\ \A x \in Named(T, o, r) : Above(T, x, r) \subseteq Above(T, o, r)
           /\ \A y \in Above(T, o, r) : y = o \/ \E x \in Named(T, o, r) : y \in Above(T, x, r)
<1>1. ASSUME NEW x \in Named(T, o, r) PROVE Above(T, x, r) \subseteq Above(T, o, r)
  <2>1. x \in Objects /\ x \in Above(T, o, r) BY AboveLeast DEF Named
  <2>2. \A y \in Above(T, o, r) \cap Objects : Named(T, y, r) \subseteq Above(T, o, r) BY AboveLeast
  <2> QED BY <2>1, <2>2, AboveLeast
<1>2. ASSUME NEW y \in Above(T, o, r) PROVE y = o \/ \E x \in Named(T, o, r) : y \in Above(T, x, r)
  <2> DEFINE C == {z \in Objects : z = o \/ \E x \in Named(T, o, r) : z \in Above(T, x, r)}
  <2>1. ASSUME NEW z \in C, NEW u \in Named(T, z, r) PROVE u \in C
    <3>1. u \in Objects BY DEF Named
    <3>2. CASE z = o
      <4>1. u \in Above(T, u, r) BY <3>1, AboveLeast
      <4> QED BY <3>1, <3>2, <2>1, <4>1
    <3>3. CASE z # o
      <4>1. PICK x \in Named(T, o, r) : z \in Above(T, x, r) BY <2>1, <3>3
      <4>2. x \in Objects BY DEF Named
      <4>3. u \in Above(T, x, r) BY <4>1, <4>2, <2>1, AboveLeast
      <4> QED BY <3>1, <4>3
    <3> QED BY <3>2, <3>3
  <2>2. o \in C OBVIOUS
  <2>3. Above(T, o, r) \subseteq C
    <3> HIDE DEF C
    <3> QED BY <2>1, <2>2, AboveLeast
  <2> QED BY <2>3
<1> QED BY <1>1, <1>2

\* What the rewrites say: a leaf, a union of leaves, a rewrite.
LeafHolds(p, leaf) ==
    \/ leaf = This /\ \/ DirectlyHeld(p)
                      \/ \E t \in Teams : <<p[1], p[2], t>> \in tuples /\ Meaning(<<t, "member">>)
    \/ leaf[1] = "computed" /\ Meaning(<<p[1], leaf[2]>>)
    \/ leaf[1] = "from" /\ \E o \in Named(tuples, p[1], leaf[3]) : Meaning(<<o, leaf[2]>>)

UnionHolds(p, rw) == \E leaf \in Children(rw) : LeafHolds(p, leaf)

RewriteHolds(p, rw) ==
    CASE rw[1] = "and" -> \A leaf \in rw[2] : LeafHolds(p, leaf)
      [] rw[1] = "but not" -> UnionHolds(p, rw[2]) /\ ~UnionHolds(p, rw[3])
      [] OTHER -> UnionHolds(p, rw)

\* The meaning, relation by relation.
LEMMA MeaningOf ==
    /\ \A o \in Orgs : /\ Meaning(<<o, "member">>) <=> InOrg(tuples, o)
                       /\ \A r \in {"admin", "blocked"} : Meaning(<<o, r>>) <=> <<o, r, User>> \in tuples
    /\ \A t \in Teams : /\ Meaning(<<t, "member">>) <=> InTeam(tuples, t)
                        /\ Meaning(<<t, "maintainer">>) <=> <<t, "maintainer", User>> \in tuples
    /\ \A f \in Folders : \A r : Meaning(<<f, r>>) <=> FolderHolds(tuples, f, r)
    /\ \A p \in Projects : \A r : Meaning(<<p, r>>) <=> ProjectHolds(tuples, p, r)
BY Types DEF Meaning, Holds

\* This, where a relation is granted.
LEMMA ThisHolds ==
    ASSUME tuples \in TupleSets, NEW o \in Objects, NEW r
    PROVE  /\ LeafHolds(<<o, r>>, This) <=> Granted(tuples, o, r)
           /\ ~Allows(ToTeams, o, r) /\ ~Allows(ToEveryone, o, r)
                  => (Granted(tuples, o, r) <=> <<o, r, User>> \in tuples)
<1>1. This[1] = "this" BY DEF This
<1> QED BY <1>1, GrantsTyped, MeaningOf DEF LeafHolds, DirectlyHeld, Granted

\* A leaf that is computed, and one that follows a link.
LEMMA OtherLeaves ==
    ASSUME NEW o, NEW r, NEW s, NEW l
    PROVE  /\ LeafHolds(<<o, r>>, Computed(s)) <=> Meaning(<<o, s>>)
           /\ LeafHolds(<<o, r>>, From(s, l)) <=> \E x \in Named(tuples, o, l) : Meaning(<<x, s>>)
BY DEF LeafHolds, Computed, From, This

\* The recursive relations, from one object to the next.
LEMMA TeamStep ==
    ASSUME tuples \in TupleSets, NEW t \in Teams
    PROVE  InTeam(tuples, t) <=> Granted(tuples, t, "member") \/ <<t, "maintainer", User>> \in tuples
<1>1. t \in Objects /\ Named(tuples, t, "member") \subseteq Teams
  BY Types, LinksTyped DEF Links
<1>2. ~Allows(ToEveryone, t, "member") BY Types DEF Allows, ToEveryone
<1>3. <<t, "member", Everyone>> \notin tuples BY <1>1, <1>2, GrantsTyped
<1>4. t \in Above(tuples, t, "member") BY <1>1, AboveLeast
<1>5. ASSUME InTeam(tuples, t)
      PROVE  Granted(tuples, t, "member") \/ <<t, "maintainer", User>> \in tuples
  <2>1. PICK s \in Above(tuples, t, "member") : \E r \in {"member", "maintainer"} : <<s, r, User>> \in tuples
    BY <1>5 DEF InTeam
  <2>2. CASE s = t BY <2>1, <2>2 DEF Granted
  <2>3. CASE \E x \in Named(tuples, t, "member") : s \in Above(tuples, x, "member")
    BY <1>1, <2>1, <2>3 DEF Granted, InTeam, Named
  <2> QED BY <1>1, <2>2, <2>3, AboveStep
<1>6. ASSUME NEW x \in Teams, <<t, "member", x>> \in tuples, InTeam(tuples, x) PROVE InTeam(tuples, t)
  <2>1. x \in Named(tuples, t, "member") BY <1>6, Types DEF Named
  <2> QED BY <1>1, <1>6, <2>1, AboveStep DEF InTeam
<1>7. \A r \in {"member", "maintainer"} : <<t, r, User>> \in tuples => InTeam(tuples, t)
  BY <1>4 DEF InTeam
<1> QED BY <1>3, <1>5, <1>6, <1>7 DEF Granted

\* A role on a folder is one on it or one on a folder next above it.
LEMMA RoleStep ==
    ASSUME NEW f \in Folders, NEW roles
    PROVE  FolderRole(tuples, f, roles) <=>
               \/ \E r \in roles : Granted(tuples, f, r)
               \/ \E x \in Named(tuples, f, "parent") : FolderRole(tuples, x, roles)
<1>1. f \in Objects BY Types
<1>2. f \in Above(tuples, f, "parent") BY <1>1, AboveLeast
<1> QED BY <1>1, <1>2, AboveStep DEF FolderRole

\* Likewise for being blocked in the organisation of a folder.
LEMMA BlockedStep ==
    ASSUME tuples \in TupleSets, NEW f \in Folders
    PROVE  BlockedInOrg(tuples, f) <=>
               \/ \E o \in Named(tuples, f, "org") : <<o, "blocked", User>> \in tuples
               \/ \E x \in Named(tuples, f, "parent") : BlockedInOrg(tuples, x)
<1>1. f \in Objects BY Types
<1>2. f \in Above(tuples, f, "parent") BY <1>1, AboveLeast
<1>3. \A o : o \in Named(tuples, f, "org") <=> o \in Orgs /\ <<f, "org", o>> \in tuples
  <2>1. \A o \in Named(tuples, f, "org") : o \in Orgs
    <3> TAKE o \in Named(tuples, f, "org")
    <3>1. o \in Objects /\ TypeOf[o] = "org" BY <1>1, LinksTyped DEF Links, LinkTo
    <3> QED BY <3>1, Types DEF Objects
  <2> QED BY <2>1, Types DEF Named
<1> QED BY <1>1, <1>2, <1>3, AboveStep DEF BlockedInOrg

\* A union of leaves holds if one of them does.
LEMMA UnionOf ==
    /\ \A p : UnionHolds(p, This) <=> LeafHolds(p, This)
    /\ \A p, r : UnionHolds(p, Computed(r)) <=> LeafHolds(p, Computed(r))
    /\ \A p, S : UnionHolds(p, Or(S)) <=> \E leaf \in S : LeafHolds(p, leaf)
    /\ \A p, S : RewriteHolds(p, And(S)) <=> \A leaf \in S : LeafHolds(p, leaf)
    /\ \A p, b, s : RewriteHolds(p, ButNot(b, s)) <=> UnionHolds(p, b) /\ ~UnionHolds(p, s)
    /\ \A p, S : RewriteHolds(p, Or(S)) <=> UnionHolds(p, Or(S))
    /\ \A p : RewriteHolds(p, This) <=> UnionHolds(p, This)
BY DEF UnionHolds, RewriteHolds, Children, This, Computed, Or, And, ButNot

\* The rewrites of organisations and teams.
LEMMA OrgTeamMeaning ==
    ASSUME tuples \in TupleSets, NEW o \in Orgs \cup Teams, NEW r \in DOMAIN Relations[TypeOf[o]]
    PROVE  Meaning(<<o, r>>) <=> RewriteHolds(<<o, r>>, RewriteOf(o, r))
<1>1. o \in Objects BY Types
<1>2. CASE o \in Orgs
  <2>1. \A s \in {"admin", "blocked", "member"} : LeafHolds(<<o, s>>, This) <=> <<o, s, User>> \in tuples
    BY <1>1, <1>2, Types, ThisHolds DEF Allows, ToTeams, ToEveryone
  <2>2. r \in {"admin", "blocked", "member"} BY <1>2, Types, RelationNames
  <2>3. CASE r \in {"admin", "blocked"}
    <3>1. RewriteOf(o, r) = This BY <1>2, <2>3, Types DEF RewriteOf, Relations, OrgRelations
    <3> QED BY <1>2, <2>1, <2>3, <3>1, MeaningOf, UnionOf
  <2>4. CASE r = "member"
    <3>1. RewriteOf(o, r) = Or({This, Computed("admin")})
      BY <1>2, <2>4, Types DEF RewriteOf, Relations, OrgRelations
    <3>2. LeafHolds(<<o, r>>, Computed("admin")) <=> <<o, "admin", User>> \in tuples
      BY <1>2, OtherLeaves, MeaningOf
    <3>3. InOrg(tuples, o) <=> <<o, "admin", User>> \in tuples \/ <<o, "member", User>> \in tuples
      BY DEF InOrg
    <3>4. RewriteHolds(<<o, r>>, RewriteOf(o, r)) <=>
              LeafHolds(<<o, r>>, This) \/ LeafHolds(<<o, r>>, Computed("admin"))
      BY <3>1, UnionOf
    <3> QED BY <1>2, <2>1, <2>4, <3>2, <3>3, <3>4, MeaningOf
  <2> QED BY <2>2, <2>3, <2>4
<1>3. CASE o \in Teams
  <2>1. r \in {"maintainer", "member"} BY <1>3, Types, RelationNames
  <2>2. CASE r = "maintainer"
    <3>1. RewriteOf(o, r) = This BY <1>3, <2>2, Types DEF RewriteOf, Relations, TeamRelations
    <3>2. LeafHolds(<<o, r>>, This) <=> <<o, r, User>> \in tuples
      BY <1>1, <1>3, <2>2, Types, ThisHolds DEF Allows, ToTeams, ToEveryone
    <3> QED BY <1>3, <2>2, <3>1, <3>2, MeaningOf, UnionOf
  <2>3. CASE r = "member"
    <3>1. RewriteOf(o, r) = Or({This, Computed("maintainer")})
      BY <1>3, <2>3, Types DEF RewriteOf, Relations, TeamRelations
    <3>2. LeafHolds(<<o, r>>, Computed("maintainer")) <=> <<o, "maintainer", User>> \in tuples
      BY <1>3, OtherLeaves, MeaningOf
    <3>3. LeafHolds(<<o, r>>, This) <=> Granted(tuples, o, "member") BY <1>1, <2>3, ThisHolds
    <3>4. RewriteHolds(<<o, r>>, RewriteOf(o, r)) <=>
              LeafHolds(<<o, r>>, This) \/ LeafHolds(<<o, r>>, Computed("maintainer"))
      BY <3>1, UnionOf
    <3> QED BY <1>3, <2>3, <3>2, <3>3, <3>4, MeaningOf, TeamStep
  <2> QED BY <2>1, <2>2, <2>3
<1> QED BY <1>2, <1>3

\* The relations of folders.
LEMMA FolderMeans ==
    ASSUME NEW f \in Folders
    PROVE  /\ Meaning(<<f, "owner">>) <=> Granted(tuples, f, "owner")
           /\ Meaning(<<f, "manager">>) <=> FolderRole(tuples, f, {"owner"})
           /\ Meaning(<<f, "editor">>) <=> FolderRole(tuples, f, {"owner", "editor"})
           /\ Meaning(<<f, "viewer">>) <=> FolderRole(tuples, f, {"owner", "editor", "viewer"})
           /\ Meaning(<<f, "blocked_in_org">>) <=> BlockedInOrg(tuples, f)
BY MeaningOf DEF FolderHolds

\* The rewrites of folders.
LEMMA FolderMeaning ==
    ASSUME tuples \in TupleSets, NEW f \in Folders, NEW r \in DOMAIN Relations[TypeOf[f]]
    PROVE  Meaning(<<f, r>>) <=> RewriteHolds(<<f, r>>, RewriteOf(f, r))
<1>1. f \in Objects /\ TypeOf[f] = "folder" BY Types
<1>2. r \in {"owner", "manager", "editor", "viewer", "blocked_in_org"} BY <1>1, RelationNames
<1>3. LeafHolds(<<f, r>>, This) <=> Granted(tuples, f, r) BY <1>1, ThisHolds
<1>4. \A x \in Named(tuples, f, "parent") : x \in Folders
  <2> TAKE x \in Named(tuples, f, "parent")
  <2>1. x \in Objects /\ TypeOf[x] = "folder" BY <1>1, LinksTyped DEF Links, LinkTo
  <2> QED BY <2>1, Types DEF Objects
<1>5. \A x \in Named(tuples, f, "org") : x \in Orgs
  <2> TAKE x \in Named(tuples, f, "org")
  <2>1. x \in Objects /\ TypeOf[x] = "org" BY <1>1, LinksTyped DEF Links, LinkTo
  <2> QED BY <2>1, Types DEF Objects
<1>6. CASE r = "owner"
  <2>1. RewriteOf(f, r) = This BY <1>1, <1>6 DEF RewriteOf, Relations, FolderRelations
  <2> QED BY <1>3, <1>6, <2>1, MeaningOf, UnionOf DEF FolderHolds
<1>7. CASE r = "manager"
  <2>1. RewriteOf(f, r) = Or({Computed("owner"), From("manager", "parent")})
    BY <1>1, <1>7 DEF RewriteOf, Relations, FolderRelations
  <2>2. RewriteHolds(<<f, r>>, RewriteOf(f, r)) <=>
            LeafHolds(<<f, r>>, Computed("owner")) \/ LeafHolds(<<f, r>>, From("manager", "parent"))
    BY <2>1, UnionOf
  <2>3. LeafHolds(<<f, r>>, Computed("owner")) <=> Granted(tuples, f, "owner")
    BY OtherLeaves, FolderMeans
  <2>4. LeafHolds(<<f, r>>, From("manager", "parent")) <=>
            \E x \in Named(tuples, f, "parent") : FolderRole(tuples, x, {"owner"})
    BY <1>4, OtherLeaves, FolderMeans
  <2>5. Meaning(<<f, r>>) <=> FolderRole(tuples, f, {"owner"}) BY <1>7, FolderMeans
  <2> QED BY <2>2, <2>3, <2>4, <2>5, RoleStep
<1>8. CASE r = "editor"
  <2>1. RewriteOf(f, r) = Or({This, Computed("owner"), From("editor", "parent")})
    BY <1>1, <1>8 DEF RewriteOf, Relations, FolderRelations
  <2>2. RewriteHolds(<<f, r>>, RewriteOf(f, r)) <=>
            \/ LeafHolds(<<f, r>>, This) \/ LeafHolds(<<f, r>>, Computed("owner"))
            \/ LeafHolds(<<f, r>>, From("editor", "parent"))
    BY <2>1, UnionOf
  <2>3. LeafHolds(<<f, r>>, Computed("owner")) <=> Granted(tuples, f, "owner")
    BY OtherLeaves, FolderMeans
  <2>4. LeafHolds(<<f, r>>, From("editor", "parent")) <=>
            \E x \in Named(tuples, f, "parent") : FolderRole(tuples, x, {"owner", "editor"})
    BY <1>4, OtherLeaves, FolderMeans
  <2>5. Meaning(<<f, r>>) <=> FolderRole(tuples, f, {"owner", "editor"})
    BY <1>8, FolderMeans
  <2> QED BY <1>3, <1>8, <2>2, <2>3, <2>4, <2>5, RoleStep
<1>9. CASE r = "viewer"
  <2>1. RewriteOf(f, r) = Or({This, Computed("editor"), From("viewer", "parent")})
    BY <1>1, <1>9 DEF RewriteOf, Relations, FolderRelations
  <2>2. RewriteHolds(<<f, r>>, RewriteOf(f, r)) <=>
            \/ LeafHolds(<<f, r>>, This) \/ LeafHolds(<<f, r>>, Computed("editor"))
            \/ LeafHolds(<<f, r>>, From("viewer", "parent"))
    BY <2>1, UnionOf
  <2>3. LeafHolds(<<f, r>>, Computed("editor")) <=> FolderRole(tuples, f, {"owner", "editor"})
    BY OtherLeaves, FolderMeans
  <2>4. LeafHolds(<<f, r>>, From("viewer", "parent")) <=>
            \E x \in Named(tuples, f, "parent") : FolderRole(tuples, x, {"owner", "editor", "viewer"})
    BY <1>4, OtherLeaves, FolderMeans
  <2>5. Meaning(<<f, r>>) <=> FolderRole(tuples, f, {"owner", "editor", "viewer"})
    BY <1>9, FolderMeans
  <2>6. FolderRole(tuples, f, {"owner", "editor"}) => FolderRole(tuples, f, {"owner", "editor", "viewer"})
    BY DEF FolderRole
  <2>7. Granted(tuples, f, "owner") \/ Granted(tuples, f, "editor") => FolderRole(tuples, f, {"owner", "editor"})
    BY RoleStep
  <2> QED BY <1>3, <1>9, <2>2, <2>3, <2>4, <2>5, <2>6, <2>7, RoleStep
<1>10. CASE r = "blocked_in_org"
  <2>1. RewriteOf(f, r) = Or({From("blocked", "org"), From("blocked_in_org", "parent")})
    BY <1>1, <1>10 DEF RewriteOf, Relations, FolderRelations
  <2>2. RewriteHolds(<<f, r>>, RewriteOf(f, r)) <=>
            LeafHolds(<<f, r>>, From("blocked", "org")) \/ LeafHolds(<<f, r>>, From("blocked_in_org", "parent"))
    BY <2>1, UnionOf
  <2>3. LeafHolds(<<f, r>>, From("blocked", "org")) <=>
            \E o \in Named(tuples, f, "org") : <<o, "blocked", User>> \in tuples
    BY <1>5, OtherLeaves, MeaningOf
  <2>4. LeafHolds(<<f, r>>, From("blocked_in_org", "parent")) <=>
            \E x \in Named(tuples, f, "parent") : BlockedInOrg(tuples, x)
    BY <1>4, OtherLeaves, FolderMeans
  <2>5. Meaning(<<f, r>>) <=> BlockedInOrg(tuples, f) BY <1>10, FolderMeans
  <2> QED BY <2>2, <2>3, <2>4, <2>5, BlockedStep
<1> QED BY <1>2, <1>6, <1>7, <1>8, <1>9, <1>10

\* The rewrites of projects.
LEMMA ProjectMeaning ==
    ASSUME tuples \in TupleSets, NEW p \in Projects, NEW r \in DOMAIN Relations[TypeOf[p]]
    PROVE  Meaning(<<p, r>>) <=> RewriteHolds(<<p, r>>, RewriteOf(p, r))
<1>1. p \in Objects /\ TypeOf[p] = "project" BY Types
<1>2. r \in {"owner", "contributor", "viewer", "blocked", "member", "can_manage", "is_blocked",
             "can_edit", "can_view", "can_share"}
  BY <1>1, RelationNames
<1>3. LeafHolds(<<p, r>>, This) <=> Granted(tuples, p, r) BY <1>1, ThisHolds
<1>4. \A x \in Named(tuples, p, "folder") : x \in Folders
  <2> TAKE x \in Named(tuples, p, "folder")
  <2>1. x \in Objects /\ TypeOf[x] = "folder" BY <1>1, LinksTyped DEF Links, LinkTo
  <2> QED BY <2>1, Types DEF Objects
<1>5. \A x \in Named(tuples, p, "org") : x \in Orgs
  <2> TAKE x \in Named(tuples, p, "org")
  <2>1. x \in Objects /\ TypeOf[x] = "org" BY <1>1, LinksTyped DEF Links, LinkTo
  <2> QED BY <2>1, Types DEF Objects
\* The leaves that the rewrites of projects are made of.
<1>6. /\ \A s \in {"owner", "contributor", "viewer"} :
             LeafHolds(<<p, r>>, Computed(s)) <=> Granted(tuples, p, s)
      /\ LeafHolds(<<p, r>>, Computed("blocked")) <=> <<p, "blocked", User>> \in tuples
      /\ LeafHolds(<<p, r>>, Computed("member")) <=> IsMember(tuples, p)
      /\ LeafHolds(<<p, r>>, Computed("can_manage")) <=> CanManage(tuples, p)
      /\ LeafHolds(<<p, r>>, Computed("is_blocked")) <=> IsBlocked(tuples, p)
      /\ LeafHolds(<<p, r>>, Computed("can_edit")) <=> CanEdit(tuples, p)
  BY OtherLeaves, MeaningOf DEF ProjectHolds
<1>7. /\ LeafHolds(<<p, r>>, From("admin", "org")) <=>
             \E o \in Named(tuples, p, "org") : <<o, "admin", User>> \in tuples
      /\ LeafHolds(<<p, r>>, From("blocked", "org")) <=>
             \E o \in Named(tuples, p, "org") : <<o, "blocked", User>> \in tuples
      /\ LeafHolds(<<p, r>>, From("member", "org")) <=>
             \E o \in Named(tuples, p, "org") : InOrg(tuples, o)
  BY <1>5, OtherLeaves, MeaningOf
<1>8. /\ LeafHolds(<<p, r>>, From("manager", "folder")) <=>
             \E f \in Named(tuples, p, "folder") : FolderRole(tuples, f, {"owner"})
      /\ LeafHolds(<<p, r>>, From("editor", "folder")) <=>
             \E f \in Named(tuples, p, "folder") : FolderRole(tuples, f, {"owner", "editor"})
      /\ LeafHolds(<<p, r>>, From("viewer", "folder")) <=>
             \E f \in Named(tuples, p, "folder") : FolderRole(tuples, f, {"owner", "editor", "viewer"})
      /\ LeafHolds(<<p, r>>, From("blocked_in_org", "folder")) <=>
             \E f \in Named(tuples, p, "folder") : BlockedInOrg(tuples, f)
  BY <1>4, OtherLeaves, FolderMeans
<1>9. CASE r \in {"owner", "contributor", "viewer", "blocked"}
  <2>1. RewriteOf(p, r) = This BY <1>1, <1>9 DEF RewriteOf, Relations, ProjectRelations
  <2>2. Granted(tuples, p, "blocked") <=> <<p, "blocked", User>> \in tuples
    BY <1>1, ThisHolds DEF Allows, ToTeams, ToEveryone
  <2>3. Meaning(<<p, r>>) <=> Granted(tuples, p, r) BY <1>9, <2>2, MeaningOf DEF ProjectHolds
  <2> QED BY <1>3, <2>1, <2>3, UnionOf
<1>10. CASE r = "member"
  <2>1. RewriteOf(p, r) = Or({Computed("owner"), Computed("contributor"), Computed("viewer")})
    BY <1>1, <1>10 DEF RewriteOf, Relations, ProjectRelations
  <2>2. Meaning(<<p, r>>) <=> IsMember(tuples, p) BY <1>10, MeaningOf DEF ProjectHolds
  <2> QED BY <1>6, <2>1, <2>2, UnionOf DEF IsMember
<1>11. CASE r = "can_manage"
  <2>1. RewriteOf(p, r) = Or({Computed("owner"), From("admin", "org"), From("manager", "folder")})
    BY <1>1, <1>11 DEF RewriteOf, Relations, ProjectRelations
  <2>2. Meaning(<<p, r>>) <=> CanManage(tuples, p) BY <1>11, MeaningOf DEF ProjectHolds
  <2> QED BY <1>6, <1>7, <1>8, <2>1, <2>2, UnionOf DEF CanManage
<1>12. CASE r = "is_blocked"
  <2>1. RewriteOf(p, r) = Or({Computed("blocked"), From("blocked", "org"), From("blocked_in_org", "folder")})
    BY <1>1, <1>12 DEF RewriteOf, Relations, ProjectRelations
  <2>2. Meaning(<<p, r>>) <=> IsBlocked(tuples, p) BY <1>12, MeaningOf DEF ProjectHolds
  <2> QED BY <1>6, <1>7, <1>8, <2>1, <2>2, UnionOf DEF IsBlocked
<1>13. CASE r = "can_edit"
  <2> DEFINE base == Or({Computed("contributor"), From("editor", "folder"), Computed("can_manage")})
  <2>1. RewriteOf(p, r) = ButNot(base, Computed("is_blocked"))
    BY <1>1, <1>13 DEF RewriteOf, Relations, ProjectRelations
  <2>2. Meaning(<<p, r>>) <=> CanEdit(tuples, p) BY <1>13, MeaningOf DEF ProjectHolds
  <2>3. UnionHolds(<<p, r>>, base) <=> \/ Granted(tuples, p, "contributor")
                                       \/ CanManage(tuples, p)
                                       \/ \E f \in Named(tuples, p, "folder") :
                                              FolderRole(tuples, f, {"owner", "editor"})
    BY <1>6, <1>8, UnionOf
  <2> HIDE DEF base
  <2>4. UnionHolds(<<p, r>>, Computed("is_blocked")) <=> IsBlocked(tuples, p) BY <1>6, UnionOf
  <2> QED BY <2>1, <2>2, <2>3, <2>4, UnionOf DEF CanEdit
<1>14. CASE r = "can_view"
  <2> DEFINE base == Or({Computed("member"), From("viewer", "folder"), Computed("can_manage")})
  <2>1. RewriteOf(p, r) = ButNot(base, Computed("is_blocked"))
    BY <1>1, <1>14 DEF RewriteOf, Relations, ProjectRelations
  <2>2. Meaning(<<p, r>>) <=> CanView(tuples, p) BY <1>14, MeaningOf DEF ProjectHolds
  <2>3. UnionHolds(<<p, r>>, base) <=> \/ IsMember(tuples, p)
                                       \/ CanManage(tuples, p)
                                       \/ \E f \in Named(tuples, p, "folder") :
                                              FolderRole(tuples, f, {"owner", "editor", "viewer"})
    BY <1>6, <1>8, UnionOf
  <2> HIDE DEF base
  <2>4. UnionHolds(<<p, r>>, Computed("is_blocked")) <=> IsBlocked(tuples, p) BY <1>6, UnionOf
  <2> QED BY <2>1, <2>2, <2>3, <2>4, UnionOf DEF CanView
<1>15. CASE r = "can_share"
  <2>1. RewriteOf(p, r) = And({Computed("can_edit"), From("member", "org")})
    BY <1>1, <1>15 DEF RewriteOf, Relations, ProjectRelations
  <2>2. Meaning(<<p, r>>) <=> CanShare(tuples, p) BY <1>15, MeaningOf DEF ProjectHolds
  <2> QED BY <1>6, <1>7, <2>1, <2>2, UnionOf DEF CanShare
<1> QED BY <1>2, <1>9, <1>10, <1>11, <1>12, <1>13, <1>14, <1>15

\* The model means what its comments say: on every store, the rewrite that
\* OpenFGA is given for a relation (core.fga:7-22, projects.fga:5-40), with
\* the relations it refers to read as the comments have them, holds of an
\* object exactly if the relation's own reading does.
THEOREM MeaningOfRewrites ==
    ASSUME tuples \in TupleSets, NEW p \in Problems
    PROVE  Meaning(p) <=> RewriteHolds(p, RewriteOf(p[1], p[2]))
<1>1. p[1] \in Objects /\ p[2] \in DOMAIN Relations[TypeOf[p[1]]] /\ p = <<p[1], p[2]>> BY ProblemsAre
<1>2. p[1] \in (Orgs \cup Teams) \cup Folders \cup Projects BY <1>1 DEF Objects
<1> QED BY <1>1, <1>2, OrgTeamMeaning, FolderMeaning, ProjectMeaning

(***************************************************************************)
(* The recursive strategy.                                                  *)
(***************************************************************************)
\* The user's teams: the ones that name the user.
LEMMA UserTeamsAre ==
    ASSUME NEW t
    PROVE  t \in UserTeams <=> t \in Teams /\ \E r \in {"member", "maintainer"} : <<t, r, User>> \in tuples
<1>1. ASSUME t \in Teams PROVE Children(RewriteOf(t, "member")) = {This, Computed("maintainer")}
  BY <1>1, Types DEF RewriteOf, Relations, TeamRelations, Children, Or
<1>2. ASSUME t \in Teams, NEW r \in {"member", "maintainer"}
      PROVE  DirectlyHeld(<<t, r>>) <=> <<t, r, User>> \in tuples
  BY <1>2, Types DEF DirectlyHeld, Allows, ToEveryone
<1>3. ASSUME t \in Teams
      PROVE  WeightTwo(<<t, "member">>) <=> DirectlyHeld(<<t, "member">>) \/ DirectlyHeld(<<t, "maintainer">>)
  <2>1. /\ This[1] = "this"
        /\ Computed("maintainer")[1] = "computed" /\ Computed("maintainer")[2] = "maintainer"
    BY DEF This, Computed
  <2> QED BY <1>1, <1>3, <2>1 DEF WeightTwo
<1> QED BY <1>2, <1>3 DEF UserTeams

\* A team that leads to one of the user's teams.
Leads(x) == \E t \in UserTeams : t \in Above(tuples, x, "member")

\* The user is in the teams that lead to the user's.
LEMMA LeadsInTeam ==
    ASSUME tuples \in TupleSets, NEW x \in Teams
    PROVE  Leads(x) <=> InTeam(tuples, x)
<1>1. x \in Objects BY Types
<1>2. Above(tuples, x, "member") \subseteq Teams
  <2>1. \A y \in Teams \cap Objects : Named(tuples, y, "member") \subseteq Teams
    BY LinksTyped DEF Links
  <2> QED BY <1>1, <2>1, AboveLeast
<1> QED BY <1>2, UserTeamsAre DEF Leads, InTeam

\* The next level of a search.
Deeper(s) == [level |-> SubTeams(s.level \ s.visited), visited |-> s.visited \cup s.level, depth |-> s.depth + 1]

\* The search as it is defined: the function exists.
LEMMA MatchDef ==
    /\ Match = [s \in Searches |->
                  IF s.depth + 1 = MaxDepth THEN {"error"}
                  ELSE IF s.level = {} THEN {"no"}
                  ELSE IF SubTeams(s.level \ s.visited) \cap UserTeams # {} THEN {"yes"}
                  ELSE Match[Deeper(s)]]
    /\ \A s \in Searches : s.depth + 1 # MaxDepth =>
          Deeper(s) \in Searches /\ MaxDepth - Deeper(s).depth < MaxDepth - s.depth
<1> DEFINE V == SUBSET Outcomes
           Body(f, s) == IF s.depth + 1 = MaxDepth THEN {"error"}
                         ELSE IF s.level = {} THEN {"no"}
                         ELSE IF SubTeams(s.level \ s.visited) \cap UserTeams # {} THEN {"yes"}
                         ELSE f[Deeper(s)]
           rank == [s \in Searches |-> MaxDepth - s.depth]
           Step == [f \in [Searches -> V] |-> [s \in Searches |-> Body(f, s)]]
<1>1. MaxDepth \in Nat \ {0} BY ResolverAssumption
<1>2. \A s \in Searches : s.depth + 1 # MaxDepth =>
          Deeper(s) \in Searches /\ MaxDepth - Deeper(s).depth < MaxDepth - s.depth
  <2> TAKE s \in Searches
  <2>1. s.depth \in 0..(MaxDepth - 1) /\ s.level \subseteq Objects /\ s.visited \subseteq Objects
    BY DEF Searches
  <2>2. SubTeams(s.level \ s.visited) \subseteq Objects BY DEF SubTeams, Named
  <2> HAVE s.depth + 1 # MaxDepth
  <2>3. s.depth + 1 \in 0..(MaxDepth - 1) BY <1>1, <2>1
  <2>4. Deeper(s) \in Searches BY <2>1, <2>2, <2>3 DEF Searches, Deeper
  <2>5. Deeper(s).depth = s.depth + 1 BY DEF Deeper
  <2> QED BY <1>1, <2>1, <2>4, <2>5
<1>3. rank \in [Searches -> Nat] /\ \A s \in Searches : rank[s] < MaxDepth + 1
  BY <1>1 DEF Searches
<1>4. ASSUME NEW f \in [Searches -> V], NEW s \in Searches PROVE Body(f, s) \in V
  BY <1>2 DEF Outcomes
<1>5. Step \in [[Searches -> V] -> [Searches -> V]] BY <1>4
<1>6. ASSUME NEW f \in [Searches -> V], NEW g \in [Searches -> V], NEW s \in Searches,
             \A d \in Searches : rank[d] < rank[s] => f[d] = g[d]
      PROVE  Step[f][s] = Step[g][s]
  <2>1. s.depth + 1 # MaxDepth => f[Deeper(s)] = g[Deeper(s)] BY <1>2, <1>6
  <2> QED BY <2>1
<1>7. \E f \in [Searches -> V] : f = Step[f]
  <2>1. V # {} /\ MaxDepth + 1 \in Nat BY <1>1
  <2>2. \A f, g \in [Searches -> V] : \A s \in Searches :
            (\A d \in Searches : rank[d] < rank[s] => f[d] = g[d]) => Step[f][s] = Step[g][s]
    BY <1>6
  <2>3. Recursion(Searches, V, rank, MaxDepth + 1, Step)
    <3> HIDE DEF V, rank, Step
    <3> QED BY <1>3, <1>5, <2>1, <2>2 DEF Recursion
  <2> HIDE DEF V, rank, Step
  <2> QED BY <2>3, FixedPoint
<1>8. \E f : f = [s \in Searches |-> Body(f, s)] BY <1>7
<1> QED BY <1>2, <1>8, Zenon DEF Match, Deeper

\* What a search of the levels below a team answers.  Explored is what it has
\* looked at: no team of the user's, and all that is named by a visited one.
Explored(s) ==
    /\ \A x \in s.visited : Named(tuples, x, "member") \subseteq s.visited \cup s.level
    /\ (s.visited \cup s.level) \cap UserTeams = {}

\* Nothing that is reached from these teams is a team of the user's.
Fruitless(S) == \E C \in SUBSET Objects :
    S \subseteq C /\ Closed(tuples, "member", C) /\ C \cap UserTeams = {}

MatchRight(s) ==
    /\ Match[s] \subseteq {"yes", "no", "error"}
    /\ "yes" \in Match[s] => \E x \in s.level : Leads(x)
    /\ "no" \in Match[s] /\ Explored(s) => Fruitless(s.level)

\* One level of the search.
LEMMA MatchStep ==
    ASSUME NEW s \in Searches, s.depth + 1 # MaxDepth => MatchRight(Deeper(s))
    PROVE  MatchRight(s)
<1> DEFINE below == SubTeams(s.level \ s.visited)
<1>1. CASE s.depth + 1 = MaxDepth
  <2>1. Match[s] = {"error"} BY <1>1, MatchDef
  <2> QED BY <2>1 DEF MatchRight
<1>2. CASE s.depth + 1 # MaxDepth /\ s.level = {}
  <2>1. Match[s] = {"no"} BY <1>2, MatchDef
  <2>2. Fruitless(s.level) BY <1>2 DEF Fruitless, Closed
  <2> QED BY <2>1, <2>2 DEF MatchRight
<1>3. CASE s.depth + 1 # MaxDepth /\ s.level # {} /\ below \cap UserTeams # {}
  <2>1. Match[s] = {"yes"} BY <1>3, MatchDef
  <2>2. PICK y \in below \cap UserTeams : TRUE BY <1>3
  <2>3. PICK x \in s.level : y \in Named(tuples, x, "member") BY <2>2 DEF SubTeams
  <2>4. x \in Objects /\ y \in Objects BY <2>3 DEF Searches, Named
  <2>5. y \in Above(tuples, x, "member") BY <2>3, <2>4, AboveLeast
  <2> QED BY <2>1, <2>2, <2>3, <2>5 DEF MatchRight, Leads
<1>4. CASE s.depth + 1 # MaxDepth /\ s.level # {} /\ below \cap UserTeams = {}
  <2>1. Match[s] = Match[Deeper(s)] /\ MatchRight(Deeper(s)) BY <1>4, MatchDef
  <2>2. /\ Deeper(s).level = below /\ Deeper(s).visited = s.visited \cup s.level
    BY DEF Deeper
  <2>3. ASSUME NEW y \in below, Leads(y) PROVE \E x \in s.level : Leads(x)
    <3>1. PICK x \in s.level : y \in Named(tuples, x, "member") BY DEF SubTeams
    <3>2. x \in Objects BY DEF Searches
    <3>3. Above(tuples, y, "member") \subseteq Above(tuples, x, "member") BY <3>1, <3>2, AboveStep
    <3> QED BY <2>3, <3>1, <3>3 DEF Leads
  <2>4. ASSUME Explored(s) PROVE Explored(Deeper(s))
    <3>1. ASSUME NEW x \in s.visited \cup s.level
          PROVE  Named(tuples, x, "member") \subseteq s.visited \cup s.level \cup below
      <4>1. CASE x \in s.visited BY <2>4, <4>1 DEF Explored
      <4>2. CASE x \in s.level \ s.visited BY <4>2 DEF SubTeams
      <4> QED BY <4>1, <4>2
    <3> QED BY <1>4, <2>2, <2>4, <3>1 DEF Explored
  <2>5. ASSUME Explored(s), Fruitless(below) PROVE Fruitless(s.level)
    <3>1. PICK C \in SUBSET Objects :
            below \subseteq C /\ Closed(tuples, "member", C) /\ C \cap UserTeams = {}
      BY <2>5 DEF Fruitless
    <3> DEFINE D == C \cup s.visited \cup s.level
    <3>2. D \in SUBSET Objects BY DEF Searches
    <3>3. D \cap UserTeams = {} BY <2>5, <3>1 DEF Explored
    <3>4. ASSUME NEW x \in D PROVE Named(tuples, x, "member") \subseteq D
      <4>1. CASE x \in C BY <3>1, <4>1 DEF Closed
      <4>2. CASE x \in s.visited BY <2>5, <4>2 DEF Explored
      <4>3. CASE x \in s.level \ s.visited BY <3>1, <4>3 DEF SubTeams
      <4> QED BY <4>1, <4>2, <4>3
    <3> QED BY <3>2, <3>3, <3>4 DEF Fruitless, Closed
  <2> QED BY <2>1, <2>2, <2>3, <2>4, <2>5 DEF MatchRight
<1> QED BY <1>1, <1>2, <1>3, <1>4

\* A search is right at every depth.
LEMMA MatchIsRight == \A s \in Searches : MatchRight(s)
<1> DEFINE P == {n \in Nat : \A s \in Searches : MaxDepth - s.depth < n => MatchRight(s)}
<1>1. MaxDepth \in Nat /\ \A s \in Searches : s.depth \in Nat /\ MaxDepth - s.depth \in Nat
  BY ResolverAssumption DEF Searches
<1>2. 0 \in P BY <1>1
<1>3. ASSUME NEW n \in Nat, n \in P PROVE n + 1 \in P
  <2>1. ASSUME NEW s \in Searches, MaxDepth - s.depth < n + 1 PROVE MatchRight(s)
    <3>1. s.depth + 1 # MaxDepth => MatchRight(Deeper(s))
      <4> HAVE s.depth + 1 # MaxDepth
      <4>1. Deeper(s) \in Searches /\ MaxDepth - Deeper(s).depth < MaxDepth - s.depth BY MatchDef
      <4> QED BY <1>1, <1>3, <2>1, <4>1
    <3> QED BY <3>1, MatchStep
  <2> QED BY <2>1
<1>4. Nat \subseteq P
  <2> HIDE DEF P
  <2> QED BY <1>2, <1>3, NatSets
<1> TAKE s \in Searches
<1>5. MaxDepth - s.depth + 1 \in P BY <1>1, <1>4
<1> QED BY <1>1, <1>5

\* The strategy finds out whether the user is in a team below this one.
LEMMA RecursiveRight ==
    ASSUME tuples \in TupleSets, NEW t \in Teams, NEW depth \in 0..(MaxDepth - 1)
    PROVE  /\ Recursive(t, depth) \subseteq {"yes", "no", "error"}
           /\ "yes" \in Recursive(t, depth) => \E x \in Named(tuples, t, "member") : InTeam(tuples, x)
           /\ "no" \in Recursive(t, depth) => \A x \in Named(tuples, t, "member") : ~InTeam(tuples, x)
<1> DEFINE level == Named(tuples, t, "member")
           s == [level |-> level, visited |-> {}, depth |-> depth]
<1>1. SubTeams({t}) = level BY DEF SubTeams
<1>2. \A x \in level : x \in Teams /\ (Leads(x) <=> InTeam(tuples, x))
  BY Types, LinksTyped, LeadsInTeam DEF Links
<1>3. CASE level = {} \/ UserTeams = {}
  <2>1. Recursive(t, depth) = {"no"} BY <1>1, <1>3 DEF Recursive
  <2> QED BY <1>2, <1>3, <2>1 DEF Leads
<1>4. CASE level # {} /\ UserTeams # {} /\ level \cap UserTeams # {}
  <2>1. Recursive(t, depth) = {"yes"} BY <1>1, <1>4 DEF Recursive
  <2>2. PICK x \in level : x \in UserTeams BY <1>4
  <2>3. x \in Above(tuples, x, "member") BY <1>2, Types, AboveLeast
  <2> QED BY <1>2, <2>1, <2>2, <2>3 DEF Leads
<1>5. CASE level # {} /\ UserTeams # {} /\ level \cap UserTeams = {}
  <2>1. Recursive(t, depth) = Match[s] BY <1>1, <1>5 DEF Recursive
  <2>2. s \in Searches BY DEF Searches, Named
  <2>3. Explored(s) BY <1>5 DEF Explored
  <2>4. MatchRight(s) /\ s.level = level BY <2>2, MatchIsRight
  <2>5. ASSUME Fruitless(level), NEW x \in level PROVE ~Leads(x)
    <3>1. PICK C \in SUBSET Objects :
            level \subseteq C /\ Closed(tuples, "member", C) /\ C \cap UserTeams = {}
      BY <2>5 DEF Fruitless
    <3>2. Above(tuples, x, "member") \subseteq C BY <1>2, <3>1, Types, AboveLeast DEF Closed
    <3> QED BY <3>1, <3>2 DEF Leads
  <2> QED BY <1>2, <2>1, <2>3, <2>4, <2>5 DEF MatchRight
<1> QED BY <1>3, <1>4, <1>5

(***************************************************************************)
(* The calls of an evaluation.                                              *)
(***************************************************************************)
\* There are finitely many problems.
LEMMA ProblemsFinite == IsFiniteSet(Problems)
<1> DEFINE A == {"admin", "member", "blocked", "maintainer", "owner"}
           B == {"manager", "editor", "viewer", "blocked_in_org", "contributor"}
           C == {"can_manage", "is_blocked", "can_edit", "can_view", "can_share"}
           names == A \cup B \cup C
<1>1. IsFiniteSet(names)
  <2>1. ASSUME NEW a, NEW b, NEW c, NEW d, NEW e PROVE IsFiniteSet({a, b, c, d, e})
    <3>1. \A S, x : IsFiniteSet(S) => IsFiniteSet(S \cup {x}) BY FS_AddElement
    <3>2. IsFiniteSet((((({} \cup {a}) \cup {b}) \cup {c}) \cup {d}) \cup {e}) BY <3>1, FS_EmptySet
    <3>3. (((({} \cup {a}) \cup {b}) \cup {c}) \cup {d}) \cup {e} = {a, b, c, d, e} OBVIOUS
    <3> QED BY <3>2, <3>3
  <2>2. IsFiniteSet(A) /\ IsFiniteSet(B) /\ IsFiniteSet(C) BY <2>1
  <2> HIDE DEF A, B, C
  <2> QED BY <2>2, FS_Union
<1>2. UNION {DOMAIN Relations[t] : t \in DOMAIN Relations} \subseteq names BY RelationNames
<1>3. IsFiniteSet(Objects \X names) BY <1>1, ObjectsAssumption, FS_Product
<1>4. Problems \subseteq Objects \X names BY <1>2 DEF Problems
<1> QED BY <1>3, <1>4, FS_Subset

\* The problems a call has not visited.
Unseen(c) == Cardinality(Problems \ c.seen)

\* The calls a call may make, by their paths and modes.
Made(c) == {d \in Calls : d.seen = Path(c) /\ d.mode \in {c.mode, Counted(c)}}

\* Every call leaves fewer problems to visit.
LEMMA UnseenFalls ==
    ASSUME NEW c \in Calls
    PROVE  /\ Unseen(c) \in Nat /\ Unseen(c) < Cardinality(Problems) + 1 /\ Cardinality(Problems) + 1 \in Nat
           /\ ~Repeats(c) => \A d \in Made(c) : Unseen(d) < Unseen(c)
<1>1. c.at \in Problems /\ c.seen \subseteq Problems BY DEF Calls
<1>2. /\ IsFiniteSet(Problems \ c.seen) /\ Cardinality(Problems \ c.seen) \in Nat
      /\ Cardinality(Problems) \in Nat /\ Cardinality(Problems \ c.seen) <= Cardinality(Problems)
  BY ProblemsFinite, FS_Subset, FS_CardinalityType
<1>3. ASSUME ~Repeats(c), NEW d \in Made(c) PROVE Unseen(d) < Unseen(c)
  <2>1. Problems \ d.seen = (Problems \ c.seen) \ {c.at} /\ c.at \in Problems \ c.seen
    BY <1>1, <1>3 DEF Made, Path, Repeats
  <2>2. Cardinality((Problems \ c.seen) \ {c.at}) = Cardinality(Problems \ c.seen) - 1
    BY <1>2, <2>1, FS_RemoveElement
  <2> QED BY <1>2, <2>1, <2>2 DEF Unseen
<1>4. \A m, n \in Nat : m <= n => m < n + 1 /\ n + 1 \in Nat OBVIOUS
<1> QED BY <1>2, <1>3, <1>4 DEF Unseen

\* The calls that a leaf makes are such calls.
LEMMA CallsMade ==
    ASSUME tuples \in TupleSets, NEW c \in Calls, c.depth # MaxDepth,
           NEW leaf, IsLeaf(TypeOf[c.at[1]], leaf)
    PROVE  /\ Dispatched(c, leaf) \subseteq Made(c)
           /\ leaf[1] = "computed" => Sideways(c, leaf) \in Made(c)
<1>1. /\ c.at \in Problems /\ c.at[1] \in Objects /\ c.depth \in 0..MaxDepth
      /\ Path(c) \in SUBSET Problems /\ c.mode \in Modes /\ Counted(c) \in Modes
  BY ProblemsAre DEF Calls, Path, Counted, Modes
<1>2. c.depth + 1 \in 0..MaxDepth BY <1>1, ResolverAssumption
<1>3. ASSUME NEW q \in Problems, NEW d \in {c.depth, c.depth + 1}, NEW m \in {c.mode, Counted(c)}
      PROVE  Call(q, Path(c), d, m) \in Made(c)
  BY <1>1, <1>2, <1>3 DEF Call, Calls, Made
<1>4. CASE leaf = This
  <2>1. leaf[1] = "this" BY <1>4 DEF This
  <2>2. ASSUME Allows(ToTeams, c.at[1], c.at[2]), NEW t \in Named(tuples, c.at[1], c.at[2])
        PROVE  <<t, "member">> \in Problems
    <3>1. t \in Teams BY <1>1, <2>2, GrantsTyped
    <3> QED BY <3>1, Types, RelationNames, ProblemsAre
  <2> QED BY <1>3, <2>1, <2>2 DEF Dispatched
<1>5. CASE \E r \in DOMAIN Relations[TypeOf[c.at[1]]] : leaf = Computed(r)
  <2>1. leaf[1] = "computed" /\ <<c.at[1], leaf[2]>> \in Problems
    BY <1>1, <1>5, ProblemsAre DEF Computed
  <2> QED BY <1>3, <2>1 DEF Dispatched, Sideways
<1>6. CASE \E l \in Links : \E r \in DOMAIN Relations[LinkTo[l]] : leaf = From(r, l)
  <2>1. leaf[1] = "from" /\ leaf[3] \in Links /\ leaf[2] \in DOMAIN Relations[LinkTo[leaf[3]]]
    BY <1>6 DEF From
  <2>2. \A o \in Named(tuples, c.at[1], leaf[3]) : <<o, leaf[2]>> \in Problems
    BY <1>1, <2>1, LinksTyped, ProblemsAre
  <2> QED BY <1>3, <2>1, <2>2 DEF Dispatched
<1> QED BY <1>4, <1>5, <1>6 DEF IsLeaf

\* Induction on calls: what holds of a call if it holds of the calls it makes.
LEMMA CallInduction ==
    ASSUME NEW S, \A c \in Calls : (~Repeats(c) => Made(c) \subseteq S) => c \in S
    PROVE  Calls \subseteq S
<1> DEFINE P == {n \in Nat : \A c \in Calls : Unseen(c) < n => c \in S}
<1>1. \A c \in Calls : Unseen(c) \in Nat BY UnseenFalls
<1>2. 0 \in P BY <1>1
<1>3. ASSUME NEW n \in Nat, n \in P PROVE n + 1 \in P
  <2>1. ASSUME NEW c \in Calls, Unseen(c) < n + 1 PROVE c \in S
    <3>1. ASSUME ~Repeats(c), NEW d \in Made(c) PROVE d \in S
      <4>1. d \in Calls /\ Unseen(d) < Unseen(c) BY <3>1, UnseenFalls DEF Made
      <4> QED BY <1>1, <1>3, <2>1, <4>1
    <3> QED BY <3>1
  <2> QED BY <2>1
<1>4. Nat \subseteq P
  <2> HIDE DEF P
  <2> QED BY <1>2, <1>3, NatSets
<1>5. ASSUME NEW c \in Calls PROVE c \in S
  <2>1. Unseen(c) + 1 \in P BY <1>1, <1>4
  <2> QED BY <1>1, <2>1
<1> QED BY <1>5

(***************************************************************************)
(* Evaluation, one call.                                                    *)
(***************************************************************************)
\* A call that is evaluated, with outcomes for the calls it makes.
Evaluated(answer, c) ==
    /\ tuples \in TupleSets /\ cache \in [Problems -> {"none", "no", "yes"}]
    /\ c \in Calls /\ c.depth # MaxDepth
    /\ \A d \in Made(c) : answer[d] \subseteq Outcomes

\* Calls whose answers are both right, and calls whose yes is.
Sound(c) == c.mode = "fresh" \/ (c.mode = "live" /\ ~cut)

Grantable(c) == Sound(c) \/ Additive(c.at)

\* Outcomes of a call that agree with the truth, and calls whose outcomes do.
Agrees(c, outcomes, truth) ==
    /\ Grantable(c) /\ "yes" \in outcomes => truth
    /\ Sound(c) /\ "no" \in outcomes => ~truth

AllAgree(answer, c) == CacheExact /\ \A d \in Made(c) : Agrees(d, answer[d], Meaning(d.at))

\* A leaf that leads an additive relation to an additive one.
Keeps(c, leaf) == Additive(c.at) /\ leaf[1] = "computed" => Additive(<<c.at[1], leaf[2]>>)

\* The calls of a sound call are sound.
LEMMA MadeSound ==
    ASSUME NEW c \in Calls, NEW d \in Made(c)
    PROVE  /\ Sound(c) => Sound(d) /\ c.mode # "ended"
           /\ \A outcomes, truth : (Additive(c.at) => Additive(d.at)) /\ Agrees(d, outcomes, truth)
                                       => Agrees(c, outcomes, truth)
<1>1. Sound(c) => Sound(d) /\ c.mode # "ended" BY DEF Made, Sound, Counted
<1> QED BY <1>1 DEF Grantable, Agrees

\* What a link leads to takes part in no intersection and no exclusion.
LEMMA LinksAdditive ==
    /\ \A l \in Links : \A r \in DOMAIN Relations[LinkTo[l]] : \A o : Additive(<<o, r>>)
    /\ \A o : Additive(<<o, "member">>)
<1>1. ASSUME NEW l \in Links, NEW r \in DOMAIN Relations[LinkTo[l]] PROVE r \notin {"can_edit", "can_view", "can_share"}
  <2>1. LinkTo[l] \in {"folder", "org"} BY DEF Links, LinkTo
  <2> QED BY <2>1, RelationNames
<1> QED BY <1>1 DEF Additive

\* A sub-problem that is dispatched may be answered from the cache.
LEMMA DispatchRight ==
    ASSUME NEW answer, NEW c, Evaluated(answer, c), NEW d \in Made(c)
    PROVE  /\ Dispatch(answer, d) \subseteq Outcomes
           /\ AllAgree(answer, c) => Agrees(d, Dispatch(answer, d), Meaning(d.at))
<1>1. d.at \in Problems BY DEF Made, Calls
<1>2. cache[d.at] \in {"none", "no", "yes"} BY <1>1 DEF Evaluated
<1>3. Dispatch(answer, d) \subseteq Outcomes BY <1>2 DEF Dispatch, Evaluated, Outcomes
<1>4. AllAgree(answer, c) => Agrees(d, Dispatch(answer, d), Meaning(d.at))
  <2> HAVE AllAgree(answer, c)
  <2>1. cache[d.at] # "none" /\ ~cut => (cache[d.at] = "yes" <=> Meaning(d.at))
    BY <1>1 DEF AllAgree, CacheExact, Cached
  <2>2. cache[d.at] = "yes" /\ Additive(d.at) => Meaning(d.at)
    BY <1>1 DEF AllAgree, CacheExact, Cached
  <2>3. Agrees(d, answer[d], Meaning(d.at)) BY DEF AllAgree
  <2>4. d.mode = "fresh" => Dispatch(answer, d) = answer[d] BY DEF Dispatch
  <2>5. \A x \in Dispatch(answer, d) : x \in answer[d] \/ (x = cache[d.at] /\ x # "none")
    BY DEF Dispatch
  <2> QED BY <1>2, <2>1, <2>2, <2>3, <2>4, <2>5 DEF Agrees, Grantable, Sound
<1> QED BY <1>3, <1>4

\* The usersets of a relation that teams may be granted.
LEMMA TeamedRight ==
    ASSUME NEW answer, NEW c, Evaluated(answer, c), Allows(ToTeams, c.at[1], c.at[2])
    PROVE  /\ Teamed(answer, c) \subseteq Outcomes
           /\ AllAgree(answer, c) =>
                Agrees(c, Teamed(answer, c), \E t \in Named(tuples, c.at[1], c.at[2]) : Meaning(<<t, "member">>))
<1> DEFINE named == Named(tuples, c.at[1], c.at[2])
           children == {Dispatch(answer, d) : d \in Dispatched(c, This)}
           truth == \E t \in named : Meaning(<<t, "member">>)
<1>1. /\ tuples \in TupleSets /\ c \in Calls /\ c.at \in Problems /\ c.at[1] \in Objects
      /\ c.depth # MaxDepth /\ c.depth \in 0..(MaxDepth - 1)
  BY ProblemsAre, ResolverAssumption DEF Evaluated, Calls
<1>2. Dispatched(c, This) \subseteq Made(c) BY <1>1, CallsMade DEF IsLeaf
<1>3. Dispatched(c, This) = {Call(<<t, "member">>, Path(c), c.depth + 1, Counted(c)) : t \in named}
  BY DEF Dispatched, This
<1>4. /\ \A d \in Dispatched(c, This) : \E t \in named : d.at = <<t, "member">>
      /\ \A t \in named : \E d \in Dispatched(c, This) : d.at = <<t, "member">>
  <2>1. \A p, seen, depth, mode : Call(p, seen, depth, mode).at = p BY DEF Call
  <2> HIDE DEF named
  <2>2. ASSUME NEW d \in Dispatched(c, This) PROVE \E t \in named : d.at = <<t, "member">>
    <3>1. PICK t \in named : d = Call(<<t, "member">>, Path(c), c.depth + 1, Counted(c)) BY <1>3, <2>2
    <3> QED BY <2>1, <3>1
  <2>3. ASSUME NEW t \in named PROVE \E d \in Dispatched(c, This) : d.at = <<t, "member">>
    <3>1. Call(<<t, "member">>, Path(c), c.depth + 1, Counted(c)) \in Dispatched(c, This) BY <1>3
    <3> QED BY <2>1, <3>1
  <2> QED BY <2>2, <2>3
<1>5. \A o \in children : o \subseteq Outcomes BY <1>2, DispatchRight
<1>6. AllAgree(answer, c) => Agrees(c, AnyOf(children), truth)
  <2> HAVE AllAgree(answer, c)
  <2>1. ASSUME NEW d \in Dispatched(c, This) PROVE Agrees(c, Dispatch(answer, d), Meaning(d.at))
    <3>1. d \in Made(c) /\ Agrees(d, Dispatch(answer, d), Meaning(d.at)) BY <1>2, DispatchRight
    <3>2. Additive(d.at) BY <1>4, LinksAdditive
    <3> QED BY <1>1, <3>1, <3>2, MadeSound
  <2>2. Grantable(c) /\ "yes" \in AnyOf(children) => truth
    <3> HAVE Grantable(c) /\ "yes" \in AnyOf(children)
    <3>1. PICK d \in Dispatched(c, This) : "yes" \in Dispatch(answer, d) BY <1>5, AnyOfAnswers
    <3> QED BY <1>4, <2>1, <3>1 DEF Agrees
  <2>3. ASSUME Sound(c), "no" \in AnyOf(children), NEW t \in named PROVE ~Meaning(<<t, "member">>)
    <3>1. PICK d \in Dispatched(c, This) : d.at = <<t, "member">> BY <1>4
    <3>2. "no" \in Dispatch(answer, d) BY <1>5, <2>3, AnyOfAnswers
    <3> QED BY <2>1, <2>3, <3>1, <3>2 DEF Agrees
  <2> QED BY <2>2, <2>3 DEF Agrees
<1>7. ASSUME TypeOf[c.at[1]] = "team"
      PROVE  /\ Recursive(c.at[1], c.depth) \subseteq Outcomes
             /\ Agrees(c, Recursive(c.at[1], c.depth), truth)
  <2>1. c.at[1] \in Teams BY <1>1, <1>7, Types DEF Objects
  <2>2. c.at[2] = "member" BY <1>7 DEF Allows, ToTeams
  <2>3. \A x \in named : Meaning(<<x, "member">>) <=> InTeam(tuples, x)
    BY <1>1, GrantsTyped, MeaningOf
  <2> QED BY <1>1, <2>1, <2>2, <2>3, RecursiveRight DEF Agrees, Outcomes
<1>8. AnyOf(children) \subseteq Outcomes BY <1>5, AnyOfAnswers
<1>9. Teamed(answer, c) = AnyOf(children) \cup
                          (IF TypeOf[c.at[1]] = "team" THEN Recursive(c.at[1], c.depth) ELSE {})
  BY DEF Teamed
<1> HIDE DEF children, truth
<1>10. AllAgree(answer, c) => Agrees(c, Teamed(answer, c), truth) BY <1>6, <1>7, <1>9 DEF Agrees
<1>11. Teamed(answer, c) \subseteq Outcomes BY <1>7, <1>8, <1>9
<1> QED BY <1>10, <1>11 DEF truth

\* What a read may come to.
LEMMA ReadRight ==
    ASSUME NEW outcomes
    PROVE  /\ outcomes \subseteq Outcomes => Read(outcomes) \subseteq Outcomes
           /\ \A x \in {"yes", "no", "cycle"} : x \in Read(outcomes) <=> x \in outcomes
BY DEF Read, Outcomes

\* What a tuple says.
LEMMA AnswerRight ==
    ASSUME NEW truth
    PROVE  /\ Answer(truth) \subseteq Outcomes
           /\ ("yes" \in Answer(truth) <=> truth) /\ ("no" \in Answer(truth) <=> ~truth)
           /\ "cycle" \notin Answer(truth)
BY DEF Answer, Outcomes

\* The tuples of a relation.
LEMMA DirectRight ==
    ASSUME NEW answer, NEW c, Evaluated(answer, c)
    PROVE  /\ Direct(answer, c) \subseteq Outcomes
           /\ AllAgree(answer, c) => Agrees(c, Direct(answer, c), LeafHolds(c.at, This))
<1> DEFINE user == <<c.at[1], c.at[2], User>> \in tuples
           public == <<c.at[1], c.at[2], Everyone>> \in tuples
           team == \E t \in Named(tuples, c.at[1], c.at[2]) : Meaning(<<t, "member">>)
           first == Read(Answer(user))
           second == IF Allows(ToEveryone, c.at[1], c.at[2]) THEN {Read(Answer(public))} ELSE {}
           third == IF Allows(ToTeams, c.at[1], c.at[2]) THEN {Read(Teamed(answer, c))} ELSE {}
<1>1. tuples \in TupleSets /\ c.at[1] \in Objects BY ProblemsAre DEF Evaluated, Calls
<1>2. Direct(answer, c) = SomeOf(c, {first} \cup second \cup third) BY DEF Direct
<1>3. LeafHolds(c.at, This) <=> \/ user
                                \/ Allows(ToEveryone, c.at[1], c.at[2]) /\ public
                                \/ Allows(ToTeams, c.at[1], c.at[2]) /\ team
  <2>1. \A t \in Teams : <<c.at[1], c.at[2], t>> \in tuples <=> t \in Named(tuples, c.at[1], c.at[2])
    BY Types DEF Named
  <2>2. This[1] = "this" BY DEF This
  <2> QED BY <1>1, <2>1, <2>2, GrantsTyped DEF LeafHolds, DirectlyHeld
<1>4. \A o \in {first} \cup second \cup third : o \subseteq Outcomes
  <2>1. Read(Answer(user)) \subseteq Outcomes /\ Read(Answer(public)) \subseteq Outcomes
    <3>1. Answer(user) \subseteq Outcomes /\ Answer(public) \subseteq Outcomes BY AnswerRight
    <3> QED BY <3>1, ReadRight
  <2>2. Allows(ToTeams, c.at[1], c.at[2]) => Read(Teamed(answer, c)) \subseteq Outcomes
    BY TeamedRight, ReadRight
  <2> QED BY <2>1, <2>2
<1>5. Direct(answer, c) \subseteq Outcomes
  <2> HIDE DEF first, second, third
  <2> QED BY <1>2, <1>4, SomeOfAnswers
<1>6. AllAgree(answer, c) =>
        /\ Agrees(c, first, user)
        /\ \A o \in second : Allows(ToEveryone, c.at[1], c.at[2]) /\ Agrees(c, o, public)
        /\ \A o \in third : Allows(ToTeams, c.at[1], c.at[2]) /\ Agrees(c, o, team)
        /\ Allows(ToEveryone, c.at[1], c.at[2]) => second # {}
        /\ Allows(ToTeams, c.at[1], c.at[2]) => third # {}
  <2> HAVE AllAgree(answer, c)
  <2>1. Agrees(c, Read(Answer(user)), user)
    <3>1. ("yes" \in Answer(user) => user) /\ ("no" \in Answer(user) => ~user) BY DEF Answer
    <3> QED BY <3>1, ReadRight DEF Agrees
  <2>2. Agrees(c, Read(Answer(public)), public)
    <3>1. ("yes" \in Answer(public) => public) /\ ("no" \in Answer(public) => ~public) BY DEF Answer
    <3> QED BY <3>1, ReadRight DEF Agrees
  <2>3. Allows(ToTeams, c.at[1], c.at[2]) => Agrees(c, Read(Teamed(answer, c)), team)
    BY TeamedRight, ReadRight DEF Agrees
  <2> QED BY <2>1, <2>2, <2>3
<1>7. AllAgree(answer, c) => Agrees(c, Direct(answer, c), LeafHolds(c.at, This))
  <2> HIDE DEF first, second, third, user, public, team
  <2>1. "yes" \in Direct(answer, c) => \E o \in {first} \cup second \cup third : "yes" \in o
    BY <1>2, <1>4, SomeOfAnswers
  <2>2. Sound(c) /\ "no" \in Direct(answer, c) => \A o \in {first} \cup second \cup third : "no" \in o
    BY <1>2, <1>4, SomeOfAnswers DEF Sound
  <2> QED BY <1>3, <1>6, <2>1, <2>2 DEF Agrees
<1> QED BY <1>5, <1>7

\* What the weight-two strategy reads is what the relation means.
LEMMA WeightTwoRight ==
    ASSUME NEW o \in Orgs, NEW r \in {"admin", "member", "blocked"}
    PROVE  WeightTwo(<<o, r>>) <=> Meaning(<<o, r>>)
<1>1. TypeOf[o] = "org" BY Types
<1>2. \A s : DirectlyHeld(<<o, s>>) <=> <<o, s, User>> \in tuples
  BY <1>1 DEF DirectlyHeld, Allows, ToEveryone
<1>3. /\ This[1] = "this"
      /\ Computed("admin")[1] = "computed" /\ Computed("admin")[2] = "admin"
  BY DEF This, Computed
<1>4. CASE r \in {"admin", "blocked"}
  <2>1. Children(RewriteOf(o, r)) = {This}
    BY <1>1, <1>4 DEF RewriteOf, Relations, OrgRelations, Children, This
  <2> QED BY <1>2, <1>3, <1>4, <2>1, MeaningOf DEF WeightTwo
<1>5. CASE r = "member"
  <2>1. Children(RewriteOf(o, r)) = {This, Computed("admin")}
    BY <1>1, <1>5 DEF RewriteOf, Relations, OrgRelations, Children, Or
  <2>2. WeightTwo(<<o, r>>) <=> DirectlyHeld(<<o, "member">>) \/ DirectlyHeld(<<o, "admin">>)
    BY <1>3, <1>5, <2>1 DEF WeightTwo
  <2> QED BY <1>2, <1>5, <2>2, MeaningOf DEF InOrg
<1> QED BY <1>4, <1>5

\* The relation of what a link leads to.
LEMMA FromRight ==
    ASSUME NEW answer, NEW c, Evaluated(answer, c),
           NEW l \in Links, NEW r \in DOMAIN Relations[LinkTo[l]]
    PROVE  /\ FromParents(answer, c, From(r, l)) \subseteq Outcomes
           /\ AllAgree(answer, c) => Agrees(c, FromParents(answer, c, From(r, l)), LeafHolds(c.at, From(r, l)))
<1> DEFINE leaf == From(r, l)
           named == Named(tuples, c.at[1], l)
           calls == Dispatched(c, leaf)
           children == {Dispatch(answer, d) : d \in calls}
           truth == \E o \in named : Meaning(<<o, r>>)
           held == \E d \in calls : WeightTwo(d.at)
           weighed == IF HasWeightTwo(r, l)
                      THEN Answer(held) \cup (IF Unmatched(c, leaf) THEN {"no"} ELSE {}) ELSE {}
<1>1. tuples \in TupleSets /\ c \in Calls /\ c.at[1] \in Objects /\ c.depth # MaxDepth /\ c.at = <<c.at[1], c.at[2]>>
  BY ProblemsAre DEF Evaluated, Calls
<1>2. leaf[1] = "from" /\ leaf[2] = r /\ leaf[3] = l BY DEF From
<1>3. calls \subseteq Made(c) BY <1>1, CallsMade DEF IsLeaf
<1>4. calls = {Call(<<o, r>>, Path(c), c.depth + 1, Counted(c)) : o \in named} BY <1>2 DEF Dispatched
<1>5. /\ \A d \in calls : \E o \in named : d.at = <<o, r>>
      /\ \A o \in named : \E d \in calls : d.at = <<o, r>>
  <2> HIDE DEF named, calls
  <2>1. \A p, seen, depth, mode : Call(p, seen, depth, mode).at = p BY DEF Call
  <2>2. ASSUME NEW d \in calls PROVE \E o \in named : d.at = <<o, r>>
    <3>1. PICK o \in named : d = Call(<<o, r>>, Path(c), c.depth + 1, Counted(c)) BY <1>4, <2>2
    <3> QED BY <2>1, <3>1
  <2>3. ASSUME NEW o \in named PROVE \E d \in calls : d.at = <<o, r>>
    <3>1. Call(<<o, r>>, Path(c), c.depth + 1, Counted(c)) \in calls BY <1>4
    <3> QED BY <2>1, <3>1
  <2> QED BY <2>2, <2>3
<1>6. \A o \in children : o \subseteq Outcomes BY <1>3, DispatchRight
<1>7. AllAgree(answer, c) => Agrees(c, AnyOf(children), truth)
  <2> HAVE AllAgree(answer, c)
  <2>1. ASSUME NEW d \in calls PROVE Agrees(c, Dispatch(answer, d), Meaning(d.at))
    <3>1. d \in Made(c) /\ Agrees(d, Dispatch(answer, d), Meaning(d.at)) BY <1>3, DispatchRight
    <3>2. Additive(d.at) BY <1>5, LinksAdditive
    <3> QED BY <1>1, <3>1, <3>2, MadeSound
  <2>2. Grantable(c) /\ "yes" \in AnyOf(children) => truth
    <3> HAVE Grantable(c) /\ "yes" \in AnyOf(children)
    <3>1. PICK d \in calls : "yes" \in Dispatch(answer, d) BY <1>6, AnyOfAnswers
    <3> QED BY <1>5, <2>1, <3>1 DEF Agrees
  <2>3. ASSUME Sound(c), "no" \in AnyOf(children), NEW o \in named PROVE ~Meaning(<<o, r>>)
    <3>1. PICK d \in calls : d.at = <<o, r>> BY <1>5
    <3>2. "no" \in Dispatch(answer, d) BY <1>6, <2>3, AnyOfAnswers
    <3> QED BY <2>1, <2>3, <3>1, <3>2 DEF Agrees
  <2> QED BY <2>2, <2>3 DEF Agrees
<1>8. weighed \subseteq Outcomes /\ Agrees(c, weighed, truth)
  <2>1. ASSUME HasWeightTwo(r, l) PROVE held <=> truth
    <3>1. l = "org" /\ r \in {"admin", "member", "blocked"} BY <2>1 DEF HasWeightTwo
    <3>2. \A o \in named : o \in Orgs
      <4> TAKE o \in named
      <4>1. o \in Objects /\ TypeOf[o] = "org" BY <1>1, <3>1, LinksTyped DEF Links, LinkTo
      <4> QED BY <4>1, Types DEF Objects
    <3>3. \A o \in named : WeightTwo(<<o, r>>) <=> Meaning(<<o, r>>) BY <3>1, <3>2, WeightTwoRight
    <3> QED BY <1>5, <3>3
  <2>2. Answer(held) \subseteq Outcomes /\ ("yes" \in Answer(held) => held) /\ ("no" \in Answer(held) => ~held)
    BY DEF Answer, Outcomes
  <2>3. Sound(c) => ~Unmatched(c, leaf) BY DEF Sound, Unmatched
  <2> HIDE DEF held, truth, leaf
  <2> QED BY <2>1, <2>2, <2>3 DEF Agrees, Outcomes
<1>9. FromParents(answer, c, leaf) = Read(AnyOf(children) \cup weighed)
  BY <1>2 DEF FromParents
<1>10. LeafHolds(c.at, leaf) <=> truth
  <2>1. \A o, s : LeafHolds(<<o, s>>, From(r, l)) <=> \E x \in Named(tuples, o, l) : Meaning(<<x, r>>)
    BY OtherLeaves
  <2>2. LeafHolds(<<c.at[1], c.at[2]>>, leaf) <=> truth BY <2>1
  <2> HIDE DEF leaf, truth
  <2> QED BY <1>1, <2>2
<1>11. AnyOf(children) \subseteq Outcomes BY <1>6, AnyOfAnswers
<1> HIDE DEF children, weighed, truth, leaf
<1>12. FromParents(answer, c, leaf) \subseteq Outcomes
  <2>1. AnyOf(children) \cup weighed \subseteq Outcomes BY <1>8, <1>11
  <2> QED BY <1>9, <2>1, ReadRight
<1>13. AllAgree(answer, c) => Agrees(c, FromParents(answer, c, leaf), LeafHolds(c.at, leaf))
  <2> HAVE AllAgree(answer, c)
  <2>1. Agrees(c, AnyOf(children) \cup weighed, truth) BY <1>7, <1>8 DEF Agrees
  <2> QED BY <1>9, <1>10, <2>1, ReadRight DEF Agrees
<1> QED BY <1>12, <1>13 DEF leaf

\* A leaf of a rewrite.
LEMMA LeafRight ==
    ASSUME NEW answer, NEW c, Evaluated(answer, c), NEW leaf, IsLeaf(TypeOf[c.at[1]], leaf)
    PROVE  /\ Leaf(answer, c, leaf) \subseteq Outcomes
           /\ AllAgree(answer, c) /\ Keeps(c, leaf) => Agrees(c, Leaf(answer, c, leaf), LeafHolds(c.at, leaf))
<1>1. CASE leaf = This
  <2>1. Leaf(answer, c, leaf) = Direct(answer, c) BY <1>1 DEF Leaf, This
  <2> QED BY <1>1, <2>1, DirectRight
<1>2. CASE \E r \in DOMAIN Relations[TypeOf[c.at[1]]] : leaf = Computed(r)
  <2>1. PICK r \in DOMAIN Relations[TypeOf[c.at[1]]] : leaf = Computed(r) BY <1>2
  <2>2. leaf[1] = "computed" /\ leaf[2] = r BY <2>1 DEF Computed
  <2>3. Leaf(answer, c, leaf) = answer[Sideways(c, leaf)] BY <2>2 DEF Leaf
  <2>4. Sideways(c, leaf) \in Made(c) BY <2>2, CallsMade DEF Evaluated
  <2>5. Sideways(c, leaf).at = <<c.at[1], r>> BY <2>2 DEF Sideways, Call
  <2>6. c.at = <<c.at[1], c.at[2]>> BY ProblemsAre DEF Evaluated, Calls
  <2>7. LeafHolds(c.at, leaf) <=> Meaning(<<c.at[1], r>>) BY <2>1, <2>6, OtherLeaves
  <2>8. AllAgree(answer, c) /\ Keeps(c, leaf) => Agrees(c, answer[Sideways(c, leaf)], LeafHolds(c.at, leaf))
    <3> HAVE AllAgree(answer, c) /\ Keeps(c, leaf)
    <3>1. Agrees(Sideways(c, leaf), answer[Sideways(c, leaf)], Meaning(<<c.at[1], r>>))
      BY <2>4, <2>5 DEF AllAgree
    <3>2. Additive(c.at) => Additive(Sideways(c, leaf).at) BY <2>2, <2>5 DEF Keeps
    <3>3. c \in Calls BY DEF Evaluated
    <3>4. Agrees(c, answer[Sideways(c, leaf)], Meaning(<<c.at[1], r>>)) BY <2>4, <3>1, <3>2, <3>3, MadeSound
    <3> QED BY <2>7, <3>4 DEF Agrees
  <2> QED BY <2>3, <2>4, <2>8 DEF Evaluated
<1>3. CASE \E l \in Links : \E r \in DOMAIN Relations[LinkTo[l]] : leaf = From(r, l)
  <2>1. Leaf(answer, c, leaf) = FromParents(answer, c, leaf) BY <1>3 DEF Leaf, From
  <2> QED BY <1>3, <2>1, FromRight
<1> QED BY <1>1, <1>2, <1>3 DEF IsLeaf

\* A leaf, or a union of leaves.
LEMMA UnionRight ==
    ASSUME NEW answer, NEW c, Evaluated(answer, c), NEW rw, IsUnion(TypeOf[c.at[1]], rw)
    PROVE  /\ Union(answer, c, rw) \subseteq Outcomes
           /\ AllAgree(answer, c) /\ (\A leaf \in Children(rw) : Keeps(c, leaf)) =>
                Agrees(c, Union(answer, c, rw), UnionHolds(c.at, rw))
<1>1. CASE IsLeaf(TypeOf[c.at[1]], rw)
  <2>1. rw[1] \in {"this", "computed", "from"} BY <1>1 DEF IsLeaf, This, Computed, From
  <2>2. Union(answer, c, rw) = Leaf(answer, c, rw) BY <2>1 DEF Union
  <2>3. (UnionHolds(c.at, rw) <=> LeafHolds(c.at, rw)) /\ rw \in Children(rw) BY <2>1 DEF UnionHolds, Children
  <2> QED BY <1>1, <2>2, <2>3, LeafRight DEF Agrees
<1>2. CASE \E S : rw = Or(S) /\ \A leaf \in S : IsLeaf(TypeOf[c.at[1]], leaf)
  <2> DEFINE children == {Leaf(answer, c, leaf) : leaf \in rw[2]}
  <2>1. rw[1] = "or" /\ \A leaf \in rw[2] : IsLeaf(TypeOf[c.at[1]], leaf) BY <1>2 DEF Or
  <2>2. Union(answer, c, rw) = SomeOf(c, children) BY <2>1 DEF Union
  <2>3. /\ UnionHolds(c.at, rw) <=> \E leaf \in rw[2] : LeafHolds(c.at, leaf)
        /\ Children(rw) = rw[2]
    BY <2>1 DEF UnionHolds, Children
  <2>4. \A o \in children : o \subseteq Outcomes BY <2>1, LeafRight
  <2>5. SomeOf(c, children) \subseteq Outcomes BY <2>4, SomeOfAnswers
  <2>6. AllAgree(answer, c) /\ (\A leaf \in Children(rw) : Keeps(c, leaf)) =>
            Agrees(c, SomeOf(c, children), UnionHolds(c.at, rw))
    <3> HAVE AllAgree(answer, c) /\ \A leaf \in Children(rw) : Keeps(c, leaf)
    <3>1. \A leaf \in rw[2] : Agrees(c, Leaf(answer, c, leaf), LeafHolds(c.at, leaf))
      BY <2>1, <2>3, LeafRight
    <3>2. "yes" \in SomeOf(c, children) => \E leaf \in rw[2] : "yes" \in Leaf(answer, c, leaf)
      BY <2>4, SomeOfAnswers
    <3>3. Sound(c) /\ "no" \in SomeOf(c, children) => \A leaf \in rw[2] : "no" \in Leaf(answer, c, leaf)
      BY <2>4, SomeOfAnswers DEF Sound
    <3> QED BY <2>3, <3>1, <3>2, <3>3 DEF Agrees
  <2> QED BY <2>2, <2>5, <2>6
<1> QED BY <1>1, <1>2 DEF IsUnion

\* The rewrite of an additive relation is a union of additive ones.
Additively(c, rw) ==
    /\ \A leaf \in Leaves(rw) : Keeps(c, leaf)
    /\ Additive(c.at) => rw[1] \notin {"and", "but not"}

\* A whole rewrite.
LEMMA RewriteRight ==
    ASSUME NEW answer, NEW c, Evaluated(answer, c), NEW rw, IsRewrite(TypeOf[c.at[1]], rw)
    PROVE  /\ Rewrite(answer, c, rw) \subseteq Outcomes
           /\ AllAgree(answer, c) /\ Additively(c, rw) =>
                Agrees(c, Rewrite(answer, c, rw), RewriteHolds(c.at, rw))
<1>1. CASE IsUnion(TypeOf[c.at[1]], rw)
  <2>1. rw[1] \in {"this", "computed", "from", "or"}
    BY <1>1 DEF IsUnion, IsLeaf, This, Computed, From, Or
  <2>2. Rewrite(answer, c, rw) = Union(answer, c, rw) BY <2>1 DEF Rewrite
  <2>3. RewriteHolds(c.at, rw) <=> UnionHolds(c.at, rw) BY <2>1 DEF RewriteHolds
  <2>4. Leaves(rw) = Children(rw) BY <2>1 DEF Leaves
  <2> QED BY <1>1, <2>2, <2>3, <2>4, UnionRight DEF Agrees, Additively
<1>2. CASE \E S : rw = And(S) /\ \A leaf \in S : IsLeaf(TypeOf[c.at[1]], leaf)
  <2> DEFINE children == {Leaf(answer, c, leaf) : leaf \in rw[2]}
  <2>1. rw[1] = "and" /\ \A leaf \in rw[2] : IsLeaf(TypeOf[c.at[1]], leaf) BY <1>2 DEF And
  <2>2. Rewrite(answer, c, rw) = EachOf(c, children) /\ Leaves(rw) = rw[2] BY <2>1 DEF Rewrite, Leaves, Children
  <2>3. RewriteHolds(c.at, rw) <=> \A leaf \in rw[2] : LeafHolds(c.at, leaf)
    BY <2>1 DEF RewriteHolds
  <2>4. \A o \in children : o \subseteq Outcomes BY <2>1, LeafRight
  <2>5. EachOf(c, children) \subseteq Outcomes BY <2>4, EachOfAnswers
  <2>6. AllAgree(answer, c) /\ Additively(c, rw) => Agrees(c, EachOf(c, children), RewriteHolds(c.at, rw))
    <3> HAVE AllAgree(answer, c) /\ Additively(c, rw)
    <3>1. \A leaf \in rw[2] : Agrees(c, Leaf(answer, c, leaf), LeafHolds(c.at, leaf))
      BY <2>1, <2>2, LeafRight DEF Additively
    <3>2. Grantable(c) => Sound(c) BY <2>1 DEF Additively, Grantable
    <3>3. Sound(c) /\ "yes" \in EachOf(c, children) => \A leaf \in rw[2] : "yes" \in Leaf(answer, c, leaf)
      BY <2>4, EachOfAnswers DEF Sound
    <3>4. "no" \in EachOf(c, children) => \E leaf \in rw[2] : "no" \in Leaf(answer, c, leaf)
      BY <2>4, EachOfAnswers
    <3> QED BY <2>3, <3>1, <3>2, <3>3, <3>4 DEF Agrees
  <2> QED BY <2>2, <2>5, <2>6
<1>3. CASE \E b, s : rw = ButNot(b, s) /\ IsUnion(TypeOf[c.at[1]], b) /\ IsUnion(TypeOf[c.at[1]], s)
  <2> DEFINE base == Union(answer, c, rw[2])
             sub == Union(answer, c, rw[3])
  <2>1. rw[1] = "but not" /\ IsUnion(TypeOf[c.at[1]], rw[2]) /\ IsUnion(TypeOf[c.at[1]], rw[3])
    <3>1. PICK b, s : rw = ButNot(b, s) /\ IsUnion(TypeOf[c.at[1]], b) /\ IsUnion(TypeOf[c.at[1]], s)
      BY <1>3
    <3>2. rw[1] = "but not" /\ rw[2] = b /\ rw[3] = s BY <3>1 DEF ButNot
    <3> QED BY <3>1, <3>2
  <2>2. Rewrite(answer, c, rw) = Except(base, sub) /\ Leaves(rw) = Children(rw[2]) \cup Children(rw[3])
    BY <2>1 DEF Rewrite, Leaves
  <2>3. RewriteHolds(c.at, rw) <=> UnionHolds(c.at, rw[2]) /\ ~UnionHolds(c.at, rw[3])
    BY <2>1 DEF RewriteHolds
  <2>4. base \subseteq Outcomes /\ sub \subseteq Outcomes BY <2>1, UnionRight
  <2>5. AllAgree(answer, c) /\ Additively(c, rw) =>
            /\ Agrees(c, base, UnionHolds(c.at, rw[2])) /\ Agrees(c, sub, UnionHolds(c.at, rw[3]))
            /\ Grantable(c) => Sound(c)
    BY <2>1, <2>2, UnionRight DEF Additively, Grantable
  <2> HIDE DEF base, sub
  <2> QED BY <2>2, <2>3, <2>4, <2>5, ExceptAnswers DEF Agrees, Grantable
<1> QED BY <1>1, <1>2, <1>3 DEF IsRewrite

\* A rewrite takes nothing of the answers but what the calls it makes come to.
LEMMA LeafSame ==
    ASSUME tuples \in TupleSets, NEW c \in Calls, c.depth # MaxDepth,
           NEW f, NEW g, \A d \in Made(c) : f[d] = g[d],
           NEW leaf, IsLeaf(TypeOf[c.at[1]], leaf)
    PROVE  Leaf(f, c, leaf) = Leaf(g, c, leaf)
<1>1. \A d \in Made(c) : Dispatch(f, d) = Dispatch(g, d) BY DEF Dispatch
<1>2. \A l : IsLeaf(TypeOf[c.at[1]], l) =>
          {Dispatch(f, d) : d \in Dispatched(c, l)} = {Dispatch(g, d) : d \in Dispatched(c, l)}
  <2> TAKE l
  <2> HAVE IsLeaf(TypeOf[c.at[1]], l)
  <2>1. Dispatched(c, l) \subseteq Made(c) BY CallsMade
  <2> QED BY <1>1, <2>1
<1>3. Direct(f, c) = Direct(g, c)
  <2>1. IsLeaf(TypeOf[c.at[1]], This) BY DEF IsLeaf
  <2>2. Teamed(f, c) = Teamed(g, c) BY <1>2, <2>1 DEF Teamed
  <2> QED BY <2>2 DEF Direct
<1>4. FromParents(f, c, leaf) = FromParents(g, c, leaf) BY <1>2 DEF FromParents
<1>5. leaf[1] = "computed" => f[Sideways(c, leaf)] = g[Sideways(c, leaf)] BY CallsMade
<1>6. leaf[1] \in {"this", "computed", "from"} BY DEF IsLeaf, This, Computed, From
<1> QED BY <1>3, <1>4, <1>5, <1>6 DEF Leaf

\* Likewise for a whole rewrite.
LEMMA RewriteSame ==
    ASSUME tuples \in TupleSets, NEW c \in Calls, c.depth # MaxDepth,
           NEW f, NEW g, \A d \in Made(c) : f[d] = g[d],
           NEW rw, IsRewrite(TypeOf[c.at[1]], rw)
    PROVE  Rewrite(f, c, rw) = Rewrite(g, c, rw)
<1> DEFINE type == TypeOf[c.at[1]]
<1>1. ASSUME NEW S, \A leaf \in S : IsLeaf(type, leaf)
      PROVE  {Leaf(f, c, leaf) : leaf \in S} = {Leaf(g, c, leaf) : leaf \in S}
  <2>1. \A leaf \in S : Leaf(f, c, leaf) = Leaf(g, c, leaf) BY <1>1, LeafSame
  <2> QED BY <2>1
<1>2. ASSUME NEW u, IsUnion(type, u) PROVE Union(f, c, u) = Union(g, c, u)
  <2>1. CASE IsLeaf(type, u)
    <3>1. u[1] # "or" BY <2>1 DEF IsLeaf, This, Computed, From
    <3> QED BY <2>1, <3>1, LeafSame DEF Union
  <2>2. CASE \E S : u = Or(S) /\ \A leaf \in S : IsLeaf(type, leaf)
    <3>1. u[1] = "or" /\ \A leaf \in u[2] : IsLeaf(type, leaf) BY <2>2 DEF Or
    <3> QED BY <1>1, <3>1 DEF Union
  <2> QED BY <1>2, <2>1, <2>2 DEF IsUnion
<1>3. CASE IsUnion(type, rw)
  <2>1. rw[1] \in {"this", "computed", "from", "or"}
    BY <1>3 DEF IsUnion, IsLeaf, This, Computed, From, Or
  <2> QED BY <1>2, <1>3, <2>1 DEF Rewrite
<1>4. CASE \E S : rw = And(S) /\ \A leaf \in S : IsLeaf(type, leaf)
  <2>1. rw[1] = "and" /\ \A leaf \in rw[2] : IsLeaf(type, leaf) BY <1>4 DEF And
  <2> QED BY <1>1, <2>1 DEF Rewrite
<1>5. CASE \E b, s : rw = ButNot(b, s) /\ IsUnion(type, b) /\ IsUnion(type, s)
  <2>1. rw[1] = "but not" /\ IsUnion(type, rw[2]) /\ IsUnion(type, rw[3])
    <3>1. PICK b, s : rw = ButNot(b, s) /\ IsUnion(type, b) /\ IsUnion(type, s) BY <1>5
    <3>2. rw[1] = "but not" /\ rw[2] = b /\ rw[3] = s BY <3>1 DEF ButNot
    <3> QED BY <3>1, <3>2
  <2>2. Union(f, c, rw[2]) = Union(g, c, rw[2]) /\ Union(f, c, rw[3]) = Union(g, c, rw[3])
    BY <1>2, <2>1
  <2>3. /\ Rewrite(f, c, rw) = Except(Union(f, c, rw[2]), Union(f, c, rw[3]))
        /\ Rewrite(g, c, rw) = Except(Union(g, c, rw[2]), Union(g, c, rw[3]))
    BY <2>1 DEF Rewrite
  <2> QED BY <2>2, <2>3
<1> QED BY <1>3, <1>4, <1>5 DEF IsRewrite

\* Evaluation as it is defined: the function exists.
LEMMA CheckDef ==
    ASSUME tuples \in TupleSets, cache \in [Problems -> {"none", "no", "yes"}]
    PROVE  Check = [c \in Calls |->
              IF c.depth = MaxDepth THEN {"error"}
              ELSE (IF Repeats(c) THEN {"cycle"} ELSE Rewrite(Check, c, RewriteOf(c.at[1], c.at[2])))
                      \cup (IF c.mode = "ended" THEN {"error"} ELSE {})]
<1> DEFINE V == SUBSET Outcomes
           Body(f, c) == IF c.depth = MaxDepth THEN {"error"}
                         ELSE (IF Repeats(c) THEN {"cycle"} ELSE Rewrite(f, c, RewriteOf(c.at[1], c.at[2])))
                                 \cup (IF c.mode = "ended" THEN {"error"} ELSE {})
           rank == [c \in Calls |-> Unseen(c)]
           Step == [f \in [Calls -> V] |-> [c \in Calls |-> Body(f, c)]]
<1>1. \A c \in Calls : IsRewrite(TypeOf[c.at[1]], RewriteOf(c.at[1], c.at[2]))
  BY RewritesNest DEF Calls
<1>2. rank \in [Calls -> Nat] /\ \A c \in Calls : rank[c] < Cardinality(Problems) + 1
  BY UnseenFalls
<1>3. ASSUME NEW f \in [Calls -> V], NEW c \in Calls PROVE Body(f, c) \in V
  <2>1. ASSUME c.depth # MaxDepth PROVE Rewrite(f, c, RewriteOf(c.at[1], c.at[2])) \subseteq Outcomes
    <3>1. Evaluated(f, c) BY <2>1 DEF Evaluated, Made
    <3> QED BY <1>1, <3>1, RewriteRight
  <2> QED BY <2>1 DEF Outcomes
<1>4. Step \in [[Calls -> V] -> [Calls -> V]] BY <1>3
<1>5. ASSUME NEW f \in [Calls -> V], NEW g \in [Calls -> V], NEW c \in Calls,
             \A d \in Calls : rank[d] < rank[c] => f[d] = g[d]
      PROVE  Step[f][c] = Step[g][c]
  <2>1. Step[f][c] = Body(f, c) /\ Step[g][c] = Body(g, c) OBVIOUS
  <2>2. ASSUME c.depth # MaxDepth, ~Repeats(c) PROVE Body(f, c) = Body(g, c)
    <3>1. \A d \in Made(c) : d \in Calls /\ Unseen(d) < Unseen(c) BY <2>2, UnseenFalls DEF Made
    <3>2. \A d \in Made(c) : f[d] = g[d] BY <1>5, <3>1
    <3> QED BY <1>1, <2>2, <3>2, RewriteSame
  <2> QED BY <2>1, <2>2
<1>6. Recursion(Calls, V, rank, Cardinality(Problems) + 1, Step)
  <2>1. V # {} /\ Cardinality(Problems) + 1 \in Nat
    BY ProblemsFinite, FS_CardinalityType
  <2>2. \A f, g \in [Calls -> V] : \A c \in Calls :
            (\A d \in Calls : rank[d] < rank[c] => f[d] = g[d]) => Step[f][c] = Step[g][c]
    BY <1>5
  <2> HIDE DEF V, rank, Step
  <2> QED BY <1>2, <1>4, <2>1, <2>2 DEF Recursion
<1>7. \E f \in [Calls -> V] : f = Step[f]
  <2> HIDE DEF V, rank, Step
  <2> QED BY <1>6, FixedPoint
<1>8. \E f : f = [c \in Calls |-> Body(f, c)] BY <1>7
<1> QED BY <1>8, Zenon DEF Check

\* The rewrites of the model: only those of can_edit, can_view and can_share
\* are not additive.
LEMMA AdditiveRewrites ==
    ASSUME NEW c \in Calls
    PROVE  Additively(c, RewriteOf(c.at[1], c.at[2]))
<1> DEFINE o == c.at[1]
           r == c.at[2]
           type == TypeOf[o]
           Fits(rw) == /\ rw[1] \notin {"and", "but not"}
                       /\ \A leaf \in Leaves(rw) : leaf[1] = "computed" =>
                              leaf[2] \notin {"can_edit", "can_view", "can_share"}
<1>1. type \in {"org", "team", "folder", "project"} /\ r \in DOMAIN Relations[type]
  BY ProblemsAre DEF Calls
<1>2. SUFFICES ASSUME r \notin {"can_edit", "can_view", "can_share"} PROVE Fits(Relations[type][r])
  BY DEF Additively, Keeps, Additive, RewriteOf
<1>3. Fits(This) BY DEF This, Leaves, Children
<1>4. ASSUME NEW S, \A leaf \in S : leaf[1] = "computed" => leaf[2] \notin {"can_edit", "can_view", "can_share"}
      PROVE  Fits(Or(S))
  BY <1>4 DEF Or, Leaves, Children
<1>5. /\ This[1] = "this"
      /\ \A s : Computed(s)[1] = "computed" /\ Computed(s)[2] = s
      /\ \A s, l : From(s, l)[1] = "from"
  BY DEF This, Computed, From
<1> HIDE DEF type, o, r, Fits
<1>6. CASE type = "org"
  BY <1>1, <1>3, <1>4, <1>5, <1>6, RelationNames DEF Relations, OrgRelations
<1>7. CASE type = "team"
  BY <1>1, <1>3, <1>4, <1>5, <1>7, RelationNames DEF Relations, TeamRelations
<1>8. CASE type = "folder"
  <2> DEFINE R == Relations["folder"]
  <2>1. Fits(R["owner"]) BY <1>3 DEF Relations, FolderRelations
  <2>2. Fits(R["manager"]) BY <1>4, <1>5 DEF Relations, FolderRelations
  <2>3. Fits(R["editor"]) BY <1>4, <1>5 DEF Relations, FolderRelations
  <2>4. Fits(R["viewer"]) BY <1>4, <1>5 DEF Relations, FolderRelations
  <2>5. Fits(R["blocked_in_org"]) BY <1>4, <1>5 DEF Relations, FolderRelations
  <2> HIDE DEF R
  <2> QED BY <1>1, <1>8, <2>1, <2>2, <2>3, <2>4, <2>5, RelationNames DEF R
<1>9. CASE type = "project"
  <2> DEFINE R == Relations["project"]
  <2>1. \A s \in {"owner", "contributor", "viewer", "blocked"} : Fits(R[s])
    BY <1>3 DEF Relations, ProjectRelations
  <2>2. Fits(R["member"]) BY <1>4, <1>5 DEF Relations, ProjectRelations
  <2>3. Fits(R["can_manage"]) BY <1>4, <1>5 DEF Relations, ProjectRelations
  <2>4. Fits(R["is_blocked"]) BY <1>4, <1>5 DEF Relations, ProjectRelations
  <2> HIDE DEF R
  <2> QED BY <1>1, <1>2, <1>9, <2>1, <2>2, <2>3, <2>4, RelationNames DEF R
<1> QED BY <1>1, <1>6, <1>7, <1>8, <1>9

\* Every evaluation has outcomes only, and if the cache is exact they agree
\* with what the tuples say.
CheckAgrees(c) ==
    /\ Check[c] \subseteq Outcomes
    /\ CacheExact => Agrees(c, Check[c], Meaning(c.at))

\* One call, if the calls it makes are right.
LEMMA CheckStep ==
    ASSUME tuples \in TupleSets, cache \in [Problems -> {"none", "no", "yes"}],
           NEW c \in Calls, ~Repeats(c) => \A d \in Made(c) : CheckAgrees(d)
    PROVE  CheckAgrees(c)
<1>1. Check[c] = IF c.depth = MaxDepth THEN {"error"}
                 ELSE (IF Repeats(c) THEN {"cycle"} ELSE Rewrite(Check, c, RewriteOf(c.at[1], c.at[2])))
                         \cup (IF c.mode = "ended" THEN {"error"} ELSE {})
  BY CheckDef
<1>2. CASE c.depth = MaxDepth \/ Repeats(c)
  <2>1. Check[c] \subseteq {"error", "cycle"} BY <1>1, <1>2
  <2> QED BY <2>1 DEF CheckAgrees, Agrees, Outcomes
<1>3. CASE c.depth # MaxDepth /\ ~Repeats(c)
  <2> DEFINE rw == RewriteOf(c.at[1], c.at[2])
  <2>1. c.at \in Problems /\ IsRewrite(TypeOf[c.at[1]], rw) BY RewritesNest DEF Calls
  <2>2. Evaluated(Check, c) BY <1>3 DEF Evaluated, CheckAgrees
  <2>3. CacheExact => AllAgree(Check, c) BY <1>3 DEF AllAgree, CheckAgrees
  <2>4. Meaning(c.at) <=> RewriteHolds(c.at, rw) BY <2>1, MeaningOfRewrites
  <2>5. Check[c] \subseteq Rewrite(Check, c, rw) \cup {"error"} BY <1>1, <1>3
  <2>6. Additively(c, rw) BY AdditiveRewrites
  <2> HIDE DEF rw
  <2>7. /\ Rewrite(Check, c, rw) \subseteq Outcomes
        /\ AllAgree(Check, c) => Agrees(c, Rewrite(Check, c, rw), RewriteHolds(c.at, rw))
    BY <2>1, <2>2, <2>6, RewriteRight
  <2> QED BY <2>3, <2>4, <2>5, <2>7 DEF CheckAgrees, Agrees, Outcomes
<1> QED BY <1>2, <1>3

\* Every call, by how many problems its path leaves.
LEMMA CheckRight ==
    ASSUME tuples \in TupleSets, cache \in [Problems -> {"none", "no", "yes"}]
    PROVE  \A c \in Calls : CheckAgrees(c)
<1> DEFINE S == {c \in Calls : CheckAgrees(c)}
<1>1. \A c \in Calls : (~Repeats(c) => Made(c) \subseteq S) => c \in S BY CheckStep
<1>2. Calls \subseteq S
  <2> HIDE DEF S
  <2> QED BY <1>1, CallInduction
<1> QED BY <1>2

(***************************************************************************)
(* The calls that a request comes to make, and the cache.                   *)
(***************************************************************************)
\* What a rewrite is made of.
LEMMA LeavesAre ==
    ASSUME NEW type, NEW rw, IsRewrite(type, rw)
    PROVE  \A leaf \in Leaves(rw) : IsLeaf(type, leaf)
<1>1. ASSUME NEW u, IsUnion(type, u) PROVE u[1] # "but not" /\ \A leaf \in Children(u) : IsLeaf(type, leaf)
  <2>1. CASE IsLeaf(type, u)
    <3>1. u[1] \in {"this", "computed", "from"} BY <2>1 DEF IsLeaf, This, Computed, From
    <3> QED BY <2>1, <3>1 DEF Children
  <2>2. CASE \E S : u = Or(S) /\ \A leaf \in S : IsLeaf(type, leaf)
    <3>1. u[1] = "or" /\ \A leaf \in u[2] : IsLeaf(type, leaf) BY <2>2 DEF Or
    <3> QED BY <3>1 DEF Children
  <2> QED BY <1>1, <2>1, <2>2 DEF IsUnion
<1>2. CASE IsUnion(type, rw) BY <1>1, <1>2 DEF Leaves
<1>3. CASE \E S : rw = And(S) /\ \A leaf \in S : IsLeaf(type, leaf)
  <2>1. rw[1] = "and" /\ \A leaf \in rw[2] : IsLeaf(type, leaf) BY <1>3 DEF And
  <2> QED BY <2>1 DEF Leaves, Children
<1>4. CASE \E b, s : rw = ButNot(b, s) /\ IsUnion(type, b) /\ IsUnion(type, s)
  <2>1. PICK b, s : rw = ButNot(b, s) /\ IsUnion(type, b) /\ IsUnion(type, s) BY <1>4
  <2>2. rw[1] = "but not" /\ rw[2] = b /\ rw[3] = s BY <2>1 DEF ButNot
  <2> QED BY <1>1, <2>1, <2>2 DEF Leaves
<1> QED BY <1>2, <1>3, <1>4 DEF IsRewrite

\* The calls that are made at once when a call is evaluated.
LEMMA LeafCalls ==
    ASSUME tuples \in TupleSets, NEW c \in Calls, c.depth # MaxDepth,
           NEW leaf \in Leaves(RewriteOf(c.at[1], c.at[2]))
    PROVE  /\ IsLeaf(TypeOf[c.at[1]], leaf)
           /\ \A d \in Dispatched(c, leaf) : d \in Made(c) /\ d \in Calls
           /\ leaf[1] = "computed" => Sideways(c, leaf) \in Made(c) /\ Sideways(c, leaf) \in Calls
<1>1. IsRewrite(TypeOf[c.at[1]], RewriteOf(c.at[1], c.at[2])) BY RewritesNest DEF Calls
<1>2. IsLeaf(TypeOf[c.at[1]], leaf) BY <1>1, LeavesAre
<1> QED BY <1>2, CallsMade DEF Made

\* What is dispatched, as it is defined: the function exists.
LEMMA BelowDef ==
    ASSUME tuples \in TupleSets
    PROVE  Below = [c \in Calls |->
              IF c.depth = MaxDepth \/ Repeats(c) THEN {}
              ELSE UNION {(UNION {{d} \cup Below[d] : d \in Dispatched(c, leaf)})
                            \cup (IF leaf[1] = "computed" THEN Below[Sideways(c, leaf)] ELSE {}) :
                              leaf \in Leaves(RewriteOf(c.at[1], c.at[2]))}]
<1> DEFINE V == SUBSET Calls
           Part(f, c, leaf) == (UNION {{d} \cup f[d] : d \in Dispatched(c, leaf)})
                                 \cup (IF leaf[1] = "computed" THEN f[Sideways(c, leaf)] ELSE {})
           Body(f, c) == IF c.depth = MaxDepth \/ Repeats(c) THEN {}
                         ELSE UNION {Part(f, c, leaf) : leaf \in Leaves(RewriteOf(c.at[1], c.at[2]))}
           rank == [c \in Calls |-> Unseen(c)]
           Step == [f \in [Calls -> V] |-> [c \in Calls |-> Body(f, c)]]
<1>1. rank \in [Calls -> Nat] /\ \A c \in Calls : rank[c] < Cardinality(Problems) + 1
  BY UnseenFalls
<1>2. ASSUME NEW f \in [Calls -> V], NEW c \in Calls PROVE Body(f, c) \in V
  <2>1. ASSUME c.depth # MaxDepth, NEW leaf \in Leaves(RewriteOf(c.at[1], c.at[2]))
        PROVE  Part(f, c, leaf) \subseteq Calls
    <3>1. /\ \A d \in Dispatched(c, leaf) : d \in Calls
          /\ leaf[1] = "computed" => Sideways(c, leaf) \in Calls
      BY <2>1, LeafCalls
    <3> QED BY <3>1
  <2> QED BY <2>1
<1>3. Step \in [[Calls -> V] -> [Calls -> V]] BY <1>2
<1>4. ASSUME NEW f \in [Calls -> V], NEW g \in [Calls -> V], NEW c \in Calls,
             \A d \in Calls : rank[d] < rank[c] => f[d] = g[d]
      PROVE  Step[f][c] = Step[g][c]
  <2>1. Step[f][c] = Body(f, c) /\ Step[g][c] = Body(g, c) OBVIOUS
  <2>2. ASSUME c.depth # MaxDepth, ~Repeats(c), NEW leaf \in Leaves(RewriteOf(c.at[1], c.at[2]))
        PROVE  Part(f, c, leaf) = Part(g, c, leaf)
    <3>1. \A d \in Made(c) : d \in Calls /\ Unseen(d) < Unseen(c) BY <2>2, UnseenFalls DEF Made
    <3>2. \A d \in Made(c) : f[d] = g[d] BY <1>4, <3>1
    <3>3. /\ \A d \in Dispatched(c, leaf) : d \in Made(c)
          /\ leaf[1] = "computed" => Sideways(c, leaf) \in Made(c)
      BY <2>2, LeafCalls
    <3>4. {{d} \cup f[d] : d \in Dispatched(c, leaf)} = {{d} \cup g[d] : d \in Dispatched(c, leaf)}
      BY <3>2, <3>3
    <3> QED BY <3>2, <3>3, <3>4
  <2> HIDE DEF Part
  <2>3. c.depth # MaxDepth /\ ~Repeats(c) =>
            {Part(f, c, leaf) : leaf \in Leaves(RewriteOf(c.at[1], c.at[2]))}
              = {Part(g, c, leaf) : leaf \in Leaves(RewriteOf(c.at[1], c.at[2]))}
    BY <2>2
  <2>4. Body(f, c) = Body(g, c) BY <2>3
  <2> QED BY <2>1, <2>4
<1>5. Recursion(Calls, V, rank, Cardinality(Problems) + 1, Step)
  <2>1. V # {} /\ Cardinality(Problems) + 1 \in Nat
    BY ProblemsFinite, FS_CardinalityType
  <2>2. \A f, g \in [Calls -> V] : \A c \in Calls :
            (\A d \in Calls : rank[d] < rank[c] => f[d] = g[d]) => Step[f][c] = Step[g][c]
    BY <1>4
  <2> HIDE DEF V, rank, Step
  <2> QED BY <1>1, <1>3, <2>1, <2>2 DEF Recursion
<1>6. \E f \in [Calls -> V] : f = Step[f]
  <2> HIDE DEF V, rank, Step
  <2> QED BY <1>5, FixedPoint
<1>7. \E f : f = [c \in Calls |-> Body(f, c)] BY <1>6
<1> QED BY <1>7, Zenon DEF Below

\* Calls are dispatched, each with the path that leads to it.
LEMMA BelowCalls ==
    ASSUME tuples \in TupleSets
    PROVE  \A c \in Calls : Below[c] \subseteq Calls
<1> DEFINE S == {c \in Calls : Below[c] \subseteq Calls}
<1>1. ASSUME NEW c \in Calls, ~Repeats(c) => Made(c) \subseteq S PROVE Below[c] \subseteq Calls
  <2>1. CASE c.depth = MaxDepth \/ Repeats(c)
    <3>1. Below[c] = {} BY <2>1, BelowDef
    <3> QED BY <3>1
  <2>2. CASE c.depth # MaxDepth /\ ~Repeats(c)
    <3>1. Below[c] = UNION {(UNION {{d} \cup Below[d] : d \in Dispatched(c, leaf)})
                              \cup (IF leaf[1] = "computed" THEN Below[Sideways(c, leaf)] ELSE {}) :
                                leaf \in Leaves(RewriteOf(c.at[1], c.at[2]))}
      BY <2>2, BelowDef
    <3>2. ASSUME NEW leaf \in Leaves(RewriteOf(c.at[1], c.at[2]))
          PROVE  /\ \A d \in Dispatched(c, leaf) : d \in Calls /\ Below[d] \subseteq Calls
                 /\ leaf[1] = "computed" => Below[Sideways(c, leaf)] \subseteq Calls
      BY <1>1, <2>2, LeafCalls
    <3> QED BY <3>1, <3>2
  <2> QED BY <2>1, <2>2
<1>2. Calls \subseteq S
  <2>1. \A c \in Calls : (~Repeats(c) => Made(c) \subseteq S) => c \in S BY <1>1
  <2> HIDE DEF S
  <2> QED BY <2>1, CallInduction
<1> QED BY <1>2

\* Every request asks about problems only.
LEMMA AskedCalls ==
    ASSUME tuples \in TupleSets
    PROVE  /\ Asked \subseteq Calls
           /\ \A p \in Roots, mode \in Modes : /\ Root(p, mode) \in Calls /\ Root(p, mode).at = p
                                               /\ Root(p, mode).mode = mode
<1>1. ASSUME NEW p \in Roots, NEW mode \in Modes
      PROVE  Root(p, mode) \in Calls /\ Root(p, mode).at = p /\ Root(p, mode).mode = mode
  <2>1. p \in Problems /\ 0 \in 0..MaxDepth BY ResolverAssumption
  <2> QED BY <2>1 DEF Root, Call, Calls
<1>2. Reached \subseteq Calls BY <1>1, BelowCalls DEF Reached, Modes
<1>3. ASSUME NEW c \in Calls PROVE Ended(c) \in Calls BY DEF Ended, Calls, Modes
<1> QED BY <1>1, <1>2, <1>3 DEF Asked

\* Saving an answer: the entry is there, the others are as they were or gone,
\* and there are no more of them than fit.
LEMMA SaveRight ==
    ASSUME TypeOK, NEW p \in Problems, NEW outcome \in Savable, Save(p, outcome)
    PROVE  /\ cache' \in [Problems -> {"none", "no", "yes"}]
           /\ Cardinality(Cached)' <= MaxCached
           /\ cache'[p] = outcome /\ \A q \in Problems \ {p} : cache'[q] \in {"none", cache[q]}
<1>1. PICK out \in SUBSET (Cached \ {p}) :
          /\ Cardinality(Cached \cup {p}) - Cardinality(out) <= MaxCached
          /\ cache' = [q \in Problems |-> IF q = p THEN outcome
                                          ELSE IF q \in out THEN "none" ELSE cache[q]]
  BY DEF Save
<1>2. cache' \in [Problems -> {"none", "no", "yes"}] BY <1>1 DEF TypeOK, Savable
<1>3. Cached' = (Cached \cup {p}) \ out BY <1>1 DEF Cached, Savable
<1>4. Cardinality(Cached') = Cardinality(Cached \cup {p}) - Cardinality(out)
  <2>1. IsFiniteSet(Cached \cup {p}) BY ProblemsFinite, FS_Subset DEF Cached
  <2>2. IsFiniteSet(out) BY <2>1, FS_Subset
  <2>3. (Cached \cup {p}) \cap out = out BY <1>1
  <2> QED BY <1>3, <2>1, <2>3, FS_Difference
<1>5. Cardinality(Cached)' <= MaxCached BY <1>1, <1>4
<1> QED BY <1>1, <1>2, <1>5

\* The inductive invariant: an answer that is saved is computed from tuples
\* and from answers that were saved before it.  Until an evaluation is saved
\* whose context had ended those are right, and after it a yes to a relation
\* that no intersection and no exclusion takes part in still is.
Exact == TypeOK /\ CacheExact

\* At the start nothing is cached.
LEMMA ExactInit == Init => Exact
<1> SUFFICES ASSUME Init PROVE Exact OBVIOUS
<1>1. Cached = {} BY DEF Init, Cached
<1>2. Cardinality(Cached) = 0 BY <1>1, FS_EmptySet
<1>3. MaxCached \in Nat BY ResolverAssumption
<1>4. TypeOK
  <2>1. cut \in BOOLEAN BY Zenon DEF Init
  <2>2. /\ tuples \in TupleSets /\ cache \in [Problems -> {"none", "no", "yes"}]
        /\ Cardinality(Cached) <= MaxCached
    BY <1>2, <1>3 DEF Init
  <2> QED BY <2>1, <2>2 DEF TypeOK
<1>5. CacheExact BY <1>1 DEF CacheExact
<1> QED BY <1>4, <1>5 DEF Exact

\* Nothing but an ended context puts a wrong answer into the cache.
LEMMA ExactNext == Exact /\ [Next]_vars => Exact'
<1> SUFFICES ASSUME Exact, [Next]_vars PROVE Exact' OBVIOUS
<1> USE DEF Exact
<1>1. ASSUME NEW f \in Asked, Resolve(f) PROVE Exact'
  <2>1. f \in Calls /\ f.at \in Problems BY AskedCalls DEF TypeOK, Calls
  <2>2. PICK outcome \in Check[f] \cap Savable : Save(f.at, outcome) BY <1>1 DEF Resolve
  <2>3. tuples' = tuples BY <1>1 DEF Resolve
  <2>4. /\ Sound(f) => (outcome = "yes" <=> Meaning(f.at))
        /\ Additive(f.at) /\ outcome = "yes" => Meaning(f.at)
    <3>1. CheckAgrees(f) BY <2>1, CheckRight DEF TypeOK
    <3> QED BY <2>2, <3>1 DEF CheckAgrees, Agrees, Savable, Grantable
  <2>5. /\ cut' \in BOOLEAN
        /\ ~cut' => ~cut /\ Sound(f)
    BY <1>1, <2>1 DEF Resolve, TypeOK, Sound, Calls, Modes
  <2>6. TypeOK' BY <2>1, <2>2, <2>3, <2>5, SaveRight DEF TypeOK
  <2>7. ASSUME NEW p \in Cached'
        PROVE  /\ ~cut' => (cache'[p] = "yes" <=> Meaning(p)')
               /\ Additive(p) /\ cache'[p] = "yes" => Meaning(p)'
    <3>1. p \in Problems /\ cache'[p] # "none" BY DEF Cached
    <3>2. Meaning(p)' <=> Meaning(p) BY <2>3 DEF Meaning
    <3>3. CASE p = f.at BY <2>1, <2>2, <2>4, <2>5, <3>2, <3>3, SaveRight
    <3>4. CASE p # f.at
      <4>1. cache'[p] = cache[p] BY <2>1, <2>2, <3>1, <3>4, SaveRight
      <4> QED BY <2>5, <3>1, <3>2, <4>1 DEF CacheExact, Cached
    <3> QED BY <3>3, <3>4
  <2> QED BY <2>6, <2>7 DEF CacheExact, Additive
<1>2. ASSUME NEW p \in Problems, Expire(p) PROVE Exact'
  <2>1. tuples' = tuples /\ cut' = cut /\ cache' = [cache EXCEPT ![p] = "none"] BY <1>2 DEF Expire
  <2>2. Cached' \subseteq Cached BY <2>1 DEF TypeOK, Cached
  <2>3. Cardinality(Cached') <= Cardinality(Cached) /\ Cardinality(Cached) \in Nat /\ Cardinality(Cached') \in Nat
    <3>1. IsFiniteSet(Cached) BY ProblemsFinite, FS_Subset DEF Cached
    <3> QED BY <2>2, <3>1, FS_Subset, FS_CardinalityType
  <2>4. TypeOK'
    <3>1. MaxCached \in Nat BY ResolverAssumption
    <3>2. Cardinality(Cached)' <= MaxCached BY <2>3, <3>1 DEF TypeOK
    <3> QED BY <2>1, <3>2 DEF TypeOK
  <2>5. ASSUME NEW q \in Cached' PROVE q \in Cached /\ cache'[q] = cache[q] /\ (Meaning(q)' <=> Meaning(q))
    <3>1. q \in Cached /\ cache'[q] = cache[q] BY <2>1, <2>2 DEF TypeOK, Cached
    <3>2. Meaning(q)' <=> Meaning(q) BY <2>1 DEF Meaning
    <3> QED BY <3>1, <3>2
  <2> QED BY <2>1, <2>4, <2>5 DEF CacheExact, Additive
<1>3. CASE UNCHANGED vars
  <2>1. tuples' = tuples /\ cache' = cache /\ cut' = cut BY <1>3 DEF vars
  <2>2. Cached' = Cached BY <2>1 DEF Cached
  <2>3. \A p : Meaning(p)' <=> Meaning(p) BY <2>1 DEF Meaning
  <2> QED BY <2>1, <2>2, <2>3 DEF TypeOK, CacheExact, Additive
<1> QED BY <1>1, <1>2, <1>3 DEF Next

\* The invariant holds in every state.
THEOREM ExactAlways == Spec => []Exact
BY ExactInit, ExactNext, PTL DEF Spec

\* The cache never holds more entries than it may, whatever is evaluated
\* (cached_resolver.go: the entry is put into an LRU cache of a fixed size).
THEOREM TypeCorrect == Spec => []TypeOK
<1>1. Exact => TypeOK BY DEF Exact
<1> QED BY <1>1, ExactAlways, PTL

\* For every store and every rewrite of the model: what the cache holds of a
\* sub-problem is what the tuples say of it, on whatever path it was computed,
\* as long as no evaluation was saved whose context had ended; and a role or a
\* membership that the cache grants is always one that the tuples give
\* (cached_resolver.go:186-203).
THEOREM CacheStaysExact == Spec => []CacheExact
<1>1. Exact => CacheExact BY DEF Exact
<1> QED BY <1>1, ExactAlways, PTL

\* A yes to a check is due, and a no that no cycle made is too, whichever
\* strategy, read, cached answer or failure came first: of a request that is
\* not cancelled, and reads a cache that no cancelled evaluation has reached or
\* none at all.  A role or a membership is never granted that is not due
\* (check.go:156-372, 396-473).
THEOREM DecisionsAreRight == Spec => []DecisionsRight
<1>1. Exact => DecisionsRight
  <2> SUFFICES ASSUME Exact
               PROVE  \A p \in Roots, mode \in Modes :
                         /\ mode \in Trusted => /\ "yes" \in Check[Root(p, mode)] => Meaning(p)
                                                /\ "no" \in Check[Root(p, mode)] => ~Meaning(p)
                         /\ Additive(p) /\ "yes" \in Check[Root(p, mode)] => Meaning(p)
    BY DEF DecisionsRight, Trusted, Modes
  <2> TAKE p \in Roots, mode \in Modes
  <2>1. Root(p, mode) \in Calls /\ Root(p, mode).at = p /\ Root(p, mode).mode = mode
    BY AskedCalls DEF Exact, TypeOK
  <2>2. CheckAgrees(Root(p, mode)) BY <2>1, CheckRight DEF Exact, TypeOK
  <2>3. mode \in Trusted => Sound(Root(p, mode)) BY <2>1 DEF Trusted, Sound
  <2>4. Agrees(Root(p, mode), Check[Root(p, mode)], Meaning(p)) BY <2>1, <2>2 DEF CheckAgrees, Exact
  <2> QED BY <2>1, <2>3, <2>4 DEF Agrees, Grantable
<1> QED BY <1>1, ExactAlways, PTL

(***************************************************************************)
(* Cycles.                                                                  *)
(***************************************************************************)
\* The problems that a leaf of a problem asks about, and the calls that do.
Successors(p, leaf) ==
    CASE leaf[1] = "this" /\ Allows(ToTeams, p[1], p[2]) -> {<<t, "member">> : t \in Named(tuples, p[1], p[2])}
      [] leaf[1] = "from" -> {<<o, leaf[2]>> : o \in Named(tuples, p[1], leaf[3])}
      [] leaf[1] = "computed" -> {<<p[1], leaf[2]>>}
      [] OTHER -> {}

Through(c, leaf) == Dispatched(c, leaf) \cup (IF leaf[1] = "computed" THEN {Sideways(c, leaf)} ELSE {})

\* They are the same, and the calls carry the path.
LEMMA ThroughAre ==
    ASSUME tuples \in TupleSets, NEW c \in Calls, c.depth # MaxDepth,
           NEW leaf, IsLeaf(TypeOf[c.at[1]], leaf)
    PROVE  /\ Through(c, leaf) \subseteq Made(c)
           /\ \A d \in Through(c, leaf) : d.at \in Successors(c.at, leaf)
           /\ \A p \in Successors(c.at, leaf) : \E d \in Through(c, leaf) : d.at = p
<1>1. leaf[1] \in {"this", "computed", "from"} BY DEF IsLeaf, This, Computed, From
<1>2. Through(c, leaf) \subseteq Made(c) BY CallsMade DEF Through
<1>3. \A p, seen, depth, mode : Call(p, seen, depth, mode).at = p BY DEF Call
<1>4. CASE leaf[1] = "this"
  <2> DEFINE named == Named(tuples, c.at[1], c.at[2])
  <2>1. CASE Allows(ToTeams, c.at[1], c.at[2])
    <3>1. Through(c, leaf) = {Call(<<t, "member">>, Path(c), c.depth + 1, Counted(c)) : t \in named}
      BY <1>4, <2>1 DEF Through, Dispatched
    <3>2. Successors(c.at, leaf) = {<<t, "member">> : t \in named} BY <1>4, <2>1 DEF Successors
    <3> HIDE DEF named
    <3>3. ASSUME NEW t \in named
          PROVE  /\ Call(<<t, "member">>, Path(c), c.depth + 1, Counted(c)) \in Through(c, leaf)
                 /\ Call(<<t, "member">>, Path(c), c.depth + 1, Counted(c)).at = <<t, "member">>
      BY <1>3, <3>1
    <3> QED BY <1>2, <3>1, <3>2, <3>3
  <2>2. CASE ~Allows(ToTeams, c.at[1], c.at[2])
    <3>1. Through(c, leaf) = {} /\ Successors(c.at, leaf) = {}
      BY <1>4, <2>2 DEF Through, Dispatched, Successors
    <3> QED BY <3>1
  <2> QED BY <2>1, <2>2
<1>5. CASE leaf[1] = "from"
  <2> DEFINE named == Named(tuples, c.at[1], leaf[3])
  <2>1. Through(c, leaf) = {Call(<<o, leaf[2]>>, Path(c), c.depth + 1, Counted(c)) : o \in named}
    BY <1>5 DEF Through, Dispatched
  <2>2. Successors(c.at, leaf) = {<<o, leaf[2]>> : o \in named} BY <1>5 DEF Successors
  <2> HIDE DEF named
  <2>3. ASSUME NEW o \in named
        PROVE  /\ Call(<<o, leaf[2]>>, Path(c), c.depth + 1, Counted(c)) \in Through(c, leaf)
               /\ Call(<<o, leaf[2]>>, Path(c), c.depth + 1, Counted(c)).at = <<o, leaf[2]>>
    BY <1>3, <2>1
  <2> QED BY <1>2, <2>1, <2>2, <2>3
<1>6. CASE leaf[1] = "computed"
  <2>1. Through(c, leaf) = {Sideways(c, leaf)} BY <1>6 DEF Through, Dispatched
  <2>2. Successors(c.at, leaf) = {<<c.at[1], leaf[2]>>} BY <1>6 DEF Successors
  <2>3. Sideways(c, leaf).at = <<c.at[1], leaf[2]>> BY <1>3 DEF Sideways
  <2> QED BY <1>2, <2>1, <2>2, <2>3
<1> QED BY <1>1, <1>4, <1>5, <1>6

\* A cycle that a leaf comes to is one that a call of it came to.
LEMMA LeafCycle ==
    ASSUME NEW answer, NEW c, Evaluated(answer, c), NEW leaf, IsLeaf(TypeOf[c.at[1]], leaf),
           "cycle" \in Leaf(answer, c, leaf)
    PROVE  \E d \in Through(c, leaf) : "cycle" \in answer[d]
<1>1. /\ tuples \in TupleSets /\ c \in Calls /\ c.depth # MaxDepth /\ c.at[1] \in Objects
      /\ c.depth \in 0..(MaxDepth - 1)
  BY ProblemsAre, ResolverAssumption DEF Evaluated, Calls
<1>2. ASSUME NEW l, IsLeaf(TypeOf[c.at[1]], l), "cycle" \in AnyOf({Dispatch(answer, d) : d \in Dispatched(c, l)})
      PROVE  \E d \in Dispatched(c, l) : "cycle" \in answer[d]
  <2>1. Dispatched(c, l) \subseteq Made(c) BY <1>1, <1>2, CallsMade
  <2>2. \A d \in Dispatched(c, l) : Dispatch(answer, d) \subseteq Outcomes BY <2>1, DispatchRight
  <2>3. PICK d \in Dispatched(c, l) : "cycle" \in Dispatch(answer, d) BY <1>2, <2>2, AnyOfAnswers
  <2>4. d.at \in Problems BY <2>1 DEF Made, Calls
  <2>5. cache[d.at] # "cycle" BY <2>4 DEF Evaluated
  <2> QED BY <2>3, <2>5 DEF Dispatch
<1>3. CASE leaf = This
  <2>1. "cycle" \in Direct(answer, c) /\ leaf[1] = "this" BY <1>3 DEF Leaf, This
  <2> DEFINE children == {Read(Answer(<<c.at[1], c.at[2], User>> \in tuples))}
                  \cup (IF Allows(ToEveryone, c.at[1], c.at[2])
                        THEN {Read(Answer(<<c.at[1], c.at[2], Everyone>> \in tuples))} ELSE {})
                  \cup (IF Allows(ToTeams, c.at[1], c.at[2]) THEN {Read(Teamed(answer, c))} ELSE {})
  <2>2. Direct(answer, c) = SomeOf(c, children) BY DEF Direct
  <2>3. \A s \in {User, Everyone} : /\ Read(Answer(<<c.at[1], c.at[2], s>> \in tuples)) \subseteq Outcomes
                                    /\ "cycle" \notin Read(Answer(<<c.at[1], c.at[2], s>> \in tuples))
    BY DEF Read, Answer, Outcomes
  <2>4. Allows(ToTeams, c.at[1], c.at[2]) => Read(Teamed(answer, c)) \subseteq Outcomes
    BY TeamedRight, ReadRight
  <2>5. \A o \in children : o \subseteq Outcomes BY <2>3, <2>4
  <2>6. \E o \in children : "cycle" \in o
    <3> HIDE DEF children
    <3> QED BY <2>1, <2>2, <2>5, SomeOfAnswers
  <2>7. Allows(ToTeams, c.at[1], c.at[2]) /\ "cycle" \in Teamed(answer, c)
    <3>1. Allows(ToTeams, c.at[1], c.at[2]) /\ "cycle" \in Read(Teamed(answer, c)) BY <2>3, <2>6
    <3> QED BY <3>1, ReadRight
  <2>8. TypeOf[c.at[1]] = "team" => "cycle" \notin Recursive(c.at[1], c.depth)
    <3> HAVE TypeOf[c.at[1]] = "team"
    <3>1. c.at[1] \in Teams BY <1>1, Types DEF Objects
    <3> QED BY <1>1, <3>1, RecursiveRight
  <2>9. "cycle" \in AnyOf({Dispatch(answer, d) : d \in Dispatched(c, This)}) BY <2>7, <2>8 DEF Teamed
  <2> QED BY <1>2, <1>3, <2>9 DEF Through
<1>4. CASE \E r \in DOMAIN Relations[TypeOf[c.at[1]]] : leaf = Computed(r)
  <2>1. leaf[1] = "computed" BY <1>4 DEF Computed
  <2>2. Leaf(answer, c, leaf) = answer[Sideways(c, leaf)] BY <2>1 DEF Leaf
  <2> QED BY <2>1, <2>2 DEF Through
<1>5. CASE \E l \in Links : \E r \in DOMAIN Relations[LinkTo[l]] : leaf = From(r, l)
  <2>1. leaf[1] = "from" BY <1>5 DEF From
  <2>2. "cycle" \in FromParents(answer, c, leaf) BY <2>1 DEF Leaf
  <2> DEFINE children == AnyOf({Dispatch(answer, d) : d \in Dispatched(c, leaf)})
             weighed == IF HasWeightTwo(leaf[2], leaf[3])
                        THEN Answer(\E d \in Dispatched(c, leaf) : WeightTwo(d.at))
                                 \cup (IF Unmatched(c, leaf) THEN {"no"} ELSE {})
                        ELSE {}
  <2>3. "cycle" \notin weighed BY DEF Answer
  <2>4. FromParents(answer, c, leaf) = Read(children \cup weighed) BY DEF FromParents
  <2>5. "cycle" \in children
    <3> HIDE DEF children, weighed
    <3> QED BY <2>2, <2>3, <2>4 DEF Read
  <2> QED BY <1>2, <2>5 DEF Through
<1> QED BY <1>3, <1>4, <1>5 DEF IsLeaf

\* The same of a whole rewrite.
LEMMA RewriteCycle ==
    ASSUME NEW answer, NEW c, Evaluated(answer, c), NEW rw, IsRewrite(TypeOf[c.at[1]], rw),
           "cycle" \in Rewrite(answer, c, rw)
    PROVE  \E leaf \in Leaves(rw) : \E d \in Through(c, leaf) : "cycle" \in answer[d]
<1> DEFINE type == TypeOf[c.at[1]]
<1>1. ASSUME NEW u, IsUnion(type, u), "cycle" \in Union(answer, c, u)
      PROVE  \E leaf \in Children(u) : "cycle" \in Leaf(answer, c, leaf)
  <2>1. CASE IsLeaf(type, u)
    <3>1. u[1] \in {"this", "computed", "from"} BY <2>1 DEF IsLeaf, This, Computed, From
    <3> QED BY <1>1, <3>1 DEF Union, Children
  <2>2. CASE \E S : u = Or(S) /\ \A leaf \in S : IsLeaf(type, leaf)
    <3>1. u[1] = "or" /\ \A leaf \in u[2] : IsLeaf(type, leaf) BY <2>2 DEF Or
    <3>2. "cycle" \in SomeOf(c, {Leaf(answer, c, leaf) : leaf \in u[2]}) BY <1>1, <3>1 DEF Union
    <3>3. \A o \in {Leaf(answer, c, leaf) : leaf \in u[2]} : o \subseteq Outcomes BY <3>1, LeafRight
    <3>4. \E leaf \in u[2] : "cycle" \in Leaf(answer, c, leaf) BY <3>2, <3>3, SomeOfAnswers
    <3> QED BY <3>1, <3>4 DEF Children
  <2> QED BY <1>1, <2>1, <2>2 DEF IsUnion
<1>2. \E leaf \in Leaves(rw) : "cycle" \in Leaf(answer, c, leaf)
  <2>1. CASE IsUnion(type, rw)
    <3>1. rw[1] \in {"this", "computed", "from", "or"}
      BY <2>1 DEF IsUnion, IsLeaf, This, Computed, From, Or
    <3>2. Rewrite(answer, c, rw) = Union(answer, c, rw) /\ Leaves(rw) = Children(rw)
      BY <3>1 DEF Rewrite, Leaves
    <3> QED BY <1>1, <2>1, <3>2
  <2>2. CASE \E S : rw = And(S) /\ \A leaf \in S : IsLeaf(type, leaf)
    <3>1. rw[1] = "and" /\ \A leaf \in rw[2] : IsLeaf(type, leaf) BY <2>2 DEF And
    <3>2. "cycle" \in EachOf(c, {Leaf(answer, c, leaf) : leaf \in rw[2]}) /\ Leaves(rw) = rw[2]
      BY <3>1 DEF Rewrite, Leaves, Children
    <3>3. \A o \in {Leaf(answer, c, leaf) : leaf \in rw[2]} : o \subseteq Outcomes BY <3>1, LeafRight
    <3>4. \E leaf \in rw[2] : "cycle" \in Leaf(answer, c, leaf) BY <3>2, <3>3, EachOfAnswers
    <3> QED BY <3>2, <3>4
  <2>3. CASE \E b, s : rw = ButNot(b, s) /\ IsUnion(type, b) /\ IsUnion(type, s)
    <3>1. PICK b, s : rw = ButNot(b, s) /\ IsUnion(type, b) /\ IsUnion(type, s) BY <2>3
    <3>2. rw[1] = "but not" /\ rw[2] = b /\ rw[3] = s BY <3>1 DEF ButNot
    <3>3. "cycle" \in Except(Union(answer, c, b), Union(answer, c, s)) BY <3>2 DEF Rewrite
    <3>4. Union(answer, c, b) \subseteq Outcomes /\ Union(answer, c, s) \subseteq Outcomes
      BY <3>1, UnionRight
    <3>5. "cycle" \in Union(answer, c, b) \/ "cycle" \in Union(answer, c, s)
      BY <3>3, <3>4, ExceptAnswers
    <3>6. Leaves(rw) = Children(b) \cup Children(s) BY <3>2 DEF Leaves
    <3> QED BY <1>1, <3>1, <3>5, <3>6
  <2> QED BY <2>1, <2>2, <2>3 DEF IsRewrite
<1>3. \A leaf \in Leaves(rw) : IsLeaf(type, leaf) BY LeavesAre
<1> QED BY <1>2, <1>3, LeafCycle

\* Where a relation stands among those that its object computes it from, and
\* an object among those that link to it.
Rank == [can_share |-> 0, can_edit |-> 1, can_view |-> 1, can_manage |-> 2, is_blocked |-> 2,
         member |-> 2, viewer |-> 3, manager |-> 3, contributor |-> 3, blocked |-> 3, admin |-> 3,
         maintainer |-> 3, blocked_in_org |-> 3, editor |-> 4, owner |-> 5]

Level == [project |-> 0, folder |-> 1, org |-> 2, team |-> 2]

LevelOf(o) == Level[TypeOf[o]]

\* Further along the nesting of teams or of folders.
Beyond(o, x) == \E t \in {"member", "parent"} : \E y \in Named(tuples, o, t) : x \in Above(tuples, y, t)

\* A problem that comes strictly before another on a path.
Earlier(q, p) ==
    \/ LevelOf(q[1]) < LevelOf(p[1])
    \/ LevelOf(q[1]) = LevelOf(p[1]) /\ Beyond(q[1], p[1])
    \/ q[1] = p[1] /\ Rank[q[2]] < Rank[p[2]]

\* A relation is computed from relations of a higher rank, and only folders
\* and projects ask their organisation.
LEMMA RanksRise ==
    ASSUME NEW p \in Problems, NEW leaf \in Leaves(RewriteOf(p[1], p[2]))
    PROVE  /\ leaf[1] = "computed" => Rank[p[2]] < Rank[leaf[2]]
           /\ leaf[1] = "from" /\ leaf[3] = "org" => TypeOf[p[1]] \in {"folder", "project"}
<1> DEFINE type == TypeOf[p[1]]
           r == p[2]
           R == Relations[type][r]
           Rises(q, s) == Rank[q] < Rank[s]
           Fits(l) == /\ l[1] = "computed" => Rises(r, l[2])
                      /\ l[1] = "from" /\ l[3] = "org" => type \in {"folder", "project"}
<1>1. type \in {"org", "team", "folder", "project"} /\ r \in DOMAIN Relations[type] BY ProblemsAre
<1>2. leaf \in Leaves(R) BY DEF RewriteOf
<1>3. /\ Fits(This)
      /\ \A s : Rises(r, s) => Fits(Computed(s))
      /\ \A s, l : l # "org" \/ type \in {"folder", "project"} => Fits(From(s, l))
  BY DEF This, Computed, From
<1>4. /\ Rises("can_share", "can_edit")
      /\ \A s \in {"contributor", "can_manage", "is_blocked"} : Rises("can_edit", s)
      /\ \A s \in {"member", "can_manage", "is_blocked"} : Rises("can_view", s)
      /\ \A s \in {"owner", "contributor", "viewer", "admin", "maintainer"} : Rises("member", s)
      /\ Rises("can_manage", "owner") /\ Rises("is_blocked", "blocked") /\ Rises("manager", "owner")
      /\ Rises("editor", "owner") /\ Rises("viewer", "editor")
  BY DEF Rank
<1>5. /\ \A S : Leaves(Or(S)) = S /\ Leaves(And(S)) = S
      /\ Leaves(This) = {This}
      /\ \A S, s : Leaves(ButNot(Or(S), Computed(s))) = S \cup {Computed(s)}
  BY DEF Leaves, Children, Or, And, ButNot, This, Computed
<1> SUFFICES \A l \in Leaves(R) : Fits(l) BY <1>2
<1> HIDE DEF Fits, Rises, type, r
<1>6. CASE type = "org"
  <2>1. r \in {"admin", "member", "blocked"} BY <1>1, <1>6, RelationNames
  <2> QED BY <1>3, <1>4, <1>5, <1>6, <2>1 DEF Relations, OrgRelations
<1>7. CASE type = "team"
  <2>1. r \in {"maintainer", "member"} BY <1>1, <1>7, RelationNames
  <2> QED BY <1>3, <1>4, <1>5, <1>7, <2>1 DEF Relations, TeamRelations
<1>8. CASE type = "folder"
  <2>1. r \in {"owner", "manager", "editor", "viewer", "blocked_in_org"} BY <1>1, <1>8, RelationNames
  <2> QED BY <1>3, <1>4, <1>5, <1>8, <2>1 DEF Relations, FolderRelations
<1>9. CASE type = "project"
  <2>1. r \in {"owner", "contributor", "viewer", "blocked"}
             \cup {"member", "can_manage", "is_blocked"} \cup {"can_edit", "can_view", "can_share"}
    BY <1>1, <1>9, RelationNames
  <2>2. CASE r \in {"owner", "contributor", "viewer", "blocked"}
    BY <1>3, <1>5, <1>9, <2>2 DEF Relations, ProjectRelations
  <2>3. CASE r \in {"member", "can_manage", "is_blocked"}
    BY <1>3, <1>4, <1>5, <1>9, <2>3 DEF Relations, ProjectRelations
  <2>4. CASE r \in {"can_edit", "can_view", "can_share"}
    BY <1>3, <1>4, <1>5, <1>9, <2>4 DEF Relations, ProjectRelations
  <2> QED BY <2>1, <2>2, <2>3, <2>4
<1> QED BY <1>1, <1>6, <1>7, <1>8, <1>9

\* One more step of the nesting.
LEMMA BeyondStep ==
    ASSUME tuples \in TupleSets, NEW o \in Objects, NEW a \in Objects,
           NEW t \in {"member", "parent"}, NEW x \in Named(tuples, a, t)
    PROVE  /\ Beyond(a, x)
           /\ LevelOf(o) = LevelOf(a) /\ Beyond(o, a) /\ TypeOf[a] \in {"team", "folder"} => Beyond(o, x)
<1>1. x \in Objects /\ x \in Above(tuples, x, t) BY AboveLeast DEF Named
<1>2. Beyond(a, x) BY <1>1 DEF Beyond
<1>3. ASSUME Beyond(o, a), TypeOf[a] \in {"team", "folder"} PROVE Beyond(o, x)
  <2>0. PICK u \in {"member", "parent"} : \E y \in Named(tuples, o, u) : a \in Above(tuples, y, u)
    BY <1>3 DEF Beyond
  <2>1. PICK y \in Named(tuples, o, u) : a \in Above(tuples, y, u) BY <2>0
  <2>2. y \in Objects BY DEF Named
  <2>3. u = t
    <3>1. u = "parent" => TypeOf[a] = "folder"
      <4> HAVE u = "parent"
      <4>1. y \in Folders BY <2>1, <2>2, LinksTyped, Types DEF Links, LinkTo, Objects
      <4>2. \A z \in Folders \cap Objects : Named(tuples, z, "parent") \subseteq Folders
        BY LinksTyped, Types DEF Links, LinkTo, Objects
      <4>3. a \in Folders BY <2>1, <2>2, <4>1, <4>2, AboveLeast
      <4> QED BY <4>3, Types
    <3>2. u = "member" => TypeOf[a] = "team"
      <4> HAVE u = "member"
      <4>1. y \in Teams BY <2>1, LinksTyped DEF Links
      <4>2. \A z \in Teams \cap Objects : Named(tuples, z, "member") \subseteq Teams
        BY LinksTyped DEF Links
      <4>3. a \in Teams BY <2>1, <2>2, <4>1, <4>2, AboveLeast
      <4> QED BY <4>3, Types
    <3>3. t = "parent" => TypeOf[a] = "folder"
      <4> HAVE t = "parent"
      <4>1. x \in Folders BY LinksTyped, Types DEF Links, LinkTo, Objects
      <4>2. x \notin Teams /\ x \notin Orgs /\ x # User /\ x # Everyone BY <1>1, <4>1, ObjectsAssumption
      <4>3. Takes(a, "parent", x) BY LinksTyped
      <4>4. <<TypeOf[a], "parent">> \in {<<"folder", "parent">>, <<"project", "folder">>}
        BY <4>2, <4>3 DEF Takes
      <4> QED BY <4>4
    <3>4. t = "member" => TypeOf[a] \in {"team", "folder"} /\ TypeOf[a] # "folder"
      <4> HAVE t = "member"
      <4>1. Allows(ToTeams, a, "member") BY LinksTyped DEF Links
      <4> QED BY <1>3, <4>1 DEF Allows, ToTeams
    <3> QED BY <3>1, <3>2, <3>3, <3>4
  <2>4. x \in Above(tuples, y, u) BY <2>1, <2>2, <2>3, AboveLeast
  <2> QED BY <2>1, <2>4 DEF Beyond
<1> QED BY <1>2, <1>3

\* What a problem asks about comes after it, and after all that came before it.
LEMMA SuccessorsLater ==
    ASSUME tuples \in TupleSets, NEW p \in Problems,
           NEW leaf \in Leaves(RewriteOf(p[1], p[2])), NEW s \in Successors(p, leaf)
    PROVE  Earlier(p, s) /\ \A q \in Problems : Earlier(q, p) => Earlier(q, s)
<1>1. /\ p[1] \in Objects /\ TypeOf[p[1]] \in {"org", "team", "folder", "project"}
      /\ \A q \in Problems : q[1] \in Objects
  BY ProblemsAre
<1>2. IsLeaf(TypeOf[p[1]], leaf) BY RewritesNest, LeavesAre
<1>3. \A o \in Objects : LevelOf(o) \in Nat /\ (LevelOf(o) = 0 <=> TypeOf[o] = "project")
                         /\ (LevelOf(o) = 1 <=> TypeOf[o] = "folder")
                         /\ (LevelOf(o) = 2 <=> TypeOf[o] \in {"org", "team"})
  BY ProblemsAre DEF LevelOf, Level
<1>4. \A q \in Problems : q[2] \in DOMAIN Rank /\ Rank[q[2]] \in Nat
  <2>1. \A r \in DOMAIN Rank : Rank[r] \in Nat BY DEF Rank
  <2>2. \A ty \in {"org", "team", "folder", "project"} : DOMAIN Relations[ty] \subseteq DOMAIN Rank
    BY RelationNames DEF Rank
  <2> QED BY <2>1, <2>2, ProblemsAre
\* Another relation of the object.
<1>5. CASE leaf[1] = "computed"
  <2>1. s[1] = p[1] /\ s[2] = leaf[2] BY <1>5 DEF Successors
  <2>2. Rank[p[2]] < Rank[s[2]] BY <1>5, <2>1, RanksRise
  <2>3. PICK r \in DOMAIN Relations[TypeOf[p[1]]] : leaf = Computed(r)
    BY <1>2, <1>5 DEF IsLeaf, This, From
  <2>4. s \in Problems
    <3>1. leaf[2] = r BY <2>3 DEF Computed
    <3>2. s = <<p[1], r>> BY <1>5, <3>1 DEF Successors
    <3> QED BY <1>1, <3>2, ProblemsAre
  <2>5. Rank[p[2]] \in Nat /\ Rank[s[2]] \in Nat BY <1>4, <2>4
  <2>6. ASSUME NEW q \in Problems, Earlier(q, p) PROVE Earlier(q, s)
    <3>1. Rank[q[2]] \in Nat BY <1>4
    <3> QED BY <2>1, <2>2, <2>5, <2>6, <3>1 DEF Earlier
  <2> QED BY <2>1, <2>2, <2>6 DEF Earlier
\* A higher level.
<1>6. ASSUME s[1] \in Objects, LevelOf(p[1]) < LevelOf(s[1])
      PROVE  Earlier(p, s) /\ \A q \in Problems : Earlier(q, p) => Earlier(q, s)
  <2>1. ASSUME NEW q \in Problems, Earlier(q, p) PROVE LevelOf(q[1]) < LevelOf(s[1])
    <3>1. LevelOf(q[1]) <= LevelOf(p[1]) BY <1>1, <1>3, <2>1 DEF Earlier
    <3> QED BY <1>1, <1>3, <1>6, <3>1
  <2> QED BY <1>6, <2>1 DEF Earlier
\* The next team or folder.
<1>7. ASSUME NEW t \in {"member", "parent"}, s[1] \in Named(tuples, p[1], t), LevelOf(s[1]) = LevelOf(p[1]),
             TypeOf[p[1]] \in {"team", "folder"}
      PROVE  Earlier(p, s) /\ \A q \in Problems : Earlier(q, p) => Earlier(q, s)
  <2>1. Beyond(p[1], s[1]) BY <1>1, <1>7, BeyondStep
  <2>2. ASSUME NEW q \in Problems, Earlier(q, p) PROVE Earlier(q, s)
    <3>1. LevelOf(q[1]) < LevelOf(p[1]) => Earlier(q, s) BY <1>7 DEF Earlier
    <3>2. q[1] = p[1] => Earlier(q, s) BY <1>7, <2>1 DEF Earlier
    <3>3. LevelOf(q[1]) = LevelOf(p[1]) /\ Beyond(q[1], p[1]) => Earlier(q, s)
      BY <1>1, <1>7, BeyondStep DEF Earlier
    <3> QED BY <2>2, <3>1, <3>2, <3>3 DEF Earlier
  <2> QED BY <1>7, <2>1, <2>2 DEF Earlier
<1>8. CASE leaf[1] = "this"
  <2>1. Allows(ToTeams, p[1], p[2]) /\ s[1] \in Named(tuples, p[1], p[2]) BY <1>8 DEF Successors
  <2>2. s[1] \in Teams BY <1>1, <2>1, GrantsTyped
  <2>3. s[1] \in Objects /\ TypeOf[s[1]] = "team" /\ LevelOf(s[1]) = 2 BY <1>3, <2>2, Types
  <2>4. TypeOf[p[1]] \in {"team", "folder", "project"} /\ (TypeOf[p[1]] = "team" => p[2] = "member")
    BY <2>1 DEF Allows, ToTeams
  <2>5. CASE TypeOf[p[1]] = "team" BY <1>1, <1>3, <1>7, <2>1, <2>3, <2>4, <2>5
  <2>6. CASE TypeOf[p[1]] # "team"
    <3>1. LevelOf(p[1]) = 0 \/ LevelOf(p[1]) = 1 BY <1>1, <1>3, <2>4, <2>6
    <3> QED BY <1>6, <2>3, <3>1
  <2> QED BY <2>5, <2>6
<1>9. CASE leaf[1] = "from"
  <2>1. s[1] \in Named(tuples, p[1], leaf[3]) /\ leaf[3] \in Links
    <3>1. leaf[3] \in Links BY <1>2, <1>9 DEF IsLeaf, This, Computed, From
    <3> QED BY <1>9, <3>1 DEF Successors
  <2>2. s[1] \in Objects /\ TypeOf[s[1]] = LinkTo[leaf[3]] BY <1>1, <2>1, LinksTyped
  <2>3. CASE leaf[3] = "org"
    <3>1. LevelOf(s[1]) = 2 BY <1>3, <2>2, <2>3 DEF LinkTo
    <3>2. TypeOf[p[1]] \in {"folder", "project"} BY <1>9, <2>3, RanksRise
    <3>3. LevelOf(p[1]) = 0 \/ LevelOf(p[1]) = 1 BY <1>1, <1>3, <3>2
    <3> QED BY <1>6, <2>2, <3>1, <3>3
  <2>4. CASE leaf[3] \in {"parent", "folder"}
    <3>1. TypeOf[s[1]] = "folder" /\ LevelOf(s[1]) = 1 BY <1>3, <2>2, <2>4 DEF LinkTo
    <3>2. <<TypeOf[p[1]], leaf[3]>> \in {<<"folder", "parent">>, <<"project", "folder">>}
      <4>1. s[1] \in Folders BY <2>2, <3>1, Types DEF Objects
      <4>2. s[1] \notin Teams /\ s[1] \notin Orgs /\ s[1] # User /\ s[1] # Everyone
        BY <2>2, <4>1, ObjectsAssumption
      <4>3. Takes(p[1], leaf[3], s[1]) BY <1>1, <2>1, LinksTyped
      <4> QED BY <4>2, <4>3 DEF Takes
    <3>3. CASE leaf[3] = "parent"
      <4>1. TypeOf[p[1]] = "folder" BY <3>2, <3>3
      <4>2. LevelOf(p[1]) = 1 BY <1>1, <1>3, <4>1
      <4> QED BY <1>7, <2>1, <3>1, <3>3, <4>1, <4>2
    <3>4. CASE leaf[3] = "folder"
      <4>1. LevelOf(p[1]) = 0 BY <1>1, <1>3, <3>2, <3>4
      <4> QED BY <1>6, <2>2, <3>1, <4>1
    <3> QED BY <2>4, <3>3, <3>4
  <2> QED BY <2>1, <2>3, <2>4 DEF Links
<1> QED BY <1>2, <1>5, <1>8, <1>9 DEF IsLeaf, This, Computed, From

\* A path without a way back.
Straight(c) == \A q \in c.seen : Earlier(q, c.at)

\* On such a path no cycle is met.
NoCycle(c) == Straight(c) => "cycle" \notin Check[c]

\* One call.
LEMMA StraightStep ==
    ASSUME tuples \in TupleSets, cache \in [Problems -> {"none", "no", "yes"}], ~Cyclic(tuples),
           NEW c \in Calls, ~Repeats(c) => \A d \in Made(c) : NoCycle(d)
    PROVE  NoCycle(c)
<1> SUFFICES ASSUME Straight(c), "cycle" \in Check[c] PROVE FALSE BY DEF NoCycle
<1>1. c.at \in Problems /\ c.seen \subseteq Problems /\ c.at[1] \in Objects BY ProblemsAre DEF Calls
<1>2. ~Repeats(c)
  <2> SUFFICES ASSUME Earlier(c.at, c.at) PROVE FALSE BY DEF Straight, Repeats
  <2>1. LevelOf(c.at[1]) \in Nat BY <1>1, ProblemsAre DEF LevelOf, Level
  <2>2. Rank[c.at[2]] \in Nat
    <3>1. \A ty \in {"org", "team", "folder", "project"} : DOMAIN Relations[ty] \subseteq DOMAIN Rank
      BY RelationNames DEF Rank
    <3>2. \A r \in DOMAIN Rank : Rank[r] \in Nat BY DEF Rank
    <3> QED BY <1>1, <3>1, <3>2, ProblemsAre
  <2>3. Beyond(c.at[1], c.at[1]) BY <2>1, <2>2 DEF Earlier
  <2> QED BY <1>1, <2>3 DEF Beyond, Cyclic
<1>3. Check[c] = IF c.depth = MaxDepth THEN {"error"}
                 ELSE Rewrite(Check, c, RewriteOf(c.at[1], c.at[2]))
                         \cup (IF c.mode = "ended" THEN {"error"} ELSE {})
  BY <1>2, CheckDef
<1>4. c.depth # MaxDepth /\ "cycle" \in Rewrite(Check, c, RewriteOf(c.at[1], c.at[2])) BY <1>3
<1>5. Evaluated(Check, c)
  <2>1. \A d \in Made(c) : Check[d] \subseteq Outcomes BY CheckRight DEF Made, CheckAgrees
  <2> QED BY <1>4, <2>1 DEF Evaluated
<1>6. IsRewrite(TypeOf[c.at[1]], RewriteOf(c.at[1], c.at[2])) BY <1>1, RewritesNest
<1>7. PICK leaf \in Leaves(RewriteOf(c.at[1], c.at[2])) : \E d \in Through(c, leaf) : "cycle" \in Check[d]
  BY <1>4, <1>5, <1>6, RewriteCycle
<1>8. PICK d \in Through(c, leaf) : "cycle" \in Check[d] BY <1>7
<1>9. d \in Made(c) /\ d.at \in Successors(c.at, leaf) BY <1>4, <1>6, LeavesAre, ThroughAre
<1>10. Straight(d)
  <2>1. d.seen = c.seen \cup {c.at} BY <1>9 DEF Made, Path
  <2>2. Earlier(c.at, d.at) /\ \A q \in Problems : Earlier(q, c.at) => Earlier(q, d.at)
    BY <1>1, <1>9, SuccessorsLater
  <2> QED BY <1>1, <2>1, <2>2 DEF Straight
<1> QED BY <1>2, <1>8, <1>9, <1>10 DEF NoCycle

\* Only a cycle in the tuples makes a cycle: a store whose teams and folders
\* do not nest in a circle has all its checks decided, shared or not
\* (check.go:475-488).
THEOREM AcyclicAlwaysDecides == Spec => []AcyclicDecides
<1>1. ASSUME Exact, ~Cyclic(tuples) PROVE \A c \in Calls : NoCycle(c)
  <2> DEFINE S == {c \in Calls : NoCycle(c)}
  <2>1. \A c \in Calls : (~Repeats(c) => Made(c) \subseteq S) => c \in S BY <1>1, StraightStep DEF Exact, TypeOK
  <2>2. Calls \subseteq S
    <3> HIDE DEF S
    <3> QED BY <2>1, CallInduction
  <2> QED BY <2>2
<1>2. Exact => AcyclicDecides
  <2> SUFFICES ASSUME Exact, ~Cyclic(tuples), NEW p \in Roots, NEW mode \in Modes
               PROVE  "cycle" \notin Check[Root(p, mode)]
    BY DEF AcyclicDecides
  <2>1. Root(p, mode) \in Calls BY AskedCalls DEF Exact, TypeOK
  <2>2. Straight(Root(p, mode)) BY DEF Straight, Root, Call
  <2> QED BY <1>1, <2>1, <2>2 DEF NoCycle
<1> QED BY <1>2, ExactAlways, PTL

\* What grants a problem outright: the tuples, or another problem that is
\* granted.  Relations with an intersection or an exclusion are not counted.
Supports(q, X) ==
    /\ RewriteOf(q[1], q[2])[1] \in {"this", "or"}
    /\ \E leaf \in Children(RewriteOf(q[1], q[2])) :
          (leaf = This /\ DirectlyHeld(q)) \/ \E p \in Successors(q, leaf) : p \in X

Supported(X, seen) == \A q \in Problems \ seen : Supports(q, X) => q \in X

\* The problems that are granted along paths which avoid these: the least set.
Wins(seen) == {p \in Problems : \A X \in SUBSET Problems : Supported(X, seen) => p \in X}

\* It is a least set, and one that is closed.
LEMMA WinsLeast ==
    ASSUME NEW seen
    PROVE  /\ Wins(seen) \subseteq Problems /\ Supported(Wins(seen), seen)
           /\ \A X \in SUBSET Problems : Supported(X, seen) => Wins(seen) \subseteq X
<1>1. \A X \in SUBSET Problems : Supported(X, seen) => Wins(seen) \subseteq X BY DEF Wins
<1>2. ASSUME NEW q \in Problems \ seen, Supports(q, Wins(seen)) PROVE q \in Wins(seen)
  <2>1. ASSUME NEW X \in SUBSET Problems, Supported(X, seen) PROVE q \in X
    <3>1. Supports(q, X) BY <1>1, <1>2, <2>1 DEF Supports
    <3> QED BY <2>1, <3>1 DEF Supported
  <2> QED BY <2>1 DEF Wins
<1> QED BY <1>1, <1>2 DEF Supported, Wins

\* A problem that is granted is granted by one that needs no way through it.
LEMMA WinsStep ==
    ASSUME NEW seen, NEW p \in Wins(seen)
    PROVE  p \notin seen /\ Supports(p, Wins(seen \cup {p}))
<1> DEFINE X == Wins(seen \cup {p})
<1>1. ASSUME NEW S, NEW Y \in SUBSET Problems, Supported(Y, S) PROVE Wins(S) \subseteq Y
  BY <1>1, WinsLeast
<1>2. ASSUME NEW S PROVE Wins(S) \subseteq Problems /\ Supported(Wins(S), S)
  BY WinsLeast
<1>3. p \notin seen
  <2>1. Supported(Wins(seen) \ seen, seen)
    <3>1. ASSUME NEW q \in Problems \ seen, Supports(q, Wins(seen) \ seen) PROVE q \in Wins(seen) \ seen
      <4>1. Supports(q, Wins(seen)) BY <3>1 DEF Supports
      <4> QED BY <1>2, <4>1 DEF Supported
    <3> QED BY <3>1 DEF Supported
  <2>2. (Wins(seen) \ seen) \in SUBSET Problems BY <1>2
  <2> QED BY <1>1, <2>1, <2>2
<1>4. p \notin X
  <2>1. Supported(X \ {p}, seen \cup {p})
    <3>1. ASSUME NEW q \in Problems \ (seen \cup {p}), Supports(q, X \ {p}) PROVE q \in X \ {p}
      <4>1. Supports(q, X) BY <3>1 DEF Supports
      <4> QED BY <1>2, <4>1 DEF Supported
    <3> QED BY <3>1 DEF Supported
  <2>2. (X \ {p}) \in SUBSET Problems BY <1>2
  <2> HIDE DEF X
  <2>3. Wins(seen \cup {p}) \subseteq X \ {p} BY <1>1, <2>1, <2>2
  <2> QED BY <2>3 DEF X
<1>5. Supports(p, X)
  <2> SUFFICES ASSUME ~Supports(p, X) PROVE FALSE OBVIOUS
  <2>1. Supported(X, seen)
    <3>1. ASSUME NEW q \in Problems \ seen, Supports(q, X) PROVE q \in X
      <4>1. q \in Problems \ (seen \cup {p}) BY <3>1
      <4> QED BY <1>2, <3>1, <4>1 DEF Supported
    <3> QED BY <3>1 DEF Supported
  <2>2. p \in X BY <1>1, <1>2, <2>1
  <2> QED BY <1>4, <2>2
<1> QED BY <1>3, <1>5

\* A leaf is granted by what it asks about.
LEMMA SuccessorsHold ==
    ASSUME tuples \in TupleSets, NEW q \in Problems, NEW leaf,
           IsLeaf(TypeOf[q[1]], leaf), NEW p \in Successors(q, leaf), Meaning(p)
    PROVE  LeafHolds(q, leaf)
<1>1. q[1] \in Objects BY ProblemsAre
<1>2. CASE leaf[1] = "this"
  <2>1. leaf = This BY <1>2 DEF IsLeaf, Computed, From
  <2>2. PICK t \in Named(tuples, q[1], q[2]) : Allows(ToTeams, q[1], q[2]) /\ p = <<t, "member">>
    BY <1>2 DEF Successors
  <2>3. t \in Teams /\ <<q[1], q[2], t>> \in tuples BY <1>1, <2>2, GrantsTyped DEF Named
  <2> QED BY <2>1, <2>2, <2>3 DEF LeafHolds
<1>3. CASE leaf[1] = "from"
  <2>1. PICK o \in Named(tuples, q[1], leaf[3]) : p = <<o, leaf[2]>> BY <1>3 DEF Successors
  <2> QED BY <1>3, <2>1 DEF LeafHolds
<1>4. CASE leaf[1] = "computed"
  <2>1. p = <<q[1], leaf[2]>> BY <1>4 DEF Successors
  <2> QED BY <1>4, <2>1 DEF LeafHolds
<1> QED BY <1>2, <1>3, <1>4 DEF IsLeaf, This, Computed, From

\* A rewrite that is a union is met by any of its leaves.
LEMMA UnionMeans ==
    ASSUME tuples \in TupleSets, NEW q \in Problems, RewriteOf(q[1], q[2])[1] \in {"this", "or"}
    PROVE  /\ IsUnion(TypeOf[q[1]], RewriteOf(q[1], q[2]))
           /\ \A leaf \in Children(RewriteOf(q[1], q[2])) :
                 /\ IsLeaf(TypeOf[q[1]], leaf) /\ (LeafHolds(q, leaf) => Meaning(q))
<1> DEFINE rw == RewriteOf(q[1], q[2])
           type == TypeOf[q[1]]
<1>1. IsRewrite(type, rw) BY RewritesNest
<1>2. IsUnion(type, rw)
  <2>1. rw[1] \in {"this", "or"} OBVIOUS
  <2> HIDE DEF rw, type
  <2>2. CASE \E S : rw = And(S) /\ \A leaf \in S : IsLeaf(type, leaf)
    <3>1. rw[1] = "and" BY <2>2 DEF And
    <3> QED BY <2>1, <3>1
  <2>3. CASE \E b, s : rw = ButNot(b, s) /\ IsUnion(type, b) /\ IsUnion(type, s)
    <3>1. PICK b, s : rw = ButNot(b, s) BY <2>3
    <3>2. rw[1] = "but not" BY <3>1 DEF ButNot
    <3> QED BY <2>1, <3>2
  <2> QED BY <1>1, <2>2, <2>3 DEF IsRewrite
<1>3. Children(rw) = Leaves(rw) BY DEF Leaves
<1>4. \A leaf \in Children(rw) : IsLeaf(type, leaf) BY <1>1, <1>3, LeavesAre
<1>5. Meaning(q) <=> RewriteHolds(q, rw) BY MeaningOfRewrites
<1>6. RewriteHolds(q, rw) <=> UnionHolds(q, rw) BY DEF RewriteHolds
<1> QED BY <1>2, <1>4, <1>5, <1>6 DEF UnionHolds

\* What is granted is true.
LEMMA WinsMean ==
    ASSUME tuples \in TupleSets, NEW seen
    PROVE  \A p \in Wins(seen) : Meaning(p)
<1> DEFINE X == {p \in Problems : Meaning(p)}
<1>1. ASSUME NEW q \in Problems, Supports(q, X) PROVE Meaning(q)
  <2>1. PICK leaf \in Children(RewriteOf(q[1], q[2])) :
            (leaf = This /\ DirectlyHeld(q)) \/ \E p \in Successors(q, leaf) : p \in X
    BY <1>1 DEF Supports
  <2>2. IsLeaf(TypeOf[q[1]], leaf) /\ (LeafHolds(q, leaf) => Meaning(q))
    BY <1>1, UnionMeans DEF Supports
  <2>3. CASE leaf = This /\ DirectlyHeld(q) BY <2>2, <2>3 DEF LeafHolds
  <2>4. CASE \E p \in Successors(q, leaf) : p \in X BY <2>2, <2>4, SuccessorsHold
  <2> QED BY <2>1, <2>3, <2>4
<1>2. Supported(X, seen) BY <1>1 DEF Supported
<1>3. X \in SUBSET Problems OBVIOUS
<1>4. Wins(seen) \subseteq X
  <2> HIDE DEF X
  <2> QED BY <1>2, <1>3, WinsLeast
<1> QED BY <1>4

\* What grants a relation, leaf by leaf.
LEMMA WinsBy ==
    ASSUME NEW q \in Problems, RewriteOf(q[1], q[2])[1] \in {"this", "or"}
    PROVE  /\ This \in Children(RewriteOf(q[1], q[2])) =>
                /\ DirectlyHeld(q) => q \in Wins({})
                /\ Allows(ToTeams, q[1], q[2]) =>
                      \A t \in Named(tuples, q[1], q[2]) : <<t, "member">> \in Wins({}) => q \in Wins({})
           /\ \A s : Computed(s) \in Children(RewriteOf(q[1], q[2])) /\ <<q[1], s>> \in Wins({})
                        => q \in Wins({})
           /\ \A s, l : From(s, l) \in Children(RewriteOf(q[1], q[2])) =>
                 \A x \in Named(tuples, q[1], l) : <<x, s>> \in Wins({}) => q \in Wins({})
<1> DEFINE W == Wins({})
<1>1. Supports(q, W) => q \in W BY WinsLeast DEF Supported
<1>2. ASSUME NEW leaf \in Children(RewriteOf(q[1], q[2])), NEW p \in Successors(q, leaf), p \in W
      PROVE  q \in W
  BY <1>1, <1>2 DEF Supports
<1>3. ASSUME This \in Children(RewriteOf(q[1], q[2]))
      PROVE  /\ DirectlyHeld(q) => q \in W
             /\ Allows(ToTeams, q[1], q[2]) => \A t \in Named(tuples, q[1], q[2]) : <<t, "member">> \in W => q \in W
  <2>1. Allows(ToTeams, q[1], q[2]) => Successors(q, This) = {<<t, "member">> : t \in Named(tuples, q[1], q[2])}
    BY DEF Successors, This
  <2> HIDE DEF W
  <2> QED BY <1>1, <1>2, <1>3, <2>1 DEF Supports
<1>4. \A s : Computed(s) \in Children(RewriteOf(q[1], q[2])) /\ <<q[1], s>> \in W => q \in W
  <2>1. \A s : Successors(q, Computed(s)) = {<<q[1], s>>} BY DEF Successors, Computed
  <2> HIDE DEF W
  <2> QED BY <1>2, <2>1
<1>5. \A s, l : From(s, l) \in Children(RewriteOf(q[1], q[2])) =>
          \A x \in Named(tuples, q[1], l) : <<x, s>> \in W => q \in W
  <2>1. \A s, l : Successors(q, From(s, l)) = {<<x, s>> : x \in Named(tuples, q[1], l)}
    BY DEF Successors, From
  <2> HIDE DEF W
  <2> QED BY <1>2, <2>1
<1> QED BY <1>3, <1>4, <1>5

\* The user's teams, and the teams that lead to them.
LEMMA TeamsWin ==
    ASSUME tuples \in TupleSets, NEW t \in Teams, InTeam(tuples, t)
    PROVE  <<t, "member">> \in Wins({})
<1> DEFINE W == Wins({})
           C == {x \in Teams : <<x, "member">> \notin W}
<1>1. ASSUME NEW x \in Teams
      PROVE  /\ <<x, "member">> \in Problems /\ <<x, "maintainer">> \in Problems
             /\ RewriteOf(x, "member")[1] = "or" /\ RewriteOf(x, "maintainer")[1] = "this"
             /\ Children(RewriteOf(x, "member")) = {This, Computed("maintainer")}
             /\ Children(RewriteOf(x, "maintainer")) = {This}
             /\ x \in Objects /\ Allows(ToTeams, x, "member")
             /\ \A r : <<x, r, User>> \in tuples => DirectlyHeld(<<x, r>>)
  <2>1. /\ RewriteOf(x, "member") = Or({This, Computed("maintainer")})
        /\ RewriteOf(x, "maintainer") = This
    BY Types DEF RewriteOf, Relations, TeamRelations
  <2>2. <<x, "member">> \in Problems /\ <<x, "maintainer">> \in Problems BY Types, RelationNames, ProblemsAre
  <2> QED BY <2>1, <2>2, Types DEF Children, Or, This, Allows, ToTeams, DirectlyHeld
<1>2. ASSUME NEW x \in Teams, NEW r \in {"member", "maintainer"}, <<x, r, User>> \in tuples
      PROVE  <<x, "member">> \in W
  <2>1. <<x, r>> \in W BY <1>1, <1>2, WinsBy
  <2> QED BY <1>1, <2>1, WinsBy
<1>3. ASSUME NEW x \in Teams, NEW y \in Named(tuples, x, "member"), <<y, "member">> \in W
      PROVE  <<x, "member">> \in W
  BY <1>1, <1>3, WinsBy
<1>4. SUFFICES ASSUME <<t, "member">> \notin W PROVE FALSE OBVIOUS
<1>5. PICK s \in Above(tuples, t, "member") : \E r \in {"member", "maintainer"} : <<s, r, User>> \in tuples
  BY DEF InTeam
<1>6. \A x \in C \cap Objects : Named(tuples, x, "member") \subseteq C
  <2> TAKE x \in C \cap Objects
  <2>1. \A y \in Named(tuples, x, "member") : y \in Teams BY LinksTyped DEF Links
  <2> QED BY <1>3, <2>1
<1>7. t \in C /\ t \in Objects BY <1>1, <1>4
<1>8. s \in C
  <2> HIDE DEF C
  <2> QED BY <1>5, <1>6, <1>7, AboveLeast
<1> QED BY <1>2, <1>5, <1>8

\* A relation that may be granted outright, to the user, to everyone or to a team.
LEMMA GrantsWin ==
    ASSUME tuples \in TupleSets, NEW q \in Problems, RewriteOf(q[1], q[2])[1] \in {"this", "or"},
           This \in Children(RewriteOf(q[1], q[2])), Granted(tuples, q[1], q[2])
    PROVE  q \in Wins({})
<1>1. q[1] \in Objects BY ProblemsAre
<1>2. DirectlyHeld(q) \/ \E t \in Teams : <<q[1], q[2], t>> \in tuples /\ InTeam(tuples, t)
  BY <1>1, GrantsTyped DEF Granted, DirectlyHeld
<1>3. ASSUME NEW t \in Teams, <<q[1], q[2], t>> \in tuples, InTeam(tuples, t) PROVE q \in Wins({})
  <2>1. t \in Named(tuples, q[1], q[2]) BY <1>3, Types DEF Named
  <2>2. Allows(ToTeams, q[1], q[2]) BY <1>1, <1>3, GrantsTyped
  <2>3. <<t, "member">> \in Wins({}) BY <1>3, TeamsWin
  <2> QED BY <2>1, <2>2, <2>3, WinsBy
<1> QED BY <1>2, <1>3, WinsBy

\* A role on a folder, from the folders above it.
LEMMA RolesWin ==
    ASSUME tuples \in TupleSets, NEW f \in Folders, NEW roles, FolderRole(tuples, f, roles),
           NEW r \in {"manager", "editor", "viewer"},
           \A x \in Folders : (\E s \in roles : Granted(tuples, x, s)) => <<x, r>> \in Wins({})
    PROVE  <<f, r>> \in Wins({})
<1> DEFINE C == {x \in Folders : <<x, r>> \notin Wins({})}
<1>1. ASSUME NEW x \in Folders
      PROVE  /\ <<x, r>> \in Problems /\ RewriteOf(x, r)[1] = "or" /\ x \in Objects
             /\ From(r, "parent") \in Children(RewriteOf(x, r))
  <2>1. x \in Objects /\ TypeOf[x] = "folder" BY Types
  <2>2. <<x, r>> \in Problems BY <2>1, RelationNames, ProblemsAre
  <2> QED BY <2>1, <2>2 DEF RewriteOf, Relations, FolderRelations, Children, Or
<1>2. SUFFICES ASSUME <<f, r>> \notin Wins({}) PROVE FALSE OBVIOUS
<1>3. PICK x \in Above(tuples, f, "parent") : \E s \in roles : Granted(tuples, x, s) BY DEF FolderRole
<1>4. \A y \in C \cap Objects : Named(tuples, y, "parent") \subseteq C
  <2> TAKE y \in C \cap Objects
  <2>1. \A z \in Named(tuples, y, "parent") : z \in Folders
    BY LinksTyped, Types DEF Links, LinkTo, Objects
  <2>2. \A z \in Named(tuples, y, "parent") : <<z, r>> \in Wins({}) => <<y, r>> \in Wins({})
    BY <1>1, WinsBy
  <2> QED BY <2>1, <2>2
<1>5. f \in C /\ f \in Objects BY <1>1, <1>2
<1>6. x \in C
  <2> HIDE DEF C
  <2> QED BY <1>3, <1>4, <1>5, AboveLeast
<1> QED BY <1>3, <1>6

\* The relations without exclusion that a request asks about.
Plain == {"member", "viewer", "editor", "manager"}

\* What is true of them is granted: by a chain of tuples that ends.
LEMMA MeaningWins ==
    ASSUME tuples \in TupleSets, NEW p \in Problems, p[2] \in Plain, Meaning(p)
    PROVE  p \in Wins({})
<1> DEFINE o == p[1]
<1>1. /\ o \in Objects /\ p = <<o, p[2]>> /\ p[2] \in DOMAIN Relations[TypeOf[o]]
      /\ TypeOf[o] \in {"org", "team", "folder", "project"}
  BY ProblemsAre
<1> HIDE DEF o
<1>2. CASE TypeOf[o] = "org"
  <2>1. p = <<o, "member">> /\ o \in Orgs BY <1>1, <1>2, RelationNames, Types DEF Plain, Objects
  <2>2. PICK r \in {"admin", "member"} : <<o, r, User>> \in tuples BY <2>1, MeaningOf DEF InOrg
  <2>3. RewriteOf(o, "member") = Or({This, Computed("admin")}) /\ RewriteOf(o, "admin") = This
    BY <1>2 DEF RewriteOf, Relations, OrgRelations
  <2>4. <<o, "member">> \in Problems /\ <<o, "admin">> \in Problems BY <1>1, <1>2, RelationNames, ProblemsAre
  <2>5. DirectlyHeld(<<o, r>>) BY <2>2 DEF DirectlyHeld
  <2>6. /\ RewriteOf(o, "member")[1] = "or" /\ Children(RewriteOf(o, "member")) = {This, Computed("admin")}
        /\ RewriteOf(o, "admin")[1] = "this" /\ Children(RewriteOf(o, "admin")) = {This}
    BY <2>3 DEF Children, Or, This
  <2>7. <<o, r>> \in Wins({}) BY <2>4, <2>5, <2>6, WinsBy
  <2>8. <<o, "member">> \in Wins({}) BY <2>4, <2>6, <2>7, WinsBy
  <2> QED BY <2>1, <2>8
<1>3. CASE TypeOf[o] = "team"
  <2>1. p = <<o, "member">> /\ o \in Teams BY <1>1, <1>3, RelationNames, Types DEF Plain, Objects
  <2> QED BY <2>1, MeaningOf, TeamsWin
<1>4. CASE TypeOf[o] = "folder"
  <2>1. p[2] \in {"manager", "editor", "viewer"} /\ o \in Folders
    BY <1>1, <1>4, RelationNames, Types DEF Plain, Objects
  <2>2. ASSUME NEW x \in Folders
        PROVE  /\ Granted(tuples, x, "owner") => <<x, "owner">> \in Wins({})
               /\ Granted(tuples, x, "editor") => <<x, "editor">> \in Wins({})
               /\ Granted(tuples, x, "viewer") => <<x, "viewer">> \in Wins({})
               /\ <<x, "owner">> \in Wins({}) => <<x, "manager">> \in Wins({}) /\ <<x, "editor">> \in Wins({})
               /\ <<x, "editor">> \in Wins({}) => <<x, "viewer">> \in Wins({})
    <3>1. x \in Objects /\ TypeOf[x] = "folder" BY Types
    <3>2. \A r \in {"owner", "manager", "editor", "viewer"} : <<x, r>> \in Problems
      BY <3>1, RelationNames, ProblemsAre
    <3>3. /\ RewriteOf(x, "owner")[1] = "this" /\ This \in Children(RewriteOf(x, "owner"))
          /\ \A r \in {"manager", "editor", "viewer"} : RewriteOf(x, r)[1] = "or"
          /\ \A r \in {"editor", "viewer"} : This \in Children(RewriteOf(x, r))
          /\ \A r \in {"manager", "editor"} : Computed("owner") \in Children(RewriteOf(x, r))
          /\ Computed("editor") \in Children(RewriteOf(x, "viewer"))
      BY <3>1 DEF RewriteOf, Relations, FolderRelations, Children, Or, This
    <3>4. \A r \in {"owner", "editor", "viewer"} : Granted(tuples, x, r) => <<x, r>> \in Wins({})
      BY <3>2, <3>3, GrantsWin
    <3>5. \A r \in {"manager", "editor"} : <<x, "owner">> \in Wins({}) => <<x, r>> \in Wins({})
      BY <3>2, <3>3, WinsBy
    <3>6. <<x, "editor">> \in Wins({}) => <<x, "viewer">> \in Wins({})
      BY <3>2, <3>3, WinsBy
    <3> QED BY <3>4, <3>5, <3>6
  <2>3. CASE p[2] = "manager"
    <3> DEFINE roles == {"owner"}
    <3>1. FolderRole(tuples, o, roles) BY <1>1, <2>1, <2>3, FolderMeans
    <3>2. \A x \in Folders : (\E s \in roles : Granted(tuples, x, s)) => <<x, "manager">> \in Wins({})
      BY <2>2
    <3> HIDE DEF roles
    <3>3. <<o, "manager">> \in Wins({}) BY <2>1, <3>1, <3>2, RolesWin
    <3> QED BY <1>1, <2>3, <3>3
  <2>4. CASE p[2] = "editor"
    <3> DEFINE roles == {"owner", "editor"}
    <3>1. FolderRole(tuples, o, roles) BY <1>1, <2>1, <2>4, FolderMeans
    <3>2. \A x \in Folders : (\E s \in roles : Granted(tuples, x, s)) => <<x, "editor">> \in Wins({})
      BY <2>2
    <3> HIDE DEF roles
    <3>3. <<o, "editor">> \in Wins({}) BY <2>1, <3>1, <3>2, RolesWin
    <3> QED BY <1>1, <2>4, <3>3
  <2>5. CASE p[2] = "viewer"
    <3> DEFINE roles == {"owner", "editor", "viewer"}
    <3>1. FolderRole(tuples, o, roles) BY <1>1, <2>1, <2>5, FolderMeans
    <3>2. \A x \in Folders : (\E s \in roles : Granted(tuples, x, s)) => <<x, "viewer">> \in Wins({})
      BY <2>2
    <3> HIDE DEF roles
    <3>3. <<o, "viewer">> \in Wins({}) BY <2>1, <3>1, <3>2, RolesWin
    <3> QED BY <1>1, <2>5, <3>3
  <2> QED BY <2>1, <2>3, <2>4, <2>5
<1>5. CASE TypeOf[o] = "project"
  <2>1. p[2] \in {"member", "viewer"} /\ o \in Projects
    BY <1>1, <1>5, RelationNames, Types DEF Plain, Objects
  <2>2. ASSUME NEW r \in {"owner", "contributor", "viewer"}, Granted(tuples, o, r)
        PROVE  <<o, r>> \in Wins({})
    <3>1. <<o, r>> \in Problems BY <1>1, <1>5, RelationNames, ProblemsAre
    <3>2. RewriteOf(o, r) = This BY <1>5 DEF RewriteOf, Relations, ProjectRelations
    <3>3. RewriteOf(o, r)[1] = "this" /\ This \in Children(RewriteOf(o, r)) BY <3>2 DEF Children, This
    <3> QED BY <2>2, <3>1, <3>3, GrantsWin
  <2>3. CASE p[2] = "viewer"
    <3>1. Granted(tuples, o, "viewer") BY <1>1, <2>1, <2>3, MeaningOf DEF ProjectHolds
    <3> QED BY <1>1, <2>2, <2>3, <3>1
  <2>4. CASE p[2] = "member"
    <3>1. IsMember(tuples, o) BY <1>1, <2>1, <2>4, MeaningOf DEF ProjectHolds
    <3>2. PICK r \in {"owner", "contributor", "viewer"} : Granted(tuples, o, r) BY <3>1 DEF IsMember
    <3>3. RewriteOf(o, "member") = Or({Computed("owner"), Computed("contributor"), Computed("viewer")})
      BY <1>5 DEF RewriteOf, Relations, ProjectRelations
    <3>4. RewriteOf(o, "member")[1] = "or" /\ Computed(r) \in Children(RewriteOf(o, "member"))
      BY <3>3 DEF Children, Or
    <3>5. <<o, "member">> \in Problems BY <1>1, <2>4
    <3> QED BY <1>1, <2>2, <2>4, <3>2, <3>4, <3>5, WinsBy
  <2> QED BY <2>1, <2>3, <2>4
<1> QED BY <1>1, <1>2, <1>3, <1>4, <1>5

\* A leaf that a tuple meets, or a call that comes to a yes, comes to no cycle
\* and to no no: whatever its other calls come to.
LEMMA LeafDecides ==
    ASSUME NEW answer, NEW c, Evaluated(answer, c), AllAgree(answer, c), Sound(c),
           NEW leaf, IsLeaf(TypeOf[c.at[1]], leaf), Keeps(c, leaf), LeafHolds(c.at, leaf),
           \/ leaf = This /\ DirectlyHeld(c.at)
           \/ \E d \in Through(c, leaf) : Meaning(d.at) /\ "cycle" \notin answer[d]
    PROVE  "cycle" \notin Leaf(answer, c, leaf) /\ "no" \notin Leaf(answer, c, leaf)
<1>1. /\ tuples \in TupleSets /\ c \in Calls /\ c.depth # MaxDepth /\ c.at[1] \in Objects
      /\ c.depth \in 0..(MaxDepth - 1)
  BY ProblemsAre, ResolverAssumption DEF Evaluated, Calls
<1>2. "no" \notin Leaf(answer, c, leaf) BY LeafRight DEF Agrees
<1>3. ASSUME NEW l, IsLeaf(TypeOf[c.at[1]], l), NEW d \in Dispatched(c, l), Meaning(d.at), "cycle" \notin answer[d]
      PROVE  /\ "cycle" \notin AnyOf({Dispatch(answer, e) : e \in Dispatched(c, l)})
  <2> DEFINE children == {Dispatch(answer, e) : e \in Dispatched(c, l)}
  <2>1. Dispatched(c, l) \subseteq Made(c) BY <1>1, <1>3, CallsMade
  <2>2. \A o \in children : o \subseteq Outcomes BY <2>1, DispatchRight
  <2>3. "no" \notin Dispatch(answer, d)
    <3>1. d \in Made(c) /\ Sound(d) BY <1>1, <1>3, <2>1, MadeSound
    <3> QED BY <1>3, <3>1, DispatchRight DEF Agrees
  <2>4. "cycle" \notin Dispatch(answer, d)
    <3>1. d.at \in Problems BY <1>3, <2>1 DEF Made, Calls
    <3>2. cache[d.at] # "cycle" BY <3>1 DEF Evaluated
    <3> QED BY <1>3, <3>2 DEF Dispatch
  <2>5. Dispatch(answer, d) \in children BY <1>3
  <2> HIDE DEF children
  <2>6. "cycle" \notin AnyOf(children) BY <2>2, <2>3, <2>4, <2>5, AnyOfAnswers
  <2> QED BY <2>6 DEF children
<1>4. CASE leaf = This
  <2> DEFINE user == Read(Answer(<<c.at[1], c.at[2], User>> \in tuples))
             public == Read(Answer(<<c.at[1], c.at[2], Everyone>> \in tuples))
             children == {user} \cup (IF Allows(ToEveryone, c.at[1], c.at[2]) THEN {public} ELSE {})
                                \cup (IF Allows(ToTeams, c.at[1], c.at[2]) THEN {Read(Teamed(answer, c))} ELSE {})
  <2>1. leaf[1] = "this" /\ Leaf(answer, c, leaf) = Direct(answer, c) BY <1>4 DEF Leaf, This
  <2>2. Direct(answer, c) = SomeOf(c, children) BY DEF Direct
  <2>3. user \subseteq Outcomes /\ public \subseteq Outcomes BY DEF Read, Answer, Outcomes
  <2>4. Allows(ToTeams, c.at[1], c.at[2]) => Read(Teamed(answer, c)) \subseteq Outcomes
    BY TeamedRight, ReadRight
  <2>5. \A o \in children : o \subseteq Outcomes
    <3> HIDE DEF user, public
    <3> QED BY <2>3, <2>4
  <2>6. \E o \in children : "no" \notin o /\ "cycle" \notin o
    <3>1. CASE <<c.at[1], c.at[2], User>> \in tuples
      <4>1. "no" \notin user /\ "cycle" \notin user BY <3>1 DEF Read, Answer
      <4> HIDE DEF user
      <4> QED BY <4>1
    <3>2. CASE Allows(ToEveryone, c.at[1], c.at[2]) /\ <<c.at[1], c.at[2], Everyone>> \in tuples
      <4>1. "no" \notin public /\ "cycle" \notin public BY <3>2 DEF Read, Answer
      <4> HIDE DEF public
      <4> QED BY <3>2, <4>1
    <3>3. CASE ~DirectlyHeld(c.at)
      <4>1. PICK d \in Through(c, leaf) : Meaning(d.at) /\ "cycle" \notin answer[d] BY <3>3
      <4>2. d \in Dispatched(c, This) BY <1>4, <2>1, <4>1 DEF Through
      <4>3. Allows(ToTeams, c.at[1], c.at[2]) BY <4>2 DEF Dispatched, This, From
      <4>4. IsLeaf(TypeOf[c.at[1]], This) BY DEF IsLeaf
      <4>5. "cycle" \notin AnyOf({Dispatch(answer, e) : e \in Dispatched(c, This)})
        BY <1>3, <4>1, <4>2, <4>4
      <4>6. TypeOf[c.at[1]] = "team" => "cycle" \notin Recursive(c.at[1], c.depth)
        <5> HAVE TypeOf[c.at[1]] = "team"
        <5>1. c.at[1] \in Teams BY <1>1, Types DEF Objects
        <5> QED BY <1>1, <5>1, RecursiveRight
      <4>7. "cycle" \notin Teamed(answer, c) BY <4>5, <4>6 DEF Teamed
      <4>8. "no" \notin Teamed(answer, c)
        <5>1. d.at \in Successors(c.at, This) BY <1>1, <1>4, <4>1, <4>4, ThroughAre
        <5>2. \E t \in Named(tuples, c.at[1], c.at[2]) : Meaning(<<t, "member">>)
          BY <4>1, <4>3, <5>1 DEF Successors, This
        <5> QED BY <4>3, <5>2, TeamedRight DEF Agrees
      <4>9. "no" \notin Read(Teamed(answer, c)) /\ "cycle" \notin Read(Teamed(answer, c))
        BY <4>7, <4>8, ReadRight
      <4> HIDE DEF user, public
      <4> QED BY <4>3, <4>9
    <3> QED BY <3>1, <3>2, <3>3 DEF DirectlyHeld
  <2>7. "cycle" \notin SomeOf(c, children)
    <3> HIDE DEF children
    <3> QED BY <2>5, <2>6, SomeOfAnswers DEF Sound
  <2> QED BY <1>2, <2>1, <2>2, <2>7
<1>5. CASE \E r \in DOMAIN Relations[TypeOf[c.at[1]]] : leaf = Computed(r)
  <2>1. leaf[1] = "computed" /\ leaf # This BY <1>5 DEF Computed, This
  <2>2. Leaf(answer, c, leaf) = answer[Sideways(c, leaf)] BY <2>1 DEF Leaf
  <2>3. Through(c, leaf) = {Sideways(c, leaf)} BY <2>1 DEF Through, Dispatched
  <2> QED BY <1>2, <2>1, <2>2, <2>3
<1>6. CASE \E l \in Links : \E r \in DOMAIN Relations[LinkTo[l]] : leaf = From(r, l)
  <2>1. leaf[1] = "from" /\ leaf # This BY <1>6 DEF From, This
  <2>2. PICK d \in Dispatched(c, leaf) : Meaning(d.at) /\ "cycle" \notin answer[d] BY <2>1 DEF Through
  <2> DEFINE children == AnyOf({Dispatch(answer, e) : e \in Dispatched(c, leaf)})
             weighed == IF HasWeightTwo(leaf[2], leaf[3])
                        THEN Answer(\E e \in Dispatched(c, leaf) : WeightTwo(e.at))
                                 \cup (IF Unmatched(c, leaf) THEN {"no"} ELSE {})
                        ELSE {}
  <2>3. "cycle" \notin children BY <1>3, <2>2
  <2>4. "cycle" \notin weighed BY DEF Answer
  <2>5. Leaf(answer, c, leaf) = Read(children \cup weighed) BY <2>1 DEF Leaf, FromParents
  <2>6. "cycle" \notin Leaf(answer, c, leaf)
    <3> HIDE DEF children, weighed
    <3> QED BY <2>3, <2>4, <2>5 DEF Read
  <2> QED BY <1>2, <2>6
<1> QED BY <1>4, <1>5, <1>6 DEF IsLeaf

\* One child of a union that comes to a yes is enough.
LEMMA UnionDecides ==
    ASSUME NEW answer, NEW c, Evaluated(answer, c), Sound(c), NEW rw, IsUnion(TypeOf[c.at[1]], rw),
           NEW leaf \in Children(rw), "cycle" \notin Leaf(answer, c, leaf), "no" \notin Leaf(answer, c, leaf)
    PROVE  "cycle" \notin Rewrite(answer, c, rw)
<1>1. Rewrite(answer, c, rw) = Union(answer, c, rw)
  <2>1. rw[1] \in {"this", "computed", "from", "or"} BY DEF IsUnion, IsLeaf, This, Computed, From, Or
  <2> QED BY <2>1 DEF Rewrite
<1>2. CASE IsLeaf(TypeOf[c.at[1]], rw)
  <2>1. rw[1] \in {"this", "computed", "from"} BY <1>2 DEF IsLeaf, This, Computed, From
  <2> QED BY <1>1, <2>1 DEF Union, Children
<1>3. CASE \E S : rw = Or(S) /\ \A l \in S : IsLeaf(TypeOf[c.at[1]], l)
  <2> DEFINE children == {Leaf(answer, c, l) : l \in rw[2]}
  <2>1. rw[1] = "or" /\ \A l \in rw[2] : IsLeaf(TypeOf[c.at[1]], l) BY <1>3 DEF Or
  <2>2. Union(answer, c, rw) = SomeOf(c, children) /\ Leaf(answer, c, leaf) \in children
    BY <2>1 DEF Union, Children
  <2>3. \A o \in children : o \subseteq Outcomes BY <2>1, LeafRight
  <2> HIDE DEF children
  <2> QED BY <1>1, <2>2, <2>3, SomeOfAnswers DEF Sound
<1> QED BY <1>2, <1>3 DEF IsUnion

\* A problem that is granted along a path that avoids what the call has
\* visited: the cycles that the call meets elsewhere do not matter.
Decided(c) == Sound(c) /\ c.at \in Wins(c.seen) => "cycle" \notin Check[c]

\* One call.
LEMMA DecidedStep ==
    ASSUME Exact, NEW c \in Calls, ~Repeats(c) => \A d \in Made(c) : Decided(d)
    PROVE  Decided(c)
<1> DEFINE rw == RewriteOf(c.at[1], c.at[2])
<1> SUFFICES ASSUME Sound(c), c.at \in Wins(c.seen), c.depth # MaxDepth PROVE "cycle" \notin Check[c]
  <2>1. c.depth = MaxDepth => Check[c] = {"error"} BY CheckDef DEF Exact, TypeOK
  <2> QED BY <2>1 DEF Decided
<1>1. tuples \in TupleSets /\ cache \in [Problems -> {"none", "no", "yes"}] /\ c.at \in Problems
  BY DEF Exact, TypeOK, Calls
<1>2. c.at \notin c.seen /\ Supports(c.at, Wins(Path(c))) BY WinsStep DEF Path
<1>3. ~Repeats(c) BY <1>2 DEF Repeats
<1>4. Check[c] = Rewrite(Check, c, rw) BY <1>1, <1>3, CheckDef DEF Sound
<1>5. \A d \in Made(c) : Check[d] \subseteq Outcomes /\ Agrees(d, Check[d], Meaning(d.at))
  BY <1>1, CheckRight DEF Made, CheckAgrees, Exact
<1>6. Evaluated(Check, c) /\ AllAgree(Check, c) BY <1>1, <1>5 DEF Evaluated, AllAgree, Exact
<1>7. rw[1] \in {"this", "or"} BY <1>2 DEF Supports
<1>8. PICK leaf \in Children(rw) :
          (leaf = This /\ DirectlyHeld(c.at)) \/ \E p \in Successors(c.at, leaf) : p \in Wins(Path(c))
  BY <1>2 DEF Supports
<1>9. IsUnion(TypeOf[c.at[1]], rw) /\ IsLeaf(TypeOf[c.at[1]], leaf) BY <1>1, <1>7, <1>8, UnionMeans
<1> HIDE DEF rw
<1>10. \/ leaf = This /\ DirectlyHeld(c.at)
       \/ \E d \in Through(c, leaf) : Meaning(d.at) /\ "cycle" \notin Check[d]
  <2> SUFFICES ASSUME NEW p \in Successors(c.at, leaf), p \in Wins(Path(c))
               PROVE  \E d \in Through(c, leaf) : Meaning(d.at) /\ "cycle" \notin Check[d]
    BY <1>8
  <2>1. PICK d \in Through(c, leaf) : d.at = p BY <1>1, <1>9, ThroughAre
  <2>2. d \in Made(c) BY <1>1, <1>9, ThroughAre
  <2>3. Decided(d) /\ Sound(d) /\ d.seen = Path(c) BY <1>3, <2>2, MadeSound DEF Made
  <2>4. Meaning(d.at) BY <1>1, <2>1, WinsMean
  <2> QED BY <2>1, <2>3, <2>4 DEF Decided
<1>11. LeafHolds(c.at, leaf)
  <2>1. CASE leaf = This /\ DirectlyHeld(c.at) BY <2>1 DEF LeafHolds
  <2>2. CASE \E d \in Through(c, leaf) : Meaning(d.at)
    <3>1. PICK d \in Through(c, leaf) : Meaning(d.at) BY <2>2
    <3>2. d.at \in Successors(c.at, leaf) BY <1>1, <1>9, ThroughAre
    <3> QED BY <1>1, <1>9, <3>1, <3>2, SuccessorsHold
  <2> QED BY <1>10, <2>1, <2>2
<1>12. "cycle" \notin Leaf(Check, c, leaf) /\ "no" \notin Leaf(Check, c, leaf)
  <2>1. Leaves(rw) = Children(rw) BY <1>7 DEF Leaves
  <2>2. Keeps(c, leaf) BY <1>8, <2>1, AdditiveRewrites DEF Additively, rw
  <2> QED BY <1>6, <1>9, <1>10, <1>11, <2>2, LeafDecides
<1> QED BY <1>4, <1>6, <1>8, <1>9, <1>12, UnionDecides

\* Relations without exclusion lose nothing to a cycle: teams and folders that
\* nest in a circle neither grant outsiders nor deny members, on any store, to a
\* request that is not cancelled and reads no answer that a cancelled one saved
\* (core.fga.yaml:167-183).
THEOREM CyclesAlwaysResolve == Spec => []CyclesResolve
<1>1. ASSUME Exact PROVE \A c \in Calls : Decided(c)
  <2> DEFINE S == {c \in Calls : Decided(c)}
  <2>1. \A c \in Calls : (~Repeats(c) => Made(c) \subseteq S) => c \in S BY <1>1, DecidedStep
  <2>2. Calls \subseteq S
    <3> HIDE DEF S
    <3> QED BY <2>1, CallInduction
  <2> QED BY <2>2
<1>2. Exact => CyclesResolve
  <2> SUFFICES ASSUME Exact, NEW p \in Roots, NEW mode \in Trusted, p[2] \in Plain, Meaning(p)
               PROVE  Check[Root(p, mode)] \subseteq {"yes", "error"}
    BY DEF CyclesResolve, Plain
  <2>1. mode \in Modes BY DEF Trusted, Modes
  <2>2. /\ tuples \in TupleSets /\ cache \in [Problems -> {"none", "no", "yes"}] /\ p \in Problems
        /\ Root(p, mode) \in Calls /\ Root(p, mode).at = p /\ Root(p, mode).seen = {}
        /\ Root(p, mode).mode = mode
    BY <2>1, ResolverAssumption, AskedCalls DEF Exact, TypeOK, Root, Call
  <2>3. p \in Wins({}) BY <2>2, MeaningWins
  <2>4. Sound(Root(p, mode)) BY <2>2 DEF Trusted, Sound
  <2>5. "cycle" \notin Check[Root(p, mode)] BY <1>1, <2>2, <2>3, <2>4 DEF Decided
  <2>6. CheckAgrees(Root(p, mode)) BY <2>2, CheckRight
  <2> QED BY <2>2, <2>4, <2>5, <2>6 DEF CheckAgrees, Agrees, Exact, Outcomes
<1> QED BY <1>2, ExactAlways, PTL
=============================================================================
