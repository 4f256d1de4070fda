----------------------------- MODULE AuthzModel -----------------------------
(***************************************************************************)
(* The authorization model of authz/models, as OpenFGA is given it (a      *)
(* rewrite per relation) and as a reader of its comments understands it    *)
(* (Holds).  One user asks.  A tuple is <<object, relation, subject>>; a   *)
(* team as a subject stands for its members.  A tuple whose condition does *)
(* not hold is no tuple.                                                   *)
(***************************************************************************)
EXTENDS FiniteSets

CONSTANTS Orgs, Teams, Folders, Projects

User == "user"
Everyone == "user:*"

Objects == Orgs \cup Teams \cup Folders \cup Projects

\* An object has one type, and is neither the user nor everyone.
ASSUME ObjectsAssumption ==
    /\ IsFiniteSet(Objects)
    /\ User \notin Objects /\ Everyone \notin Objects
    /\ Orgs \cap (Teams \cup Folders \cup Projects) = {}
    /\ Teams \cap (Folders \cup Projects) = {}
    /\ Folders \cap Projects = {}

TypeOf == [o \in Objects |->
    CASE o \in Orgs -> "org" [] o \in Teams -> "team"
      [] o \in Folders -> "folder" [] o \in Projects -> "project"]

(***************************************************************************)
(* Rewrites.                                                               *)
(***************************************************************************)
This == <<"this">>
Computed(relation) == <<"computed", relation>>
From(relation, tupleset) == <<"from", relation, tupleset>>
Or(children) == <<"or", children>>
And(children) == <<"and", children>>
ButNot(base, sub) == <<"but not", base, sub>>

\* What a union or an intersection is made of, and what a rewrite is made of.
Children(rw) == IF rw[1] \in {"or", "and"} THEN rw[2] ELSE {rw}
Leaves(rw) == IF rw[1] = "but not" THEN Children(rw[2]) \cup Children(rw[3]) ELSE Children(rw)

OrgRelations == [
    admin   |-> This,
    member  |-> Or({This, Computed("admin")}),
    blocked |-> This ]

TeamRelations == [
    maintainer |-> This,
    member     |-> Or({This, Computed("maintainer")}) ]

FolderRelations == [
    owner   |-> This,
    manager |-> Or({Computed("owner"), From("manager", "parent")}),
    editor  |-> Or({This, Computed("owner"), From("editor", "parent")}),
    viewer  |-> Or({This, Computed("editor"), From("viewer", "parent")}),
    blocked_in_org |-> Or({From("blocked", "org"), From("blocked_in_org", "parent")}) ]

ProjectRelations == [
    owner       |-> This,
    contributor |-> This,
    viewer      |-> This,
    blocked     |-> This,
    member      |-> Or({Computed("owner"), Computed("contributor"), Computed("viewer")}),
    can_manage  |-> Or({Computed("owner"), From("admin", "org"), From("manager", "folder")}),
    is_blocked  |-> Or({Computed("blocked"), From("blocked", "org"),
                        From("blocked_in_org", "folder")}),
    can_edit    |-> ButNot(Or({Computed("contributor"), From("editor", "folder"),
                               Computed("can_manage")}), Computed("is_blocked")),
    can_view    |-> ButNot(Or({Computed("member"), From("viewer", "folder"),
                               Computed("can_manage")}), Computed("is_blocked")),
    can_share   |-> And({Computed("can_edit"), From("member", "org")}) ]

Relations == [org |-> OrgRelations, team |-> TeamRelations,
              folder |-> FolderRelations, project |-> ProjectRelations]

RewriteOf(o, r) == Relations[TypeOf[o]][r]

\* The relations that may be granted to a team's members, and to everyone.
ToTeams == {<<"team", "member">>, <<"folder", "owner">>, <<"folder", "editor">>,
            <<"folder", "viewer">>, <<"project", "contributor">>, <<"project", "viewer">>}
ToEveryone == {<<"project", "viewer">>}

Allows(relations, o, r) == <<TypeOf[o], r>> \in relations

\* The subjects a store takes: OpenFGA refuses a tuple whose subject has
\* another type (the user may stand in any relation here).
Takes(o, r, s) ==
    \/ s = User
    \/ s = Everyone /\ Allows(ToEveryone, o, r)
    \/ s \in Teams /\ Allows(ToTeams, o, r)
    \/ s \in Orgs /\ r = "org"
    \/ s \in Folders /\ <<TypeOf[o], r>> \in {<<"folder", "parent">>, <<"project", "folder">>}

WellTyped(T) == \A x \in T : x[1] \in Objects /\ Takes(x[1], x[2], x[3])

\* The objects that o names in a relation.
Named(T, o, r) == {x \in Objects : <<o, r, x>> \in T}

(***************************************************************************)
(* What the relations mean.                                                *)
(***************************************************************************)
Closed(T, r, C) == \A o \in C : Named(T, o, r) \subseteq C

\* Everything reached from o by a relation, o included.
Above(T, o, r) == {x \in Objects : \A C \in SUBSET Objects : o \in C /\ Closed(T, r, C) => x \in C}

InTeam(T, t) == \E s \in Above(T, t, "member") : \E r \in {"member", "maintainer"} : <<s, r, User>> \in T

\* A grant to the user, to everyone, or to a team the user is in.
Granted(T, o, r) ==
    \/ <<o, r, User>> \in T
    \/ <<o, r, Everyone>> \in T
    \/ \E t \in Teams : <<o, r, t>> \in T /\ InTeam(T, t)

InOrg(T, o) == \E r \in {"admin", "member"} : <<o, r, User>> \in T

\* One of these roles on a folder, or on any folder above it.
FolderRole(T, f, roles) == \E x \in Above(T, f, "parent"), r \in roles : Granted(T, x, r)

BlockedInOrg(T, f) == \E x \in Above(T, f, "parent"), o \in Orgs :
    <<x, "org", o>> \in T /\ <<o, "blocked", User>> \in T

CanManage(T, p) ==
    \/ Granted(T, p, "owner")
    \/ \E o \in Named(T, p, "org") : <<o, "admin", User>> \in T
    \/ \E f \in Named(T, p, "folder") : FolderRole(T, f, {"owner"})

IsBlocked(T, p) ==
    \/ <<p, "blocked", User>> \in T
    \/ \E o \in Named(T, p, "org") : <<o, "blocked", User>> \in T
    \/ \E f \in Named(T, p, "folder") : BlockedInOrg(T, f)

CanEdit(T, p) ==
    /\ ~IsBlocked(T, p)
    /\ \/ Granted(T, p, "contributor")
       \/ CanManage(T, p)
       \/ \E f \in Named(T, p, "folder") : FolderRole(T, f, {"owner", "editor"})

IsMember(T, p) == \E r \in {"owner", "contributor", "viewer"} : Granted(T, p, r)

CanView(T, p) ==
    /\ ~IsBlocked(T, p)
    /\ \/ IsMember(T, p)
       \/ CanManage(T, p)
       \/ \E f \in Named(T, p, "folder") : FolderRole(T, f, {"owner", "editor", "viewer"})

CanShare(T, p) == CanEdit(T, p) /\ \E o \in Named(T, p, "org") : InOrg(T, o)

FolderHolds(T, f, r) ==
    CASE r = "owner" -> Granted(T, f, "owner")
      [] r = "manager" -> FolderRole(T, f, {"owner"})
      [] r = "editor" -> FolderRole(T, f, {"owner", "editor"})
      [] r = "viewer" -> FolderRole(T, f, {"owner", "editor", "viewer"})
      [] r = "blocked_in_org" -> BlockedInOrg(T, f)

ProjectHolds(T, p, r) ==
    CASE r \in {"owner", "contributor", "viewer"} -> Granted(T, p, r)
      [] r = "blocked" -> <<p, "blocked", User>> \in T
      [] r = "member" -> IsMember(T, p)
      [] r = "can_manage" -> CanManage(T, p)
      [] r = "is_blocked" -> IsBlocked(T, p)
      [] r = "can_edit" -> CanEdit(T, p)
      [] r = "can_view" -> CanView(T, p)
      [] r = "can_share" -> CanShare(T, p)

Holds(T, o, r) ==
    CASE TypeOf[o] = "org" -> IF r = "member" THEN InOrg(T, o) ELSE <<o, r, User>> \in T
      [] TypeOf[o] = "team" -> IF r = "member" THEN InTeam(T, o) ELSE <<o, r, User>> \in T
      [] TypeOf[o] = "folder" -> FolderHolds(T, o, r)
      [] TypeOf[o] = "project" -> ProjectHolds(T, o, r)
=============================================================================
