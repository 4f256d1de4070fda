-------------------------- MODULE MCCheckResolver --------------------------
(* Small instances of CheckResolver for TLC. *)
EXTENDS CheckResolver

TwoOrgs == {"o", "away"}
TwoTeams == {"t1", "t2"}
TwoFolders == {"f1", "f2"}
OneProject == {"p"}

Given == {<<"p", "org", "o">>, <<"p", "folder", "f1">>, <<"f1", "parent", "f2">>,
          <<"f1", "viewer", "t1">>, <<"t1", "member", "t2">>, <<"f2", "org", "o">>,
          <<"away", "member", User>>}

\* The last two close a cycle of teams and one of folders.
Optional == {<<"p", "viewer", Everyone>>, <<"o", "member", User>>, <<"o", "blocked", User>>,
             <<"t1", "maintainer", User>>, <<"t2", "member", User>>, <<"f2", "owner", "t2">>,
             <<"t2", "member", "t1">>, <<"f2", "parent", "f1">>}

Stores == {Given \cup S : S \in SUBSET Optional}

Checks == {<<"p", "can_view">>, <<"p", "can_share">>, <<"f1", "viewer">>, <<"t1", "member">>}
=============================================================================
