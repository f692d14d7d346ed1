------------------------------ MODULE MCAuthz ------------------------------
(***************************************************************************)
(* Small instance of AccessPolicy: two policy names, two roles, and three  *)
(* sets of statements that between them use every kind of application      *)
(* entry and of action pattern.                                            *)
(***************************************************************************)
EXTENDS AccessPolicy

Read == <<"content", "read">>
Content == <<"content", "*">>

Stmt(actions, apps) == [actions |-> actions, apps |-> apps]

StatementSets ==
  { {Stmt({Content}, {appHome})},
    {Stmt({Read}, {"app2"}), Stmt({permAuthenticated}, {appWildcard})},
    {Stmt({actionWildcard}, {"app1"})} }

MCPolicies == [name : {"viewer", "admin"}, statements : StatementSets]

Mod == <<"web", "mod">>
Ops == <<"ops">>
MCRoles == {Mod, Ops}
MCBindings == [role : MCRoles, policy : {"viewer", "admin"}]

MCPerms == {Read, <<"content">>, <<"content", "item", "edit">>, <<"files", "read">>, permAuthenticated}
MCApps == {"app1", "app2"}
=============================================================================
