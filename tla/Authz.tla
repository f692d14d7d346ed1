------------------------------- MODULE Authz -------------------------------
(***************************************************************************)
(* Access-policy evaluation (authz.go): which statements a principal holds *)
(* and what they grant. Every consumer of a statement list asks "is there  *)
(* one that ...", so statement and role lists are sets here; the order of  *)
(* the published policies and bindings does matter and stays a sequence.   *)
(*                                                                         *)
(* Permissions, action patterns and role names are sequences of segments:  *)
(* "content.read" is <<"content", "read">>, "content.*" is                 *)
(* <<"content", "*">>, the role "web:mod" is <<"web", "mod">>.             *)
(***************************************************************************)
EXTENDS Naturals, Sequences, SequencesExt

permAuthenticated == <<"authenticated">>
actionWildcard == <<"*">>
appWildcard == "*"
appHome == "@home"

NoApp == ""       \* an application that was not resolved
NoPerm == <<>>    \* an endpoint that requires no permission

\* Does an action pattern grant perm? "<res>.*" covers what is strictly
\* below <res>, and never "authenticated".
matchAction(pattern, perm) ==
  \/ pattern \in {actionWildcard, perm}
  \/ /\ perm # permAuthenticated
     /\ Len(pattern) > 1
     /\ Last(pattern) = "*"
     /\ IsStrictPrefix(Front(pattern), perm)

\* Mutant: "@home" compares an absent home with an unresolved target.
matchAppHomeless(entry, target, home) ==
  \/ entry = appWildcard
  \/ entry = appHome /\ target = home
  \/ entry \notin {appWildcard, appHome} /\ entry = target

\* Does an application entry cover target for a principal whose home is home?
matchApp(entry, target, home) ==
  \/ entry = appWildcard
  \/ entry = appHome /\ home # NoApp /\ target = home
  \/ entry \notin {appWildcard, appHome} /\ entry = target

coversApp(s, target, home) == \E e \in s.apps : matchApp(e, target, home)

-----------------------------------------------------------------------------
(* The compiled form of the policies and bindings of one snapshot.         *)

EmptyIndex == [policies |-> <<>>, rolePolicy |-> <<>>]

\* The last policy of a name and the last binding of a role win; a binding to
\* a policy the snapshot does not carry contributes nothing.
newPolicyIndex(policies, bindings) ==
  LET names == {p.name : p \in ToSet(policies)}
      carried == {b \in ToSet(bindings) : b.policy \in names}
      PolicyAt(n) == SelectLastInSeq(policies, LAMBDA p : p.name = n)
      BindingAt(r) == SelectLastInSeq(bindings, LAMBDA b : b.role = r /\ b.policy \in names)
  IN [policies   |-> [n \in names |-> policies[PolicyAt(n)].statements],
      rolePolicy |-> [r \in {b.role : b \in carried} |-> bindings[BindingAt(r)].policy]]

-----------------------------------------------------------------------------
(* Principals.                                                             *)

\* Role names as bindings reference them: client roles of the authorized
\* party under its name, realm roles bare. <<>> stands for the empty string.
qualifyRoles(azp, clientRoles, realmRoles) ==
  (IF azp = <<>> THEN {} ELSE {azp \o r : r \in clientRoles})
    \cup (realmRoles \ {<<>>})

\* A principal that holds nothing: also what every evaluation of a nil
\* principal amounts to.
NoPrincipal == [home |-> NoApp, roles |-> {}, boundRoles |-> {}, policies |-> {}, statements |-> {}]

\* Mutant: only the first bound role contributes.
resolveFirstRole(roles, home, idx) ==
  LET all == roles \cap DOMAIN idx.rolePolicy
      bound == IF all = {} THEN {} ELSE {CHOOSE r \in all : TRUE}
      names == {idx.rolePolicy[r] : r \in bound}
  IN [home       |-> home,
      roles      |-> roles,
      boundRoles |-> bound,
      policies   |-> names,
      statements |-> UNION {idx.policies[n] : n \in names}]

\* The principal with these roles and home, its statements attached.
resolveStatements(roles, home, idx) ==
  LET bound == roles \cap DOMAIN idx.rolePolicy
      names == {idx.rolePolicy[r] : r \in bound}
  IN [home       |-> home,
      roles      |-> roles,
      boundRoles |-> bound,
      policies   |-> names,
      statements |-> UNION {idx.policies[n] : n \in names}]

granted(pr, perm, app) ==
  \/ perm = NoPerm
  \/ \E s \in pr.statements :
       coversApp(s, app, pr.home) /\ \E a \in s.actions : matchAction(a, perm)

isWildcard(pr, app) ==
  \E s \in pr.statements : coversApp(s, app, pr.home) /\ actionWildcard \in s.actions

\* The action patterns held on app.
patternsOn(pr, app) ==
  UNION {s.actions : s \in {t \in pr.statements : coversApp(t, app, pr.home)}}

\* Mutant: the introspection lists the patterns of every statement.
patternsAnywhere(pr, activeApps) ==
  [app \in {a \in activeApps : pr.statements # {}} |->
     UNION {s.actions : s \in pr.statements}]

\* app -> patterns, applications without a grant left out.
permissionsByApp(pr, activeApps) ==
  [app \in {a \in activeApps : patternsOn(pr, a) # {}} |-> patternsOn(pr, app)]
=============================================================================
