---------------------------- MODULE AccessPolicy ----------------------------
(***************************************************************************)
(* The lists of policies and bindings a snapshot may carry, built one      *)
(* entry at a time the way the registry's administrators do, and what the  *)
(* evaluator of Authz.tla makes of them.                                   *)
(***************************************************************************)
EXTENDS Authz

CONSTANTS
  Policies,      \* policies that may be published: [name, statements]
  Bindings,      \* bindings that may be published: [role, policy]
  Roles,         \* the roles a token may carry, qualified
  Perms,         \* the permissions endpoints require
  Apps,          \* the applications of the registry
  MaxPolicies,   \* bounds on the two published lists
  MaxBindings

\* An endpoint that requires nothing is not asked about.
ASSUME PermsAssumption == NoPerm \notin Perms

VARIABLES policies, bindings
vars == <<policies, bindings>>

\* Homes and targets: an application, or none (a target may be unresolved).
AppsOrNone == Apps \cup {NoApp}

\* The principals that may call: every combination of roles and home.
Principals ==
  {resolveStatements(roles, home, newPolicyIndex(policies, bindings)) :
     roles \in SUBSET Roles, home \in AppsOrNone}

Init == policies = <<>> /\ bindings = <<>>

AddPolicy ==
  /\ Len(policies) < MaxPolicies
  /\ \E p \in Policies : policies' = Append(policies, p)
  /\ UNCHANGED bindings

AddBinding ==
  /\ Len(bindings) < MaxBindings
  /\ \E b \in Bindings : bindings' = Append(bindings, b)
  /\ UNCHANGED policies

Next == AddPolicy \/ AddBinding

Spec == Init /\ [][Next]_vars

-----------------------------------------------------------------------------

\* The rule of the comment at authz.go:10-16: the union of the statements of
\* every policy bound to one of the roles.
UnionOf(roles) ==
  UNION {p.statements : p \in {q \in ToSet(policies) :
           \E b \in ToSet(bindings) : b.role \in roles /\ b.policy = q.name}}

OncePer(seq, Key(_)) ==
  \A i, j \in 1..Len(seq) : Key(seq[i]) = Key(seq[j]) => i = j

\* UnionOfBoundPolicies: in a snapshot that defines each policy once, what a
\* principal holds is the union of the statements of every policy bound to one
\* of its roles, whatever the order of the bindings (authz.go:10-16).
UnionOfBoundPolicies ==
  OncePer(policies, LAMBDA p : p.name) =>
    \A pr \in Principals : pr.statements = UnionOf(pr.roles)

\* UnionWhenBoundOnce: the rule holds whenever the snapshot moreover binds each
\* role once; a dangling binding among them adds and removes nothing.
UnionWhenBoundOnce ==
  OncePer(bindings, LAMBDA b : b.role) => UnionOfBoundPolicies

\* HomeConfined: a principal whose policies only speak of "@home" is granted
\* nothing, and is no wildcard holder, outside its home application; without a
\* home nowhere, not even where the target is unresolved too (authz.go:81).
HomeConfined ==
  \A pr \in Principals : \A app \in (AppsOrNone \ {pr.home}) \cup {NoApp} :
    (\A s \in pr.statements : s.apps = {appHome}) =>
      /\ \A perm \in Perms : ~granted(pr, perm, app)
      /\ ~isWildcard(pr, app)

\* IntrospectionAgrees: a client that reads permissions_by_app of /api/_iam/me
\* and matches its patterns itself reaches the evaluator's verdict, for every
\* permission and application, also when the application is left out of it.
IntrospectionAgrees ==
  \A pr \in Principals : \A app \in Apps, perm \in Perms :
    LET listed == permissionsByApp(pr, Apps)
    IN granted(pr, perm, app) <=>
         /\ app \in DOMAIN listed
         /\ \E a \in listed[app] : matchAction(a, perm)
=============================================================================
