----------------------------- MODULE Snapshot -----------------------------
(***************************************************************************)
(* The registry snapshot (snapshot.go): its published form and the two     *)
(* pure operations on it, the compilation a refresh performs and the       *)
(* endpoint lookup of a request.                                           *)
(*                                                                         *)
(* A published snapshot is                                                 *)
(*   [apps     |-> << [app |-> id, services |-> << <<endpoint, ...>> >>] >>, *)
(*    policies |-> << [name, statements] >>,                               *)
(*    bindings |-> << [role, policy] >>]                                   *)
(* and a published endpoint is                                             *)
(*   [method, regex, fullPath, perm, access, owner, limits]                *)
(* where regex is the set of request paths its pattern matches, or Nil for *)
(* a pattern that does not compile.                                        *)
(***************************************************************************)
EXTENDS Authz

CONSTANT Nil   \* the absent value

\* A pattern that does not compile falls back to the literal full path.
compileRegex(regex, fullPath) == IF regex = Nil THEN {fullPath} ELSE regex

compiledEndpoint(app, ep) ==
  [app    |-> app,
   method |-> ep.method,
   paths  |-> compileRegex(ep.regex, ep.fullPath),
   perm   |-> ep.perm,
   access |-> ep.access,
   owner  |-> ep.owner,
   limits |-> ep.limits]

\* The endpoints of every service of every application, in published order.
compiled(snap) ==
  FlattenSeq([i \in DOMAIN snap.apps |->
    FlattenSeq([j \in DOMAIN snap.apps[i].services |->
      [k \in DOMAIN snap.apps[i].services[j] |->
         compiledEndpoint(snap.apps[i].app, snap.apps[i].services[j][k])]])])

sharedApps == {NoApp, appWildcard}

\* The first element of eps that passes Test, Nil when none does.
FirstOf(eps, Test(_)) ==
  LET i == SelectInSeq(eps, Test) IN IF i = 0 THEN Nil ELSE eps[i]

\* The endpoint that governs (method, path) for app: one of the application
\* itself before a shared one; an unresolved application takes any.
matchEndpoint(eps, app, method, path) ==
  LET Hit(e) == e.method = method /\ path \in e.paths
      own == FirstOf(eps, LAMBDA e : Hit(e) /\ app # NoApp /\ e.app = app)
      shared == FirstOf(eps, LAMBDA e : Hit(e) /\ e.app \in sharedApps)
  IN CASE own # Nil -> own
       [] own = Nil /\ shared # Nil -> shared
       [] own = Nil /\ shared = Nil /\ app = NoApp -> FirstOf(eps, Hit)
       [] OTHER -> Nil
=============================================================================
