----------------------------- MODULE MCGateway -----------------------------
(***************************************************************************)
(* Small instance of Gateway: three applications, of which two share a     *)
(* realm, an operator realm, four middleware instances, two registries and *)
(* two snapshots.                                                          *)
(***************************************************************************)
EXTENDS Gateway

CONSTANT Spoofed   \* a client-supplied copy of a trusted header

Read == <<"content", "read">>
Admin == <<"admin">>

MCNumericIds == {"7"}
MCDerive == [s \in {"s1", "s2", "so"} |-> CASE s = "s1" -> "81" [] s = "s2" -> "82" [] s = "so" -> "90"]
MCPlans == {"free", "pro"}

-----------------------------------------------------------------------------
(* Configurations                                                          *)

\* app1 and app3 use the scalar realm, app2 has an entry of its own.
Raw ==
  [authorizationMode |-> "policy", keycloakApps |-> <<"app1", "", "app2", "app3">>,
   keycloakIssuer |-> "iss1", keycloakJwksUrl |-> "jwks1",
   keycloakRealms |-> <<[appId |-> "app2", issuer |-> "iss0", jwksUrl |-> "jwks0"],
                        [appId |-> "app2", issuer |-> "iss2", jwksUrl |-> "jwks2"]>>,
   operatorRealm |-> [issuer |-> "issOp", jwksUrl |-> "jwksOp"]]

Construct == INSTANCE Construction

Built(raw) ==
  Construct!New(raw) @@
  [mode |-> "enforce", disableAuth |-> FALSE, disableRateLimit |-> FALSE,
   cors |-> TRUE, trustForwardedHost |-> FALSE, infoLog |-> TRUE,
   adminRoles |-> {Admin}, adminAccessLevel |-> "admin", adminPermission |-> <<"platform", "admin">>,
   defaultPlan |-> "free", defaultLimit |-> 1]

Legacy == Built([Raw EXCEPT !.authorizationMode = "legacy"])
NoOperator == Built([Raw EXCEPT !.operatorRealm = Construct!None])

MCInstances == {"policy", "legacy", "permissive", "disabled"}
MCConfig ==
  [m \in MCInstances |->
     CASE m = "policy" -> Built(Raw)
       [] m = "legacy" -> [Legacy EXCEPT !.trustForwardedHost = TRUE]
       [] m = "permissive" -> [NoOperator EXCEPT !.mode = "permissive"]
       [] m = "disabled" -> [Legacy EXCEPT !.mode = "disabled", !.disableAuth = TRUE, !.disableRateLimit = TRUE]]

-----------------------------------------------------------------------------
(* Registries                                                              *)

Host(labels, form) == [labels |-> labels, form |-> form]
One == Host(<<"one", "ex">>, "lower")
OneLoud == Host(<<"one", "ex">>, "upper:port")
Two == Host(<<"*", "two">>, "lower")
SubTwo == Host(<<"a", "two">>, "lower")
Three == Host(<<"three", "ex">>, "lower")

Entry(app, active) == [app |-> app, active |-> active]

MCRegistries ==
  { [hosts |-> (One :> Entry("app1", TRUE)) @@ (Two :> Entry("app2", TRUE)) @@ (Three :> Entry("app3", FALSE)),
     apps |-> {}],
    [hosts |-> (One :> Entry("app1", FALSE)) @@ (Three :> Entry("app3", TRUE)),
     apps |-> {Entry("app1", TRUE), Entry("app2", FALSE)}] }

-----------------------------------------------------------------------------
(* Snapshots                                                               *)

Ep(path, perm) ==
  [method |-> "GET", regex |-> {path}, fullPath |-> path, perm |-> perm, access |-> "public",
   owner |-> Nil, limits |-> [free |-> 0]]

Stmt(actions, apps) == [actions |-> actions, apps |-> apps]
Policies == << [name |-> "viewer", statements |-> {Stmt({Read}, {appHome})}],
               [name |-> "root", statements |-> {Stmt({actionWildcard}, {appWildcard})}] >>
Bind(role, policy) == [role |-> role, policy |-> policy]

\* The first snapshot: a gated, an open, an owned and an admin-level route.
Early ==
  [apps |-> << [app |-> "app1", services |-> << <<Ep("/gated", Read), Ep("/open", NoPerm)>>,
                                                <<[Ep("/own", NoPerm) EXCEPT !.owner = "path"],
                                                  [Ep("/adm", NoPerm) EXCEPT !.access = "admin", !.limits = <<>>]>> >>] >>,
   policies |-> Policies,
   bindings |-> <<Bind(<<"mod">>, "viewer"), Bind(<<"web", "root">>, "root")>>]

\* The gated route moves to app2, the owner becomes a query parameter.
Late ==
  [apps |-> << [app |-> "app2", services |-> << <<Ep("/gated", Read)>> >>],
               [app |-> "*", services |-> << <<[Ep("/own", Read) EXCEPT !.owner = "query"]>> >>] >>,
   policies |-> Policies,
   bindings |-> <<Bind(<<"mod">>, "viewer")>>]

MCSnapshots == {Early, Late}

-----------------------------------------------------------------------------
(* Requests                                                                *)

Tok(iss, app, sub, realmRoles) ==
  [iss |-> iss, valid |-> TRUE, sub |-> sub, app |-> app, luid |-> "uuid", azp |-> <<"web">>,
   clientRoles |-> {}, realmRoles |-> realmRoles, email |-> sub, emailVerified |-> TRUE]

TokMod == Tok("iss1", "app1", "s1", {<<"mod">>})
TokAdmin == [Tok("iss1", "app1", "s2", {Admin}) EXCEPT !.luid = "7", !.email = NoId]
TokRoot == [Tok("issOp", "app1", "so", {}) EXCEPT !.clientRoles = {<<"root">>}, !.emailVerified = FALSE]
TokStaff == [Tok("issOp", "app1", "7", {<<"mod">>}) EXCEPT !.luid = NoId]
TokOther == Tok("iss2", "app2", "s2", {<<"mod">>})
TokReplay == Tok("iss1", "app3", "s1", {Admin})
TokBad == [TokRoot EXCEPT !.valid = FALSE]

In(mw, host, path, requested, token) ==
  [mw |-> mw, host |-> host, forwardedHost |-> Nil, method |-> "GET", path |-> path,
   requestedApp |-> requested, token |-> token, fcKey |-> FALSE,
   owners |-> [path |-> "81", query |-> "s2"],
   headers |-> [h \in TrustHeaders \cup {"session"} |-> Spoofed]]

PolicyInputs ==
  {In("policy", OneLoud, p, a, t) : p \in {"/gated", "/own"}, a \in {NoApp, "app2"},
                                    t \in {TokMod, TokRoot, TokOther}}
    \cup {In("policy", SubTwo, "/gated", NoApp, t) : t \in {TokRoot, TokOther}}
    \cup {In("policy", OneLoud, "/open", NoApp, t) : t \in {Nil, TokOther}}
LegacyInputs ==
  {In("legacy", OneLoud, p, NoApp, t) : p \in {"/gated", "/own", "/adm"},
                                        t \in {Nil, TokMod, TokAdmin, TokReplay}}
IamInputs == {In("policy", OneLoud, iamMePath, NoApp, t) : t \in {Nil, TokMod}}

OtherInputs ==
  { In("policy", OneLoud, "/own", NoApp, Nil),
    In("policy", OneLoud, "/gated", NoApp, Nil),
    In("policy", OneLoud, "/gated", NoApp, TokBad),
    In("policy", OneLoud, "/gated", "app2", TokStaff),
    In("policy", Three, "/adm", "app9", Nil),
    [In("policy", OneLoud, "/gated", NoApp, Nil) EXCEPT !.fcKey = TRUE],
    [In("policy", OneLoud, "/gated", NoApp, Nil) EXCEPT !.method = "OPTIONS"],
    [In("policy", OneLoud, iamMePath, NoApp, Nil) EXCEPT !.method = "POST"],
    [In("policy", OneLoud, "/own", NoApp, TokMod) EXCEPT !.owners["path"] = NoId],
    [In("legacy", Three, "/own", NoApp, TokMod) EXCEPT !.forwardedHost = One],
    [In("legacy", OneLoud, "/gated", NoApp, Nil) EXCEPT !.fcKey = TRUE],
    In("permissive", Three, "/gated", NoApp, Nil),
    In("permissive", Three, "/adm", "app1", TokMod),
    In("disabled", Three, "/own", "app1", TokMod),
    In("disabled", Three, iamMePath, NoApp, Nil) }

MCInputs == PolicyInputs \cup LegacyInputs \cup IamInputs \cup OtherInputs
=============================================================================
