---------------------------- MODULE Construction ----------------------------
(***************************************************************************)
(* What New makes of the part of a configuration that decides which tokens *)
(* a request may come with (plugin.go): the realm of every application,    *)
(* the operator realm and the engine. Nil stands for an error, on which    *)
(* Traefik drops the router.                                               *)
(*                                                                         *)
(* A realm is [appId, issuer, jwksUrl]; texts are trimmed and lower case,  *)
(* "" for what is not configured.                                          *)
(***************************************************************************)
EXTENDS Naturals, Sequences

CONSTANT Nil   \* the absent value

None == [issuer |-> "", jwksUrl |-> ""]

scalarApps(raw) == {raw.keycloakApps[i] : i \in DOMAIN raw.keycloakApps} \ {""}

\* Every entry names its application, its issuer and its keys.
realmsUsable(raw) ==
  /\ scalarApps(raw) # {} => raw.keycloakIssuer # "" /\ raw.keycloakJwksUrl # ""
  /\ \A i \in DOMAIN raw.keycloakRealms :
       LET r == raw.keycloakRealms[i] IN r.appId # "" /\ r.issuer # "" /\ r.jwksUrl # ""

\* Realm by application: the last entry of keycloakRealms for it, else the
\* scalar realm.
buildKeycloakAppSet(raw) ==
  LET entries(app) == {i \in DOMAIN raw.keycloakRealms : raw.keycloakRealms[i].appId = app}
      last(app) == CHOOSE i \in entries(app) : \A j \in entries(app) : j <= i
      own == {raw.keycloakRealms[i].appId : i \in DOMAIN raw.keycloakRealms}
  IN [app \in scalarApps(raw) \cup own |->
        IF app \in own
        THEN [issuer |-> raw.keycloakRealms[last(app)].issuer, jwksUrl |-> raw.keycloakRealms[last(app)].jwksUrl]
        ELSE [issuer |-> raw.keycloakIssuer, jwksUrl |-> raw.keycloakJwksUrl]]

\* Both parts of the operator realm are configured or neither is.
operatorUsable(raw) == raw.operatorRealm.issuer = "" <=> raw.operatorRealm.jwksUrl = ""

modeUsable(raw) == raw.authorizationMode \in {"", "legacy", "policy"}

\* The fields of the middleware. The keys of a realm are those of its issuer.
New(raw) ==
  IF ~(modeUsable(raw) /\ realmsUsable(raw) /\ operatorUsable(raw)) THEN Nil
  ELSE LET realms == buildKeycloakAppSet(raw)
       IN [policy   |-> raw.authorizationMode = "policy",
           realms   |-> [app \in DOMAIN realms |-> realms[app].issuer],
           operator |-> IF raw.operatorRealm = None THEN Nil ELSE raw.operatorRealm.issuer]
=============================================================================
