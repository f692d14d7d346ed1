------------------------------ MODULE Gateway ------------------------------
(***************************************************************************)
(* The request path of the gateway middleware (plugin.go, policy.go) over  *)
(* the two shared caches (snapshot.go, registry.go).                       *)
(*                                                                         *)
(* Traefik runs every request in a goroutine of its own; the pollers of    *)
(* the caches run beside them. A request takes one step per critical       *)
(* section or blocking call, so a refresh may fall between any two reads   *)
(* of one request; what it computes in between belongs to the step. The    *)
(* caches obey LastGoodCache, which their pollers are proved to implement  *)
(* but for blank answers: the registry may go blank here too, the snapshot *)
(* is taken to be answered with published versions only.                   *)
(*                                                                         *)
(* Requests share no state but the caches, which they only read.           *)
(***************************************************************************)
EXTENDS Snapshot, AppRegistry, FiniteSets

CONSTANTS
  Requests,          \* request slots: how many requests are served at once
  Inputs,            \* the requests clients may send
  Config,            \* middleware instance (one per router) -> its configuration
  RegistryContents,  \* what application-service may publish
  SnapshotContents,  \* what service-service may publish
  MaxPublish,        \* bound on the versions either of them publishes
  Plans,             \* plan names
  NumericIds,        \* user-id claim values that are positive int64s
  deriveUserID       \* token subject -> derived numeric id (FNV-1a)

ASSUME MaxPublishAssumption == MaxPublish \in Nat \ {0}

ASSUME NilAssumption == Nil \notin Inputs /\ Nil \notin Plans /\ Nil \notin Nat /\ Nil # "true"

ASSUME ConfigAssumption == \A in \in Inputs : Config[in.mw].defaultPlan \in Plans

VARIABLES
  regPub, regVer, regLoaded,     \* application-service and the registry cache
  registry,                      \* byHost, wildcards and active of that cache
  snapPub, snapVer, snapLoaded,  \* service-service and the snapshot cache
  rq                             \* the requests being served

regVars == <<regPub, regVer, regLoaded, registry>>
snapVars == <<snapPub, snapVer, snapLoaded>>
vars == <<regVars, snapVars, rq>>

Reg == INSTANCE LastGoodCache
         WITH Contents <- RegistryContents, published <- regPub,
              version <- regVer, loaded <- regLoaded
Snap == INSTANCE LastGoodCache
          WITH Contents <- SnapshotContents, published <- snapPub,
               version <- snapVer, loaded <- snapLoaded

NoId == ""
FORWARD == 0           \* the "status" of a request handed to the backend
iamMePath == "/api/_iam/me"

\* What a refresh makes of each snapshot.
compiledOf == [snap \in SnapshotContents |-> compiled(snap)]
policyIndexOf == [snap \in SnapshotContents |-> newPolicyIndex(snap.policies, snap.bindings)]

\* What the snapshot cache holds at version v (SnapshotCache!HoldsOneVersion).
EndpointsAt(v) == IF v = 0 THEN <<>> ELSE compiledOf[snapPub[v]]
IndexAt(v) == IF v = 0 THEN EmptyIndex ELSE policyIndexOf[snapPub[v]]

-----------------------------------------------------------------------------
(* A request being served. hdr holds the headers the gateway owns, and the *)
(* client's session header; resVer, epVer, hostVer and polVer remember the *)
(* cache version each read saw.                                            *)

TrustHeaders == {"app", "user", "plan", "admin", "roles", "apiKeyUid", "uid", "email"}

HeaderNames == TrustHeaders \cup {"session"}

NoHeaders == [h \in HeaderNames |-> Nil]

ASSUME HeadersAssumption == \A in \in Inputs : DOMAIN in.headers = HeaderNames

Idle ==
  [pc |-> "idle", in |-> Nil, hdr |-> NoHeaders, hostApp |-> NoApp, target |-> NoApp,
   ep |-> Nil, claims |-> Nil, pr |-> NoPrincipal, plan |-> Nil, shadow |-> Nil,
   perms |-> Nil, code |-> Nil, reason |-> Nil,
   resVer |-> 0, epVer |-> 0, hostVer |-> 0, polVer |-> 0]

Cfg(q) == Config[q.in.mw]

Become(r, q) == rq' = [rq EXCEPT ![r] = q]

Goto(q, pc) == [q EXCEPT !.pc = pc]

\* Mutant: the handler carries on after it wrote the response.
AnswerAndGoOn(q, code, reason) == [q EXCEPT !.code = code, !.reason = reason]

\* The response is written. reason is the reason= of its log line, Nil when
\* the line has none.
Answer(q, code, reason) == [q EXCEPT !.pc = "done", !.code = code, !.reason = reason]

forward(q) == Answer(q, FORWARD, Nil)

-----------------------------------------------------------------------------
(* Tokens and credentials.                                                 *)

\* The realm issuer an application authenticates against.
keycloakRealmFor(cfg, app) ==
  IF app # NoApp /\ app \in DOMAIN cfg.realms THEN cfg.realms[app] ELSE Nil

\* The configured user-id claim, where the token has it, else the subject.
userIDClaim(tok) == IF tok.luid # NoId THEN tok.luid ELSE tok.sub

numericUserID(tok) ==
  IF userIDClaim(tok) \in NumericIds THEN userIDClaim(tok) ELSE deriveUserID[tok.sub]

\* Token roles, not qualified: client roles of the authorized party and realm
\* roles.
keycloakRoles(tok) == (IF tok.azp = <<>> THEN {} ELSE tok.clientRoles) \cup tok.realmRoles

\* Could this token validate against the realm of issuer? tok.valid stands for
\* form, algorithm, signature by a key of its issuer, and expiry.
validates(tok, issuer) ==
  tok.valid /\ tok.iss = issuer /\ tok.sub # NoId /\ tok.app # NoApp

claimsOf(cfg, tok) ==
  [user      |-> numericUserID(tok),
   iss       |-> tok.iss,
   app       |-> tok.app,
   admin     |-> keycloakRoles(tok) \cap cfg.adminRoles # {},
   roles     |-> keycloakRoles(tok),
   qualified |-> qualifyRoles(tok.azp, tok.clientRoles, tok.realmRoles),
   sub       |-> tok.sub,
   email     |-> IF tok.emailVerified THEN tok.email ELSE NoId]

ASSUME ClaimsAssumption ==
  \A in \in Inputs : in.token # Nil => claimsOf(Config[in.mw], in.token) # Nil

\* Mutant: a token of an unaccepted issuer is treated as no token at all.
authenticateSoftly(cfg, app, tok) ==
  IF tok = Nil \/ cfg.disableAuth \/ ~validates(tok, tok.iss)
       \/ tok.iss \notin {keycloakRealmFor(cfg, app), cfg.operator}
  THEN {[ok |-> TRUE, claims |-> Nil]}
  ELSE {[ok |-> TRUE, claims |-> claimsOf(cfg, tok)]}

\* The results of authenticate: the realm is picked by the token's own issuer
\* out of {the application's realm, the operator realm}. A token that would
\* validate is still refused while its key cannot be fetched.
authenticate(cfg, app, tok) ==
  LET chosen == {keycloakRealmFor(cfg, app), cfg.operator} \ {Nil}
      refused == [ok |-> FALSE, claims |-> Nil]
  IN IF tok = Nil \/ cfg.disableAuth THEN {[ok |-> TRUE, claims |-> Nil]}
     ELSE IF tok.iss \in chosen /\ validates(tok, tok.iss)
          THEN {refused, [ok |-> TRUE, claims |-> claimsOf(cfg, tok)]}
          ELSE {refused}

hasLegacyAPIKey(q) == ~Cfg(q).disableAuth /\ q.in.fcKey

-----------------------------------------------------------------------------
(* Headers, owner gate and rate-limit lookup.                              *)

\* Mutant: the roles header is forgotten.
stripButRoles(hdr) ==
  [h \in DOMAIN hdr |-> IF h \in TrustHeaders \ {"roles"} THEN Nil ELSE hdr[h]]

\* Every gateway-owned header is dropped at entry.
strip(hdr) == [h \in DOMAIN hdr |-> IF h \in TrustHeaders THEN Nil ELSE hdr[h]]

\* Plan and identity headers of an authenticated request.
stampIdentity(q, plan, admin, roles) ==
  [q EXCEPT
     !.plan = plan,
     !.hdr = [q.hdr EXCEPT
       !["user"] = q.claims.user,
       !["plan"] = plan,
       !["uid"] = q.claims.sub,
       !["email"] = IF q.claims.email # NoId THEN q.claims.email ELSE @,
       !["roles"] = IF roles # {} THEN roles ELSE @,
       !["admin"] = IF admin THEN "true" ELSE @,
       !["session"] = Nil]]

\* Mutant: an absent owner id passes as one's own.
ownerMatchesAbsent(owner, claims) == owner \in {NoId, claims.user, claims.sub}

ownerMatches(owner, claims) ==
  owner # NoId /\ (owner = claims.user \/ (claims.sub # NoId /\ owner = claims.sub))

\* The owner id named by the endpoint, NoId for a malformed descriptor.
extractOwner(ep, in) == IF ep.owner \in DOMAIN in.owners THEN in.owners[ep.owner] ELSE NoId

resolveRateLimit(cfg, ep, plan) ==
  IF plan \in DOMAIN ep.limits THEN ep.limits[plan] ELSE cfg.defaultLimit

resolutionHost(cfg, in) ==
  IF cfg.trustForwardedHost /\ in.forwardedHost # Nil THEN in.forwardedHost ELSE in.host

-----------------------------------------------------------------------------
(* The caches: an upstream publishes, a refresh succeeds. A failed one is  *)
(* a stutter. The registry raises its flag in the critical section of the  *)
(* install, the snapshot cache only after the unlock.                      *)

PublishRegistry ==
  /\ \E c \in RegistryContents : Reg!Publish(c)
  /\ UNCHANGED <<registry, snapVars, rq>>

RefreshRegistry ==
  /\ \E v \in 1..MaxPublish :
       /\ Reg!Install(v, TRUE)
       /\ registry' \in compileRegistry(regPub[v])
  /\ UNCHANGED <<snapVars, rq>>

\* A 200 answer that is no registry (AppRegistryCache!ServeBlank) is installed
\* like any other: nothing is mapped, and the cache counts as loaded.
BlankRegistry ==
  /\ regVer' = 0
  /\ regLoaded' = TRUE
  /\ registry' = EmptyRegistry
  /\ UNCHANGED <<regPub, snapVars, rq>>

PublishSnapshot ==
  /\ \E c \in SnapshotContents : Snap!Publish(c)
  /\ UNCHANGED <<regVars, rq>>

RefreshSnapshot ==
  /\ \E v \in 1..MaxPublish : Snap!Install(v, snapLoaded)
  /\ UNCHANGED <<regVars, rq>>

StoreLoaded ==
  /\ Snap!MarkLoaded
  /\ UNCHANGED <<regVars, rq>>

-----------------------------------------------------------------------------
(* ServeHTTP                                                               *)

\* A request enters: CORS preflights are answered at once, otherwise the
\* gateway-owned headers are stripped and resolution starts unless disabled.
Arrive(r) ==
  /\ rq[r].pc = "idle"
  /\ \E in \in Inputs :
       LET cfg == Config[in.mw]
           q == [Idle EXCEPT !.in = in, !.hdr = in.headers]
           entered == [q EXCEPT !.hdr = strip(@)]
       IN Become(r, IF cfg.cors /\ in.method = "OPTIONS" THEN Answer(q, 204, Nil)
                    ELSE IF cfg.mode # "disabled" THEN Goto(entered, "resolve")
                    ELSE Goto(entered, "checkLoaded"))
  /\ UNCHANGED <<regVars, snapVars>>

\* resolveHost under the registry's read lock.
ResolveHost(r) ==
  LET q == rq[r]
      apps == resolveHost(registry, resolutionHost(Cfg(q), q.in))
      read == [q EXCEPT !.resVer = regVer]
  IN /\ q.pc = "resolve"
     /\ \/ \E app \in apps :
             Become(r, Goto([read EXCEPT !.hostApp = app, !.hdr["app"] = app], "checkLoaded"))
        \/ /\ apps = {}
           /\ Become(r, IF Cfg(q).mode = "enforce" THEN Goto(read, "coldStart")
                        ELSE Goto(read, "checkLoaded"))
     /\ UNCHANGED <<regVars, snapVars>>

\* Mutant: the request waits for the registry instead of answering 503.
ColdStartWaits(r) ==
  LET q == rq[r]
  IN /\ q.pc = "coldStart"
     /\ regLoaded
     /\ Become(r, Answer(q, 403, Nil))
     /\ UNCHANGED <<regVars, snapVars>>

\* coldStart, a second critical section of the registry.
ColdStart(r) ==
  LET q == rq[r]
  IN /\ q.pc = "coldStart"
     /\ Become(r, IF regLoaded THEN Answer(q, 403, Nil) ELSE Answer(q, 503, Nil))
     /\ UNCHANGED <<regVars, snapVars>>

\* The handler of a request: introspection, the policy or the legacy engine.
handler(q) ==
  IF q.in.path = iamMePath THEN "iam" ELSE IF Cfg(q).policy THEN "target" ELSE "legacyMatch"

\* Mutant: the cold snapshot check is dropped.
SkipLoadedCheck(r) ==
  LET q == rq[r]
  IN /\ q.pc = "checkLoaded"
     /\ Become(r, Goto(q, handler(q)))
     /\ UNCHANGED <<regVars, snapVars>>

\* Snapshot cold check, then the dispatch to one of the three handlers.
CheckLoaded(r) ==
  LET q == rq[r]
  IN /\ q.pc = "checkLoaded"
     /\ Become(r, IF Cfg(q).mode = "enforce" /\ ~snapLoaded THEN Answer(q, 503, Nil)
                  ELSE Goto(q, handler(q)))
     /\ UNCHANGED <<regVars, snapVars>>

-----------------------------------------------------------------------------
(* serveIAMMe                                                              *)

IamCredential(r) ==
  LET q == rq[r]
  IN /\ q.pc = "iam"
     /\ \/ q.in.method # "GET" /\ Become(r, Answer(q, 405, Nil))
        \/ /\ q.in.method = "GET"
           /\ \E a \in authenticate(Cfg(q), q.hostApp, q.in.token) :
                Become(r, IF ~a.ok THEN Answer(q, 401, "issuer_rejected")
                          ELSE IF a.claims = Nil THEN Answer(q, 401, "no_token")
                          ELSE Goto([q EXCEPT !.claims = a.claims], "iamPrincipal"))
     /\ UNCHANGED <<regVars, snapVars>>

\* The principal of q's claims under the policies held now.
principalFor(q) ==
  IF q.claims = Nil THEN NoPrincipal
  ELSE resolveStatements(q.claims.qualified, q.claims.app, IndexAt(snapVer))

IamPrincipal(r) ==
  LET q == rq[r]
  IN /\ q.pc = "iamPrincipal"
     /\ Become(r, Goto([q EXCEPT !.pr = principalFor(q), !.polVer = snapVer], "iamApps"))
     /\ UNCHANGED <<regVars, snapVars>>

\* activeAppIDs, read where there is a registry cache, then the answer.
IamApps(r) ==
  LET q == rq[r]
      active == IF Cfg(q).mode # "disabled" THEN registry.active ELSE {}
      apps == IF active = {} THEN {q.hostApp} \ {NoApp} ELSE active
  IN /\ q.pc = "iamApps"
     /\ Become(r, [Answer(q, 200, Nil) EXCEPT !.perms = permissionsByApp(q.pr, apps)])
     /\ UNCHANGED <<regVars, snapVars>>

-----------------------------------------------------------------------------
(* servePolicy                                                             *)

\* 1. The target: the requested application when it is active, else the
\* host's. It is stamped unless unresolved.
TargetApp(r) ==
  LET q == rq[r]
      asked == q.in.requestedApp # NoApp /\ Cfg(q).mode # "disabled"
      target == IF asked THEN q.in.requestedApp ELSE q.hostApp
      chosen == [q EXCEPT !.target = target]
  IN /\ q.pc = "target"
     /\ Become(r, IF asked /\ target \notin registry.active THEN Answer(q, 403, "unknown_app")
                  ELSE IF target = NoApp THEN Goto(chosen, "match")
                  ELSE Goto([chosen EXCEPT !.hdr["app"] = target], "match"))
     /\ UNCHANGED <<regVars, snapVars>>

\* 2. The endpoint under the target application; what is not registered there
\* passes through, unless it may be a route of the host's application.
MatchTarget(r) ==
  LET q == rq[r]
      ep == matchEndpoint(EndpointsAt(snapVer), q.target, q.in.method, q.in.path)
      read == [q EXCEPT !.ep = ep, !.epVer = snapVer]
  IN /\ q.pc = "match"
     /\ Become(r, IF ep # Nil THEN Goto(read, "credential")
                  ELSE IF q.target # q.hostApp THEN Goto(read, "matchHost")
                  ELSE forward(read))
     /\ UNCHANGED <<regVars, snapVars>>

\* The second lookup takes the lock again: the snapshot may be a later one.
MatchHost(r) ==
  LET q == rq[r]
      read == [q EXCEPT !.hostVer = snapVer]
  IN /\ q.pc = "matchHost"
     /\ Become(r, IF matchEndpoint(EndpointsAt(snapVer), q.hostApp, q.in.method, q.in.path) # Nil
                  THEN Answer(read, 403, "endpoint_not_exposed")
                  ELSE forward(read))
     /\ UNCHANGED <<regVars, snapVars>>

\* 3. Credential.
Credential(r) ==
  LET q == rq[r]
  IN /\ q.pc = "credential"
     /\ \/ hasLegacyAPIKey(q) /\ Become(r, Answer(q, 401, "issuer_rejected"))
        \/ /\ ~hasLegacyAPIKey(q)
           /\ \E a \in authenticate(Cfg(q), q.target, q.in.token) :
                Become(r, IF a.ok THEN Goto([q EXCEPT !.claims = a.claims], "principal")
                          ELSE Answer(q, 401, "issuer_rejected"))
     /\ UNCHANGED <<regVars, snapVars>>

\* Mutant: the permission is evaluated on the host's application.
PrincipalOnHost(r) ==
  LET q == rq[r]
      read == [q EXCEPT !.pr = principalFor(q), !.polVer = snapVer]
  IN /\ q.pc = "principal"
     /\ Become(r, IF q.ep.perm = NoPerm THEN Goto(read, "identity")
                  ELSE IF q.claims = Nil THEN Answer(read, 401, "no_token")
                  ELSE IF granted(read.pr, q.ep.perm, q.hostApp)
                       THEN Goto(read, "identity")
                       ELSE Answer(read, 403, "no_matching_statement"))
     /\ UNCHANGED <<regVars, snapVars>>

\* 4., 5. Principal under the policies held now, required permission.
Principal(r) ==
  LET q == rq[r]
      read == [q EXCEPT !.pr = principalFor(q), !.polVer = snapVer]
  IN /\ q.pc = "principal"
     /\ Become(r, IF q.ep.perm = NoPerm THEN Goto(read, "identity")
                  ELSE IF q.claims = Nil THEN Answer(read, 401, "no_token")
                  ELSE IF granted(read.pr, q.ep.perm, q.target)
                       THEN Goto(read, "identity")
                       ELSE Answer(read, 403, "no_matching_statement"))
     /\ UNCHANGED <<regVars, snapVars>>

\* 6., 7a. Plan lookup (any plan may come back), headers, owner gate; holders
\* of "*" on the target skip the rate limit.
Identity(r) ==
  LET q == rq[r]
      wildcard == isWildcard(q.pr, q.target)
  IN /\ q.pc = "identity"
     /\ \/ /\ q.claims = Nil
           /\ Become(r, IF q.ep.owner # Nil THEN Answer(q, 401, "no_token")
                        ELSE Goto([q EXCEPT !.plan = Cfg(q).defaultPlan], "rateLimit"))
        \/ /\ q.claims # Nil
           /\ \E plan \in Plans :
                LET stamped == stampIdentity(q, plan, wildcard, q.pr.boundRoles)
                IN Become(r,
                     IF q.ep.owner # Nil /\ ~wildcard /\ ~ownerMatches(extractOwner(q.ep, q.in), q.claims)
                     THEN Answer(stamped, 403, "owner_mismatch")
                     ELSE IF wildcard THEN forward(stamped)
                     ELSE Goto(stamped, "rateLimit"))
     /\ UNCHANGED <<regVars, snapVars>>

\* 7b. applyRateLimit, shared by both engines: Redis counts the request, and
\* the request passes when it is within the limit or Redis fails.
RateLimit(r) ==
  LET q == rq[r]
      counted == ~Cfg(q).disableRateLimit /\ resolveRateLimit(Cfg(q), q.ep, q.plan) > 0
  IN /\ q.pc = "rateLimit"
     /\ \/ Become(r, forward(q))
        \/ counted /\ Become(r, Answer(q, 429, Nil))
     /\ UNCHANGED <<regVars, snapVars>>

-----------------------------------------------------------------------------
(* serveLegacy: everything happens under the host's application.           *)

LegacyMatch(r) ==
  LET q == rq[r]
      ep == matchEndpoint(EndpointsAt(snapVer), q.hostApp, q.in.method, q.in.path)
      read == [q EXCEPT !.target = q.hostApp, !.ep = ep, !.epVer = snapVer]
  IN /\ q.pc = "legacyMatch"
     /\ Become(r, IF ep = Nil THEN forward(read) ELSE Goto(read, "legacyCredential"))
     /\ UNCHANGED <<regVars, snapVars>>

\* Mutant: the cross-application replay check is dropped.
LegacyNoReplayCheck(r) ==
  LET q == rq[r]
      realm == keycloakRealmFor(Cfg(q), q.hostApp)
  IN /\ q.pc = "legacyCredential"
     /\ \/ hasLegacyAPIKey(q) /\ Become(r, Answer(q, 401, "issuer_rejected"))
        \/ /\ ~hasLegacyAPIKey(q) /\ (q.in.token = Nil \/ Cfg(q).disableAuth)
           /\ Become(r, Goto(q, "legacyAuthorize"))
        \/ /\ ~hasLegacyAPIKey(q) /\ q.in.token # Nil /\ ~Cfg(q).disableAuth
           /\ realm # Nil /\ validates(q.in.token, realm)
           /\ Become(r, Goto([q EXCEPT !.claims = claimsOf(Cfg(q), q.in.token)], "legacyAuthorize"))
     /\ UNCHANGED <<regVars, snapVars>>

\* The host application's realm is the only one asked, and the token must have
\* been issued for that application.
LegacyCredential(r) ==
  LET q == rq[r]
      realm == keycloakRealmFor(Cfg(q), q.hostApp)
      presented == q.in.token # Nil /\ ~Cfg(q).disableAuth
  IN /\ q.pc = "legacyCredential"
     /\ \/ /\ hasLegacyAPIKey(q) \/ presented
           /\ Become(r, Answer(q, 401, "issuer_rejected"))
        \/ /\ ~hasLegacyAPIKey(q) /\ ~presented
           /\ Become(r, Goto(q, "legacyAuthorize"))
        \/ /\ ~hasLegacyAPIKey(q) /\ presented
           /\ realm # Nil /\ validates(q.in.token, realm)
           /\ q.in.token.app = q.hostApp
           /\ Become(r, Goto([q EXCEPT !.claims = claimsOf(Cfg(q), q.in.token)], "legacyAuthorize"))
     /\ UNCHANGED <<regVars, snapVars>>

\* The legacy requirement of an endpoint: its own permission, else the admin
\* permission for the admin access level.
requiredPermission(cfg, ep) ==
  IF ep.perm = NoPerm /\ ep.access = cfg.adminAccessLevel THEN cfg.adminPermission ELSE ep.perm

\* logShadow's verdict for an authenticated request.
shadowVerdict(q) ==
  IF q.claims = Nil \/ ~Cfg(q).infoLog THEN Nil
  ELSE IF granted(principalFor(q), requiredPermission(Cfg(q), q.ep), q.target) THEN "allow" ELSE "deny"

\* The shadow verdict is logged, then the permission is required of the token's
\* own roles: an admin holds every permission, anyone else none.
LegacyAuthorize(r) ==
  LET q == rq[r]
      logged == [q EXCEPT !.shadow = shadowVerdict(q), !.polVer = snapVer]
  IN /\ q.pc = "legacyAuthorize"
     /\ Become(r, IF requiredPermission(Cfg(q), q.ep) = NoPerm
                  THEN Goto(logged, "legacyIdentity")
                  ELSE IF q.claims = Nil THEN Answer(logged, 401, "no_token")
                  ELSE IF q.claims.admin THEN Goto(logged, "legacyIdentity")
                  ELSE Answer(logged, 403, "no_matching_statement"))
     /\ UNCHANGED <<regVars, snapVars>>

\* Plan, headers and owner gate; the 401 of the owner gate logs nothing, and
\* admins are rate limited like anyone.
LegacyIdentity(r) ==
  LET q == rq[r]
  IN /\ q.pc = "legacyIdentity"
     /\ \/ /\ q.claims = Nil
           /\ Become(r, IF q.ep.owner # Nil THEN Answer(q, 401, Nil)
                        ELSE Goto([q EXCEPT !.plan = Cfg(q).defaultPlan], "rateLimit"))
        \/ /\ q.claims # Nil
           /\ \E plan \in Plans :
                LET stamped == stampIdentity(q, plan, q.claims.admin, q.claims.roles)
                IN Become(r,
                     IF q.ep.owner # Nil /\ stamped.hdr["admin"] # "true"
                          /\ ~ownerMatches(extractOwner(q.ep, q.in), q.claims)
                     THEN Answer(stamped, 403, "owner_mismatch")
                     ELSE Goto(stamped, "rateLimit"))
     /\ UNCHANGED <<regVars, snapVars>>

-----------------------------------------------------------------------------

\* The connection is done with; the slot serves another request.
Finish(r) ==
  /\ rq[r].pc = "done"
  /\ Become(r, Idle)
  /\ UNCHANGED <<regVars, snapVars>>

\* The steps a request takes once it has entered.
Serve(r) ==
  \/ ResolveHost(r) \/ ColdStart(r) \/ CheckLoaded(r)
  \/ IamCredential(r) \/ IamPrincipal(r) \/ IamApps(r)
  \/ TargetApp(r) \/ MatchTarget(r) \/ MatchHost(r) \/ Credential(r)
  \/ Principal(r) \/ Identity(r) \/ RateLimit(r)
  \/ LegacyMatch(r) \/ LegacyCredential(r) \/ LegacyAuthorize(r) \/ LegacyIdentity(r)

CacheStep ==
  \/ PublishRegistry \/ RefreshRegistry \/ BlankRegistry
  \/ PublishSnapshot \/ RefreshSnapshot \/ StoreLoaded

Init ==
  /\ Reg!CacheInit
  /\ registry = EmptyRegistry
  /\ Snap!CacheInit
  /\ rq = [r \in Requests |-> Idle]

Next == CacheStep \/ \E r \in Requests : Arrive(r) \/ Serve(r) \/ Finish(r)

\* A goroutine that can take a step takes it: every call a request makes is
\* bounded by a timeout. Nothing is assumed of upstreams or refreshes.
Fairness == \A r \in Requests : WF_vars(Serve(r))

Spec == Init /\ [][Next]_vars /\ Fairness

-----------------------------------------------------------------------------
(* Properties                                                              *)

PCs == {"idle", "resolve", "coldStart", "checkLoaded", "iam", "iamPrincipal", "iamApps",
        "target", "match", "matchHost", "credential", "principal", "identity", "rateLimit",
        "legacyMatch", "legacyCredential", "legacyAuthorize", "legacyIdentity", "done"}

Codes == {FORWARD, 200, 204, 401, 403, 405, 429, 503}

Versions == 0..MaxPublish

RequestFields ==
  {"pc", "in", "hdr", "hostApp", "target", "ep", "claims", "pr", "plan", "shadow",
   "perms", "code", "reason", "resVer", "epVer", "hostVer", "polVer"}

RequestTypeOK(q) ==
  /\ DOMAIN q = RequestFields
  /\ q.pc \in PCs
  /\ q.in \in Inputs \cup {Nil}
  /\ q.in = Nil <=> q.pc = "idle"
  /\ q.code \in Codes \cup {Nil}
  /\ q.code = Nil <=> q.pc # "done"
  /\ q.plan \in Plans \cup {Nil}
  /\ q.resVer \in Versions /\ q.epVer \in Versions
  /\ q.hostVer \in Versions /\ q.polVer \in Versions

TypeOK ==
  /\ Reg!CacheTypeOK
  /\ Snap!CacheTypeOK
  /\ DOMAIN rq = Requests
  /\ \A r \in Requests : RequestTypeOK(rq[r])

Forwarded(q) == q.pc = "done" /\ q.code = FORWARD

\* The issuers whose tokens the request's engine accepts.
AcceptedIssuers(q) ==
  {keycloakRealmFor(Cfg(q), q.target)}
    \cup (IF Cfg(q).policy THEN {Cfg(q).operator} ELSE {})

\* The principal of the claims under the policies of the version that was read.
PrincipalRead(q) == resolveStatements(q.claims.qualified, q.claims.app, IndexAt(q.polVer))

\* Admin standing: "*" on the target, or one of the configured admin roles.
AdminEarned(q) ==
  IF Cfg(q).policy THEN isWildcard(PrincipalRead(q), q.target)
  ELSE keycloakRoles(q.in.token) \cap Cfg(q).adminRoles # {}

\* EnforceFailsClosed: in enforce mode nothing reaches a backend unless the host
\* was resolved to an active application by a registry version that was really
\* published, and the route was looked up in a snapshot that was really loaded,
\* also while either cache is still cold, or loads or goes blank between two
\* reads.
EnforceFailsClosed ==
  \A r \in Requests : LET q == rq[r] IN
    Forwarded(q) /\ Cfg(q).mode = "enforce" =>
      /\ q.resVer # 0 /\ q.epVer # 0
      /\ \E h \in DOMAIN regPub[q.resVer].hosts :
           /\ regPub[q.resVer].hosts[h].active
           /\ regPub[q.resVer].hosts[h].app = q.hostApp

\* PolicyDecisionSound: under the policy engine a request that reaches a
\* permission-gated route carries a token of an accepted realm, the route is the
\* one the snapshot assigns to the target application, and the policies that
\* grant the permission on that application are never older than the route.
PolicyDecisionSound ==
  \A r \in Requests : LET q == rq[r] IN
    Forwarded(q) /\ Cfg(q).policy /\ q.ep # Nil =>
      /\ q.ep = matchEndpoint(EndpointsAt(q.epVer), q.target, q.in.method, q.in.path)
      /\ q.epVer <= q.polVer /\ q.polVer <= snapVer
      /\ q.ep.perm # NoPerm =>
           /\ q.claims # Nil
           /\ q.in.token.iss \in AcceptedIssuers(q)
           /\ granted(PrincipalRead(q), q.ep.perm, q.target)

\* LegacyPinned: under the legacy engine a token only counts on the host of the
\* application it was issued for, and a gated route needs an admin role of it.
LegacyPinned ==
  \A r \in Requests : LET q == rq[r] IN
    Forwarded(q) /\ ~Cfg(q).policy /\ q.ep # Nil =>
      /\ q.claims # Nil => /\ q.in.token.app = q.hostApp
                           /\ q.in.token.iss \in AcceptedIssuers(q)
      /\ requiredPermission(Cfg(q), q.ep) # NoPerm => q.claims # Nil /\ AdminEarned(q)

\* CredentialNotIgnored: on a registered route a credential that is not accepted
\* (a retired key, a token of another realm, an expired one, one whose key cannot
\* be fetched) never degrades to an anonymous request.
CredentialNotIgnored ==
  \A r \in Requests : LET q == rq[r] IN
    Forwarded(q) /\ q.ep # Nil /\ ~Cfg(q).disableAuth =>
      ~q.in.fcKey /\ (q.in.token # Nil => q.claims # Nil /\ q.in.token.valid)

\* OwnerGateSound: a route with an owner is reached only by that owner or by an
\* admin, in both engines.
OwnerGateSound ==
  \A r \in Requests : LET q == rq[r] IN
    Forwarded(q) /\ q.ep # Nil /\ q.ep.owner # Nil =>
      /\ q.claims # Nil
      /\ \/ AdminEarned(q)
         \/ extractOwner(q.ep, q.in) \in {numericUserID(q.in.token), q.in.token.sub} \ {NoId}

\* HeadersEarned: whatever the client sent, a forwarded request carries only
\* identity the gateway established: the target application, the user of the
\* accepted token, admin standing that was earned, roles the token holds, and no
\* session beside a user.
HeadersEarned ==
  \A r \in Requests : LET q == rq[r] IN
    Forwarded(q) =>
      /\ q.hdr["apiKeyUid"] = Nil
      /\ q.hdr["app"] \in IF q.target = NoApp THEN {Nil, NoApp} ELSE {q.target}
      /\ q.claims = Nil => \A h \in TrustHeaders \ {"app"} : q.hdr[h] = Nil
      /\ q.claims # Nil =>
           /\ q.hdr["user"] = numericUserID(q.in.token)
           /\ q.hdr["uid"] = q.in.token.sub
           /\ q.hdr["plan"] \in Plans
           /\ q.hdr["email"] # Nil =>
                q.in.token.emailVerified /\ q.hdr["email"] = q.in.token.email
           /\ q.hdr["session"] = Nil
           /\ q.hdr["admin"] = IF AdminEarned(q) THEN "true" ELSE Nil
           /\ q.hdr["roles"] # Nil =>
                q.hdr["roles"] \subseteq (q.claims.roles \cup q.claims.qualified)

\* EveryRequestAnswered: a request that entered is answered or forwarded, however
\* often the caches change under it.
EveryRequestAnswered ==
  \A r \in Requests : rq[r].pc # "idle" ~> rq[r].pc = "done"

\* UngatedOnlyWhenUnregistered (policy.go:106-108): a request with an explicit
\* target passes through un-gated only if some snapshot it was served under
\* registers the route neither for the target nor for the host's application.
UngatedOnlyWhenUnregistered ==
  \A r \in Requests : LET q == rq[r] IN
    Forwarded(q) /\ Cfg(q).policy /\ q.ep = Nil /\ q.target # q.hostApp =>
      \E v \in {q.epVer, q.hostVer} : \A app \in {q.target, q.hostApp} :
        matchEndpoint(EndpointsAt(v), app, q.in.method, q.in.path) = Nil

\* DenialsLogReason (policy.go:29, README "Every 401/403 logs one line with
\* reason="): every denial is logged with a reason.
DenialsLogReason ==
  \A r \in Requests : rq[r].code \in {401, 403} => rq[r].reason # Nil

\* ShadowPredictsPolicy (README, policy engine: "Under legacy the same evaluation
\* is logged as shadow"): the logged verdict is the one the policy engine would
\* reach on this route under the same policies.
ShadowPredictsPolicy ==
  \A r \in Requests : LET q == rq[r] IN
    q.shadow # Nil =>
      (q.shadow = "allow" <=> granted(PrincipalRead(q), q.ep.perm, q.target))
=============================================================================
