------------------------- MODULE GatewayTrustProofs -------------------------
(***************************************************************************)
(* Proofs about credentials, owners and trusted headers on the request     *)
(* path, for every value of the constants.                                 *)
(*                                                                         *)
(* TInv is inductive together with GInv. It says per stage what a request  *)
(* owes to its token: nothing was read and the gateway-owned headers are   *)
(* clean up to the credential; then the claims are those of an accepted    *)
(* token; past the owner gate the headers are those the claims earn.       *)
(***************************************************************************)
EXTENDS GatewayProofs

-----------------------------------------------------------------------------
(* The invariant                                                           *)

BeforeTarget ==
  {"resolve", "coldStart", "checkLoaded", "iam", "iamPrincipal", "iamApps", "target", "legacyMatch"}

\* Stages of a request whose credential has not been read, and has.
Unread == {"resolve", "coldStart", "checkLoaded", "iam", "target", "match", "matchHost",
           "credential", "legacyMatch", "legacyCredential"}
CredentialDone == {"principal", "identity", "legacyAuthorize", "legacyIdentity"}

\* Stages on a registered route.
OnRoute == CredentialDone \cup {"credential", "legacyCredential", "rateLimit"}

AppStamped(q, app) == q.hdr["app"] \in IF app = NoApp THEN {Nil, NoApp} ELSE {app}

HeadersClean(q) == \A h \in TrustHeaders \ {"app"} : q.hdr[h] = Nil

ClaimsEarned(q) ==
  q.claims # Nil =>
    /\ q.in.token # Nil /\ q.in.token.valid
    /\ q.claims = claimsOf(Cfg(q), q.in.token)
    /\ q.in.token.iss \in AcceptedIssuers(q)
    /\ Cfg(q).policy \/ q.in.token.app = q.hostApp

CredentialRead(q) ==
  /\ ~Cfg(q).disableAuth => ~q.in.fcKey /\ (q.in.token # Nil => q.claims # Nil)
  /\ ClaimsEarned(q)

LegacyHeld(q) ==
  requiredPermission(Cfg(q), q.ep) # NoPerm => q.claims # Nil /\ AdminEarned(q)

OwnerPassed(q) ==
  q.ep.owner # Nil =>
    /\ q.claims # Nil
    /\ \/ AdminEarned(q)
       \/ extractOwner(q.ep, q.in) \in {numericUserID(q.in.token), q.in.token.sub} \ {NoId}

HeadersStamped(q) ==
  /\ q.hdr["apiKeyUid"] = Nil
  /\ q.claims = Nil => HeadersClean(q)
  /\ q.claims # Nil =>
       /\ q.hdr["user"] = numericUserID(q.in.token)
       /\ q.hdr["uid"] = q.in.token.sub
       /\ q.hdr["plan"] \in Plans
       /\ q.hdr["email"] # Nil =>
            q.in.token.emailVerified /\ q.hdr["email"] = q.in.token.email
       /\ q.hdr["session"] = Nil
       /\ q.hdr["admin"] = IF AdminEarned(q) THEN "true" ELSE Nil
       /\ q.hdr["roles"] # Nil => q.hdr["roles"] \subseteq (q.claims.roles \cup q.claims.qualified)

\* Past the owner gate of a registered route.
Passing(q) == q.pc = "rateLimit" \/ (Forwarded(q) /\ q.ep # Nil)

TrustInv(q) ==
  /\ DOMAIN q.hdr = HeaderNames
  /\ q.pc \in OnRoute => q.ep # Nil
  /\ q.pc = "legacyCredential" => q.target = q.hostApp
  /\ q.pc \in BeforeTarget => AppStamped(q, q.hostApp)
  /\ q.pc \in {"match", "matchHost"} \cup OnRoute \/ Forwarded(q) => AppStamped(q, q.target)
  /\ q.pc \in Unread \/ (Forwarded(q) /\ q.ep = Nil) => q.claims = Nil /\ HeadersClean(q)
  /\ q.pc \in CredentialDone => HeadersClean(q) /\ CredentialRead(q)
  /\ q.pc = "legacyIdentity" => LegacyHeld(q)
  /\ q.pc = "identity" /\ q.claims # Nil => q.pr = PrincipalRead(q)
  /\ Passing(q) =>
       /\ CredentialRead(q) /\ OwnerPassed(q) /\ HeadersStamped(q)
       /\ Cfg(q).policy \/ LegacyHeld(q)

TInv == \A r \in Requests : TrustInv(rq[r])

-----------------------------------------------------------------------------
(* Record updates                                                          *)

\* p differs from q at most in its stage, status, plan and log fields.
Carries(p, q) ==
  /\ DOMAIN p = RequestFields
  /\ p.in = q.in /\ p.hostApp = q.hostApp /\ p.target = q.target /\ p.ep = q.ep
  /\ p.claims = q.claims /\ p.pr = q.pr /\ p.hdr = q.hdr /\ p.polVer = q.polVer

\* Moving on changes the stage only.
LEMMA GotoCarries ==
  ASSUME NEW q, DOMAIN q = RequestFields, NEW pc
  PROVE  Carries(Goto(q, pc), q) /\ Goto(q, pc).pc = pc
  BY DEF Carries, Goto, RequestFields

\* Answering changes the stage, the status and the reason only.
LEMMA AnswerCarries ==
  ASSUME NEW q, DOMAIN q = RequestFields, NEW code, NEW reason
  PROVE  /\ Carries(Answer(q, code, reason), q)
         /\ Answer(q, code, reason).pc = "done" /\ Answer(q, code, reason).code = code
  BY DEF Carries, Answer, RequestFields

\* What the properties say of the token depends on these fields alone.
LEMMA CarriesSame ==
  ASSUME NEW p, NEW q, Carries(p, q)
  PROVE  /\ Cfg(p) = Cfg(q) /\ AcceptedIssuers(p) = AcceptedIssuers(q)
         /\ PrincipalRead(p) = PrincipalRead(q) /\ AdminEarned(p) = AdminEarned(q)
         /\ HeadersClean(p) = HeadersClean(q) /\ CredentialRead(p) = CredentialRead(q)
         /\ LegacyHeld(p) = LegacyHeld(q) /\ OwnerPassed(p) = OwnerPassed(q)
         /\ HeadersStamped(p) = HeadersStamped(q)
         /\ \A app : AppStamped(p, app) = AppStamped(q, app)
  <1>1. Cfg(p) = Cfg(q)
    BY DEF Carries, Cfg
  <1>2. AcceptedIssuers(p) = AcceptedIssuers(q) /\ PrincipalRead(p) = PrincipalRead(q)
    BY <1>1 DEF Carries, AcceptedIssuers, PrincipalRead
  <1>3. AdminEarned(p) = AdminEarned(q)
    BY <1>1, <1>2 DEF Carries, AdminEarned
  <1>4. HeadersClean(p) = HeadersClean(q) /\ \A app : AppStamped(p, app) = AppStamped(q, app)
    BY DEF Carries, HeadersClean, AppStamped
  <1>5. CredentialRead(p) = CredentialRead(q)
    BY <1>1, <1>2 DEF Carries, CredentialRead, ClaimsEarned
  <1>6. LegacyHeld(p) = LegacyHeld(q) /\ OwnerPassed(p) = OwnerPassed(q)
    BY <1>1, <1>3 DEF Carries, LegacyHeld, OwnerPassed
  <1>7. HeadersStamped(p) = HeadersStamped(q)
    BY <1>3, <1>4 DEF Carries, HeadersStamped
  <1> QED BY <1>1, <1>2, <1>3, <1>4, <1>5, <1>6, <1>7

\* A request answered by the gateway itself owes nothing.
LEMMA TrustDenied ==
  ASSUME NEW q, DOMAIN q = RequestFields, DOMAIN q.hdr = HeaderNames,
         NEW code, code # FORWARD, NEW reason
  PROVE  TrustInv(Answer(q, code, reason))
  <1>1. SUFFICES ASSUME NEW p, p = Answer(q, code, reason) PROVE TrustInv(p)
    OBVIOUS
  <1>2. p.pc = "done" /\ p.code = code /\ p.hdr = q.hdr
    BY <1>1, AnswerCarries DEF Carries
  <1> QED BY <1>2 DEF TrustInv, Passing, Forwarded, OnRoute, CredentialDone, BeforeTarget, Unread

\* The idle request.
LEMMA TrustIdle == TrustInv(Idle)
  BY DEF TrustInv, Idle, NoHeaders, Passing, Forwarded, OnRoute, CredentialDone, BeforeTarget, Unread

\* What a step of request r relies on.
LEMMA TrustFacts ==
  ASSUME GInv, TInv, NEW r \in Requests
  PROVE  /\ TrustInv(rq[r]) /\ ReqInv(rq[r]) /\ RequestTypeOK(rq[r])
         /\ DOMAIN rq[r] = RequestFields /\ DOMAIN rq = Requests
         /\ DOMAIN rq[r].hdr = HeaderNames
  <1>1. TrustInv(rq[r]) /\ DOMAIN rq[r].hdr = HeaderNames
    BY DEF TInv, TrustInv
  <1> QED BY <1>1, StepFacts DEF RequestTypeOK

-----------------------------------------------------------------------------
(* One lemma per step of a request                                         *)

\* A request enters with the gateway-owned headers stripped.
LEMMA ArriveTrust ==
  ASSUME GInv, TInv, NEW r \in Requests, Arrive(r)
  PROVE  TrustInv(rq'[r])
  <1>1. PICK in \in Inputs :
          Become(r, LET cfg == Config[in.mw]
                        q == [Idle EXCEPT !.in = in, !.hdr = in.headers]
                        entered == [q EXCEPT !.hdr = strip(@)]
                    IN IF cfg.cors /\ in.method = "OPTIONS" THEN Answer(q, 204, Nil)
                       ELSE IF cfg.mode # "disabled" THEN Goto(entered, "resolve")
                       ELSE Goto(entered, "checkLoaded"))
    BY DEF Arrive
  <1>2. SUFFICES ASSUME NEW q, q = [Idle EXCEPT !.in = in, !.hdr = in.headers],
                        NEW e, e = [q EXCEPT !.hdr = strip(q.hdr)]
                 PROVE  TrustInv(rq'[r])
    OBVIOUS
  <1>3. DOMAIN q = RequestFields /\ q.hdr = in.headers /\ DOMAIN q.hdr = HeaderNames
        /\ q.claims = Nil /\ q.hostApp = NoApp
    BY <1>2, HeadersAssumption DEF Idle, RequestFields
  <1>4. DOMAIN e = RequestFields /\ e.hdr = strip(q.hdr) /\ e.claims = Nil /\ e.hostApp = NoApp
    BY ONLY <1>2, <1>3 DEF RequestFields
  <1>5. DOMAIN e.hdr = HeaderNames /\ HeadersClean(e) /\ AppStamped(e, NoApp)
    BY <1>3, <1>4 DEF strip, HeadersClean, AppStamped, HeaderNames, TrustHeaders
  <1>6. \/ rq'[r] = Answer(q, 204, Nil)
        \/ \E pc \in {"resolve", "checkLoaded"} : rq'[r] = Goto(e, pc)
    BY <1>1, <1>2, TrustFacts, BecomeIs
  <1>7. CASE rq'[r] = Answer(q, 204, Nil)
    BY <1>3, <1>7, TrustDenied DEF FORWARD
  <1>8. ASSUME NEW pc \in {"resolve", "checkLoaded"}, NEW p, p = Goto(e, pc) PROVE TrustInv(p)
    <2>1. Carries(p, e) /\ p.pc = pc
      BY <1>4, <1>8, GotoCarries
    <2>2. HeadersClean(p) /\ AppStamped(p, NoApp)
      BY <1>5, <2>1, CarriesSame
    <2> QED BY <1>4, <1>5, <1>8, <2>1, <2>2
        DEF Carries, TrustInv, Passing, Forwarded, OnRoute, CredentialDone, BeforeTarget, Unread
  <1> QED BY <1>6, <1>7, <1>8

\* A request whose credential has not been read, its target still open.
LEMMA EarlyTrust ==
  ASSUME NEW p, p.pc \in BeforeTarget \cap Unread, DOMAIN p.hdr = HeaderNames,
         AppStamped(p, p.hostApp), p.claims = Nil, HeadersClean(p)
  PROVE  TrustInv(p)
  BY DEF TrustInv, Passing, Forwarded, OnRoute, CredentialDone, BeforeTarget, Unread

\* The application stamped is the one the host resolved to.
LEMMA ResolveHostTrust ==
  ASSUME GInv, TInv, NEW r \in Requests, ResolveHost(r)
  PROVE  TrustInv(rq'[r])
  <1>1. SUFFICES ASSUME NEW q, q = rq[r], NEW p, p = rq'[r] PROVE TrustInv(p)
    OBVIOUS
  <1>2. /\ DOMAIN q = RequestFields /\ DOMAIN q.hdr = HeaderNames /\ q.claims = Nil
        /\ HeadersClean(q) /\ AppStamped(q, q.hostApp)
    BY <1>1, TrustFacts DEF ResolveHost, TrustInv, Unread, BeforeTarget
  <1>3. PICK read, pc :
          /\ read = [q EXCEPT !.resVer = regVer] /\ pc \in {"checkLoaded", "coldStart"}
          /\ \/ p = Goto(read, pc)
             \/ \E app, found : /\ found = [read EXCEPT !.hostApp = app, !.hdr["app"] = app]
                                /\ p = Goto(found, pc)
    BY <1>1, TrustFacts, BecomeIs DEF ResolveHost
  <1>4. /\ DOMAIN read = RequestFields /\ read.hdr = q.hdr /\ read.claims = q.claims
        /\ read.hostApp = q.hostApp
    BY ONLY <1>2, <1>3 DEF RequestFields
  <1>5. \E e : /\ p = Goto(e, pc) /\ DOMAIN e = RequestFields /\ DOMAIN e.hdr = HeaderNames
               /\ e.claims = Nil /\ HeadersClean(e) /\ AppStamped(e, e.hostApp)
    <2>1. CASE p = Goto(read, pc)
      BY <2>1, <1>2, <1>4 DEF HeadersClean, AppStamped
    <2>2. ASSUME NEW app, NEW found, p = Goto(found, pc),
                 found = [read EXCEPT !.hostApp = app, !.hdr["app"] = app]
          PROVE  \E e : /\ p = Goto(e, pc) /\ DOMAIN e = RequestFields /\ DOMAIN e.hdr = HeaderNames
                        /\ e.claims = Nil /\ HeadersClean(e) /\ AppStamped(e, e.hostApp)
      <3>1. /\ DOMAIN found = RequestFields /\ found.claims = Nil /\ found.hostApp = app
            /\ found.hdr = [q.hdr EXCEPT !["app"] = app]
        BY ONLY <1>2, <1>4, <2>2 DEF RequestFields
      <3>2. DOMAIN found.hdr = HeaderNames /\ HeadersClean(found) /\ AppStamped(found, app)
        BY ONLY <1>2, <3>1 DEF HeadersClean, AppStamped, HeaderNames, TrustHeaders
      <3> QED BY <2>2, <3>1, <3>2
    <2> QED BY <1>3, <2>1, <2>2
  <1>6. PICK e : /\ p = Goto(e, pc) /\ DOMAIN e = RequestFields /\ DOMAIN e.hdr = HeaderNames
                 /\ e.claims = Nil /\ HeadersClean(e) /\ AppStamped(e, e.hostApp)
    BY <1>5
  <1>7. Carries(p, e) /\ p.pc = pc
    BY ONLY <1>6, GotoCarries
  <1>8. HeadersClean(p) /\ AppStamped(p, p.hostApp) /\ DOMAIN p.hdr = HeaderNames /\ p.claims = Nil
    BY <1>6, <1>7, CarriesSame DEF Carries
  <1>9. p.pc \in BeforeTarget \cap Unread
    BY <1>3, <1>7 DEF BeforeTarget, Unread
  <1> QED BY <1>8, <1>9, EarlyTrust

\* A request of an unknown host is answered by the gateway itself.
LEMMA ColdStartTrust ==
  ASSUME GInv, TInv, NEW r \in Requests, ColdStart(r)
  PROVE  TrustInv(rq'[r])
  <1>1. \E code \in {403, 503} : rq'[r] = Answer(rq[r], code, Nil)
    BY TrustFacts, BecomeIs DEF ColdStart
  <1> QED BY <1>1, TrustFacts, TrustDenied DEF FORWARD

\* The dispatch reads nothing of the token.
LEMMA CheckLoadedTrust ==
  ASSUME GInv, TInv, NEW r \in Requests, CheckLoaded(r)
  PROVE  TrustInv(rq'[r])
  <1>1. SUFFICES ASSUME NEW q, q = rq[r], NEW p, p = rq'[r] PROVE TrustInv(p)
    OBVIOUS
  <1>2. /\ DOMAIN q = RequestFields /\ DOMAIN q.hdr = HeaderNames /\ q.claims = Nil
        /\ HeadersClean(q) /\ AppStamped(q, q.hostApp)
    BY <1>1, TrustFacts DEF CheckLoaded, TrustInv, Unread, BeforeTarget
  <1>3. \/ p = Answer(q, 503, Nil)
        \/ \E pc \in {"iam", "target", "legacyMatch"} : p = Goto(q, pc)
    BY <1>1, TrustFacts, BecomeIs DEF CheckLoaded, handler
  <1>4. CASE p = Answer(q, 503, Nil)
    BY <1>2, <1>4, TrustDenied DEF FORWARD
  <1>5. CASE \E pc \in {"iam", "target", "legacyMatch"} : p = Goto(q, pc)
    <2>1. Carries(p, q) /\ p.pc \in {"iam", "target", "legacyMatch"}
      BY ONLY <1>2, <1>5, GotoCarries
    <2>2. HeadersClean(p) /\ AppStamped(p, p.hostApp) /\ DOMAIN p.hdr = HeaderNames /\ p.claims = Nil
      BY <1>2, <2>1, CarriesSame DEF Carries
    <2>3. p.pc \in BeforeTarget \cap Unread
      BY <2>1 DEF BeforeTarget, Unread
    <2> QED BY <2>2, <2>3, EarlyTrust
  <1> QED BY <1>3, <1>4, <1>5

\* Introspection stamps nothing and forwards nothing.
LEMMA IamTrust ==
  ASSUME NEW q, DOMAIN q.hdr = HeaderNames, AppStamped(q, q.hostApp),
         NEW e, DOMAIN e = RequestFields, e.hdr = q.hdr, e.hostApp = q.hostApp,
         NEW pc \in {"iamPrincipal", "iamApps"}
  PROVE  TrustInv(Goto(e, pc))
  <1>1. SUFFICES ASSUME NEW p, p = Goto(e, pc) PROVE TrustInv(p)
    OBVIOUS
  <1>2. p.pc \in {"iamPrincipal", "iamApps"} /\ p.hdr = q.hdr /\ p.hostApp = q.hostApp
    BY <1>1, GotoCarries DEF Carries
  <1>3. AppStamped(p, p.hostApp)
    BY <1>2 DEF AppStamped
  <1> QED BY <1>2, <1>3
      DEF TrustInv, Passing, Forwarded, OnRoute, CredentialDone, BeforeTarget, Unread

LEMMA IamCredentialTrust ==
  ASSUME GInv, TInv, NEW r \in Requests, IamCredential(r)
  PROVE  TrustInv(rq'[r])
  <1>1. SUFFICES ASSUME NEW q, q = rq[r], NEW p, p = rq'[r] PROVE TrustInv(p)
    OBVIOUS
  <1>2. DOMAIN q = RequestFields /\ DOMAIN q.hdr = HeaderNames /\ AppStamped(q, q.hostApp)
    BY <1>1, TrustFacts DEF IamCredential, TrustInv, BeforeTarget
  <1>3. \/ \E code \in {401, 405} : \E reason : p = Answer(q, code, reason)
        \/ \E claims, e : e = [q EXCEPT !.claims = claims] /\ p = Goto(e, "iamPrincipal")
    <2>1. CASE Become(r, Answer(q, 405, Nil))
      BY <1>1, <2>1, TrustFacts, BecomeIs
    <2>2. ASSUME NEW a,
                 Become(r, IF ~a.ok THEN Answer(q, 401, "issuer_rejected")
                           ELSE IF a.claims = Nil THEN Answer(q, 401, "no_token")
                           ELSE Goto([q EXCEPT !.claims = a.claims], "iamPrincipal"))
          PROVE  \/ \E code \in {401, 405} : \E reason : p = Answer(q, code, reason)
                 \/ \E claims, e : e = [q EXCEPT !.claims = claims] /\ p = Goto(e, "iamPrincipal")
      <3>1. p = IF ~a.ok THEN Answer(q, 401, "issuer_rejected")
                ELSE IF a.claims = Nil THEN Answer(q, 401, "no_token")
                ELSE Goto([q EXCEPT !.claims = a.claims], "iamPrincipal")
        BY <1>1, <2>2, TrustFacts, BecomeIs
      <3> QED BY <3>1
    <2>3. \/ Become(r, Answer(q, 405, Nil))
          \/ \E a : Become(r, IF ~a.ok THEN Answer(q, 401, "issuer_rejected")
                             ELSE IF a.claims = Nil THEN Answer(q, 401, "no_token")
                             ELSE Goto([q EXCEPT !.claims = a.claims], "iamPrincipal"))
      BY <1>1, Zenon DEF IamCredential
    <2> QED BY <2>1, <2>2, <2>3, Zenon
  <1>4. CASE \E code \in {401, 405} : \E reason : p = Answer(q, code, reason)
    BY <1>2, <1>4, TrustDenied DEF FORWARD
  <1>5. CASE \E claims, e : e = [q EXCEPT !.claims = claims] /\ p = Goto(e, "iamPrincipal")
    <2>1. PICK claims, e : e = [q EXCEPT !.claims = claims] /\ p = Goto(e, "iamPrincipal")
      BY <1>5
    <2>2. DOMAIN e = RequestFields /\ e.hdr = q.hdr /\ e.hostApp = q.hostApp
      BY <1>2, <2>1 DEF RequestFields
    <2> QED BY <1>2, <2>1, <2>2, IamTrust
  <1> QED BY <1>3, <1>4, <1>5

LEMMA IamPrincipalTrust ==
  ASSUME GInv, TInv, NEW r \in Requests, IamPrincipal(r)
  PROVE  TrustInv(rq'[r])
  <1>1. SUFFICES ASSUME NEW q, q = rq[r], NEW p, p = rq'[r] PROVE TrustInv(p)
    OBVIOUS
  <1>2. DOMAIN q = RequestFields /\ DOMAIN q.hdr = HeaderNames /\ AppStamped(q, q.hostApp)
    BY <1>1, TrustFacts DEF IamPrincipal, TrustInv, BeforeTarget
  <1>3. PICK e : e = [q EXCEPT !.pr = principalFor(q), !.polVer = snapVer] /\ p = Goto(e, "iamApps")
    BY <1>1, TrustFacts, BecomeIs DEF IamPrincipal
  <1>4. DOMAIN e = RequestFields /\ e.hdr = q.hdr /\ e.hostApp = q.hostApp
    BY <1>2, <1>3 DEF RequestFields
  <1> QED BY <1>2, <1>3, <1>4, IamTrust

LEMMA IamAppsTrust ==
  ASSUME GInv, TInv, NEW r \in Requests, IamApps(r)
  PROVE  TrustInv(rq'[r])
  <1>1. SUFFICES ASSUME NEW q, q = rq[r], NEW p, p = rq'[r] PROVE TrustInv(p)
    OBVIOUS
  <1>2. DOMAIN q = RequestFields /\ DOMAIN q.hdr = HeaderNames
    BY <1>1, TrustFacts
  <1>3. PICK e, perms : e = Answer(q, 200, Nil) /\ p = [e EXCEPT !.perms = perms]
    <2> DEFINE active == IF Cfg(q).mode # "disabled" THEN registry.active ELSE {}
               apps == IF active = {} THEN {q.hostApp} \ {NoApp} ELSE active
    <2>1. Become(r, [Answer(q, 200, Nil) EXCEPT !.perms = permissionsByApp(q.pr, apps)])
      BY <1>1 DEF IamApps
    <2> HIDE DEF apps
    <2>2. p = [Answer(q, 200, Nil) EXCEPT !.perms = permissionsByApp(q.pr, apps)]
      BY <1>1, <2>1, TrustFacts, BecomeIs
    <2> QED BY <2>2
  <1>4. DOMAIN e = RequestFields /\ e.hdr = q.hdr /\ e.pc = "done" /\ e.code = 200
    BY <1>2, <1>3, AnswerCarries DEF Carries
  <1>5. p.hdr = q.hdr /\ p.pc = "done" /\ p.code = 200
    BY <1>3, <1>4 DEF RequestFields
  <1> QED BY <1>2, <1>5
      DEF TrustInv, Passing, Forwarded, FORWARD, OnRoute, CredentialDone, BeforeTarget, Unread

\* A request whose credential has not been read, its target chosen; what is not
\* registered passes like that.
LEMMA UnreadTrust ==
  ASSUME NEW p, DOMAIN p.hdr = HeaderNames, AppStamped(p, p.target), p.claims = Nil, HeadersClean(p),
         \/ p.pc \in {"match", "matchHost"}
         \/ p.pc = "credential" /\ p.ep # Nil
         \/ p.pc = "legacyCredential" /\ p.ep # Nil /\ p.target = p.hostApp
         \/ Forwarded(p) /\ p.ep = Nil
  PROVE  TrustInv(p)
  BY DEF TrustInv, Passing, Forwarded, OnRoute, CredentialDone, BeforeTarget, Unread

\* The target chosen is the one stamped; without any, nothing was stamped yet.
LEMMA TargetAppTrust ==
  ASSUME GInv, TInv, NEW r \in Requests, TargetApp(r)
  PROVE  TrustInv(rq'[r])
  <1>1. SUFFICES ASSUME NEW q, q = rq[r], NEW p, p = rq'[r] PROVE TrustInv(p)
    OBVIOUS
  <1>2. /\ DOMAIN q = RequestFields /\ DOMAIN q.hdr = HeaderNames /\ q.claims = Nil
        /\ HeadersClean(q) /\ AppStamped(q, q.hostApp)
    BY <1>1, TrustFacts DEF TargetApp, TrustInv, Unread, BeforeTarget
  <1> DEFINE asked == q.in.requestedApp # NoApp /\ Cfg(q).mode # "disabled"
             t == IF asked THEN q.in.requestedApp ELSE q.hostApp
             c == [q EXCEPT !.target = t]
             e == [c EXCEPT !.hdr["app"] = t]
  <1>3. p = IF asked /\ t \notin registry.active THEN Answer(q, 403, "unknown_app")
            ELSE IF t = NoApp THEN Goto(c, "match") ELSE Goto(e, "match")
    BY <1>1, TrustFacts, BecomeIs DEF TargetApp
  <1>4. t = NoApp => q.hostApp = NoApp
    OBVIOUS
  <1> HIDE DEF asked, t
  <1>5. CASE p = Answer(q, 403, "unknown_app")
    BY <1>2, <1>5, TrustDenied DEF FORWARD
  <1>6. /\ DOMAIN c = RequestFields /\ c.hdr = q.hdr /\ c.claims = Nil /\ c.target = t
        /\ DOMAIN e = RequestFields /\ e.claims = Nil /\ e.target = t
        /\ e.hdr = [q.hdr EXCEPT !["app"] = t]
    BY ONLY <1>2 DEF RequestFields
  <1> HIDE DEF c, e
  <1>7. CASE t = NoApp /\ p = Goto(c, "match")
    <2>1. Carries(p, c) /\ p.pc = "match"
      BY ONLY <1>6, <1>7, GotoCarries
    <2>2. HeadersClean(c) /\ AppStamped(c, t)
      BY <1>2, <1>4, <1>6, <1>7 DEF HeadersClean, AppStamped
    <2>3. HeadersClean(p) /\ AppStamped(p, p.target) /\ DOMAIN p.hdr = HeaderNames /\ p.claims = Nil
      BY <1>2, <1>6, <2>1, <2>2, CarriesSame DEF Carries
    <2> QED BY <2>1, <2>3, UnreadTrust
  <1>8. CASE p = Goto(e, "match")
    <2>1. Carries(p, e) /\ p.pc = "match"
      BY ONLY <1>6, <1>8, GotoCarries
    <2>2. DOMAIN e.hdr = HeaderNames /\ HeadersClean(e) /\ AppStamped(e, t)
      BY ONLY <1>2, <1>6 DEF HeadersClean, AppStamped, HeaderNames, TrustHeaders
    <2>3. HeadersClean(p) /\ AppStamped(p, p.target) /\ DOMAIN p.hdr = HeaderNames /\ p.claims = Nil
      BY <1>6, <2>1, <2>2, CarriesSame DEF Carries
    <2> QED BY <2>1, <2>3, UnreadTrust
  <1> QED BY <1>3, <1>5, <1>7, <1>8

\* Only a registered route asks for a credential.
LEMMA MatchTargetTrust ==
  ASSUME GInv, TInv, NEW r \in Requests, MatchTarget(r)
  PROVE  TrustInv(rq'[r])
  <1>1. SUFFICES ASSUME NEW q, q = rq[r], NEW p, p = rq'[r] PROVE TrustInv(p)
    OBVIOUS
  <1>2. /\ DOMAIN q = RequestFields /\ DOMAIN q.hdr = HeaderNames /\ q.claims = Nil
        /\ HeadersClean(q) /\ AppStamped(q, q.target)
    BY <1>1, TrustFacts DEF MatchTarget, TrustInv, Unread
  <1> DEFINE hit == matchEndpoint(EndpointsAt(snapVer), q.target, q.in.method, q.in.path)
             e == [q EXCEPT !.ep = hit, !.epVer = snapVer]
  <1>3. p = IF hit # Nil THEN Goto(e, "credential")
            ELSE IF q.target # q.hostApp THEN Goto(e, "matchHost") ELSE Answer(e, FORWARD, Nil)
    BY <1>1, TrustFacts, BecomeIs DEF MatchTarget, forward
  <1> HIDE DEF hit
  <1>4. /\ DOMAIN e = RequestFields /\ e.hdr = q.hdr /\ e.claims = Nil /\ e.target = q.target
        /\ e.ep = hit
    BY ONLY <1>2 DEF RequestFields
  <1> HIDE DEF e
  <1>5. /\ Carries(p, e)
        /\ \/ p.pc = "credential" /\ hit # Nil
           \/ p.pc = "matchHost"
           \/ Forwarded(p) /\ hit = Nil
    BY ONLY <1>3, <1>4, GotoCarries, AnswerCarries DEF Forwarded
  <1>6. HeadersClean(p) /\ AppStamped(p, p.target) /\ DOMAIN p.hdr = HeaderNames /\ p.claims = Nil
        /\ p.ep = hit
    BY ONLY <1>2, <1>4, <1>5 DEF Carries, HeadersClean, AppStamped
  <1> QED BY <1>5, <1>6, UnreadTrust

\* What the second lookup lets through is registered nowhere and carries nothing.
LEMMA MatchHostTrust ==
  ASSUME GInv, TInv, NEW r \in Requests, MatchHost(r)
  PROVE  TrustInv(rq'[r])
  <1>1. SUFFICES ASSUME NEW q, q = rq[r], NEW p, p = rq'[r] PROVE TrustInv(p)
    OBVIOUS
  <1>2. /\ DOMAIN q = RequestFields /\ DOMAIN q.hdr = HeaderNames /\ q.claims = Nil
        /\ HeadersClean(q) /\ AppStamped(q, q.target) /\ q.ep = Nil
    BY <1>1, TrustFacts DEF MatchHost, TrustInv, Unread, ReqInv, PolicyInv
  <1> DEFINE e == [q EXCEPT !.hostVer = snapVer]
  <1>3. p = Answer(e, 403, "endpoint_not_exposed") \/ p = Answer(e, FORWARD, Nil)
    BY <1>1, TrustFacts, BecomeIs DEF MatchHost, forward
  <1>4. /\ DOMAIN e = RequestFields /\ e.hdr = q.hdr /\ e.claims = Nil /\ e.target = q.target
        /\ e.ep = Nil
    BY ONLY <1>2 DEF RequestFields
  <1> HIDE DEF e
  <1>5. CASE p = Answer(e, 403, "endpoint_not_exposed")
    BY <1>2, <1>4, <1>5, TrustDenied DEF FORWARD
  <1>6. CASE p = Answer(e, FORWARD, Nil)
    <2>1. Carries(p, e) /\ Forwarded(p)
      BY ONLY <1>4, <1>6, AnswerCarries DEF Forwarded
    <2>2. HeadersClean(p) /\ AppStamped(p, p.target) /\ DOMAIN p.hdr = HeaderNames /\ p.claims = Nil
          /\ p.ep = Nil
      BY ONLY <1>2, <1>4, <2>1 DEF Carries, HeadersClean, AppStamped
    <2> QED BY <2>1, <2>2, UnreadTrust
  <1> QED BY <1>3, <1>5, <1>6

\* The legacy engine serves under the application of the host.
LEMMA LegacyMatchTrust ==
  ASSUME GInv, TInv, NEW r \in Requests, LegacyMatch(r)
  PROVE  TrustInv(rq'[r])
  <1>1. SUFFICES ASSUME NEW q, q = rq[r], NEW p, p = rq'[r] PROVE TrustInv(p)
    OBVIOUS
  <1>2. /\ DOMAIN q = RequestFields /\ DOMAIN q.hdr = HeaderNames /\ q.claims = Nil
        /\ HeadersClean(q) /\ AppStamped(q, q.hostApp)
    BY <1>1, TrustFacts DEF LegacyMatch, TrustInv, Unread, BeforeTarget
  <1> DEFINE hit == matchEndpoint(EndpointsAt(snapVer), q.hostApp, q.in.method, q.in.path)
             e == [q EXCEPT !.target = q.hostApp, !.ep = hit, !.epVer = snapVer]
  <1>3. p = IF hit = Nil THEN Answer(e, FORWARD, Nil) ELSE Goto(e, "legacyCredential")
    BY <1>1, TrustFacts, BecomeIs DEF LegacyMatch, forward
  <1> HIDE DEF hit
  <1>4. /\ DOMAIN e = RequestFields /\ e.hdr = q.hdr /\ e.claims = Nil /\ e.target = q.hostApp
        /\ e.ep = hit /\ e.hostApp = q.hostApp
    BY ONLY <1>2 DEF RequestFields
  <1> HIDE DEF e
  <1>5. /\ Carries(p, e)
        /\ \/ p.pc = "legacyCredential" /\ hit # Nil
           \/ Forwarded(p) /\ hit = Nil
    BY ONLY <1>3, <1>4, GotoCarries, AnswerCarries DEF Forwarded
  <1>6. HeadersClean(p) /\ AppStamped(p, p.target) /\ DOMAIN p.hdr = HeaderNames /\ p.claims = Nil
        /\ p.ep = hit /\ p.target = p.hostApp
    BY ONLY <1>2, <1>4, <1>5 DEF Carries, HeadersClean, AppStamped
  <1> QED BY <1>5, <1>6, UnreadTrust

\* A request on a registered route, its credential read.
LEMMA GatedTrust ==
  ASSUME NEW p, p.pc \in CredentialDone, p.ep # Nil, DOMAIN p.hdr = HeaderNames,
         AppStamped(p, p.target), HeadersClean(p), CredentialRead(p),
         p.pc = "legacyIdentity" => LegacyHeld(p),
         p.pc = "identity" /\ p.claims # Nil => p.pr = PrincipalRead(p)
  PROVE  TrustInv(p)
  BY DEF TrustInv, Passing, Forwarded, OnRoute, CredentialDone, BeforeTarget, Unread

\* What authenticate returns without an error: no claims for want of a token, or
\* the claims of a valid token of one of the two realms.
LEMMA AuthenticateEarned ==
  ASSUME NEW cfg, NEW app, NEW tok, NEW a \in authenticate(cfg, app, tok), a.ok
  PROVE  \/ (tok = Nil \/ cfg.disableAuth) /\ a.claims = Nil
         \/ /\ tok # Nil /\ ~cfg.disableAuth /\ a.claims = claimsOf(cfg, tok)
            /\ tok.valid /\ tok.iss \in {keycloakRealmFor(cfg, app), cfg.operator}
  <1> DEFINE claims == claimsOf(cfg, tok)
  <1>1. CASE tok = Nil \/ cfg.disableAuth
    BY <1>1 DEF authenticate
  <1>2. CASE ~(tok = Nil \/ cfg.disableAuth)
    <2>1. ~[ok |-> FALSE, claims |-> Nil].ok
      OBVIOUS
    <2>2. /\ a = [ok |-> TRUE, claims |-> claims]
          /\ tok.iss \in {keycloakRealmFor(cfg, app), cfg.operator} /\ validates(tok, tok.iss)
      BY <1>2, <2>1 DEF authenticate
    <2> HIDE DEF claims
    <2>3. a.claims = claims
      BY <2>2
    <2> QED BY <1>2, <2>2, <2>3 DEF validates, claims
  <1> QED BY <1>1, <1>2

\* The policy engine accepts no credential but a token of the target's realm or
\* the operator's, and ignores none.
LEMMA CredentialTrust ==
  ASSUME GInv, TInv, NEW r \in Requests, Credential(r)
  PROVE  TrustInv(rq'[r])
  <1>1. SUFFICES ASSUME NEW q, q = rq[r], NEW p, p = rq'[r] PROVE TrustInv(p)
    OBVIOUS
  <1>2. /\ DOMAIN q = RequestFields /\ DOMAIN q.hdr = HeaderNames /\ HeadersClean(q)
        /\ AppStamped(q, q.target) /\ q.ep # Nil /\ Cfg(q).policy
        /\ q.in \in Inputs
    BY <1>1, TrustFacts
    DEF Credential, TrustInv, Unread, OnRoute, ReqInv, PolicyInv, RequestTypeOK
  <1>3. \/ p = Answer(q, 401, "issuer_rejected")
        \/ /\ ~hasLegacyAPIKey(q)
           /\ \E a \in authenticate(Cfg(q), q.target, q.in.token) :
                a.ok /\ p = Goto([q EXCEPT !.claims = a.claims], "principal")
    BY <1>1, StepFacts DEF Credential, Become
  <1>4. CASE p = Answer(q, 401, "issuer_rejected")
    BY <1>2, <1>4, TrustDenied DEF FORWARD
  <1>5. CASE /\ ~hasLegacyAPIKey(q)
             /\ \E a \in authenticate(Cfg(q), q.target, q.in.token) :
                  a.ok /\ p = Goto([q EXCEPT !.claims = a.claims], "principal")
    <2>1. PICK a \in authenticate(Cfg(q), q.target, q.in.token) :
            a.ok /\ p = Goto([q EXCEPT !.claims = a.claims], "principal")
      BY <1>5
    <2> DEFINE e == [q EXCEPT !.claims = a.claims]
    <2>2. /\ DOMAIN e = RequestFields /\ e.in = q.in /\ e.hostApp = q.hostApp /\ e.target = q.target
          /\ e.ep = q.ep /\ e.hdr = q.hdr /\ e.claims = a.claims
      BY ONLY <1>2 DEF RequestFields
    <2>3. p = Goto(e, "principal")
      BY <2>1
    <2> HIDE DEF e
    <2>4. Carries(p, e) /\ p.pc = "principal"
      BY ONLY <2>2, <2>3, GotoCarries
    <2>5. /\ Cfg(e) = Cfg(q)
          /\ AcceptedIssuers(e) = {keycloakRealmFor(Cfg(q), q.target), Cfg(q).operator}
      BY <1>2, <2>2 DEF Cfg, AcceptedIssuers
    <2>6. \/ (q.in.token = Nil \/ Cfg(q).disableAuth) /\ a.claims = Nil
          \/ /\ q.in.token # Nil /\ ~Cfg(q).disableAuth /\ a.claims = claimsOf(Cfg(q), q.in.token)
             /\ q.in.token.valid
             /\ q.in.token.iss \in {keycloakRealmFor(Cfg(q), q.target), Cfg(q).operator}
      BY <2>1, AuthenticateEarned
    <2>7. q.in.token # Nil => claimsOf(Cfg(q), q.in.token) # Nil
      BY <1>2, ClaimsAssumption DEF Cfg
    <2>8. CredentialRead(e)
      BY <1>2, <1>5, <2>2, <2>5, <2>6, <2>7 DEF CredentialRead, ClaimsEarned, hasLegacyAPIKey
    <2>9. CredentialRead(p) /\ HeadersClean(p) /\ AppStamped(p, p.target)
          /\ DOMAIN p.hdr = HeaderNames /\ p.ep # Nil
      BY <1>2, <2>2, <2>4, <2>8, CarriesSame DEF Carries, HeadersClean, AppStamped
    <2> QED BY <2>4, <2>9, GatedTrust DEF CredentialDone
  <1> QED BY <1>3, <1>4, <1>5

\* The legacy engine accepts a token of the host's realm issued for the host's
\* application, and ignores no credential.
LEMMA LegacyCredentialTrust ==
  ASSUME GInv, TInv, NEW r \in Requests, LegacyCredential(r)
  PROVE  TrustInv(rq'[r])
  <1>1. SUFFICES ASSUME NEW q, q = rq[r], NEW p, p = rq'[r] PROVE TrustInv(p)
    OBVIOUS
  <1>2. /\ DOMAIN q = RequestFields /\ DOMAIN q.hdr = HeaderNames /\ HeadersClean(q)
        /\ AppStamped(q, q.target) /\ q.ep # Nil /\ q.in \in Inputs
        /\ q.target = q.hostApp /\ q.claims = Nil
    BY <1>1, TrustFacts
    DEF LegacyCredential, TrustInv, Unread, OnRoute, RequestTypeOK
  <1> DEFINE e == [q EXCEPT !.claims = claimsOf(Cfg(q), q.in.token)]
  <1>3. \/ p = Answer(q, 401, "issuer_rejected")
        \/ /\ ~hasLegacyAPIKey(q) /\ (q.in.token = Nil \/ Cfg(q).disableAuth)
           /\ p = Goto(q, "legacyAuthorize")
        \/ /\ ~hasLegacyAPIKey(q) /\ q.in.token # Nil
           /\ validates(q.in.token, keycloakRealmFor(Cfg(q), q.hostApp))
           /\ q.in.token.app = q.hostApp /\ p = Goto(e, "legacyAuthorize")
    BY <1>1, StepFacts, BecomeIs DEF LegacyCredential
  <1>4. /\ DOMAIN e = RequestFields /\ e.in = q.in /\ e.hostApp = q.hostApp /\ e.target = q.target
        /\ e.ep = q.ep /\ e.hdr = q.hdr /\ e.claims = claimsOf(Cfg(q), q.in.token)
    BY ONLY <1>2 DEF RequestFields
  <1> HIDE DEF e
  <1>5. CASE p = Answer(q, 401, "issuer_rejected")
    BY <1>2, <1>5, TrustDenied DEF FORWARD
  <1>6. CASE /\ ~hasLegacyAPIKey(q) /\ (q.in.token = Nil \/ Cfg(q).disableAuth)
             /\ p = Goto(q, "legacyAuthorize")
    <2>1. Carries(p, q) /\ p.pc = "legacyAuthorize"
      BY ONLY <1>2, <1>6, GotoCarries
    <2>2. CredentialRead(q)
      BY <1>2, <1>6 DEF CredentialRead, ClaimsEarned, hasLegacyAPIKey
    <2>3. CredentialRead(p) /\ HeadersClean(p) /\ AppStamped(p, p.target)
          /\ DOMAIN p.hdr = HeaderNames /\ p.ep # Nil
      BY <1>2, <2>1, <2>2, CarriesSame DEF Carries
    <2> QED BY <2>1, <2>3, GatedTrust DEF CredentialDone
  <1>7. CASE /\ ~hasLegacyAPIKey(q) /\ q.in.token # Nil
             /\ validates(q.in.token, keycloakRealmFor(Cfg(q), q.hostApp))
             /\ q.in.token.app = q.hostApp /\ p = Goto(e, "legacyAuthorize")
    <2>1. Carries(p, e) /\ p.pc = "legacyAuthorize"
      BY ONLY <1>4, <1>7, GotoCarries
    <2>2. Cfg(e) = Cfg(q) /\ keycloakRealmFor(Cfg(q), q.hostApp) \in AcceptedIssuers(e)
      BY <1>2, <1>4 DEF Cfg, AcceptedIssuers
    <2>3. claimsOf(Cfg(q), q.in.token) # Nil
      BY <1>2, <1>7, ClaimsAssumption DEF Cfg
    <2>4. CredentialRead(e)
      BY <1>4, <1>7, <2>2, <2>3 DEF CredentialRead, ClaimsEarned, hasLegacyAPIKey, validates
    <2>5. CredentialRead(p) /\ HeadersClean(p) /\ AppStamped(p, p.target)
          /\ DOMAIN p.hdr = HeaderNames /\ p.ep # Nil
      BY <1>2, <1>4, <2>1, <2>4, CarriesSame DEF Carries, HeadersClean, AppStamped
    <2> QED BY <2>1, <2>5, GatedTrust DEF CredentialDone
  <1> QED BY <1>3, <1>5, <1>6, <1>7

\* What a request past its credential owes does not depend on the principal.
LEMMA SameCredential ==
  ASSUME NEW e, NEW q, e.in = q.in, e.hostApp = q.hostApp, e.target = q.target, e.claims = q.claims
  PROVE  Cfg(e) = Cfg(q) /\ AcceptedIssuers(e) = AcceptedIssuers(q)
         /\ CredentialRead(e) = CredentialRead(q)
  <1>1. Cfg(e) = Cfg(q)
    BY DEF Cfg
  <1>2. AcceptedIssuers(e) = AcceptedIssuers(q)
    BY <1>1 DEF AcceptedIssuers
  <1> QED BY <1>1, <1>2 DEF CredentialRead, ClaimsEarned

\* The principal is the one of the policies whose version is remembered.
LEMMA PrincipalTrust ==
  ASSUME GInv, TInv, NEW r \in Requests, Principal(r)
  PROVE  TrustInv(rq'[r])
  <1>1. SUFFICES ASSUME NEW q, q = rq[r], NEW p, p = rq'[r] PROVE TrustInv(p)
    OBVIOUS
  <1>2. /\ DOMAIN q = RequestFields /\ DOMAIN q.hdr = HeaderNames /\ HeadersClean(q)
        /\ AppStamped(q, q.target) /\ q.ep # Nil /\ CredentialRead(q)
    BY <1>1, TrustFacts DEF Principal, TrustInv, OnRoute, CredentialDone
  <1> DEFINE pr == principalFor(q)
             e == [q EXCEPT !.pr = pr, !.polVer = snapVer]
  <1>3. \/ \E code \in {401, 403} : \E reason : p = Answer(e, code, reason)
        \/ p = Goto(e, "identity")
    BY <1>1, TrustFacts, BecomeIs DEF Principal
  <1> HIDE DEF pr
  <1>4. /\ DOMAIN e = RequestFields /\ e.in = q.in /\ e.hostApp = q.hostApp /\ e.target = q.target
        /\ e.ep = q.ep /\ e.hdr = q.hdr /\ e.claims = q.claims /\ e.pr = pr /\ e.polVer = snapVer
    BY ONLY <1>2 DEF RequestFields
  <1> HIDE DEF e
  <1>5. CASE \E code \in {401, 403} : \E reason : p = Answer(e, code, reason)
    BY <1>2, <1>4, <1>5, TrustDenied DEF FORWARD
  <1>6. CASE p = Goto(e, "identity")
    <2>1. Carries(p, e) /\ p.pc = "identity"
      BY ONLY <1>4, <1>6, GotoCarries
    <2>2. CredentialRead(e) /\ (e.claims # Nil => e.pr = PrincipalRead(e))
      BY <1>2, <1>4, SameCredential DEF pr, principalFor, PrincipalRead
    <2>3. /\ CredentialRead(p) /\ HeadersClean(p) /\ AppStamped(p, p.target)
          /\ DOMAIN p.hdr = HeaderNames /\ p.ep # Nil
          /\ p.claims # Nil => p.pr = PrincipalRead(p)
      BY <1>2, <1>4, <2>1, <2>2, CarriesSame DEF Carries, HeadersClean, AppStamped
    <2> QED BY <2>1, <2>3, GatedTrust DEF CredentialDone
  <1> QED BY <1>3, <1>5, <1>6

\* Under the legacy engine the admin flag of earned claims is an admin role.
LEMMA LegacyAdmin ==
  ASSUME NEW q, ~Cfg(q).policy, CredentialRead(q), q.claims # Nil
  PROVE  q.claims.admin = AdminEarned(q)
  <1>1. q.claims = claimsOf(Cfg(q), q.in.token)
    BY DEF CredentialRead, ClaimsEarned
  <1>2. claimsOf(Cfg(q), q.in.token).admin
          = (keycloakRoles(q.in.token) \cap Cfg(q).adminRoles # {})
    BY Zenon DEF claimsOf
  <1>3. AdminEarned(q) = (keycloakRoles(q.in.token) \cap Cfg(q).adminRoles # {})
    BY Zenon DEF AdminEarned
  <1> QED BY <1>1, <1>2, <1>3, Zenon

\* The legacy engine lets a gated route be reached by admins only.
LEMMA LegacyAuthorizeTrust ==
  ASSUME GInv, TInv, NEW r \in Requests, LegacyAuthorize(r)
  PROVE  TrustInv(rq'[r])
  <1>1. SUFFICES ASSUME NEW q, q = rq[r], NEW p, p = rq'[r] PROVE TrustInv(p)
    OBVIOUS
  <1>2. /\ DOMAIN q = RequestFields /\ DOMAIN q.hdr = HeaderNames /\ HeadersClean(q)
        /\ AppStamped(q, q.target) /\ q.ep # Nil /\ CredentialRead(q) /\ ~Cfg(q).policy
    BY <1>1, TrustFacts
    DEF LegacyAuthorize, TrustInv, OnRoute, CredentialDone, ReqInv, PolicyInv
  <1> DEFINE shadow == shadowVerdict(q)
             e == [q EXCEPT !.shadow = shadow, !.polVer = snapVer]
             required == requiredPermission(Cfg(q), q.ep)
  <1>3. p = IF required = NoPerm THEN Goto(e, "legacyIdentity")
            ELSE IF q.claims = Nil THEN Answer(e, 401, "no_token")
            ELSE IF q.claims.admin THEN Goto(e, "legacyIdentity")
            ELSE Answer(e, 403, "no_matching_statement")
    BY <1>1, TrustFacts, BecomeIs DEF LegacyAuthorize
  <1> HIDE DEF shadow
  <1>4. /\ DOMAIN e = RequestFields /\ e.in = q.in /\ e.hostApp = q.hostApp /\ e.target = q.target
        /\ e.ep = q.ep /\ e.hdr = q.hdr /\ e.claims = q.claims
    BY ONLY <1>2 DEF RequestFields
  <1> HIDE DEF e, required
  <1>5. \/ \E code \in {401, 403} : \E reason : p = Answer(e, code, reason)
        \/ /\ p = Goto(e, "legacyIdentity")
           /\ required # NoPerm => q.claims # Nil /\ q.claims.admin = TRUE
    <2>1. CASE required = NoPerm
      BY ONLY <1>3, <2>1
    <2>2. CASE required # NoPerm /\ q.claims = Nil
      BY ONLY <1>3, <2>2
    <2>3. CASE required # NoPerm /\ q.claims # Nil /\ q.claims.admin
      <3>1. q.claims.admin = AdminEarned(q) /\ AdminEarned(q) \in BOOLEAN
        BY <1>2, <2>3, LegacyAdmin DEF AdminEarned
      <3>2. q.claims.admin = TRUE
        BY <2>3, <3>1
      <3> QED BY ONLY <1>3, <2>3, <3>2
    <2>4. CASE required # NoPerm /\ q.claims # Nil /\ ~q.claims.admin
      BY ONLY <1>3, <2>4
    <2> QED BY <2>1, <2>2, <2>3, <2>4
  <1>6. CASE \E code \in {401, 403} : \E reason : p = Answer(e, code, reason)
    BY <1>2, <1>4, <1>6, TrustDenied DEF FORWARD
  <1>7. CASE /\ p = Goto(e, "legacyIdentity")
             /\ required # NoPerm => q.claims # Nil /\ q.claims.admin = TRUE
    <2>1. Carries(p, e) /\ p.pc = "legacyIdentity"
      BY ONLY <1>4, <1>7, GotoCarries
    <2>2. Cfg(e) = Cfg(q) /\ CredentialRead(e)
      BY <1>2, <1>4, SameCredential
    <2>3. LegacyHeld(e)
      <3>1. ASSUME required # NoPerm PROVE e.claims # Nil /\ AdminEarned(e)
        <4>1. e.claims # Nil /\ e.claims.admin = TRUE
          BY <1>4, <1>7, <3>1
        <4>2. e.claims.admin = AdminEarned(e)
          BY <1>2, <2>2, <4>1, LegacyAdmin
        <4> QED BY <4>1, <4>2
      <3> QED BY <1>4, <2>2, <3>1 DEF LegacyHeld, required
    <2>4. CredentialRead(p) /\ HeadersClean(p) /\ AppStamped(p, p.target)
          /\ DOMAIN p.hdr = HeaderNames /\ p.ep # Nil /\ LegacyHeld(p)
      BY <1>2, <1>4, <2>1, <2>2, <2>3, CarriesSame DEF Carries, HeadersClean, AppStamped
    <2> QED BY <2>1, <2>4, GatedTrust DEF CredentialDone
  <1> QED BY <1>5, <1>6, <1>7

\* A request past the owner gate.
LEMMA PassTrust ==
  ASSUME NEW p, p.pc = "rateLimit" \/ Forwarded(p), p.ep # Nil, DOMAIN p.hdr = HeaderNames,
         AppStamped(p, p.target), CredentialRead(p), OwnerPassed(p), HeadersStamped(p),
         Cfg(p).policy \/ LegacyHeld(p)
  PROVE  TrustInv(p)
  BY DEF TrustInv, Forwarded, OnRoute, CredentialDone, BeforeTarget, Unread

\* Stamping writes the identity of the claims and nothing else.
LEMMA StampEarned ==
  ASSUME NEW q, DOMAIN q = RequestFields, DOMAIN q.hdr = HeaderNames, HeadersClean(q),
         AppStamped(q, q.target), CredentialRead(q), q.claims # Nil,
         NEW plan \in Plans, NEW admin \in BOOLEAN, admin = AdminEarned(q),
         NEW roles \in SUBSET (q.claims.roles \cup q.claims.qualified),
         NEW e, e = stampIdentity(q, plan, admin, roles)
  PROVE  /\ DOMAIN e = RequestFields /\ DOMAIN e.hdr = HeaderNames
         /\ e.in = q.in /\ e.hostApp = q.hostApp /\ e.target = q.target /\ e.ep = q.ep
         /\ e.claims = q.claims /\ e.polVer = q.polVer
         /\ AppStamped(e, e.target) /\ HeadersStamped(e)
         /\ e.hdr["admin"] = IF admin THEN "true" ELSE Nil
  <1> DEFINE h == [q.hdr EXCEPT
                     !["user"] = q.claims.user,
                     !["plan"] = plan,
                     !["uid"] = q.claims.sub,
                     !["email"] = IF q.claims.email # NoId THEN q.claims.email ELSE @,
                     !["roles"] = IF roles # {} THEN roles ELSE @,
                     !["admin"] = IF admin THEN "true" ELSE @,
                     !["session"] = Nil]
  <1>1. e = [q EXCEPT !.plan = plan, !.hdr = h]
    BY DEF stampIdentity
  <1>2. /\ DOMAIN h = HeaderNames /\ h["app"] = q.hdr["app"] /\ h["apiKeyUid"] = q.hdr["apiKeyUid"]
        /\ h["user"] = q.claims.user /\ h["plan"] = plan /\ h["uid"] = q.claims.sub
        /\ h["email"] = IF q.claims.email # NoId THEN q.claims.email ELSE q.hdr["email"]
        /\ h["roles"] = IF roles # {} THEN roles ELSE q.hdr["roles"]
        /\ h["admin"] = IF admin THEN "true" ELSE q.hdr["admin"]
        /\ h["session"] = Nil
    BY DEF HeaderNames, TrustHeaders
  <1> HIDE DEF h
  <1>3. /\ DOMAIN e = RequestFields /\ e.hdr = h
        /\ e.in = q.in /\ e.hostApp = q.hostApp /\ e.target = q.target /\ e.ep = q.ep
        /\ e.claims = q.claims /\ e.polVer = q.polVer
    BY <1>1 DEF RequestFields
  <1>4. /\ q.claims.user = numericUserID(q.in.token) /\ q.claims.sub = q.in.token.sub
        /\ q.claims.email # NoId =>
             q.in.token.emailVerified /\ q.claims.email = q.in.token.email
    BY DEF CredentialRead, ClaimsEarned, claimsOf
  <1>5. q.hdr["apiKeyUid"] = Nil /\ q.hdr["email"] = Nil /\ q.hdr["roles"] = Nil /\ q.hdr["admin"] = Nil
    BY DEF HeadersClean, TrustHeaders
  <1>6. AdminEarned(e) = AdminEarned(q)
    BY <1>3 DEF AdminEarned, PrincipalRead, Cfg
  <1>7. AppStamped(e, e.target)
    BY <1>2, <1>3 DEF AppStamped
  <1>8. HeadersStamped(e)
    BY <1>2, <1>3, <1>4, <1>5, <1>6 DEF HeadersStamped
  <1> QED BY <1>2, <1>3, <1>5, <1>7, <1>8

\* An owner matched by the claims is an owner of the token.
LEMMA OwnerEarned ==
  ASSUME NEW q, CredentialRead(q), q.claims # Nil,
         ownerMatches(extractOwner(q.ep, q.in), q.claims)
  PROVE  extractOwner(q.ep, q.in) \in {numericUserID(q.in.token), q.in.token.sub} \ {NoId}
  <1>1. q.claims.user = numericUserID(q.in.token) /\ q.claims.sub = q.in.token.sub
    BY DEF CredentialRead, ClaimsEarned, claimsOf
  <1> QED BY <1>1 DEF ownerMatches

\* A request without claims passes the owner gate where there is none, and
\* carries no identity.
LEMMA AnonymousPass ==
  ASSUME NEW q, DOMAIN q = RequestFields, DOMAIN q.hdr = HeaderNames, HeadersClean(q),
         AppStamped(q, q.target), q.ep # Nil, CredentialRead(q), q.claims = Nil, q.ep.owner = Nil,
         Cfg(q).policy \/ LegacyHeld(q), NEW plan
  PROVE  TrustInv(Goto([q EXCEPT !.plan = plan], "rateLimit"))
  <1> DEFINE e == [q EXCEPT !.plan = plan]
  <1>1. SUFFICES ASSUME NEW p, p = Goto(e, "rateLimit") PROVE TrustInv(p)
    OBVIOUS
  <1>2. /\ DOMAIN e = RequestFields /\ e.in = q.in /\ e.hostApp = q.hostApp /\ e.target = q.target
        /\ e.ep = q.ep /\ e.hdr = q.hdr /\ e.claims = q.claims /\ e.polVer = q.polVer /\ e.pr = q.pr
    BY DEF RequestFields
  <1> HIDE DEF e
  <1>3. Carries(p, e) /\ p.pc = "rateLimit"
    BY ONLY <1>1, <1>2, GotoCarries
  <1>4. Carries(p, q)
    BY ONLY <1>2, <1>3 DEF Carries
  <1>5. HeadersStamped(q) /\ OwnerPassed(q)
    BY DEF HeadersStamped, HeadersClean, OwnerPassed, TrustHeaders
  <1>6. /\ CredentialRead(p) /\ OwnerPassed(p) /\ HeadersStamped(p) /\ AppStamped(p, p.target)
        /\ DOMAIN p.hdr = HeaderNames /\ p.ep # Nil
        /\ Cfg(p).policy \/ LegacyHeld(p)
    BY <1>4, <1>5, CarriesSame DEF Carries
  <1> QED BY <1>3, <1>6, PassTrust

\* A stamped request passes the owner gate as an admin or as the owner.
LEMMA StampedPass ==
  ASSUME NEW q, DOMAIN q = RequestFields, DOMAIN q.hdr = HeaderNames, HeadersClean(q),
         AppStamped(q, q.target), q.ep # Nil, CredentialRead(q), q.claims # Nil,
         Cfg(q).policy \/ LegacyHeld(q),
         NEW plan \in Plans, NEW admin \in BOOLEAN, admin = AdminEarned(q),
         NEW roles \in SUBSET (q.claims.roles \cup q.claims.qualified),
         q.ep.owner = Nil \/ admin \/ ownerMatches(extractOwner(q.ep, q.in), q.claims),
         NEW p, p \in {Goto(stampIdentity(q, plan, admin, roles), "rateLimit"),
                       Answer(stampIdentity(q, plan, admin, roles), FORWARD, Nil)}
  PROVE  TrustInv(p)
  <1> DEFINE e == stampIdentity(q, plan, admin, roles)
  <1>1. p = Goto(e, "rateLimit") \/ p = Answer(e, FORWARD, Nil)
    OBVIOUS
  <1> HIDE DEF e
  <1>2. /\ DOMAIN e = RequestFields /\ DOMAIN e.hdr = HeaderNames
        /\ e.in = q.in /\ e.hostApp = q.hostApp /\ e.target = q.target /\ e.ep = q.ep
        /\ e.claims = q.claims /\ e.polVer = q.polVer
        /\ AppStamped(e, e.target) /\ HeadersStamped(e)
    <2>1. e = stampIdentity(q, plan, admin, roles)
      BY DEF e
    <2> QED BY <2>1, StampEarned
  <1>3. Carries(p, e) /\ (p.pc = "rateLimit" \/ Forwarded(p))
    BY ONLY <1>1, <1>2, GotoCarries, AnswerCarries DEF Forwarded
  <1>4. Cfg(e) = Cfg(q) /\ CredentialRead(e) /\ AdminEarned(e) = AdminEarned(q)
    <2>1. Cfg(e) = Cfg(q) /\ CredentialRead(e)
      BY <1>2, SameCredential
    <2> QED BY <2>1, <1>2 DEF AdminEarned, PrincipalRead
  <1>5. OwnerPassed(e)
    BY <1>2, <1>4, OwnerEarned DEF OwnerPassed
  <1>6. Cfg(e).policy \/ LegacyHeld(e)
    BY <1>2, <1>4 DEF LegacyHeld
  <1>7. /\ CredentialRead(p) /\ OwnerPassed(p) /\ HeadersStamped(p) /\ AppStamped(p, p.target)
        /\ DOMAIN p.hdr = HeaderNames /\ p.ep # Nil
        /\ Cfg(p).policy \/ LegacyHeld(p)
    BY <1>2, <1>3, <1>4, <1>5, <1>6, CarriesSame DEF Carries
  <1> QED BY <1>3, <1>7, PassTrust

\* The policy engine: admin standing is "*" on the target.
LEMMA IdentityTrust ==
  ASSUME GInv, TInv, NEW r \in Requests, Identity(r)
  PROVE  TrustInv(rq'[r])
  <1>1. SUFFICES ASSUME NEW q, q = rq[r], NEW p, p = rq'[r] PROVE TrustInv(p)
    OBVIOUS
  <1>2. /\ DOMAIN q = RequestFields /\ DOMAIN q.hdr = HeaderNames /\ HeadersClean(q)
        /\ AppStamped(q, q.target) /\ q.ep # Nil /\ CredentialRead(q) /\ Cfg(q).policy
        /\ q.claims # Nil => q.pr = PrincipalRead(q)
    BY <1>1, TrustFacts
    DEF Identity, TrustInv, OnRoute, CredentialDone, ReqInv, PolicyInv
  <1> DEFINE wildcard == isWildcard(q.pr, q.target)
             roles == q.pr.boundRoles
  <1>3. \/ /\ q.claims = Nil
           /\ p = IF q.ep.owner # Nil THEN Answer(q, 401, "no_token")
                  ELSE Goto([q EXCEPT !.plan = Cfg(q).defaultPlan], "rateLimit")
        \/ /\ q.claims # Nil
           /\ \E plan \in Plans :
                p = IF q.ep.owner # Nil /\ ~wildcard /\ ~ownerMatches(extractOwner(q.ep, q.in), q.claims)
                    THEN Answer(stampIdentity(q, plan, wildcard, roles), 403, "owner_mismatch")
                    ELSE IF wildcard THEN Answer(stampIdentity(q, plan, wildcard, roles), FORWARD, Nil)
                    ELSE Goto(stampIdentity(q, plan, wildcard, roles), "rateLimit")
    BY <1>1, StepFacts, BecomeIs DEF Identity, forward
  <1>4. CASE q.claims = Nil
    <2>1. CASE q.ep.owner # Nil
      BY <1>2, <1>3, <1>4, <2>1, TrustDenied DEF FORWARD
    <2>2. CASE q.ep.owner = Nil
      BY <1>2, <1>3, <1>4, <2>2, AnonymousPass
    <2> QED BY <2>1, <2>2
  <1>5. CASE q.claims # Nil
    <2>1. PICK plan \in Plans :
            p = IF q.ep.owner # Nil /\ ~wildcard /\ ~ownerMatches(extractOwner(q.ep, q.in), q.claims)
                THEN Answer(stampIdentity(q, plan, wildcard, roles), 403, "owner_mismatch")
                ELSE IF wildcard THEN Answer(stampIdentity(q, plan, wildcard, roles), FORWARD, Nil)
                ELSE Goto(stampIdentity(q, plan, wildcard, roles), "rateLimit")
      BY <1>3, <1>5
    <2>2. wildcard \in BOOLEAN /\ wildcard = AdminEarned(q)
      <3>1. AdminEarned(q) = isWildcard(PrincipalRead(q), q.target)
        BY <1>2, Zenon DEF AdminEarned
      <3>2. wildcard \in BOOLEAN
        BY DEF isWildcard
      <3> QED BY <1>2, <1>5, <3>1, <3>2, Zenon
    <2>3. roles \in SUBSET (q.claims.roles \cup q.claims.qualified)
      BY <1>2, <1>5 DEF PrincipalRead, resolveStatements
    <2> HIDE DEF wildcard, roles
    <2>4. CASE q.ep.owner # Nil /\ ~wildcard /\ ~ownerMatches(extractOwner(q.ep, q.in), q.claims)
      <3>1. PICK e : e = stampIdentity(q, plan, wildcard, roles) /\ p = Answer(e, 403, "owner_mismatch")
        BY <2>1, <2>4
      <3>2. DOMAIN e = RequestFields /\ DOMAIN e.hdr = HeaderNames
        BY <1>2, <1>5, <2>2, <2>3, <3>1, StampEarned
      <3> QED BY <3>1, <3>2, TrustDenied DEF FORWARD
    <2>5. CASE q.ep.owner = Nil \/ wildcard \/ ownerMatches(extractOwner(q.ep, q.in), q.claims)
      <3>1. p \in {Goto(stampIdentity(q, plan, wildcard, roles), "rateLimit"),
                   Answer(stampIdentity(q, plan, wildcard, roles), FORWARD, Nil)}
        BY <2>1, <2>5
      <3> QED BY <1>2, <1>5, <2>2, <2>3, <2>5, <3>1, StampedPass
    <2> QED BY <2>4, <2>5
  <1> QED BY <1>4, <1>5

\* The legacy engine: admin standing is an admin role of the token.
LEMMA LegacyIdentityTrust ==
  ASSUME GInv, TInv, NEW r \in Requests, LegacyIdentity(r)
  PROVE  TrustInv(rq'[r])
  <1>1. SUFFICES ASSUME NEW q, q = rq[r], NEW p, p = rq'[r] PROVE TrustInv(p)
    OBVIOUS
  <1>2. /\ DOMAIN q = RequestFields /\ DOMAIN q.hdr = HeaderNames /\ HeadersClean(q)
        /\ AppStamped(q, q.target) /\ q.ep # Nil /\ CredentialRead(q) /\ ~Cfg(q).policy
        /\ LegacyHeld(q)
    BY <1>1, TrustFacts
    DEF LegacyIdentity, TrustInv, OnRoute, CredentialDone, ReqInv, PolicyInv
  <1> DEFINE admin == q.claims.admin
             roles == q.claims.roles
             Stamped(plan) == stampIdentity(q, plan, admin, roles)
  <1>3. \/ /\ q.claims = Nil
           /\ p = IF q.ep.owner # Nil THEN Answer(q, 401, Nil)
                  ELSE Goto([q EXCEPT !.plan = Cfg(q).defaultPlan], "rateLimit")
        \/ /\ q.claims # Nil
           /\ \E plan \in Plans :
                p = IF q.ep.owner # Nil /\ Stamped(plan).hdr["admin"] # "true"
                         /\ ~ownerMatches(extractOwner(q.ep, q.in), q.claims)
                    THEN Answer(Stamped(plan), 403, "owner_mismatch")
                    ELSE Goto(Stamped(plan), "rateLimit")
    <2>1. ASSUME NEW x, Become(r, x) PROVE p = x
      BY <1>1, <2>1, TrustFacts, BecomeIs
    <2>2. \/ /\ q.claims = Nil
             /\ Become(r, IF q.ep.owner # Nil THEN Answer(q, 401, Nil)
                          ELSE Goto([q EXCEPT !.plan = Cfg(q).defaultPlan], "rateLimit"))
          \/ /\ q.claims # Nil
             /\ \E plan \in Plans :
                  Become(r, IF q.ep.owner # Nil /\ Stamped(plan).hdr["admin"] # "true"
                                 /\ ~ownerMatches(extractOwner(q.ep, q.in), q.claims)
                            THEN Answer(Stamped(plan), 403, "owner_mismatch")
                            ELSE Goto(Stamped(plan), "rateLimit"))
      BY <1>1, Zenon DEF LegacyIdentity
    <2> HIDE DEF Stamped
    <2> QED BY <2>1, <2>2
  <1> HIDE DEF Stamped
  <1>4. CASE q.claims = Nil
    <2>1. CASE q.ep.owner # Nil
      BY <1>2, <1>3, <1>4, <2>1, TrustDenied DEF FORWARD
    <2>2. CASE q.ep.owner = Nil
      BY <1>2, <1>3, <1>4, <2>2, AnonymousPass
    <2> QED BY <2>1, <2>2
  <1>5. CASE q.claims # Nil
    <2>1. PICK plan \in Plans :
            p = IF q.ep.owner # Nil /\ Stamped(plan).hdr["admin"] # "true"
                     /\ ~ownerMatches(extractOwner(q.ep, q.in), q.claims)
                THEN Answer(Stamped(plan), 403, "owner_mismatch")
                ELSE Goto(Stamped(plan), "rateLimit")
      BY <1>3, <1>5
    <2>2. admin \in BOOLEAN /\ admin = AdminEarned(q)
      <3>1. admin = AdminEarned(q)
        BY <1>2, <1>5, LegacyAdmin
      <3>2. AdminEarned(q) \in BOOLEAN
        BY <1>2 DEF AdminEarned
      <3> QED BY <3>1, <3>2, Zenon
    <2>3. roles \in SUBSET (q.claims.roles \cup q.claims.qualified)
      OBVIOUS
    <2> HIDE DEF admin, roles
    <2>4. PICK e : e = Stamped(plan) /\ e = stampIdentity(q, plan, admin, roles)
      BY DEF Stamped
    <2>5. /\ DOMAIN e = RequestFields /\ DOMAIN e.hdr = HeaderNames
          /\ e.hdr["admin"] = IF admin THEN "true" ELSE Nil
      BY <1>2, <1>5, <2>2, <2>3, <2>4, StampEarned
    <2>6. CASE p = Answer(e, 403, "owner_mismatch")
      BY <2>5, <2>6, TrustDenied DEF FORWARD
    <2>7. CASE /\ p = Goto(e, "rateLimit")
               /\ \/ q.ep.owner = Nil \/ e.hdr["admin"] = "true"
                  \/ ownerMatches(extractOwner(q.ep, q.in), q.claims)
      <3>1. q.ep.owner = Nil \/ admin \/ ownerMatches(extractOwner(q.ep, q.in), q.claims)
        BY <2>5, <2>7, NilAssumption
      <3>2. p \in {Goto(stampIdentity(q, plan, admin, roles), "rateLimit"),
                   Answer(stampIdentity(q, plan, admin, roles), FORWARD, Nil)}
        BY <2>4, <2>7
      <3> QED BY <1>2, <1>5, <2>2, <2>3, <3>1, <3>2, StampedPass
    <2> QED BY <2>1, <2>4, <2>6, <2>7
  <1> QED BY <1>4, <1>5

\* Counting a request changes nothing of what it carries.
LEMMA RateLimitTrust ==
  ASSUME GInv, TInv, NEW r \in Requests, RateLimit(r)
  PROVE  TrustInv(rq'[r])
  <1>1. SUFFICES ASSUME NEW q, q = rq[r], NEW p, p = rq'[r] PROVE TrustInv(p)
    OBVIOUS
  <1>2. /\ DOMAIN q = RequestFields /\ DOMAIN q.hdr = HeaderNames
        /\ AppStamped(q, q.target) /\ q.ep # Nil /\ CredentialRead(q) /\ OwnerPassed(q)
        /\ HeadersStamped(q)
        /\ Cfg(q).policy \/ LegacyHeld(q)
    BY <1>1, TrustFacts DEF RateLimit, TrustInv, OnRoute, Passing
  <1>3. p = Answer(q, FORWARD, Nil) \/ p = Answer(q, 429, Nil)
    BY <1>1, StepFacts, BecomeIs DEF RateLimit, forward
  <1>4. CASE p = Answer(q, 429, Nil)
    BY <1>2, <1>4, TrustDenied DEF FORWARD
  <1>5. CASE p = Answer(q, FORWARD, Nil)
    <2>1. Carries(p, q) /\ Forwarded(p)
      BY ONLY <1>2, <1>5, AnswerCarries DEF Forwarded
    <2>2. /\ CredentialRead(p) /\ OwnerPassed(p) /\ HeadersStamped(p) /\ AppStamped(p, p.target)
          /\ DOMAIN p.hdr = HeaderNames /\ p.ep # Nil
          /\ Cfg(p).policy \/ LegacyHeld(p)
      BY <1>2, <2>1, CarriesSame DEF Carries
    <2> QED BY <2>1, <2>2, PassTrust
  <1> QED BY <1>3, <1>4, <1>5

-----------------------------------------------------------------------------
(* The invariant is inductive                                              *)

\* A request step: what it owes to its token holds after it.
LEMMA RequestStepTrust ==
  ASSUME GInv, TInv, NEW r \in Requests, Arrive(r) \/ Serve(r) \/ Finish(r)
  PROVE  TrustInv(rq'[r])
  <1>1. CASE Arrive(r)
    BY <1>1, ArriveTrust
  <1>2. CASE Finish(r)
    <2>1. rq'[r] = Idle
      BY <1>2, TrustFacts, BecomeIs DEF Finish
    <2> QED BY <2>1, TrustIdle
  <1>3. CASE Serve(r)
    BY <1>3, ResolveHostTrust, ColdStartTrust, CheckLoadedTrust, IamCredentialTrust,
       IamPrincipalTrust, IamAppsTrust, TargetAppTrust, MatchTargetTrust, MatchHostTrust,
       CredentialTrust, PrincipalTrust, IdentityTrust, RateLimitTrust, LegacyMatchTrust,
       LegacyCredentialTrust, LegacyAuthorizeTrust, LegacyIdentityTrust
    DEF Serve
  <1> QED BY <1>1, <1>2, <1>3

\* Every step, whoever takes it, leaves published snapshots as they were.
LEMMA SnapGrowsStep ==
  ASSUME GInv, [Next]_vars
  PROVE  SnapGrows
  <1>f. SnapInv
    BY CacheSplit DEF GInv
  <1>1. CASE PublishSnapshot \/ RefreshSnapshot \/ StoreLoaded
    BY <1>f, <1>1, SnapStep
  <1>2. CASE PublishRegistry \/ RefreshRegistry \/ BlankRegistry
    BY <1>f, <1>2, SnapSame DEF PublishRegistry, RefreshRegistry, BlankRegistry
  <1>3. ASSUME NEW r \in Requests, Arrive(r) \/ Serve(r) \/ Finish(r) PROVE SnapGrows
    BY <1>f, <1>3, RequestStepFrame, SnapSame
  <1>4. CASE UNCHANGED vars
    BY <1>f, <1>4, SnapSame DEF vars
  <1> QED BY <1>1, <1>2, <1>3, <1>4 DEF Next, CacheStep

\* A request that relies on admin standing read it from policies that are still
\* there: what it owes stays true while the snapshot cache grows.
LEMMA TrustKept ==
  ASSUME GInv, NEW r \in Requests, rq[r]' = rq[r], SnapGrows
  PROVE  TrustInv(rq[r]) => TrustInv(rq[r])'
  <1> DEFINE q == rq[r]
  <1>1. SUFFICES ASSUME TrustInv(q) PROVE TrustInv(q)'
    OBVIOUS
  <1>2. snapVer \in Nat /\ ReqInv(q)
    BY CacheSplit, SnapFacts DEF GInv
  <1>3. q.polVer \in Nat
    BY <1>2, MaxPublishAssumption DEF ReqInv, RequestTypeOK, Versions
  <1>4. ASSUME q.polVer <= snapVer PROVE PrincipalRead(q)' = PrincipalRead(q)
    <2>1. q.polVer # 0 => snapPub'[q.polVer] = snapPub[q.polVer]
      BY <1>2, <1>3, <1>4 DEF SnapGrows
    <2>2. IndexAt(q.polVer)' = IndexAt(q.polVer)
      BY <2>1 DEF IndexAt
    <2> QED BY <2>2 DEF PrincipalRead
  <1>5. Cfg(q)' = Cfg(q) /\ Forwarded(q)' = Forwarded(q)
    BY DEF Cfg, Forwarded
  <1>6. q.pc = "identity" \/ (Passing(q) /\ Cfg(q).policy) => q.polVer <= snapVer
    <2>1. Passing(q) => q.ep # Nil
      BY <1>1 DEF TrustInv, Passing, OnRoute
    <2>2. q.pc # "idle" => PolicyInv(q)
      BY <1>2 DEF ReqInv
    <2>3. Decided(q) => q.polVer <= snapVer
      BY <2>2 DEF PolicyInv, PermissionHeld, Decided, Forwarded
    <2> QED BY <2>1, <2>3 DEF Decided, Passing
  <1>7. Passing(q) => AdminEarned(q)' = AdminEarned(q)
    <2>1. CASE Cfg(q).policy
      BY <2>1, <1>4, <1>5, <1>6 DEF AdminEarned
    <2>2. CASE ~Cfg(q).policy
      BY <2>2, <1>5 DEF AdminEarned
    <2> QED BY <2>1, <2>2
  <1>8. CredentialRead(q)' = CredentialRead(q)
    BY <1>5 DEF CredentialRead, ClaimsEarned, AcceptedIssuers
  <1>9. (LegacyHeld(q) /\ ~Cfg(q).policy) => LegacyHeld(q)'
    BY <1>5 DEF LegacyHeld, AdminEarned
  <1>10. Passing(q) => OwnerPassed(q)' = OwnerPassed(q) /\ HeadersStamped(q)' = HeadersStamped(q)
    BY <1>7 DEF OwnerPassed, HeadersStamped, HeadersClean
  <1>11. q.pc = "legacyIdentity" => ~Cfg(q).policy
    BY <1>2 DEF ReqInv, PolicyInv
  <1>12. Passing(q)' = Passing(q)
    BY <1>5 DEF Passing
  <1> QED BY <1>1, <1>4, <1>5, <1>6, <1>8, <1>9, <1>10, <1>11, <1>12
      DEF TrustInv, HeadersClean, AppStamped

\* Idle requests carry nothing.
LEMMA TInvInit == Init => TInv
  BY TrustIdle DEF Init, TInv

\* Every step keeps the invariant.
LEMMA TInvStep == GInv /\ TInv /\ [Next]_vars => TInv'
  <1> SUFFICES ASSUME GInv, TInv, [Next]_vars PROVE TInv'
    OBVIOUS
  <1>1. SnapGrows
    BY SnapGrowsStep
  <1>2. DOMAIN rq = Requests /\ \A r \in Requests : TrustInv(rq[r])
    BY DEF GInv, TInv
  <1>3. CASE CacheStep \/ UNCHANGED vars
    <2>1. rq' = rq
      BY <1>3 DEF CacheStep, PublishRegistry, RefreshRegistry, PublishSnapshot,
                  BlankRegistry, RefreshSnapshot, StoreLoaded, vars
    <2>2. \A r \in Requests : rq[r]' = rq[r]
      BY <2>1
    <2> QED BY <1>1, <1>2, <2>2, TrustKept DEF TInv
  <1>4. ASSUME NEW r \in Requests, Arrive(r) \/ Serve(r) \/ Finish(r) PROVE TInv'
    <2>1. UNCHANGED snapPub
      BY <1>4, RequestStepFrame DEF snapVars
    <2>2. PICK q : rq' = [rq EXCEPT ![r] = q]
      BY <1>4, RequestStepFrame
    <2>3. TrustInv(rq'[r])
      BY <1>4, RequestStepTrust
    <2>4. \A s \in Requests : s # r => rq'[s] = rq[s]
      BY <1>2, <2>2
    <2>5. \A s \in Requests : TrustInv(rq'[s])
      BY <1>2, <2>3, <2>4
    <2>6. ASSUME NEW s \in Requests PROVE TrustInv(rq[s])'
      <3>1. TrustInv(rq'[s])
        BY <2>5
      <3>2. IndexAt(rq[s].polVer)' = IndexAt(rq'[s].polVer)
        BY <2>1 DEF IndexAt
      <3>3. PrincipalRead(rq[s])' = PrincipalRead(rq'[s])
        BY <3>2 DEF PrincipalRead
      <3>4. AdminEarned(rq[s])' = AdminEarned(rq'[s])
        BY <3>3 DEF AdminEarned, Cfg
      <3>5. /\ CredentialRead(rq[s])' = CredentialRead(rq'[s])
            /\ LegacyHeld(rq[s])' = LegacyHeld(rq'[s])
            /\ OwnerPassed(rq[s])' = OwnerPassed(rq'[s])
            /\ HeadersStamped(rq[s])' = HeadersStamped(rq'[s])
        BY <3>4 DEF CredentialRead, ClaimsEarned, AcceptedIssuers, LegacyHeld, OwnerPassed,
                    HeadersStamped, HeadersClean, Cfg
      <3> QED BY <3>1, <3>3, <3>5 DEF TrustInv, Passing, Forwarded, HeadersClean, AppStamped, Cfg
    <2> QED BY <2>6 DEF TInv
  <1> QED BY <1>3, <1>4 DEF Next

-----------------------------------------------------------------------------
(* Theorems                                                                *)

\* What a forwarded request on a registered route owes, in one place.
LEMMA ForwardedOwes ==
  ASSUME TInv, NEW r \in Requests, Forwarded(rq[r]), rq[r].ep # Nil
  PROVE  /\ CredentialRead(rq[r]) /\ OwnerPassed(rq[r]) /\ HeadersStamped(rq[r])
         /\ Cfg(rq[r]).policy \/ LegacyHeld(rq[r])
  BY DEF TInv, TrustInv, Passing

\* Under the legacy engine (serveLegacy, plugin.go) a token only counts on the
\* host of the application it was issued for, whatever realm it comes from, and
\* a gated route needs an admin role of it.
THEOREM TokensPinned == Spec => []LegacyPinned
  <1>1. TInv => LegacyPinned
    BY ForwardedOwes DEF LegacyPinned, CredentialRead, ClaimsEarned, LegacyHeld
  <1> QED BY <1>1, GInvInit, GInvStep, TInvInit, TInvStep, PTL DEF Spec

\* A credential that is not accepted is refused, never ignored (authenticate in
\* policy.go, serveLegacy): an expired token, a retired key or unreachable keys never
\* turns a request on a registered route into an anonymous one.
THEOREM CredentialsRead == Spec => []CredentialNotIgnored
  <1>1. TInv => CredentialNotIgnored
    BY ForwardedOwes DEF CredentialNotIgnored, CredentialRead, ClaimsEarned
  <1> QED BY <1>1, GInvInit, GInvStep, TInvInit, TInvStep, PTL DEF Spec

\* A route with an owner is reached by its owner or by an admin only, in both
\* engines (the ownership gates of serveLegacy and servePolicy).
THEOREM OwnersOnly == Spec => []OwnerGateSound
  <1>1. TInv => OwnerGateSound
    BY ForwardedOwes DEF OwnerGateSound, OwnerPassed
  <1> QED BY <1>1, GInvInit, GInvStep, TInvInit, TInvStep, PTL DEF Spec

\* A forwarded request carries only identity the gateway established, whatever
\* headers the client sent (the strip loop of ServeHTTP, stampAuthzHeaders).
THEOREM NoForeignIdentity == Spec => []HeadersEarned
  <1>1. TInv => HeadersEarned
    <2> SUFFICES ASSUME TInv, NEW r \in Requests, Forwarded(rq[r])
                 PROVE  /\ AppStamped(rq[r], rq[r].target)
                        /\ HeadersStamped(rq[r])
      BY DEF HeadersEarned, AppStamped, HeadersStamped, HeadersClean
    <2>1. AppStamped(rq[r], rq[r].target)
      BY DEF TInv, TrustInv
    <2>2. CASE rq[r].ep # Nil
      BY <2>1, <2>2, ForwardedOwes
    <2>3. CASE rq[r].ep = Nil
      <3>1. rq[r].claims = Nil /\ HeadersClean(rq[r])
        BY <2>3 DEF TInv, TrustInv
      <3> QED BY <2>1, <3>1 DEF HeadersStamped, HeadersClean, TrustHeaders
    <2> QED BY <2>2, <2>3
  <1> QED BY <1>1, GInvInit, GInvStep, TInvInit, TInvStep, PTL DEF Spec
=============================================================================
