--------------------------- MODULE GatewayProofs ---------------------------
(***************************************************************************)
(* Proofs about the request path, for every set of requests, inputs,       *)
(* configurations, registries and snapshots and every number of published  *)
(* versions.                                                               *)
(*                                                                         *)
(* GInv is the inductive invariant. It ties what a request remembers to    *)
(* the versions it was read from, per stage of the request: which stages   *)
(* imply a resolved host, a loaded snapshot, a matched endpoint, an        *)
(* accepted token and a granted permission. Published versions never       *)
(* change, so these facts survive every later refresh.                     *)
(***************************************************************************)
EXTENDS Gateway, TLAPS

-----------------------------------------------------------------------------
(* The invariant                                                           *)

\* The registry held is one a refresh may compute from the version held.
RegistryHeld ==
  IF regVer = 0 THEN registry = EmptyRegistry ELSE registry \in compileRegistry(regPub[regVer])

CacheInv ==
  /\ Reg!CacheTypeOK /\ Snap!CacheTypeOK
  /\ snapLoaded => snapVer # 0
  /\ RegistryHeld

\* Stages of a request with its host resolved, its caches found loaded, its
\* endpoint looked up.
AfterMatch == {"matchHost", "credential", "principal", "identity", "rateLimit",
               "legacyCredential", "legacyAuthorize", "legacyIdentity"}
AfterLoaded == AfterMatch \cup {"iam", "iamPrincipal", "iamApps", "target", "match", "legacyMatch"}
AfterResolve == AfterLoaded \cup {"checkLoaded"}

Resolved(q) ==
  /\ q.resVer \in 1..Len(regPub)
  /\ \E h \in DOMAIN regPub[q.resVer].hosts :
       regPub[q.resVer].hosts[h].active /\ regPub[q.resVer].hosts[h].app = q.hostApp

EnforceInv(q) ==
  Cfg(q).mode = "enforce" =>
    /\ (q.pc \in AfterResolve \/ Forwarded(q)) => Resolved(q)
    /\ q.pc \in AfterLoaded => snapVer # 0
    /\ (q.pc \in AfterMatch \/ Forwarded(q)) => q.epVer # 0

Matched(q) ==
  /\ q.epVer <= snapVer
  /\ q.ep = matchEndpoint(EndpointsAt(q.epVer), q.target, q.in.method, q.in.path)

TokenAccepted(q) == q.claims # Nil => q.in.token.iss \in AcceptedIssuers(q)

PermissionHeld(q) ==
  /\ q.epVer <= q.polVer /\ q.polVer <= snapVer
  /\ q.ep.perm # NoPerm =>
       /\ q.claims # Nil
       /\ q.in.token.iss \in AcceptedIssuers(q)
       /\ granted(PrincipalRead(q), q.ep.perm, q.target)

\* The policy engine has made its permission decision.
Decided(q) == q.pc = "identity" \/ (Cfg(q).policy /\ q.ep # Nil /\ (q.pc = "rateLimit" \/ Forwarded(q)))

PolicyInv(q) ==
  /\ q.pc \in {"target", "match", "matchHost", "credential", "principal", "identity"} => Cfg(q).policy
  /\ q.pc \in {"legacyMatch", "legacyCredential", "legacyAuthorize", "legacyIdentity"} => ~Cfg(q).policy
  /\ q.pc = "matchHost" => q.ep = Nil
  /\ q.pc \in {"credential", "principal"} => Matched(q)
  /\ q.pc = "principal" => TokenAccepted(q)
  /\ Decided(q) => Matched(q) /\ PermissionHeld(q)

ReqInv(q) ==
  /\ RequestTypeOK(q)
  /\ q.pc # "idle" => EnforceInv(q) /\ PolicyInv(q)

GInv == CacheInv /\ DOMAIN rq = Requests /\ \A r \in Requests : ReqInv(rq[r])

-----------------------------------------------------------------------------
(* Record updates                                                          *)

\* p differs from q at most in its stage, headers, plan and log fields.
Follows(p, q) ==
  /\ DOMAIN p = RequestFields
  /\ p.in = q.in /\ p.hostApp = q.hostApp /\ p.target = q.target /\ p.ep = q.ep
  /\ p.claims = q.claims
  /\ p.resVer = q.resVer /\ p.epVer = q.epVer /\ p.hostVer = q.hostVer /\ p.polVer = q.polVer

\* Moving on changes the stage only.
LEMMA GotoFields ==
  ASSUME NEW q, DOMAIN q = RequestFields, NEW pc
  PROVE  /\ Follows(Goto(q, pc), q)
         /\ Goto(q, pc).pc = pc /\ Goto(q, pc).code = q.code /\ Goto(q, pc).plan = q.plan
  BY DEF Follows, Goto, RequestFields

\* Answering changes the stage, the status and the reason only.
LEMMA AnswerFields ==
  ASSUME NEW q, DOMAIN q = RequestFields, NEW code, NEW reason
  PROVE  /\ Follows(Answer(q, code, reason), q)
         /\ Answer(q, code, reason).pc = "done"
         /\ Answer(q, code, reason).code = code
         /\ Answer(q, code, reason).plan = q.plan
  BY DEF Follows, Answer, RequestFields

\* A request that moves on keeps its type.
LEMMA GotoType ==
  ASSUME NEW q, RequestTypeOK(q), q.pc \notin {"idle", "done"}, NEW pc \in PCs \ {"idle", "done"}
  PROVE  RequestTypeOK(Goto(q, pc))
  BY GotoFields DEF RequestTypeOK, Follows

\* A request that is answered keeps its type.
LEMMA AnswerType ==
  ASSUME NEW q, RequestTypeOK(q), q.pc # "idle", NEW code \in Codes, NEW reason
  PROVE  RequestTypeOK(Answer(q, code, reason))
  <1>1. code # Nil
    BY NilAssumption DEF Codes, FORWARD
  <1>2. SUFFICES ASSUME NEW p, p = Answer(q, code, reason) PROVE RequestTypeOK(p)
    OBVIOUS
  <1>3. Follows(p, q) /\ p.pc = "done" /\ p.code = code /\ p.plan = q.plan
    BY <1>2, AnswerFields DEF RequestTypeOK
  <1>4. p.pc \in PCs
    BY <1>3 DEF PCs
  <1> QED BY <1>1, <1>3, <1>4 DEF RequestTypeOK, Follows

\* A request that was answered by the gateway itself owes nothing more.
LEMMA DeniedInv ==
  ASSUME NEW q, RequestTypeOK(q), q.pc # "idle", NEW code \in Codes \ {FORWARD}, NEW reason
  PROVE  ReqInv(Answer(q, code, reason))
  <1>1. SUFFICES ASSUME NEW p, p = Answer(q, code, reason) PROVE ReqInv(p)
    OBVIOUS
  <1>2. p.pc = "done" /\ p.code = code /\ RequestTypeOK(p)
    BY <1>1, AnswerFields, AnswerType DEF RequestTypeOK
  <1> QED BY <1>2 DEF ReqInv, EnforceInv, PolicyInv, Forwarded, Decided, AfterMatch, AfterLoaded, AfterResolve

\* The idle request.
LEMMA IdleInv == ReqInv(Idle)
  BY NilAssumption, MaxPublishAssumption
  DEF Idle, ReqInv, RequestTypeOK, RequestFields, PCs, Codes, Versions, FORWARD

-----------------------------------------------------------------------------
(* The registry lookup                                                     *)

\* What a compiled registry resolves a host to is an application that the
\* published registry maps an active host to.
LEMMA ResolveSound ==
  ASSUME NEW reg, NEW c \in compileRegistry(reg), NEW host, NEW app \in resolveHost(c, host)
  PROVE  \E h \in DOMAIN reg.hosts : reg.hosts[h].active /\ reg.hosts[h].app = app
  <1>1. PICK p \in hostMaps(reg) \X SetToSeqs(wildHosts(reg)) :
          c = [byHost |-> p[1], wildcards |-> wildcardList(reg, p[2]), active |-> activeApps(reg, p[1])]
    BY DEF compileRegistry
  <1> DEFINE f == p[1]  w == p[2]
  <1>2. f \in hostMaps(reg) /\ w \in SetToSeqs(wildHosts(reg))
    OBVIOUS
  <1>3. c.byHost = f /\ c.wildcards = wildcardList(reg, w)
    BY <1>1
  <1> HIDE DEF f, w
  <1>4. \A n \in DOMAIN f : \E h \in liveHosts(reg) : f[n] = appOf(reg, h)
    BY <1>2 DEF hostMaps, exactHosts
  <1>5. \A i \in DOMAIN w : w[i] \in liveHosts(reg)
    BY <1>2 DEF SetToSeqs, wildHosts
  <1>6. \/ \E n \in DOMAIN f : app = f[n]
        \/ \E i \in DOMAIN w : app = appOf(reg, w[i])
    <2>1. CASE normalizeHost(host) \in DOMAIN c.byHost
      BY <2>1, <1>3 DEF resolveHost
    <2>2. CASE normalizeHost(host) \notin DOMAIN c.byHost
      <3>1. PICK i \in DOMAIN c.wildcards : app = c.wildcards[i].app
        BY <2>2 DEF resolveHost
      <3> QED BY <3>1, <1>3 DEF wildcardList
    <2> QED BY <2>1, <2>2
  <1>7. \E h \in liveHosts(reg) : app = appOf(reg, h)
    BY <1>4, <1>5, <1>6
  <1> QED BY <1>7 DEF liveHosts, appOf

\* A cold registry resolves nothing.
LEMMA ColdResolvesNothing ==
  ASSUME NEW host PROVE resolveHost(EmptyRegistry, host) = {}
  <1>1. DOMAIN EmptyRegistry.byHost = {} /\ DOMAIN EmptyRegistry.wildcards = {}
    BY DEF EmptyRegistry
  <1> QED BY <1>1 DEF resolveHost

-----------------------------------------------------------------------------
(* One lemma per step of a request                                         *)

\* What a step of request r relies on.
LEMMA StepFacts ==
  ASSUME GInv, NEW r \in Requests
  PROVE  /\ ReqInv(rq[r]) /\ RequestTypeOK(rq[r]) /\ DOMAIN rq = Requests
         /\ regVer \in Versions /\ snapVer \in Versions
  <1>1. ReqInv(rq[r]) /\ RequestTypeOK(rq[r]) /\ DOMAIN rq = Requests
    BY DEF GInv, ReqInv
  <1>2. regVer \in Versions /\ snapVer \in Versions
    BY MaxPublishAssumption DEF GInv, CacheInv, Reg!CacheTypeOK, Snap!CacheTypeOK, Versions
  <1> QED BY <1>1, <1>2

\* What a request becomes is what it is after the step.
LEMMA BecomeIs ==
  ASSUME DOMAIN rq = Requests, NEW r \in Requests, NEW q, Become(r, q)
  PROVE  rq'[r] = q
  BY DEF Become

\* p comes from q: the same request, its host resolved by the same read.
Keeps(p, q) ==
  /\ DOMAIN p = RequestFields
  /\ p.in = q.in /\ p.hostApp = q.hostApp /\ p.resVer = q.resVer

\* The versions p remembers, its plan, and a status exactly when it is done.
WellFormed(p) ==
  /\ p.pc \in PCs \ {"idle"}
  /\ p.plan \in Plans \cup {Nil}
  /\ IF p.pc = "done" THEN p.code \in Codes ELSE p.code = Nil
  /\ p.resVer \in Versions /\ p.epVer \in Versions
  /\ p.hostVer \in Versions /\ p.polVer \in Versions

\* A well-formed request that has entered has its type.
LEMMA TypeStep ==
  ASSUME NEW p, WellFormed(p), DOMAIN p = RequestFields, p.in \in Inputs
  PROVE  RequestTypeOK(p)
  <1>1. Nil \notin Codes /\ p.in # Nil
    BY NilAssumption DEF Codes, FORWARD
  <1> QED BY <1>1 DEF WellFormed, RequestTypeOK

\* A request past its resolution keeps what enforce mode requires.
LEMMA EnforceStep ==
  ASSUME NEW q, NEW p, EnforceInv(q), Keeps(p, q), q.pc \in AfterResolve,
         p.pc \in AfterLoaded => q.pc \in AfterLoaded,
         Cfg(q).mode = "enforce" /\ (p.pc \in AfterMatch \/ Forwarded(p)) => p.epVer # 0
  PROVE  EnforceInv(p)
  BY DEF EnforceInv, Keeps, Cfg, Resolved

\* A request that enters owes nothing yet: resolution is still ahead, or disabled.
LEMMA ArriveInv ==
  ASSUME GInv, NEW r \in Requests, Arrive(r)
  PROVE  ReqInv(rq'[r])
  <1>1. PICK in \in Inputs :
          \E q, e : /\ q = [Idle EXCEPT !.in = in, !.hdr = in.headers]
                    /\ e = [q EXCEPT !.hdr = strip(@)]
                    /\ \/ rq'[r] = Answer(q, 204, Nil)
                       \/ rq'[r] = Goto(e, "resolve")
                       \/ Config[in.mw].mode = "disabled" /\ rq'[r] = Goto(e, "checkLoaded")
    <2>1. PICK in \in Inputs :
            rq'[r] = LET cfg == Config[in.mw]
                         q == [Idle EXCEPT !.in = in, !.hdr = in.headers]
                         e == [q EXCEPT !.hdr = strip(@)]
                     IN IF cfg.cors /\ in.method = "OPTIONS" THEN Answer(q, 204, Nil)
                        ELSE IF cfg.mode # "disabled" THEN Goto(e, "resolve")
                        ELSE Goto(e, "checkLoaded")
      BY StepFacts DEF Arrive, Become
    <2> QED BY <2>1
  <1>2. SUFFICES ASSUME NEW p, p = rq'[r] PROVE ReqInv(p)
    OBVIOUS
  <1>3. /\ DOMAIN p = RequestFields /\ p.in = in /\ p.plan = Nil
        /\ p.resVer = 0 /\ p.epVer = 0 /\ p.hostVer = 0 /\ p.polVer = 0
        /\ \/ p.pc = "done" /\ p.code = 204
           \/ p.pc = "resolve" /\ p.code = Nil
           \/ p.pc = "checkLoaded" /\ p.code = Nil /\ Cfg(p).mode = "disabled"
    <2>1. PICK q, e : /\ q = [Idle EXCEPT !.in = in, !.hdr = in.headers]
                      /\ e = [q EXCEPT !.hdr = strip(q.hdr)]
                      /\ \/ p = Answer(q, 204, Nil)
                         \/ p = Goto(e, "resolve")
                         \/ Config[in.mw].mode = "disabled" /\ p = Goto(e, "checkLoaded")
      BY <1>1, <1>2
    <2>2. \A x \in {q, e} :
            /\ DOMAIN x = RequestFields /\ x.in = in /\ x.plan = Nil /\ x.code = Nil
            /\ x.resVer = 0 /\ x.epVer = 0 /\ x.hostVer = 0 /\ x.polVer = 0
      <3>1. /\ DOMAIN q = RequestFields /\ q.in = in /\ q.plan = Nil /\ q.code = Nil
            /\ q.resVer = 0 /\ q.epVer = 0 /\ q.hostVer = 0 /\ q.polVer = 0
        BY <2>1 DEF Idle, RequestFields
      <3>2. /\ DOMAIN e = RequestFields /\ e.in = in /\ e.plan = Nil /\ e.code = Nil
            /\ e.resVer = 0 /\ e.epVer = 0 /\ e.hostVer = 0 /\ e.polVer = 0
        BY <2>1, <3>1 DEF RequestFields
      <3> QED BY <3>1, <3>2
    <2>3. CASE p = Answer(q, 204, Nil)
      BY <2>2, <2>3, AnswerFields DEF Follows
    <2>4. CASE p = Goto(e, "resolve")
      BY <2>2, <2>4, GotoFields DEF Follows
    <2>5. CASE Config[in.mw].mode = "disabled" /\ p = Goto(e, "checkLoaded")
      BY <2>2, <2>5, GotoFields DEF Follows, Cfg
    <2> QED BY <2>1, <2>3, <2>4, <2>5
  <1>4. WellFormed(p)
    BY <1>3, MaxPublishAssumption DEF WellFormed, PCs, Codes, Versions
  <1>5. RequestTypeOK(p)
    BY <1>3, <1>4, TypeStep
  <1>6. EnforceInv(p) /\ PolicyInv(p)
    BY <1>3 DEF EnforceInv, PolicyInv, Decided, Forwarded, FORWARD, AfterMatch, AfterLoaded, AfterResolve
  <1> QED BY <1>5, <1>6 DEF ReqInv

\* A host that resolves was published with its application, and a cold registry
\* resolves none.
LEMMA ResolveHostInv ==
  ASSUME GInv, NEW r \in Requests, ResolveHost(r)
  PROVE  ReqInv(rq'[r])
  <1>1. SUFFICES ASSUME NEW q, q = rq[r], NEW p, p = rq'[r] PROVE ReqInv(p)
    OBVIOUS
  <1>2. /\ RequestTypeOK(q) /\ DOMAIN q = RequestFields /\ regVer \in Versions
        /\ q.pc = "resolve" /\ q.code = Nil /\ q.in \in Inputs
    BY <1>1, StepFacts DEF ResolveHost, RequestTypeOK
  <1>3. \E read :
          /\ read = [q EXCEPT !.resVer = regVer]
          /\ \/ \E app \in resolveHost(registry, resolutionHost(Cfg(q), q.in)) :
                  \E found : /\ found = [read EXCEPT !.hostApp = app, !.hdr["app"] = app]
                             /\ p = Goto(found, "checkLoaded")
             \/ p = Goto(read, "coldStart")
             \/ Cfg(q).mode # "enforce" /\ p = Goto(read, "checkLoaded")
    BY <1>1, StepFacts DEF ResolveHost, Become
  <1>4. /\ DOMAIN p = RequestFields /\ p.in = q.in /\ p.plan = q.plan /\ p.code = Nil
        /\ p.resVer = regVer /\ p.epVer = q.epVer /\ p.hostVer = q.hostVer /\ p.polVer = q.polVer
        /\ \/ /\ p.pc = "checkLoaded"
              /\ p.hostApp \in resolveHost(registry, resolutionHost(Cfg(q), q.in))
           \/ p.pc = "coldStart"
           \/ p.pc = "checkLoaded" /\ Cfg(p).mode # "enforce"
    <2>1. PICK read :
            /\ read = [q EXCEPT !.resVer = regVer]
            /\ \/ \E app \in resolveHost(registry, resolutionHost(Cfg(q), q.in)) :
                    \E found : /\ found = [read EXCEPT !.hostApp = app, !.hdr["app"] = app]
                               /\ p = Goto(found, "checkLoaded")
               \/ p = Goto(read, "coldStart")
               \/ Cfg(q).mode # "enforce" /\ p = Goto(read, "checkLoaded")
      BY <1>3
    <2>2. /\ DOMAIN read = RequestFields /\ read.in = q.in /\ read.plan = q.plan /\ read.code = Nil
          /\ read.resVer = regVer /\ read.epVer = q.epVer /\ read.hostVer = q.hostVer
          /\ read.polVer = q.polVer
      BY <1>2, <2>1 DEF RequestFields
    <2>3. ASSUME NEW app \in resolveHost(registry, resolutionHost(Cfg(q), q.in)),
                 NEW found, found = [read EXCEPT !.hostApp = app, !.hdr["app"] = app],
                 p = Goto(found, "checkLoaded")
          PROVE  /\ DOMAIN p = RequestFields /\ p.in = q.in /\ p.plan = q.plan /\ p.code = Nil
                 /\ p.resVer = regVer /\ p.epVer = q.epVer /\ p.hostVer = q.hostVer
                 /\ p.polVer = q.polVer /\ p.pc = "checkLoaded" /\ p.hostApp = app
      <3>1. /\ DOMAIN found = RequestFields /\ found.in = q.in /\ found.plan = q.plan
            /\ found.code = Nil /\ found.resVer = regVer /\ found.epVer = q.epVer
            /\ found.hostVer = q.hostVer /\ found.polVer = q.polVer /\ found.hostApp = app
        BY <2>2, <2>3 DEF RequestFields
      <3>2. p = Goto(found, "checkLoaded")
        BY <2>3
      <3>3. Follows(p, found) /\ p.pc = "checkLoaded" /\ p.code = found.code /\ p.plan = found.plan
        BY ONLY <3>1, <3>2, GotoFields
      <3> QED BY ONLY <3>1, <3>3 DEF Follows
    <2>4. CASE p = Goto(read, "coldStart")
      BY <2>2, <2>4, GotoFields DEF Follows
    <2>5. CASE Cfg(q).mode # "enforce" /\ p = Goto(read, "checkLoaded")
      BY <2>2, <2>5, GotoFields DEF Follows, Cfg
    <2> QED BY <2>1, <2>3, <2>4, <2>5
  <1>5. RequestTypeOK(p)
    <2>1. WellFormed(p)
      BY <1>2, <1>4 DEF WellFormed, PCs, RequestTypeOK
    <2> QED BY <1>2, <1>4, <2>1, TypeStep
  <1>6. ASSUME p.hostApp \in resolveHost(registry, resolutionHost(Cfg(q), q.in))
        PROVE  Resolved(p)
    <2>1. RegistryHeld
      BY DEF GInv, CacheInv
    <2>2. regVer # 0
      BY <2>1, <1>6, ColdResolvesNothing DEF RegistryHeld
    <2>3. registry \in compileRegistry(regPub[regVer])
      BY <2>1, <2>2 DEF RegistryHeld
    <2>4. \E h \in DOMAIN regPub[regVer].hosts :
            regPub[regVer].hosts[h].active /\ regPub[regVer].hosts[h].app = p.hostApp
      BY <2>3, <1>6, ResolveSound
    <2>5. regVer \in 0..Len(regPub) /\ Len(regPub) \in Nat
      BY MaxPublishAssumption DEF GInv, CacheInv, Reg!CacheTypeOK
    <2>6. regVer \in 1..Len(regPub)
      BY <2>2, <2>5
    <2> QED BY <1>4, <2>4, <2>6 DEF Resolved
  <1>7. EnforceInv(p) /\ PolicyInv(p)
    BY <1>4, <1>6 DEF EnforceInv, PolicyInv, Decided, Forwarded, AfterMatch, AfterLoaded, AfterResolve
  <1> QED BY <1>5, <1>7 DEF ReqInv

\* Both answers of an unknown host are the gateway's own.
LEMMA ColdStartInv ==
  ASSUME GInv, NEW r \in Requests, ColdStart(r)
  PROVE  ReqInv(rq'[r])
  <1>1. RequestTypeOK(rq[r]) /\ rq[r].pc = "coldStart"
    BY StepFacts DEF ColdStart
  <1>2. \E code \in {403, 503} : rq'[r] = Answer(rq[r], code, Nil)
    BY StepFacts DEF ColdStart, Become
  <1> QED BY <1>1, <1>2, DeniedInv DEF Codes, FORWARD

\* In enforce mode a request only gets past the check when a snapshot is held.
LEMMA CheckLoadedInv ==
  ASSUME GInv, NEW r \in Requests, CheckLoaded(r)
  PROVE  ReqInv(rq'[r])
  <1>1. SUFFICES ASSUME NEW q, q = rq[r], NEW p, p = rq'[r] PROVE ReqInv(p)
    OBVIOUS
  <1>2. ReqInv(q) /\ RequestTypeOK(q) /\ DOMAIN q = RequestFields /\ q.pc = "checkLoaded"
    BY <1>1, StepFacts DEF CheckLoaded, RequestTypeOK
  <1>3. \/ p = Answer(q, 503, Nil)
        \/ (Cfg(q).mode = "enforce" => snapLoaded) /\ p = Goto(q, handler(q))
    BY <1>1, StepFacts DEF CheckLoaded, Become
  <1>4. CASE p = Answer(q, 503, Nil)
    BY <1>2, <1>4, DeniedInv DEF Codes, FORWARD
  <1>5. CASE (Cfg(q).mode = "enforce" => snapLoaded) /\ p = Goto(q, handler(q))
    <2>1. /\ handler(q) \in {"iam", "target", "legacyMatch"}
          /\ handler(q) = "target" => Cfg(q).policy
          /\ handler(q) = "legacyMatch" => ~Cfg(q).policy
      BY DEF handler
    <2>2. Follows(p, q) /\ p.pc = handler(q) /\ p.code = q.code /\ RequestTypeOK(p)
      BY <1>2, <1>5, <2>1, GotoFields, GotoType DEF PCs
    <2>3. snapLoaded => snapVer # 0
      BY DEF GInv, CacheInv
    <2>4. EnforceInv(p)
      BY <1>2, <1>5, <2>1, <2>2, <2>3
      DEF ReqInv, EnforceInv, Follows, Cfg, Resolved, Forwarded, AfterResolve, AfterLoaded, AfterMatch
    <2>5. PolicyInv(p)
      BY <2>1, <2>2 DEF PolicyInv, Follows, Cfg, Decided, Forwarded
    <2> QED BY <2>2, <2>4, <2>5 DEF ReqInv
  <1> QED BY <1>3, <1>4, <1>5

\* A request that moves on inside the introspection handler.
LEMMA IamMove ==
  ASSUME NEW q, ReqInv(q), q.pc \in {"iam", "iamPrincipal"},
         NEW e, DOMAIN e = RequestFields, e.in = q.in, e.hostApp = q.hostApp,
         e.resVer = q.resVer, e.epVer = q.epVer, e.hostVer = q.hostVer, e.plan = q.plan,
         e.code = q.code, e.polVer \in Versions,
         NEW pc \in {"iamPrincipal", "iamApps"}
  PROVE  ReqInv(Goto(e, pc))
  <1>1. SUFFICES ASSUME NEW p, p = Goto(e, pc) PROVE ReqInv(p)
    OBVIOUS
  <1>2. Follows(p, e) /\ p.pc = pc /\ p.code = e.code /\ p.plan = e.plan
    BY <1>1, GotoFields
  <1>3. RequestTypeOK(q)
    BY DEF ReqInv
  <1>4. RequestTypeOK(p)
    <2>1. q.in \in Inputs /\ q.code = Nil
      BY <1>3 DEF RequestTypeOK
    <2>2. WellFormed(p) /\ DOMAIN p = RequestFields /\ p.in \in Inputs
      BY <1>2, <1>3, <2>1 DEF WellFormed, PCs, RequestTypeOK, Follows
    <2> QED BY <2>2, TypeStep
  <1>5. EnforceInv(q) /\ Keeps(p, q)
    BY <1>2 DEF ReqInv, Follows, Keeps
  <1>6. EnforceInv(p)
    BY <1>2, <1>5, EnforceStep DEF AfterMatch, AfterLoaded, AfterResolve, Forwarded
  <1>7. PolicyInv(p)
    BY <1>2 DEF PolicyInv, Decided, Forwarded
  <1> QED BY <1>4, <1>6, <1>7 DEF ReqInv

\* Introspection never forwards; it keeps what enforce mode requires.
LEMMA IamCredentialInv ==
  ASSUME GInv, NEW r \in Requests, IamCredential(r)
  PROVE  ReqInv(rq'[r])
  <1>1. SUFFICES ASSUME NEW q, q = rq[r], NEW p, p = rq'[r] PROVE ReqInv(p)
    OBVIOUS
  <1>2. ReqInv(q) /\ RequestTypeOK(q) /\ DOMAIN q = RequestFields /\ q.pc = "iam"
    BY <1>1, StepFacts DEF IamCredential, RequestTypeOK
  <1>3. \/ \E code \in {401, 405} : \E reason : p = Answer(q, code, reason)
        \/ \E a : p = Goto([q EXCEPT !.claims = a.claims], "iamPrincipal")
    BY <1>1, StepFacts DEF IamCredential, Become
  <1>4. CASE \E code \in {401, 405} : \E reason : p = Answer(q, code, reason)
    BY <1>2, <1>4, DeniedInv DEF Codes, FORWARD
  <1>5. CASE \E a : p = Goto([q EXCEPT !.claims = a.claims], "iamPrincipal")
    <2>1. PICK e, a : e = [q EXCEPT !.claims = a.claims] /\ p = Goto(e, "iamPrincipal")
      BY <1>5
    <2>2. /\ DOMAIN e = RequestFields /\ e.in = q.in /\ e.hostApp = q.hostApp
          /\ e.resVer = q.resVer /\ e.epVer = q.epVer /\ e.hostVer = q.hostVer /\ e.plan = q.plan
          /\ e.code = q.code /\ e.polVer = q.polVer
      BY <1>2, <2>1 DEF RequestFields
    <2>3. q.polVer \in Versions /\ q.pc \in {"iam", "iamPrincipal"}
      BY <1>2 DEF RequestTypeOK
    <2> QED BY <1>2, <2>1, <2>2, <2>3, IamMove
  <1> QED BY <1>3, <1>4, <1>5

\* The policies introspection reads are those of a published version.
LEMMA IamPrincipalInv ==
  ASSUME GInv, NEW r \in Requests, IamPrincipal(r)
  PROVE  ReqInv(rq'[r])
  <1>1. SUFFICES ASSUME NEW q, q = rq[r], NEW p, p = rq'[r] PROVE ReqInv(p)
    OBVIOUS
  <1>2. /\ ReqInv(q) /\ DOMAIN q = RequestFields /\ q.pc = "iamPrincipal" /\ snapVer \in Versions
    BY <1>1, StepFacts DEF IamPrincipal, RequestTypeOK
  <1>3. PICK e : /\ e = [q EXCEPT !.pr = principalFor(q), !.polVer = snapVer]
                 /\ p = Goto(e, "iamApps")
    BY <1>1, StepFacts DEF IamPrincipal, Become
  <1>4. /\ DOMAIN e = RequestFields /\ e.in = q.in /\ e.hostApp = q.hostApp
        /\ e.resVer = q.resVer /\ e.epVer = q.epVer /\ e.hostVer = q.hostVer /\ e.plan = q.plan
        /\ e.code = q.code /\ e.polVer = snapVer
    BY <1>2, <1>3 DEF RequestFields
  <1>5. q.pc \in {"iam", "iamPrincipal"}
    BY <1>2
  <1> QED BY <1>2, <1>3, <1>4, <1>5, IamMove

\* Introspection is answered by the gateway itself.
LEMMA IamAppsInv ==
  ASSUME GInv, NEW r \in Requests, IamApps(r)
  PROVE  ReqInv(rq'[r])
  <1>1. SUFFICES ASSUME NEW q, q = rq[r], NEW p, p = rq'[r] PROVE ReqInv(p)
    OBVIOUS
  <1>2. RequestTypeOK(q) /\ DOMAIN q = RequestFields /\ q.pc = "iamApps" /\ q.in \in Inputs
    BY <1>1, StepFacts DEF IamApps, RequestTypeOK
  <1>3. PICK e, perms : e = Answer(q, 200, Nil) /\ p = [e EXCEPT !.perms = perms]
    <2>1. \E perms : Become(r, [Answer(q, 200, Nil) EXCEPT !.perms = perms])
      BY <1>1 DEF IamApps
    <2>2. \E perms : p = [Answer(q, 200, Nil) EXCEPT !.perms = perms]
      BY <1>1, <2>1, StepFacts, BecomeIs
    <2> QED BY <2>2
  <1>4. /\ DOMAIN e = RequestFields /\ e.in = q.in /\ e.pc = "done" /\ e.code = 200
        /\ e.resVer = q.resVer /\ e.epVer = q.epVer /\ e.hostVer = q.hostVer
        /\ e.polVer = q.polVer /\ e.plan = q.plan
    BY <1>2, <1>3, AnswerFields DEF Follows
  <1>5. /\ DOMAIN p = RequestFields /\ p.in = q.in /\ p.pc = "done" /\ p.code = 200
        /\ p.resVer = q.resVer /\ p.epVer = q.epVer /\ p.hostVer = q.hostVer
        /\ p.polVer = q.polVer /\ p.plan = q.plan
    BY <1>3, <1>4 DEF RequestFields
  <1>6. WellFormed(p)
    BY <1>2, <1>5 DEF WellFormed, PCs, Codes, RequestTypeOK
  <1>7. RequestTypeOK(p)
    BY <1>2, <1>5, <1>6, TypeStep
  <1>8. EnforceInv(p) /\ PolicyInv(p)
    BY <1>5 DEF EnforceInv, PolicyInv, Decided, Forwarded, FORWARD, AfterMatch, AfterLoaded, AfterResolve
  <1> QED BY <1>7, <1>8 DEF ReqInv

\* Choosing the target application comes before every policy obligation.
LEMMA TargetAppInv ==
  ASSUME GInv, NEW r \in Requests, TargetApp(r)
  PROVE  ReqInv(rq'[r])
  <1>1. SUFFICES ASSUME NEW q, q = rq[r], NEW p, p = rq'[r] PROVE ReqInv(p)
    OBVIOUS
  <1>2. ReqInv(q) /\ RequestTypeOK(q) /\ DOMAIN q = RequestFields /\ q.pc = "target"
    BY <1>1, StepFacts DEF TargetApp, RequestTypeOK
  <1>3. \/ p = Answer(q, 403, "unknown_app")
        \/ \E t, c : /\ c = [q EXCEPT !.target = t]
                     /\ \/ p = Goto(c, "match")
                        \/ \E e : e = [c EXCEPT !.hdr["app"] = t] /\ p = Goto(e, "match")
    <2> DEFINE asked == q.in.requestedApp # NoApp /\ Cfg(q).mode # "disabled"
               t == IF asked THEN q.in.requestedApp ELSE q.hostApp
               c == [q EXCEPT !.target = t]
    <2>1. p = IF asked /\ t \notin registry.active THEN Answer(q, 403, "unknown_app")
              ELSE IF t = NoApp THEN Goto(c, "match")
              ELSE Goto([c EXCEPT !.hdr["app"] = t], "match")
      BY <1>1, StepFacts, BecomeIs DEF TargetApp
    <2> HIDE DEF asked, t
    <2> QED BY <2>1
  <1>4. CASE p = Answer(q, 403, "unknown_app")
    BY <1>2, <1>4, DeniedInv DEF Codes, FORWARD
  <1>5. CASE \E t, c : /\ c = [q EXCEPT !.target = t]
                       /\ \/ p = Goto(c, "match")
                          \/ \E e : e = [c EXCEPT !.hdr["app"] = t] /\ p = Goto(e, "match")
    <2>1. PICK t, c : /\ c = [q EXCEPT !.target = t]
                      /\ \/ p = Goto(c, "match")
                         \/ \E e : e = [c EXCEPT !.hdr["app"] = t] /\ p = Goto(e, "match")
      BY <1>5
    <2>2. /\ DOMAIN c = RequestFields /\ c.in = q.in /\ c.hostApp = q.hostApp
          /\ c.resVer = q.resVer /\ c.epVer = q.epVer /\ c.hostVer = q.hostVer
          /\ c.polVer = q.polVer /\ c.plan = q.plan /\ c.code = q.code
      BY <1>2, <2>1 DEF RequestFields
    <2>3. PICK e : (e = c \/ e = [c EXCEPT !.hdr["app"] = t]) /\ p = Goto(e, "match")
      BY <2>1
    <2>4. /\ DOMAIN e = RequestFields /\ e.in = q.in /\ e.hostApp = q.hostApp
          /\ e.resVer = q.resVer /\ e.epVer = q.epVer /\ e.hostVer = q.hostVer
          /\ e.polVer = q.polVer /\ e.plan = q.plan /\ e.code = q.code
      BY <2>2, <2>3 DEF RequestFields
    <2>5. p = Goto(e, "match")
      BY <2>3
    <2>6. Follows(p, e) /\ p.pc = "match" /\ p.code = e.code /\ p.plan = e.plan
      BY ONLY <2>4, <2>5, GotoFields
    <2>7. /\ Keeps(p, q) /\ p.in = q.in /\ p.code = Nil /\ q.in \in Inputs
          /\ WellFormed(p) /\ DOMAIN p = RequestFields
      BY ONLY <1>2, <2>4, <2>6 DEF Follows, Keeps, WellFormed, PCs, RequestTypeOK
    <2>8. RequestTypeOK(p)
      BY <2>7, TypeStep
    <2>9. EnforceInv(p)
      BY <1>2, <2>6, <2>7, EnforceStep DEF ReqInv, AfterMatch, AfterLoaded, AfterResolve, Forwarded
    <2>10. PolicyInv(p)
      BY <1>2, <2>6, <2>7 DEF ReqInv, PolicyInv, Decided, Forwarded, Cfg
    <2> QED BY <2>6, <2>8, <2>9, <2>10 DEF ReqInv
  <1> QED BY <1>3, <1>4, <1>5

\* A request past the loaded check keeps its type and what enforce mode
\* requires, whatever it moves on to, when it looked its endpoint up.
LEMMA AdvanceInv ==
  ASSUME NEW q, ReqInv(q), q.pc \in AfterLoaded, NEW p, Keeps(p, q), WellFormed(p),
         p.pc \in AfterLoaded \cup {"done"},
         (q.pc \in AfterMatch /\ p.epVer = q.epVer) \/ p.epVer = snapVer,
         PolicyInv(p)
  PROVE  ReqInv(p)
  <1>1. RequestTypeOK(q) /\ q.pc \notin {"idle", "done"} /\ q.in \in Inputs
    BY DEF ReqInv, RequestTypeOK, AfterLoaded, AfterMatch
  <1>2. RequestTypeOK(p)
    BY <1>1, TypeStep DEF Keeps
  <1>3. q.pc \in AfterResolve /\ EnforceInv(q)
    BY <1>1 DEF ReqInv, AfterResolve
  <1>4. Cfg(q).mode = "enforce" => p.epVer # 0
    BY <1>3 DEF EnforceInv
  <1>5. EnforceInv(p)
    BY <1>3, <1>4, EnforceStep
  <1> QED BY <1>2, <1>5 DEF ReqInv

\* The endpoint found is the one the snapshot held now assigns to the target.
LEMMA MatchTargetInv ==
  ASSUME GInv, NEW r \in Requests, MatchTarget(r)
  PROVE  ReqInv(rq'[r])
  <1>1. SUFFICES ASSUME NEW q, q = rq[r], NEW p, p = rq'[r] PROVE ReqInv(p)
    OBVIOUS
  <1> DEFINE hit == matchEndpoint(EndpointsAt(snapVer), q.target, q.in.method, q.in.path)
  <1>2. /\ ReqInv(q) /\ RequestTypeOK(q) /\ DOMAIN q = RequestFields /\ q.pc = "match"
        /\ snapVer \in Versions
    BY <1>1, StepFacts DEF MatchTarget, RequestTypeOK
  <1>3. PICK e : /\ e = [q EXCEPT !.ep = hit, !.epVer = snapVer]
                 /\ \/ hit # Nil /\ p = Goto(e, "credential")
                    \/ hit = Nil /\ p = Goto(e, "matchHost")
                    \/ hit = Nil /\ p = Answer(e, FORWARD, Nil)
    BY <1>1, StepFacts DEF MatchTarget, Become, forward
  <1> HIDE DEF hit
  <1>4. /\ DOMAIN e = RequestFields /\ e.in = q.in /\ e.hostApp = q.hostApp /\ e.target = q.target
        /\ e.resVer = q.resVer /\ e.hostVer = q.hostVer /\ e.polVer = q.polVer
        /\ e.plan = q.plan /\ e.code = q.code /\ e.ep = hit /\ e.epVer = snapVer
    BY <1>2, <1>3 DEF RequestFields
  <1>5. /\ Follows(p, e) /\ p.plan = e.plan
        /\ \/ p.pc = "credential" /\ p.code = e.code
           \/ hit = Nil /\ p.pc = "matchHost" /\ p.code = e.code
           \/ hit = Nil /\ p.pc = "done" /\ p.code = FORWARD
    <2>1. \/ p = Goto(e, "credential")
          \/ hit = Nil /\ p = Goto(e, "matchHost")
          \/ hit = Nil /\ p = Answer(e, FORWARD, Nil)
      BY <1>3
    <2> QED BY ONLY <1>4, <2>1, GotoFields, AnswerFields
  <1>6. Keeps(p, q) /\ p.target = q.target /\ p.ep = hit /\ p.epVer = snapVer
    BY ONLY <1>4, <1>5 DEF Follows, Keeps
  <1>7. WellFormed(p)
    BY ONLY <1>2, <1>4, <1>5 DEF Follows, WellFormed, PCs, Codes, RequestTypeOK
  <1>8. Matched(p)
    <2>1. p.in = q.in /\ p.epVer <= snapVer
      BY <1>2, <1>6 DEF Keeps, Versions
    <2> QED BY <1>6, <2>1 DEF Matched, hit
  <1>9. Cfg(p).policy
    BY <1>2, <1>6 DEF ReqInv, PolicyInv, Keeps, Cfg
  <1>10. PolicyInv(p)
    BY <1>5, <1>6, <1>8, <1>9 DEF PolicyInv, Decided, Forwarded
  <1>11. q.pc \in AfterLoaded /\ p.pc \in AfterLoaded \cup {"done"}
    BY <1>2, <1>5 DEF AfterLoaded, AfterMatch
  <1> QED BY <1>2, <1>6, <1>7, <1>10, <1>11, AdvanceInv

\* A request the second lookup lets through has no endpoint.
LEMMA MatchHostInv ==
  ASSUME GInv, NEW r \in Requests, MatchHost(r)
  PROVE  ReqInv(rq'[r])
  <1>1. SUFFICES ASSUME NEW q, q = rq[r], NEW p, p = rq'[r] PROVE ReqInv(p)
    OBVIOUS
  <1>2. /\ ReqInv(q) /\ RequestTypeOK(q) /\ DOMAIN q = RequestFields /\ q.pc = "matchHost"
        /\ snapVer \in Versions
    BY <1>1, StepFacts DEF MatchHost, RequestTypeOK
  <1>3. PICK e : /\ e = [q EXCEPT !.hostVer = snapVer]
                 /\ \E code \in {403, FORWARD} : \E reason : p = Answer(e, code, reason)
    BY <1>1, StepFacts DEF MatchHost, Become, forward
  <1>4. /\ DOMAIN e = RequestFields /\ e.in = q.in /\ e.hostApp = q.hostApp
        /\ e.resVer = q.resVer /\ e.hostVer = snapVer /\ e.polVer = q.polVer
        /\ e.plan = q.plan /\ e.ep = q.ep /\ e.epVer = q.epVer
    BY <1>2, <1>3 DEF RequestFields
  <1>5. Follows(p, e) /\ p.plan = e.plan /\ p.pc = "done" /\ p.code \in {403, FORWARD}
    <2>1. \E code \in {403, FORWARD} : \E reason : p = Answer(e, code, reason)
      BY <1>3
    <2> QED BY ONLY <1>4, <2>1, AnswerFields
  <1>6. Keeps(p, q) /\ p.ep = q.ep /\ p.epVer = q.epVer
    BY ONLY <1>4, <1>5 DEF Follows, Keeps
  <1>7. WellFormed(p)
    BY ONLY <1>2, <1>4, <1>5 DEF Follows, WellFormed, PCs, Codes, RequestTypeOK
  <1>8. q.ep = Nil
    BY <1>2 DEF ReqInv, PolicyInv
  <1>9. PolicyInv(p)
    BY <1>5, <1>6, <1>8 DEF PolicyInv, Decided
  <1>10. q.pc \in AfterLoaded /\ q.pc \in AfterMatch /\ p.pc \in AfterLoaded \cup {"done"}
    BY <1>2, <1>5 DEF AfterLoaded, AfterMatch
  <1> QED BY <1>2, <1>6, <1>7, <1>9, <1>10, AdvanceInv

\* An accepted token was issued by the application's realm or the operator's.
LEMMA AuthenticateSound ==
  ASSUME NEW cfg, NEW app, NEW tok, NEW a \in authenticate(cfg, app, tok), a.ok, a.claims # Nil
  PROVE  tok.iss \in {keycloakRealmFor(cfg, app), cfg.operator}
  BY DEF authenticate

\* Claims are attached only for a token of an accepted issuer.
LEMMA CredentialInv ==
  ASSUME GInv, NEW r \in Requests, Credential(r)
  PROVE  ReqInv(rq'[r])
  <1>1. SUFFICES ASSUME NEW q, q = rq[r], NEW p, p = rq'[r] PROVE ReqInv(p)
    OBVIOUS
  <1>2. ReqInv(q) /\ RequestTypeOK(q) /\ DOMAIN q = RequestFields /\ q.pc = "credential"
    BY <1>1, StepFacts DEF Credential, RequestTypeOK
  <1>3. \/ p = Answer(q, 401, "issuer_rejected")
        \/ \E a \in authenticate(Cfg(q), q.target, q.in.token) :
             a.ok /\ p = Goto([q EXCEPT !.claims = a.claims], "principal")
    BY <1>1, StepFacts DEF Credential, Become
  <1>4. CASE p = Answer(q, 401, "issuer_rejected")
    BY <1>2, <1>4, DeniedInv DEF Codes, FORWARD
  <1>5. CASE \E a \in authenticate(Cfg(q), q.target, q.in.token) :
               a.ok /\ p = Goto([q EXCEPT !.claims = a.claims], "principal")
    <2>1. PICK a \in authenticate(Cfg(q), q.target, q.in.token) :
            a.ok /\ \E e : e = [q EXCEPT !.claims = a.claims] /\ p = Goto(e, "principal")
      BY <1>5
    <2>2. PICK e : e = [q EXCEPT !.claims = a.claims] /\ p = Goto(e, "principal")
      BY <2>1
    <2>3. /\ DOMAIN e = RequestFields /\ e.in = q.in /\ e.hostApp = q.hostApp /\ e.target = q.target
          /\ e.resVer = q.resVer /\ e.hostVer = q.hostVer /\ e.polVer = q.polVer
          /\ e.plan = q.plan /\ e.code = q.code /\ e.ep = q.ep /\ e.epVer = q.epVer
          /\ e.claims = a.claims
      BY <1>2, <2>2 DEF RequestFields
    <2>4. Follows(p, e) /\ p.plan = e.plan /\ p.pc = "principal" /\ p.code = e.code
      <3>1. p = Goto(e, "principal")
        BY <2>2
      <3> QED BY ONLY <2>3, <3>1, GotoFields
    <2>5. /\ Keeps(p, q) /\ p.in = q.in /\ p.target = q.target /\ p.ep = q.ep /\ p.epVer = q.epVer
          /\ p.claims = a.claims
      BY ONLY <2>3, <2>4 DEF Follows, Keeps
    <2>6. WellFormed(p)
      BY ONLY <1>2, <2>3, <2>4 DEF Follows, WellFormed, PCs, RequestTypeOK
    <2>7. Cfg(q).policy /\ Matched(q)
      BY <1>2 DEF ReqInv, PolicyInv
    <2>8. Cfg(p) = Cfg(q) /\ Matched(p)
      BY <2>5, <2>7 DEF Cfg, Matched
    <2>9. TokenAccepted(p)
      BY <2>1, <2>5, <2>7, <2>8, AuthenticateSound DEF TokenAccepted, AcceptedIssuers
    <2>10. PolicyInv(p)
      BY <2>4, <2>7, <2>8, <2>9 DEF PolicyInv, Decided, Forwarded
    <2>11. q.pc \in AfterLoaded /\ q.pc \in AfterMatch /\ p.pc \in AfterLoaded \cup {"done"}
      BY <1>2, <2>4 DEF AfterLoaded, AfterMatch
    <2> QED BY <1>2, <2>5, <2>6, <2>10, <2>11, AdvanceInv
  <1> QED BY <1>3, <1>4, <1>5

\* A request edited in place keeps its type.
LEMMA EditedType ==
  ASSUME NEW q, RequestTypeOK(q), NEW e, DOMAIN e = RequestFields,
         e.pc = q.pc, e.in = q.in, e.code = q.code, e.plan \in Plans \cup {Nil},
         e.resVer = q.resVer, e.epVer = q.epVer, e.hostVer = q.hostVer, e.polVer \in Versions
  PROVE  RequestTypeOK(e)
  BY DEF RequestTypeOK

\* The permission decision stands as long as nothing it rests on is read again.
LEMMA DecisionKept ==
  ASSUME NEW q, Matched(q), PermissionHeld(q), NEW p, Follows(p, q)
  PROVE  Matched(p) /\ PermissionHeld(p)
  BY DEF Matched, PermissionHeld, Follows, AcceptedIssuers, PrincipalRead, Cfg

\* The permission is decided under policies not older than the endpoint.
LEMMA PrincipalInv ==
  ASSUME GInv, NEW r \in Requests, Principal(r)
  PROVE  ReqInv(rq'[r])
  <1>1. SUFFICES ASSUME NEW q, q = rq[r], NEW p, p = rq'[r] PROVE ReqInv(p)
    OBVIOUS
  <1>2. /\ ReqInv(q) /\ RequestTypeOK(q) /\ DOMAIN q = RequestFields /\ q.pc = "principal"
        /\ snapVer \in Versions
    BY <1>1, StepFacts DEF Principal, RequestTypeOK
  <1>0. SUFFICES ASSUME NEW e, e = [q EXCEPT !.pr = principalFor(q), !.polVer = snapVer]
                 PROVE  ReqInv(p)
    OBVIOUS
  <1>3. /\ e = [q EXCEPT !.pr = principalFor(q), !.polVer = snapVer]
        /\ p = IF q.ep.perm = NoPerm THEN Goto(e, "identity")
               ELSE IF q.claims = Nil THEN Answer(e, 401, "no_token")
               ELSE IF granted(e.pr, q.ep.perm, q.target)
                    THEN Goto(e, "identity")
                    ELSE Answer(e, 403, "no_matching_statement")
    BY <1>0, <1>1, StepFacts, BecomeIs DEF Principal
  <1>4. /\ DOMAIN e = RequestFields /\ e.in = q.in /\ e.hostApp = q.hostApp /\ e.target = q.target
        /\ e.resVer = q.resVer /\ e.hostVer = q.hostVer /\ e.polVer = snapVer
        /\ e.plan = q.plan /\ e.code = q.code /\ e.ep = q.ep /\ e.epVer = q.epVer
        /\ e.claims = q.claims /\ e.pc = q.pc /\ e.pr = principalFor(q)
    <2>1. e = [q EXCEPT !.pr = principalFor(q), !.polVer = snapVer]
      BY <1>3
    <2> QED BY ONLY <1>2, <2>1 DEF RequestFields
  <1>5. CASE \E code \in {401, 403} : \E reason : p = Answer(e, code, reason)
    <2>1. RequestTypeOK(e) /\ e.pc # "idle"
      BY <1>2, <1>4, EditedType DEF RequestTypeOK
    <2> QED BY <1>5, <2>1, DeniedInv DEF Codes, FORWARD
  <1>6. CASE /\ p = Goto(e, "identity")
             /\ q.ep.perm # NoPerm => q.claims # Nil /\ granted(e.pr, q.ep.perm, q.target)
    <2>1. Follows(p, e) /\ p.plan = e.plan /\ p.pc = "identity" /\ p.code = e.code
      <3>1. p = Goto(e, "identity")
        BY <1>6
      <3> QED BY ONLY <1>4, <3>1, GotoFields
    <2>2. /\ Keeps(p, q) /\ p.in = q.in /\ p.target = q.target /\ p.ep = q.ep /\ p.epVer = q.epVer
          /\ p.claims = q.claims /\ p.polVer = snapVer
      BY ONLY <1>4, <2>1 DEF Follows, Keeps
    <2>3. WellFormed(p)
      BY ONLY <1>2, <1>4, <2>1 DEF Follows, WellFormed, PCs, RequestTypeOK
    <2>4. Cfg(q).policy /\ Matched(q) /\ TokenAccepted(q)
      BY <1>2 DEF ReqInv, PolicyInv
    <2>5. Cfg(p) = Cfg(q) /\ Matched(p) /\ AcceptedIssuers(p) = AcceptedIssuers(q)
      BY <2>2, <2>4 DEF Cfg, Matched, AcceptedIssuers
    <2>6. PermissionHeld(p)
      <3>1. p.epVer <= p.polVer /\ p.polVer <= snapVer
        BY <1>2, <2>2, <2>5 DEF Matched, Versions
      <3>2. ASSUME p.ep.perm # NoPerm
            PROVE  /\ p.claims # Nil
                   /\ p.in.token.iss \in AcceptedIssuers(p)
                   /\ granted(PrincipalRead(p), p.ep.perm, p.target)
        <4>1. q.claims # Nil /\ granted(e.pr, q.ep.perm, q.target)
          BY <1>6, <2>2, <3>2
        <4>2. e.pr = PrincipalRead(p)
          BY <1>4, <2>2, <4>1 DEF principalFor, PrincipalRead
        <4> QED BY <2>2, <2>4, <2>5, <4>1, <4>2 DEF TokenAccepted
      <3> QED BY <3>1, <3>2 DEF PermissionHeld
    <2>7. PolicyInv(p)
      BY <2>1, <2>4, <2>5, <2>6 DEF PolicyInv, Decided, Forwarded
    <2>8. q.pc \in AfterLoaded /\ q.pc \in AfterMatch /\ p.pc \in AfterLoaded \cup {"done"}
      BY <1>2, <2>1 DEF AfterLoaded, AfterMatch
    <2> QED BY <1>2, <2>2, <2>3, <2>7, <2>8, AdvanceInv
  <1> QED BY <1>3, <1>5, <1>6

\* Stamping changes the plan and the headers only.
LEMMA StampFields ==
  ASSUME NEW q, DOMAIN q = RequestFields, NEW plan, NEW admin, NEW roles,
         NEW e, e = stampIdentity(q, plan, admin, roles)
  PROVE  Follows(e, q) /\ e.plan = plan /\ e.code = q.code /\ e.pc = q.pc
  <1>1. PICK hdr : e = [q EXCEPT !.plan = plan, !.hdr = hdr]
    BY DEF stampIdentity
  <1> QED BY <1>1 DEF RequestFields, Follows

\* The request whose plan is known: the anonymous one or a stamped one.
HasPlan(e, q) ==
  /\ Follows(e, q) /\ e.plan \in Plans /\ e.code = q.code /\ e.pc = q.pc

\* The plan of an anonymous request.
LEMMA DefaultPlan ==
  ASSUME NEW q, DOMAIN q = RequestFields, q.in \in Inputs,
         NEW e, e = [q EXCEPT !.plan = Cfg(q).defaultPlan]
  PROVE  HasPlan(e, q)
  <1>1. Cfg(q).defaultPlan \in Plans
    BY ConfigAssumption DEF Cfg
  <1>2. PICK plan \in Plans : e = [q EXCEPT !.plan = plan]
    BY <1>1
  <1> QED BY <1>2 DEF RequestFields, Follows, HasPlan

\* Plan, headers and owner gate leave the decision as it is.
LEMMA IdentityInv ==
  ASSUME GInv, NEW r \in Requests, Identity(r)
  PROVE  ReqInv(rq'[r])
  <1>1. SUFFICES ASSUME NEW q, q = rq[r], NEW p, p = rq'[r] PROVE ReqInv(p)
    OBVIOUS
  <1>2. /\ ReqInv(q) /\ RequestTypeOK(q) /\ DOMAIN q = RequestFields /\ q.pc = "identity"
        /\ q.in \in Inputs /\ q.code = Nil /\ q.polVer \in Versions
    BY <1>1, StepFacts DEF Identity, RequestTypeOK
  <1>3. \/ p = Answer(q, 401, "no_token")
        \/ \E e : e = [q EXCEPT !.plan = Cfg(q).defaultPlan] /\ p = Goto(e, "rateLimit")
        \/ \E plan \in Plans : \E admin, roles :
             \/ p = Answer(stampIdentity(q, plan, admin, roles), 403, "owner_mismatch")
             \/ p = Answer(stampIdentity(q, plan, admin, roles), FORWARD, Nil)
             \/ p = Goto(stampIdentity(q, plan, admin, roles), "rateLimit")
    BY <1>1, StepFacts DEF Identity, Become, forward
  <1>4. \/ p = Answer(q, 401, "no_token")
        \/ \E e : /\ HasPlan(e, q)
                  /\ \/ p = Answer(e, 403, "owner_mismatch")
                     \/ p = Answer(e, FORWARD, Nil)
                     \/ p = Goto(e, "rateLimit")
    BY <1>2, <1>3, StampFields, DefaultPlan DEF HasPlan
  <1>5. CASE p = Answer(q, 401, "no_token")
    BY <1>2, <1>5, DeniedInv DEF Codes, FORWARD
  <1>6. ASSUME NEW e, HasPlan(e, q),
               \/ p = Answer(e, 403, "owner_mismatch")
               \/ p = Answer(e, FORWARD, Nil)
               \/ p = Goto(e, "rateLimit")
        PROVE  ReqInv(p)
    <2>1. Follows(e, q) /\ DOMAIN e = RequestFields /\ e.plan \in Plans /\ e.code = q.code /\ e.pc = q.pc
      BY <1>6 DEF HasPlan, Follows
    <2>2. CASE p = Answer(e, 403, "owner_mismatch")
      <3>1. RequestTypeOK(e)
        BY <1>2, <2>1, EditedType DEF Follows
      <3> QED BY <1>2, <2>1, <2>2, <3>1, DeniedInv DEF Codes, FORWARD
    <2>3. CASE p = Answer(e, FORWARD, Nil) \/ p = Goto(e, "rateLimit")
      <3>1. /\ Follows(p, e) /\ p.plan = e.plan
            /\ \/ p.pc = "done" /\ p.code = FORWARD
               \/ p.pc = "rateLimit" /\ p.code = e.code
        BY ONLY <2>1, <2>3, GotoFields, AnswerFields
      <3>2. Follows(p, q) /\ Keeps(p, q) /\ p.epVer = q.epVer
        BY ONLY <2>1, <3>1 DEF Follows, Keeps
      <3>3. WellFormed(p)
        BY <1>2, <2>1, <3>1, <3>2 DEF Follows, WellFormed, PCs, Codes, RequestTypeOK
      <3>4. Cfg(q).policy /\ Matched(q) /\ PermissionHeld(q)
        BY <1>2 DEF ReqInv, PolicyInv, Decided
      <3>5. Matched(p) /\ PermissionHeld(p)
        BY <3>2, <3>4, DecisionKept
      <3>6. PolicyInv(p)
        BY <3>1, <3>5 DEF PolicyInv
      <3>7. q.pc \in AfterLoaded /\ q.pc \in AfterMatch /\ p.pc \in AfterLoaded \cup {"done"}
        BY <1>2, <3>1 DEF AfterLoaded, AfterMatch
      <3> QED BY <1>2, <3>2, <3>3, <3>6, <3>7, AdvanceInv
    <2> QED BY <1>6, <2>2, <2>3
  <1> QED BY <1>4, <1>5, <1>6

\* The rate limit leaves the decision as it is.
LEMMA RateLimitInv ==
  ASSUME GInv, NEW r \in Requests, RateLimit(r)
  PROVE  ReqInv(rq'[r])
  <1>1. SUFFICES ASSUME NEW q, q = rq[r], NEW p, p = rq'[r] PROVE ReqInv(p)
    OBVIOUS
  <1>2. ReqInv(q) /\ RequestTypeOK(q) /\ DOMAIN q = RequestFields /\ q.pc = "rateLimit"
    BY <1>1, StepFacts DEF RateLimit, RequestTypeOK
  <1>3. p = Answer(q, FORWARD, Nil) \/ p = Answer(q, 429, Nil)
    BY <1>1, StepFacts DEF RateLimit, Become, forward
  <1>4. CASE p = Answer(q, 429, Nil)
    BY <1>2, <1>4, DeniedInv DEF Codes, FORWARD
  <1>5. CASE p = Answer(q, FORWARD, Nil)
    <2>1. Follows(p, q) /\ p.plan = q.plan /\ p.pc = "done" /\ p.code = FORWARD
      BY ONLY <1>2, <1>5, AnswerFields
    <2>2. Keeps(p, q) /\ p.epVer = q.epVer
      BY <2>1 DEF Follows, Keeps
    <2>3. WellFormed(p)
      BY <1>2, <2>1 DEF Follows, WellFormed, PCs, Codes, RequestTypeOK
    <2>4. Decided(p) => Matched(p) /\ PermissionHeld(p)
      <3>1. Decided(p) => Decided(q)
        BY <1>2, <2>1 DEF Decided, Follows, Cfg
      <3>2. Decided(q) => Matched(q) /\ PermissionHeld(q)
        BY <1>2 DEF ReqInv, PolicyInv
      <3> QED BY <2>1, <3>1, <3>2, DecisionKept
    <2>5. PolicyInv(p)
      BY <2>1, <2>4 DEF PolicyInv
    <2>6. q.pc \in AfterLoaded /\ q.pc \in AfterMatch /\ p.pc \in AfterLoaded \cup {"done"}
      BY <1>2, <2>1 DEF AfterLoaded, AfterMatch
    <2> QED BY <1>2, <2>2, <2>3, <2>5, <2>6, AdvanceInv
  <1> QED BY <1>3, <1>4, <1>5

\* The legacy engine owes nothing to the policies.
LEMMA LegacyMove ==
  ASSUME NEW q, ReqInv(q), q.pc \in {"legacyCredential", "legacyAuthorize", "legacyIdentity"},
         NEW e, DOMAIN e = RequestFields, e.in = q.in, e.hostApp = q.hostApp,
         e.resVer = q.resVer, e.epVer = q.epVer, e.hostVer = q.hostVer,
         e.plan \in Plans \cup {Nil}, e.code = q.code, e.polVer \in Versions,
         NEW pc \in {"legacyAuthorize", "legacyIdentity", "rateLimit"}
  PROVE  ReqInv(Goto(e, pc))
  <1>1. SUFFICES ASSUME NEW p, p = Goto(e, pc) PROVE ReqInv(p)
    OBVIOUS
  <1>2. Follows(p, e) /\ p.pc = pc /\ p.code = e.code /\ p.plan = e.plan
    BY <1>1, GotoFields
  <1>3. Keeps(p, q) /\ p.epVer = q.epVer
    BY <1>2 DEF Follows, Keeps
  <1>4. RequestTypeOK(q) /\ ~Cfg(q).policy
    BY DEF ReqInv, PolicyInv
  <1>5. WellFormed(p)
    BY <1>2, <1>4 DEF WellFormed, PCs, RequestTypeOK, Follows
  <1>6. ~Cfg(p).policy
    BY <1>3, <1>4 DEF Cfg, Keeps
  <1>7. PolicyInv(p)
    BY <1>2, <1>6 DEF PolicyInv, Decided, Forwarded
  <1>8. q.pc \in AfterLoaded /\ q.pc \in AfterMatch /\ p.pc \in AfterLoaded \cup {"done"}
    BY <1>2 DEF AfterLoaded, AfterMatch
  <1> QED BY <1>3, <1>5, <1>7, <1>8, AdvanceInv

\* The legacy engine looks its endpoint up in the snapshot held now.
LEMMA LegacyMatchInv ==
  ASSUME GInv, NEW r \in Requests, LegacyMatch(r)
  PROVE  ReqInv(rq'[r])
  <1>1. SUFFICES ASSUME NEW q, q = rq[r], NEW p, p = rq'[r] PROVE ReqInv(p)
    OBVIOUS
  <1>2. /\ ReqInv(q) /\ RequestTypeOK(q) /\ DOMAIN q = RequestFields /\ q.pc = "legacyMatch"
        /\ snapVer \in Versions
    BY <1>1, StepFacts DEF LegacyMatch, RequestTypeOK
  <1>3. PICK e, hit : /\ e = [q EXCEPT !.target = q.hostApp, !.ep = hit, !.epVer = snapVer]
                      /\ p = Answer(e, FORWARD, Nil) \/ p = Goto(e, "legacyCredential")
    BY <1>1, StepFacts DEF LegacyMatch, Become, forward
  <1>4. /\ DOMAIN e = RequestFields /\ e.in = q.in /\ e.hostApp = q.hostApp
        /\ e.resVer = q.resVer /\ e.hostVer = q.hostVer /\ e.polVer = q.polVer
        /\ e.plan = q.plan /\ e.code = q.code /\ e.epVer = snapVer
    BY <1>2, <1>3 DEF RequestFields
  <1>5. /\ Follows(p, e) /\ p.plan = e.plan
        /\ \/ p.pc = "legacyCredential" /\ p.code = e.code
           \/ p.pc = "done" /\ p.code = FORWARD
    <2>1. p = Answer(e, FORWARD, Nil) \/ p = Goto(e, "legacyCredential")
      BY <1>3
    <2> QED BY ONLY <1>4, <2>1, GotoFields, AnswerFields
  <1>6. Keeps(p, q) /\ p.epVer = snapVer
    BY ONLY <1>4, <1>5 DEF Follows, Keeps
  <1>7. WellFormed(p)
    BY ONLY <1>2, <1>4, <1>5 DEF Follows, WellFormed, PCs, Codes, RequestTypeOK
  <1>8. ~Cfg(p).policy
    BY <1>2, <1>6 DEF ReqInv, PolicyInv, Cfg, Keeps
  <1>9. PolicyInv(p)
    BY <1>5, <1>8 DEF PolicyInv, Decided
  <1>10. q.pc \in AfterLoaded /\ p.pc \in AfterLoaded \cup {"done"}
    BY <1>2, <1>5 DEF AfterLoaded, AfterMatch
  <1> QED BY <1>2, <1>6, <1>7, <1>9, <1>10, AdvanceInv

\* The legacy engine attaches claims and moves on, or refuses.
LEMMA LegacyCredentialInv ==
  ASSUME GInv, NEW r \in Requests, LegacyCredential(r)
  PROVE  ReqInv(rq'[r])
  <1>1. SUFFICES ASSUME NEW q, q = rq[r], NEW p, p = rq'[r] PROVE ReqInv(p)
    OBVIOUS
  <1>2. /\ ReqInv(q) /\ RequestTypeOK(q) /\ DOMAIN q = RequestFields /\ q.pc = "legacyCredential"
        /\ q.plan \in Plans \cup {Nil} /\ q.polVer \in Versions
    BY <1>1, StepFacts DEF LegacyCredential, RequestTypeOK
  <1>3. \/ p = Answer(q, 401, "issuer_rejected")
        \/ p = Goto(q, "legacyAuthorize")
        \/ \E e, c : e = [q EXCEPT !.claims = c] /\ p = Goto(e, "legacyAuthorize")
    BY <1>1, StepFacts DEF LegacyCredential, Become
  <1>4. CASE p = Answer(q, 401, "issuer_rejected")
    BY <1>2, <1>4, DeniedInv DEF Codes, FORWARD
  <1>5. CASE p = Goto(q, "legacyAuthorize")
    BY <1>2, <1>5, LegacyMove
  <1>6. ASSUME NEW e, NEW c, e = [q EXCEPT !.claims = c], p = Goto(e, "legacyAuthorize")
        PROVE  ReqInv(p)
    <2>1. /\ DOMAIN e = RequestFields /\ e.in = q.in /\ e.hostApp = q.hostApp
          /\ e.resVer = q.resVer /\ e.hostVer = q.hostVer /\ e.polVer = q.polVer
          /\ e.plan = q.plan /\ e.code = q.code /\ e.epVer = q.epVer
      BY <1>2, <1>6 DEF RequestFields
    <2> QED BY <1>2, <1>6, <2>1, LegacyMove
  <1> QED BY <1>3, <1>4, <1>5, <1>6

\* The legacy decision and its shadow verdict.
LEMMA LegacyAuthorizeInv ==
  ASSUME GInv, NEW r \in Requests, LegacyAuthorize(r)
  PROVE  ReqInv(rq'[r])
  <1>1. SUFFICES ASSUME NEW q, q = rq[r], NEW p, p = rq'[r] PROVE ReqInv(p)
    OBVIOUS
  <1>2. /\ ReqInv(q) /\ RequestTypeOK(q) /\ DOMAIN q = RequestFields /\ q.pc = "legacyAuthorize"
        /\ q.plan \in Plans \cup {Nil} /\ snapVer \in Versions
    BY <1>1, StepFacts DEF LegacyAuthorize, RequestTypeOK
  <1>0. SUFFICES ASSUME NEW e, e = [q EXCEPT !.shadow = shadowVerdict(q), !.polVer = snapVer]
                 PROVE  ReqInv(p)
    OBVIOUS
  <1>3. /\ e = [q EXCEPT !.shadow = shadowVerdict(q), !.polVer = snapVer]
        /\ p = IF requiredPermission(Cfg(q), q.ep) = NoPerm
               THEN Goto(e, "legacyIdentity")
               ELSE IF q.claims = Nil THEN Answer(e, 401, "no_token")
               ELSE IF q.claims.admin THEN Goto(e, "legacyIdentity")
               ELSE Answer(e, 403, "no_matching_statement")
    BY <1>0, <1>1, StepFacts, BecomeIs DEF LegacyAuthorize
  <1>4. /\ DOMAIN e = RequestFields /\ e.in = q.in /\ e.hostApp = q.hostApp /\ e.pc = q.pc
        /\ e.resVer = q.resVer /\ e.hostVer = q.hostVer /\ e.polVer = snapVer
        /\ e.plan = q.plan /\ e.code = q.code /\ e.epVer = q.epVer
    BY <1>2, <1>3 DEF RequestFields
  <1>5. CASE p = Goto(e, "legacyIdentity")
    BY <1>2, <1>4, <1>5, LegacyMove
  <1>6. CASE \E code \in {401, 403} : \E reason : p = Answer(e, code, reason)
    <2>1. RequestTypeOK(e) /\ e.pc # "idle"
      BY <1>2, <1>4, EditedType
    <2> QED BY <1>6, <2>1, DeniedInv DEF Codes, FORWARD
  <1> QED BY <1>3, <1>5, <1>6

\* Plan, headers and owner gate of the legacy engine.
LEMMA LegacyIdentityInv ==
  ASSUME GInv, NEW r \in Requests, LegacyIdentity(r)
  PROVE  ReqInv(rq'[r])
  <1>1. SUFFICES ASSUME NEW q, q = rq[r], NEW p, p = rq'[r] PROVE ReqInv(p)
    OBVIOUS
  <1>2. /\ ReqInv(q) /\ RequestTypeOK(q) /\ DOMAIN q = RequestFields /\ q.pc = "legacyIdentity"
        /\ q.in \in Inputs /\ q.polVer \in Versions
    BY <1>1, StepFacts DEF LegacyIdentity, RequestTypeOK
  <1>3. \/ p = Answer(q, 401, Nil)
        \/ \E e : e = [q EXCEPT !.plan = Cfg(q).defaultPlan] /\ p = Goto(e, "rateLimit")
        \/ \E plan \in Plans : \E admin, roles :
             \/ p = Answer(stampIdentity(q, plan, admin, roles), 403, "owner_mismatch")
             \/ p = Goto(stampIdentity(q, plan, admin, roles), "rateLimit")
    <2>1. ASSUME NEW x, Become(r, x) PROVE p = x
      BY <1>1, <2>1, StepFacts, BecomeIs
    <2>2. CASE q.claims = Nil
      BY <1>1, <2>1, <2>2 DEF LegacyIdentity
    <2>3. CASE q.claims # Nil
      <3>1. PICK plan \in Plans :
              LET stamped == stampIdentity(rq[r], plan, rq[r].claims.admin, rq[r].claims.roles)
              IN Become(r,
                   IF rq[r].ep.owner # Nil /\ stamped.hdr["admin"] # "true"
                        /\ ~ownerMatches(extractOwner(rq[r].ep, rq[r].in), rq[r].claims)
                   THEN Answer(stamped, 403, "owner_mismatch")
                   ELSE Goto(stamped, "rateLimit"))
        BY ONLY <1>1, <2>3, LegacyIdentity(r) DEF LegacyIdentity
      <3> QED BY <1>1, <2>1, <3>1
    <2> QED BY <2>2, <2>3
  <1>4. \/ p = Answer(q, 401, Nil)
        \/ \E e : /\ HasPlan(e, q)
                  /\ p = Answer(e, 403, "owner_mismatch") \/ p = Goto(e, "rateLimit")
    BY <1>2, <1>3, StampFields, DefaultPlan DEF HasPlan
  <1>5. CASE p = Answer(q, 401, Nil)
    BY <1>2, <1>5, DeniedInv DEF Codes, FORWARD
  <1>6. ASSUME NEW e, HasPlan(e, q),
               p = Answer(e, 403, "owner_mismatch") \/ p = Goto(e, "rateLimit")
        PROVE  ReqInv(p)
    <2>1. /\ DOMAIN e = RequestFields /\ e.in = q.in /\ e.hostApp = q.hostApp /\ e.pc = q.pc
          /\ e.resVer = q.resVer /\ e.hostVer = q.hostVer /\ e.polVer = q.polVer
          /\ e.plan \in Plans \cup {Nil} /\ e.code = q.code /\ e.epVer = q.epVer
      BY <1>6 DEF HasPlan, Follows
    <2>2. CASE p = Answer(e, 403, "owner_mismatch")
      <3>1. RequestTypeOK(e) /\ e.pc # "idle"
        BY <1>2, <2>1, EditedType
      <3> QED BY <2>2, <3>1, DeniedInv DEF Codes, FORWARD
    <2>3. CASE p = Goto(e, "rateLimit")
      BY <1>2, <2>1, <2>3, LegacyMove
    <2> QED BY <1>6, <2>2, <2>3
  <1> QED BY <1>4, <1>5, <1>6

-----------------------------------------------------------------------------
(* The caches grow                                                         *)

\* Publishing leaves the earlier versions as they were.
LEMMA AppendGrows ==
  ASSUME NEW S, NEW s \in Seq(S), NEW c \in S
  PROVE  /\ Append(s, c) \in Seq(S) /\ Len(Append(s, c)) = Len(s) + 1
         /\ \A i \in 1..Len(s) : Append(s, c)[i] = s[i]
  OBVIOUS

\* The registry may go back to blank, but what was published stays.
RegGrows ==
  Len(regPub) <= Len(regPub') /\ \A v \in 1..Len(regPub) : regPub'[v] = regPub[v]

SnapGrows ==
  snapVer <= snapVer' /\ \A v \in 1..snapVer : snapPub'[v] = snapPub[v]

\* The registry cache alone.
RegInv == Reg!CacheTypeOK /\ RegistryHeld

SnapInv == Snap!CacheTypeOK /\ (snapLoaded => snapVer # 0)

\* The two caches are independent.
LEMMA CacheSplit == CacheInv <=> RegInv /\ SnapInv
  BY DEF CacheInv, RegInv, SnapInv

\* Bounds of the registry cache.
LEMMA RegFacts ==
  ASSUME RegInv
  PROVE  /\ regPub \in Seq(RegistryContents) /\ Len(regPub) \in 1..MaxPublish
         /\ regVer \in 0..Len(regPub) /\ regVer \in Nat /\ regLoaded \in BOOLEAN
         /\ Len(regPub) \in Nat /\ Len(regPub) <= Len(regPub)
  <1>1. /\ regPub \in Seq(RegistryContents) /\ Len(regPub) \in 1..MaxPublish
        /\ regVer \in 0..Len(regPub) /\ regLoaded \in BOOLEAN
    BY DEF RegInv, Reg!CacheTypeOK
  <1> QED BY <1>1

\* Bounds of the snapshot cache.
LEMMA SnapFacts ==
  ASSUME SnapInv
  PROVE  /\ snapPub \in Seq(SnapshotContents) /\ Len(snapPub) \in 1..MaxPublish
         /\ snapVer \in 0..Len(snapPub) /\ snapVer \in Nat /\ snapLoaded \in BOOLEAN
         /\ snapVer <= snapVer
  <1>1. /\ snapPub \in Seq(SnapshotContents) /\ Len(snapPub) \in 1..MaxPublish
        /\ snapVer \in 0..Len(snapPub) /\ snapLoaded \in BOOLEAN
    BY DEF SnapInv, Snap!CacheTypeOK
  <1> QED BY <1>1

\* A step of someone else leaves the registry cache as it was.
LEMMA RegSame ==
  ASSUME RegInv, UNCHANGED regVars PROVE RegInv' /\ RegGrows
  <1>1. RegInv'
    BY DEF RegInv, regVars, RegistryHeld, Reg!CacheTypeOK
  <1> QED BY <1>1, RegFacts DEF RegGrows, regVars

\* A step of someone else leaves the snapshot cache as it was.
LEMMA SnapSame ==
  ASSUME SnapInv, UNCHANGED snapVars PROVE SnapInv' /\ SnapGrows
  <1>1. SnapInv'
    BY DEF SnapInv, snapVars, Snap!CacheTypeOK
  <1> QED BY <1>1, SnapFacts DEF SnapGrows, snapVars

\* The registry cache keeps its invariant and its history.
LEMMA RegStep ==
  ASSUME RegInv, PublishRegistry \/ RefreshRegistry \/ BlankRegistry
  PROVE  RegInv' /\ RegGrows
  <1> USE MaxPublishAssumption
  <1>f. /\ regPub \in Seq(RegistryContents) /\ Len(regPub) \in 1..MaxPublish
        /\ regVer \in 0..Len(regPub) /\ regVer \in Nat /\ regLoaded \in BOOLEAN
    BY RegFacts
  <1>1. CASE PublishRegistry
    <2>1. PICK c \in RegistryContents :
            /\ Len(regPub) < MaxPublish /\ regPub' = Append(regPub, c)
            /\ regVer' = regVer /\ regLoaded' = regLoaded /\ registry' = registry
      BY <1>1 DEF PublishRegistry, Reg!Publish
    <2>2. /\ regPub' \in Seq(RegistryContents) /\ Len(regPub') = Len(regPub) + 1
          /\ \A i \in 1..Len(regPub) : regPub'[i] = regPub[i]
      BY <1>f, <2>1, AppendGrows
    <2>3. Len(regPub') \in 1..MaxPublish /\ regVer' \in 0..Len(regPub')
      BY <1>f, <2>1, <2>2
    <2>4. Reg!CacheTypeOK'
      BY <1>f, <2>1, <2>2, <2>3 DEF Reg!CacheTypeOK
    <2>5. RegGrows
      BY <1>f, <2>1, <2>2 DEF RegGrows
    <2>6. RegistryHeld'
      <3>1. CASE regVer = 0
        BY <3>1, <2>1 DEF RegInv, RegistryHeld
      <3>2. CASE regVer # 0
        <4>1. regPub'[regVer] = regPub[regVer]
          BY <3>2, <1>f, <2>5 DEF RegGrows
        <4> QED BY <3>2, <4>1, <2>1 DEF RegInv, RegistryHeld
      <3> QED BY <3>1, <3>2
    <2> QED BY <2>4, <2>5, <2>6 DEF RegInv
  <1>2. CASE RefreshRegistry
    <2>1. PICK v \in 1..Len(regPub) :
            /\ v >= regVer /\ regVer' = v /\ regLoaded' = TRUE /\ regPub' = regPub
            /\ registry' \in compileRegistry(regPub[v])
      BY <1>2 DEF RefreshRegistry, Reg!Install
    <2>2. Reg!CacheTypeOK'
      BY <1>f, <2>1 DEF Reg!CacheTypeOK
    <2>3. RegGrows
      BY <1>f, <2>1 DEF RegGrows
    <2>4. v # 0
      BY <1>f, <2>1
    <2>5. RegistryHeld'
      BY <2>1, <2>4 DEF RegistryHeld
    <2> QED BY <2>2, <2>3, <2>5 DEF RegInv
  <1>3. CASE BlankRegistry
    <2>1. regVer' = 0 /\ regLoaded' = TRUE /\ registry' = EmptyRegistry /\ regPub' = regPub
      BY <1>3 DEF BlankRegistry
    <2>2. Reg!CacheTypeOK'
      BY <1>f, <2>1 DEF Reg!CacheTypeOK
    <2>3. RegGrows /\ RegistryHeld'
      BY <1>f, <2>1 DEF RegGrows, RegistryHeld
    <2> QED BY <2>2, <2>3 DEF RegInv
  <1> QED BY <1>1, <1>2, <1>3

\* The snapshot cache keeps its invariant and only grows.
LEMMA SnapStep ==
  ASSUME SnapInv, PublishSnapshot \/ RefreshSnapshot \/ StoreLoaded
  PROVE  SnapInv' /\ SnapGrows
  <1> USE MaxPublishAssumption
  <1>f. /\ snapPub \in Seq(SnapshotContents) /\ Len(snapPub) \in 1..MaxPublish
        /\ snapVer \in 0..Len(snapPub) /\ snapVer \in Nat /\ snapLoaded \in BOOLEAN
    BY SnapFacts
  <1>1. CASE PublishSnapshot
    <2>1. PICK c \in SnapshotContents :
            /\ Len(snapPub) < MaxPublish /\ snapPub' = Append(snapPub, c)
            /\ snapVer' = snapVer /\ snapLoaded' = snapLoaded
      BY <1>1 DEF PublishSnapshot, Snap!Publish
    <2>2. /\ snapPub' \in Seq(SnapshotContents) /\ Len(snapPub') = Len(snapPub) + 1
          /\ \A i \in 1..Len(snapPub) : snapPub'[i] = snapPub[i]
      BY <1>f, <2>1, AppendGrows
    <2>3. Len(snapPub') \in 1..MaxPublish /\ snapVer' \in 0..Len(snapPub')
      BY <1>f, <2>1, <2>2
    <2>4. Snap!CacheTypeOK'
      BY <1>f, <2>1, <2>2, <2>3 DEF Snap!CacheTypeOK
    <2>5. SnapGrows
      BY <1>f, <2>1, <2>2 DEF SnapGrows
    <2> QED BY <2>1, <2>4, <2>5 DEF SnapInv
  <1>2. CASE RefreshSnapshot
    <2>1. PICK v \in 1..Len(snapPub) :
            v >= snapVer /\ snapVer' = v /\ snapLoaded' = snapLoaded /\ snapPub' = snapPub
      BY <1>2 DEF RefreshSnapshot, Snap!Install
    <2>2. Snap!CacheTypeOK'
      BY <1>f, <2>1 DEF Snap!CacheTypeOK
    <2>3. SnapGrows /\ snapVer' # 0
      BY <1>f, <2>1 DEF SnapGrows
    <2> QED BY <2>1, <2>2, <2>3 DEF SnapInv
  <1>3. CASE StoreLoaded
    <2>1. snapVer # 0 /\ snapLoaded' = TRUE /\ snapVer' = snapVer /\ snapPub' = snapPub
      BY <1>3 DEF StoreLoaded, Snap!MarkLoaded
    <2>2. Snap!CacheTypeOK'
      BY <1>f, <2>1 DEF Snap!CacheTypeOK
    <2>3. SnapGrows
      BY <1>f, <2>1 DEF SnapGrows
    <2> QED BY <2>1, <2>2, <2>3 DEF SnapInv
  <1> QED BY <1>1, <1>2, <1>3

\* What a request remembers stays true while the caches grow, whoever took
\* the step.
LEMMA ReqInvKept ==
  ASSUME GInv, NEW r \in Requests, ReqInv(rq'[r]), RegGrows, SnapGrows,
         RegInv', snapVer' \in Nat
  PROVE  ReqInv(rq[r])'
  <1> DEFINE p == rq'[r]
  <1>f. RegInv /\ SnapInv /\ snapVer \in Nat
    BY CacheSplit, SnapFacts DEF GInv
  <1>n. Len(regPub) \in Nat /\ Len(regPub') \in Nat
    BY <1>f, RegFacts DEF RegInv, Reg!CacheTypeOK
  <1>1. RequestTypeOK(p) /\ RequestTypeOK(rq[r])'
    BY DEF ReqInv, RequestTypeOK
  <1>v. p.resVer \in Nat /\ p.epVer \in Nat /\ p.polVer \in Nat
    BY <1>1, MaxPublishAssumption DEF RequestTypeOK, Versions
  <1>2. Resolved(p) => Resolved(rq[r])'
    <2>1. SUFFICES ASSUME Resolved(p) PROVE Resolved(rq[r])'
      OBVIOUS
    <2>2. p.resVer \in 1..Len(regPub)
      BY <2>1 DEF Resolved
    <2>3. p.resVer \in 1..Len(regPub')
      BY <2>2, <1>n DEF RegGrows
    <2>4. regPub'[p.resVer] = regPub[p.resVer]
      BY <2>2 DEF RegGrows
    <2> QED BY <2>1, <2>2, <2>3, <2>4 DEF Resolved
  <1>3. ASSUME p.epVer <= snapVer
        PROVE  p.epVer <= snapVer' /\ EndpointsAt(rq[r].epVer)' = EndpointsAt(p.epVer)
    <2>1. p.epVer <= snapVer'
      BY <1>3, <1>v, <1>f DEF SnapGrows
    <2>2. p.epVer # 0 => snapPub'[p.epVer] = snapPub[p.epVer]
      BY <1>3, <1>v, <1>f DEF SnapGrows
    <2> QED BY <2>1, <2>2 DEF EndpointsAt
  <1>4. ASSUME p.polVer <= snapVer
        PROVE  p.polVer <= snapVer' /\ IndexAt(rq[r].polVer)' = IndexAt(p.polVer)
    <2>1. p.polVer <= snapVer'
      BY <1>4, <1>v, <1>f DEF SnapGrows
    <2>2. p.polVer # 0 => snapPub'[p.polVer] = snapPub[p.polVer]
      BY <1>4, <1>v, <1>f DEF SnapGrows
    <2> QED BY <2>1, <2>2 DEF IndexAt
  <1>5. Matched(p) => Matched(rq[r])'
    BY <1>3 DEF Matched
  <1>6. PermissionHeld(p) => PermissionHeld(rq[r])'
    <2>1. SUFFICES ASSUME PermissionHeld(p) PROVE PermissionHeld(rq[r])'
      OBVIOUS
    <2>2. p.epVer <= p.polVer /\ p.polVer <= snapVer
      BY <2>1 DEF PermissionHeld
    <2>3. PrincipalRead(rq[r])' = PrincipalRead(p)
      BY <2>2, <1>4 DEF PrincipalRead
    <2> QED BY <2>1, <2>2, <2>3, <1>4 DEF PermissionHeld, AcceptedIssuers, Cfg
  <1>7. p.pc # "idle" => EnforceInv(rq[r])'
    <2>1. SUFFICES ASSUME p.pc # "idle" PROVE EnforceInv(rq[r])'
      OBVIOUS
    <2>2. EnforceInv(p)
      BY <2>1 DEF ReqInv
    <2>3. snapVer # 0 => snapVer' # 0
      BY <1>f DEF SnapGrows
    <2> QED BY <2>2, <2>3, <1>2 DEF EnforceInv, Cfg, Forwarded
  <1>8. p.pc # "idle" => PolicyInv(rq[r])'
    <2>1. SUFFICES ASSUME p.pc # "idle" PROVE PolicyInv(rq[r])'
      OBVIOUS
    <2>2. PolicyInv(p)
      BY <2>1 DEF ReqInv
    <2>3. TokenAccepted(p) => TokenAccepted(rq[r])'
      BY DEF TokenAccepted, AcceptedIssuers, Cfg
    <2>4. Decided(rq[r])' = Decided(p) /\ Cfg(rq[r])' = Cfg(p)
      BY DEF Decided, Cfg, Forwarded
    <2> QED BY <2>2, <2>3, <2>4, <1>5, <1>6 DEF PolicyInv, Cfg
  <1> QED BY <1>1, <1>7, <1>8 DEF ReqInv

-----------------------------------------------------------------------------
(* The invariant is inductive                                              *)

\* A request step: the request's own invariant holds after it.
LEMMA RequestStepInv ==
  ASSUME GInv, NEW r \in Requests, Arrive(r) \/ Serve(r) \/ Finish(r)
  PROVE  ReqInv(rq'[r])
  <1>1. CASE Arrive(r)
    BY <1>1, ArriveInv
  <1>2. CASE Finish(r)
    <2>1. rq'[r] = Idle
      BY <1>2, StepFacts DEF Finish, Become
    <2> QED BY <2>1, IdleInv
  <1>3. CASE Serve(r)
    BY <1>3, ResolveHostInv, ColdStartInv, CheckLoadedInv, IamCredentialInv, IamPrincipalInv,
       IamAppsInv, TargetAppInv, MatchTargetInv, MatchHostInv, CredentialInv, PrincipalInv,
       IdentityInv, RateLimitInv, LegacyMatchInv, LegacyCredentialInv, LegacyAuthorizeInv,
       LegacyIdentityInv
    DEF Serve
  <1> QED BY <1>1, <1>2, <1>3

\* A request step leaves the caches and the other requests alone.
LEMMA RequestStepFrame ==
  ASSUME GInv, NEW r \in Requests, Arrive(r) \/ Serve(r) \/ Finish(r)
  PROVE  UNCHANGED <<regVars, snapVars>> /\ \E q : rq' = [rq EXCEPT ![r] = q]
  <1>1. CASE Arrive(r) \/ Finish(r)
    BY <1>1 DEF Arrive, Finish, Become
  <1>2. CASE ResolveHost(r) \/ ColdStart(r) \/ CheckLoaded(r)
    BY <1>2 DEF ResolveHost, ColdStart, CheckLoaded, Become
  <1>3. CASE IamCredential(r) \/ IamPrincipal(r) \/ IamApps(r)
    BY <1>3 DEF IamCredential, IamPrincipal, IamApps, Become
  <1>4. CASE TargetApp(r) \/ MatchTarget(r) \/ MatchHost(r)
    BY <1>4 DEF TargetApp, MatchTarget, MatchHost, Become
  <1>5. CASE Credential(r) \/ Principal(r)
    BY <1>5 DEF Credential, Principal, Become
  <1>6. CASE Identity(r) \/ RateLimit(r)
    BY <1>6 DEF Identity, RateLimit, Become
  <1>7. CASE LegacyMatch(r) \/ LegacyCredential(r)
    BY <1>7 DEF LegacyMatch, LegacyCredential, Become
  <1>8. CASE LegacyAuthorize(r)
    BY <1>8 DEF LegacyAuthorize, Become
  <1>9. CASE LegacyIdentity(r)
    <2>1. PICK x : Become(r, x)
      BY <1>9 DEF LegacyIdentity
    <2> QED BY <1>9, <2>1 DEF LegacyIdentity, Become
  <1> QED BY <1>1, <1>2, <1>3, <1>4, <1>5, <1>6, <1>7, <1>8, <1>9 DEF Serve

\* Two cold caches and idle requests satisfy the invariant.
LEMMA GInvInit == Init => GInv
  <1> SUFFICES ASSUME Init PROVE GInv
    OBVIOUS
  <1> USE MaxPublishAssumption
  <1>1. PICK c \in RegistryContents : regPub = <<c>>
    BY DEF Init, Reg!CacheInit
  <1>2. PICK d \in SnapshotContents : snapPub = <<d>>
    BY DEF Init, Snap!CacheInit
  <1>3. /\ regVer = 0 /\ regLoaded = FALSE /\ snapVer = 0 /\ snapLoaded = FALSE
        /\ registry = EmptyRegistry /\ rq = [r \in Requests |-> Idle]
    BY DEF Init, Reg!CacheInit, Snap!CacheInit
  <1>4. Reg!CacheTypeOK
    <2>1. regPub \in Seq(RegistryContents) /\ Len(regPub) = 1
      BY <1>1
    <2>2. Len(regPub) \in 1..MaxPublish /\ regVer \in 0..Len(regPub)
      BY <1>3, <2>1
    <2> QED BY <1>3, <2>1, <2>2 DEF Reg!CacheTypeOK
  <1>5. Snap!CacheTypeOK
    <2>1. snapPub \in Seq(SnapshotContents) /\ Len(snapPub) = 1
      BY <1>2
    <2>2. Len(snapPub) \in 1..MaxPublish /\ snapVer \in 0..Len(snapPub)
      BY <1>3, <2>1
    <2> QED BY <1>3, <2>1, <2>2 DEF Snap!CacheTypeOK
  <1>6. CacheInv
    BY <1>3, <1>4, <1>5 DEF CacheInv, RegistryHeld
  <1>7. DOMAIN rq = Requests /\ \A r \in Requests : ReqInv(rq[r])
    BY <1>3, IdleInv
  <1> QED BY <1>6, <1>7 DEF GInv

\* Every step keeps the invariant.
LEMMA GInvStep == GInv /\ [Next]_vars => GInv'
  <1> SUFFICES ASSUME GInv, [Next]_vars PROVE GInv'
    OBVIOUS
  <1>f. RegInv /\ SnapInv /\ DOMAIN rq = Requests /\ \A r \in Requests : ReqInv(rq[r])
    BY CacheSplit DEF GInv
  <1>1. /\ RegInv' /\ RegGrows /\ SnapInv' /\ SnapGrows
        /\ DOMAIN rq' = Requests /\ \A r \in Requests : ReqInv(rq'[r])
    <2>1. CASE CacheStep
      <3>1. rq' = rq
        BY <2>1 DEF CacheStep, PublishRegistry, RefreshRegistry, PublishSnapshot,
                    RefreshSnapshot, StoreLoaded, BlankRegistry
      <3>2. RegInv' /\ RegGrows /\ SnapInv' /\ SnapGrows
        <4>1. CASE PublishRegistry \/ RefreshRegistry \/ BlankRegistry
          <5>1. UNCHANGED snapVars
            BY <4>1 DEF PublishRegistry, RefreshRegistry, BlankRegistry
          <5> QED BY <4>1, <5>1, <1>f, RegStep, SnapSame
        <4>2. CASE PublishSnapshot \/ RefreshSnapshot \/ StoreLoaded
          <5>1. UNCHANGED regVars
            BY <4>2 DEF PublishSnapshot, RefreshSnapshot, StoreLoaded
          <5> QED BY <4>2, <5>1, <1>f, SnapStep, RegSame
        <4> QED BY <2>1, <4>1, <4>2 DEF CacheStep
      <3> QED BY <3>1, <3>2, <1>f
    <2>2. ASSUME NEW r \in Requests, Arrive(r) \/ Serve(r) \/ Finish(r)
          PROVE  <1>1
      <3>1. UNCHANGED <<regVars, snapVars>>
        BY <2>2, RequestStepFrame
      <3>2. PICK q : rq' = [rq EXCEPT ![r] = q]
        BY <2>2, RequestStepFrame
      <3>3. ReqInv(rq'[r])
        BY <2>2, RequestStepInv
      <3>4. RegInv' /\ RegGrows /\ SnapInv' /\ SnapGrows
        BY <3>1, <1>f, RegSame, SnapSame
      <3>5. DOMAIN rq' = Requests /\ \A s \in Requests : s # r => rq'[s] = rq[s]
        BY <3>2, <1>f
      <3> QED BY <3>3, <3>4, <3>5, <1>f
    <2>3. CASE UNCHANGED vars
      <3>1. UNCHANGED regVars /\ UNCHANGED snapVars /\ rq' = rq
        BY <2>3 DEF vars
      <3> QED BY <3>1, <1>f, RegSame, SnapSame
    <2> QED BY <2>1, <2>2, <2>3 DEF Next
  <1>2. snapVer' \in Nat
    BY <1>1, MaxPublishAssumption DEF SnapInv, Snap!CacheTypeOK
  <1>3. ASSUME NEW r \in Requests PROVE ReqInv(rq[r])'
    <2>1. ReqInv(rq'[r])
      BY <1>1
    <2> QED BY <1>1, <1>2, <2>1, ReqInvKept
  <1>4. CacheInv'
    BY <1>1 DEF CacheInv, RegInv, SnapInv
  <1> QED BY <1>1, <1>3, <1>4 DEF GInv

-----------------------------------------------------------------------------
(* Theorems                                                                *)

\* A request in flight is always in a known stage, with a status exactly when
\* it is done and versions that were published (ServeHTTP and its handlers).
THEOREM Typing == Spec => []TypeOK
  <1>1. GInv => TypeOK
    BY DEF GInv, CacheInv, ReqInv, TypeOK
  <1> QED BY <1>1, GInvInit, GInvStep, PTL DEF Spec

\* In enforce mode the gateway fails closed (ServeHTTP, plugin.go): nothing
\* reaches a backend unless its host was resolved to an active application by a
\* published registry and its route was looked up in a loaded snapshot, however
\* the refreshes interleave with the request.
THEOREM FailsClosed == Spec => []EnforceFailsClosed
  <1>1. GInv => EnforceFailsClosed
    <2> SUFFICES ASSUME GInv, NEW r \in Requests, Forwarded(rq[r]), Cfg(rq[r]).mode = "enforce"
                 PROVE  Resolved(rq[r]) /\ rq[r].epVer # 0
      BY DEF EnforceFailsClosed, Resolved
    <2>1. EnforceInv(rq[r])
      BY DEF GInv, ReqInv, Forwarded
    <2> QED BY <2>1 DEF EnforceInv
  <1> QED BY <1>1, GInvInit, GInvStep, PTL DEF Spec

\* Under the policy engine (servePolicy, policy.go) what reaches a
\* permission-gated route was authorised for it: an accepted token, the route the
\* snapshot assigns to the target, and a grant by policies not older than it.
THEOREM DecisionSound == Spec => []PolicyDecisionSound
  <1>1. GInv => PolicyDecisionSound
    <2> SUFFICES ASSUME GInv, NEW r \in Requests,
                        Forwarded(rq[r]), Cfg(rq[r]).policy, rq[r].ep # Nil
                 PROVE  Matched(rq[r]) /\ PermissionHeld(rq[r])
      BY DEF PolicyDecisionSound, Matched, PermissionHeld
    <2>1. PolicyInv(rq[r])
      BY DEF GInv, ReqInv, Forwarded
    <2> QED BY <2>1 DEF PolicyInv, Decided
  <1> QED BY <1>1, GInvInit, GInvStep, PTL DEF Spec
=============================================================================
