-------------------------- MODULE JWKSCacheProofs --------------------------
(***************************************************************************)
(* Proofs about the key cache of a realm, for every number of concurrent   *)
(* requests, every set of key documents, every cooldown and every number   *)
(* of published documents.                                                 *)
(*                                                                         *)
(* KInv is the inductive invariant: an answer waiting to be installed is a *)
(* published document not older than the one held when its refresh began,  *)
(* and no request slot is told of an attempt older than its own last one.  *)
(***************************************************************************)
EXTENDS JWKSCache, TLAPS

-----------------------------------------------------------------------------
(* The invariant                                                           *)

Goroutine ==
  [pc : {"idle", "missed", "fetch", "follow", "install"}, kid : Kids \cup {Nil},
   since : 0..Cooldown, doc : Versions, begun : Versions]

\* What the refresh of a goroutine knows of the documents published.
Asked(x) ==
  /\ x.begun <= Len(published)
  /\ x.pc = "install" => x.doc \in 1..Len(published) /\ x.begun <= x.doc

\* The ages a request slot goes by never exceed that of its own last refetch.
Cooled(r) ==
  /\ sinceAttempt <= sinceOwn[r]
  /\ g[r].pc = "missed" => g[r].since <= sinceOwn[r]

KInv ==
  /\ TypeOK
  /\ HoldsOneKeySet
  /\ \A p \in Goroutines : Asked(g[p])
  /\ \A r \in Requests : Cooled(r)

-----------------------------------------------------------------------------

\* Appending a document leaves the earlier ones as they were.
LEMMA AppendKeeps ==
  ASSUME NEW S, NEW s \in Seq(S), NEW c \in S
  PROVE  /\ Append(s, c) \in Seq(S) /\ Len(Append(s, c)) = Len(s) + 1
         /\ \A i \in 1..Len(s) : Append(s, c)[i] = s[i]
  OBVIOUS

\* An age grows by a tick at most, keeps its order and stops at the cooldown.
LEMMA OlderFacts ==
  /\ \A a \in 0..Cooldown : Older(a) \in 0..Cooldown
  /\ \A a, b \in 0..Cooldown : a <= b => Older(a) <= Older(b)
  BY CooldownAssumption DEF Older

\* A goroutine at rest.
LEMMA IdleFacts == Idle \in Goroutine /\ Idle.begun = 0 /\ Idle.pc = "idle"
  <1>1. 0 \in Versions /\ 0 \in 0..Cooldown
    BY MaxPublishAssumption, CooldownAssumption DEF Versions
  <1> QED BY <1>1 DEF Idle, Goroutine

\* What the invariant says in the terms the steps use.
LEMMA KFacts ==
  ASSUME KInv
  PROVE  /\ published \in Seq(Documents) /\ Len(published) \in Nat /\ Len(published) \in 1..MaxPublish
         /\ g \in [Goroutines -> Goroutine]
         /\ held \in Nat /\ held <= Len(published) /\ Len(published) \in Versions
         /\ sinceAttempt \in 0..Cooldown /\ sinceOwn \in [Requests -> 0..Cooldown]
         /\ \A p \in Goroutines : Asked(g[p])
         /\ \A r \in Requests : r \in Goroutines /\ Cooled(r)
  <1>1. published \in Seq(Documents) /\ Len(published) \in Nat /\ Len(published) \in 1..MaxPublish
    BY DEF KInv, TypeOK
  <1>2. held \in Nat /\ held <= Len(published) /\ Len(published) \in Versions
    BY <1>1, MaxPublishAssumption DEF KInv, TypeOK, HoldsOneKeySet, Versions
  <1> QED BY <1>1, <1>2 DEF KInv, TypeOK, Goroutine, Goroutines

\* A cache just created, its warm fetch under way.
LEMMA KInvInit == Init => KInv
  <1> SUFFICES ASSUME Init PROVE KInv
    OBVIOUS
  <1> USE MaxPublishAssumption, CooldownAssumption
  <1>1. PICK d \in Documents : published = <<d>>
    BY DEF Init
  <1>2. published \in Seq(Documents) /\ Len(published) = 1 /\ Len(published) \in 1..MaxPublish
    BY <1>1
  <1>3. \A p \in Goroutines :
          /\ g[p] \in Goroutine /\ g[p].begun = 0 /\ g[p].pc \in {"idle", "fetch"}
    BY DEF Init, Idle, Goroutine, Versions
  <1>4. g \in [Goroutines -> Goroutine]
    <2>1. g = [p \in Goroutines |-> g[p]]
      BY DEF Init
    <2> QED BY <1>3, <2>1
  <1>5. TypeOK
    <2>1. 0 \in Versions /\ 0 \in 0..Cooldown /\ Cooldown \in 0..Cooldown
      BY DEF Versions
    <2>2. /\ discovery \in BOOLEAN /\ shared = FALSE /\ sinceAttempt = 0 /\ held = 0
          /\ sinceOwn \in [Requests -> 0..Cooldown]
      BY <2>1 DEF Init
    <2> QED BY <1>2, <1>4, <2>1, <2>2 DEF TypeOK, Goroutine
  <1>6. HoldsOneKeySet
    BY DEF Init, HoldsOneKeySet
  <1>7. \A p \in Goroutines : Asked(g[p])
    BY <1>2, <1>3 DEF Asked
  <1>8. \A r \in Requests : Cooled(r)
    BY <1>3 DEF Init, Cooled, Goroutines
  <1> QED BY <1>5, <1>6, <1>7, <1>8 DEF KInv

\* A step of one goroutine p, which becomes x and leaves the documents and the
\* other goroutines alone, keeps the invariant when x is in order.
LEMMA GoroutineStep ==
  ASSUME KInv, NEW p \in Goroutines, NEW x \in Goroutine, g' = [g EXCEPT ![p] = x],
         UNCHANGED <<published, discovery>>, shared' \in BOOLEAN,
         sinceAttempt' \in 0..Cooldown, sinceAttempt' <= sinceAttempt,
         held' \in Versions, HoldsOneKeySet', Asked(x),
         sinceOwn' \in [Requests -> 0..Cooldown],
         \A r \in Requests : r # p => sinceOwn'[r] = sinceOwn[r],
         p \in Requests => /\ sinceAttempt' <= sinceOwn'[p]
                           /\ x.pc = "missed" => x.since <= sinceOwn'[p]
  PROVE  KInv'
  <1>f. /\ g \in [Goroutines -> Goroutine] /\ \A q \in Goroutines : Asked(g[q])
        /\ \A r \in Requests : r \in Goroutines /\ Cooled(r)
        /\ sinceOwn \in [Requests -> 0..Cooldown] /\ sinceAttempt \in 0..Cooldown
    BY KFacts
  <1>1. g' \in [Goroutines -> Goroutine] /\ g'[p] = x /\ \A q \in Goroutines : q # p => g'[q] = g[q]
    BY <1>f
  <1>2. TypeOK'
    BY <1>1 DEF KInv, TypeOK, Goroutine
  <1>3. \A q \in Goroutines : Asked(g[q])'
    BY <1>f, <1>1 DEF Asked
  <1>4. ASSUME NEW r \in Requests PROVE Cooled(r)'
    <2>1. CASE r = p
      BY <1>1, <2>1 DEF Cooled
    <2>2. CASE r # p
      <3>1. g'[r] = g[r] /\ sinceOwn'[r] = sinceOwn[r] /\ Cooled(r)
        BY <1>f, <1>1, <2>2
      <3>2. sinceOwn[r] \in Nat /\ sinceAttempt \in Nat /\ sinceAttempt' \in Nat
        BY <1>f, CooldownAssumption
      <3> QED BY <3>1, <3>2 DEF Cooled
    <2> QED BY <2>1, <2>2
  <1> QED BY <1>2, <1>3, <1>4 DEF KInv

\* The realm publishes: answers on their way stay published documents.
LEMMA PublishStep ==
  ASSUME KInv, Publish
  PROVE  KInv'
  <1>f. /\ published \in Seq(Documents) /\ Len(published) \in Nat
        /\ g \in [Goroutines -> Goroutine] /\ held \in Nat /\ held <= Len(published)
        /\ \A p \in Goroutines : Asked(g[p])
    BY KFacts
  <1>1. PICK d \in Documents : published' = Append(published, d)
    BY DEF Publish
  <1>2. /\ published' \in Seq(Documents) /\ Len(published') = Len(published) + 1
        /\ \A i \in 1..Len(published) : published'[i] = published[i]
    BY <1>f, <1>1, AppendKeeps
  <1>3. /\ Len(published) < MaxPublish
        /\ UNCHANGED <<discovery, keys, sinceAttempt, shared, g, held, sinceOwn>>
    BY DEF Publish, history
  <1>4. TypeOK'
    <2>1. Len(published') \in 1..MaxPublish
      BY <1>f, <1>2, <1>3, MaxPublishAssumption
    <2> QED BY <1>2, <1>3, <2>1 DEF KInv, TypeOK
  <1>5. HoldsOneKeySet'
    <2>1. held # 0 => published'[held] = published[held]
      BY <1>f, <1>2
    <2>2. held <= Len(published')
      BY <1>f, <1>2
    <2> QED BY <1>3, <2>1, <2>2 DEF KInv, HoldsOneKeySet
  <1>6. ASSUME NEW p \in Goroutines PROVE Asked(g[p])'
    <2>1. Asked(g[p]) /\ g[p].begun \in Nat
      BY <1>f, MaxPublishAssumption DEF Goroutine, Versions
    <2> QED BY <1>f, <1>2, <1>3, <2>1 DEF Asked
  <1>7. \A r \in Requests : Cooled(r)'
    BY <1>3 DEF KInv, Cooled
  <1> QED BY <1>4, <1>5, <1>6, <1>7 DEF KInv

\* The clock ticks: all ages grow alike.
LEMMA TickStep ==
  ASSUME KInv, Tick
  PROVE  KInv'
  <1>f. /\ g \in [Goroutines -> Goroutine] /\ sinceAttempt \in 0..Cooldown
        /\ sinceOwn \in [Requests -> 0..Cooldown] /\ \A p \in Goroutines : Asked(g[p])
        /\ \A r \in Requests : r \in Goroutines /\ Cooled(r)
    BY KFacts
  <1>1. /\ sinceAttempt' = Older(sinceAttempt)
        /\ g' = [p \in Goroutines |->
                   IF g[p].pc = "missed" THEN [g[p] EXCEPT !.since = Older(g[p].since)] ELSE g[p]]
        /\ sinceOwn' = [r \in Requests |-> Older(sinceOwn[r])]
        /\ UNCHANGED <<published, discovery, keys, shared, held>>
    BY DEF Tick
  <1>2. ASSUME NEW p \in Goroutines
        PROVE  /\ g'[p] \in Goroutine /\ g'[p].pc = g[p].pc
               /\ g'[p].doc = g[p].doc /\ g'[p].begun = g[p].begun
               /\ g[p].pc = "missed" => g'[p].since = Older(g[p].since)
    <2>1. g[p] \in Goroutine
      BY <1>f
    <2>2. CASE g[p].pc # "missed"
      BY <1>1, <2>1, <2>2
    <2>3. CASE g[p].pc = "missed"
      <3>1. g'[p] = [g[p] EXCEPT !.since = Older(g[p].since)]
        BY <1>1, <2>3
      <3>2. Older(g[p].since) \in 0..Cooldown
        BY <2>1, OlderFacts DEF Goroutine
      <3> QED BY <2>1, <3>1, <3>2 DEF Goroutine
    <2> QED BY <2>2, <2>3
  <1>3. g' \in [Goroutines -> Goroutine]
    <2>1. g' = [p \in Goroutines |-> g'[p]]
      BY <1>1
    <2> QED BY <1>2, <2>1
  <1>4. sinceAttempt' \in 0..Cooldown /\ sinceOwn' \in [Requests -> 0..Cooldown]
    BY <1>f, <1>1, OlderFacts
  <1>5. TypeOK'
    BY <1>1, <1>3, <1>4 DEF KInv, TypeOK, Goroutine
  <1>6. HoldsOneKeySet'
    BY <1>1 DEF KInv, HoldsOneKeySet
  <1>7. \A p \in Goroutines : Asked(g[p])'
    BY <1>f, <1>1, <1>2 DEF Asked
  <1>8. ASSUME NEW r \in Requests PROVE Cooled(r)'
    <2>1. r \in Goroutines /\ Cooled(r) /\ g[r].since \in 0..Cooldown
      BY <1>f DEF Goroutine
    <2>2. sinceOwn[r] \in 0..Cooldown /\ sinceOwn'[r] = Older(sinceOwn[r])
      BY <1>f, <1>1
    <2> QED BY <1>f, <1>1, <1>2, <2>1, <2>2, OlderFacts DEF Cooled
  <1> QED BY <1>5, <1>6, <1>7, <1>8 DEF KInv

\* A refresh begins: it remembers the version held.
LEMMA BeginStep ==
  ASSUME KInv, NEW p \in Goroutines, Begin(p), UNCHANGED <<published, discovery, keys, shared, held>>,
         \/ UNCHANGED sinceOwn /\ p \notin Requests
         \/ p \in Requests /\ sinceOwn' = [sinceOwn EXCEPT ![p] = 0]
  PROVE  KInv'
  <1>f. /\ g \in [Goroutines -> Goroutine] /\ sinceAttempt \in 0..Cooldown /\ held \in Versions
        /\ sinceOwn \in [Requests -> 0..Cooldown] /\ held <= Len(published)
    BY KFacts DEF KInv, TypeOK
  <1> DEFINE x == [g[p] EXCEPT !.pc = "fetch", !.since = 0, !.begun = held]
  <1>1. g' = [g EXCEPT ![p] = x] /\ sinceAttempt' = 0
    BY <1>f DEF Begin
  <1>2. x \in Goroutine /\ x.pc = "fetch" /\ x.begun = held
    <2>1. g[p] \in Goroutine /\ 0 \in 0..Cooldown
      BY <1>f, CooldownAssumption
    <2> QED BY <1>f, <2>1 DEF Goroutine
  <1> HIDE DEF x
  <1>3. Asked(x) /\ HoldsOneKeySet' /\ held' \in Versions /\ shared' \in BOOLEAN
    BY <1>f, <1>2 DEF Asked, KInv, HoldsOneKeySet, TypeOK
  <1>4. /\ sinceAttempt' \in 0..Cooldown /\ sinceAttempt' <= sinceAttempt
        /\ sinceOwn' \in [Requests -> 0..Cooldown]
        /\ \A r \in Requests : r # p => sinceOwn'[r] = sinceOwn[r]
        /\ p \in Requests => sinceAttempt' <= sinceOwn'[p]
    BY <1>f, <1>1, CooldownAssumption
  <1> QED BY <1>1, <1>2, <1>3, <1>4, GoroutineStep

\* A request that misses its key is told the age of the last attempt.
LEMMA LookupStep ==
  ASSUME KInv, NEW r \in Requests, NEW kid \in Kids, Lookup(r, kid)
  PROVE  KInv'
  <1>f. /\ sinceAttempt \in 0..Cooldown /\ r \in Goroutines /\ Cooled(r)
        /\ sinceOwn \in [Requests -> 0..Cooldown] /\ 0 <= Len(published)
    BY KFacts
  <1> DEFINE x == [Idle EXCEPT !.pc = "missed", !.kid = kid, !.since = sinceAttempt]
  <1>1. /\ g' = [g EXCEPT ![r] = x]
        /\ UNCHANGED <<published, discovery, keys, sinceAttempt, shared, held, sinceOwn>>
    BY DEF Lookup, history
  <1>2. x \in Goroutine /\ x.pc = "missed" /\ x.since = sinceAttempt /\ x.begun = 0
    BY <1>f, IdleFacts DEF Goroutine
  <1> HIDE DEF x
  <1>3. Asked(x) /\ HoldsOneKeySet' /\ held' \in Versions /\ shared' \in BOOLEAN
    BY <1>f, <1>1, <1>2 DEF Asked, KInv, HoldsOneKeySet, TypeOK
  <1>4. sinceAttempt <= sinceOwn[r] /\ sinceAttempt <= sinceAttempt
    BY <1>f DEF Cooled
  <1> QED BY <1>f, <1>1, <1>2, <1>3, <1>4, GoroutineStep

\* The configured URL or the jwks_uri answers: with what is published now.
LEMMA AnswerStep ==
  ASSUME KInv, NEW p \in Goroutines, Fetch(p) \/ Follow(p)
  PROVE  KInv'
  <1>f. /\ g \in [Goroutines -> Goroutine] /\ sinceAttempt \in 0..Cooldown /\ Asked(g[p])
        /\ sinceOwn \in [Requests -> 0..Cooldown] /\ Len(published) \in Versions
        /\ \A r \in Requests : Cooled(r) /\ Len(published) \in 1..MaxPublish
    BY KFacts
  <1>t. g[p] \in Goroutine
    BY <1>f
  <1> DEFINE follow == [g[p] EXCEPT !.pc = "follow"]
             answer == [g[p] EXCEPT !.pc = "install", !.doc = Len(published)]
  <1>1. PICK x : /\ x \in {follow, answer} /\ g' = [g EXCEPT ![p] = x]
    BY <1>f DEF Fetch, Follow
  <1>2. UNCHANGED <<published, discovery, keys, sinceAttempt, shared, held, sinceOwn>>
    BY DEF Fetch, Follow, history
  <1>3. /\ follow \in Goroutine /\ follow.pc = "follow" /\ follow.begun = g[p].begun
        /\ answer \in Goroutine /\ answer.pc = "install" /\ answer.begun = g[p].begun
        /\ answer.doc = Len(published)
    BY <1>f, <1>t DEF Goroutine
  <1> HIDE DEF follow, answer
  <1>4. x \in Goroutine /\ x.pc # "missed" /\ Asked(x)
    <2>1. Len(published) \in 1..Len(published)
      BY KFacts
    <2> QED BY <1>f, <1>1, <1>3, <2>1 DEF Asked
  <1>5. HoldsOneKeySet' /\ held' \in Versions /\ shared' \in BOOLEAN
    BY <1>2 DEF KInv, HoldsOneKeySet, TypeOK
  <1>6. sinceAttempt <= sinceAttempt /\ (p \in Requests => sinceAttempt <= sinceOwn[p])
    BY <1>f DEF Cooled
  <1> QED BY <1>f, <1>1, <1>2, <1>4, <1>5, <1>6, GoroutineStep

\* A goroutine that ends, with or without the key set of its answer, is idle.
LEMMA EndStep ==
  ASSUME KInv, NEW p \in Goroutines, g' = [g EXCEPT ![p] = Idle],
         UNCHANGED <<published, discovery, sinceAttempt, sinceOwn>>, shared' \in BOOLEAN,
         held' \in Versions, HoldsOneKeySet'
  PROVE  KInv'
  <1>f. /\ sinceAttempt \in 0..Cooldown /\ sinceOwn \in [Requests -> 0..Cooldown]
        /\ 0 <= Len(published) /\ \A r \in Requests : Cooled(r)
    BY KFacts
  <1>1. Idle \in Goroutine /\ Asked(Idle) /\ Idle.pc # "missed"
    BY <1>f, IdleFacts DEF Asked
  <1>2. sinceAttempt <= sinceAttempt /\ (p \in Requests => sinceAttempt <= sinceOwn[p])
    BY <1>f DEF Cooled
  <1> QED BY <1>f, <1>1, <1>2, GoroutineStep

\* What Install puts in place is the whole of the answer, or nothing.
LEMMA InstallHolds ==
  ASSUME KInv, NEW p \in Goroutines, Install(p)
  PROVE  HoldsOneKeySet' /\ held' \in Versions /\ (held' # held => held' >= g[p].begun)
  <1>f. Asked(g[p]) /\ g[p] \in Goroutine /\ g[p].pc = "install"
    BY KFacts DEF Install
  <1>1. g[p].doc \in 1..Len(published) /\ g[p].begun <= g[p].doc /\ g[p].doc \in Versions
        /\ g[p].doc \in Nat /\ g[p].begun \in Nat
    BY <1>f, MaxPublishAssumption DEF Asked, Goroutine, Versions
  <1>2. UNCHANGED published
    BY DEF Install
  <1>3. CASE UNCHANGED <<keys, held>>
    BY <1>2, <1>3 DEF KInv, HoldsOneKeySet, TypeOK
  <1>4. CASE keys' = parsed(published[g[p].doc]) /\ keys' # NoKeys /\ held' = g[p].doc
    BY <1>1, <1>2, <1>4 DEF HoldsOneKeySet
  <1> QED BY <1>3, <1>4 DEF Install

\* Every step keeps the invariant.
LEMMA KInvStep == KInv /\ [Next]_vars => KInv'
  <1> SUFFICES ASSUME KInv, [Next]_vars PROVE KInv'
    OBVIOUS
  <1>f. Loop \in Goroutines /\ Loop \notin Requests /\ Requests \subseteq Goroutines
    BY LoopAssumption DEF Goroutines
  <1>1. CASE Publish
    BY <1>1, PublishStep
  <1>2. CASE Tick
    BY <1>2, TickStep
  <1>3. CASE LoopTick
    BY <1>3, <1>f, BeginStep DEF LoopTick, history
  <1>4. ASSUME NEW p \in Goroutines, Fetch(p) \/ Follow(p) PROVE KInv'
    BY <1>4, AnswerStep
  <1>5. ASSUME NEW p \in Goroutines, FetchFails(p) PROVE KInv'
    <2>1. /\ g' = [g EXCEPT ![p] = Idle] /\ shared' \in BOOLEAN
          /\ UNCHANGED <<published, discovery, sinceAttempt, sinceOwn, keys, held>>
      BY <1>5 DEF FetchFails, Ended, history
    <2>2. HoldsOneKeySet' /\ held' \in Versions
      BY <2>1 DEF KInv, HoldsOneKeySet, TypeOK
    <2> QED BY <2>1, <2>2, EndStep
  <1>6. ASSUME NEW p \in Goroutines, Install(p) PROVE KInv'
    <2>1. /\ g' = [g EXCEPT ![p] = Idle] /\ shared' \in BOOLEAN
          /\ UNCHANGED <<published, discovery, sinceAttempt, sinceOwn>>
      BY <1>6 DEF Install, Ended
    <2> QED BY <1>6, <2>1, InstallHolds, EndStep
  <1>7. ASSUME NEW r \in Requests, Refetch(r) PROVE KInv'
    BY <1>7, <1>f, BeginStep DEF Refetch
  <1>8. ASSUME NEW r \in Requests, GiveUp(r) PROVE KInv'
    <2>1. /\ g' = [g EXCEPT ![r] = Idle]
          /\ UNCHANGED <<published, discovery, sinceAttempt, sinceOwn, keys, held, shared>>
      BY <1>8 DEF GiveUp, history
    <2>2. HoldsOneKeySet' /\ held' \in Versions /\ shared' \in BOOLEAN
      BY <2>1 DEF KInv, HoldsOneKeySet, TypeOK
    <2> QED BY <1>f, <2>1, <2>2, EndStep
  <1>9. ASSUME NEW r \in Requests, NEW kid \in Kids, Lookup(r, kid) PROVE KInv'
    BY <1>9, LookupStep
  <1>10. CASE UNCHANGED vars
    BY <1>10 DEF vars, KInv, TypeOK, HoldsOneKeySet, Asked, Cooled
  <1> QED BY <1>1, <1>2, <1>3, <1>4, <1>5, <1>6, <1>7, <1>8, <1>9, <1>10
      DEF Next, Step, KeyForKid

-----------------------------------------------------------------------------
(* Theorems                                                                *)

\* The cache and the goroutines that share it keep their types (jwks.go).
THEOREM Typing == Spec => []TypeOK
  <1>1. KInv => TypeOK
    BY DEF KInv
  <1> QED BY <1>1, KInvInit, KInvStep, PTL DEF Spec

\* Validation sees the whole usable key set of one published document and never
\* loses it again, although refreshes overlap and fail (refresh: "last-good").
THEOREM OneKeySet == Spec => []HoldsOneKeySet
  <1>1. KInv => HoldsOneKeySet
    BY DEF KInv
  <1> QED BY <1>1, KInvInit, KInvStep, PTL DEF Spec

\* A refresh never brings in a key set older than the one held when it began
\* (refresh, jwks.go), in whatever order overlapping refreshes end.
THEOREM NoRegression == Spec => NoRegressionFromStart
  <1>1. KInv /\ [Next]_vars =>
          [\A p \in Goroutines : Install(p) /\ held' # held => held' >= g[p].begun]_vars
    BY InstallHolds
  <1> QED BY <1>1, KInvInit, KInvStep, PTL DEF Spec, NoRegressionFromStart

\* A request slot starts at most one refetch per cooldown (keyForKid): the age it
\* read at the lookup is never above that of its own last refetch.
THEOREM SlotsCooled == Spec => CallerCooled
  <1>1. KInv /\ [Next]_vars => [\A r \in Requests : Refetch(r) => sinceOwn[r] >= Cooldown]_vars
    <2> SUFFICES ASSUME KInv, NEW r \in Requests, Refetch(r) PROVE sinceOwn[r] >= Cooldown
      OBVIOUS
    <2>1. /\ Cooled(r) /\ g[r] \in Goroutine /\ sinceOwn[r] \in 0..Cooldown
      BY KFacts
    <2>2. g[r].since \in Nat /\ sinceOwn[r] \in Nat /\ g[r].since <= sinceOwn[r]
      BY <2>1, CooldownAssumption DEF Goroutine, Cooled, Refetch
    <2> QED BY <2>2, CooldownAssumption DEF Refetch
  <1> QED BY <1>1, KInvInit, KInvStep, PTL DEF Spec, CallerCooled
=============================================================================
