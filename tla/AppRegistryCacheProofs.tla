----------------------- MODULE AppRegistryCacheProofs -----------------------
(***************************************************************************)
(* Proofs about the host registry cache, for every number of instances     *)
(* built at once, all registries of finitely many hosts and every number   *)
(* of published versions.                                                  *)
(*                                                                         *)
(* RInv is the inductive invariant: the mutex is held exactly while an     *)
(* instance creates the cache, and what a cache holds, or is about to      *)
(* install, is a published version or the blank one, in order.             *)
(***************************************************************************)
EXTENDS AppRegistryCache, FiniteSetTheorems, TLAPS

-----------------------------------------------------------------------------
(* Compilation and lookup                                                  *)

\* A list of all elements of a finite set has each of them.
LEMMA ListsAll ==
  ASSUME NEW S, IsFiniteSet(S), NEW w \in SetToSeqs(S)
  PROVE  /\ w \in [1..Cardinality(S) -> S] /\ Cardinality(S) \in Nat
         /\ \A x \in S : \E i \in 1..Cardinality(S) : w[i] = x
  <1> DEFINE n == Cardinality(S)
  <1>1. w \in [1..n -> S] /\ \A i, j \in 1..n : i # j => w[i] # w[j]
    BY DEF SetToSeqs
  <1>2. n \in Nat
    BY FS_CardinalityType
  <1>3. w \in Injection(1..n, S)
    BY <1>1 DEF Injection, IsInjective
  <1>4. Cardinality(1..n) = n
    BY <1>2, FS_Interval
  <1>5. w \in Surjection(1..n, S)
    BY <1>3, <1>4, FS_Injection
  <1>6. \A x \in S : \E i \in 1..n : w[i] = x
    BY <1>5 DEF Surjection
  <1> QED BY <1>1, <1>2, <1>6

\* A set of positions that is not empty has a first one.
LEMMA FirstExists ==
  ASSUME NEW n \in Nat, NEW H \in SUBSET (1..n), H # {}
  PROVE  \E i \in H : \A j \in H : i <= j
  <1> DEFINE below(k) == {j \in H : j < k}
             F == {below(k) : k \in H}
  <1>1. IsFiniteSet(H)
    <2>1. 1 \in Int /\ n \in Int
      OBVIOUS
    <2>2. IsFiniteSet(1..n)
      BY <2>1, FS_Interval
    <2> QED BY ONLY <2>2, FS_Subset, H \in SUBSET (1..n)
  <1>2. IsWellFoundedOn(StrictSubsetOrdering(H), FiniteSubsetsOf(H))
    BY FS_StrictSubsetOrderingWellFounded
  <1>b. ASSUME NEW k \in H PROVE below(k) \in FiniteSubsetsOf(H)
    <2>1. below(k) \in SUBSET H
      OBVIOUS
    <2> QED BY <1>1, <2>1, FS_Subset DEF FiniteSubsetsOf
  <1>o. ASSUME NEW i \in H, NEW j \in H, j < i
        PROVE  <<below(j), below(i)>> \in StrictSubsetOrdering(H)
    <2>1. j \in below(i) /\ j \notin below(j)
      BY <1>o
    <2>2. below(j) \subseteq below(i) /\ below(j) \in SUBSET H /\ below(i) \in SUBSET H
      <3>1. ASSUME NEW k \in H, k < j PROVE k < i
        <4>1. k \in Int /\ j \in Int /\ i \in Int
          OBVIOUS
        <4> QED BY ONLY <4>1, <1>o, <3>1
      <3> QED BY ONLY <3>1
    <2> HIDE DEF below
    <2> QED BY <2>1, <2>2 DEF StrictSubsetOrdering
  <1> HIDE DEF below
  <1>3. F \subseteq FiniteSubsetsOf(H) /\ F # {}
    BY <1>b
  <1>4. PICK T \in F : \A U \in F : <<U, T>> \notin StrictSubsetOrdering(H)
    <2> HIDE DEF F
    <2> QED BY <1>2, <1>3, WFMin
  <1>5. PICK i \in H : T = below(i)
    OBVIOUS
  <1>6. ASSUME NEW j \in H, j < i PROVE FALSE
    BY <1>4, <1>5, <1>6, <1>o
  <1>7. \A j \in H : i <= j
    BY <1>6
  <1> QED BY <1>7

\* What lies under a wildcard ends in its suffix and is longer.
LEMMA UnderSuffix ==
  ASSUME NEW l \in Seq(STRING), l # <<>>, NEW t \in Seq(STRING)
  PROVE  IsStrictSuffix(Tail(l), t) <=> Len(t) >= Len(l) /\ IsSuffix(Tail(l), t)
  <1> DEFINE s == Tail(l)
  <1>1. s \in Seq(STRING) /\ Len(s) = Len(l) - 1 /\ Len(l) \in Nat /\ Len(t) \in Nat
    OBVIOUS
  <1> HIDE DEF s
  <1>2. ASSUME IsSuffix(s, t) PROVE Len(s) <= Len(t)
    BY <1>1, <1>2 DEF IsSuffix, IsPrefix, Reverse
  <1>3. ASSUME IsSuffix(s, t), Len(s) = Len(t) PROVE s = t
    <2> DEFINE n == Len(s)
    <2>1. n \in Nat /\ n = Len(t)
      BY <1>1, <1>3
    <2>r. Len(Reverse(s)) = n
      BY <1>1 DEF Reverse
    <2>2. SubSeq(Reverse(s), 1, n) = SubSeq(Reverse(t), 1, n)
      BY <1>3, <2>r DEF IsSuffix, IsPrefix
    <2>3. ASSUME NEW i \in 1..n PROVE s[i] = t[i]
      <3> DEFINE j == n - i + 1
      <3>1. j \in 1..n /\ (n - j) + 1 = i
        BY <2>1
      <3>2. SubSeq(Reverse(s), 1, n)[j] = SubSeq(Reverse(t), 1, n)[j]
        BY <2>2
      <3>3. Reverse(s) = [k \in 1..n |-> s[(n - k) + 1]] /\ Reverse(t) = [k \in 1..n |-> t[(n - k) + 1]]
        BY <2>1 DEF Reverse
      <3>4. Reverse(s)[j] = Reverse(t)[j]
        BY <1>1, <2>1, <3>1, <3>2, <3>3
      <3> QED BY <3>1, <3>3, <3>4
    <2> QED BY <1>1, <2>1, <2>3
  <1>4. ASSUME s = t PROVE Len(s) = Len(t)
    BY <1>4
  <1> QED BY <1>1, <1>2, <1>3, <1>4 DEF IsStrictSuffix, s

\* The registries that come out of the decoder (HostsAssumption).
Decoded(reg) ==
  /\ IsFiniteSet(DOMAIN reg.hosts)
  /\ \A h \in DOMAIN reg.hosts : h.labels \in Seq(STRING) /\ h.labels # <<>>

LEMMA AllDecoded == \A reg \in Registries \cup {BlankRegistry} : Decoded(reg)
  <1>1. Decoded(BlankRegistry)
    <2>1. DOMAIN BlankRegistry.hosts = {}
      BY DEF BlankRegistry
    <2> QED BY <2>1, FS_EmptySet DEF Decoded
  <1> QED BY <1>1, HostsAssumption DEF Decoded

LiveHosts(reg) == {h \in DOMAIN reg.hosts : reg.hosts[h].active}
WildHosts(reg) == {h \in LiveHosts(reg) : h.labels[1] = "*" /\ Len(h.labels) > 1}
Exact(reg, host) ==
  {reg.hosts[h].app : h \in {g \in LiveHosts(reg) \ WildHosts(reg) : g.labels = host.labels}}
Under(reg, host) ==
  {reg.hosts[h].app : h \in {g \in WildHosts(reg) :
     Len(host.labels) >= Len(g.labels) /\ IsSuffix(Tail(g.labels), host.labels)}}
Allowed(reg, host) == IF Exact(reg, host) # {} THEN Exact(reg, host) ELSE Under(reg, host)

\* The lookup of host in c says what reg does.
ResolvesBy(reg, c, host) ==
  /\ resolveHost(c, host) \subseteq Allowed(reg, host) \cap c.active
  /\ resolveHost(c, host) = {} => Allowed(reg, host) = {}

\* c is compiled from reg, its n wildcard hosts taken in the order w.
CompiledTo(reg, c, n, w) ==
  /\ \A h \in WildHosts(reg) : \E i \in 1..n : w[i] = h
  /\ DOMAIN c.wildcards = 1..n
  /\ \A i \in 1..n : /\ c.wildcards[i].suffix = Tail(w[i].labels)
                     /\ c.wildcards[i].app = reg.hosts[w[i]].app
                     /\ c.wildcards[i].app \in c.active
  /\ DOMAIN c.byHost = {h.labels : h \in LiveHosts(reg) \ WildHosts(reg)}
  /\ \A l \in DOMAIN c.byHost :
       /\ c.byHost[l] \in c.active
       /\ \E h \in LiveHosts(reg) \ WildHosts(reg) :
            h.labels = l /\ c.byHost[l] = reg.hosts[h].app

\* The parts of a compiled registry: every live host is in the host map or in
\* the list of wildcards, and all of their applications are active.
LEMMA Compiled ==
  ASSUME NEW reg, Decoded(reg), NEW c \in compileRegistry(reg)
  PROVE  \E n \in Nat : \E w \in [1..n -> WildHosts(reg)] : CompiledTo(reg, c, n, w)
  <1> DEFINE W == WildHosts(reg)
             X == LiveHosts(reg) \ W
             names == {h.labels : h \in X}
  <1>1. wildHosts(reg) = W /\ exactHosts(reg) = X
    BY DEF wildHosts, exactHosts, liveHosts, isWildcardHost, normalizeHost, WildHosts, LiveHosts
  <1>2. PICK p \in hostMaps(reg) \X SetToSeqs(W) :
          c = [byHost |-> p[1], wildcards |-> wildcardList(reg, p[2]), active |-> activeApps(reg, p[1])]
    BY <1>1 DEF compileRegistry
  <1> DEFINE f == p[1]
             w == p[2]
             n == Cardinality(W)
  <1>3. f \in hostMaps(reg) /\ w \in SetToSeqs(W)
    BY <1>2
  <1>4. c.byHost = f /\ c.wildcards = wildcardList(reg, w) /\ c.active = activeApps(reg, f)
    BY <1>2
  <1>5. IsFiniteSet(W)
    <2>1. W \in SUBSET (DOMAIN reg.hosts)
      BY DEF WildHosts, LiveHosts
    <2> HIDE DEF W
    <2> QED BY <2>1, FS_Subset DEF Decoded
  <1> HIDE DEF f, w, W
  <1>6. w \in [1..n -> W] /\ n \in Nat /\ \A h \in W : \E i \in 1..n : w[i] = h
    BY <1>3, <1>5, ListsAll
  <1>7. /\ f \in [names -> {appOf(reg, h) : h \in X}]
        /\ \A l \in names : \E h \in X : h.labels = l /\ f[l] = reg.hosts[h].app
    BY <1>1, <1>3 DEF hostMaps, normalizeHost, appOf
  <1>8. c.active = ({a.app : a \in {b \in reg.apps : b.active}} \ {NoApp})
                     \cup {f[l] : l \in DOMAIN f} \cup {appOf(reg, h) : h \in W}
    BY <1>1, <1>4 DEF activeApps
  <1>9. c.wildcards = [i \in 1..n |-> [suffix |-> Tail(w[i].labels), app |-> reg.hosts[w[i]].app]]
    BY <1>4, <1>6 DEF wildcardList, normalizeHost, appOf
  <1> HIDE DEF names, n, X
  <1>10. DOMAIN c.byHost = names /\ c.byHost = f
    BY <1>4, <1>7
  <1>11. \A l \in names : f[l] \in c.active
    BY <1>8, <1>10
  <1>12. ASSUME NEW i \in 1..n
         PROVE  /\ c.wildcards[i].suffix = Tail(w[i].labels)
                /\ c.wildcards[i].app = reg.hosts[w[i]].app
                /\ c.wildcards[i].app \in c.active
    <2>1. /\ c.wildcards[i].suffix = Tail(w[i].labels)
          /\ c.wildcards[i].app = reg.hosts[w[i]].app
      BY <1>9
    <2>2. reg.hosts[w[i]].app \in c.active
      BY <1>6, <1>8 DEF appOf
    <2> QED BY <2>1, <2>2
  <1>13. DOMAIN c.wildcards = 1..n
    BY <1>9
  <1>14. \A l \in DOMAIN c.byHost :
           /\ c.byHost[l] \in c.active
           /\ \E h \in X : h.labels = l /\ c.byHost[l] = reg.hosts[h].app
    BY <1>7, <1>10, <1>11
  <1> USE DEF W, X, names
  <1>15. DOMAIN c.byHost = {h.labels : h \in LiveHosts(reg) \ WildHosts(reg)}
    BY <1>10
  <1>16. w \in [1..n -> WildHosts(reg)] /\ n \in Nat
    BY <1>6
  <1>17. \A h \in WildHosts(reg) : \E i \in 1..n : w[i] = h
    BY <1>6
  <1>18. CompiledTo(reg, c, n, w)
    BY <1>12, <1>13, <1>14, <1>15, <1>17 DEF CompiledTo
  <1> QED BY <1>16, <1>18

\* What a refresh compiles resolves hosts as the registry says, whatever order
\* the hosts were taken in.
LEMMA CompiledResolves ==
  ASSUME NEW reg, Decoded(reg), NEW c \in compileRegistry(reg),
         NEW host, host.labels \in Seq(STRING)
  PROVE  ResolvesBy(reg, c, host)
  <1>n. PICK n \in Nat : \E w \in [1..n -> WildHosts(reg)] : CompiledTo(reg, c, n, w)
    BY Compiled
  <1>w. PICK w \in [1..n -> WildHosts(reg)] : CompiledTo(reg, c, n, w)
    BY <1>n
  <1>1. /\ w \in [1..n -> WildHosts(reg)] /\ n \in Nat
        /\ \A h \in WildHosts(reg) : \E i \in 1..n : w[i] = h
        /\ DOMAIN c.wildcards = 1..n
        /\ \A i \in 1..n : /\ c.wildcards[i].suffix = Tail(w[i].labels)
                             /\ c.wildcards[i].app = reg.hosts[w[i]].app
                             /\ c.wildcards[i].app \in c.active
        /\ DOMAIN c.byHost = {h.labels : h \in LiveHosts(reg) \ WildHosts(reg)}
        /\ \A l \in DOMAIN c.byHost :
              /\ c.byHost[l] \in c.active
             /\ \E h \in LiveHosts(reg) \ WildHosts(reg) :
                  h.labels = l /\ c.byHost[l] = reg.hosts[h].app
    BY <1>w DEF CompiledTo
  <1> DEFINE t == host.labels
             hits == {i \in 1..n : IsStrictSuffix(c.wildcards[i].suffix, t)}
             first == {i \in hits : \A j \in hits : i <= j}
             got == resolveHost(c, host)
  <1>2. got = IF t \in DOMAIN c.byHost THEN {c.byHost[t]} ELSE {c.wildcards[i].app : i \in first}
    BY <1>1 DEF resolveHost, normalizeHost
  <1>3. \A i \in 1..n : w[i] \in WildHosts(reg)
    BY <1>1
  <1>4. ASSUME NEW i \in 1..n
        PROVE  i \in hits <=> Len(t) >= Len(w[i].labels) /\ IsSuffix(Tail(w[i].labels), t)
    <2>1. w[i] \in DOMAIN reg.hosts
      BY <1>3 DEF WildHosts, LiveHosts
    <2>2. w[i].labels \in Seq(STRING) /\ w[i].labels # <<>>
      BY <2>1 DEF Decoded
    <2>3. i \in hits <=> IsStrictSuffix(Tail(w[i].labels), t)
      BY <1>1
    <2> QED BY <2>2, <2>3, UnderSuffix
  <1>5. ASSUME hits # {} PROVE first # {}
    <2>1. hits \in SUBSET (1..n)
      OBVIOUS
    <2> HIDE DEF hits
    <2> QED BY <1>5, <2>1, FirstExists
  <1> HIDE DEF hits, got
  <1>6. CASE t \in DOMAIN c.byHost
    <2>1. c.byHost[t] \in Exact(reg, host)
      BY <1>1, <1>6 DEF Exact
    <2>2. Allowed(reg, host) = Exact(reg, host)
      BY <2>1 DEF Allowed
    <2>3. got = {c.byHost[t]} /\ c.byHost[t] \in c.active
      BY <1>1, <1>2, <1>6
    <2> QED BY <2>1, <2>2, <2>3 DEF ResolvesBy, got
  <1>7. CASE t \notin DOMAIN c.byHost
    <2>1. Exact(reg, host) = {}
      BY <1>1, <1>7 DEF Exact
    <2>2. ASSUME NEW i \in first
          PROVE  c.wildcards[i].app \in Under(reg, host) \cap c.active
      <3>1. i \in 1..n /\ i \in hits
        BY DEF hits
      <3>2. w[i] \in {g \in WildHosts(reg) : Len(t) >= Len(g.labels) /\ IsSuffix(Tail(g.labels), t)}
        BY <1>3, <1>4, <3>1
      <3> QED BY <1>1, <3>1, <3>2 DEF Under
    <2>3. ASSUME NEW x \in Under(reg, host) PROVE first # {}
      <3>1. PICK h \in WildHosts(reg) : Len(t) >= Len(h.labels) /\ IsSuffix(Tail(h.labels), t)
        BY DEF Under
      <3>2. PICK i \in 1..n : w[i] = h
        BY <1>1
      <3>3. i \in hits
        BY <1>4, <3>1, <3>2
      <3> QED BY <1>5, <3>3
    <2>4. got = {c.wildcards[i].app : i \in first}
      BY <1>2, <1>7
    <2> HIDE DEF first
    <2>5. Allowed(reg, host) = Under(reg, host)
      BY <2>1 DEF Allowed
    <2>6. got \subseteq Under(reg, host) \cap c.active
      BY <2>2, <2>4
    <2>7. got = {} => Under(reg, host) = {}
      BY <2>3, <2>4
    <2> QED BY <2>5, <2>6, <2>7 DEF ResolvesBy, got
  <1> QED BY <1>6, <1>7

-----------------------------------------------------------------------------
(* The invariant                                                           *)

\* The mutex is held exactly while the cache is created; once it is shared,
\* nothing else is created and every instance built is bound to it.
Construction ==
  /\ \A i \in Instances : mutex = i <=> building[i] \in {"starting", "started"}
  /\ \A i \in Instances : building[i] = "done" <=> bound[i] # Nil
  /\ \A i \in Instances : bound[i] # Nil => bound[i] = shared
  /\ shared # Nil => mutex = Nil /\ bound[shared] = shared

\* What a refresh may have left of version v.
Held(v) == compileRegistry(registryAt(v)) \cup (IF v = 0 THEN {EmptyRegistry} ELSE {})

\* A cache holds one published version, compiled, and an answer is blank or not
\* older than what is held.
InOrder(c) ==
  /\ c.version <= Len(published)
  /\ c.registry \in Held(c.version)
  /\ c.fetched # Nil => c.fetched <= Len(published) /\ (c.fetched = 0 \/ c.version <= c.fetched)
  /\ c.pc = "install" => c.fetched # Nil

RInv ==
  /\ TypeOK
  /\ Construction
  /\ \A i \in Instances : cache[i] # Nil => InOrder(cache[i])

-----------------------------------------------------------------------------

\* What the steps use of the types.
LEMMA RFacts ==
  ASSUME TypeOK
  PROVE  /\ published \in Seq(Registries) /\ Len(published) \in 1..MaxPublish
         /\ Len(published) \in Versions /\ Versions \subseteq Nat /\ 0 \in Versions
         /\ cache \in [Instances -> Caches \cup {Nil}]
         /\ \A i \in Instances : cache[i] # Nil => cache[i] \in Caches
         /\ building \in [Instances -> {"new", "starting", "started", "done"}]
         /\ bound \in [Instances -> Instances \cup {Nil}]
         /\ Nil \notin Versions /\ Nil \notin Caches /\ Nil \notin Instances
  BY MaxPublishAssumption, NilAssumption, InstancesAssumption DEF TypeOK, Versions

\* A version that has been published stands for a registry.
LEMMA AtVersion ==
  ASSUME TypeOK, NEW v \in Versions, v <= Len(published)
  PROVE  registryAt(v) \in Registries \cup {BlankRegistry}
  <1>1. v # 0 => v \in 1..Len(published)
    BY RFacts
  <1> QED BY <1>1, RFacts DEF registryAt

\* What is held is compiled from something that came out of the decoder.
LEMMA HeldCompiled ==
  ASSUME TypeOK, NEW v \in Versions, v <= Len(published)
  PROVE  Held(v) \subseteq CompiledRegistries
  BY AtVersion DEF Held, CompiledRegistries

\* The new cache is cold.
LEMMA NewFacts ==
  ASSUME TypeOK
  PROVE  /\ NewCache \in Caches /\ NewCache # Nil
         /\ NewCache.pc = "askSnapshot" /\ NewCache.fetched = Nil /\ NewCache.version = 0
         /\ NewCache.loaded = FALSE /\ NewCache.registry = EmptyRegistry
  <1>1. EmptyRegistry \in CompiledRegistries
    BY DEF CompiledRegistries
  <1>2. 0 \in Versions /\ Nil \notin Caches
    BY RFacts
  <1>3. NewCache \in Caches
    BY <1>1, <1>2 DEF NewCache, Caches
  <1>4. NewCache # Nil
    BY <1>2, <1>3
  <1> QED BY <1>3, <1>4 DEF NewCache

LEMMA RInit == Init => RInv
  <1> SUFFICES ASSUME Init PROVE RInv
    OBVIOUS
  <1>1. PICK reg \in Registries : published = <<reg>>
    BY DEF Init
  <1>2. published \in Seq(Registries) /\ Len(published) \in 1..MaxPublish
    <2>1. <<reg>> \in Seq(Registries) /\ Len(<<reg>>) = 1
      OBVIOUS
    <2> QED BY <1>1, <2>1, MaxPublishAssumption
  <1>3. TypeOK
    BY <1>2, InstancesAssumption DEF Init, TypeOK
  <1>4. Construction
    BY InstancesAssumption DEF Init, Construction
  <1> QED BY <1>3, <1>4 DEF Init, RInv

-----------------------------------------------------------------------------
(* The steps                                                               *)

\* A new version leaves the earlier ones, and what is held of them, as it was.
LEMMA PublishStep ==
  ASSUME RInv, Publish
  PROVE  RInv'
  <1>t. TypeOK /\ published \in Seq(Registries) /\ Len(published) \in Nat
    BY RFacts DEF RInv
  <1>1. PICK reg \in Registries : published' = Append(published, reg)
    BY DEF Publish
  <1>2. UNCHANGED <<building, mutex, shared, bound, cache>> /\ Len(published) < MaxPublish
    BY DEF Publish, construction
  <1>3. /\ published' \in Seq(Registries) /\ Len(published') = Len(published) + 1
        /\ \A v \in 1..Len(published) : published'[v] = published[v]
    BY <1>t, <1>1
  <1>4. TypeOK'
    <2>1. Len(published') \in 1..MaxPublish
      BY <1>t, <1>2, <1>3, MaxPublishAssumption
    <2> QED BY <1>2, <1>3, <2>1 DEF RInv, TypeOK
  <1>5. Construction'
    BY <1>2 DEF RInv, Construction
  <1>6. ASSUME NEW i \in Instances, cache'[i] # Nil PROVE InOrder(cache[i])'
    <2> DEFINE c == cache[i]
    <2>1. InOrder(c) /\ c \in Caches /\ cache'[i] = c
      BY <1>2, <1>6, RFacts DEF RInv
    <2>2. c.version \in Nat /\ c.version <= Len(published)
      BY <1>t, <2>1, RFacts DEF Caches, InOrder
    <2>3. c.fetched \in Nat \cup {Nil}
      BY <1>t, <2>1, RFacts DEF Caches
    <2>4. Held(c.version)' = Held(c.version)
      <3>1. c.version # 0 => published'[c.version] = published[c.version]
        BY <1>3, <1>t, <2>2
      <3>2. registryAt(c.version)' = registryAt(c.version)
        BY <1>2, <3>1 DEF registryAt
      <3> HIDE DEF c
      <3> QED BY <1>2, <3>2 DEF Held, c
    <2>5. c.registry \in Held(c.version)'
      BY <2>1, <2>4 DEF InOrder
    <2>6. c.version <= Len(published')
      BY <1>3, <1>t, <2>2
    <2>7. c.fetched # Nil => c.fetched <= Len(published') /\ (c.fetched = 0 \/ c.version <= c.fetched)
      <3>1. ASSUME c.fetched # Nil PROVE c.fetched <= Len(published) /\ (c.fetched = 0 \/ c.version <= c.fetched)
        BY <2>1, <3>1 DEF InOrder
      <3> HIDE DEF c
      <3> QED BY <1>3, <1>t, <2>3, <3>1
    <2> QED BY <1>2, <2>1, <2>5, <2>6, <2>7 DEF InOrder
  <1> QED BY <1>4, <1>5, <1>6 DEF RInv

\* One cache becomes n, and its instance gets on as far as b, if at all.
LEMMA CacheStep ==
  ASSUME RInv, NEW c \in Instances, cache[c] # Nil,
         NEW n \in Caches, InOrder(n),
         cache' = [cache EXCEPT ![c] = n],
         building' = [building EXCEPT ![c] = IF building[c] = "starting" THEN "started" ELSE building[c]]
           \/ building' = building,
         UNCHANGED <<published, mutex, shared, bound>>
  PROVE  RInv'
  <1>t. /\ TypeOK /\ cache \in [Instances -> Caches \cup {Nil}] /\ n # Nil
        /\ building \in [Instances -> {"new", "starting", "started", "done"}]
    BY RFacts DEF RInv
  <1>1. \A i \in Instances : cache'[i] # Nil <=> cache[i] # Nil
    BY <1>t
  <1>2. \A i \in Instances :
          /\ building'[i] \in {"starting", "started"} <=> building[i] \in {"starting", "started"}
          /\ building'[i] = "done" <=> building[i] = "done"
    BY <1>t
  <1>3. building' \in [Instances -> {"new", "starting", "started", "done"}]
    BY <1>t
  <1>4. cache' \in [Instances -> Caches \cup {Nil}]
    BY <1>t
  <1>5. TypeOK'
    BY <1>t, <1>1, <1>2, <1>3, <1>4 DEF TypeOK
  <1>6. Construction'
    BY <1>2 DEF RInv, Construction
  <1>7. ASSUME NEW i \in Instances, cache'[i] # Nil PROVE InOrder(cache[i])'
    <2>1. InOrder(cache'[i])
      BY <1>t, <1>1, <1>7 DEF RInv
    <2> QED BY <2>1 DEF InOrder, Held, registryAt
  <1> QED BY <1>5, <1>6, <1>7 DEF RInv

LEMMA GoOnStep ==
  ASSUME RInv, NEW c \in Instances, cache[c] # Nil,
         NEW n \in Caches, InOrder(n), GoOn(c, n)
  PROVE  RInv'
  BY CacheStep DEF GoOn, construction

\* A stage that neither asks for a registry nor has one changes nothing held.
LEMMA PollStep ==
  ASSUME RInv, NEW c \in Instances,
         \/ PollTick(c) \/ RefreshTick(c) \/ ServeVersion(c) \/ ServeBlankVersion(c)
         \/ VersionFails(c) \/ Compare(c)
  PROVE  RInv'
  <1> DEFINE o == cache[c]
  <1>1. cache[c] # Nil
    BY DEF PollTick, RefreshTick, ServeVersion, ServeBlankVersion, VersionFails, Compare, At
  <1>2. o \in Caches /\ InOrder(o) /\ 0 \in Versions /\ Len(published) \in Versions
    BY <1>1, RFacts DEF RInv
  <1>3. PICK n : /\ GoOn(c, n)
                 /\ \/ \E s \in {"idle", "askVersion", "askSnapshot"} : n = [o EXCEPT !.pc = s]
                    \/ \E s \in {"idle", "compare", "askSnapshot"}, v \in {0, Len(published)} :
                         n = [o EXCEPT !.pc = s, !.polled = v]
    <2>1. CASE PollTick(c)
      BY <2>1 DEF PollTick
    <2>2. CASE RefreshTick(c)
      BY <2>2 DEF RefreshTick
    <2>3. CASE ServeVersion(c)
      BY <2>3 DEF ServeVersion
    <2>4. CASE ServeBlankVersion(c)
      BY <2>4 DEF ServeBlankVersion
    <2>5. CASE VersionFails(c)
      BY <2>5 DEF VersionFails
    <2>6. CASE Compare(c)
      <3> DEFINE s == IF o.polled # o.version THEN "askSnapshot" ELSE "idle"
      <3>1. GoOn(c, [o EXCEPT !.pc = s, !.polled = 0])
        BY <2>6 DEF Compare
      <3>2. s \in {"idle", "compare", "askSnapshot"}
        OBVIOUS
      <3> HIDE DEF s, o
      <3> QED BY <3>1, <3>2
    <2> QED BY <2>1, <2>2, <2>3, <2>4, <2>5, <2>6
  <1> HIDE DEF o
  <1>4. /\ n \in Caches /\ n.pc # "install" /\ n.version = o.version /\ n.fetched = o.fetched
        /\ n.registry = o.registry
    <2>1. ASSUME NEW s \in {"idle", "askVersion", "askSnapshot"}, n = [o EXCEPT !.pc = s]
          PROVE  /\ n \in Caches /\ n.pc # "install" /\ n.version = o.version
                 /\ n.fetched = o.fetched /\ n.registry = o.registry
      BY ONLY <1>2, <2>1 DEF Caches
    <2>2. ASSUME NEW s \in {"idle", "compare", "askSnapshot"}, NEW v \in Versions,
                 n = [o EXCEPT !.pc = s, !.polled = v]
          PROVE  /\ n \in Caches /\ n.pc # "install" /\ n.version = o.version
                 /\ n.fetched = o.fetched /\ n.registry = o.registry
      BY ONLY <1>2, <2>2 DEF Caches
    <2> QED BY <1>2, <1>3, <2>1, <2>2
  <1>5. InOrder(n)
    BY <1>2, <1>4 DEF InOrder
  <1> QED BY <1>1, <1>3, <1>4, <1>5, GoOnStep

\* The answer is the newest version or blank.
LEMMA AnswerStep ==
  ASSUME RInv, NEW c \in Instances, ServeSnapshot(c) \/ ServeBlank(c)
  PROVE  RInv'
  <1> DEFINE o == cache[c]
  <1>1. cache[c] # Nil
    BY DEF ServeSnapshot, ServeBlank, At
  <1>2. o \in Caches /\ InOrder(o) /\ 0 \in Versions /\ Len(published) \in Versions
    BY <1>1, RFacts DEF RInv
  <1>3. PICK v \in {0, Len(published)} : GoOn(c, [o EXCEPT !.pc = "install", !.fetched = v])
    BY DEF ServeSnapshot, ServeBlank
  <1> DEFINE n == [o EXCEPT !.pc = "install", !.fetched = v]
  <1> HIDE DEF o
  <1>4. /\ n \in Caches /\ n.version = o.version /\ n.fetched = v /\ n.registry = o.registry
    BY <1>2 DEF Caches
  <1>5. Nil \notin Versions /\ Len(published) \in Nat
    BY RFacts DEF RInv
  <1> HIDE DEF n
  <1>6. InOrder(n)
    BY <1>2, <1>3, <1>4, <1>5 DEF InOrder
  <1> QED BY <1>1, <1>3, <1>4, <1>6, GoOnStep DEF n, o

\* A refresh that ends, however it does, leaves a cache in order behind.
LEMMA EndedStep ==
  ASSUME RInv, NEW c \in Instances, cache[c] # Nil, NEW m \in Caches, Ended(c, m),
         m.version <= Len(published), m.registry \in Held(m.version)
  PROVE  RInv'
  <1> DEFINE n == [m EXCEPT !.pc = "idle", !.fetched = Nil]
  <1>1. n \in Caches /\ n.pc = "idle" /\ n.fetched = Nil /\ n.version = m.version /\ n.registry = m.registry
    BY DEF Caches
  <1>2. /\ cache' = [cache EXCEPT ![c] = n]
        /\ building' = [building EXCEPT ![c] = IF building[c] = "starting" THEN "started" ELSE building[c]]
        /\ UNCHANGED <<published, mutex, shared, bound>>
    BY DEF Ended
  <1> HIDE DEF n
  <1>3. InOrder(n)
    BY <1>1 DEF InOrder
  <1> QED BY <1>1, <1>2, <1>3, CacheStep

LEMMA FailsStep ==
  ASSUME RInv, NEW c \in Instances, SnapshotFails(c)
  PROVE  RInv'
  <1>1. cache[c] # Nil /\ Ended(c, cache[c])
    BY DEF SnapshotFails, At
  <1>2. cache[c] \in Caches /\ InOrder(cache[c])
    BY <1>1, RFacts DEF RInv
  <1> QED BY <1>1, <1>2, EndedStep DEF InOrder

\* What is installed was compiled from the version it bears.
LEMMA InstallStep ==
  ASSUME RInv, NEW c \in Instances, Install(c)
  PROVE  RInv'
  <1> DEFINE o == cache[c]
             v == o.fetched
  <1>1. cache[c] # Nil /\ o.pc = "install"
    BY DEF Install, At
  <1>2. o \in Caches /\ InOrder(o)
    BY <1>1, RFacts DEF RInv
  <1>3. v \in Versions /\ v <= Len(published)
    BY <1>1, <1>2 DEF InOrder, Caches
  <1>4. PICK reg \in compileRegistry(registryAt(v)) :
          Ended(c, [o EXCEPT !.version = v, !.registry = reg, !.loaded = TRUE])
    BY DEF Install
  <1> DEFINE m == [o EXCEPT !.version = v, !.registry = reg, !.loaded = TRUE]
  <1>5. reg \in Held(v)
    BY <1>4 DEF Held
  <1>6. reg \in CompiledRegistries
    BY <1>3, <1>5, HeldCompiled DEF RInv
  <1> HIDE DEF v, o
  <1>7. m \in Caches /\ m.version = v /\ m.registry = reg
    BY <1>2, <1>3, <1>6 DEF Caches
  <1>8. Ended(c, m)
    BY <1>4
  <1> HIDE DEF m
  <1> QED BY <1>1, <1>3, <1>5, <1>7, <1>8, EndedStep

\* An instance finds the cache that is shared.
LEMMA FoundStep ==
  ASSUME RInv, NEW i \in Instances, Found(i)
  PROVE  RInv'
  <1>t. /\ TypeOK /\ building \in [Instances -> {"new", "starting", "started", "done"}]
        /\ bound \in [Instances -> Instances \cup {Nil}] /\ Nil \notin Instances
    BY RFacts DEF RInv
  <1>1. /\ building[i] = "new" /\ mutex = Nil /\ shared # Nil
        /\ building' = [building EXCEPT ![i] = "done"] /\ bound' = [bound EXCEPT ![i] = shared]
        /\ UNCHANGED <<published, mutex, shared, cache>>
    BY DEF Found
  <1>2. shared \in Instances /\ bound[shared] = shared /\ bound[i] = Nil /\ cache[i] = Nil
    BY <1>1, <1>t DEF RInv, Construction, TypeOK
  <1>3. shared # i
    BY <1>2, <1>t
  <1>4. TypeOK'
    <2>1. building' \in [Instances -> {"new", "starting", "started", "done"}]
          /\ bound' \in [Instances -> Instances \cup {Nil}]
      BY <1>1, <1>2, <1>t
    <2>2. ASSUME NEW j \in Instances
          PROVE  cache'[j] # Nil <=> building'[j] \in {"starting", "started"} \/ bound'[j] = j
      BY <1>1, <1>2, <1>3, <1>t DEF TypeOK
    <2> QED BY <1>1, <1>t, <2>1, <2>2 DEF TypeOK
  <1>5. Construction'
    BY <1>1, <1>2, <1>3, <1>t DEF RInv, Construction
  <1>6. \A j \in Instances : cache'[j] # Nil => InOrder(cache[j])'
    BY <1>1 DEF RInv, InOrder, Held, registryAt
  <1> QED BY <1>4, <1>5, <1>6 DEF RInv

\* An instance finds none, takes the mutex and makes a cold one.
LEMMA CreateStep ==
  ASSUME RInv, NEW i \in Instances, Create(i)
  PROVE  RInv'
  <1>t. /\ TypeOK /\ building \in [Instances -> {"new", "starting", "started", "done"}]
        /\ bound \in [Instances -> Instances \cup {Nil}] /\ Nil \notin Instances
        /\ cache \in [Instances -> Caches \cup {Nil}] /\ Len(published) \in Nat
        /\ NewCache \in Caches /\ NewCache # Nil
    BY RFacts, NewFacts DEF RInv
  <1>1. /\ building[i] = "new" /\ mutex = Nil /\ shared = Nil /\ mutex' = i
        /\ building' = [building EXCEPT ![i] = "starting"]
        /\ cache' = [cache EXCEPT ![i] = NewCache] /\ UNCHANGED <<published, shared, bound>>
    BY DEF Create
  <1>2. \A j \in Instances : building[j] = "new" /\ bound[j] = Nil /\ cache[j] = Nil
    BY <1>1, <1>t DEF RInv, Construction, TypeOK
  <1>3. TypeOK'
    <2>1. building' \in [Instances -> {"new", "starting", "started", "done"}]
          /\ cache' \in [Instances -> Caches \cup {Nil}]
      BY <1>1, <1>t
    <2>2. ASSUME NEW j \in Instances
          PROVE  cache'[j] # Nil <=> building'[j] \in {"starting", "started"} \/ bound'[j] = j
      BY <1>1, <1>2, <1>t
    <2> QED BY <1>1, <1>t, <2>1, <2>2 DEF TypeOK
  <1>4. Construction'
    BY <1>1, <1>2, <1>t DEF RInv, Construction
  <1>5. InOrder(NewCache)
    BY <1>t, NewFacts DEF RInv, InOrder, Held
  <1>6. ASSUME NEW j \in Instances, cache'[j] # Nil PROVE InOrder(cache[j])'
    <2>1. cache'[j] = NewCache
      BY <1>1, <1>2, <1>6, <1>t
    <2> QED BY <1>1, <1>5, <2>1 DEF InOrder, Held, registryAt
  <1> QED BY <1>3, <1>4, <1>6 DEF RInv

\* The creator shares its cache and lets the others in.
LEMMA ShareStep ==
  ASSUME RInv, NEW i \in Instances, Share(i)
  PROVE  RInv'
  <1>t. /\ TypeOK /\ building \in [Instances -> {"new", "starting", "started", "done"}]
        /\ bound \in [Instances -> Instances \cup {Nil}] /\ Nil \notin Instances
    BY RFacts DEF RInv
  <1>1. /\ building[i] = "started" /\ shared' = i /\ mutex' = Nil
        /\ building' = [building EXCEPT ![i] = "done"] /\ bound' = [bound EXCEPT ![i] = i]
        /\ UNCHANGED <<published, cache>>
    BY DEF Share
  <1>2. mutex = i /\ shared = Nil /\ cache[i] # Nil
    BY <1>1, <1>t DEF RInv, Construction, TypeOK
  <1>3. \A j \in Instances : /\ bound[j] = Nil
                             /\ j # i => building[j] = "new" /\ cache[j] = Nil
    BY <1>2, <1>t DEF RInv, Construction, TypeOK
  <1>4. TypeOK'
    <2>1. building' \in [Instances -> {"new", "starting", "started", "done"}]
          /\ bound' \in [Instances -> Instances \cup {Nil}]
      BY <1>1, <1>t
    <2>2. ASSUME NEW j \in Instances
          PROVE  cache'[j] # Nil <=> building'[j] \in {"starting", "started"} \/ bound'[j] = j
      BY <1>1, <1>2, <1>3, <1>t
    <2> QED BY <1>1, <1>t, <2>1, <2>2 DEF TypeOK
  <1>5. Construction'
    BY <1>1, <1>3, <1>t DEF Construction
  <1>6. \A j \in Instances : cache'[j] # Nil => InOrder(cache[j])'
    BY <1>1 DEF RInv, InOrder, Held, registryAt
  <1> QED BY <1>4, <1>5, <1>6 DEF RInv

LEMMA RStep == RInv /\ [Next]_vars => RInv'
  <1> SUFFICES ASSUME RInv, [Next]_vars PROVE RInv'
    OBVIOUS
  <1>1. CASE Publish
    BY <1>1, PublishStep
  <1>2. ASSUME NEW i \in Instances, GetShared(i) PROVE RInv'
    BY <1>2, FoundStep, CreateStep, ShareStep DEF GetShared
  <1>3. ASSUME NEW c \in Instances,
               PollTick(c) \/ RefreshTick(c) \/ AnswerVersion(c) \/ AnswerSnapshot(c) \/ Local(c)
        PROVE  RInv'
    BY <1>3, PollStep, AnswerStep, FailsStep, InstallStep DEF AnswerVersion, AnswerSnapshot, Local
  <1>4. CASE UNCHANGED vars
    BY <1>4 DEF RInv, TypeOK, Construction, InOrder, Held, registryAt, vars
  <1> QED BY <1>1, <1>2, <1>3, <1>4 DEF Next

LEMMA Invariance == Spec => []RInv
  BY RInit, RStep, PTL DEF Spec

-----------------------------------------------------------------------------
(* The theorems                                                            *)

\* The caches and the construction of the instances stay what they are declared
\* to be; an instance has a cache of its own exactly while it creates the shared
\* one and ever after.
THEOREM Typing == Spec => []TypeOK
  <1>1. RInv => TypeOK
    BY DEF RInv
  <1> QED BY <1>1, Invariance, PTL

\* However many instances are built at once, one cache is created, and the
\* instances built are bound to it once its first fetch has been tried
\* (getSharedAppRegistryCache).
THEOREM Shared == Spec => []OneCache
  <1>1. RInv => OneCache
    <2> SUFFICES ASSUME RInv, NEW i \in Instances
                 PROVE  /\ \A j \in Instances : cache[i] # Nil /\ cache[j] # Nil => i = j
                        /\ building[i] = "done" => /\ bound[i] # Nil /\ bound[i] = shared
                                                   /\ cache[bound[i]] # Nil
                                                   /\ building[bound[i]] = "done"
      BY DEF OneCache
    <2>1. \A j \in Instances : cache[j] # Nil => mutex = j \/ bound[j] = j
      BY DEF RInv, TypeOK, Construction
    <2>2. \A j \in Instances : bound[j] = j => shared = j /\ mutex = Nil
      BY InstancesAssumption DEF RInv, Construction
    <2>3. ASSUME NEW j \in Instances, cache[i] # Nil, cache[j] # Nil PROVE i = j
      BY <2>1, <2>2, <2>3, InstancesAssumption
    <2>4. ASSUME building[i] = "done"
          PROVE  /\ bound[i] # Nil /\ bound[i] = shared
                 /\ cache[bound[i]] # Nil /\ building[bound[i]] = "done"
      <3>1. bound[i] # Nil /\ bound[i] = shared /\ bound[shared] = shared
        BY <2>4 DEF RInv, Construction
      <3>2. shared \in Instances
        BY <3>1 DEF RInv, TypeOK
      <3> QED BY <3>1, <3>2 DEF RInv, Construction, TypeOK
    <2> QED BY <2>3, <2>4
  <1> QED BY <1>1, Invariance, PTL

\* Whatever order a refresh takes the hosts in, a host resolves to what an active
\* entry of the version held says of it (refresh, resolveHost).
THEOREM Resolution == Spec => []ResolvesAsPublished
  <1>1. ASSUME NEW host \in RequestHosts PROVE ResolvesBy(BlankRegistry, EmptyRegistry, host)
    <2>1. resolveHost(EmptyRegistry, host) = {}
      BY DEF resolveHost, EmptyRegistry
    <2>2. LiveHosts(BlankRegistry) = {}
      BY DEF LiveHosts, BlankRegistry
    <2>3. Allowed(BlankRegistry, host) = {}
      BY <2>2 DEF Allowed, Exact, Under, WildHosts
    <2> QED BY <2>1, <2>3 DEF ResolvesBy
  <1>2. ASSUME RInv, NEW c \in Instances, cache[c] # Nil, NEW host \in RequestHosts
        PROVE  ResolvesBy(registryAt(cache[c].version), cache[c].registry, host)
    <2> DEFINE v == cache[c].version
               reg == cache[c].registry
    <2>1. InOrder(cache[c]) /\ cache[c] \in Caches
      BY <1>2, RFacts DEF RInv
    <2>2. v \in Versions /\ v <= Len(published) /\ reg \in Held(v)
      BY <2>1 DEF InOrder, Caches
    <2> HIDE DEF v, reg
    <2>3. Decoded(registryAt(v))
      BY <1>2, <2>2, AtVersion, AllDecoded DEF RInv
    <2>4. CASE reg \in compileRegistry(registryAt(v))
      BY <2>3, <2>4, CompiledResolves, HostsAssumption DEF v, reg
    <2>5. CASE v = 0 /\ reg = EmptyRegistry
      BY <1>1, <2>5 DEF registryAt, v, reg
    <2> QED BY <2>2, <2>4, <2>5 DEF Held
  <1>3. RInv => ResolvesAsPublished
    <2> SUFFICES ASSUME RInv PROVE ResolvesAsPublished
      OBVIOUS
    <2> QED BY <1>2 DEF ResolvesAsPublished, ResolvesBy, Allowed, Exact, Under, WildHosts, LiveHosts
  <1> QED BY <1>3, Invariance, PTL

-----------------------------------------------------------------------------
(* Refinement                                                              *)

\* A step that leaves the version and the flag of the cache of c as they were.
LEMMA Stutters ==
  ASSUME NEW c \in Instances, UNCHANGED published,
         cache'[c] # Nil => cache'[c].version = IF cache[c] = Nil THEN 0 ELSE cache[c].version,
         cache'[c] # Nil => cache'[c].loaded = (cache[c] # Nil /\ cache[c].loaded),
         cache'[c] = Nil => cache[c] = Nil
  PROVE  UNCHANGED LastGood(c)!cacheVars
  BY DEF LastGood!cacheVars

\* A cache that takes a step is there after it.
LEMMA StaysThere ==
  ASSUME RInv, NEW c \in Instances, cache[c] # Nil, NEW n, GoOn(c, n) \/ Ended(c, n), RInv'
  PROVE  cache'[c] # Nil
  <1>1. building \in [Instances -> {"new", "starting", "started", "done"}]
    BY RFacts DEF RInv
  <1>2. building[c] \in {"starting", "started"} => building'[c] \in {"starting", "started"}
    BY <1>1 DEF GoOn, Ended, construction
  <1>3. UNCHANGED bound
    BY DEF GoOn, Ended, construction
  <1> QED BY <1>2, <1>3 DEF RInv, TypeOK

\* The cache n holds what o does.
SameHeld(n, o) == DOMAIN n = DOMAIN o /\ n.version = o.version /\ n.loaded = o.loaded

\* Every step of the cache of c other than an installation, the end of a refresh
\* that failed included, leaves them alone.
LEMMA KeepsHeld ==
  ASSUME RInv, NEW c \in Instances,
         \/ PollTick(c) \/ RefreshTick(c) \/ AnswerVersion(c) \/ AnswerSnapshot(c) \/ Compare(c)
  PROVE  UNCHANGED LastGood(c)!cacheVars
  <1> DEFINE o == cache[c]
  <1>1. o # Nil
    BY DEF PollTick, RefreshTick, AnswerVersion, ServeVersion, ServeBlankVersion, VersionFails,
           AnswerSnapshot, ServeSnapshot, ServeBlank, SnapshotFails, Compare, At
  <1>2. o \in Caches /\ cache \in [Instances -> Caches \cup {Nil}]
    BY <1>1, RFacts DEF RInv
  <1>3. RInv'
    BY PollStep, AnswerStep, FailsStep DEF AnswerVersion, AnswerSnapshot
  <1>4. PICK n : (GoOn(c, n) \/ Ended(c, n)) /\ SameHeld(n, o)
    <2>1. CASE \E s : GoOn(c, [o EXCEPT !.pc = s])
      BY <1>2, <2>1 DEF Caches, SameHeld
    <2>2. CASE \E s, v : GoOn(c, [o EXCEPT !.pc = s, !.polled = v])
      <3>1. PICK s, v : GoOn(c, [o EXCEPT !.pc = s, !.polled = v])
        BY <2>2
      <3> DEFINE n == [o EXCEPT !.pc = s, !.polled = v]
      <3> HIDE DEF o
      <3>2. SameHeld(n, o)
        BY <1>2 DEF Caches, SameHeld
      <3> HIDE DEF n
      <3> QED BY <3>1, <3>2 DEF n
    <2>3. CASE \E v : GoOn(c, [o EXCEPT !.pc = "install", !.fetched = v])
      <3>1. PICK v : GoOn(c, [o EXCEPT !.pc = "install", !.fetched = v])
        BY <2>3
      <3> DEFINE n == [o EXCEPT !.pc = "install", !.fetched = v]
      <3> HIDE DEF o
      <3>2. SameHeld(n, o)
        BY <1>2 DEF Caches, SameHeld
      <3> HIDE DEF n
      <3> QED BY <3>1, <3>2 DEF n
    <2>4. CASE Ended(c, o)
      BY <2>4 DEF SameHeld
    <2> QED BY <2>1, <2>2, <2>3, <2>4
            DEF PollTick, RefreshTick, AnswerVersion, ServeVersion, ServeBlankVersion, VersionFails,
                AnswerSnapshot, ServeSnapshot, ServeBlank, SnapshotFails, Compare
  <1>5. cache'[c] # Nil
    BY <1>1, <1>3, <1>4, StaysThere
  <1>6. PICK m : /\ cache' = [cache EXCEPT ![c] = m] /\ UNCHANGED published
                 /\ m = n \/ m = [n EXCEPT !.pc = "idle", !.fetched = Nil]
    BY <1>4 DEF GoOn, Ended
  <1> HIDE DEF o
  <1>7. m.version = o.version /\ m.loaded = o.loaded
    <2>1. DOMAIN n = {"pc", "polled", "fetched", "version", "registry", "loaded"}
          /\ n.version = o.version /\ n.loaded = o.loaded
      BY <1>2, <1>4 DEF Caches, SameHeld
    <2> QED BY ONLY <2>1, <1>6
  <1>8. cache'[c] = m
    BY <1>2, <1>6
  <1>9. cache'[c].version = IF o = Nil THEN 0 ELSE o.version
    BY <1>1, <1>7, <1>8
  <1>10. cache'[c].loaded = (o # Nil /\ o.loaded)
    <2>1. o.loaded \in BOOLEAN
      BY <1>2 DEF Caches
    <2> QED BY <1>1, <1>7, <1>8, <2>1, Zenon
  <1> QED BY <1>5, <1>6, <1>9, <1>10, Stutters DEF o

\* An installation of a version that is not blank is one of LastGoodCache.
LEMMA InstallsLastGood ==
  ASSUME RInv, NEW c \in Instances, Install(c), cache[c].fetched # 0
  PROVE  LastGood(c)!CacheNext
  <1> DEFINE o == cache[c]
             v == o.fetched
  <1>1. o # Nil /\ o.pc = "install"
    BY DEF Install, At
  <1>2. /\ o \in Caches /\ InOrder(o) /\ cache \in [Instances -> Caches \cup {Nil}]
        /\ Nil \notin Caches /\ Len(published) \in 1..MaxPublish /\ Versions \subseteq Nat
    BY <1>1, RFacts DEF RInv
  <1>3. /\ v \in Versions /\ v # 0 /\ v <= Len(published) /\ o.version <= v
        /\ o.version \in Versions
    BY <1>1, <1>2 DEF InOrder, Caches
  <1>n. cache'[c] # Nil
    <2>1. \E m : Ended(c, m)
      BY DEF Install
    <2> QED BY <1>1, <2>1, InstallStep, StaysThere
  <1>4. PICK reg : /\ UNCHANGED published
                   /\ cache' = [cache EXCEPT ![c] =
                                  [[o EXCEPT !.version = v, !.registry = reg, !.loaded = TRUE]
                                     EXCEPT !.pc = "idle", !.fetched = Nil]]
    BY DEF Install, Ended
  <1> DEFINE n == [[o EXCEPT !.version = v, !.registry = reg, !.loaded = TRUE]
                     EXCEPT !.pc = "idle", !.fetched = Nil]
  <1> HIDE DEF o, v
  <1>5. n.version = v /\ n.loaded = TRUE
    <2>1. DOMAIN o = {"pc", "polled", "fetched", "version", "registry", "loaded"}
      BY <1>2 DEF Caches
    <2> QED BY ONLY <2>1 DEF n
  <1>e. cache' = [cache EXCEPT ![c] = n]
    BY <1>4
  <1> HIDE DEF n
  <1>6. cache'[c] = n
    BY <1>2, <1>e
  <1>7. v \in 1..Len(published) /\ v \in 1..MaxPublish /\ v >= o.version
    BY <1>2, <1>3, MaxPublishAssumption
  <1>8. LastGood(c)!Install(v, TRUE)
    BY <1>1, <1>n, <1>4, <1>5, <1>6, <1>7 DEF LastGood!Install, o
  <1> QED BY <1>7, <1>8 DEF LastGood!CacheNext

\* Whatever fails, a cache takes only the steps LastGoodCache allows, but for the
\* installation of a blank answer (refresh).
THEOREM Refinement == Spec => LastGoodUnlessBlank
  <1>1. ASSUME Init, NEW c \in Instances PROVE LastGood(c)!CacheInit
    BY <1>1 DEF Init, LastGood!CacheInit
  <1>2. ASSUME RInv, [Next]_vars, NEW c \in Instances
        PROVE  \/ LastGood(c)!CacheNext \/ UNCHANGED LastGood(c)!cacheVars
               \/ cache[c] # Nil /\ cache[c].fetched = 0 /\ Install(c)
    <2>1. CASE Publish
      BY <2>1 DEF Publish, construction, LastGood!CacheNext, LastGood!Publish
    <2>2. ASSUME NEW i \in Instances, Found(i) \/ Share(i) PROVE UNCHANGED LastGood(c)!cacheVars
      BY <2>2 DEF Found, Share, LastGood!cacheVars
    <2>3. ASSUME NEW i \in Instances, Create(i) PROVE UNCHANGED LastGood(c)!cacheVars
      <3>1. cache[i] = Nil
        BY <2>3, <1>2, InstancesAssumption DEF Create, RInv, TypeOK, Construction
      <3>2. /\ cache \in [Instances -> Caches \cup {Nil}] /\ UNCHANGED published
            /\ cache' = [cache EXCEPT ![i] = NewCache]
        BY <2>3, <1>2, RFacts DEF Create, RInv
      <3>3. CASE c = i
        BY <3>1, <3>2, <3>3, NewFacts, Stutters, <1>2 DEF RInv
      <3>4. CASE c # i
        BY <3>2, <3>4 DEF LastGood!cacheVars
      <3> QED BY <3>3, <3>4
    <2>4. ASSUME NEW d \in Instances, d # c,
                 PollTick(d) \/ RefreshTick(d) \/ AnswerVersion(d) \/ AnswerSnapshot(d) \/ Local(d)
          PROVE  UNCHANGED LastGood(c)!cacheVars
      <3>1. \E n : GoOn(d, n) \/ Ended(d, n)
        BY <2>4 DEF PollTick, RefreshTick, AnswerVersion, ServeVersion, ServeBlankVersion, VersionFails,
                    AnswerSnapshot, ServeSnapshot, ServeBlank, SnapshotFails, Compare, Local, Install
      <3>2. PICK n : cache' = [cache EXCEPT ![d] = n] /\ UNCHANGED published
        BY <3>1 DEF GoOn, Ended
      <3> QED BY <2>4, <3>2 DEF LastGood!cacheVars
    <2>5. CASE PollTick(c) \/ RefreshTick(c) \/ AnswerVersion(c) \/ AnswerSnapshot(c) \/ Compare(c)
      BY <1>2, <2>5, KeepsHeld
    <2>6. CASE Install(c)
      BY <1>2, <2>6, InstallsLastGood DEF Install, At
    <2>7. CASE UNCHANGED vars
      BY <2>7 DEF vars, LastGood!cacheVars
    <2> QED BY <1>2, <2>1, <2>2, <2>3, <2>4, <2>5, <2>6, <2>7 DEF Next, GetShared, Local
  <1>3. RInv /\ [Next]_vars =>
          [\A c \in Instances :
             \/ [LastGood(c)!CacheNext]_(LastGood(c)!cacheVars)
             \/ cache[c] # Nil /\ cache[c].fetched = 0 /\ Install(c)]_vars
    BY <1>2
  <1>4. Init => \A c \in Instances : LastGood(c)!CacheInit
    BY <1>1
  <1> QED BY <1>3, <1>4, Invariance, PTL DEF Spec, LastGoodUnlessBlank
=============================================================================
