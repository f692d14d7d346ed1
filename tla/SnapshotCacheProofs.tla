------------------------ MODULE SnapshotCacheProofs ------------------------
(***************************************************************************)
(* Proofs about the snapshot poller, for every set of snapshots and every  *)
(* number of published versions. CacheIInv is the inductive strengthening: *)
(* it remembers that an answer waiting to be installed is the blank one or *)
(* a published snapshot not older than the one held.                       *)
(***************************************************************************)
EXTENDS SnapshotCache, TLAPS

Answers == [version : Versions \ {0}, snapshot : Contents]

\* An answer with published content, not older than what is held.
Published(answer) ==
  /\ answer \in Answers
  /\ version <= answer.version
  /\ answer.version <= Len(published)
  /\ answer.snapshot = published[answer.version]

\* FetchedIsPublished: the answer about to be installed, unless it is blank, is
\* the content the upstream published under that version, and not older than
\* the one held.
FetchedIsPublished ==
  pc = "install" => fetched = BlankAnswer \/ Published(fetched)

\* InstalledHolds: the flag is about to go up only for a held snapshot or a
\* blank answer.
InstalledHolds == pc = "storeLoaded" => fetched = BlankAnswer \/ version # 0

CacheIInv ==
  /\ TypeOK
  /\ version <= Len(published)
  /\ FetchedIsPublished
  /\ InstalledHolds
  /\ HoldsOneVersion

\* Appending a version leaves the earlier ones as they were.
LEMMA AppendKeeps ==
  ASSUME NEW S, NEW s \in Seq(S), NEW c \in S
  PROVE  /\ Append(s, c) \in Seq(S)
         /\ Len(Append(s, c)) = Len(s) + 1
         /\ \A i \in 1..Len(s) : Append(s, c)[i] = s[i]
OBVIOUS

\* A blank answer leaves nothing to match and nothing to grant.
LEMMA BlankIsEmpty ==
  /\ compiled(BlankSnapshot) = <<>>
  /\ newPolicyIndex(BlankSnapshot.policies, BlankSnapshot.bindings) = EmptyIndex
  <1>0. DOMAIN <<>> = {} /\ Len(<<>>) = 0 /\ ToSet(<<>>) = {}
    BY DEF ToSet
  <1>1. compiled(BlankSnapshot) = <<>>
    <2> DEFINE services == [i \in DOMAIN BlankSnapshot.apps |->
                 FlattenSeq([j \in DOMAIN BlankSnapshot.apps[i].services |->
                   [k \in DOMAIN BlankSnapshot.apps[i].services[j] |->
                      compiledEndpoint(BlankSnapshot.apps[i].app,
                                       BlankSnapshot.apps[i].services[j][k])]])]
    <2>1. DOMAIN BlankSnapshot.apps = {}
      BY <1>0 DEF BlankSnapshot
    <2>2. services = <<>>
      BY <2>1
    <2>3. compiled(BlankSnapshot) = FlattenSeq(services)
      BY DEF compiled
    <2> HIDE DEF services
    <2> QED BY <2>2, <2>3, <1>0 DEF FlattenSeq
  <1>2. ASSUME NEW none, ToSet(none) = {}
        PROVE  newPolicyIndex(none, none) = EmptyIndex
    <2> DEFINE idx == newPolicyIndex(none, none)
               names == {p.name : p \in ToSet(none)}
               roles == {b.role : b \in {c \in ToSet(none) : c.policy \in names}}
    <2>1. names = {} /\ roles = {}
      BY <1>2
    <2>2. /\ idx.policies = [n \in names |-> idx.policies[n]]
          /\ idx.rolePolicy = [r \in roles |-> idx.rolePolicy[r]]
          /\ idx = [policies |-> idx.policies, rolePolicy |-> idx.rolePolicy]
      BY DEF newPolicyIndex
    <2> HIDE DEF idx, names, roles
    <2>3. idx.policies = <<>> /\ idx.rolePolicy = <<>>
      BY <2>1, <2>2
    <2> QED BY <2>2, <2>3 DEF EmptyIndex, idx
  <1> QED BY <1>0, <1>1, <1>2 DEF BlankSnapshot

\* The initial state: a single published version and an empty cache.
LEMMA CacheInitHolds == Init => CacheIInv
  <1> SUFFICES ASSUME Init PROVE CacheIInv
    OBVIOUS
  <1>c. PICK c \in Contents : published = <<c>>
    BY DEF Init
  <1>i. /\ pc = "askSnapshot" /\ polled = 0 /\ fetched = Nil /\ version = 0
        /\ endpoints = <<>> /\ policies = EmptyIndex /\ loaded = FALSE
    BY DEF Init
  <1>1. published \in Seq(Contents) /\ Len(published) = 1
    BY <1>c
  <1>m. MaxPublish \in Nat /\ MaxPublish >= 1
    BY MaxPublishAssumption
  <1>2. TypeOK
    <2>1. Len(published) \in 1..MaxPublish /\ polled \in Versions /\ version \in Versions
      BY <1>1, <1>m, <1>i DEF Versions
    <2>2. fetched \in [version : Versions \ {0}, snapshot : Contents] \cup {BlankAnswer, Nil}
      BY <1>i
    <2> QED BY <1>1, <1>i, <2>1, <2>2 DEF TypeOK
  <1>3. version <= Len(published)
    BY <1>1, <1>i
  <1>4. FetchedIsPublished /\ InstalledHolds
    BY <1>i DEF FetchedIsPublished, InstalledHolds
  <1>5. HoldsOneVersion
    BY <1>i DEF HoldsOneVersion
  <1> QED BY <1>2, <1>3, <1>4, <1>5 DEF CacheIInv

\* Every step of the poller and of the upstream keeps the invariant.
LEMMA CacheStepHolds == CacheIInv /\ [Next]_vars => CacheIInv'
  <1> SUFFICES ASSUME CacheIInv, [Next]_vars PROVE CacheIInv'
    OBVIOUS
  <1> USE MaxPublishAssumption
  <1>t. /\ published \in Seq(Contents) /\ Len(published) \in 1..MaxPublish
        /\ version \in Nat /\ version <= Len(published)
    BY DEF CacheIInv, TypeOK, Versions
  <1>1. CASE Publish
    <2>1. PICK c \in Contents : published' = Append(published, c)
      BY <1>1 DEF Publish
    <2>2. /\ published' \in Seq(Contents)
          /\ Len(published') = Len(published) + 1
          /\ \A i \in 1..Len(published) : published'[i] = published[i]
      BY <2>1, <1>t, AppendKeeps
    <2>3. Len(published) < MaxPublish /\ UNCHANGED <<pc, polled, fetched, held, loaded>>
      BY <1>1 DEF Publish
    <2>4. TypeOK'
      BY <2>2, <2>3, <1>t DEF CacheIInv, TypeOK, held
    <2>5. version' <= Len(published')
      BY <2>2, <2>3, <1>t DEF held
    <2>6. FetchedIsPublished'
      <3>1. SUFFICES ASSUME pc = "install", fetched # BlankAnswer
                     PROVE  /\ fetched \in Answers
                            /\ version <= fetched.version
                            /\ fetched.version <= Len(published')
                            /\ fetched.snapshot = published'[fetched.version]
        BY <2>3 DEF FetchedIsPublished, Published, held
      <3>2. /\ fetched \in Answers /\ version <= fetched.version
            /\ fetched.version <= Len(published)
            /\ fetched.snapshot = published[fetched.version]
        BY <3>1 DEF CacheIInv, FetchedIsPublished, Published
      <3>3. fetched.version \in 1..Len(published)
        BY <3>2, <1>t DEF Answers, Versions
      <3> QED BY <3>2, <3>3, <2>2, <1>t
    <2>7. InstalledHolds'
      BY <2>3 DEF CacheIInv, InstalledHolds, held
    <2>8. HoldsOneVersion'
      <3>1. CASE version = 0
        BY <3>1, <2>3 DEF CacheIInv, HoldsOneVersion, held
      <3>2. CASE version # 0
        <4>1. version \in 1..Len(published) /\ published'[version] = published[version]
          BY <3>2, <2>2, <1>t
        <4>2. /\ endpoints = compiled(published[version])
              /\ policies = newPolicyIndex(published[version].policies, published[version].bindings)
          BY <3>2 DEF CacheIInv, HoldsOneVersion
        <4> QED BY <3>2, <4>1, <4>2, <2>2, <2>3, <1>t DEF HoldsOneVersion, held
      <3> QED BY <3>1, <3>2
    <2> QED BY <2>4, <2>5, <2>6, <2>7, <2>8 DEF CacheIInv
  <1>2. CASE ServeSnapshot
    <2>1. /\ fetched' \in Answers
          /\ fetched'.version = Len(published)
          /\ fetched'.snapshot = published[Len(published)]
      BY <1>2, <1>t DEF ServeSnapshot, Answers, Versions
    <2>2. TypeOK'
      BY <1>2, <2>1 DEF ServeSnapshot, CacheIInv, TypeOK, Answers, held
    <2>3. FetchedIsPublished'
      BY <1>2, <2>1, <1>t DEF ServeSnapshot, FetchedIsPublished, Published, held
    <2>4. version' <= Len(published') /\ InstalledHolds' /\ HoldsOneVersion'
      BY <1>2 DEF ServeSnapshot, CacheIInv, InstalledHolds, HoldsOneVersion, held
    <2> QED BY <2>2, <2>3, <2>4 DEF CacheIInv
  <1>3. CASE Install
    <2>1. CASE fetched = BlankAnswer
      <3>1. version' = 0 /\ endpoints' = <<>> /\ policies' = EmptyIndex
        BY <1>3, <2>1, BlankIsEmpty DEF Install, BlankAnswer
      <3>2. pc' = "storeLoaded" /\ fetched' = BlankAnswer
            /\ UNCHANGED <<published, polled, fetched, loaded>>
        BY <1>3, <2>1 DEF Install
      <3>3. TypeOK' /\ version' <= Len(published')
        BY <3>1, <3>2, <1>t DEF CacheIInv, TypeOK, Versions
      <3>4. FetchedIsPublished' /\ InstalledHolds' /\ HoldsOneVersion'
        BY <3>1, <3>2 DEF FetchedIsPublished, InstalledHolds, HoldsOneVersion
      <3> QED BY <3>3, <3>4 DEF CacheIInv
    <2>2. CASE fetched # BlankAnswer
      <3>1. Published(fetched)
        BY <1>3, <2>2 DEF Install, CacheIInv, FetchedIsPublished
      <3>2. fetched.version \in 1..Len(published) /\ fetched.version \in Versions \ {0}
        BY <3>1, <1>t DEF Published, Answers, Versions
      <3>3. TypeOK'
        BY <1>3, <3>2 DEF Install, CacheIInv, TypeOK
      <3>4. version' <= Len(published') /\ FetchedIsPublished' /\ InstalledHolds'
        BY <1>3, <3>1, <3>2 DEF Install, Published, FetchedIsPublished, InstalledHolds, Versions
      <3>5. HoldsOneVersion'
        BY <1>3, <3>1, <3>2 DEF Install, Published, HoldsOneVersion, Versions
      <3> QED BY <3>3, <3>4, <3>5 DEF CacheIInv
    <2> QED BY <2>1, <2>2
  <1>4. CASE StoreLoaded
    <2>1. TypeOK'
      BY <1>4 DEF StoreLoaded, CacheIInv, TypeOK, held
    <2>2. version' <= Len(published') /\ FetchedIsPublished' /\ InstalledHolds' /\ HoldsOneVersion'
      BY <1>4 DEF StoreLoaded, CacheIInv, FetchedIsPublished, Published, InstalledHolds, HoldsOneVersion, held
    <2> QED BY <2>1, <2>2 DEF CacheIInv
  <1>5. CASE ServeVersion \/ ServeBlankVersion
    <2>1. TypeOK'
      BY <1>5, <1>t DEF ServeVersion, ServeBlankVersion, CacheIInv, TypeOK, Versions, held
    <2>2. version' <= Len(published') /\ FetchedIsPublished' /\ InstalledHolds' /\ HoldsOneVersion'
      BY <1>5 DEF ServeVersion, ServeBlankVersion, CacheIInv, FetchedIsPublished, Published, InstalledHolds, HoldsOneVersion, held
    <2> QED BY <2>1, <2>2 DEF CacheIInv
  <1>6. CASE \/ PollTick \/ RefreshTick \/ VersionFails \/ CompareVersion
             \/ SnapshotFails \/ UNCHANGED vars
    <2>1. /\ UNCHANGED <<published, polled, fetched, version, endpoints, policies, loaded>>
          /\ \/ pc' \in {"idle", "askVersion", "askSnapshot"}
             \/ pc' = pc
      BY <1>6 DEF PollTick, RefreshTick, VersionFails, CompareVersion, SnapshotFails, vars, held
    <2>2. TypeOK'
      BY <2>1 DEF CacheIInv, TypeOK
    <2>3. version' <= Len(published') /\ FetchedIsPublished' /\ InstalledHolds' /\ HoldsOneVersion'
      BY <2>1 DEF CacheIInv, FetchedIsPublished, Published, InstalledHolds, HoldsOneVersion
    <2> QED BY <2>2, <2>3 DEF CacheIInv
  <1>7. CASE ServeBlank
    <2>1. TypeOK'
      BY <1>7 DEF ServeBlank, CacheIInv, TypeOK, held
    <2>2. version' <= Len(published') /\ FetchedIsPublished' /\ InstalledHolds' /\ HoldsOneVersion'
      BY <1>7 DEF ServeBlank, CacheIInv, FetchedIsPublished, Published, InstalledHolds, HoldsOneVersion, held
    <2> QED BY <2>1, <2>2 DEF CacheIInv
  <1> QED BY <1>1, <1>2, <1>3, <1>4, <1>5, <1>6, <1>7 DEF Next, AnswerVersion, AnswerSnapshot, Poller

\* Typing: the state of the poller keeps its types, for every instance.
THEOREM Typing == Spec => []TypeOK
  <1>1. CacheIInv => TypeOK
    BY DEF CacheIInv
  <1> QED BY <1>1, CacheInitHolds, CacheStepHolds, PTL DEF Spec

\* OneVersion: readers of the cache see endpoints, policies and version of one
\* published snapshot, or of none, whatever fails and however publications
\* interleave with polls (snapshot.go refresh).
THEOREM OneVersion == Spec => []HoldsOneVersion
  <1>1. CacheIInv => HoldsOneVersion
    BY DEF CacheIInv
  <1> QED BY <1>1, CacheInitHolds, CacheStepHolds, PTL DEF Spec

\* Refinement: the poller implements LastGoodCache but for blank answers:
\* versions do not decrease, a failure never empties the cache, and the loaded
\* flag is not ahead of the first install.
THEOREM Refinement == Spec => LastGoodUnlessBlank
  <1>1. Init => Abstract!CacheInit
    BY DEF Init, Abstract!CacheInit
  <1>2. CacheIInv /\ [Next]_vars =>
          [\/ [Abstract!CacheNext]_(Abstract!cacheVars)
           \/ fetched = BlankAnswer /\ (Install \/ StoreLoaded)]_vars
    <2> SUFFICES ASSUME CacheIInv, [Next]_vars,
                        ~(fetched = BlankAnswer /\ (Install \/ StoreLoaded))
                 PROVE  Abstract!CacheNext \/ UNCHANGED <<published, version, loaded>>
      BY DEF Abstract!cacheVars
    <2> USE DEF held
    <2>1. CASE Publish
      BY <2>1 DEF Publish, Abstract!CacheNext, Abstract!Publish
    <2>2. CASE Install
      <3>1. Published(fetched) /\ published \in Seq(Contents) /\ version \in Nat
        BY <2>2 DEF Install, CacheIInv, FetchedIsPublished, TypeOK, Versions
      <3>2. fetched.version \in 1..MaxPublish /\ fetched.version \in 1..Len(published)
        BY <3>1, MaxPublishAssumption DEF Published, Answers, Versions
      <3>3. Abstract!Install(fetched.version, loaded)
        BY <2>2, <3>1, <3>2 DEF Install, Published, Abstract!Install
      <3> QED BY <3>2, <3>3 DEF Abstract!CacheNext
    <2>3. CASE StoreLoaded
      BY <2>3 DEF StoreLoaded, CacheIInv, InstalledHolds, Abstract!CacheNext, Abstract!MarkLoaded
    <2>4. CASE AnswerVersion \/ AnswerSnapshot
      BY <2>4 DEF AnswerVersion, ServeVersion, ServeBlankVersion, VersionFails,
                  AnswerSnapshot, ServeSnapshot, ServeBlank, SnapshotFails
    <2>5. CASE PollTick \/ RefreshTick \/ CompareVersion \/ UNCHANGED vars
      BY <2>5 DEF PollTick, RefreshTick, CompareVersion, vars
    <2> QED BY <2>1, <2>2, <2>3, <2>4, <2>5 DEF Next, Poller
  <1> QED BY <1>1, <1>2, CacheInitHolds, CacheStepHolds, PTL DEF Spec, LastGoodUnlessBlank
=============================================================================
