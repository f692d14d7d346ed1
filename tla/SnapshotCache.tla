--------------------------- MODULE SnapshotCache ---------------------------
(***************************************************************************)
(* The shared poller of the registry snapshot (snapshot.go). One goroutine *)
(* runs start's refresh and then the loop, so polls and refreshes never    *)
(* overlap each other; the upstream publishes and the request path reads   *)
(* between any two of its steps.                                           *)
(*                                                                         *)
(* The two HTTP calls are split where other actors can act: the upstream   *)
(* answers (with what it publishes at that moment) or the call fails, and  *)
(* the answer is applied in a later step. Like application-service, it may *)
(* answer 200 with JSON that is no snapshot, such as {}, which decodes to  *)
(* a blank one under the empty version.                                    *)
(***************************************************************************)
EXTENDS Snapshot

CONSTANTS
  Contents,    \* the snapshots service-service may publish
  MaxPublish   \* bound on the number of published versions

ASSUME MaxPublishAssumption == MaxPublish \in Nat \ {0}

VARIABLES
  published,   \* external: the versions service-service published so far
  pc,          \* where the poller goroutine is
  polled,      \* answer of /v1/registry/version
  fetched,     \* answer of /v1/registry/snapshot: [version, snapshot]
  version,     \* sc.version, 0 for the empty string
  endpoints,   \* sc.compiled
  policies,    \* sc.policies
  loaded       \* sc.loaded

vars == <<published, pc, polled, fetched, version, endpoints, policies, loaded>>
held == <<version, endpoints, policies>>

Versions == 0..MaxPublish

BlankSnapshot == [apps |-> <<>>, policies |-> <<>>, bindings |-> <<>>]

BlankAnswer == [version |-> 0, snapshot |-> BlankSnapshot]

TypeOK ==
  /\ published \in Seq(Contents)
  /\ Len(published) \in 1..MaxPublish
  /\ pc \in {"idle", "askVersion", "compare", "askSnapshot", "install", "storeLoaded"}
  /\ polled \in Versions
  /\ fetched \in [version : Versions \ {0}, snapshot : Contents] \cup {BlankAnswer, Nil}
  /\ version \in Versions
  /\ loaded \in BOOLEAN

\* newSnapshotCache, then start: the first refresh is under way.
Init ==
  /\ published \in {<<c>> : c \in Contents}
  /\ pc = "askSnapshot"
  /\ polled = 0
  /\ fetched = Nil
  /\ version = 0
  /\ endpoints = <<>>
  /\ policies = EmptyIndex
  /\ loaded = FALSE

-----------------------------------------------------------------------------
(* service-service                                                         *)

Publish ==
  /\ Len(published) < MaxPublish
  /\ \E c \in Contents : published' = Append(published, c)
  /\ UNCHANGED <<pc, polled, fetched, held, loaded>>

\* Mutant: the version endpoint announces the version to come.
ServeNextVersion ==
  /\ pc = "askVersion"
  /\ polled' = Len(published) + 1
  /\ pc' = "compare"
  /\ UNCHANGED <<published, fetched, held, loaded>>

\* The version endpoint answers.
ServeVersion ==
  /\ pc = "askVersion"
  /\ polled' = Len(published)
  /\ pc' = "compare"
  /\ UNCHANGED <<published, fetched, held, loaded>>

ServeBlankVersion ==
  /\ pc = "askVersion"
  /\ polled' = 0
  /\ pc' = "compare"
  /\ UNCHANGED <<published, fetched, held, loaded>>

\* The snapshot endpoint answers: version and content are of one moment.
ServeSnapshot ==
  /\ pc = "askSnapshot"
  /\ fetched' = [version |-> Len(published), snapshot |-> published[Len(published)]]
  /\ pc' = "install"
  /\ UNCHANGED <<published, polled, held, loaded>>

ServeBlank ==
  /\ pc = "askSnapshot"
  /\ fetched' = BlankAnswer
  /\ pc' = "install"
  /\ UNCHANGED <<published, polled, held, loaded>>

-----------------------------------------------------------------------------
(* The poller                                                              *)

PollTick ==
  /\ pc = "idle"
  /\ pc' = "askVersion"
  /\ UNCHANGED <<published, polled, fetched, held, loaded>>

RefreshTick ==
  /\ pc = "idle"
  /\ pc' = "askSnapshot"
  /\ UNCHANGED <<published, polled, fetched, held, loaded>>

\* checkVersion gives up: transport error, unreadable body, status other than
\* 200 or invalid JSON.
VersionFails ==
  /\ pc = "askVersion"
  /\ pc' = "idle"
  /\ UNCHANGED <<published, polled, fetched, held, loaded>>

\* Mutant: a changed version is only noticed while the cache is cold.
CompareWhenCold ==
  /\ pc = "compare"
  /\ pc' = IF version = 0 THEN "askSnapshot" ELSE "idle"
  /\ UNCHANGED <<published, polled, fetched, held, loaded>>

\* checkVersion compares under the read lock.
CompareVersion ==
  /\ pc = "compare"
  /\ pc' = IF polled # version THEN "askSnapshot" ELSE "idle"
  /\ UNCHANGED <<published, polled, fetched, held, loaded>>

\* Mutant: a failed refresh clears the cache.
FailureClears ==
  /\ pc = "askSnapshot"
  /\ pc' = "idle"
  /\ version' = 0
  /\ endpoints' = <<>>
  /\ policies' = EmptyIndex
  /\ UNCHANGED <<published, polled, fetched, loaded>>

\* refresh gives up for the same reasons: the last good snapshot stays.
SnapshotFails ==
  /\ pc = "askSnapshot"
  /\ pc' = "idle"
  /\ UNCHANGED <<published, polled, fetched, held, loaded>>

\* Mutant: the policy index is left for the next refresh.
InstallWithoutPolicies ==
  /\ pc = "install"
  /\ version' = fetched.version
  /\ endpoints' = compiled(fetched.snapshot)
  /\ pc' = "storeLoaded"
  /\ UNCHANGED <<published, polled, fetched, policies, loaded>>

\* refresh replaces everything in one critical section.
Install ==
  /\ pc = "install"
  /\ version' = fetched.version
  /\ endpoints' = compiled(fetched.snapshot)
  /\ policies' = newPolicyIndex(fetched.snapshot.policies, fetched.snapshot.bindings)
  /\ pc' = "storeLoaded"
  /\ UNCHANGED <<published, polled, fetched, loaded>>

\* The flag follows after the unlock.
StoreLoaded ==
  /\ pc = "storeLoaded"
  /\ loaded' = TRUE
  /\ pc' = "idle"
  /\ UNCHANGED <<published, polled, fetched, held>>

AnswerVersion == ServeVersion \/ ServeBlankVersion \/ VersionFails

AnswerSnapshot == ServeSnapshot \/ ServeBlank \/ SnapshotFails

Poller ==
  \/ CompareVersion
  \/ Install
  \/ StoreLoaded

Next ==
  \/ Publish
  \/ AnswerVersion
  \/ AnswerSnapshot
  \/ PollTick
  \/ RefreshTick
  \/ Poller

\* The goroutine keeps running and a pending call ends (the client has a
\* timeout), the poll ticker keeps firing, and an upstream that is asked
\* again and again gives a proper answer again and again. No fairness on the
\* refresh ticker: the version poll alone must be enough.
Fairness ==
  /\ WF_vars(Poller)
  /\ WF_vars(AnswerVersion)
  /\ WF_vars(AnswerSnapshot)
  /\ SF_vars(PollTick)
  /\ SF_vars(ServeVersion)
  /\ SF_vars(ServeSnapshot)

Spec == Init /\ [][Next]_vars /\ Fairness

-----------------------------------------------------------------------------
(* Properties                                                              *)

\* HoldsOneVersion: endpoints, policies and version always come from one and
\* the same published snapshot, or from none before the first success and
\* after a blank answer (refresh installs them together; readers take one lock
\* per read).
HoldsOneVersion ==
  IF version = 0
  THEN endpoints = <<>> /\ policies = EmptyIndex
  ELSE /\ version <= Len(published)
       /\ endpoints = compiled(published[version])
       /\ policies = newPolicyIndex(published[version].policies, published[version].bindings)

\* Abstract: the promise of LastGoodCache, with the published snapshots as
\* contents.
Abstract == INSTANCE LastGoodCache

\* LastGoodUnlessBlank: whatever fails, the poller takes only the steps that
\* LastGoodCache allows (never back to an older version, to nothing or to
\* cold, the loaded flag never ahead of the first install), but for a blank
\* answer, which is installed and counts as loaded like any other.
LastGoodUnlessBlank ==
  /\ Abstract!CacheInit
  /\ [][\/ [Abstract!CacheNext]_(Abstract!cacheVars)
        \/ fetched = BlankAnswer /\ (Install \/ StoreLoaded)]_vars

\* CatchesUp: once the upstream stops publishing, the cache holds the last
\* version, marked loaded, again and again, although any poll or fetch may fail
\* or be answered with a blank (checkVersion refetches whenever the versions
\* differ).
CatchesUp ==
  \A n \in 1..MaxPublish :
    <>[](Len(published) = n) => []<>(version = n /\ loaded)
=============================================================================
