--------------------------- MODULE LastGoodCache ---------------------------
(***************************************************************************)
(* What both polled caches of the gateway (SnapshotCache in snapshot.go    *)
(* and AppRegistryCache in registry.go) promise to the request path:       *)
(*                                                                         *)
(*   - what is held is always one version the upstream really published,   *)
(*     or nothing at all (version 0) before the first success;             *)
(*   - a refresh replaces it by the same or a later version, and a failed  *)
(*     refresh changes nothing, so a cache never goes back to an older     *)
(*     version nor to empty;                                               *)
(*   - the "loaded" flag is never up while nothing is held.                *)
(*                                                                         *)
(* published[v] is the content the upstream published as version v, and    *)
(* the version strings of the code are abstracted to these indices.        *)
(***************************************************************************)
EXTENDS Naturals, Sequences

CONSTANTS
  Contents,    \* what the upstream service may publish
  MaxPublish   \* bound on the number of published versions

VARIABLES
  published,   \* the versions published so far, oldest first
  version,     \* the version held, 0 when nothing was ever loaded
  loaded       \* the flag the request path consults for a cold cache

cacheVars == <<published, version, loaded>>

CacheTypeOK ==
  /\ published \in Seq(Contents)
  /\ Len(published) \in 1..MaxPublish
  /\ version \in 0..Len(published)
  /\ loaded \in BOOLEAN

CacheInit ==
  /\ published \in {<<c>> : c \in Contents}
  /\ version = 0
  /\ loaded = FALSE

\* The upstream publishes a new version.
Publish(c) ==
  /\ Len(published) < MaxPublish
  /\ published' = Append(published, c)
  /\ UNCHANGED <<version, loaded>>

\* A refresh succeeds: version v, not older than the one held, replaces it.
\* flag is the value of "loaded" after the step: one cache raises it in the
\* same critical section, the other only after the unlock.
Install(v, flag) ==
  /\ v \in 1..Len(published)
  /\ v >= version
  /\ version' = v
  /\ loaded' = flag
  /\ UNCHANGED published

\* The flag goes up after the critical section that installed a version.
MarkLoaded ==
  /\ version # 0
  /\ loaded' = TRUE
  /\ UNCHANGED <<published, version>>

CacheNext ==
  \/ \E c \in Contents : Publish(c)
  \/ \E v \in 1..MaxPublish : Install(v, loaded) \/ Install(v, TRUE)
  \/ MarkLoaded

CacheSpec == CacheInit /\ [][CacheNext]_cacheVars
=============================================================================
