-------------------------- MODULE AppRegistryCache --------------------------
(***************************************************************************)
(* The host registry cache (registry.go) from the construction of the      *)
(* middleware on: Traefik builds many instances at once, each asks for the *)
(* process-wide cache, and the first one creates it. The creator performs  *)
(* the first refresh itself, holding the mutex of the shared map; then the *)
(* cache's goroutine polls.                                                *)
(*                                                                         *)
(* A cache is named after the instance that created it. application-service*)
(* may fail at any call, and may answer 200 with JSON that is no registry, *)
(* such as {}, which decodes to a blank one under the empty version.       *)
(***************************************************************************)
EXTENDS AppRegistry, FiniteSets

CONSTANTS
  Nil,          \* the absent value
  RequestHosts, \* hosts requests come with, as they write them
  Instances,    \* middleware instances under construction
  Registries,   \* the registries application-service may publish
  MaxPublish    \* bound on the number of published versions

ASSUME InstancesAssumption == Nil \notin Instances
ASSUME MaxPublishAssumption == MaxPublish \in Nat \ {0}
\* A registry is decoded from JSON; a host has a label, if an empty one.
ASSUME HostsAssumption ==
  /\ \A reg \in Registries :
       /\ IsFiniteSet(DOMAIN reg.hosts)
       /\ \A h \in DOMAIN reg.hosts : h.labels \in Seq(STRING) /\ h.labels # <<>>
  /\ \A host \in RequestHosts : host.labels \in Seq(STRING)

VARIABLES
  published,   \* external: the versions published so far
  building,    \* how far New is for each instance
  mutex,       \* holder of sharedAppCachesMu
  shared,      \* the entry of sharedAppCaches
  bound,       \* plugin.appRegistry of each instance
  cache        \* the caches: the goroutine's stage and locals, and the fields

vars == <<published, building, mutex, shared, bound, cache>>
construction == <<building, mutex, shared, bound>>

Versions == 0..MaxPublish
BlankRegistry == [hosts |-> <<>>, apps |-> {}]

\* What version v stands for; 0 is the empty version.
registryAt(v) == IF v = 0 THEN BlankRegistry ELSE published[v]

\* newAppRegistryCache, with start's refresh under way.
NewCache == [pc |-> "askSnapshot", polled |-> 0, fetched |-> Nil,
             version |-> 0, registry |-> EmptyRegistry, loaded |-> FALSE]

CompiledRegistries ==
  {EmptyRegistry} \cup (UNION {compileRegistry(reg) : reg \in Registries \cup {BlankRegistry}})

Caches == [pc       : {"idle", "askVersion", "compare", "askSnapshot", "install"},
           polled   : Versions,
           fetched  : Versions \cup {Nil},
           version  : Versions,
           registry : CompiledRegistries,
           loaded   : BOOLEAN]

ASSUME NilAssumption == Nil \notin Versions /\ Nil \notin Caches

TypeOK ==
  /\ published \in Seq(Registries) /\ Len(published) \in 1..MaxPublish
  /\ building \in [Instances -> {"new", "starting", "started", "done"}]
  /\ mutex \in Instances \cup {Nil} /\ shared \in Instances \cup {Nil}
  /\ bound \in [Instances -> Instances \cup {Nil}]
  /\ cache \in [Instances -> Caches \cup {Nil}]
  /\ \A i \in Instances :
       cache[i] # Nil <=> building[i] \in {"starting", "started"} \/ bound[i] = i

Init ==
  /\ published \in {<<reg>> : reg \in Registries}
  /\ building = [i \in Instances |-> "new"]
  /\ mutex = Nil
  /\ shared = Nil
  /\ bound = [i \in Instances |-> Nil]
  /\ cache = [i \in Instances |-> Nil]

Publish ==
  /\ Len(published) < MaxPublish
  /\ \E reg \in Registries : published' = Append(published, reg)
  /\ UNCHANGED <<construction, cache>>

-----------------------------------------------------------------------------
(* getSharedAppRegistryCache                                               *)

\* Mutant: the instance keeps a cache of its own, which nobody starts.
FoundOther(i) ==
  /\ building[i] = "new" /\ mutex = Nil /\ shared # Nil
  /\ building' = [building EXCEPT ![i] = "done"]
  /\ bound' = [bound EXCEPT ![i] = i]
  /\ UNCHANGED <<published, mutex, shared, cache>>

Found(i) ==
  /\ building[i] = "new" /\ mutex = Nil /\ shared # Nil
  /\ building' = [building EXCEPT ![i] = "done"]
  /\ bound' = [bound EXCEPT ![i] = shared]
  /\ UNCHANGED <<published, mutex, shared, cache>>

\* Mutant: the mutex covers the map alone, not the first refresh.
CreateUnlocked(i) ==
  /\ building[i] = "new" /\ mutex = Nil /\ shared = Nil
  /\ building' = [building EXCEPT ![i] = "starting"]
  /\ cache' = [cache EXCEPT ![i] = NewCache]
  /\ UNCHANGED <<published, mutex, shared, bound>>

Create(i) ==
  /\ building[i] = "new" /\ mutex = Nil /\ shared = Nil
  /\ mutex' = i
  /\ building' = [building EXCEPT ![i] = "starting"]
  /\ cache' = [cache EXCEPT ![i] = NewCache]
  /\ UNCHANGED <<published, shared, bound>>

\* Mutant: the mutex is not released by the creator.
ShareLocked(i) ==
  /\ building[i] = "started"
  /\ building' = [building EXCEPT ![i] = "done"]
  /\ shared' = i
  /\ bound' = [bound EXCEPT ![i] = i]
  /\ UNCHANGED <<published, mutex, cache>>

\* The first refresh has ended, well or not, and the goroutine runs.
Share(i) ==
  /\ building[i] = "started"
  /\ building' = [building EXCEPT ![i] = "done"]
  /\ shared' = i
  /\ bound' = [bound EXCEPT ![i] = i]
  /\ mutex' = Nil
  /\ UNCHANGED <<published, cache>>

-----------------------------------------------------------------------------
(* start, loop, checkVersion and refresh of the cache c                    *)

At(c, stage) == cache[c] # Nil /\ cache[c].pc = stage

GoOn(c, new) ==
  /\ cache' = [cache EXCEPT ![c] = new]
  /\ UNCHANGED <<published, construction>>

\* A refresh has ended. The first one was start's.
Ended(c, new) ==
  /\ cache' = [cache EXCEPT ![c] = [new EXCEPT !.pc = "idle", !.fetched = Nil]]
  /\ building' = [building EXCEPT ![c] = IF @ = "starting" THEN "started" ELSE @]
  /\ UNCHANGED <<published, mutex, shared, bound>>

\* Either ticker fires.
PollTick(c) == At(c, "idle") /\ GoOn(c, [cache[c] EXCEPT !.pc = "askVersion"])
RefreshTick(c) == At(c, "idle") /\ GoOn(c, [cache[c] EXCEPT !.pc = "askSnapshot"])

ServeVersion(c) ==
  /\ At(c, "askVersion")
  /\ GoOn(c, [cache[c] EXCEPT !.pc = "compare", !.polled = Len(published)])

ServeBlankVersion(c) ==
  /\ At(c, "askVersion")
  /\ GoOn(c, [cache[c] EXCEPT !.pc = "compare", !.polled = 0])

VersionFails(c) == At(c, "askVersion") /\ GoOn(c, [cache[c] EXCEPT !.pc = "idle"])

\* Mutant: a changed version is only noticed while the cache is cold.
CompareWhenCold(c) ==
  /\ At(c, "compare")
  /\ GoOn(c, [cache[c] EXCEPT !.pc = IF cache[c].loaded THEN "idle" ELSE "askSnapshot", !.polled = 0])

Compare(c) ==
  /\ At(c, "compare")
  /\ GoOn(c, [cache[c] EXCEPT !.pc = IF cache[c].polled # cache[c].version THEN "askSnapshot" ELSE "idle",
                              !.polled = 0])

ServeSnapshot(c) ==
  /\ At(c, "askSnapshot")
  /\ GoOn(c, [cache[c] EXCEPT !.pc = "install", !.fetched = Len(published)])

ServeBlank(c) ==
  /\ At(c, "askSnapshot")
  /\ GoOn(c, [cache[c] EXCEPT !.pc = "install", !.fetched = 0])

\* Mutant: after a failed refresh the cache counts as cold again.
SnapshotFailsCold(c) == At(c, "askSnapshot") /\ Ended(c, [cache[c] EXCEPT !.loaded = FALSE])

\* Transport error, unreadable body, status other than 200, invalid JSON.
SnapshotFails(c) == At(c, "askSnapshot") /\ Ended(c, cache[c])

\* Hosts, wildcards, active applications, version and flag change together.
Install(c) ==
  /\ At(c, "install")
  /\ \E reg \in compileRegistry(registryAt(cache[c].fetched)) :
       Ended(c, [cache[c] EXCEPT !.version = cache[c].fetched, !.registry = reg, !.loaded = TRUE])

-----------------------------------------------------------------------------

GetShared(i) == Found(i) \/ Create(i) \/ Share(i)

AnswerVersion(c) == ServeVersion(c) \/ ServeBlankVersion(c) \/ VersionFails(c)

AnswerSnapshot(c) == ServeSnapshot(c) \/ ServeBlank(c) \/ SnapshotFails(c)

Local(c) == Compare(c) \/ Install(c)

Next ==
  \/ Publish
  \/ \E i \in Instances : GetShared(i)
  \/ \E c \in Instances :
       PollTick(c) \/ RefreshTick(c) \/ AnswerVersion(c) \/ AnswerSnapshot(c) \/ Local(c)

\* As for the snapshot cache: goroutines run and calls end, the poll ticker
\* keeps firing, and an upstream asked again and again gives a proper answer
\* again and again. The refresh ticker need not fire.
Fairness ==
  \A i \in Instances :
    /\ WF_vars(GetShared(i)) /\ WF_vars(Local(i))
    /\ WF_vars(AnswerVersion(i)) /\ WF_vars(AnswerSnapshot(i))
    /\ SF_vars(PollTick(i)) /\ SF_vars(ServeVersion(i)) /\ SF_vars(ServeSnapshot(i))

Spec == Init /\ [][Next]_vars /\ Fairness

-----------------------------------------------------------------------------
(* Properties                                                              *)

\* OneCache: however many instances are built at once, there is one cache with
\* one poller, every instance built is bound to it, and its first fetch has
\* been tried before any instance uses it ("without sharing each instance
\* would spawn its own poller").
OneCache ==
  \A i \in Instances :
    /\ \A j \in Instances : cache[i] # Nil /\ cache[j] # Nil => i = j
    /\ building[i] = "done" => /\ bound[i] # Nil /\ bound[i] = shared
                               /\ cache[bound[i]] # Nil
                               /\ building[bound[i]] = "done"

\* ResolvesAsPublished: a host, however it is written, resolves to what an
\* active entry of the version held says of it: to an exact entry if there is
\* one, else to a wildcard's it falls under, else to nothing; and what it
\* resolves to is an active application (README.md, App resolution). A lone "*"
\* is a host like any other.
ResolvesAsPublished ==
  \A c \in Instances : cache[c] # Nil =>
    LET reg == registryAt(cache[c].version)
        live == {h \in DOMAIN reg.hosts : reg.hosts[h].active}
        wild == {h \in live : h.labels[1] = "*" /\ Len(h.labels) > 1}
        exact(host) == {reg.hosts[h].app : h \in {g \in live \ wild : g.labels = host.labels}}
        under(host) == {reg.hosts[h].app : h \in {g \in wild :
                          Len(host.labels) >= Len(g.labels) /\ IsSuffix(Tail(g.labels), host.labels)}}
    IN \A host \in RequestHosts :
         LET got == resolveHost(cache[c].registry, host)
             allowed == IF exact(host) # {} THEN exact(host) ELSE under(host)
         IN got \subseteq allowed \cap cache[c].registry.active /\ (got = {} => allowed = {})

\* The promise of LastGoodCache for the cache of c, which is cold before it
\* exists.
LastGood(c) == INSTANCE LastGoodCache WITH
  Contents <- Registries,
  version <- IF cache[c] = Nil THEN 0 ELSE cache[c].version,
  loaded <- cache[c] # Nil /\ cache[c].loaded

\* LastGoodUnlessBlank: whatever fails, a cache takes only the steps that
\* LastGoodCache allows (never back to an older version, to nothing or to
\* cold), but for a blank answer, which is installed like any other.
LastGoodUnlessBlank ==
  /\ \A c \in Instances : LastGood(c)!CacheInit
  /\ [][\A c \in Instances :
           \/ [LastGood(c)!CacheNext]_(LastGood(c)!cacheVars)
           \/ cache[c] # Nil /\ cache[c].fetched = 0 /\ Install(c)]_vars

\* CatchesUp: when the upstream has settled on a version, every instance sees
\* it again and again, although any call may fail or be answered with a blank
\* (checkVersion refetches whenever the versions differ).
CatchesUp ==
  \A n \in 1..MaxPublish, i \in Instances :
    <>[](Len(published) = n) => []<>(bound[i] # Nil /\ cache[bound[i]].version = n)

\* EveryNewReturns: every instance gets built, whatever becomes of the first
\* refresh, during which the others wait for the mutex.
EveryNewReturns == \A i \in Instances : <>(building[i] = "done")
=============================================================================
