----------------------------- MODULE JWKSCache -----------------------------
(***************************************************************************)
(* The signing keys of one realm (jwks.go): request goroutines that look a *)
(* key up and refetch on a miss, and the background loop, all running      *)
(* refresh on one cache without excluding each other.                      *)
(*                                                                         *)
(* Time is kept as ages that stop growing at the cooldown: the code only   *)
(* asks whether the last attempt is at least that old, and the zero time   *)
(* of a cache that never tried is.                                         *)
(*                                                                         *)
(* A published document is a sequence of JWKs [kid, kty, use, alg, n, e],  *)
(* with n = [bits, id] or Nil when missing or undecodable, and             *)
(* e = [bytes, value] or Nil.                                              *)
(***************************************************************************)
EXTENDS Naturals, Sequences

CONSTANTS
  Nil,         \* the absent value
  Requests,    \* concurrent requests, each validating a token
  Loop,        \* the background goroutine, which is the constructor before
  Kids,        \* key ids in token headers
  Documents,   \* the JWKS documents the realm may publish
  Cooldown,    \* refetchCooldown, in ticks of the clock
  MaxPublish   \* bound on the number of published documents

Goroutines == Requests \cup {Loop}

ASSUME LoopAssumption == Loop \notin Requests
ASSUME CooldownAssumption == Cooldown \in Nat \ {0}
ASSUME MaxPublishAssumption == MaxPublish \in Nat \ {0}

VARIABLES
  published,     \* external: the documents published so far
  discovery,     \* external: is the configured URL a discovery document?
  keys,          \* jc.keys
  sinceAttempt,  \* age of jc.lastAttempt
  shared,        \* is the cache in sharedJWKSCaches, its loop running?
  g,             \* the goroutines: stage and local variables
  held,          \* history: the version keys comes from, 0 for none
  sinceOwn       \* history: age of each request slot's last refetch

vars == <<published, discovery, keys, sinceAttempt, shared, g, held, sinceOwn>>
history == <<held, sinceOwn>>

-----------------------------------------------------------------------------
(* Parsing                                                                 *)

\* The public key of a JWK, Nil when it is malformed or too weak.
parseRSAJWK(k) ==
  IF /\ k.n # Nil /\ k.e # Nil
     /\ k.e.bytes \in 1..4 /\ k.e.value >= 3 /\ k.e.value % 2 = 1
     /\ k.n.bits >= 1024
  THEN k.n.id ELSE Nil

usable(k) ==
  /\ k.kid # "" /\ k.kty = "RSA"
  /\ k.use \in {"", "sig"} /\ k.alg \in {"", "RS256"}
  /\ parseRSAJWK(k) # Nil

\* The usable keys of a document by kid; the last of a repeated kid wins.
parsed(doc) ==
  LET good == {i \in DOMAIN doc : usable(doc[i])}
      last(kid) == CHOOSE i \in good : doc[i].kid = kid /\ \A j \in good : doc[j].kid = kid => j <= i
  IN [kid \in {doc[i].kid : i \in good} |-> parseRSAJWK(doc[last(kid)])]

NoKeys == <<>>

-----------------------------------------------------------------------------

Idle == [pc |-> "idle", kid |-> Nil, since |-> 0, doc |-> 0, begun |-> 0]

Versions == 0..MaxPublish

TypeOK ==
  /\ published \in Seq(Documents) /\ Len(published) \in 1..MaxPublish
  /\ discovery \in BOOLEAN /\ shared \in BOOLEAN
  /\ sinceAttempt \in 0..Cooldown
  /\ g \in [Goroutines -> [pc    : {"idle", "missed", "fetch", "follow", "install"},
                           kid   : Kids \cup {Nil},
                           since : 0..Cooldown,
                           doc   : Versions,
                           begun : Versions]]
  /\ held \in Versions
  /\ sinceOwn \in [Requests -> 0..Cooldown]

\* getSharedJWKSCache found no cache: the warm fetch of the new one begins.
Init ==
  /\ published \in {<<d>> : d \in Documents}
  /\ discovery \in BOOLEAN
  /\ keys = NoKeys
  /\ sinceAttempt = 0
  /\ shared = FALSE
  /\ g = [p \in Goroutines |-> IF p = Loop THEN [Idle EXCEPT !.pc = "fetch"] ELSE Idle]
  /\ held = 0
  /\ sinceOwn = [r \in Requests |-> Cooldown]

\* Keycloak rotates its keys.
Publish ==
  /\ Len(published) < MaxPublish
  /\ \E d \in Documents : published' = Append(published, d)
  /\ UNCHANGED <<discovery, keys, sinceAttempt, shared, g, history>>

Older(age) == IF age < Cooldown THEN age + 1 ELSE age

Tick ==
  /\ sinceAttempt' = Older(sinceAttempt)
  /\ g' = [p \in Goroutines |-> IF g[p].pc = "missed" THEN [g[p] EXCEPT !.since = Older(@)] ELSE g[p]]
  /\ sinceOwn' = [r \in Requests |-> Older(sinceOwn[r])]
  /\ UNCHANGED <<published, discovery, keys, shared, held>>

-----------------------------------------------------------------------------
(* refresh                                                                 *)

\* Mutant: the attempt is only stamped when it has succeeded.
BeginUnstamped(p) ==
  /\ g' = [g EXCEPT ![p].pc = "fetch", ![p].since = 0, ![p].begun = held]
  /\ UNCHANGED sinceAttempt

\* The attempt is stamped under the lock before the first call.
Begin(p) ==
  /\ sinceAttempt' = 0
  /\ g' = [g EXCEPT ![p].pc = "fetch", ![p].since = 0, ![p].begun = held]

\* The refresh has ended, well or not. A request looks the key up once more
\* and returns what it finds; the constructor shares the cache and starts its
\* loop, which then waits.
Ended(p) ==
  /\ g' = [g EXCEPT ![p] = Idle]
  /\ shared' = TRUE

\* The configured URL answers: with the keys, or with the discovery document
\* whose jwks_uri is to be followed.
Fetch(p) ==
  /\ g[p].pc = "fetch"
  /\ g' = [g EXCEPT ![p] = IF discovery THEN [@ EXCEPT !.pc = "follow"]
                           ELSE [@ EXCEPT !.pc = "install", !.doc = Len(published)]]
  /\ UNCHANGED <<published, discovery, keys, sinceAttempt, shared, history>>

\* Mutant: the periodic refresh is answered by the response of the start.
FollowRemembered(p) ==
  /\ g[p].pc = "follow"
  /\ g' = [g EXCEPT ![p].pc = "install", ![p].doc = IF p = Loop THEN 1 ELSE Len(published)]
  /\ UNCHANGED <<published, discovery, keys, sinceAttempt, shared, history>>

Follow(p) ==
  /\ g[p].pc = "follow"
  /\ g' = [g EXCEPT ![p].pc = "install", ![p].doc = Len(published)]
  /\ UNCHANGED <<published, discovery, keys, sinceAttempt, shared, history>>

\* Transport error, unreadable body, status other than 200, invalid JSON.
FetchFails(p) ==
  /\ g[p].pc \in {"fetch", "follow"}
  /\ Ended(p)
  /\ UNCHANGED <<published, discovery, keys, sinceAttempt, history>>

\* Mutant: the keys are only filled in while there are none.
InstallFirst(p) ==
  /\ g[p].pc = "install"
  /\ \/ keys # NoKeys /\ UNCHANGED <<keys, held>>
     \/ /\ keys = NoKeys /\ keys' = parsed(published[g[p].doc])
        /\ held' = IF keys' = NoKeys THEN held ELSE g[p].doc
  /\ Ended(p)
  /\ UNCHANGED <<published, discovery, sinceAttempt, sinceOwn>>

\* Mutant: a document without a usable key empties the cache.
InstallAnything(p) ==
  /\ g[p].pc = "install"
  /\ keys' = parsed(published[g[p].doc]) /\ held' = g[p].doc
  /\ Ended(p)
  /\ UNCHANGED <<published, discovery, sinceAttempt, sinceOwn>>

\* The keys are replaced as a whole, unless none of the new ones is usable.
Install(p) ==
  LET new == parsed(published[g[p].doc])
  IN /\ g[p].pc = "install"
     /\ \/ new = NoKeys /\ UNCHANGED <<keys, held>>
        \/ new # NoKeys /\ keys' = new /\ held' = g[p].doc
     /\ Ended(p)
     /\ UNCHANGED <<published, discovery, sinceAttempt, sinceOwn>>

\* The ticker of the loop fires.
LoopTick ==
  /\ shared /\ g[Loop].pc = "idle"
  /\ Begin(Loop)
  /\ UNCHANGED <<published, discovery, keys, shared, history>>

-----------------------------------------------------------------------------
(* keyForKid                                                               *)

\* Key and last attempt are read in one critical section. A hit is returned.
Lookup(r, kid) ==
  /\ shared /\ g[r].pc = "idle"
  /\ kid \notin DOMAIN keys
  /\ g' = [g EXCEPT ![r] = [Idle EXCEPT !.pc = "missed", !.kid = kid, !.since = sinceAttempt]]
  /\ UNCHANGED <<published, discovery, keys, sinceAttempt, shared, history>>

\* The age compared is that of the attempt read at the lookup.
Refetch(r) ==
  /\ g[r].pc = "missed" /\ g[r].since >= Cooldown
  /\ Begin(r)
  /\ sinceOwn' = [sinceOwn EXCEPT ![r] = 0]
  /\ UNCHANGED <<published, discovery, keys, shared, held>>

\* Mutant: within the cooldown the request waits for the next fetch.
GiveUpWaits(r) ==
  /\ g[r].pc = "missed" /\ g[r].since < Cooldown
  /\ g' = [g EXCEPT ![r].pc = "waiting"]
  /\ UNCHANGED <<published, discovery, keys, sinceAttempt, shared, history>>

\* Within the cooldown the key is unknown: the caller answers 401.
GiveUp(r) ==
  /\ g[r].pc = "missed" /\ g[r].since < Cooldown
  /\ g' = [g EXCEPT ![r] = Idle]
  /\ UNCHANGED <<published, discovery, keys, sinceAttempt, shared, history>>

-----------------------------------------------------------------------------

Step(p) == Fetch(p) \/ Follow(p) \/ FetchFails(p) \/ Install(p)

KeyForKid(r) == Refetch(r) \/ GiveUp(r)

Next ==
  \/ Publish \/ Tick \/ LoopTick
  \/ \E p \in Goroutines : Step(p)
  \/ \E r \in Requests : KeyForKid(r) \/ \E kid \in Kids : Lookup(r, kid)

\* Time passes, goroutines run and their calls end (the client has a
\* timeout), and a server asked again and again answers again and again. The
\* loop's ticker need not fire: refetching on a miss must do alone. (The loop's
\* fetches do need to succeed now and then: each failed one stamps the attempt,
\* so a loop that ticks within the cooldown and always fails would keep every
\* request from refetching.)
Fairness ==
  /\ WF_vars(Tick)
  /\ \A p \in Goroutines : WF_vars(Step(p)) /\ SF_vars(Fetch(p)) /\ SF_vars(Follow(p))
  /\ \A r \in Requests : WF_vars(KeyForKid(r))

Spec == Init /\ [][Next]_vars /\ Fairness

-----------------------------------------------------------------------------
(* Properties                                                              *)

\* HoldsOneKeySet: what is served is the whole usable key set of one published
\* document, never a mixture and, once there was one, never nothing, although
\* refreshes overlap and fail at any stage (refresh: "last-good").
HoldsOneKeySet ==
  IF held = 0 THEN keys = NoKeys
  ELSE /\ held <= Len(published)
       /\ keys = parsed(published[held]) /\ keys # NoKeys

\* NoRegressionFromStart: overlapping refreshes install their answers in any
\* order, but none brings in a set older than the one held when it began.
NoRegressionFromStart ==
  [][\A p \in Goroutines : Install(p) /\ held' # held => held' >= g[p].begun]_vars

\* CallerCooled: one request slot never starts two refetches within a cooldown,
\* whatever the loop and the other slots stamp meanwhile and even if its fetch
\* failed, so a cooldown sees at most one refetch per concurrent request.
CallerCooled ==
  [][\A r \in Requests : Refetch(r) => sinceOwn[r] >= Cooldown]_vars

\* RefetchesSpaced: no two refetches on a miss start within a cooldown, whoever
\* starts them (README.md and config.go, jwksRefetchCooldown).
RefetchesSpaced ==
  [][\A r, s \in Requests : Refetch(r) => sinceOwn[s] >= Cooldown]_vars

\* RotationPickedUp: a key the realm keeps publishing does not stay unknown:
\* requests stop missing it, although any fetch may fail and the loop's ticker
\* may never fire (keyForKid refetches on a miss).
RotationPickedUp ==
  \A kid \in Kids :
    <>[](kid \in DOMAIN parsed(published[Len(published)]))
      => <>[](\A r \in Requests : g[r].kid # kid)
=============================================================================
