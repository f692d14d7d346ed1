------------------------- MODULE PlanResolverProofs -------------------------
(***************************************************************************)
(* Proofs about the plan cache, for every number of concurrent requests,   *)
(* all subjects and plans, every time to live and every call timeout.      *)
(*                                                                         *)
(* PInv is the inductive invariant. A plan on its way was the subject's no *)
(* longer ago than its call has lasted; once stored, each tick takes from  *)
(* the life of the entry what it adds to the age of its plan.              *)
(***************************************************************************)
EXTENDS PlanResolver, TLAPS

-----------------------------------------------------------------------------
(* The invariant                                                           *)

Request == [pc : {"idle", "call", "answer"}, subject : Subjects \cup {Nil},
            plan : Plans \cup {Nil}, age : 0..Timeout]

\* The plan a subject has is of age 0.
CurrentIsNew == \A s \in Subjects : since[s][tier[s]] = 0

\* A request under way asks for a subject; the age of its answer is bounded by
\* that of the call.
OnItsWay(q) ==
  /\ q.pc # "idle" => q.subject \in Subjects
  /\ q.pc = "answer" => q.plan \in Plans /\ since[q.subject][q.plan] <= q.age

\* The age of a cached plan and the life its entry has left are bounded together.
Aged(s) == live(s) =>
  since[s][cache[cacheKey(s)].plan] + cache[cacheKey(s)].left <= TTL + Timeout

PInv ==
  /\ TypeOK
  /\ CurrentIsNew
  /\ \A r \in Requests : OnItsWay(req[r])
  /\ \A s \in Subjects : Aged(s)

-----------------------------------------------------------------------------

\* Entries are not shared: application and user make the key ("plans are per
\* (app_id, user_id)").
LEMMA KeysApart ==
  /\ \A s \in Subjects : cacheKey(s) \in Keys
  /\ \A s, t \in Subjects : cacheKey(s) = cacheKey(t) => s = t
  <1>1. ASSUME NEW s \in Subjects, NEW t \in Subjects, cacheKey(s) = cacheKey(t) PROVE s = t
    <2>1. s.app = t.app /\ s.user = t.user
      BY <1>1 DEF cacheKey
    <2>2. s = [app |-> s.app, user |-> s.user] /\ t = [app |-> t.app, user |-> t.user]
      BY SubjectsAssumption
    <2> QED BY <2>1, <2>2
  <1> QED BY <1>1 DEF Keys

\* What the steps use of the types.
LEMMA PFacts ==
  ASSUME TypeOK
  PROVE  /\ tier \in [Subjects -> Plans] /\ req \in [Requests -> Request]
         /\ since \in [Subjects -> [Plans -> 0..Never]]
         /\ \A k \in Keys : cache[k] \in [plan : Plans, left : 0..TTL] \cup {Nil}
         /\ TTL \in Nat /\ TTL > 0 /\ Timeout \in Nat /\ Never \in Nat /\ 0 \in 0..Never
         /\ Never = TTL + Timeout + 1
  BY TTLAssumption, TimeoutAssumption DEF TypeOK, Request, Never

\* A live entry has a plan and a life.
LEMMA LiveFacts ==
  ASSUME TypeOK, NEW s \in Subjects, live(s)
  PROVE  /\ cache[cacheKey(s)].plan \in Plans
         /\ cache[cacheKey(s)].left \in 1..TTL
         /\ since[s][cache[cacheKey(s)].plan] \in 0..Never
  <1>1. cache[cacheKey(s)] \in [plan : Plans, left : 0..TTL] \cup {Nil} /\ cache[cacheKey(s)] # Nil
    BY PFacts, KeysApart DEF live
  <1>2. cache[cacheKey(s)].plan \in Plans /\ cache[cacheKey(s)].left \in 0..TTL
    BY <1>1
  <1> QED BY <1>2, PFacts DEF live

\* An empty cache, and every plan of its age.
LEMMA PInvInit == Init => PInv
  <1> SUFFICES ASSUME Init PROVE PInv
    OBVIOUS
  <1> USE TTLAssumption, TimeoutAssumption
  <1>1. 0 \in 0..Never /\ Never \in 0..Never /\ 0 \in 0..Timeout
    BY DEF Never
  <1>2. since \in [Subjects -> [Plans -> 0..Never]]
    BY <1>1 DEF Init
  <1>3. TypeOK
    BY <1>1, <1>2 DEF Init, TypeOK, Idle
  <1>4. CurrentIsNew
    BY DEF Init, CurrentIsNew
  <1>5. \A r \in Requests : OnItsWay(req[r])
    BY DEF Init, OnItsWay, Idle
  <1>6. \A s \in Subjects : Aged(s)
    BY KeysApart DEF Init, Aged, live
  <1> QED BY <1>3, <1>4, <1>5, <1>6 DEF PInv

\* A customer moves to another plan, which is of age 0 from then on.
LEMMA ChangeStep ==
  ASSUME PInv, NEW s \in Subjects, ChangePlan(s)
  PROVE  PInv'
  <1>f. /\ TypeOK /\ tier \in [Subjects -> Plans] /\ req \in [Requests -> Request]
        /\ since \in [Subjects -> [Plans -> 0..Never]] /\ 0 \in 0..Never
        /\ TTL \in Nat /\ Timeout \in Nat /\ Never \in Nat
    BY PFacts DEF PInv
  <1>1. PICK p \in Plans \ {tier[s]} :
          /\ tier' = [tier EXCEPT ![s] = p]
          /\ since' = [since EXCEPT ![s] = [since[s] EXCEPT ![p] = 0]]
          /\ UNCHANGED <<cache, req>>
    BY DEF ChangePlan
  <1>2. since' \in [Subjects -> [Plans -> 0..Never]] /\ tier' \in [Subjects -> Plans]
    BY <1>f, <1>1
  <1>3. \A t \in Subjects, q \in Plans :
          since'[t][q] = IF t = s /\ q = p THEN 0 ELSE since[t][q]
    BY <1>f, <1>1
  <1>4. \A t \in Subjects, q \in Plans : since'[t][q] \in Nat /\ since[t][q] \in Nat /\ since'[t][q] <= since[t][q]
    BY <1>f, <1>2, <1>3
  <1>5. TypeOK'
    BY <1>1, <1>2 DEF PInv, TypeOK
  <1>6. CurrentIsNew'
    BY <1>f, <1>1, <1>3 DEF PInv, CurrentIsNew
  <1>7. ASSUME NEW r \in Requests PROVE OnItsWay(req[r])'
    <2>1. OnItsWay(req[r]) /\ req[r].age \in Nat /\ req'[r] = req[r]
      BY <1>f, <1>1 DEF PInv, Request
    <2> QED BY <1>1, <1>4, <2>1 DEF OnItsWay
  <1>8. ASSUME NEW t \in Subjects PROVE Aged(t)'
    <2>1. SUFFICES ASSUME live(t)
                   PROVE  since'[t][cache[cacheKey(t)].plan] + cache[cacheKey(t)].left <= TTL + Timeout
      BY <1>1 DEF Aged, live
    <2>2. since[t][cache[cacheKey(t)].plan] + cache[cacheKey(t)].left <= TTL + Timeout
      BY <2>1 DEF PInv, Aged
    <2>3. cache[cacheKey(t)].plan \in Plans /\ cache[cacheKey(t)].left \in Nat
      BY <1>f, <2>1, LiveFacts
    <2> QED BY <1>f, <1>4, <2>2, <2>3
  <1> QED BY <1>5, <1>6, <1>7, <1>8 DEF PInv

\* The clock ticks: a call gets older with the answer it carries, and an entry
\* loses as much of its life as its plan gains in age.
LEMMA TickStep ==
  ASSUME PInv, Tick
  PROVE  PInv'
  <1>f. /\ TypeOK /\ tier \in [Subjects -> Plans] /\ req \in [Requests -> Request]
        /\ since \in [Subjects -> [Plans -> 0..Never]] /\ 0 \in 0..Never
        /\ TTL \in Nat /\ Timeout \in Nat /\ Never \in Nat
        /\ \A k \in Keys : cache[k] \in [plan : Plans, left : 0..TTL] \cup {Nil}
    BY PFacts DEF PInv
  <1>1. /\ \A r \in Requests : req[r].pc # "idle" => req[r].age < Timeout
        /\ req' = [r \in Requests |-> IF req[r].pc = "idle" THEN req[r]
                                      ELSE [req[r] EXCEPT !.age = req[r].age + 1]]
        /\ cache' = [k \in Keys |-> IF cache[k] = Nil \/ cache[k].left = 0 THEN cache[k]
                                    ELSE [cache[k] EXCEPT !.left = cache[k].left - 1]]
        /\ since' = [s \in Subjects |-> [p \in Plans |->
                      IF p = tier[s] \/ since[s][p] = Never THEN since[s][p] ELSE since[s][p] + 1]]
        /\ tier' = tier
    BY DEF Tick
  <1>2. \A s \in Subjects, p \in Plans :
          since'[s][p] = IF p = tier[s] \/ since[s][p] = Never THEN since[s][p] ELSE since[s][p] + 1
    BY <1>1
  <1>3. \A s \in Subjects, p \in Plans :
          since'[s][p] \in 0..Never /\ since[s][p] \in Nat /\ since'[s][p] <= since[s][p] + 1
    <2> TAKE s \in Subjects, p \in Plans
    <2> DEFINE a == since[s][p]
               b == since'[s][p]
    <2>1. a \in 0..Never
      BY <1>f
    <2>2. b = a \/ (a # Never /\ b = a + 1)
      BY <1>2
    <2>3. Never \in Nat
      BY <1>f
    <2> HIDE DEF a, b
    <2>4. b \in 0..Never /\ a \in Nat /\ b <= a + 1
      BY ONLY <2>1, <2>2, <2>3
    <2> QED BY <2>4 DEF a, b
  <1>4. since' \in [Subjects -> [Plans -> 0..Never]]
    <2>1. ASSUME NEW s \in Subjects PROVE since'[s] \in [Plans -> 0..Never]
      <3>1. since'[s] = [p \in Plans |-> since'[s][p]]
        BY <1>1
      <3> QED BY <1>3, <3>1
    <2>2. since' = [s \in Subjects |-> since'[s]]
      BY <1>1
    <2> QED BY <2>1, <2>2
  <1>5. ASSUME NEW r \in Requests
        PROVE  /\ req'[r] \in Request /\ req'[r].pc = req[r].pc
               /\ req'[r].subject = req[r].subject /\ req'[r].plan = req[r].plan
               /\ req[r].pc # "idle" => req'[r].age = req[r].age + 1
               /\ req[r].age \in Nat
    <2>1. req[r] \in Request /\ req[r].age \in 0..Timeout
      BY <1>f DEF Request
    <2>2. CASE req[r].pc = "idle"
      <3>1. req'[r] = req[r]
        BY <1>1, <2>2
      <3> QED BY <1>f, <2>1, <2>2, <3>1
    <2>3. CASE req[r].pc # "idle"
      <3>1. req'[r] = [req[r] EXCEPT !.age = req[r].age + 1] /\ req[r].age + 1 \in 0..Timeout
        BY <1>f, <1>1, <2>1, <2>3
      <3> DEFINE q == req[r]
                 n == q.age + 1
      <3>2. q \in Request /\ q.age \in 0..Timeout /\ n = q.age + 1 /\ n \in 0..Timeout
            /\ req'[r] = [q EXCEPT !.age = n] /\ Timeout \in Nat
        BY <1>f, <2>1, <3>1
      <3> HIDE DEF q, n
      <3>3. /\ req'[r] \in Request /\ req'[r].pc = q.pc /\ req'[r].subject = q.subject
            /\ req'[r].plan = q.plan /\ req'[r].age = n
        BY ONLY <3>2 DEF Request
      <3>4. q.age \in Nat
        BY ONLY <3>2
      <3> QED BY <3>2, <3>3, <3>4 DEF q
    <2> QED BY <2>2, <2>3
  <1>6. req' \in [Requests -> Request]
    <2>1. req' = [r \in Requests |-> req'[r]]
      BY <1>1
    <2> QED BY <1>5, <2>1
  <1>7. ASSUME NEW k \in Keys
        PROVE  /\ cache'[k] \in [plan : Plans, left : 0..TTL] \cup {Nil}
               /\ cache'[k] # Nil /\ cache'[k].left > 0 =>
                    /\ cache[k] # Nil /\ cache[k].left > 0
                    /\ cache'[k].plan = cache[k].plan /\ cache'[k].left = cache[k].left - 1
    <2>1. cache[k] \in [plan : Plans, left : 0..TTL] \cup {Nil}
      BY <1>f
    <2>2. CASE cache[k] = Nil \/ cache[k].left = 0
      BY <1>1, <2>1, <2>2
    <2>3. CASE ~(cache[k] = Nil \/ cache[k].left = 0)
      <3>1. cache'[k] = [cache[k] EXCEPT !.left = cache[k].left - 1]
        BY <1>1, <2>3
      <3>2. cache[k] \in [plan : Plans, left : 0..TTL] /\ cache[k].left \in 1..TTL
        BY <1>f, <2>1, <2>3
      <3>3. cache[k].left - 1 \in 0..TTL
        BY <1>f, <3>2
      <3> QED BY <1>f, <2>3, <3>1, <3>2, <3>3
    <2> QED BY <2>2, <2>3
  <1>8. cache' \in [Keys -> [plan : Plans, left : 0..TTL] \cup {Nil}]
    <2>1. cache' = [k \in Keys |-> cache'[k]]
      BY <1>1
    <2> QED BY <1>7, <2>1
  <1>9. TypeOK'
    BY <1>f, <1>1, <1>4, <1>6, <1>8 DEF TypeOK, Request
  <1>10. CurrentIsNew'
    BY <1>f, <1>1, <1>2 DEF PInv, CurrentIsNew
  <1>11. ASSUME NEW r \in Requests PROVE OnItsWay(req[r])'
    <2>1. OnItsWay(req[r])
      BY DEF PInv
    <2> QED BY <1>3, <1>5, <2>1 DEF OnItsWay
  <1>12. ASSUME NEW s \in Subjects PROVE Aged(s)'
    <2> DEFINE k == cacheKey(s)
    <2>1. SUFFICES ASSUME cache'[k] # Nil, cache'[k].left > 0
                   PROVE  since'[s][cache'[k].plan] + cache'[k].left <= TTL + Timeout
      BY DEF Aged, live
    <2>2. k \in Keys
      BY KeysApart
    <2>3. live(s) /\ cache'[k].plan = cache[k].plan /\ cache'[k].left = cache[k].left - 1
      BY <1>7, <2>1, <2>2 DEF live
    <2>4. since[s][cache[k].plan] + cache[k].left <= TTL + Timeout
      BY <2>3 DEF PInv, Aged
    <2>5. cache[k].plan \in Plans /\ cache[k].left \in Nat
      BY <1>f, <2>3, LiveFacts
    <2>6. since'[s][cache[k].plan] <= since[s][cache[k].plan] + 1
          /\ since[s][cache[k].plan] \in Nat /\ since'[s][cache[k].plan] \in 0..Never
      BY <1>3, <2>5
    <2> HIDE DEF k
    <2> QED BY <1>f, <2>3, <2>4, <2>5, <2>6
  <1> QED BY <1>9, <1>10, <1>11, <1>12 DEF PInv

-----------------------------------------------------------------------------
(* Resolve                                                                 *)

\* The request that no longer resolves anything.
LEMMA IdleFacts ==
  /\ Idle \in Request /\ Idle.pc = "idle"
  /\ DOMAIN Idle = {"pc", "subject", "plan", "age"}
  BY TimeoutAssumption DEF Idle, Request

\* One request takes a step that leaves customers and cache alone.
LEMMA RequestStep ==
  ASSUME PInv, NEW r \in Requests, NEW q \in Request, OnItsWay(q),
         req' = [req EXCEPT ![r] = q], UNCHANGED <<tier, cache, since>>
  PROVE  PInv'
  <1>1. req \in [Requests -> Request]
    BY PFacts DEF PInv
  <1>2. TypeOK'
    BY <1>1 DEF PInv, TypeOK, Request
  <1>3. CurrentIsNew'
    BY DEF PInv, CurrentIsNew
  <1>4. ASSUME NEW o \in Requests PROVE OnItsWay(req[o])'
    <2>1. OnItsWay(req'[o])
      BY <1>1 DEF PInv
    <2> QED BY <2>1 DEF OnItsWay
  <1>5. ASSUME NEW s \in Subjects PROVE Aged(s)'
    BY DEF PInv, Aged, live
  <1> QED BY <1>2, <1>3, <1>4, <1>5 DEF PInv

\* The call goes out: it has lasted no time and carries nothing.
LEMMA MissStep ==
  ASSUME PInv, NEW r \in Requests, NEW s \in Subjects, Miss(r, s)
  PROVE  PInv'
  <1> DEFINE q == [Idle EXCEPT !.pc = "call", !.subject = s]
  <1>1. q \in Request /\ q.pc = "call" /\ q.subject = s
    BY IdleFacts DEF Request
  <1>2. OnItsWay(q)
    BY <1>1 DEF OnItsWay
  <1>3. req' = [req EXCEPT ![r] = q] /\ UNCHANGED <<tier, cache, since>>
    BY DEF Miss
  <1> HIDE DEF q
  <1> QED BY <1>1, <1>2, <1>3, RequestStep

\* The plan of the moment is of age 0, and a call is never younger.
LEMMA ServeStep ==
  ASSUME PInv, NEW r \in Requests, Serve(r)
  PROVE  PInv'
  <1> DEFINE p == tier[req[r].subject]
             q == [[req[r] EXCEPT !.pc = "answer"] EXCEPT !.plan = p]
  <1>1. req[r] \in Request /\ req[r].subject \in Subjects
    BY PFacts DEF PInv, Serve, OnItsWay
  <1>2. p \in Plans /\ since[req[r].subject][p] = 0
    BY <1>1, PFacts DEF PInv, CurrentIsNew
  <1>3. /\ req \in [Requests -> Request] /\ UNCHANGED <<tier, cache, since>>
        /\ req' = [[req EXCEPT ![r] = [req[r] EXCEPT !.pc = "answer"]]
                         EXCEPT ![r] = [[req EXCEPT ![r] = [req[r] EXCEPT !.pc = "answer"]][r]
                                          EXCEPT !.plan = p]]
    BY PFacts DEF PInv, Serve
  <1> HIDE DEF p
  <1>4. req' = [req EXCEPT ![r] = q]
    BY <1>3
  <1>5. /\ q \in Request /\ q.pc = "answer" /\ q.plan = p
        /\ q.subject = req[r].subject /\ q.age = req[r].age /\ q.age \in Nat
    <2> DEFINE o == req[r]
    <2>1. o \in Request /\ q = [[o EXCEPT !.pc = "answer"] EXCEPT !.plan = p]
      BY <1>1
    <2> HIDE DEF o, q
    <2>2. /\ q \in Request /\ q.pc = "answer" /\ q.plan = p
          /\ q.subject = o.subject /\ q.age = o.age /\ o.age \in 0..Timeout
      BY ONLY <1>2, <2>1 DEF Request
    <2> QED BY <2>2, TimeoutAssumption DEF o
  <1> HIDE DEF q
  <1>6. OnItsWay(q)
    BY <1>1, <1>2, <1>5 DEF OnItsWay
  <1> QED BY <1>3, <1>4, <1>5, <1>6, RequestStep

\* A call that fails leaves what is cached to its age.
LEMMA FailStep ==
  ASSUME PInv, NEW r \in Requests, Fail(r)
  PROVE  PInv'
  <1>1. OnItsWay(Idle)
    BY IdleFacts DEF OnItsWay
  <1> QED BY <1>1, IdleFacts, RequestStep DEF Fail

\* An answer is stored with a whole life ahead, and its plan is no older than
\* its call.
LEMMA StoreStep ==
  ASSUME PInv, NEW r \in Requests, Store(r)
  PROVE  PInv'
  <1> DEFINE s == req[r].subject
             e == [plan |-> req[r].plan, left |-> TTL]
  <1>1. /\ req[r] \in Request /\ s \in Subjects /\ req[r].plan \in Plans
        /\ since[s][req[r].plan] <= req[r].age /\ req[r].age \in 0..Timeout
    BY PFacts DEF PInv, Store, OnItsWay, Request
  <1>2. /\ req' = [req EXCEPT ![r] = Idle] /\ UNCHANGED <<tier, since>>
        /\ cache' = [cache EXCEPT ![cacheKey(s)] = e]
    BY DEF Store
  <1>f. /\ TTL \in Nat /\ Timeout \in Nat /\ req \in [Requests -> Request]
        /\ since \in [Subjects -> [Plans -> 0..Never]]
        /\ cache \in [Keys -> [plan : Plans, left : 0..TTL] \cup {Nil}]
        /\ cacheKey(s) \in Keys
    BY <1>1, PFacts, KeysApart DEF PInv, TypeOK
  <1>3. e \in [plan : Plans, left : 0..TTL] /\ e.plan = req[r].plan /\ e.left = TTL
    BY <1>1, <1>f
  <1> HIDE DEF s, e
  <1>4. TypeOK'
    <2>1. req' \in [Requests -> Request]
      BY <1>2, <1>f, IdleFacts
    <2>2. cache' \in [Keys -> [plan : Plans, left : 0..TTL] \cup {Nil}]
      BY <1>2, <1>3, <1>f
    <2> QED BY <1>2, <2>1, <2>2 DEF PInv, TypeOK, Request
  <1>5. CurrentIsNew'
    BY <1>2 DEF PInv, CurrentIsNew
  <1>6. ASSUME NEW o \in Requests PROVE OnItsWay(req[o])'
    <2>1. OnItsWay(req'[o])
      BY <1>2, <1>f, IdleFacts DEF PInv, OnItsWay
    <2> QED BY <1>2, <2>1 DEF OnItsWay
  <1>7. ASSUME NEW t \in Subjects PROVE Aged(t)'
    <2>1. CASE t = s
      <3>1. cache'[cacheKey(t)] = e
        BY <1>2, <1>f, <2>1
      <3>2. since[s][e.plan] \in Nat /\ since[s][e.plan] <= Timeout
        <4>1. since[s] \in [Plans -> 0..Never] /\ Never \in Nat
          BY <1>1, <1>f, PFacts DEF PInv
        <4>2. since[s][e.plan] \in 0..Never /\ since[s][e.plan] <= req[r].age
          BY <1>1, <1>3, <4>1
        <4> QED BY <1>1, <1>f, <4>1, <4>2
      <3>3. since[s][e.plan] + e.left <= TTL + Timeout
        BY <1>3, <1>f, <3>2
      <3> QED BY <1>2, <2>1, <3>1, <3>3 DEF Aged
    <2>2. CASE t # s
      <3>1. cacheKey(t) # cacheKey(s)
        BY <1>1, <2>2, KeysApart
      <3>2. cache'[cacheKey(t)] = cache[cacheKey(t)]
        BY <1>2, <1>f, <3>1, KeysApart
      <3>3. Aged(t)
        BY DEF PInv
      <3> QED BY <1>2, <3>2, <3>3 DEF Aged, live
    <2> QED BY <2>1, <2>2
  <1> QED BY <1>4, <1>5, <1>6, <1>7 DEF PInv

\* A hit changes nothing.
LEMMA SameStep == PInv /\ UNCHANGED vars => PInv'
  BY DEF PInv, TypeOK, CurrentIsNew, OnItsWay, Aged, live, vars

LEMMA PInvStep == PInv /\ [Next]_vars => PInv'
  <1> SUFFICES ASSUME PInv, [Next]_vars PROVE PInv'
    OBVIOUS
  <1>1. CASE Tick
    BY <1>1, TickStep
  <1>2. ASSUME NEW s \in Subjects, ChangePlan(s) PROVE PInv'
    BY <1>2, ChangeStep
  <1>3. ASSUME NEW r \in Requests, Call(r) PROVE PInv'
    BY <1>3, ServeStep, StoreStep, FailStep DEF Call
  <1>4. ASSUME NEW r \in Requests, NEW s \in Subjects, Hit(r, s) PROVE PInv'
    BY <1>4, SameStep DEF Hit
  <1>5. ASSUME NEW r \in Requests, NEW s \in Subjects, Miss(r, s) PROVE PInv'
    BY <1>5, MissStep
  <1>6. CASE UNCHANGED vars
    BY <1>6, SameStep
  <1> QED BY <1>1, <1>2, <1>3, <1>4, <1>5, <1>6 DEF Next

LEMMA Invariance == Spec => []PInv
  BY PInvInit, PInvStep, PTL DEF Spec

-----------------------------------------------------------------------------
(* The theorems                                                            *)

\* Entries, calls and ages stay what they are declared to be: in particular no
\* answer is stored after its call has timed out.
THEOREM Typing == Spec => []TypeOK
  <1>1. PInv => TypeOK
    BY DEF PInv
  <1> QED BY <1>1, Invariance, PTL

\* A plan taken from the cache was the customer's at most a time to live and a
\* call ago, in whatever order overlapping misses stored their answers.
THEOREM Fresh == Spec => []BoundedStaleness
  <1>1. PInv => BoundedStaleness
    <2> SUFFICES ASSUME PInv, NEW s \in Subjects, live(s)
                 PROVE  since[s][cache[cacheKey(s)].plan] < TTL + Timeout
      BY DEF BoundedStaleness
    <2>1. since[s][cache[cacheKey(s)].plan] + cache[cacheKey(s)].left <= TTL + Timeout
      BY DEF PInv, Aged
    <2>2. /\ cache[cacheKey(s)].left \in 1..TTL /\ TTL \in Nat /\ Timeout \in Nat
          /\ since[s][cache[cacheKey(s)].plan] \in 0..Never /\ Never \in Nat
      BY LiveFacts, PFacts DEF PInv
    <2> QED BY <2>1, <2>2
  <1> QED BY <1>1, Invariance, PTL
=============================================================================
