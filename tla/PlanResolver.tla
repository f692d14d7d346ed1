---------------------------- MODULE PlanResolver ----------------------------
(***************************************************************************)
(* The plan of a customer on an application (identity.go): a cache with a  *)
(* time to live before the rate-tier endpoint of service-service.          *)
(* Concurrent misses on one customer all call, and store their answers in  *)
(* any order. Nothing is ever evicted: an entry that has expired stays     *)
(* until the next answer for its key.                                      *)
(*                                                                         *)
(* The clock ticks while calls are under way, but not past Timeout. In the *)
(* code the HTTP timeout ends the call and nothing bounds the moment from  *)
(* reading the answer to storing it; Timeout bounds both together.         *)
(***************************************************************************)
EXTENDS Integers

CONSTANTS
  Nil,        \* the absent value
  Requests,   \* concurrent requests, each resolving a plan
  Subjects,   \* [app, user], app = "" for the global rate tier
  Plans,      \* the plans service-service knows
  TTL,        \* planCacheTTL
  Timeout     \* bound on a call, from the miss to the store of its answer

ASSUME TTLAssumption == TTL \in Nat \ {0}
ASSUME TimeoutAssumption == Timeout \in Nat
ASSUME SubjectsAssumption == \A s \in Subjects : s = [app |-> s.app, user |-> s.user]

VARIABLES
  tier,    \* external: the plan service-service has for each subject
  cache,   \* pr.cache: [plan, left] with the ticks to expiresAt, Nil if absent
  req,     \* the requests: stage, subject, answer and age of the call
  since    \* history: ticks since a plan was a subject's, Never if it was not

vars == <<tier, cache, req, since>>

\* Ages stop growing once they are beyond every bound of interest.
Never == TTL + Timeout + 1

\* Mutant: the key is not scoped to the application.
cacheKeyUser(s) == <<"", s.user>>

cacheKey(s) == <<s.app, s.user>>

Keys == {cacheKey(s) : s \in Subjects}

\* Is there an entry, and is now before its expiresAt?
live(s) == cache[cacheKey(s)] # Nil /\ cache[cacheKey(s)].left > 0

-----------------------------------------------------------------------------

Idle == [pc |-> "idle", subject |-> Nil, plan |-> Nil, age |-> 0]

TypeOK ==
  /\ tier \in [Subjects -> Plans]
  /\ cache \in [Keys -> [plan : Plans, left : 0..TTL] \cup {Nil}]
  /\ req \in [Requests -> [pc : {"idle", "call", "answer"}, subject : Subjects \cup {Nil},
                           plan : Plans \cup {Nil}, age : 0..Timeout]]
  /\ since \in [Subjects -> [Plans -> 0..Never]]

Init ==
  /\ tier \in [Subjects -> Plans]
  /\ cache = [k \in Keys |-> Nil]
  /\ req = [r \in Requests |-> Idle]
  /\ since = [s \in Subjects |-> [p \in Plans |-> IF p = tier[s] THEN 0 ELSE Never]]

\* service-service moves a customer to another plan.
ChangePlan(s) ==
  /\ \E p \in Plans \ {tier[s]} :
       /\ tier' = [tier EXCEPT ![s] = p]
       /\ since' = [since EXCEPT ![s][p] = 0]
  /\ UNCHANGED <<cache, req>>

\* Every entry is a tick nearer to its end, every call a tick older.
Tick ==
  /\ \A r \in Requests : req[r].pc # "idle" => req[r].age < Timeout
  /\ req' = [r \in Requests |-> IF req[r].pc = "idle" THEN req[r] ELSE [req[r] EXCEPT !.age = @ + 1]]
  /\ cache' = [k \in Keys |-> IF cache[k] = Nil \/ cache[k].left = 0 THEN cache[k]
                              ELSE [cache[k] EXCEPT !.left = @ - 1]]
  /\ since' = [s \in Subjects |-> [p \in Plans |->
                 IF p = tier[s] \/ since[s][p] = Never THEN since[s][p] ELSE since[s][p] + 1]]
  /\ UNCHANGED tier

-----------------------------------------------------------------------------
(* Resolve                                                                 *)

\* A live entry is the answer.
Hit(r, s) ==
  /\ req[r].pc = "idle" /\ live(s)
  /\ UNCHANGED vars

\* Without one the rate tier of the subject is asked for.
Miss(r, s) ==
  /\ req[r].pc = "idle" /\ ~live(s)
  /\ req' = [req EXCEPT ![r] = [Idle EXCEPT !.pc = "call", !.subject = s]]
  /\ UNCHANGED <<tier, cache, since>>

\* service-service answers 200 with the plan of the moment.
Serve(r) ==
  /\ req[r].pc = "call"
  /\ req' = [req EXCEPT ![r].pc = "answer", ![r].plan = tier[req[r].subject]]
  /\ UNCHANGED <<tier, cache, since>>

\* Mutant: the plan of the moment is kept when the call fails.
FailExtends(r) ==
  /\ req[r].pc # "idle"
  /\ LET k == cacheKey(req[r].subject)
     IN cache' = IF cache[k] = Nil THEN cache ELSE [cache EXCEPT ![k].left = TTL]
  /\ req' = [req EXCEPT ![r] = Idle]
  /\ UNCHANGED <<tier, since>>

\* Transport error, timeout, cancelled request, unreadable body, status other
\* than 200, invalid JSON or no plan name: the default plan is returned and
\* nothing is stored.
Fail(r) ==
  /\ req[r].pc # "idle"
  /\ req' = [req EXCEPT ![r] = Idle]
  /\ UNCHANGED <<tier, cache, since>>

\* Mutant: an answer prolongs the entry that is there.
StoreProlongs(r) ==
  /\ req[r].pc = "answer"
  /\ LET k == cacheKey(req[r].subject)
         left == IF cache[k] = Nil THEN 0 ELSE cache[k].left
     IN cache' = [cache EXCEPT ![k] = [plan |-> req[r].plan, left |-> left + TTL]]
  /\ req' = [req EXCEPT ![r] = Idle]
  /\ UNCHANGED <<tier, since>>

\* The answer is stored with a new life and returned.
Store(r) ==
  /\ req[r].pc = "answer"
  /\ cache' = [cache EXCEPT ![cacheKey(req[r].subject)] = [plan |-> req[r].plan, left |-> TTL]]
  /\ req' = [req EXCEPT ![r] = Idle]
  /\ UNCHANGED <<tier, since>>

-----------------------------------------------------------------------------

Call(r) == Serve(r) \/ Store(r) \/ Fail(r)

Next ==
  \/ Tick
  \/ \E s \in Subjects : ChangePlan(s)
  \/ \E r \in Requests : Call(r) \/ \E s \in Subjects : Hit(r, s) \/ Miss(r, s)

\* Time passes and calls end, well or not. No call need succeed.
Fairness == WF_vars(Tick) /\ \A r \in Requests : WF_vars(Call(r))

Spec == Init /\ [][Next]_vars /\ Fairness

-----------------------------------------------------------------------------
(* Properties                                                              *)

\* BoundedStaleness: a plan taken from the cache was the customer's on that
\* application at most a time to live and a call ago, although overlapping
\* misses may store an older answer over a newer one and upstream may fail for
\* as long as it likes (planCacheTTL; "plans are per (app_id, user_id)").
BoundedStaleness ==
  \A s \in Subjects : live(s) => since[s][cache[cacheKey(s)].plan] < TTL + Timeout

\* Settles: a customer whose plan no longer changes is, from some time on, never
\* served another one from the cache, whatever was in flight.
Settles ==
  \A s \in Subjects, p \in Plans :
    <>[](tier[s] = p) => <>[](live(s) => cache[cacheKey(s)].plan = p)
=============================================================================
