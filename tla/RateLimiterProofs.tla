-------------------------- MODULE RateLimiterProofs --------------------------
(***************************************************************************)
(* Proofs about the rate limiter on its Redis client, for every number of  *)
(* clients and concurrent requests, all callers, every limit, window and   *)
(* number of outages.                                                      *)
(*                                                                         *)
(* LInv is the inductive invariant. A connection carries at most the one   *)
(* command of the request that holds the mutex, or the reply to it. A      *)
(* counter that has a life outlives its window by a second, so a count got *)
(* within that time is still in the counter, and what is or may yet be     *)
(* admitted for it never exceeds the counter.                              *)
(***************************************************************************)
EXTENDS RateLimiter, FiniteSets, FiniteSetTheorems, TLAPS

-----------------------------------------------------------------------------
(* The invariant                                                           *)

CheckState ==
  [pc : {"idle", "do", "dial", "sent"}, client : Clients \cup {Nil}, caller : Callers \cup {Nil},
   start : Starts, op : {Nil, "INCR", "EXPIRE"}, count : 0..MaxCount, timely : BOOLEAN]

\* A client whose mutex is free has an empty connection, or none.
Clean(c) ==
  owner[c] = Nil /\ conn[c] # Nil => conn[c].commands = <<>> /\ conn[c].replies = <<>>

\* A check under way is for a caller, at one of the two commands, and its
\* window began in the past.
Sane(r) ==
  chk[r].pc # "idle" =>
    /\ chk[r].client \in Clients /\ chk[r].caller \in Callers
    /\ chk[r].op \in {"INCR", "EXPIRE"}
    /\ chk[r].start <= now

\* The connection of a check that holds the mutex: none yet, or one with its
\* command alone, or with the reply to it alone.
Waiting(r) ==
  LET w == conn[chk[r].client]
  IN /\ chk[r].pc = "dial" => w = Nil
     /\ chk[r].pc = "sent" =>
          /\ w # Nil
          /\ \/ w.commands = <<CommandOf(r)>> /\ w.replies = <<>>
             \/ /\ w.commands = <<>> /\ w.replies # <<>>
                /\ w.replies = <<Head(w.replies)>> /\ Head(w.replies).to = CommandOf(r)

\* The reply of a check is there, and no error.
Heard(r) ==
  /\ chk[r].pc = "sent"
  /\ conn[chk[r].client].replies # <<>>
  /\ ReplyOf(r).ok

accountOf(r) == account(chk[r].caller, chk[r].start)

\* The counter of the account is alive if it has been created.
InTime(a) == now < a[3] + Window + 1

\* What a check knows of its counter is true of it while the counter lives.
Counts(r) ==
  /\ Heard(r) /\ chk[r].op = "INCR" =>
       /\ ReplyOf(r).value >= 1 /\ ReplyOf(r).value <= spent[accountOf(r)]
       /\ InTime(accountOf(r)) => ReplyOf(r).value <= store[accountOf(r)].count
  /\ chk[r].pc # "idle" /\ chk[r].op = "EXPIRE" =>
       /\ chk[r].count = 1
       /\ InTime(accountOf(r)) => store[accountOf(r)].count >= 1
       /\ Heard(r) /\ InTime(accountOf(r)) => store[accountOf(r)].ttl # Nil

\* A counter counts no more than was spent, and its life covers its window and
\* one second.
Entry(a) ==
  /\ store[a].count <= spent[a]
  /\ store[a].ttl # Nil => now + store[a].ttl >= a[3] + Window + 1

\* The check will be admitted if nothing fails any more.
Earns(r, a) ==
  /\ chk[r].pc # "idle" /\ accountOf(r) = a /\ chk[r].timely
  /\ \/ chk[r].op = "EXPIRE"
     \/ chk[r].op = "INCR" /\ Heard(r) /\ ReplyOf(r).value <= Limit

Pending(a) == {r \in Requests : Earns(r, a)}

\* What is admitted and what is pending fit into the limit, and into the
\* counter while it lives.
Quota(a) ==
  /\ IsFiniteSet(Pending(a))
  /\ admitted[a] + Cardinality(Pending(a)) <= Limit
  /\ InTime(a) => admitted[a] + Cardinality(Pending(a)) <= store[a].count

LInv ==
  /\ TypeOK
  /\ \A c \in Clients : Clean(c)
  /\ \A r \in Requests : Sane(r) /\ Waiting(r) /\ Counts(r)
  /\ \A a \in Accounts : Entry(a) /\ Quota(a)

-----------------------------------------------------------------------------
(* What the proofs keep needing                                            *)

\* The queues of a connection are empty or hold one element.
LEMMA Singles ==
  ASSUME NEW S, NEW x \in S
  PROVE  /\ <<x>> \in Seq(S) /\ <<x>> # <<>>
         /\ Head(<<x>>) = x /\ Tail(<<x>>) = <<>>
         /\ Append(<<>>, x) = <<x>> /\ <<>> \in Seq(S)
  OBVIOUS

LEMMA Numbers ==
  /\ Limit \in Nat /\ Limit >= 1 /\ Window \in Nat /\ Window >= 1
  /\ MaxCount \in Nat /\ MaxCount > Limit /\ MaxTime \in Nat /\ MaxOutages \in Nat
  /\ ttlSec \in Nat /\ ttlSec = Window + 1
  BY LimitAssumption, WindowAssumption, MaxCountAssumption, MaxTimeAssumption, MaxOutagesAssumption
     DEF ttlSec

\* A window begins at or before the moment it is computed for.
LEMMA WindowsBegin ==
  /\ \A t \in Nat : windowStart(t) \in Int /\ windowStart(t) <= t
  /\ \A s \in Starts : s \in Int
  /\ 0 \in Starts
  <1>1. ASSUME NEW t \in Nat PROVE windowStart(t) \in Int /\ windowStart(t) <= t
    <2>1. t % Window \in 0..(Window - 1)
      BY <1>1, Numbers
    <2> QED BY <1>1, <2>1, Numbers DEF windowStart
  <1>2. \A s \in Starts : s \in Int
    BY <1>1, Numbers DEF Starts
  <1>3. windowStart(0) = 0
    BY Numbers DEF windowStart
  <1>4. 0 \in Starts
    BY <1>3, Numbers DEF Starts
  <1> QED BY <1>1, <1>2, <1>4

\* The counters are those of the accounts.
LEMMA AccountFacts ==
  /\ RedisKeys = Accounts
  /\ \A q \in Callers, s \in Starts : account(q, s) \in Accounts
  /\ \A q, s : redisKey(q, s) = account(q, s) /\ account(q, s)[3] = s
  /\ \A a \in Accounts : a[3] \in Int
  BY KeysAssumption, WindowsBegin DEF Accounts, KeysOfCallers, redisKey, account

LEMMA Counting ==
  \A n \in 0..MaxCount : /\ Counted(n) \in 0..MaxCount /\ Counted(n) >= n /\ Counted(n) >= 1
                         /\ Counted(n) <= Limit => Counted(n) = n + 1
  BY Numbers DEF Counted

Entries == [count : 0..MaxCount, ttl : 1..ttlSec \cup {Nil}]

\* Who holds the mutex of a client.
Held == \A c \in Clients, r \in Requests :
  owner[c] = r <=> chk[r].client = c /\ chk[r].pc \in {"dial", "sent"}

LEMMA Types ==
  TypeOK <=>
    /\ up \in BOOLEAN /\ outages \in 0..MaxOutages /\ now \in 0..MaxTime
    /\ store \in [RedisKeys -> Entries]
    /\ owner \in [Clients -> Requests \cup {Nil}] /\ backoff \in [Clients -> BOOLEAN]
    /\ conn \in [Clients -> Connections \cup {Nil}]
    /\ chk \in [Requests -> CheckState] /\ Held
    /\ spent \in [Accounts -> 0..MaxCount] /\ admitted \in [Accounts -> 0..MaxCount]
  BY DEF TypeOK, Entries, CheckState, Held

\* The account of a check under way, with its counter.
LEMMA Own ==
  ASSUME LInv, NEW r \in Requests, chk[r].pc # "idle"
  PROVE  /\ chk[r].client \in Clients /\ chk[r].caller \in Callers /\ chk[r].start \in Starts
         /\ accountOf(r) \in Accounts /\ accountOf(r) \in RedisKeys
         /\ accountOf(r)[3] = chk[r].start /\ chk[r].start \in Int /\ chk[r].start <= now
         /\ chk[r].op \in {"INCR", "EXPIRE"} /\ CommandOf(r) \in Commands
         /\ CommandOf(r).key = accountOf(r) /\ CommandOf(r).op = chk[r].op
         /\ CommandOf(r).from = r
         /\ chk[r].op = "EXPIRE" => CommandOf(r).seconds = ttlSec
  <1>1. Sane(r) /\ chk[r] \in CheckState
    BY Types DEF LInv
  <1>2. chk[r].start \in Starts /\ chk[r].caller \in Callers /\ chk[r].op \in {"INCR", "EXPIRE"}
    BY <1>1 DEF Sane, CheckState
  <1>3. accountOf(r) \in Accounts /\ accountOf(r)[3] = chk[r].start
    BY <1>2, AccountFacts DEF accountOf
  <1>4. redisKey(chk[r].caller, chk[r].start) = accountOf(r)
    BY AccountFacts DEF accountOf
  <1>5. CommandOf(r) = [from |-> r, op |-> chk[r].op, key |-> accountOf(r),
                        seconds |-> IF chk[r].op = "EXPIRE" THEN ttlSec ELSE 0]
    BY <1>4 DEF CommandOf, Command
  <1>6. CommandOf(r) \in Commands
    BY <1>2, <1>3, <1>5, AccountFacts, Numbers DEF Commands
  <1> QED BY <1>1, <1>2, <1>3, <1>5, <1>6, AccountFacts, WindowsBegin DEF Sane

\* The connection of a check that waits for its reply.
LEMMA Sent ==
  ASSUME LInv, NEW r \in Requests, chk[r].pc = "sent"
  PROVE  /\ conn[chk[r].client] \in Connections /\ conn[chk[r].client] # Nil
         /\ owner[chk[r].client] = r
         /\ \/ conn[chk[r].client].commands = <<CommandOf(r)>> /\ conn[chk[r].client].replies = <<>>
            \/ /\ conn[chk[r].client].commands = <<>> /\ conn[chk[r].client].replies # <<>>
               /\ conn[chk[r].client].replies = <<ReplyOf(r)>>
               /\ ReplyOf(r) \in Replies /\ ReplyOf(r).to = CommandOf(r)
  <1>1. Waiting(r) /\ chk[r].client \in Clients /\ Held /\ conn \in [Clients -> Connections \cup {Nil}]
    BY Own, Types DEF LInv
  <1>2. conn[chk[r].client] # Nil /\ conn[chk[r].client] \in Connections
    BY <1>1 DEF Waiting
  <1>3. conn[chk[r].client].replies \in Seq(Replies)
    BY <1>2 DEF Connections
  <1>4. conn[chk[r].client].replies # <<>> => ReplyOf(r) \in Replies
    BY <1>3 DEF ReplyOf
  <1> QED BY <1>1, <1>2, <1>4 DEF Waiting, ReplyOf, Held

-----------------------------------------------------------------------------
(* A step of one check                                                     *)

\* A step of the check r: other checks stay where they are, and a connection
\* or mutex that changes is one nobody else holds.
Moves(r) ==
  /\ UNCHANGED <<server, now, store, spent>>
  /\ backoff' \in [Clients -> BOOLEAN]
  /\ owner' \in [Clients -> Requests \cup {Nil}]
  /\ conn' \in [Clients -> Connections \cup {Nil}]
  /\ chk' \in [Requests -> CheckState]
  /\ admitted' \in [Accounts -> 0..MaxCount]
  /\ \A s \in Requests \ {r} : chk'[s] = chk[s]
  /\ \A d \in Clients : \/ owner'[d] = owner[d] /\ conn'[d] = conn[d]
                        \/ owner[d] \in {Nil, r} /\ owner'[d] \in {Nil, r}
  /\ \A d \in Clients : owner'[d] = r <=> chk'[r].client = d /\ chk'[r].pc \in {"dial", "sent"}

\* The other checks do not notice.
LEMMA Others ==
  ASSUME LInv, NEW r \in Requests, Moves(r)
  PROVE  /\ TypeOK'
         /\ \A s \in Requests \ {r} :
              Sane(s)' /\ Waiting(s)' /\ Counts(s)' /\ \A a : Earns(s, a)' <=> Earns(s, a)
  <1>1. Held'
    <2> SUFFICES ASSUME NEW d \in Clients, NEW s \in Requests \ {r}
                 PROVE  (owner[d] = s <=> chk[s].client = d /\ chk[s].pc \in {"dial", "sent"})'
      BY DEF Moves, Held
    <2>1. chk'[s] = chk[s] /\ (owner[d] = s <=> chk[s].client = d /\ chk[s].pc \in {"dial", "sent"})
      BY Types DEF LInv, Moves, Held
    <2>2. CASE owner'[d] = owner[d]
      BY <2>1, <2>2
    <2>3. CASE owner[d] \in {Nil, r} /\ owner'[d] \in {Nil, r}
      BY <2>1, <2>3, AbsentAssumption
    <2> QED BY <2>2, <2>3 DEF Moves
  <1>2. TypeOK'
    <2>1. /\ up' \in BOOLEAN /\ outages' \in 0..MaxOutages /\ now' \in 0..MaxTime
          /\ store' \in [RedisKeys -> Entries] /\ spent' \in [Accounts -> 0..MaxCount]
      BY Types DEF LInv, Moves, server
    <2> QED BY <1>1, <2>1 DEF Moves, TypeOK, Entries, CheckState, Held
  <1>3. ASSUME NEW s \in Requests \ {r}
        PROVE  Sane(s)' /\ Waiting(s)' /\ Counts(s)' /\ \A a : Earns(s, a)' <=> Earns(s, a)
    <2>1. chk'[s] = chk[s] /\ store' = store /\ spent' = spent /\ now' = now
      BY DEF Moves
    <2>2. chk[s].pc \in {"dial", "sent"} => conn'[chk[s].client] = conn[chk[s].client]
      <3> SUFFICES ASSUME chk[s].pc \in {"dial", "sent"} PROVE conn'[chk[s].client] = conn[chk[s].client]
        OBVIOUS
      <3>1. chk[s].client \in Clients
        BY Own
      <3>2. owner[chk[s].client] = s
        BY <3>1, Types DEF LInv, Held
      <3> QED BY <3>1, <3>2, AbsentAssumption DEF Moves
    <2>3. Sane(s)'
      BY <2>1 DEF LInv, Sane
    <2>4. Waiting(s)'
      BY <2>1, <2>2 DEF LInv, Waiting, CommandOf
    <2>5. (Heard(s)' <=> Heard(s)) /\ (Heard(s) => ReplyOf(s)' = ReplyOf(s)) /\ accountOf(s)' = accountOf(s)
      BY <2>1, <2>2 DEF Heard, ReplyOf, accountOf
    <2>6. \A a : InTime(a)' <=> InTime(a)
      BY <2>1 DEF InTime
    <2>7. Counts(s)'
      BY <2>1, <2>5, <2>6 DEF LInv, Counts
    <2>8. \A a : Earns(s, a)' <=> Earns(s, a)
      BY <2>1, <2>5 DEF Earns
    <2> QED BY <2>3, <2>4, <2>7, <2>8
  <1> QED BY <1>2, <1>3

\* What is left to show of a step of one check.
LEMMA Moved ==
  ASSUME LInv, NEW r \in Requests, Moves(r),
         \A d \in Clients : Clean(d)', Sane(r)', Waiting(r)', Counts(r)',
         \A a \in Accounts : Quota(a)'
  PROVE  LInv'
  <1>1. \A a \in Accounts : Entry(a)'
    BY DEF LInv, Moves, Entry
  <1>2. \A s \in Requests : Sane(s)' /\ Waiting(s)' /\ Counts(s)'
    BY Others
  <1>3. TypeOK'
    BY Others
  <1> QED BY <1>1, <1>2, <1>3 DEF LInv

\* The quota is kept when no check begins to earn an admission.
LEMMA Kept ==
  ASSUME LInv, NEW a \in Accounts, admitted'[a] = admitted[a],
         InTime(a)' => InTime(a) /\ store'[a].count >= store[a].count,
         \A s \in Requests : Earns(s, a)' => Earns(s, a),
         store'[a].count \in Nat
  PROVE  Quota(a)'
  <1> DEFINE P == Pending(a)
             Q == Pending(a)'
             m == admitted[a]
  <1>1. IsFiniteSet(P) /\ m + Cardinality(P) <= Limit /\ (InTime(a) => m + Cardinality(P) <= store[a].count)
    BY DEF LInv, Quota
  <1>2. Q \subseteq P
    BY DEF Pending
  <1>3. IsFiniteSet(Q) /\ Cardinality(Q) <= Cardinality(P) /\ Cardinality(P) \in Nat /\ Cardinality(Q) \in Nat
    BY <1>1, <1>2, FS_Subset, FS_CardinalityType
  <1>4. m \in Nat /\ store[a].count \in Nat
    BY Types, AccountFacts, Numbers DEF LInv, Entries
  <1> HIDE DEF P, Q, m
  <1>5. m + Cardinality(Q) <= Limit
    BY <1>1, <1>3, <1>4, Numbers
  <1>6. InTime(a)' => m + Cardinality(Q) <= store'[a].count
    BY <1>1, <1>3, <1>4, Numbers
  <1> QED BY <1>3, <1>5, <1>6 DEF Quota, P, Q, m

LEMMA KeptAll ==
  ASSUME LInv, NEW r \in Requests, Moves(r), admitted' = admitted,
         \A a \in Accounts : Earns(r, a)' => Earns(r, a)
  PROVE  \A a \in Accounts : Quota(a)'
  <1> SUFFICES ASSUME NEW a \in Accounts PROVE Quota(a)'
    OBVIOUS
  <1>1. \A s \in Requests : Earns(s, a)' => Earns(s, a)
    BY Others
  <1>2. store[a].count \in Nat
    BY Types, AccountFacts, Numbers DEF LInv, Entries
  <1>3. store'[a] = store[a] /\ (InTime(a)' => InTime(a))
    BY DEF Moves, InTime
  <1> QED BY <1>1, <1>2, <1>3, Kept

\* A check that is given up.
LEMMA GivenUp ==
  ASSUME LInv, NEW r \in Requests, Moves(r), admitted' = admitted,
         chk'[r] = Idle, \A d \in Clients : Clean(d)'
  PROVE  LInv'
  <1>1. Sane(r)' /\ Waiting(r)' /\ Counts(r)' /\ \A a : ~Earns(r, a)'
    BY DEF Sane, Waiting, Counts, Earns, Heard, Idle
  <1> QED BY <1>1, Moved, KeptAll

\* Changing a part of a connection.
LEMMA Parts ==
  ASSUME NEW w \in Connections
  PROVE  /\ w.commands \in Seq(Commands) /\ w.replies \in Seq(Replies) /\ w.alive \in BOOLEAN
         /\ w # Nil
  BY AbsentAssumption DEF Connections

LEMMA NewCommands ==
  ASSUME NEW w \in Connections, NEW x \in Seq(Commands)
  PROVE  /\ [w EXCEPT !.commands = x] \in Connections
         /\ [w EXCEPT !.commands = x].commands = x /\ [w EXCEPT !.commands = x].replies = w.replies
  BY DEF Connections

LEMMA NewReplies ==
  ASSUME NEW w \in Connections, NEW y \in Seq(Replies)
  PROVE  /\ [w EXCEPT !.replies = y] \in Connections
         /\ [w EXCEPT !.replies = y].replies = y /\ [w EXCEPT !.replies = y].commands = w.commands
  BY DEF Connections

LEMMA FreshFacts ==
  /\ Fresh \in Connections /\ Fresh.commands = <<>> /\ Fresh.replies = <<>>
  BY DEF Fresh, Connections

LEMMA IdleState == Idle \in CheckState /\ Idle.pc = "idle"
  BY WindowsBegin, Numbers DEF Idle, CheckState

\* The state of the check that takes a step.
LEMMA Became ==
  ASSUME LInv, NEW r \in Requests, NEW n \in CheckState, Become(r, n)
  PROVE  /\ chk' \in [Requests -> CheckState] /\ chk'[r] = n
         /\ \A s \in Requests \ {r} : chk'[s] = chk[s]
  BY Types DEF LInv, Become

\* A check reads its reply and leaves the mutex: the connection is empty.
LEMMA ReadStep ==
  ASSUME LInv, NEW r \in Requests, Answered(r), NEW n \in CheckState, n.pc \in {"idle", "do"},
         Become(r, n), UNCHANGED <<now, spent>>, admitted' \in [Accounts -> 0..MaxCount]
  PROVE  /\ Moves(r) /\ \A d \in Clients : Clean(d)'
         /\ ReplyOf(r) \in Replies /\ ReplyOf(r).to = CommandOf(r)
         /\ ReplyOf(r).ok => Heard(r)
  <1> DEFINE c == chk[r].client
             w == conn[c]
             y == Tail(w.replies)
             v == [w EXCEPT !.replies = y]
  <1>1. /\ chk[r].pc = "sent" /\ owner[c] = r /\ owner' = [owner EXCEPT ![c] = Nil]
        /\ w.replies # <<>> /\ conn' = [conn EXCEPT ![c] = v] /\ UNCHANGED <<server, store, backoff>>
    BY DEF Answered, ReadReply, Unlock
  <1>f. /\ c \in Clients /\ owner \in [Clients -> Requests \cup {Nil}] /\ Held
        /\ conn \in [Clients -> Connections \cup {Nil}] /\ backoff \in [Clients -> BOOLEAN]
    BY <1>1, Own, Types DEF LInv
  <1>2. /\ w \in Connections /\ w.commands = <<>> /\ w.replies = <<ReplyOf(r)>>
        /\ ReplyOf(r) \in Replies /\ ReplyOf(r).to = CommandOf(r)
    BY <1>1, Sent
  <1>3. y = <<>> /\ y \in Seq(Replies)
    BY <1>2, Singles
  <1>4. ReplyOf(r).ok => Heard(r)
    BY <1>1 DEF Heard
  <1> HIDE DEF w, y
  <1>5. v \in Connections /\ v.commands = <<>> /\ v.replies = <<>>
    BY ONLY <1>2, <1>3, NewReplies
  <1> HIDE DEF v
  <1>6. /\ owner' \in [Clients -> Requests \cup {Nil}] /\ conn' \in [Clients -> Connections \cup {Nil}]
        /\ \A d \in Clients : d # c => owner'[d] = owner[d] /\ conn'[d] = conn[d]
        /\ owner'[c] = Nil /\ conn'[c] = v
    BY <1>1, <1>5, <1>f
  <1>7. \A d \in Clients : owner'[d] # r
    <2> SUFFICES ASSUME NEW d \in Clients PROVE owner'[d] # r
      OBVIOUS
    <2>1. d # c => owner[d] # r
      BY <1>f DEF Held
    <2> QED BY <1>6, <2>1, AbsentAssumption
  <1>8. /\ chk' \in [Requests -> CheckState] /\ chk'[r] = n
        /\ \A s \in Requests \ {r} : chk'[s] = chk[s]
    BY Became
  <1> HIDE DEF c
  <1>9. Moves(r)
    BY <1>f, <1>1, <1>6, <1>7, <1>8 DEF Moves
  <1>10. \A d \in Clients : Clean(d)'
    BY <1>5, <1>6 DEF LInv, Clean
  <1> QED BY <1>2, <1>4, <1>9, <1>10

\* The steps by which a check gives up without a reply: it has the mutex and
\* drops the connection, or it has not and leaves everything alone.
LEMMA Drops ==
  ASSUME LInv, NEW r \in Requests, chk[r].pc # "idle", Become(r, Idle),
         UNCHANGED <<server, now, store, spent, admitted>>,
         backoff' \in [Clients -> BOOLEAN],
         \/ owner[chk[r].client] # r /\ UNCHANGED <<conn, owner>>
         \/ /\ owner[chk[r].client] = r /\ owner' = [owner EXCEPT ![chk[r].client] = Nil]
            /\ conn' = [conn EXCEPT ![chk[r].client] = Nil]
  PROVE  LInv'
  <1> DEFINE c == chk[r].client
  <1>f. /\ c \in Clients /\ owner \in [Clients -> Requests \cup {Nil}] /\ Held
        /\ conn \in [Clients -> Connections \cup {Nil}]
        /\ admitted \in [Accounts -> 0..MaxCount]
    BY Own, Types DEF LInv
  <1>1. /\ chk' \in [Requests -> CheckState] /\ chk'[r] = Idle
        /\ \A s \in Requests \ {r} : chk'[s] = chk[s]
    BY Became, IdleState
  <1>2. /\ owner' \in [Clients -> Requests \cup {Nil}] /\ conn' \in [Clients -> Connections \cup {Nil}]
        /\ \A d \in Clients : d # c => owner'[d] = owner[d] /\ conn'[d] = conn[d]
        /\ \/ owner[c] # r /\ owner'[c] = owner[c] /\ conn'[c] = conn[c]
           \/ owner[c] = r /\ owner'[c] = Nil /\ conn'[c] = Nil
    BY <1>f
  <1>3. \A d \in Clients : owner'[d] # r
    <2> SUFFICES ASSUME NEW d \in Clients PROVE owner'[d] # r
      OBVIOUS
    <2>1. d # c => owner[d] # r
      BY <1>f DEF Held
    <2> QED BY <1>2, <2>1, AbsentAssumption
  <1>4. chk'[r].pc = "idle"
    BY <1>1, IdleState
  <1>5. Moves(r)
    BY <1>f, <1>1, <1>2, <1>3, <1>4 DEF Moves
  <1>6. \A d \in Clients : Clean(d)'
    BY <1>2 DEF LInv, Clean
  <1> QED BY <1>1, <1>5, <1>6, GivenUp

LEMMA GivingUp ==
  ASSUME LInv, NEW r \in Requests,
         FailFast(r) \/ DialFails(r) \/ IOError(r) \/ ErrorReply(r)
  PROVE  LInv'
  <1>f. /\ chk \in [Requests -> CheckState] /\ Held /\ backoff \in [Clients -> BOOLEAN]
    BY Types DEF LInv
  <1>1. CASE FailFast(r)
    <2>1. /\ chk[r].pc # "idle" /\ Become(r, Idle) /\ UNCHANGED <<server, now, store, spent, admitted>>
          /\ owner[chk[r].client] = Nil /\ UNCHANGED <<conn, owner, backoff>>
      BY <1>1 DEF FailFast, Unavailable, Error, redisVars, server, history
    <2> QED BY <1>f, <2>1, AbsentAssumption, Drops
  <1>2. CASE DialFails(r)
    <2>1. /\ chk[r].pc # "idle" /\ Become(r, Idle) /\ UNCHANGED <<server, now, store, spent, admitted>>
          /\ owner[chk[r].client] = r /\ owner' = [owner EXCEPT ![chk[r].client] = Nil]
          /\ conn' = [conn EXCEPT ![chk[r].client] = Nil]
          /\ backoff' = [backoff EXCEPT ![chk[r].client] = TRUE]
      BY <1>2 DEF DialFails, DialFailed, Unlock, Error, server, history
    <2>2. backoff' \in [Clients -> BOOLEAN]
      BY <1>f, <2>1
    <2> QED BY <2>1, <2>2, Drops
  <1>3. CASE IOError(r)
    <2>1. /\ chk[r].pc # "idle" /\ Become(r, Idle) /\ UNCHANGED <<server, now, store, spent, admitted>>
          /\ owner[chk[r].client] = r /\ owner' = [owner EXCEPT ![chk[r].client] = Nil]
          /\ conn' = [conn EXCEPT ![chk[r].client] = Nil] /\ backoff' = backoff
      BY <1>3 DEF IOError, Broken, Unlock, Error, server, history
    <2> QED BY <1>f, <2>1, Drops
  <1>4. CASE ErrorReply(r)
    <2>1. /\ Answered(r) /\ Become(r, Idle) /\ UNCHANGED <<now, spent>> /\ admitted' = admitted
      BY <1>4 DEF ErrorReply, Error, history
    <2>2. admitted' \in [Accounts -> 0..MaxCount]
      BY <2>1, Types DEF LInv
    <2>3. Moves(r) /\ \A d \in Clients : Clean(d)'
      BY <2>1, <2>2, IdleState, ReadStep
    <2>4. chk'[r] = Idle
      BY <2>1, IdleState, Became
    <2> QED BY <2>1, <2>3, <2>4, GivenUp
  <1> QED BY <1>1, <1>2, <1>3, <1>4

\* A step that opens or keeps the way to a reply: nothing is heard after it.
LEMMA Unheard ==
  ASSUME LInv, NEW r \in Requests, Moves(r), admitted' = admitted,
         \A d \in Clients : Clean(d)', Sane(r)', Waiting(r)', ~Heard(r)',
         chk'[r].op = "EXPIRE" =>
           /\ chk[r].pc # "idle" /\ chk[r].op = "EXPIRE" /\ chk[r].count = chk'[r].count
           /\ chk[r].caller = chk'[r].caller /\ chk[r].start = chk'[r].start
           /\ chk[r].timely = chk'[r].timely
  PROVE  LInv'
  <1>1. Counts(r)'
    <2>1. Counts(r) /\ now' = now /\ store' = store
      BY DEF LInv, Moves
    <2> QED BY <2>1 DEF Counts, accountOf, InTime
  <1>2. \A a \in Accounts : Earns(r, a)' => Earns(r, a)
    BY DEF Earns, accountOf
  <1> QED BY <1>1, <1>2, Moved, KeptAll

\* A check begins, in the window of the moment.
LEMMA BeginStep ==
  ASSUME LInv, NEW r \in Requests, NEW c \in Clients, NEW q \in Callers, Begin(r, c, q)
  PROVE  LInv'
  <1> DEFINE n == [Idle EXCEPT !.pc = "do", !.client = c, !.caller = q,
                               !.start = windowStart(now), !.op = "INCR"]
  <1>f. /\ now \in 0..MaxTime /\ now \in Nat /\ Held
        /\ owner \in [Clients -> Requests \cup {Nil}] /\ backoff \in [Clients -> BOOLEAN]
        /\ conn \in [Clients -> Connections \cup {Nil}] /\ admitted \in [Accounts -> 0..MaxCount]
    BY Types, Numbers DEF LInv
  <1>1. chk[r].pc = "idle" /\ Become(r, n) /\ UNCHANGED <<redisVars, now, history>>
    BY DEF Begin
  <1>2. windowStart(now) \in Starts /\ windowStart(now) <= now
    BY <1>f, WindowsBegin DEF Starts
  <1>3. /\ n \in CheckState /\ n.pc = "do" /\ n.client = c /\ n.caller = q
        /\ n.start = windowStart(now) /\ n.op = "INCR"
    BY <1>2, IdleState DEF CheckState, Idle
  <1> HIDE DEF n
  <1>4. /\ chk' \in [Requests -> CheckState] /\ chk'[r] = n
        /\ \A s \in Requests \ {r} : chk'[s] = chk[s]
    BY <1>1, <1>3, Became
  <1>5. Moves(r)
    BY <1>f, <1>1, <1>3, <1>4 DEF Moves, redisVars, history, server, Held
  <1>6. \A d \in Clients : Clean(d)'
    BY <1>1 DEF LInv, Clean, redisVars
  <1>7. Sane(r)' /\ Waiting(r)' /\ ~Heard(r)'
    BY <1>1, <1>2, <1>3, <1>4 DEF Sane, Waiting, Heard
  <1> QED BY <1>1, <1>3, <1>4, <1>5, <1>6, <1>7, Unheard DEF history

\* The stage of a check changes, and nothing else of it.
LEMMA Stage ==
  ASSUME LInv, NEW r \in Requests, NEW p \in {"do", "dial", "sent"}, chk[r].pc # "idle",
         Become(r, [chk[r] EXCEPT !.pc = p])
  PROVE  /\ chk' \in [Requests -> CheckState] /\ chk'[r].pc = p
         /\ chk'[r].client = chk[r].client /\ chk'[r].caller = chk[r].caller
         /\ chk'[r].start = chk[r].start /\ chk'[r].op = chk[r].op
         /\ chk'[r].count = chk[r].count /\ chk'[r].timely = chk[r].timely
         /\ \A s \in Requests \ {r} : chk'[s] = chk[s]
         /\ CommandOf(r)' = CommandOf(r)
  <1> DEFINE n == [chk[r] EXCEPT !.pc = p]
  <1>1. /\ n \in CheckState /\ n.pc = p /\ n.client = chk[r].client /\ n.caller = chk[r].caller
        /\ n.start = chk[r].start /\ n.op = chk[r].op /\ n.count = chk[r].count /\ n.timely = chk[r].timely
    BY Types DEF LInv, CheckState
  <1> HIDE DEF n
  <1>2. /\ chk' \in [Requests -> CheckState] /\ chk'[r] = n
        /\ \A s \in Requests \ {r} : chk'[s] = chk[s]
    BY <1>1, Became DEF n
  <1> QED BY <1>1, <1>2 DEF CommandOf

\* The command goes out, or the dial begins, or it succeeds and the command
\* goes out: the mutex is the check's.
LEMMA OnItsWay ==
  ASSUME LInv, NEW r \in Requests, NEW p \in {"dial", "sent"}, chk[r].pc # "idle",
         Become(r, [chk[r] EXCEPT !.pc = p]),
         UNCHANGED <<server, now, store, spent, admitted, backoff>>,
         owner[chk[r].client] \in {Nil, r}, owner' = [owner EXCEPT ![chk[r].client] = r],
         NEW w \in Connections \cup {Nil}, conn' = [conn EXCEPT ![chk[r].client] = w],
         p = "dial" => w = Nil,
         p = "sent" => w # Nil /\ w.commands = <<CommandOf(r)>> /\ w.replies = <<>>
  PROVE  LInv'
  <1> DEFINE c == chk[r].client
  <1>f. /\ c \in Clients /\ owner \in [Clients -> Requests \cup {Nil}] /\ Held
        /\ conn \in [Clients -> Connections \cup {Nil}] /\ backoff \in [Clients -> BOOLEAN]
        /\ admitted \in [Accounts -> 0..MaxCount]
    BY Own, Types DEF LInv
  <1>1. /\ chk' \in [Requests -> CheckState] /\ chk'[r].pc = p /\ chk'[r].client = c
        /\ chk'[r].caller = chk[r].caller /\ chk'[r].start = chk[r].start /\ chk'[r].op = chk[r].op
        /\ chk'[r].count = chk[r].count /\ chk'[r].timely = chk[r].timely
        /\ \A s \in Requests \ {r} : chk'[s] = chk[s]
        /\ CommandOf(r)' = CommandOf(r)
    BY Stage
  <1>2. /\ owner' \in [Clients -> Requests \cup {Nil}] /\ conn' \in [Clients -> Connections \cup {Nil}]
        /\ \A d \in Clients : d # c => owner'[d] = owner[d] /\ conn'[d] = conn[d]
        /\ owner'[c] = r /\ conn'[c] = w /\ owner[c] \in {Nil, r}
    BY <1>f
  <1>3. \A d \in Clients : d # c => owner'[d] # r
    BY <1>f, <1>2 DEF Held
  <1> HIDE DEF c
  <1>4. Moves(r)
    BY <1>f, <1>1, <1>2, <1>3 DEF Moves
  <1>5. \A d \in Clients : Clean(d)'
    BY <1>2, AbsentAssumption DEF LInv, Clean
  <1>6. Sane(r)'
    BY <1>f, <1>1, Own DEF Sane, c
  <1>7. Waiting(r)' /\ ~Heard(r)'
    BY <1>1, <1>2 DEF Waiting, Heard
  <1> QED BY <1>1, <1>4, <1>5, <1>6, <1>7, Unheard

LEMMA GoingOn ==
  ASSUME LInv, NEW r \in Requests, Send(r) \/ Dial(r) \/ DialSucceeds(r)
  PROVE  LInv'
  <1> DEFINE c == chk[r].client
  <1>f. /\ owner \in [Clients -> Requests \cup {Nil}] /\ Held
        /\ conn \in [Clients -> Connections \cup {Nil}] /\ <<>> \in Seq(Replies)
    BY Types DEF LInv
  <1>1. CASE Send(r)
    <2> DEFINE w == conn[c]
               x == Append(w.commands, CommandOf(r))
               v == [w EXCEPT !.commands = x]
    <2>1. /\ chk[r].pc = "do" /\ Become(r, [chk[r] EXCEPT !.pc = "sent"])
          /\ UNCHANGED <<server, now, store, spent, admitted, backoff>>
          /\ owner[c] = Nil /\ owner' = [owner EXCEPT ![c] = r]
          /\ w # Nil /\ conn' = [conn EXCEPT ![c] = v]
      BY <1>1 DEF Send, Write, Lock, server, history
    <2>2. c \in Clients /\ CommandOf(r) \in Commands
      BY <2>1, Own
    <2>3. w \in Connections /\ w.commands = <<>> /\ w.replies = <<>>
      BY <1>f, <2>1, <2>2 DEF LInv, Clean
    <2>4. x = <<CommandOf(r)>> /\ x \in Seq(Commands)
      BY <2>2, <2>3, Singles
    <2> HIDE DEF w, x
    <2>5. v \in Connections /\ v.commands = <<CommandOf(r)>> /\ v.replies = <<>>
      BY ONLY <2>3, <2>4, NewCommands
    <2>6. v # Nil
      BY <2>5, Parts
    <2> HIDE DEF v
    <2> QED BY <2>1, <2>5, <2>6, OnItsWay
  <1>2. CASE Dial(r)
    <2>1. /\ chk[r].pc = "do" /\ Become(r, [chk[r] EXCEPT !.pc = "dial"])
          /\ UNCHANGED <<server, now, store, spent, admitted, backoff, conn>>
          /\ owner[c] = Nil /\ owner' = [owner EXCEPT ![c] = r] /\ conn[c] = Nil
      BY <1>2 DEF Dial, StartDial, Lock, server, history
    <2>2. conn' = [conn EXCEPT ![c] = Nil]
      BY <1>f, <2>1
    <2> QED BY <2>1, <2>2, OnItsWay
  <1>3. CASE DialSucceeds(r)
    <2> DEFINE v == [Fresh EXCEPT !.commands = <<CommandOf(r)>>]
    <2>1. /\ chk[r].pc = "dial" /\ Become(r, [chk[r] EXCEPT !.pc = "sent"])
          /\ UNCHANGED <<server, now, store, spent, admitted, backoff, owner>>
          /\ owner[c] = r /\ conn' = [conn EXCEPT ![c] = v]
      BY <1>3 DEF DialSucceeds, Dialled, server, history
    <2>2. c \in Clients /\ CommandOf(r) \in Commands
      BY <2>1, Own
    <2>3. owner' = [owner EXCEPT ![c] = r]
      BY <1>f, <2>1, <2>2
    <2>4. <<CommandOf(r)>> \in Seq(Commands)
      BY <2>2, Singles
    <2>5. v \in Connections /\ v.commands = <<CommandOf(r)>> /\ v.replies = <<>>
      BY ONLY <2>4, FreshFacts, NewCommands
    <2>6. v # Nil
      BY <2>5, Parts
    <2> HIDE DEF v
    <2> QED BY <2>1, <2>3, <2>5, <2>6, OnItsWay
  <1> QED BY <1>1, <1>2, <1>3

\* The check that created the counter goes on to give it its life.
LEMMA SetLifeStep ==
  ASSUME LInv, NEW r \in Requests, SetLife(r)
  PROVE  LInv'
  <1> DEFINE n == [chk[r] EXCEPT !.pc = "do", !.op = "EXPIRE", !.count = ReplyOf(r).value]
  <1>1. /\ Answered(r) /\ ReplyOf(r).ok /\ chk[r].op = "INCR" /\ ReplyOf(r).value = 1
        /\ Become(r, n) /\ UNCHANGED <<now, spent>> /\ admitted' = admitted /\ chk[r].pc # "idle"
    BY DEF SetLife, NeedsLife, history, Answered
  <1>f. chk[r] \in CheckState /\ admitted' \in [Accounts -> 0..MaxCount] /\ 1 \in 0..MaxCount
    BY <1>1, Types, Numbers DEF LInv
  <1>2. /\ n \in CheckState /\ n.pc = "do" /\ n.op = "EXPIRE" /\ n.count = 1
        /\ n.client = chk[r].client /\ n.caller = chk[r].caller /\ n.start = chk[r].start
        /\ n.timely = chk[r].timely
    BY <1>1, <1>f DEF CheckState
  <1> HIDE DEF n
  <1>3. chk'[r] = n
    BY <1>1, <1>2, Became
  <1>4. Moves(r) /\ (\A d \in Clients : Clean(d)') /\ Heard(r)
    BY <1>1, <1>2, <1>f, ReadStep
  <1>5. now' = now /\ store' = store /\ accountOf(r)' = accountOf(r)
    BY <1>2, <1>3, <1>4 DEF Moves, accountOf
  <1>6. Sane(r)' /\ Waiting(r)' /\ ~Heard(r)'
    BY <1>1, <1>2, <1>3, <1>5, Own DEF Sane, Waiting, Heard
  <1>7. Counts(r)'
    BY <1>1, <1>2, <1>3, <1>4, <1>5, <1>6 DEF LInv, Counts, InTime
  <1>8. \A a \in Accounts : Earns(r, a)' => Earns(r, a)
    BY <1>1, <1>2, <1>3, <1>4, <1>5, Numbers DEF Earns
  <1> QED BY <1>1, <1>4, <1>6, <1>7, <1>8, Moved, KeptAll

\* A check that earned its admission is decided: what was pending is admitted.
LEMMA Admit ==
  ASSUME LInv, NEW r \in Requests, Moves(r), chk'[r] = Idle, chk[r].pc # "idle",
         Earns(r, accountOf(r)),
         admitted' = [admitted EXCEPT ![accountOf(r)] = Counted(@)]
  PROVE  \A b \in Accounts : Quota(b)'
  <1> SUFFICES ASSUME NEW a, a = accountOf(r) PROVE \A b \in Accounts : Quota(b)'
    OBVIOUS
  <1> DEFINE P == Pending(a)
             Q == Pending(a)'
             m == admitted[a]
             k == store[a].count
  <1>1. /\ now' = now /\ store' = store /\ a \in Accounts /\ \A b : ~Earns(r, b)'
        /\ m \in 0..MaxCount /\ admitted'[a] = Counted(m)
        /\ \A b \in Accounts : b # a => admitted'[b] = admitted[b]
        /\ \A b \in Accounts : store[b].count \in Nat
    BY Own, Types, AccountFacts, Numbers DEF LInv, Moves, Entries, Earns, Idle
  <1>2. ASSUME NEW b \in Accounts, b # a PROVE Quota(b)'
    <2>1. \A s \in Requests : Earns(s, b)' => Earns(s, b)
      BY <1>1, Others
    <2>2. admitted'[b] = admitted[b] /\ store'[b] = store[b] /\ (InTime(b)' => InTime(b)) /\ store[b].count \in Nat
      BY <1>1, <1>2 DEF InTime
    <2> QED BY <2>1, <2>2, Kept
  <1>3. IsFiniteSet(P) /\ m + Cardinality(P) <= Limit /\ (InTime(a) => m + Cardinality(P) <= k)
    BY <1>1 DEF LInv, Quota
  <1>4. r \in P /\ Q = P \ {r}
    BY <1>1, Others DEF Pending
  <1>5. IsFiniteSet(Q) /\ Cardinality(Q) = Cardinality(P) - 1 /\ Cardinality(P) \in Nat /\ Cardinality(Q) \in Nat
    BY <1>3, <1>4, FS_RemoveElement, FS_CardinalityType
  <1>6. InTime(a)' <=> InTime(a)
    BY <1>1 DEF InTime
  <1>7. admitted'[a] + Cardinality(Q) = m + Cardinality(P)
    <2> HIDE DEF P, Q, m
    <2>1. m < MaxCount /\ m \in Nat
      BY <1>1, <1>3, <1>5, Numbers
    <2>2. Counted(m) = m + 1
      BY <2>1 DEF Counted
    <2> QED BY <1>1, <1>5, <2>1, <2>2
  <1>8. Quota(a)'
    <2>1. IsFiniteSet(Pending(a)') /\ admitted'[a] + Cardinality(Pending(a)') <= Limit
      BY <1>3, <1>5, <1>7
    <2>2. InTime(a)' => admitted'[a] + Cardinality(Pending(a)') <= store'[a].count
      BY <1>1, <1>3, <1>6, <1>7
    <2> QED BY <2>1, <2>2 DEF Quota
  <1> QED BY <1>2, <1>8

LEMMA DecideStep ==
  ASSUME LInv, NEW r \in Requests, Decide(r)
  PROVE  LInv'
  <1> DEFINE admits == CountGot(r) <= Limit /\ chk[r].timely
  <1>1. /\ Answered(r) /\ ReplyOf(r).ok /\ Become(r, Idle) /\ UNCHANGED <<now, spent>>
        /\ admitted' = IF admits THEN [admitted EXCEPT ![accountOf(r)] = Counted(@)] ELSE admitted
        /\ chk[r].pc = "sent"
    BY DEF Decide, accountOf, Answered
  <1>2. accountOf(r) \in Accounts /\ admitted \in [Accounts -> 0..MaxCount] /\ chk[r].op \in {"INCR", "EXPIRE"}
    BY <1>1, Own, Types DEF LInv
  <1>3. admitted' \in [Accounts -> 0..MaxCount]
    <2>1. Counted(admitted[accountOf(r)]) \in 0..MaxCount
      BY <1>2, Counting
    <2> QED BY <1>1, <1>2, <2>1
  <1>4. Moves(r) /\ (\A d \in Clients : Clean(d)') /\ Heard(r)
    BY <1>1, <1>3, IdleState, ReadStep
  <1>5. chk'[r] = Idle
    BY <1>1, IdleState, Became
  <1>6. CASE ~admits
    BY <1>1, <1>4, <1>5, <1>6, GivenUp
  <1>7. CASE admits
    <2>1. Earns(r, accountOf(r))
      BY <1>1, <1>2, <1>4, <1>7 DEF Earns, CountGot
    <2>2. admitted' = [admitted EXCEPT ![accountOf(r)] = Counted(@)]
      BY <1>1, <1>7
    <2>3. \A b \in Accounts : Quota(b)'
      BY <1>1, <1>4, <1>5, <2>1, <2>2, Admit
    <2>4. Sane(r)' /\ Waiting(r)' /\ Counts(r)'
      BY <1>5 DEF Sane, Waiting, Counts, Heard, Idle
    <2> QED BY <1>4, <2>3, <2>4, Moved
  <1> QED BY <1>6, <1>7

-----------------------------------------------------------------------------
(* The steps of the server and of time                                     *)

\* The command the server is at is that of the check that holds the mutex.
LEMMA AtServer ==
  ASSUME LInv, NEW c \in Clients, Answering(c)
  PROVE  \E r \in Requests :
           /\ owner[c] = r /\ chk[r].client = c /\ chk[r].pc = "sent"
           /\ conn[c] \in Connections /\ conn[c].replies = <<>>
           /\ conn[c].commands = <<CommandOf(r)>> /\ Head(conn[c].commands) = CommandOf(r)
  <1>1. /\ conn[c] # Nil /\ conn[c].commands # <<>> /\ owner[c] \in Requests \cup {Nil} /\ Held
    BY Types DEF LInv, Answering
  <1>2. owner[c] \in Requests
    BY <1>1 DEF LInv, Clean
  <1>3. PICK r \in Requests : owner[c] = r
    BY <1>2
  <1>4. chk[r].client = c /\ chk[r].pc \in {"dial", "sent"}
    BY <1>1, <1>3 DEF Held
  <1>5. chk[r].pc = "sent"
    BY <1>1, <1>4 DEF LInv, Waiting
  <1>6. /\ conn[c] \in Connections /\ conn[c].commands = <<CommandOf(r)>> /\ conn[c].replies = <<>>
        /\ CommandOf(r) \in Commands
    BY <1>1, <1>4, <1>5, Sent, Own
  <1>7. Head(conn[c].commands) = CommandOf(r)
    BY <1>6, Singles
  <1> QED BY <1>3, <1>4, <1>5, <1>6, <1>7

\* The connection with the reply.
LEMMA Answer ==
  ASSUME NEW w \in Connections, NEW cmd \in Commands, w.commands = <<cmd>>, w.replies = <<>>,
         NEW reply \in Replies
  PROVE  LET v == [w EXCEPT !.commands = Tail(@), !.replies = Append(@, reply)]
         IN /\ v \in Connections /\ v # Nil /\ v.commands = <<>> /\ v.replies = <<reply>>
            /\ v.replies # <<>> /\ Head(v.replies) = reply
  <1> DEFINE x == Tail(w.commands)
             y == Append(w.replies, reply)
             v == [w EXCEPT !.commands = x, !.replies = y]
  <1>1. x = <<>> /\ x \in Seq(Commands) /\ y = <<reply>> /\ y \in Seq(Replies) /\ y # <<>> /\ Head(y) = reply
    BY Singles
  <1>2. [w EXCEPT !.commands = Tail(@), !.replies = Append(@, reply)] = v
    BY DEF Connections
  <1> HIDE DEF x, y
  <1>3. v \in Connections /\ v.commands = x /\ v.replies = y
    BY <1>1 DEF Connections
  <1>4. v # Nil
    BY <1>3, Parts
  <1> HIDE DEF v
  <1> QED BY <1>1, <1>2, <1>3, <1>4

\* An error reply promises nothing.
LEMMA RefuseStep ==
  ASSUME LInv, NEW c \in Clients, RedisRefuses(c)
  PROVE  LInv'
  <1>1. /\ Answering(c) /\ UNCHANGED <<server, store, owner, backoff, now, chk, spent, admitted>>
        /\ conn' = [conn EXCEPT ![c].commands = Tail(@),
                                ![c].replies = Append(@, [to |-> Head(conn[c].commands), ok |-> FALSE, value |-> 0])]
    BY DEF RedisRefuses, RefuseCommand, history
  <1>2. PICK r \in Requests :
           /\ owner[c] = r /\ chk[r].client = c /\ chk[r].pc = "sent"
           /\ conn[c] \in Connections /\ conn[c].replies = <<>>
           /\ conn[c].commands = <<CommandOf(r)>> /\ Head(conn[c].commands) = CommandOf(r)
    BY <1>1, AtServer
  <1>f. /\ owner \in [Clients -> Requests \cup {Nil}] /\ Held
        /\ conn \in [Clients -> Connections \cup {Nil}] /\ backoff \in [Clients -> BOOLEAN]
        /\ chk \in [Requests -> CheckState] /\ admitted \in [Accounts -> 0..MaxCount]
    BY Types DEF LInv
  <1> DEFINE reply == [to |-> CommandOf(r), ok |-> FALSE, value |-> 0]
             w == conn[c]
             v == [w EXCEPT !.commands = Tail(@), !.replies = Append(@, reply)]
  <1>3. CommandOf(r) \in Commands /\ reply \in Replies /\ reply.to = CommandOf(r) /\ reply.ok = FALSE
    BY <1>2, Own, Numbers DEF Replies
  <1>4. /\ \A d \in Clients : d # c => conn'[d] = conn[d]
        /\ conn'[c] = v
    BY <1>1, <1>2, <1>f
  <1> HIDE DEF reply
  <1>5. /\ v \in Connections /\ v # Nil /\ v.commands = <<>> /\ v.replies = <<reply>>
        /\ v.replies # <<>> /\ Head(v.replies) = reply
    BY <1>2, <1>3, Answer
  <1> HIDE DEF v, w
  <1>6. conn' \in [Clients -> Connections \cup {Nil}]
    <2>1. conn' = [d \in Clients |-> conn'[d]]
      BY <1>1, <1>f
    <2>2. \A d \in Clients : conn'[d] \in Connections \cup {Nil}
      BY <1>4, <1>5, <1>f
    <2> QED BY <2>1, <2>2
  <1>7. Moves(r)
    BY <1>1, <1>2, <1>4, <1>6, <1>f DEF Moves, Held
  <1>8. \A d \in Clients : Clean(d)'
    BY <1>1, <1>2, <1>4, AbsentAssumption DEF LInv, Clean
  <1>9. Sane(r)'
    BY <1>1 DEF LInv, Sane
  <1>10. CommandOf(r)' = CommandOf(r)
    BY <1>1 DEF CommandOf
  <1>11. Waiting(r)' /\ ~Heard(r)'
    BY <1>1, <1>2, <1>3, <1>4, <1>5, <1>10 DEF Waiting, Heard, ReplyOf
  <1> QED BY <1>1, <1>2, <1>7, <1>8, <1>9, <1>11, Unheard

\* What a command executed by the server leaves of the other checks: counters
\* grow and lives are given, never taken.
Grows(r, c) ==
  /\ UNCHANGED <<server, owner, backoff, now, admitted>>
  /\ owner[c] = r /\ chk[r].client = c /\ chk[r].pc = "sent" /\ conn[c].replies = <<>>
  /\ \A d \in Clients : d # c => conn'[d] = conn[d]
  /\ \A s \in Requests \ {r} : chk'[s] = chk[s]
  /\ \A a \in Accounts : /\ store'[a].count >= store[a].count /\ spent'[a] >= spent[a]
                         /\ store'[a].count \in Nat /\ spent'[a] \in Nat
                         /\ store[a].ttl # Nil => store'[a].ttl # Nil
  /\ chk'[r].pc = chk[r].pc /\ chk'[r].client = c /\ chk'[r].caller = chk[r].caller
  /\ chk'[r].start = chk[r].start /\ chk'[r].op = chk[r].op /\ chk'[r].count = chk[r].count

LEMMA OthersGrow ==
  ASSUME LInv, NEW r \in Requests, NEW c \in Clients, Grows(r, c)
  PROVE  /\ Held' /\ \A d \in Clients : Clean(d)'
         /\ Sane(r)' /\ CommandOf(r)' = CommandOf(r) /\ accountOf(r)' = accountOf(r)
         /\ \A a : InTime(a)' <=> InTime(a)
         /\ \A s \in Requests \ {r} :
              Sane(s)' /\ Waiting(s)' /\ Counts(s)' /\ \A a : Earns(s, a)' <=> Earns(s, a)
  <1>1. Held'
    <2>1. Held
      BY Types DEF LInv
    <2> QED BY <2>1 DEF Grows, Held
  <1>2. ASSUME NEW d \in Clients PROVE Clean(d)'
    <2>1. Clean(d) /\ r # Nil
      BY AbsentAssumption DEF LInv
    <2> QED BY <2>1 DEF Clean, Grows
  <1>3. Sane(r)' /\ CommandOf(r)' = CommandOf(r) /\ accountOf(r)' = accountOf(r)
    BY DEF LInv, Sane, Grows, CommandOf, accountOf
  <1>4. \A a : InTime(a)' <=> InTime(a)
    BY DEF Grows, InTime
  <1>5. ASSUME NEW s \in Requests \ {r}
        PROVE  Sane(s)' /\ Waiting(s)' /\ Counts(s)' /\ \A a : Earns(s, a)' <=> Earns(s, a)
    <2>1. chk'[s] = chk[s] /\ now' = now
      BY DEF Grows
    <2>2. chk[s].pc \in {"dial", "sent"} => conn'[chk[s].client] = conn[chk[s].client]
      <3> SUFFICES ASSUME chk[s].pc \in {"dial", "sent"} PROVE conn'[chk[s].client] = conn[chk[s].client]
        OBVIOUS
      <3>1. chk[s].client \in Clients
        BY Own
      <3>2. owner[chk[s].client] = s
        BY <3>1, Types DEF LInv, Held
      <3> QED BY <3>1, <3>2 DEF Grows
    <2>3. Sane(s)'
      BY <2>1 DEF LInv, Sane
    <2>4. Waiting(s)'
      BY <2>1, <2>2 DEF LInv, Waiting, CommandOf
    <2>5. (Heard(s)' <=> Heard(s)) /\ (Heard(s) => ReplyOf(s)' = ReplyOf(s)) /\ accountOf(s)' = accountOf(s)
      BY <2>1, <2>2 DEF Heard, ReplyOf, accountOf
    <2>6. Counts(s)'
      <3>1. CASE chk[s].pc = "idle"
        BY <2>1, <3>1 DEF Counts, Heard
      <3>2. CASE chk[s].pc # "idle"
        <4> DEFINE a == accountOf(s)
        <4>1. a \in Accounts /\ store[a].count \in Nat /\ spent[a] \in Nat
          BY <3>2, Own, Types, AccountFacts, Numbers DEF LInv, Entries
        <4>2. Heard(s) => ReplyOf(s) \in Replies
          BY <3>2, Sent DEF Heard
        <4>3. Heard(s) => ReplyOf(s).value \in Nat
          BY <4>2, Numbers DEF Replies
        <4>4. /\ store'[a].count >= store[a].count /\ spent'[a] >= spent[a]
              /\ store'[a].count \in Nat /\ spent'[a] \in Nat
              /\ store[a].ttl # Nil => store'[a].ttl # Nil
          BY <4>1 DEF Grows
        <4>5. Counts(s)
          BY DEF LInv
        <4>6. (Heard(s) /\ chk[s].op = "INCR")' =>
                /\ (ReplyOf(s).value >= 1)' /\ (ReplyOf(s).value <= spent[accountOf(s)])'
                /\ (InTime(accountOf(s)) => ReplyOf(s).value <= store[accountOf(s)].count)'
          BY <2>1, <2>5, <1>4, <4>1, <4>3, <4>4, <4>5 DEF Counts
        <4>7. (chk[s].pc # "idle" /\ chk[s].op = "EXPIRE")' =>
                /\ (chk[s].count = 1)'
                /\ (InTime(accountOf(s)) => store[accountOf(s)].count >= 1)'
                /\ (Heard(s) /\ InTime(accountOf(s)) => store[accountOf(s)].ttl # Nil)'
          BY <2>1, <2>5, <1>4, <4>1, <4>4, <4>5 DEF Counts
        <4> QED BY <4>6, <4>7 DEF Counts
      <3> QED BY <3>1, <3>2
    <2>7. \A a : Earns(s, a)' <=> Earns(s, a)
      BY <2>1, <2>5 DEF Earns
    <2> QED BY <2>3, <2>4, <2>6, <2>7
  <1> QED BY <1>1, <1>2, <1>3, <1>4, <1>5

\* The quota of the account whose INCR is executed in time and within the
\* limit: one more is pending, and one more is counted.
LEMMA Earned ==
  ASSUME LInv, NEW r \in Requests, NEW a \in Accounts, ~Earns(r, a), Earns(r, a)',
         \A s \in Requests \ {r} : Earns(s, a)' <=> Earns(s, a),
         admitted' = admitted, InTime(a),
         store'[a].count = store[a].count + 1, store'[a].count <= Limit
  PROVE  Quota(a)'
  <1> DEFINE P == Pending(a)
             Q == Pending(a)'
             m == admitted[a]
             k == store[a].count
  <1>1. IsFiniteSet(P) /\ m + Cardinality(P) <= k
    BY DEF LInv, Quota
  <1>2. Q = P \cup {r} /\ r \notin P
    BY DEF Pending
  <1>3. IsFiniteSet(Q) /\ Cardinality(Q) = Cardinality(P) + 1 /\ Cardinality(P) \in Nat
    BY <1>1, <1>2, FS_AddElement, FS_CardinalityType
  <1>4. m \in Nat /\ k \in Nat /\ admitted'[a] = m /\ store'[a].count = k + 1
    BY Types, AccountFacts, Numbers DEF LInv, Entries
  <1> HIDE DEF P, Q, m, k
  <1>5. m + Cardinality(Q) <= k + 1 /\ m + Cardinality(Q) <= Limit
    BY <1>1, <1>3, <1>4, Numbers DEF k
  <1> QED BY <1>3, <1>4, <1>5 DEF Quota, Q

\* What the execution of a command does to the connection.
LEMMA Executed ==
  ASSUME LInv, NEW c \in Clients, RedisExecutes(c)
  PROVE  \E r \in Requests :
           /\ owner[c] = r /\ chk[r].client = c /\ chk[r].pc = "sent" /\ conn[c].replies = <<>>
           /\ UNCHANGED <<server, owner, backoff, now, admitted>>
           /\ \A d \in Clients : d # c => conn'[d] = conn[d]
           /\ conn' \in [Clients -> Connections \cup {Nil}] /\ conn'[c] # Nil
           /\ conn'[c].commands = <<>> /\ conn'[c].replies # <<>>
           /\ conn'[c].replies = <<Head(conn'[c].replies)>>
           /\ Head(conn'[c].replies).to = CommandOf(r) /\ Head(conn'[c].replies).ok = TRUE
           /\ store' = [store EXCEPT ![accountOf(r)] = apply(CommandOf(r), store[accountOf(r)])]
           /\ chk[r].op = "INCR" =>
                /\ Head(conn'[c].replies).value = apply(CommandOf(r), store[accountOf(r)]).count
                /\ chk' = [chk EXCEPT ![r] = [chk[r] EXCEPT !.timely = now < chk[r].start + Window + 1]]
                /\ spent' = [spent EXCEPT ![accountOf(r)] = Counted(@)]
           /\ chk[r].op = "EXPIRE" => UNCHANGED <<chk, spent>>
  <1>1. Answering(c)
    BY DEF RedisExecutes, Execute
  <1>2. PICK r \in Requests :
           /\ owner[c] = r /\ chk[r].client = c /\ chk[r].pc = "sent"
           /\ conn[c] \in Connections /\ conn[c].replies = <<>>
           /\ conn[c].commands = <<CommandOf(r)>> /\ Head(conn[c].commands) = CommandOf(r)
    BY <1>1, AtServer
  <1>3. /\ CommandOf(r) \in Commands /\ CommandOf(r).key = accountOf(r) /\ CommandOf(r).op = chk[r].op
        /\ CommandOf(r).from = r /\ accountOf(r) \in RedisKeys /\ chk[r].op \in {"INCR", "EXPIRE"}
    BY <1>2, Own
  <1>f. /\ store \in [RedisKeys -> Entries] /\ conn \in [Clients -> Connections \cup {Nil}]
    BY Types DEF LInv
  <1> DEFINE cmd == CommandOf(r)
             a == accountOf(r)
             new == apply(cmd, store[a])
             value == IF cmd.op = "INCR" THEN new.count ELSE IF new = Absent THEN 0 ELSE 1
             reply == [to |-> cmd, ok |-> TRUE, value |-> value]
             w == conn[c]
             v == [w EXCEPT !.commands = Tail(@), !.replies = Append(@, reply)]
  <1>4. /\ store' = [store EXCEPT ![a] = new]
        /\ conn' = [conn EXCEPT ![c].commands = Tail(@), ![c].replies = Append(@, reply)]
        /\ UNCHANGED <<server, owner, backoff, now, admitted>>
    BY <1>2, <1>3 DEF RedisExecutes, Execute
  <1>5. /\ chk[r].op = "INCR" =>
             /\ chk' = [chk EXCEPT ![r] = [chk[r] EXCEPT !.timely = now < chk[r].start + Window + 1]]
             /\ spent' = [spent EXCEPT ![a] = Counted(@)]
        /\ chk[r].op = "EXPIRE" => UNCHANGED <<chk, spent>>
    BY <1>2, <1>3 DEF RedisExecutes, Become, accountOf
  <1>6. value \in 0..MaxCount
    <2>1. store[a] \in Entries
      BY <1>3, <1>f
    <2>2. Counted(store[a].count) \in 0..MaxCount
      BY <2>1, Counting DEF Entries
    <2>3. cmd.op = "INCR" => new.count = Counted(store[a].count)
      BY <2>1 DEF apply, Entries
    <2> QED BY <2>2, <2>3, Numbers
  <1>7. reply \in Replies /\ reply.to = cmd /\ reply.ok = TRUE /\ reply.value = value
    BY <1>3, <1>6 DEF Replies
  <1>8. conn'[c] = v /\ \A d \in Clients : d # c => conn'[d] = conn[d]
    BY <1>4, <1>f
  <1> HIDE DEF reply
  <1>9. /\ v \in Connections /\ v # Nil /\ v.commands = <<>> /\ v.replies = <<reply>>
        /\ v.replies # <<>> /\ Head(v.replies) = reply
    BY <1>2, <1>3, <1>7, Answer
  <1> HIDE DEF v, w
  <1>10. conn' \in [Clients -> Connections \cup {Nil}]
    <2>1. conn' = [d \in Clients |-> conn'[d]]
      BY <1>4, <1>f
    <2>2. \A d \in Clients : conn'[d] \in Connections \cup {Nil}
      BY <1>8, <1>9, <1>f
    <2> QED BY <2>1, <2>2
  <1>11. chk[r].op = "INCR" => value = new.count
    BY <1>3
  <1> HIDE DEF value, new
  <1> WITNESS r \in Requests
  <1>12. /\ conn'[c] # Nil /\ conn'[c].commands = <<>> /\ conn'[c].replies # <<>>
         /\ conn'[c].replies = <<Head(conn'[c].replies)>> /\ Head(conn'[c].replies) = reply
    BY <1>8, <1>9
  <1>13. chk[r].op = "INCR" => Head(conn'[c].replies).value = new.count
    BY <1>7, <1>11, <1>12
  <1>14. Head(conn'[c].replies).to = CommandOf(r) /\ Head(conn'[c].replies).ok = TRUE
    BY <1>7, <1>12
  <1> USE DEF new
  <1> QED BY <1>2, <1>4, <1>5, <1>8, <1>10, <1>12, <1>13, <1>14

\* An INCR counts the request; a count got in time is what the counter holds.
LEMMA ExecuteStep ==
  ASSUME LInv, NEW c \in Clients, RedisExecutes(c)
  PROVE  LInv'
  <1>1. PICK r \in Requests :
           /\ owner[c] = r /\ chk[r].client = c /\ chk[r].pc = "sent" /\ conn[c].replies = <<>>
           /\ UNCHANGED <<server, owner, backoff, now, admitted>>
           /\ \A d \in Clients : d # c => conn'[d] = conn[d]
           /\ conn' \in [Clients -> Connections \cup {Nil}] /\ conn'[c] # Nil
           /\ conn'[c].commands = <<>> /\ conn'[c].replies # <<>>
           /\ conn'[c].replies = <<Head(conn'[c].replies)>>
           /\ Head(conn'[c].replies).to = CommandOf(r) /\ Head(conn'[c].replies).ok = TRUE
           /\ store' = [store EXCEPT ![accountOf(r)] = apply(CommandOf(r), store[accountOf(r)])]
           /\ chk[r].op = "INCR" =>
                /\ Head(conn'[c].replies).value = apply(CommandOf(r), store[accountOf(r)]).count
                /\ chk' = [chk EXCEPT ![r] = [chk[r] EXCEPT !.timely = now < chk[r].start + Window + 1]]
                /\ spent' = [spent EXCEPT ![accountOf(r)] = Counted(@)]
           /\ chk[r].op = "EXPIRE" => UNCHANGED <<chk, spent>>
    BY Executed
  <1> SUFFICES ASSUME NEW a, a = accountOf(r) PROVE LInv'
    OBVIOUS
  <1>2. /\ a \in Accounts /\ a \in RedisKeys /\ a[3] = chk[r].start /\ a[3] \in Int /\ chk[r].start <= now
        /\ chk[r].op \in {"INCR", "EXPIRE"} /\ CommandOf(r).op = chk[r].op
        /\ chk[r].op = "EXPIRE" => CommandOf(r).seconds = ttlSec
    BY <1>1, Own
  <1>f. /\ store \in [RedisKeys -> Entries] /\ spent \in [Accounts -> 0..MaxCount]
        /\ chk \in [Requests -> CheckState] /\ now \in 0..MaxTime /\ now \in Nat
        /\ admitted \in [Accounts -> 0..MaxCount]
    BY Types, Numbers DEF LInv
  <1> DEFINE e == store[a]
             new == apply(CommandOf(r), e)
  <1>3. /\ e \in Entries /\ e.count \in 0..MaxCount /\ e.count \in Nat
        /\ spent[a] \in 0..MaxCount /\ spent[a] \in Nat
        /\ e.count <= spent[a] /\ (e.ttl # Nil => now + e.ttl >= a[3] + Window + 1)
    BY <1>2, <1>f, Numbers DEF Entries, LInv, Entry
  <1>4. chk[r].op = "INCR" =>
          /\ new \in Entries /\ new.count = Counted(e.count) /\ new.ttl = e.ttl
          /\ spent'[a] = Counted(spent[a]) /\ Counted(spent[a]) \in 0..MaxCount
          /\ Counted(e.count) \in 0..MaxCount
          /\ \A b \in Accounts : b # a => spent'[b] = spent[b]
    <2>1. Counted(e.count) \in 0..MaxCount /\ Counted(spent[a]) \in 0..MaxCount
      BY <1>3, Counting
    <2>2. chk[r].op = "INCR" => new = [e EXCEPT !.count = Counted(@)]
      BY <1>2 DEF apply
    <2>3. chk[r].op = "INCR" => new \in Entries /\ new.count = Counted(e.count) /\ new.ttl = e.ttl
      <3> HIDE DEF e, new
      <3> QED BY <1>3, <2>1, <2>2 DEF Entries
    <2> QED BY <1>1, <1>2, <1>f, <2>1, <2>3
  <1>5. chk[r].op = "EXPIRE" =>
          /\ new \in Entries /\ new.count = e.count /\ spent' = spent
          /\ new.ttl = e.ttl \/ new.ttl = ttlSec
          /\ e.count >= 1 => new.ttl = ttlSec
    <2>1. chk[r].op = "EXPIRE" => new = IF e = Absent THEN e ELSE [e EXCEPT !.ttl = ttlSec]
      BY <1>2 DEF apply
    <2>2. e.count >= 1 => e # Absent
      BY <1>3 DEF Absent
    <2>3. ttlSec \in 1..ttlSec
      BY Numbers
    <2> HIDE DEF e, new
    <2> QED BY <1>1, <1>3, <2>1, <2>2, <2>3 DEF Entries
  <1>6. /\ store'[a] = new /\ (\A b \in Accounts : b # a => store'[b] = store[b])
        /\ store' \in [RedisKeys -> Entries] /\ spent' \in [Accounts -> 0..MaxCount]
    <2>1. new \in Entries
      BY <1>2, <1>4, <1>5
    <2>2. store' = [store EXCEPT ![a] = new]
      BY <1>1
    <2> HIDE DEF new
    <2>3. store' \in [RedisKeys -> Entries] /\ store'[a] = new /\ \A b \in Accounts : b # a => store'[b] = store[b]
      BY <2>1, <2>2, <1>2, <1>f, AccountFacts
    <2>4. spent' \in [Accounts -> 0..MaxCount]
      BY <1>1, <1>2, <1>4, <1>f
    <2> QED BY <2>3, <2>4
  <1>7. /\ chk' \in [Requests -> CheckState] /\ (\A s \in Requests \ {r} : chk'[s] = chk[s])
        /\ chk'[r].pc = chk[r].pc /\ chk'[r].client = c /\ chk'[r].caller = chk[r].caller
        /\ chk'[r].start = chk[r].start /\ chk'[r].op = chk[r].op /\ chk'[r].count = chk[r].count
        /\ chk[r].op = "INCR" => (chk'[r].timely <=> InTime(a))
        /\ chk[r].op = "EXPIRE" => chk'[r].timely = chk[r].timely
    <2> DEFINE t == now < chk[r].start + Window + 1
               n == [chk[r] EXCEPT !.timely = t]
    <2>1. n \in CheckState /\ n.timely = t /\ n = [chk[r] EXCEPT !.timely = t] /\ t \in BOOLEAN
      <3>1. t \in BOOLEAN
        OBVIOUS
      <3> HIDE DEF t
      <3> QED BY <3>1, <1>f DEF CheckState
    <2>2. /\ n.pc = chk[r].pc /\ n.client = chk[r].client /\ n.caller = chk[r].caller
          /\ n.start = chk[r].start /\ n.op = chk[r].op /\ n.count = chk[r].count
      BY <1>f DEF CheckState
    <2>3. t <=> InTime(a)
      BY <1>2 DEF InTime
    <2> HIDE DEF t
    <2>4. CASE chk[r].op = "INCR"
      <3>1. chk' = [chk EXCEPT ![r] = n]
        BY <1>1, <2>4 DEF t
      <3> HIDE DEF n
      <3>2. chk'[r] = n /\ chk' \in [Requests -> CheckState] /\ \A s \in Requests \ {r} : chk'[s] = chk[s]
        BY <3>1, <1>f, <2>1
      <3> QED BY <1>1, <2>1, <2>2, <2>3, <2>4, <3>2
    <2>5. CASE chk[r].op = "EXPIRE"
      BY <1>1, <1>f, <2>5
    <2> QED BY <1>2, <2>4, <2>5
  <1> HIDE DEF e, new
  <1>8. \A b \in Accounts :
          /\ store'[b].count >= store[b].count /\ spent'[b] >= spent[b]
          /\ store'[b].count \in Nat /\ spent'[b] \in Nat /\ store[b].count \in Nat /\ spent[b] \in Nat
          /\ store[b].ttl # Nil => store'[b].ttl # Nil
    <2> SUFFICES ASSUME NEW b \in Accounts
                 PROVE  /\ store'[b].count >= store[b].count /\ spent'[b] >= spent[b]
                        /\ store'[b].count \in Nat /\ spent'[b] \in Nat /\ store[b].count \in Nat /\ spent[b] \in Nat
                        /\ store[b].ttl # Nil => store'[b].ttl # Nil
      OBVIOUS
    <2>1. /\ store'[b].count \in Nat /\ spent'[b] \in Nat /\ store[b].count \in Nat /\ spent[b] \in Nat
      BY <1>f, <1>6, AccountFacts, Numbers DEF Entries
    <2>2. CASE b # a
      BY <1>4, <1>5, <1>6, <1>2, <2>1, <2>2
    <2>3. CASE b = a /\ chk[r].op = "INCR"
      BY <1>3, <1>4, <1>6, <2>1, <2>3, Counting DEF e
    <2>4. CASE b = a /\ chk[r].op = "EXPIRE"
      BY <1>3, <1>5, <1>6, <2>1, <2>4, AbsentAssumption, Numbers DEF e
    <2> QED BY <1>2, <2>2, <2>3, <2>4
  <1>9. Grows(r, c)
    BY <1>1, <1>7, <1>8 DEF Grows
  <1>10. /\ Held' /\ (\A d \in Clients : Clean(d)') /\ Sane(r)' /\ CommandOf(r)' = CommandOf(r)
         /\ accountOf(r)' = a /\ (\A b : InTime(b)' <=> InTime(b))
         /\ \A s \in Requests \ {r} :
              Sane(s)' /\ Waiting(s)' /\ Counts(s)' /\ \A b : Earns(s, b)' <=> Earns(s, b)
    BY <1>9, OthersGrow
  <1>11. Waiting(r)' /\ Heard(r)' /\ ReplyOf(r)' = Head(conn'[c].replies) /\ ~Heard(r)
    BY <1>1, <1>7, <1>10 DEF Waiting, Heard, ReplyOf
  <1>12. chk[r].op = "INCR" => (ReplyOf(r).value)' = new.count
    BY <1>1, <1>11 DEF new, e
  <1>13. TypeOK'
    <2>1. up' \in BOOLEAN /\ outages' \in 0..MaxOutages /\ now' \in 0..MaxTime
      BY <1>1, Types DEF LInv, server
    <2>2. /\ owner' \in [Clients -> Requests \cup {Nil}] /\ backoff' \in [Clients -> BOOLEAN]
          /\ admitted' \in [Accounts -> 0..MaxCount]
      BY <1>1, <1>f, Types DEF LInv
    <2> QED BY <2>1, <2>2, <1>1, <1>6, <1>7, <1>10 DEF TypeOK, Entries, CheckState, Held
  <1>14. ASSUME NEW b \in Accounts PROVE Entry(b)'
    <2>1. Entry(b) /\ now' = now
      BY <1>1 DEF LInv
    <2>2. CASE b # a
      BY <1>2, <1>4, <1>5, <1>6, <2>1, <2>2 DEF Entry
    <2>3. CASE b = a /\ chk[r].op = "INCR"
      <3>1. Counted(e.count) <= Counted(spent[a])
        BY <1>3, Numbers DEF Counted
      <3> QED BY <1>3, <1>4, <1>6, <2>1, <2>3, <3>1 DEF Entry, e
    <2>4. CASE b = a /\ chk[r].op = "EXPIRE"
      <3>1. new.ttl # Nil => now + new.ttl >= a[3] + Window + 1
        BY <1>2, <1>3, <1>5, <1>f, <2>4, Numbers
      <3> QED BY <1>3, <1>5, <1>6, <2>1, <2>4, <3>1 DEF Entry
    <2> QED BY <1>2, <2>2, <2>3, <2>4
  <1>15. Counts(r)'
    <2>1. CASE chk[r].op = "INCR"
      <3>1. new.count >= 1 /\ new.count <= spent'[a] /\ new.count <= store'[a].count
        <4>1. Counted(e.count) <= Counted(spent[a])
          BY <1>3, Numbers DEF Counted
        <4> QED BY <1>3, <1>4, <1>6, <2>1, <4>1, Counting
      <3> QED BY <1>7, <1>10, <1>12, <2>1, <3>1 DEF Counts
    <2>2. CASE chk[r].op = "EXPIRE"
      <3>1. chk[r].count = 1 /\ (InTime(a) => e.count >= 1)
        BY <1>1, <2>2 DEF LInv, Counts, e
      <3>2. InTime(a) => store'[a].count >= 1 /\ store'[a].ttl # Nil
        BY <1>5, <1>6, <2>2, <3>1, AbsentAssumption, Numbers
      <3> QED BY <1>7, <1>10, <2>2, <3>1, <3>2 DEF Counts
    <2> QED BY <1>2, <2>1, <2>2
  <1>16. ASSUME NEW b \in Accounts PROVE Quota(b)'
    <2>1. /\ admitted'[b] = admitted[b] /\ store'[b].count \in Nat
          /\ InTime(b)' => InTime(b) /\ store'[b].count >= store[b].count
      BY <1>1, <1>8, <1>10
    <2>2. CASE Earns(r, b)' => Earns(r, b)
      <3>1. \A s \in Requests : Earns(s, b)' => Earns(s, b)
        BY <1>10, <2>2
      <3> QED BY <2>1, <3>1, Kept
    <2>3. CASE Earns(r, b)' /\ ~Earns(r, b)
      <3>1. b = a /\ chk[r].op = "INCR" /\ InTime(a)
        BY <1>1, <1>2, <1>7, <1>10, <2>3 DEF Earns
      <3>2. new.count <= Limit
        BY <1>7, <1>12, <2>3, <3>1 DEF Earns
      <3>3. new.count = e.count + 1
        BY <1>3, <1>4, <3>1, <3>2, Counting
      <3>4. store'[b].count = store[b].count + 1 /\ store'[b].count <= Limit
        BY <1>6, <3>1, <3>2, <3>3 DEF e
      <3> QED BY <1>1, <1>10, <2>3, <3>1, <3>4, Earned
    <2> QED BY <2>2, <2>3
  <1> QED BY <1>10, <1>11, <1>13, <1>14, <1>15, <1>16 DEF LInv

\* What neither time nor an outage takes from a check: the contents of its
\* connection, and its counter while it lives.
Bystanding ==
  /\ UNCHANGED <<owner, chk, spent, admitted>> /\ now' \in Nat /\ now' >= now
  /\ \A c \in Clients : /\ conn'[c] = Nil <=> conn[c] = Nil
                        /\ conn[c] # Nil => /\ conn'[c].commands = conn[c].commands
                                            /\ conn'[c].replies = conn[c].replies
  /\ \A a \in Accounts : /\ store'[a].count \in Nat
                         /\ InTime(a)' => /\ store'[a].count = store[a].count
                                          /\ store[a].ttl # Nil => store'[a].ttl # Nil

LEMMA Bystanders ==
  ASSUME LInv, Bystanding
  PROVE  /\ Held' /\ \A c \in Clients : Clean(c)'
         /\ \A r \in Requests : Sane(r)' /\ Waiting(r)' /\ Counts(r)'
         /\ \A a \in Accounts : Quota(a)'
  <1>1. Held' /\ \A c \in Clients : Clean(c)'
    <2>1. Held'
      <3>1. Held /\ owner' = owner /\ chk' = chk
        BY Types DEF LInv, Bystanding
      <3> QED BY <3>1 DEF Held
    <2>2. ASSUME NEW c \in Clients PROVE Clean(c)'
      BY DEF LInv, Clean, Bystanding
    <2> QED BY <2>1, <2>2
  <1>2. \A a \in Accounts : InTime(a)' => InTime(a)
    <2>1. Window \in Nat /\ now \in Nat /\ now' \in Nat /\ now' >= now /\ \A a \in Accounts : a[3] \in Int
      BY Types, Numbers, AccountFacts DEF LInv, Bystanding
    <2> QED BY <2>1 DEF InTime
  <1>3. ASSUME NEW r \in Requests
        PROVE  Sane(r)' /\ Waiting(r)' /\ Counts(r)' /\ \A a : Earns(r, a)' <=> Earns(r, a)
    <2>1. chk' = chk /\ accountOf(r)' = accountOf(r) /\ CommandOf(r)' = CommandOf(r)
      BY DEF Bystanding, accountOf, CommandOf
    <2>2. chk[r].pc # "idle" => chk[r].client \in Clients /\ accountOf(r) \in Accounts
      BY Own
    <2>3. Sane(r)'
      <3>1. Sane(r) /\ now' >= now /\ now' \in Nat /\ now \in Nat
        BY Types, Numbers DEF LInv, Bystanding
      <3>2. chk[r].pc # "idle" => chk[r].start \in Int
        BY Own
      <3> QED BY <2>1, <3>1, <3>2 DEF Sane
    <2>4. Waiting(r)'
      <3>1. Waiting(r)
        BY DEF LInv
      <3> QED BY <2>1, <2>2, <3>1 DEF Waiting, Bystanding
    <2>5. chk[r].pc = "sent" => conn[chk[r].client] # Nil
      BY Sent
    <2>6. (Heard(r)' <=> Heard(r)) /\ (Heard(r) => ReplyOf(r)' = ReplyOf(r))
      BY <2>1, <2>2, <2>5 DEF Heard, ReplyOf, Bystanding
    <2>7. chk[r].pc # "idle" /\ InTime(accountOf(r))' =>
            /\ InTime(accountOf(r)) /\ store'[accountOf(r)].count = store[accountOf(r)].count
            /\ store[accountOf(r)].ttl # Nil => store'[accountOf(r)].ttl # Nil
      <3> SUFFICES ASSUME NEW a \in Accounts, InTime(a)'
                   PROVE  /\ InTime(a) /\ store'[a].count = store[a].count
                          /\ store[a].ttl # Nil => store'[a].ttl # Nil
        BY <2>1, <2>2
      <3> QED BY <1>2 DEF Bystanding
    <2>8. Counts(r)'
      <3>1. Counts(r) /\ spent' = spent
        BY DEF LInv, Bystanding
      <3>2. Heard(r) => chk[r].pc # "idle"
        BY DEF Heard
      <3> QED BY <2>1, <2>6, <2>7, <3>1, <3>2 DEF Counts
    <2>9. \A a : Earns(r, a)' <=> Earns(r, a)
      BY <2>1, <2>6 DEF Earns
    <2> QED BY <2>3, <2>4, <2>8, <2>9
  <1>4. ASSUME NEW a \in Accounts PROVE Quota(a)'
    <2>1. /\ admitted'[a] = admitted[a] /\ store'[a].count \in Nat /\ store[a].count \in Nat
          /\ InTime(a)' => InTime(a) /\ store'[a].count = store[a].count
      BY <1>2, Types, AccountFacts, Numbers DEF Bystanding, LInv, Entries
    <2>2. InTime(a)' => InTime(a) /\ store'[a].count >= store[a].count
      BY <2>1
    <2> QED BY <1>3, <2>1, <2>2, Kept
  <1> QED BY <1>1, <1>3, <1>4

\* A second passes: a counter that is gone after it was no longer alive.
LEMMA TickStep ==
  ASSUME LInv, Tick
  PROVE  LInv'
  <1>f. /\ store \in [RedisKeys -> Entries] /\ spent \in [Accounts -> 0..MaxCount]
        /\ now \in 0..MaxTime /\ now \in Nat /\ RedisKeys = Accounts
        /\ \A a \in Accounts : a[3] \in Int
    BY Types, Numbers, AccountFacts DEF LInv
  <1>1. /\ now < MaxTime /\ now' = now + 1
        /\ UNCHANGED <<server, conn, owner, backoff, chk, spent, admitted>>
        /\ store' = [k \in RedisKeys |->
              IF store[k].ttl = Nil THEN store[k]
              ELSE IF store[k].ttl = 1 THEN Absent
              ELSE [store[k] EXCEPT !.ttl = @ - 1]]
    BY DEF Tick, Expire, history
  <1>2. ASSUME NEW a \in Accounts
        PROVE  /\ store'[a] \in Entries /\ store'[a].count \in Nat /\ Entry(a)'
               /\ InTime(a)' => /\ store'[a].count = store[a].count
                                /\ store[a].ttl # Nil => store'[a].ttl # Nil
    <2> DEFINE e == store[a]
               f == store'[a]
    <2>1. /\ e \in Entries /\ e.count \in Nat /\ e.count <= spent[a] /\ spent[a] \in Nat
          /\ e.ttl # Nil => e.ttl \in 1..ttlSec /\ now + e.ttl >= a[3] + Window + 1
      BY <1>f, Numbers DEF Entries, LInv, Entry
    <2>2. f = IF e.ttl = Nil THEN e ELSE IF e.ttl = 1 THEN Absent ELSE [e EXCEPT !.ttl = @ - 1]
      BY <1>1, <1>f
    <2>3. spent'[a] = spent[a]
      BY <1>1
    <2> HIDE DEF e, f
    <2>4. CASE e.ttl = Nil
      <3>1. f = e
        BY <2>2, <2>4
      <3> QED BY <2>1, <2>3, <2>4, <3>1 DEF Entry, e, f
    <2>5. CASE e.ttl # Nil /\ e.ttl = 1
      <3>1. f = Absent /\ f.count = 0 /\ f.ttl = Nil /\ f \in Entries
        BY <2>2, <2>5, Numbers DEF Absent, Entries
      <3>2. ~InTime(a)'
        <4>1. now + 1 >= a[3] + Window + 1
          BY <2>1, <2>5
        <4> QED BY <4>1, <1>1, <1>f, Numbers DEF InTime
      <3> QED BY <2>1, <2>3, <3>1, <3>2 DEF Entry, f
    <2>6. CASE e.ttl # Nil /\ e.ttl # 1
      <3>1. e.ttl - 1 \in 1..ttlSec /\ e.ttl \in Nat
        BY <2>1, <2>6, Numbers
      <3>2. f \in Entries /\ f.count = e.count /\ f.ttl = e.ttl - 1
        BY <2>1, <2>2, <2>6, <3>1 DEF Entries
      <3>3. f.ttl # Nil
        BY <3>1, <3>2, AbsentAssumption, Numbers
      <3>4. now' + f.ttl >= a[3] + Window + 1
        <4>1. /\ now' = now + 1 /\ now \in Nat /\ Window \in Nat /\ a[3] \in Int /\ e.ttl \in Nat
              /\ f.ttl = e.ttl - 1 /\ now + e.ttl >= a[3] + Window + 1
          BY <1>1, <1>f, <2>1, <2>6, <3>1, <3>2, Numbers
        <4> QED BY ONLY <4>1
      <3> QED BY <2>1, <2>3, <3>2, <3>3, <3>4 DEF Entry, e, f
    <2> QED BY <2>4, <2>5, <2>6
  <1>3. Bystanding
    <2>1. UNCHANGED <<owner, conn, chk, spent, admitted>> /\ now' \in Nat /\ now' >= now
      BY <1>1, <1>f
    <2>2. \A c \in Clients : conn'[c] = conn[c]
      BY <2>1
    <2> QED BY <1>2, <2>1, <2>2 DEF Bystanding
  <1>4. TypeOK'
    <2>1. store' \in [RedisKeys -> Entries]
      BY <1>1, <1>2, <1>f
    <2>2. now' \in 0..MaxTime
      BY <1>1, <1>f, Numbers
    <2>3. /\ up' \in BOOLEAN /\ outages' \in 0..MaxOutages
          /\ owner' \in [Clients -> Requests \cup {Nil}] /\ backoff' \in [Clients -> BOOLEAN]
          /\ conn' \in [Clients -> Connections \cup {Nil}] /\ chk' \in [Requests -> CheckState]
          /\ spent' \in [Accounts -> 0..MaxCount] /\ admitted' \in [Accounts -> 0..MaxCount]
      BY <1>1, Types DEF LInv, server
    <2> QED BY <2>1, <2>2, <2>3, <1>3, Bystanders DEF TypeOK, Entries, CheckState, Held
  <1> QED BY <1>2, <1>3, <1>4, Bystanders DEF LInv

\* An outage breaks connections, and empties none.
LEMMA EnvironmentStep ==
  ASSUME LInv, Environment
  PROVE  LInv'
  <1>f. /\ conn \in [Clients -> Connections \cup {Nil}] /\ backoff \in [Clients -> BOOLEAN]
        /\ outages \in 0..MaxOutages /\ MaxOutages \in Nat /\ up \in BOOLEAN
        /\ now \in Nat /\ \A a \in Accounts : store[a].count \in Nat
    BY Types, AccountFacts, Numbers DEF LInv, Entries
  <1>1. UNCHANGED <<now, chk, spent, admitted, store, owner>>
    BY DEF Environment, GoDown, GoUp, BackoffOver, history, server
  <1>2. /\ up' \in BOOLEAN /\ outages' \in 0..MaxOutages /\ backoff' \in [Clients -> BOOLEAN]
        /\ conn' \in [Clients -> Connections \cup {Nil}]
        /\ \A c \in Clients : /\ conn'[c] = Nil <=> conn[c] = Nil
                              /\ conn[c] # Nil => /\ conn'[c].commands = conn[c].commands
                                                  /\ conn'[c].replies = conn[c].replies
    <2>1. CASE GoDown
      <3>1. /\ outages < MaxOutages /\ up' = FALSE /\ outages' = outages + 1 /\ backoff' = backoff
            /\ conn' = [c \in Clients |-> IF conn[c] = Nil THEN Nil ELSE [conn[c] EXCEPT !.alive = FALSE]]
        BY <2>1 DEF GoDown
      <3>2. ASSUME NEW c \in Clients
            PROVE  /\ conn'[c] \in Connections \cup {Nil} /\ (conn'[c] = Nil <=> conn[c] = Nil)
                   /\ conn[c] # Nil => /\ conn'[c].commands = conn[c].commands
                                       /\ conn'[c].replies = conn[c].replies
        <4> DEFINE w == conn[c]
                   v == [w EXCEPT !.alive = FALSE]
        <4>1. w \in Connections \cup {Nil} /\ conn'[c] = IF w = Nil THEN Nil ELSE v
          BY <1>f, <3>1
        <4> HIDE DEF w
        <4>2. w \in Connections => v \in Connections /\ v.commands = w.commands /\ v.replies = w.replies
          BY DEF Connections
        <4> HIDE DEF v
        <4> QED BY <4>1, <4>2, AbsentAssumption DEF w
      <3>3. conn' \in [Clients -> Connections \cup {Nil}]
        <4>1. conn' = [c \in Clients |-> conn'[c]]
          BY <3>1
        <4> QED BY <3>2, <4>1
      <3>4. outages' \in 0..MaxOutages
        BY <1>f, <3>1
      <3> QED BY <1>f, <3>1, <3>2, <3>3, <3>4
    <2>2. CASE GoUp
      BY <1>f, <2>2 DEF GoUp
    <2>3. ASSUME NEW c \in Clients, BackoffOver(c)
          PROVE  UNCHANGED <<up, outages, conn>> /\ backoff' \in [Clients -> BOOLEAN]
      BY <1>f, <2>3 DEF BackoffOver, server
    <2> QED BY <1>f, <2>1, <2>2, <2>3 DEF Environment
  <1>3. Bystanding
    BY <1>f, <1>1, <1>2 DEF Bystanding
  <1>4. TypeOK'
    <2>1. /\ now' \in 0..MaxTime /\ store' \in [RedisKeys -> Entries]
          /\ owner' \in [Clients -> Requests \cup {Nil}] /\ chk' \in [Requests -> CheckState]
          /\ spent' \in [Accounts -> 0..MaxCount] /\ admitted' \in [Accounts -> 0..MaxCount]
      BY <1>1, Types DEF LInv
    <2> QED BY <2>1, <1>2, <1>3, Bystanders DEF TypeOK, Entries, CheckState, Held
  <1>5. \A a \in Accounts : Entry(a)'
    BY <1>1 DEF LInv, Entry
  <1> QED BY <1>3, <1>4, <1>5, Bystanders DEF LInv

-----------------------------------------------------------------------------
(* The invariant holds                                                     *)

\* No counter, no check, and connections that are empty.
LEMMA LInvInit == Init => LInv
  <1> SUFFICES ASSUME Init PROVE LInv
    OBVIOUS
  <1>1. /\ up \in BOOLEAN /\ outages = 0 /\ now = 0 /\ store = [k \in RedisKeys |-> Absent]
        /\ owner = [c \in Clients |-> Nil] /\ chk = [r \in Requests |-> Idle]
        /\ spent = [a \in Accounts |-> 0] /\ admitted = [a \in Accounts |-> 0]
    BY DEF Init, RedisInit
  <1>2. PICK open \in [Clients -> BOOLEAN] :
          /\ conn = [c \in Clients |-> IF open[c] THEN Fresh ELSE Nil]
          /\ backoff = [c \in Clients |-> ~open[c]]
    BY DEF Init, RedisInit
  <1>3. /\ backoff \in [Clients -> BOOLEAN] /\ conn \in [Clients -> Connections \cup {Nil}]
        /\ \A c \in Clients : conn[c] = Nil \/ conn[c] = Fresh
    BY <1>2, FreshFacts
  <1>4. Absent \in Entries /\ Absent.count = 0 /\ Absent.ttl = Nil
    BY Numbers DEF Absent, Entries
  <1>5. /\ store \in [RedisKeys -> Entries] /\ chk \in [Requests -> CheckState]
        /\ spent \in [Accounts -> 0..MaxCount] /\ admitted \in [Accounts -> 0..MaxCount]
        /\ outages \in 0..MaxOutages /\ now \in 0..MaxTime
    BY <1>1, <1>4, IdleState, Numbers
  <1>6. Held
    BY <1>1, IdleState, AbsentAssumption DEF Held
  <1>7. TypeOK
    BY <1>1, <1>3, <1>5, <1>6 DEF TypeOK, Entries, CheckState, Held
  <1>8. \A c \in Clients : Clean(c)
    BY <1>3, FreshFacts DEF Clean
  <1>9. ASSUME NEW r \in Requests PROVE Sane(r) /\ Waiting(r) /\ Counts(r) /\ \A a : ~Earns(r, a)
    BY <1>1, IdleState DEF Sane, Waiting, Counts, Heard, Earns
  <1>10. ASSUME NEW a \in Accounts PROVE Entry(a) /\ Quota(a)
    <2>1. store[a] = Absent /\ spent[a] = 0 /\ admitted[a] = 0
      BY <1>1, AccountFacts
    <2>2. Pending(a) = {}
      BY <1>9 DEF Pending
    <2>3. IsFiniteSet(Pending(a)) /\ Cardinality(Pending(a)) = 0
      BY <2>2, FS_EmptySet
    <2> QED BY <1>4, <2>1, <2>3, Numbers DEF Entry, Quota
  <1> QED BY <1>7, <1>8, <1>9, <1>10 DEF LInv

LEMMA LInvStep == LInv /\ [Next]_vars => LInv'
  <1> SUFFICES ASSUME LInv, [Next]_vars PROVE LInv'
    OBVIOUS
  <1>1. CASE Tick
    BY <1>1, TickStep
  <1>2. CASE Environment
    BY <1>2, EnvironmentStep
  <1>3. ASSUME NEW c \in Clients, RedisExecutes(c) \/ RedisRefuses(c) PROVE LInv'
    BY <1>3, ExecuteStep, RefuseStep
  <1>4. ASSUME NEW r \in Requests, TakeMutex(r) \/ UnderMutex(r) PROVE LInv'
    BY <1>4, GivingUp, GoingOn, SetLifeStep, DecideStep DEF TakeMutex, UnderMutex
  <1>5. ASSUME NEW r \in Requests, NEW c \in Clients, NEW q \in Callers, Begin(r, c, q) PROVE LInv'
    BY <1>5, BeginStep
  <1>6. CASE UNCHANGED vars
    <2>1. Bystanding
      BY <1>6, Types, AccountFacts, Numbers DEF LInv, vars, redisVars, Bystanding, InTime, Entries
    <2>2. TypeOK' /\ \A a \in Accounts : Entry(a)'
      BY <1>6 DEF LInv, vars, redisVars, TypeOK, Entry
    <2> QED BY <2>1, <2>2, Bystanders DEF LInv
  <1> QED BY <1>1, <1>2, <1>3, <1>4, <1>5, <1>6 DEF Next

LEMMA Invariance == Spec => []LInv
  <1> QED BY LInvInit, LInvStep, PTL DEF Spec

\* The rate limiter and its client keep their types, and a mutex is held by
\* exactly the check that dials or waits for its reply (respRedis.mu).
THEOREM Typing == Spec => []TypeOK
  <1>1. LInv => TypeOK
    BY DEF LInv
  <1> QED BY <1>1, Invariance, PTL

\* No reply of a command given up is read as the answer to a later one: do
\* drops the connection on every I/O error.
THEOREM NoStrayReply == Spec => []ReplyMatchesCommand
  <1>1. ASSUME LInv PROVE ReplyMatchesCommand
    <2> SUFFICES ASSUME NEW c \in Clients, conn[c] # Nil,
                        NEW m \in {conn[c].commands[i] : i \in DOMAIN conn[c].commands}
                                  \cup {conn[c].replies[i].to : i \in DOMAIN conn[c].replies}
                 PROVE  owner[c] # Nil /\ chk[owner[c]].pc = "sent" /\ m = CommandOf(owner[c])
      BY DEF ReplyMatchesCommand
    <2>1. conn[c].commands # <<>> \/ conn[c].replies # <<>>
      OBVIOUS
    <2>2. owner[c] # Nil
      BY <1>1, <2>1 DEF LInv, Clean
    <2>3. PICK r \in Requests : owner[c] = r
      BY <1>1, <2>2, Types DEF LInv
    <2>4. chk[r].client = c /\ chk[r].pc \in {"dial", "sent"}
      BY <1>1, <2>3, Types DEF LInv, Held
    <2>5. chk[r].pc = "sent"
      BY <1>1, <2>4 DEF LInv, Waiting
    <2>6. \/ conn[c].commands = <<CommandOf(r)>> /\ conn[c].replies = <<>>
          \/ /\ conn[c].commands = <<>> /\ conn[c].replies = <<ReplyOf(r)>>
             /\ ReplyOf(r).to = CommandOf(r)
      BY <1>1, <2>4, <2>5, Sent
    <2>7. m = CommandOf(r)
      BY <2>6
    <2> QED BY <2>2, <2>3, <2>5, <2>7
  <1> QED BY <1>1, Invariance, PTL

\* At most Limit of the requests of an identity that are counted while their
\* counter lives are admitted (Check, over any number of instances).
THEOREM Quotas == Spec => []WindowQuota
  <1>1. ASSUME LInv, NEW a \in Accounts PROVE admitted[a] <= Limit
    <2>1. /\ admitted[a] \in Nat /\ Cardinality(Pending(a)) \in Nat
          /\ admitted[a] + Cardinality(Pending(a)) <= Limit
      BY <1>1, Types, Numbers, FS_CardinalityType DEF LInv, Quota
    <2> QED BY <2>1, Numbers
  <1>2. LInv => WindowQuota
    BY <1>1 DEF WindowQuota
  <1> QED BY <1>2, Invariance, PTL

\* A check that is decided has heard the count it got, or was the first.
LEMMA Decided ==
  ASSUME LInv, NEW r \in Requests, Decide(r)
  PROVE  /\ Heard(r) /\ Counts(r) /\ accountOf(r) \in Accounts /\ chk[r].op \in {"INCR", "EXPIRE"}
         /\ chk[r].pc # "idle" /\ ~NeedsLife(r) /\ spent[accountOf(r)] \in Nat
         /\ accountOf(r)[3] = chk[r].start /\ accountOf(r)[3] \in Int /\ now \in Nat
         /\ ReplyOf(r).value \in Nat
         /\ redisKey(chk[r].caller, chk[r].start) = accountOf(r)
  <1>1. chk[r].pc = "sent" /\ conn[chk[r].client].replies # <<>> /\ ReplyOf(r).ok /\ ~NeedsLife(r)
    BY DEF Decide, Answered, ReadReply
  <1>2. ReplyOf(r) \in Replies
    BY <1>1, Sent
  <1>3. ReplyOf(r).value \in Nat
    BY <1>2, Numbers DEF Replies
  <1>4. /\ accountOf(r) \in Accounts /\ chk[r].op \in {"INCR", "EXPIRE"}
        /\ accountOf(r)[3] = chk[r].start /\ accountOf(r)[3] \in Int
    BY <1>1, Own
  <1>5. spent[accountOf(r)] \in Nat /\ now \in Nat
    BY <1>4, Types, Numbers DEF LInv
  <1> QED BY <1>1, <1>3, <1>4, <1>5, AccountFacts DEF LInv, Heard, accountOf

\* Whoever is refused shares its identity with more requests, counted in the
\* very window, than the limit allows.
THEOREM Refusals == Spec => RefusalEarned
  <1>1. ASSUME LInv, NEW r \in Requests, Decide(r), CountGot(r) > Limit
        PROVE  spent[account(chk[r].caller, chk[r].start)] > Limit
    <2>1. /\ Heard(r) /\ Counts(r) /\ chk[r].op \in {"INCR", "EXPIRE"} /\ chk[r].pc # "idle"
          /\ spent[accountOf(r)] \in Nat /\ ReplyOf(r).value \in Nat
      BY <1>1, Decided
    <2>2. chk[r].op = "INCR" /\ ReplyOf(r).value > Limit
      BY <1>1, <2>1, Numbers DEF CountGot, Counts
    <2>3. ReplyOf(r).value <= spent[accountOf(r)]
      BY <2>1, <2>2 DEF Counts
    <2>4. spent[accountOf(r)] > Limit
      BY <2>1, <2>2, <2>3, Numbers
    <2> QED BY <2>4 DEF accountOf
  <1>2. LInv /\ [Next]_vars =>
          [\A r \in Requests :
             Decide(r) /\ CountGot(r) > Limit => spent[account(chk[r].caller, chk[r].start)] > Limit]_vars
    BY <1>1
  <1> QED BY <1>2, Invariance, PTL DEF Spec, RefusalEarned

\* The check that created a counter is not decided, within the counter's time,
\* before the counter has its life (Check's EXPIRE).
THEOREM Lives == Spec => CreatorSetsLife
  <1>1. ASSUME LInv, NEW r \in Requests, Decide(r), CountGot(r) = 1
        PROVE  \/ store[redisKey(chk[r].caller, chk[r].start)].ttl # Nil
               \/ now > chk[r].start + Window
    <2>1. /\ Heard(r) /\ Counts(r) /\ chk[r].op \in {"INCR", "EXPIRE"} /\ chk[r].pc # "idle" /\ ~NeedsLife(r)
          /\ accountOf(r)[3] = chk[r].start /\ accountOf(r)[3] \in Int /\ now \in Nat
          /\ redisKey(chk[r].caller, chk[r].start) = accountOf(r)
      BY <1>1, Decided
    <2>2. chk[r].op = "EXPIRE"
      BY <1>1, <2>1 DEF CountGot, NeedsLife, Heard
    <2>3. CASE InTime(accountOf(r))
      BY <2>1, <2>2, <2>3 DEF Counts
    <2>4. CASE ~InTime(accountOf(r))
      BY <2>1, <2>4, Numbers DEF InTime
    <2> QED BY <2>3, <2>4
  <1>2. LInv /\ [Next]_vars =>
          [\A r \in Requests :
             Decide(r) /\ CountGot(r) = 1 =>
               \/ store[redisKey(chk[r].caller, chk[r].start)].ttl # Nil
               \/ now > chk[r].start + Window]_vars
    BY <1>1
  <1> QED BY <1>2, Invariance, PTL DEF Spec, CreatorSetsLife

\* Who shares a counter, and who does not get a second one (rateLimitKey and
\* anonymousRateLimitKey), for all identifiers whatever.
THEOREM Allowances == Spec => []AllowancePerCaller
  <1>1. ASSUME NEW p, NEW q, redisKey(p, 0) = redisKey(q, 0)
        PROVE  /\ p.app = q.app /\ p.endpoint = q.endpoint
               /\ \/ p.user # "" /\ p.user = q.user
                  \/ /\ p.user = "" /\ q.user = ""
                     /\ \/ p.device # "" /\ p.device = q.device
                        \/ p.session # "" /\ p.session = q.session
                        \/ clientIP(p) = clientIP(q)
    <2> DEFINE x == IF p.user # "" THEN <<"user", p.user>>
                    ELSE anonymousRateLimitKey(p.device, p.session, clientIP(p))
               y == IF q.user # "" THEN <<"user", q.user>>
                    ELSE anonymousRateLimitKey(q.device, q.session, clientIP(q))
    <2>1. p.app = q.app /\ p.endpoint = q.endpoint /\ x = y
      BY <1>1 DEF redisKey, rateLimitKey
    <2>2. x[1] = y[1] /\ x[2] = y[2]
      BY <2>1
    <2>3. CASE p.user # ""
      BY <2>1, <2>2, <2>3 DEF anonymousRateLimitKey
    <2>4. CASE p.user = ""
      BY <2>1, <2>2, <2>4 DEF anonymousRateLimitKey
    <2> QED BY <2>3, <2>4
  <1>2. ASSUME NEW p, NEW q, p.app = q.app, p.endpoint = q.endpoint,
               \/ p.user # "" /\ p.user = q.user
               \/ p.user = "" /\ q.user = "" /\ p.device # "" /\ p.device = q.device
        PROVE  redisKey(p, 0) = redisKey(q, 0)
    BY <1>2 DEF redisKey, rateLimitKey, anonymousRateLimitKey
  <1>3. AllowancePerCaller
    <2> SUFFICES ASSUME NEW p \in Everyone, NEW q \in Everyone
                 PROVE  LET shared == redisKey(p, 0) = redisKey(q, 0)
                            addressed == p.app = q.app /\ p.endpoint = q.endpoint
                            common(a, b) == a # "" /\ a = b
                            anonymous == p.user = "" /\ q.user = ""
                        IN /\ shared => /\ addressed
                                        /\ \/ common(p.user, q.user)
                                           \/ /\ anonymous
                                              /\ \/ common(p.device, q.device) \/ common(p.session, q.session)
                                                 \/ clientIP(p) = clientIP(q)
                           /\ addressed /\ (common(p.user, q.user) \/ (anonymous /\ common(p.device, q.device))) => shared
      BY DEF AllowancePerCaller
    <2>1. ASSUME redisKey(p, 0) = redisKey(q, 0)
          PROVE  /\ p.app = q.app /\ p.endpoint = q.endpoint
                 /\ \/ p.user # "" /\ p.user = q.user
                    \/ /\ p.user = "" /\ q.user = ""
                       /\ \/ p.device # "" /\ p.device = q.device
                          \/ p.session # "" /\ p.session = q.session
                          \/ clientIP(p) = clientIP(q)
      BY <1>1, <2>1
    <2>2. ASSUME p.app = q.app, p.endpoint = q.endpoint,
                 \/ p.user # "" /\ p.user = q.user
                 \/ p.user = "" /\ q.user = "" /\ p.device # "" /\ p.device = q.device
          PROVE  redisKey(p, 0) = redisKey(q, 0)
      BY <1>2, <2>2
    <2> QED BY <2>1, <2>2
  <1> QED BY <1>3, PTL
=============================================================================
