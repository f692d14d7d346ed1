---------------------------- MODULE RateLimiter ----------------------------
(***************************************************************************)
(* The fixed-window rate limiter (ratelimit.go) on the Redis client, with  *)
(* the identity a request is counted under (policy.go, plugin.go and       *)
(* helpers.go). A tick of the clock is a second, and gateway and Redis     *)
(* share it. Requests of several middleware instances run Check            *)
(* concurrently; a check may take any time.                                *)
(*                                                                         *)
(* A caller is [app, user, device, session, forwarded, realIP, remote,     *)
(* endpoint] with "" for what is absent; forwarded is the sequence of      *)
(* addresses in X-Forwarded-For.                                           *)
(***************************************************************************)
EXTENDS RespRedis

CONSTANTS
  Callers,    \* the callers, with the endpoints they call
  Everyone,   \* more of them, for what concerns their identity alone
  Limit,      \* requests per window
  Window,     \* its length in seconds
  MaxTime     \* bound on the clock

ASSUME LimitAssumption == Limit \in Nat \ {0} /\ MaxCount > Limit
ASSUME WindowAssumption == Window \in Nat \ {0}
ASSUME MaxTimeAssumption == MaxTime \in Nat

VARIABLES
  now,        \* the clock
  chk,        \* the checks under way: stage and local variables
  spent,      \* history: INCRs executed per account
  admitted    \* history: admissions per account whose INCR came in time

vars == <<redisVars, now, chk, spent, admitted>>

-----------------------------------------------------------------------------
(* Identity                                                                *)

\* The first address of X-Forwarded-For, X-Real-IP or the peer's.
clientIP(q) ==
  LET given == {i \in DOMAIN q.forwarded : q.forwarded[i] # ""}
  IN IF given # {} THEN q.forwarded[CHOOSE i \in given : \A j \in given : i <= j]
     ELSE IF q.realIP # "" THEN q.realIP
     ELSE q.remote

anonymousRateLimitKey(device, session, ip) ==
  IF device # "" THEN <<"device", device>>
  ELSE IF session # "" THEN <<"session", session>>
  ELSE IF ip # "" THEN <<"ip", ip>>
  ELSE <<"anon", "unknown">>

\* Mutant: the application is not part of the identity.
rateLimitKeyGlobal(q) ==
  <<"", IF q.user # "" THEN <<"user", q.user>>
        ELSE anonymousRateLimitKey(q.device, q.session, clientIP(q))>>

rateLimitKey(q) ==
  <<q.app, IF q.user # "" THEN <<"user", q.user>>
           ELSE anonymousRateLimitKey(q.device, q.session, clientIP(q))>>

windowStart(t) == t - (t % Window)

Starts == {windowStart(t) : t \in 0..MaxTime}

\* Mutant: the window is not part of the key.
redisKeyForever(q, start) == <<rateLimitKey(q), q.endpoint, 0>>

redisKey(q, start) == <<rateLimitKey(q), q.endpoint, start>>

KeysOfCallers == {redisKey(q, s) : q \in Callers, s \in Starts}

ASSUME KeysAssumption == RedisKeys = KeysOfCallers

\* Mutant: the counter lives as long as the window.
ttlSecWindow == Window

\* The counter outlives the window by a second.
ttlSec == Window + 1

-----------------------------------------------------------------------------

Idle == [pc |-> "idle", client |-> Nil, caller |-> Nil, start |-> 0, op |-> Nil, count |-> 0, timely |-> FALSE]

\* What the quota is for: one identity on one endpoint in one window.
account(q, start) == <<rateLimitKey(q), q.endpoint, start>>
Accounts == {account(q, s) : q \in Callers, s \in Starts}

TypeOK ==
  /\ up \in BOOLEAN /\ outages \in 0..MaxOutages /\ now \in 0..MaxTime
  /\ store \in [RedisKeys -> [count : 0..MaxCount, ttl : 1..ttlSec \cup {Nil}]]
  /\ owner \in [Clients -> Requests \cup {Nil}] /\ backoff \in [Clients -> BOOLEAN]
  /\ conn \in [Clients -> Connections \cup {Nil}]
  /\ chk \in [Requests -> [pc      : {"idle", "do", "dial", "sent"},
                           client  : Clients \cup {Nil},
                           caller  : Callers \cup {Nil},
                           start   : Starts,
                           op      : {Nil, "INCR", "EXPIRE"},
                           count   : 0..MaxCount,
                           timely  : BOOLEAN]]
  /\ \A c \in Clients, r \in Requests :
       owner[c] = r <=> chk[r].client = c /\ chk[r].pc \in {"dial", "sent"}
  /\ spent \in [Accounts -> 0..MaxCount]
  /\ admitted \in [Accounts -> 0..MaxCount]

Init ==
  /\ RedisInit
  /\ now = 0
  /\ chk = [r \in Requests |-> Idle]
  /\ spent = [a \in Accounts |-> 0]
  /\ admitted = [a \in Accounts |-> 0]

Become(r, c) == chk' = [chk EXCEPT ![r] = c]
history == <<spent, admitted>>

\* The command a check is at.
CommandOf(r) ==
  Command(r, chk[r].op, redisKey(chk[r].caller, chk[r].start), IF chk[r].op = "EXPIRE" THEN ttlSec ELSE 0)

\* Check begins: the window is that of this moment.
Begin(r, c, q) ==
  /\ chk[r].pc = "idle"
  /\ Become(r, [Idle EXCEPT !.pc = "do", !.client = c, !.caller = q,
                                 !.start = windowStart(now), !.op = "INCR"])
  /\ UNCHANGED <<redisVars, now, history>>

\* The caller of a check that failed lets the request pass.
Error(r) == Become(r, Idle)

Send(r) ==
  /\ chk[r].pc = "do" /\ Write(chk[r].client, r, CommandOf(r))
  /\ Become(r, [chk[r] EXCEPT !.pc = "sent"])
  /\ UNCHANGED <<now, history>>

FailFast(r) ==
  /\ chk[r].pc = "do" /\ Unavailable(chk[r].client)
  /\ Error(r)
  /\ UNCHANGED <<now, history>>

Dial(r) ==
  /\ chk[r].pc = "do" /\ StartDial(chk[r].client, r)
  /\ Become(r, [chk[r] EXCEPT !.pc = "dial"])
  /\ UNCHANGED <<now, history>>

DialSucceeds(r) ==
  /\ chk[r].pc = "dial" /\ Dialled(chk[r].client, r, CommandOf(r))
  /\ Become(r, [chk[r] EXCEPT !.pc = "sent"])
  /\ UNCHANGED <<now, history>>

\* Mutant: the command is tried again after the backoff.
DialFailsRetry(r) ==
  /\ chk[r].pc = "dial" /\ DialFailed(chk[r].client, r)
  /\ Become(r, [chk[r] EXCEPT !.pc = "do"])
  /\ UNCHANGED <<now, history>>

DialFails(r) ==
  /\ chk[r].pc = "dial" /\ DialFailed(chk[r].client, r)
  /\ Error(r)
  /\ UNCHANGED <<now, history>>

IOError(r) ==
  /\ chk[r].pc = "sent" /\ Broken(chk[r].client, r)
  /\ Error(r)
  /\ UNCHANGED <<now, history>>

\* Redis executes the next command of a client, an INCR in time or too late
\* for the life of its counter.
RedisExecutes(c) ==
  /\ Execute(c)
  /\ LET cmd == Head(conn[c].commands)
         p == chk[cmd.from]
     IN IF cmd.op = "INCR"
        THEN /\ Become(cmd.from, [p EXCEPT !.timely = now < p.start + Window + 1])
             /\ spent' = [spent EXCEPT ![account(p.caller, p.start)] = Counted(@)]
        ELSE UNCHANGED <<chk, spent>>
  /\ UNCHANGED <<now, admitted>>

RedisRefuses(c) ==
  /\ RefuseCommand(c)
  /\ UNCHANGED <<now, chk, history>>

ReplyOf(r) == Head(conn[chk[r].client].replies)

\* The count a check has got, once it has read the reply it waits for.
CountGot(r) == IF chk[r].op = "INCR" THEN ReplyOf(r).value ELSE chk[r].count

\* Mutant: the counter is given its life on the second request.
NeedsLifeLate(r) == ReplyOf(r).ok /\ chk[r].op = "INCR" /\ ReplyOf(r).value = 2

\* The first request of a window has to give the counter its life.
NeedsLife(r) == ReplyOf(r).ok /\ chk[r].op = "INCR" /\ ReplyOf(r).value = 1

Answered(r) == chk[r].pc = "sent" /\ ReadReply(chk[r].client, r)

\* It does so with a second command, for which it needs the mutex again.
SetLife(r) ==
  /\ Answered(r) /\ NeedsLife(r)
  /\ Become(r, [chk[r] EXCEPT !.pc = "do", !.op = "EXPIRE", !.count = ReplyOf(r).value])
  /\ UNCHANGED <<now, history>>

\* The check is decided by the count it got.
Decide(r) ==
  LET a == account(chk[r].caller, chk[r].start)
  IN /\ Answered(r) /\ ReplyOf(r).ok /\ ~NeedsLife(r)
     /\ admitted' = IF CountGot(r) <= Limit /\ chk[r].timely THEN [admitted EXCEPT ![a] = Counted(@)] ELSE admitted
     /\ Become(r, Idle)
     /\ UNCHANGED <<now, spent>>

ErrorReply(r) ==
  /\ Answered(r) /\ ~ReplyOf(r).ok
  /\ Error(r)
  /\ UNCHANGED <<now, history>>

Tick ==
  /\ now < MaxTime /\ now' = now + 1
  /\ Expire
  /\ UNCHANGED <<server, conn, owner, backoff, chk, history>>

Environment ==
  /\ GoDown \/ GoUp \/ \E c \in Clients : BackoffOver(c)
  /\ UNCHANGED <<now, chk, history>>

-----------------------------------------------------------------------------

TakeMutex(r) == Send(r) \/ FailFast(r) \/ Dial(r)

UnderMutex(r) ==
  DialSucceeds(r) \/ DialFails(r) \/ IOError(r) \/ SetLife(r) \/ Decide(r) \/ ErrorReply(r)

Next ==
  \/ Tick \/ Environment
  \/ \E c \in Clients : RedisExecutes(c) \/ RedisRefuses(c)
  \/ \E r \in Requests :
       \/ TakeMutex(r) \/ UnderMutex(r)
       \/ \E c \in Clients, q \in Callers : Begin(r, c, q)

\* Calls end (every dial and command has a deadline), a mutex is handed on to
\* whoever waits, requests keep coming and the backoff passes. A server that
\* stays up accepts some dials, executes some commands and is heard in time.
Fairness ==
  /\ \A r \in Requests : WF_vars(UnderMutex(r)) /\ SF_vars(TakeMutex(r))
  /\ WF_vars(\E r \in Requests, c \in Clients, q \in Callers : Begin(r, c, q))
  /\ WF_vars((\E c \in Clients : BackoffOver(c)) /\ UNCHANGED <<now, chk, history>>)
  /\ SF_vars(\E r \in Requests : DialSucceeds(r))
  /\ SF_vars(\E c \in Clients : RedisExecutes(c))
  /\ SF_vars(\E r \in Requests : SetLife(r))
  /\ SF_vars(\E r \in Requests : Decide(r))

Spec == Init /\ [][Next]_vars /\ Fairness

-----------------------------------------------------------------------------
(* Properties                                                              *)

\* WindowQuota: however the checks of a window interleave over clients, fail
\* and dawdle, at most Limit of those counted while the counter lives are
\* admitted, of all callers with one identity together: it outlives every such
\* request (Check's extra second), and none is counted twice as the first.
WindowQuota == \A a \in Accounts : admitted[a] <= Limit

\* RefusalEarned: a request is refused only if those who share its identity were
\* counted beyond the limit in its own window, and not for a counter that an
\* earlier window left behind without a life because its EXPIRE failed.
RefusalEarned ==
  [][\A r \in Requests :
       Decide(r) /\ CountGot(r) > Limit => spent[account(chk[r].caller, chk[r].start)] > Limit]_vars

\* AllowancePerCaller: callers share a counter only on one application and
\* endpoint and if they are one user or, anonymous, have an identifier in
\* common; and a user, or a device (config.go, DeviceIDHeader: reset-resistant),
\* does not get a second counter by another session or address. (Evaluated
\* before the first check: it is about identities alone.)
AllowancePerCaller ==
  now = 0 /\ chk = [r \in Requests |-> Idle] /\ spent = [a \in Accounts |-> 0] =>
  \A p, q \in Everyone :
    LET shared == redisKey(p, 0) = redisKey(q, 0)
        addressed == p.app = q.app /\ p.endpoint = q.endpoint
        common(a, b) == a # "" /\ a = b
        anonymous == p.user = "" /\ q.user = ""
    IN /\ shared => /\ addressed
                    /\ \/ common(p.user, q.user)
                       \/ /\ anonymous
                          /\ \/ common(p.device, q.device) \/ common(p.session, q.session)
                             \/ clientIP(p) = clientIP(q)
       /\ addressed /\ (common(p.user, q.user) \/ (anonymous /\ common(p.device, q.device))) => shared

\* ReplyMatchesCommand: what waits on a connection belongs to the command of the
\* request that holds the mutex: no reply of a command given up is ever read
\* as the answer to the next one (do drops the connection on I/O errors).
ReplyMatchesCommand ==
  \A c \in Clients : conn[c] # Nil =>
    \A m \in {conn[c].commands[i] : i \in DOMAIN conn[c].commands}
             \cup {conn[c].replies[i].to : i \in DOMAIN conn[c].replies} :
      owner[c] # Nil /\ chk[owner[c]].pc = "sent" /\ m = CommandOf(owner[c])

\* CreatorSetsLife: when the check that created a counter is decided, the
\* counter has a time to live, so that only a check that failed leaves one
\* behind for good. (A check that dawdles beyond the second after its window may
\* find its counter gone, and another one created by a check as late.)
CreatorSetsLife ==
  [][\A r \in Requests :
       Decide(r) /\ CountGot(r) = 1 =>
         \/ store[redisKey(chk[r].caller, chk[r].start)].ttl # Nil
         \/ now > chk[r].start + Window]_vars

\* EveryCheckEnds: no request waits for ever, for the mutex, a dial or a reply.
EveryCheckEnds == \A r \in Requests : []<>(chk[r].pc = "idle")

\* Recovers: once Redis stays up, checks are decided again, and again: clients
\* get rid of the connections the outage broke and redial after the backoff.
Recovers == <>[]up => []<><<\E r \in Requests : Decide(r)>>_vars
=============================================================================
