----------------------------- MODULE RespRedis -----------------------------
(***************************************************************************)
(* The Redis client of the rate limiter (redis_resp.go), with the server   *)
(* it talks to. Every middleware instance has a client of its own, with    *)
(* one connection and a mutex that is held over the dial and the round     *)
(* trip of one command, and released between commands.                     *)
(*                                                                         *)
(* A connection carries the commands the server has not executed yet and   *)
(* the replies the client has not read yet. A deadline, a cancelled        *)
(* request or a lost peer is an I/O error that may come at any moment; a   *)
(* command whose connection is dropped has been executed by then or never  *)
(* is. The redial backoff is a flag that time clears.                      *)
(*                                                                         *)
(* The callers give the actions below their continuation: this module says *)
(* what happens to conn, owner, backoff, store and up.                     *)
(***************************************************************************)
EXTENDS Integers, Sequences

CONSTANTS
  Nil,          \* the absent value
  Requests,     \* concurrent requests
  Clients,      \* the clients, one per middleware instance
  RedisKeys,    \* the keys in use
  MaxCount,     \* counters stop here: the limiter tells no greater ones apart
  MaxOutages    \* bound on the number of outages

ASSUME MaxOutagesAssumption == MaxOutages \in Nat
ASSUME MaxCountAssumption == MaxCount \in Nat \ {0}

VARIABLES
  up,         \* external: is Redis reachable?
  outages,    \* external: outages so far
  store,      \* external: [count, ttl] of every key, count 0 when absent
  conn,       \* r.conn of a client, Nil or [alive, commands, replies]
  owner,      \* the holder of r.mu
  backoff     \* is now before r.retryAt?

server == <<up, outages>>
redisVars == <<up, outages, store, conn, owner, backoff>>

Absent == [count |-> 0, ttl |-> Nil]
Fresh == [alive |-> TRUE, commands |-> <<>>, replies |-> <<>>]

\* A command names its sender; a reply repeats the command.
Command(r, op, key, seconds) == [from |-> r, op |-> op, key |-> key, seconds |-> seconds]

Commands == [from : Requests, op : {"INCR", "EXPIRE"}, key : RedisKeys, seconds : Nat]
Replies == [to : Commands, ok : BOOLEAN, value : 0..MaxCount]
Connections == [alive : BOOLEAN, commands : Seq(Commands), replies : Seq(Replies)]

ASSUME AbsentAssumption == Nil \notin Requests /\ Nil \notin Nat /\ Nil \notin Connections

\* dialRedis: an unreachable server at startup is no error.
RedisInit ==
  /\ up \in BOOLEAN /\ outages = 0
  /\ store = [k \in RedisKeys |-> Absent]
  /\ \E open \in [Clients -> BOOLEAN] :
       /\ \A c \in Clients : open[c] => up
       /\ conn = [c \in Clients |-> IF open[c] THEN Fresh ELSE Nil]
       /\ backoff = [c \in Clients |-> ~open[c]]
  /\ owner = [c \in Clients |-> Nil]

-----------------------------------------------------------------------------
(* The server                                                              *)

\* An outage breaks every connection. The counters survive it.
GoDown ==
  /\ up /\ outages < MaxOutages
  /\ up' = FALSE /\ outages' = outages + 1
  /\ conn' = [c \in Clients |-> IF conn[c] = Nil THEN Nil ELSE [conn[c] EXCEPT !.alive = FALSE]]
  /\ UNCHANGED <<store, owner, backoff>>

GoUp ==
  /\ ~up /\ up' = TRUE
  /\ UNCHANGED <<outages, store, conn, owner, backoff>>

Counted(n) == IF n < MaxCount THEN n + 1 ELSE n

\* INCR keeps the key's time to live and creates a missing key without one;
\* EXPIRE of a missing key does nothing.
apply(cmd, entry) ==
  IF cmd.op = "INCR" THEN [entry EXCEPT !.count = Counted(@)]
  ELSE IF entry = Absent THEN entry
  ELSE [entry EXCEPT !.ttl = cmd.seconds]

\* The next command of a connection is executed, or refused with an error
\* reply ("-ERR ..."), which changes nothing.
Answering(c) ==
  /\ conn[c] # Nil /\ conn[c].alive /\ conn[c].commands # <<>>

Execute(c) ==
  /\ Answering(c)
  /\ LET cmd == Head(conn[c].commands)
         new == apply(cmd, store[cmd.key])
         value == IF cmd.op = "INCR" THEN new.count ELSE IF new = Absent THEN 0 ELSE 1
     IN /\ store' = [store EXCEPT ![cmd.key] = new]
        /\ conn' = [conn EXCEPT ![c].commands = Tail(@),
                                ![c].replies = Append(@, [to |-> cmd, ok |-> TRUE, value |-> value])]
  /\ UNCHANGED <<server, owner, backoff>>

RefuseCommand(c) ==
  /\ Answering(c)
  /\ conn' = [conn EXCEPT ![c].commands = Tail(@),
                          ![c].replies = Append(@, [to |-> Head(conn[c].commands), ok |-> FALSE, value |-> 0])]
  /\ UNCHANGED <<server, store, owner, backoff>>

\* Every key is a second older.
Expire ==
  store' = [k \in RedisKeys |->
              IF store[k].ttl = Nil THEN store[k]
              ELSE IF store[k].ttl = 1 THEN Absent
              ELSE [store[k] EXCEPT !.ttl = @ - 1]]

-----------------------------------------------------------------------------
(* do, connect and roundTrip of the client c                               *)

Lock(c, r) == owner[c] = Nil /\ owner' = [owner EXCEPT ![c] = r]
Unlock(c, r) == owner[c] = r /\ owner' = [owner EXCEPT ![c] = Nil]

\* A command is written to the open connection.
Write(c, r, cmd) ==
  /\ Lock(c, r) /\ conn[c] # Nil
  /\ conn' = [conn EXCEPT ![c].commands = Append(@, cmd)]
  /\ UNCHANGED <<server, store, backoff>>

\* Without a connection, and within the backoff, do fails at once.
Unavailable(c) ==
  /\ owner[c] = Nil /\ conn[c] = Nil /\ backoff[c]
  /\ UNCHANGED redisVars

StartDial(c, r) ==
  /\ Lock(c, r) /\ conn[c] = Nil /\ ~backoff[c]
  /\ UNCHANGED <<server, store, conn, backoff>>

\* Dial and handshake succeed and the command is written.
Dialled(c, r, cmd) ==
  /\ up /\ owner[c] = r
  /\ conn' = [conn EXCEPT ![c] = [Fresh EXCEPT !.commands = <<cmd>>]]
  /\ UNCHANGED <<server, store, owner, backoff>>

\* The dial, the TLS or the AUTH/SELECT/PING handshake fails: the connection
\* is dropped and the backoff begins.
DialFailed(c, r) ==
  /\ Unlock(c, r)
  /\ conn' = [conn EXCEPT ![c] = Nil]
  /\ backoff' = [backoff EXCEPT ![c] = TRUE]
  /\ UNCHANGED <<server, store>>

\* The reply at the head of the connection is read. An error reply leaves the
\* connection in use.
ReadReply(c, r) ==
  /\ Unlock(c, r) /\ conn[c] # Nil /\ conn[c].replies # <<>>
  /\ conn' = [conn EXCEPT ![c].replies = Tail(@)]
  /\ UNCHANGED <<server, store, backoff>>

\* Mutant: only the buffers of a connection whose peer is gone are reset.
BrokenKept(c, r) ==
  /\ Unlock(c, r)
  /\ conn' = [conn EXCEPT ![c] = IF @.alive THEN Nil ELSE [Fresh EXCEPT !.alive = FALSE]]
  /\ UNCHANGED <<server, store, backoff>>

\* Mutant: the connection is kept after a deadline, while its peer is there.
BrokenWhenDead(c, r) ==
  /\ Unlock(c, r)
  /\ conn' = [conn EXCEPT ![c] = IF @.alive THEN @ ELSE Nil]
  /\ UNCHANGED <<server, store, backoff>>

\* Mutant: the mutex is not released on an I/O error.
BrokenLocked(c, r) ==
  /\ owner[c] = r
  /\ conn' = [conn EXCEPT ![c] = Nil]
  /\ UNCHANGED <<server, store, owner, backoff>>

\* An I/O error drops the connection; the command is not sent again.
Broken(c, r) ==
  /\ Unlock(c, r)
  /\ conn' = [conn EXCEPT ![c] = Nil]
  /\ UNCHANGED <<server, store, backoff>>

BackoffOver(c) ==
  /\ backoff[c] /\ backoff' = [backoff EXCEPT ![c] = FALSE]
  /\ UNCHANGED <<server, store, conn, owner>>
=============================================================================
