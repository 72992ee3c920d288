----------------------------- MODULE RedisClient -----------------------------
(***************************************************************************)
(* The shared Redis client (services/cache.js) and the semaphore that      *)
(* limits its commands in flight (utils/semaphore.js).                     *)
(*                                                                         *)
(* An operation is one call of get, mget, set, del or delMany.             *)
(***************************************************************************)
EXTENDS Naturals, Sequences, FiniteSets

CONSTANTS
  Operation,        \* calls
  MaxConcurrentOps, \* REDIS_MAX_CONCURRENT_OPS
  MaxClients        \* bound: clients created

ASSUME RedisConfig ==
  /\ IsFiniteSet(Operation)
  /\ MaxConcurrentOps \in Nat \ {0} /\ MaxClients \in Nat \ {0}

VARIABLES
  current,       \* Semaphore._current
  waiters,       \* Semaphore._queue
  operation,     \* where each call is, and the client its command went to
  status,        \* the status of each client ever created
  handle,        \* the module's client, 0 for null
  quitting,      \* disconnect() awaits this client's quit(), 0 for none
  grantedLate    \* history: calls given a permit after they had timed out

redisVars == <<current, waiters, operation, status, handle, quitting, grantedLate>>

NoOperation == [pc |-> "idle", via |-> 0]

RedisInit ==
  /\ current = 0 /\ waiters = <<>>
  /\ operation = [o \in Operation |-> NoOperation]
  /\ status = <<>> /\ handle = 0 /\ quitting = 0
  /\ grantedLate = {}

\* acquire(5000): a permit at once, or a place in the queue.
Acquire(o) ==
  /\ operation[o].pc = "idle"
  /\ IF current < MaxConcurrentOps
     THEN /\ current' = current + 1 /\ UNCHANGED waiters
          /\ operation' = [operation EXCEPT ![o].pc = "permitted"]
     ELSE /\ waiters' = Append(waiters, o) /\ UNCHANGED current
          /\ operation' = [operation EXCEPT ![o].pc = "waiting"]
  /\ UNCHANGED <<status, handle, quitting, grantedLate>>

\* splice(i, 1): the sequence without its i-th element.
Splice(seq, i) == [j \in 1 .. Len(seq) - 1 |-> IF j < i THEN seq[j] ELSE seq[j + 1]]

\* The timer of a waiter: it leaves the queue and the call rejects.
WaiterTimesOut_StaysQueued(o) ==
  /\ operation[o].pc = "waiting"
  /\ operation' = [operation EXCEPT ![o] = [NoOperation EXCEPT !.pc = "rejected"]]
  /\ UNCHANGED <<current, waiters, status, handle, quitting, grantedLate>>

WaiterTimesOut(o) ==
  /\ operation[o].pc = "waiting"
  /\ \E i \in DOMAIN waiters : waiters[i] = o /\ waiters' = Splice(waiters, i)
  /\ operation' = [operation EXCEPT ![o] = [NoOperation EXCEPT !.pc = "rejected"]]
  /\ UNCHANGED <<current, status, handle, quitting, grantedLate>>

\* getClient: a client that ended is left for a new one; then the command is issued.
Issue(o) ==
  LET stale == handle = 0 \/ status[handle] = "end" IN
  /\ operation[o].pc = "permitted"
  /\ stale => Len(status) < MaxClients
  /\ status' = IF stale THEN Append(status, "connecting") ELSE status
  /\ handle' = IF stale THEN Len(status) + 1 ELSE handle
  /\ operation' = [operation EXCEPT ![o] = [pc |-> "issued", via |-> handle']]
  /\ UNCHANGED <<current, waiters, quitting, grantedLate>>

\* The command is answered (on a ready client), times out or rejects; finally,
\* _release hands the permit to the longest waiter.
Settle(o) ==
  /\ operation[o].pc = "issued"
  /\ IF waiters = <<>>
     THEN /\ current' = current - 1 /\ UNCHANGED <<waiters, grantedLate>>
          /\ operation' = [operation EXCEPT ![o] = NoOperation]
     ELSE LET next == Head(waiters) IN
          /\ waiters' = Tail(waiters) /\ UNCHANGED current
          /\ grantedLate' = IF operation[next].pc = "waiting" THEN grantedLate ELSE grantedLate \cup {next}
          /\ operation' = [operation EXCEPT ![o] = NoOperation,
                                            ![next].pc = IF @ = "waiting" THEN "permitted" ELSE @]
  /\ UNCHANGED <<status, handle, quitting>>

\* A rejected call is through, and may come again.
CallAgain(o) ==
  /\ operation[o].pc = "rejected"
  /\ operation' = [operation EXCEPT ![o] = NoOperation]
  /\ UNCHANGED <<current, waiters, status, handle, quitting, grantedLate>>

-----------------------------------------------------------------------------

\* ioredis: a client connects, loses its connection and tries again, and ends
\* when retryStrategy gives up or quit() was answered.
ClientMoves(c) ==
  /\ \/ status[c] = "connecting" /\ status' = [status EXCEPT ![c] = "ready"]
     \/ status[c] = "ready" /\ status' = [status EXCEPT ![c] = "connecting"]
     \/ status[c] = "connecting" /\ status' = [status EXCEPT ![c] = "end"]
     \/ quitting = c /\ status[c] # "end" /\ status' = [status EXCEPT ![c] = "end"]
  /\ UNCHANGED <<current, waiters, operation, handle, quitting, grantedLate>>

\* disconnect: quit(), and when that is answered the handle is dropped, whatever
\* client it holds by then.
Disconnect ==
  /\ handle # 0 /\ quitting = 0 /\ quitting' = handle
  /\ UNCHANGED <<current, waiters, operation, status, handle, grantedLate>>

Disconnected ==
  /\ quitting # 0 /\ quitting' = 0 /\ handle' = 0
  /\ UNCHANGED <<current, waiters, operation, status, grantedLate>>

RedisNext ==
  \/ \E o \in Operation : Acquire(o) \/ WaiterTimesOut(o) \/ Issue(o) \/ Settle(o) \/ CallAgain(o)
  \/ \E c \in DOMAIN status : ClientMoves(c)
  \/ Disconnect \/ Disconnected

-----------------------------------------------------------------------------

\* Permits are exact through time-outs, hand-overs and reconnections: as many as
\* calls hold, nobody waits while one is free, none goes to a call that has
\* already given up, and the waiters are the calls that wait.
PermitsExact ==
  /\ current = Cardinality({o \in Operation : operation[o].pc \in {"permitted", "issued"}})
  /\ current <= MaxConcurrentOps
  /\ waiters # <<>> => current = MaxConcurrentOps
  /\ grantedLate = {}
  /\ {waiters[i] : i \in DOMAIN waiters} = {o \in Operation : operation[o].pc = "waiting"}

=============================================================================
