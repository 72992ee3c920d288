------------------------------ MODULE Stampede ------------------------------
(***************************************************************************)
(* One cache key behind fetchWithLock (cache/stampede.js): the single      *)
(* flight of each process, the Redis lock between processes, the wait for  *)
(* somebody else's value, and the background refresh of a stale one.       *)
(*                                                                         *)
(* A Redis command or the fetcher is one step.  Each acquireLock makes a   *)
(* new UUID: here a token that nobody holds.                               *)
(***************************************************************************)
EXTENDS Naturals, FiniteSets

CONSTANTS
  Node,          \* processes; a node's flight is named by the node
  Request,       \* calls of fetchWithLock
  Refresher,     \* runs of triggerBackgroundRefresh, on any process
  Token,         \* UUIDs
  NoToken,       \* null
  MaxKeyFaults   \* bound: failed commands, failed fetches and crashes

ASSUME StampedeConfig ==
  /\ Cardinality(Token) > Cardinality(Node \cup Refresher)
  /\ NoToken \notin Token /\ Node \cap Refresher = {}
  /\ MaxKeyFaults \in Nat

VARIABLES
  entry,      \* the cached value: none, fresh, or stale (its expiresAt passed)
  lock,       \* lock:<key>
  request,    \* each call: its place and its process
  worker,     \* each flight and each background refresh
  lost,       \* history: tokens that no longer stand for the lock, or never did
  down,       \* processes that crashed
  keyFaults

keyVars == <<entry, lock, request, worker, lost, down, keyFaults>>

Worker == Node \cup Refresher
Free == [pc |-> "none", token |-> NoToken]

StampedeInit ==
  /\ entry \in {"none", "stale"}
  /\ lock = NoToken
  /\ request = [r \in Request |-> [pc |-> "new", at |-> NoToken]]
  /\ worker = [w \in Worker |-> Free]
  /\ lost = {} /\ down = {}
  /\ keyFaults = 0

KeyFault == keyFaults < MaxKeyFaults /\ keyFaults' = keyFaults + 1
AllWell == UNCHANGED keyFaults

At(w, pc) == worker[w].pc = pc
GoesTo(w, pc) == worker' = [worker EXCEPT ![w].pc = pc]

\* The flight's promise settles: _inFlight forgets it, its callers go on.
Settle(w) ==
  /\ worker' = [worker EXCEPT ![w] = Free]
  /\ request' = [r \in Request |-> IF request[r].pc = "wait" /\ request[r].at = w
                                   THEN [request[r] EXCEPT !.pc = "done"] ELSE request[r]]
  /\ lost' = lost \ {worker[w].token}

-----------------------------------------------------------------------------
(* Callers *)

\* A refresh in the background: it locks, fetches and stores like a flight.
triggerBackgroundRefresh == \E b \in Refresher : At(b, "none") /\ GoesTo(b, "acquire")

\* The first look into the cache: a value answers, and a stale one also starts a
\* refresh in the background (when that is asked for); otherwise, or when the
\* GET fails, the call joins the process's flight or starts it.
Fetch(r, n) ==
  /\ request[r].pc = "new" /\ n \notin down
  /\ \/ /\ entry # "none" /\ AllWell
        /\ request' = [request EXCEPT ![r] = [pc |-> "done", at |-> n]]
        /\ \/ entry = "stale" /\ triggerBackgroundRefresh
           \/ UNCHANGED worker
     \/ /\ \/ entry = "none" /\ AllWell
           \/ KeyFault
        /\ request' = [request EXCEPT ![r] = [pc |-> "wait", at |-> n]]
        /\ IF At(n, "none") THEN GoesTo(n, "recheck") ELSE UNCHANGED worker
  /\ UNCHANGED <<entry, lock, lost, down>>

-----------------------------------------------------------------------------
(* The flight *)

\* A look into the cache, before the lock and on every poll.
Look(n) ==
  /\ n \in Node /\ worker[n].pc \in {"recheck", "poll"}
  /\ \/ entry # "none" /\ Settle(n) /\ AllWell
     \/ /\ \/ entry = "none" /\ AllWell
           \/ KeyFault
        /\ GoesTo(n, "acquire")
        /\ UNCHANGED <<request, lost>>
  /\ UNCHANGED <<entry, lock, down>>

\* acquireLock: SET NX PX; a Redis error hands out a token all the same.  Without
\* the token a flight sleeps and a background refresh gives up.
acquireLock(w) ==
  /\ At(w, "acquire")
  /\ \/ \E t \in Token \ ({lock} \cup {worker[v].token : v \in Worker} \cup lost) :
          /\ worker' = [worker EXCEPT ![w] = [pc |-> "fetch", token |-> t]]
          /\ UNCHANGED request
          /\ \/ lock = NoToken /\ lock' = t /\ AllWell /\ UNCHANGED lost
             \/ lock' \in {lock} \cup (IF lock = NoToken THEN {t} ELSE {})
                  /\ lost' = lost \cup ({t} \ {lock'}) /\ KeyFault
     \/ /\ lock # NoToken /\ AllWell /\ UNCHANGED lock
        /\ IF w \in Node THEN GoesTo(w, "asleep") /\ UNCHANGED <<request, lost>>
           ELSE Settle(w)
  /\ UNCHANGED <<entry, down>>

WakeUp_KeepsPolling(n) ==
  /\ n \in Node /\ At(n, "asleep")
  /\ GoesTo(n, "poll")
  /\ UNCHANGED <<entry, lock, request, lost, down, keyFaults>>

\* The sleep ends; after lockTimeoutMs the flight stops polling and fetches
\* without the lock.
WakeUp(n) ==
  /\ n \in Node /\ At(n, "asleep")
  /\ \/ GoesTo(n, "poll")
     \/ GoesTo(n, "fetch")
  /\ UNCHANGED <<entry, lock, request, lost, down, keyFaults>>

\* The fetcher answers or throws.
Fetched(w) ==
  /\ At(w, "fetch")
  /\ \/ GoesTo(w, "store") /\ AllWell
     \/ GoesTo(w, "release") /\ KeyFault
  /\ UNCHANGED <<entry, lock, request, lost, down>>

Store(w) ==
  /\ At(w, "store")
  /\ \/ entry' = "fresh" /\ AllWell
     \/ entry' \in {entry, "fresh"} /\ KeyFault
  /\ GoesTo(w, "release")
  /\ UNCHANGED <<lock, request, lost, down>>

releaseLock_Unconditional(w) ==
  /\ At(w, "release")
  /\ lock' = NoToken
  /\ Settle(w)
  /\ UNCHANGED <<entry, down, keyFaults>>

\* releaseLock: compare and delete in one script, in the finally block.
releaseLock(w) ==
  /\ At(w, "release")
  /\ \/ lock' = (IF lock = worker[w].token THEN NoToken ELSE lock) /\ AllWell
     \/ UNCHANGED lock /\ worker[w].token # NoToken /\ KeyFault
  /\ Settle(w)
  /\ UNCHANGED <<entry, down>>

-----------------------------------------------------------------------------
(* Time and crashes *)

LockExpires ==
  /\ lock # NoToken
  /\ lock' = NoToken
  /\ lost' = lost \cup ({lock} \cap {worker[w].token : w \in Worker})
  /\ UNCHANGED <<entry, request, worker, down, keyFaults>>

EntryAges ==
  /\ entry # "none"
  /\ entry' \in {"stale", "none"} \ {entry}
  /\ UNCHANGED <<lock, request, worker, lost, down, keyFaults>>

\* A process dies with its flight and its callers; its lock stays.
NodeCrashes(n) ==
  /\ n \notin down /\ KeyFault
  /\ down' = down \cup {n}
  /\ worker' = [worker EXCEPT ![n] = Free]
  /\ lost' = lost \ {worker[n].token}
  /\ request' = [r \in Request |-> IF request[r].pc = "wait" /\ request[r].at = n
                                   THEN [request[r] EXCEPT !.pc = "cut"] ELSE request[r]]
  /\ UNCHANGED <<entry, lock>>

WorkerStep(w) ==
  \/ Look(w) \/ acquireLock(w) \/ WakeUp(w) \/ Fetched(w) \/ Store(w) \/ releaseLock(w)

StampedeNext ==
  \/ \E r \in Request, n \in Node : Fetch(r, n)
  \/ \E w \in Worker : WorkerStep(w)
  \/ \E n \in Node : NodeCrashes(n)
  \/ LockExpires \/ EntryAges

-----------------------------------------------------------------------------

\* A worker whose token was neither outlived by the lock's TTL nor handed out
\* without Redis still holds the lock: nobody else's release takes it away, so
\* at most one such worker refreshes the key.
LockKept ==
  \A w \in Worker : worker[w].token \notin lost \cup {NoToken} => lock = worker[w].token

\* Every call on a living process is answered, even when the lock's holder
\* crashed with the lock taken and nothing in the cache.
FetchAnswered ==
  \A r \in Request : request[r].pc = "wait" ~> request[r].pc \in {"done", "cut"}

=============================================================================
