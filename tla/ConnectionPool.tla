--------------------------- MODULE ConnectionPool ---------------------------
(***************************************************************************)
(* The shared connection pool (database/index.js: getDb, closeDb,          *)
(* withConnection, streamQuery) and the monitor attached to it             *)
(* (database/poolMonitor.js).                                              *)
(*                                                                         *)
(* Knex and its pool are external: a pool hands out at most PoolMax        *)
(* connections, hands out none once it is being destroyed, and its         *)
(* destruction waits for those in use and for pending requests, which      *)
(* time out.  Left out: the counters of created and destroyed connections, *)
(* durations, and the log lines about a pool that is nearly full.          *)
(***************************************************************************)
EXTENDS Integers, FiniteSets

CONSTANTS
  Borrower,      \* calls of withConnection and streamQuery
  Closer,        \* calls of closeDb
  PoolMax,       \* pool.max
  NoPool,        \* null
  MaxPools,      \* bound: pools created
  MaxRequests    \* bound: connections asked for

ASSUME PoolConfig ==
  /\ PoolMax \in Nat \ {0} /\ MaxPools \in Nat /\ MaxRequests \in Nat
  /\ NoPool \notin Nat /\ IsFiniteSet(Borrower)

VARIABLES
  db,           \* the shared instance
  pools,        \* how many were created; they are numbered
  open,         \* pools not destroyed
  used,         \* connections each pool has handed out
  borrower,     \* where each call is, and the instance it read before its await
  closer,       \* the instance each closeDb is destroying
  watched,      \* the monitor's _pool
  timers,       \* its _pendingAcquireTimers, by the call that waits
  counters,     \* its counters
  requested,    \* history: connections asked for
  forgotten,    \* history: pending requests and uses dropped by a detach
  closesMet     \* history: two closeDb were under way at once

monitorVars == <<watched, timers, counters, forgotten>>
poolVars == <<db, pools, open, used, borrower, closer, monitorVars, requested, closesMet>>

NotBorrowing == [pc |-> "idle", pool |-> NoPool]
Destroying == {closer[c] : c \in Closer} \ {NoPool}
At(pc, p) == {u \in Borrower : borrower[u] = [pc |-> pc, pool |-> p]}

PoolInit ==
  /\ db = NoPool /\ pools = 0 /\ open = {}
  /\ used = [p \in 1 .. MaxPools |-> 0]
  /\ borrower = [u \in Borrower |-> NotBorrowing]
  /\ closer = [c \in Closer |-> NoPool]
  /\ watched = NoPool /\ timers = {}
  /\ counters = [requests |-> 0, successes |-> 0, failures |-> 0, releases |-> 0]
  /\ requested = 0 /\ forgotten = [waits |-> 0, uses |-> 0] /\ closesMet = FALSE

-----------------------------------------------------------------------------
(* The monitor *)

\* What detach drops: the listeners, so that the pool's later events go unseen,
\* and the timers of the requests that still wait.
Dropped == [waits |-> forgotten.waits + Cardinality(timers),
            uses |-> forgotten.uses + Cardinality(At("using", watched))]

Detached_KeepsTimers == timers

Detached == {}

detach ==
  /\ watched' = NoPool /\ timers' = Detached /\ forgotten' = Dropped
  /\ UNCHANGED counters

\* A new pool is watched in place of the one before, from which attach detaches.
attach(p) == watched' = p /\ forgotten' = Dropped

\* The listeners of the pool's events, which hear the watched pool alone.
acquireRequest(u, seen, before) ==
  /\ timers' = IF seen THEN before \cup {u} ELSE before
  /\ counters' = IF seen THEN [counters EXCEPT !.requests = @ + 1] ELSE counters

Heard(u, p, counted) ==
  /\ counters' = IF watched = p THEN counted ELSE counters
  /\ timers' = IF watched = p THEN timers \ {u} ELSE timers
  /\ UNCHANGED <<watched, forgotten>>

-----------------------------------------------------------------------------
(* Connections *)

\* withConnection up to its await, on the instance there is.
withConnection(u) ==
  /\ borrower[u].pc = "idle" /\ db # NoPool /\ requested < MaxRequests
  /\ borrower' = [borrower EXCEPT ![u] = [pc |-> "acquiring", pool |-> db]]
  /\ requested' = requested + 1
  /\ acquireRequest(u, watched = db, timers)
  /\ UNCHANGED <<db, pools, open, used, closer, watched, forgotten, closesMet>>

\* The same when getDb has to create the instance.
getDb(u) ==
  /\ borrower[u].pc = "idle" /\ db = NoPool
  /\ pools < MaxPools /\ requested < MaxRequests
  /\ pools' = pools + 1 /\ db' = pools' /\ open' = open \cup {pools'}
  /\ borrower' = [borrower EXCEPT ![u] = [pc |-> "acquiring", pool |-> pools']]
  /\ requested' = requested + 1
  /\ attach(pools')
  /\ acquireRequest(u, TRUE, Detached)
  /\ UNCHANGED <<used, closer, closesMet>>

acquireSuccess(u) ==
  LET p == borrower[u].pool IN
  /\ borrower[u].pc = "acquiring" /\ p \notin Destroying /\ used[p] < PoolMax
  /\ borrower' = [borrower EXCEPT ![u].pc = "using"]
  /\ used' = [used EXCEPT ![p] = @ + 1]
  /\ Heard(u, p, [counters EXCEPT !.successes = @ + 1])
  /\ UNCHANGED <<db, pools, open, closer, requested, closesMet>>

\* The request timed out, or no connection could be made.
acquireFail(u) ==
  /\ borrower[u].pc = "acquiring"
  /\ borrower' = [borrower EXCEPT ![u] = NotBorrowing]
  /\ Heard(u, borrower[u].pool, [counters EXCEPT !.failures = @ + 1])
  /\ UNCHANGED <<db, pools, open, used, closer, requested, closesMet>>

\* The instance the connection is given back to: the one read before the await.
ReturnsTo_Shared(u) == db

ReturnsTo(u) == borrower[u].pool

\* The callback returned or threw, or the last row was read: finally.
releaseConnection(u) ==
  LET p == ReturnsTo(u) IN
  /\ borrower[u].pc = "using"
  /\ borrower' = [borrower EXCEPT ![u] = NotBorrowing]
  /\ used' = IF p = NoPool THEN used ELSE [used EXCEPT ![p] = @ - 1]
  /\ Heard(u, p, [counters EXCEPT !.releases = @ + 1])
  /\ UNCHANGED <<db, pools, open, closer, requested, closesMet>>

-----------------------------------------------------------------------------
(* closeDb *)

\* Up to the await of db.destroy().
closeDb(c) ==
  /\ closer[c] = NoPool /\ db # NoPool
  /\ detach
  /\ closer' = [closer EXCEPT ![c] = db]
  /\ closesMet' = (closesMet \/ Destroying # {})
  /\ UNCHANGED <<db, pools, open, used, borrower, requested>>

\* Its destruction waited for the calls on it; then db is null, whatever it is by now.
DestroyEnds(c) ==
  LET p == closer[c] IN
  /\ p # NoPool /\ At("using", p) = {} /\ At("acquiring", p) = {}
  /\ closer' = [closer EXCEPT ![c] = NoPool]
  /\ open' = open \ {p} /\ db' = NoPool
  /\ UNCHANGED <<pools, used, borrower, monitorVars, requested, closesMet>>

PoolNext ==
  \/ \E u \in Borrower : \/ withConnection(u) \/ getDb(u) \/ acquireSuccess(u)
                         \/ acquireFail(u) \/ releaseConnection(u)
  \/ \E c \in Closer : closeDb(c) \/ DestroyEnds(c)

-----------------------------------------------------------------------------

\* Every connection handed out is in the hands of a call and goes back to its own
\* pool, and no pool is left open that nobody would close, unless two closeDb
\* overlapped: the second then forgets an instance created after the first.
ConnectionsReturned ==
  /\ \A p \in 1 .. pools : used[p] = Cardinality(At("using", p))
  /\ closesMet \/ open \subseteq {db} \cup Destroying

\* The monitor watches the shared instance until closeDb lets go of it, has a
\* timer for exactly the requests that wait there, and has counted each request
\* and each use until its end or until it was detached.
MonitorExact ==
  /\ db \in open \ Destroying => watched = db
  /\ timers = IF watched = NoPool THEN {} ELSE At("acquiring", watched)
  /\ counters.requests = counters.successes + counters.failures
                         + Cardinality(timers) + forgotten.waits
  /\ counters.successes = counters.releases + Cardinality(At("using", watched)) + forgotten.uses

PoolAccounted == ConnectionsReturned /\ MonitorExact

=============================================================================
