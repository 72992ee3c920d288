----------------------------- MODULE CacheWarm -----------------------------
(***************************************************************************)
(* Cache warming at startup (startup/cacheWarm.js): warmCacheInBackground  *)
(* with its Redis lock, and warmCache with its pool of workers, the        *)
(* timeout of each fetch and the one over all of them.                     *)
(*                                                                         *)
(* A process warms once, so the lock's owner is its instance.              *)
(***************************************************************************)
EXTENDS Naturals, FiniteSets

CONSTANTS
  Instance,        \* replicas that start
  Watched,         \* config.watchedAssets
  Queried,         \* assets getQueriedAssets may add
  MaxEntries,      \* CACHE_WARM_MAX_ENTRIES
  Concurrency,     \* CACHE_WARM_CONCURRENCY
  Nobody,          \* no owner
  MaxWarmFaults    \* bound: failed commands

ASSUME WarmConfig ==
  /\ Nobody \notin Instance /\ IsFiniteSet(Watched) /\ IsFiniteSet(Queried)
  /\ MaxEntries \in Nat \ {0} /\ Concurrency \in Nat \ {0}
  /\ MaxWarmFaults \in Nat

VARIABLES
  warmLock,     \* cache:warm:lock
  warm,         \* the warming of each instance
  unguarded,    \* history: instances that warm without the lock, or lost it
  late,         \* history: instances that lost it between GET and DEL
  warmFaults

warmVars == <<warmLock, warm, unguarded, late, warmFaults>>

NotStarted == [state |-> "idle", pc |-> "lock", queue |-> {}, flying |-> {}, done |-> 0, good |-> 0,
               aborted |-> FALSE, total |-> 0, summary |-> 0]

WarmInit ==
  /\ warmLock = Nobody
  /\ warm = [i \in Instance |-> NotStarted]
  /\ unguarded = {} /\ late = {}
  /\ warmFaults = 0

WarmFault == warmFaults < MaxWarmFaults /\ warmFaults' = warmFaults + 1
NoWarmFault == UNCHANGED warmFaults

-----------------------------------------------------------------------------

\* warmCacheInBackground: disabled, or SET NX PX; an error warms without the lock.
TakeWarmLock(i) ==
  /\ warm[i].pc = "lock"
  /\ \/ /\ warm' = [warm EXCEPT ![i].pc = "done", ![i].state = "disabled"]
        /\ UNCHANGED <<warmLock, unguarded, warmFaults>>
     \/ /\ warmLock # Nobody /\ NoWarmFault
        /\ warm' = [warm EXCEPT ![i].pc = "done", ![i].state = "locked"]
        /\ UNCHANGED <<warmLock, unguarded>>
     \/ /\ warm' = [warm EXCEPT ![i].pc = "collect", ![i].state = "running"]
        /\ \/ warmLock = Nobody /\ warmLock' = i /\ UNCHANGED unguarded /\ NoWarmFault
           \/ /\ WarmFault /\ unguarded' = unguarded \cup {i}
              /\ warmLock' \in {warmLock} \cup (IF warmLock = Nobody THEN {i} ELSE {})
  /\ UNCHANGED late

\* collectAssets: the watched assets, then the queried ones (none when that
\* read fails), cut off at maxEntries.
CollectAssets(i) ==
  /\ warm[i].pc = "collect"
  /\ \E q \in SUBSET Queried, chosen \in SUBSET (Watched \cup Queried) :
       LET all == Watched \cup q
       IN  /\ chosen \subseteq all
           /\ Cardinality(chosen) = (IF Cardinality(all) > MaxEntries THEN MaxEntries
                                     ELSE Cardinality(all))
           /\ chosen \subseteq Watched \/ Watched \subseteq chosen
           /\ warm' = [warm EXCEPT ![i].queue = chosen, ![i].total = Cardinality(chosen),
                                   ![i].pc = IF chosen = {} THEN "get" ELSE "pool",
                                   ![i].state = IF chosen = {} THEN "completed" ELSE "running"]
  /\ UNCHANGED <<warmLock, unguarded, late, warmFaults>>

StartFetch_AnyNumber(i) ==
  /\ \E a \in warm[i].queue :
       warm' = [warm EXCEPT ![i].queue = @ \ {a}, ![i].flying = @ \cup {a}]
  /\ UNCHANGED <<warmLock, unguarded, late, warmFaults>>

\* runWarmPool: one of the workers takes an asset; after the abort it only
\* counts it as rejected.
StartFetch(i) ==
  /\ Cardinality(warm[i].flying) < Concurrency
  /\ \E a \in warm[i].queue :
       warm' = [warm EXCEPT ![i].queue = @ \ {a},
                            ![i].flying = IF warm[i].aborted THEN @ ELSE @ \cup {a},
                            ![i].done = IF warm[i].aborted THEN @ + 1 ELSE @]
  /\ UNCHANGED <<warmLock, unguarded, late, warmFaults>>

\* A fetch succeeds, fails, or is cut off by its own timeout.
FetchEnds(i) ==
  /\ \E a \in warm[i].flying, n \in {0, 1} :
       warm' = [warm EXCEPT ![i].flying = @ \ {a}, ![i].done = @ + 1, ![i].good = @ + n]
  /\ UNCHANGED <<warmLock, unguarded, late, warmFaults>>

\* Every worker is through, in time: results are complete.
PoolEnds(i) ==
  /\ warm[i].pc = "pool" /\ warm[i].queue = {} /\ warm[i].flying = {}
  /\ warm' = [warm EXCEPT ![i].pc = "get", ![i].state = "completed", ![i].summary = warm[i].good]
  /\ UNCHANGED <<warmLock, unguarded, late, warmFaults>>

\* The overall timeout: results is filled only when the whole pool is through,
\* so the summary counts no success.
WarmTimesOut(i) ==
  /\ warm[i].pc = "pool"
  /\ warm' = [warm EXCEPT ![i].pc = "get", ![i].state = "completed", ![i].aborted = TRUE,
                          ![i].summary = 0]
  /\ UNCHANGED <<warmLock, unguarded, late, warmFaults>>

\* releaseLock: GET and compare, then DEL.
WarmLockGet_NoCompare(i) ==
  /\ warm[i].pc = "get"
  /\ warm' = [warm EXCEPT ![i].pc = "del"]
  /\ UNCHANGED <<warmLock, unguarded, late, warmFaults>>

WarmLockGet(i) ==
  /\ warm[i].pc = "get"
  /\ \/ /\ warm' = [warm EXCEPT ![i].pc = IF warmLock = i THEN "del" ELSE "done"]
        /\ NoWarmFault
     \/ warm' = [warm EXCEPT ![i].pc = "done"] /\ WarmFault
  /\ UNCHANGED <<warmLock, unguarded, late>>

WarmLockDel(i) ==
  /\ warm[i].pc = "del"
  /\ \/ warmLock' = Nobody /\ NoWarmFault
     \/ warmLock' \in {warmLock, Nobody} /\ WarmFault
  /\ LET victim == IF i \in late /\ warmLock' # warmLock THEN {warmLock} \ {i} ELSE {}
     IN  unguarded' = unguarded \cup victim /\ late' = late \cup victim
  /\ warm' = [warm EXCEPT ![i].pc = "done"]

\* The lock's TTL runs out.
WarmLockExpires ==
  /\ warmLock # Nobody
  /\ warmLock' = Nobody
  /\ unguarded' = unguarded \cup {warmLock}
  /\ late' = late \cup {i \in Instance : warm[i].pc = "del"}
  /\ UNCHANGED <<warm, warmFaults>>

WarmNext ==
  \/ \E i \in Instance :
       \/ TakeWarmLock(i) \/ CollectAssets(i) \/ StartFetch(i) \/ FetchEnds(i) \/ PoolEnds(i)
       \/ WarmTimesOut(i) \/ WarmLockGet(i) \/ WarmLockDel(i)
  \/ WarmLockExpires

-----------------------------------------------------------------------------

\* Only one replica warms at a time: one that is warming, and whose lock neither
\* ran out nor was lost to a slow release, still holds the lock.
WarmsAlone ==
  \A i \in Instance : warm[i].state = "running" /\ i \notin unguarded => warmLock = i

\* The pool keeps to its width, also while it winds up after the timeout, and
\* a summary that was given in time accounts for every asset.
PoolBounded ==
  \A i \in Instance : LET w == warm[i] IN
    /\ Cardinality(w.flying) <= Concurrency
    /\ w.done + Cardinality(w.flying) + Cardinality(w.queue) = w.total
    /\ w.state = "completed" /\ ~w.aborted => w.done = w.total /\ w.summary = w.good

\* One replica at a time warms the cache, within its pool.
WarmUpSafe == WarmsAlone /\ PoolBounded

=============================================================================
