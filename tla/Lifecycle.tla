------------------------------ MODULE Lifecycle ------------------------------
(***************************************************************************)
(* The life of a process: startServer and the signal handlers of index.js, *)
(* the shutdown they begin, and the indexer's polling loop that a shutdown *)
(* has to wait for (indexer/eventPoller.js).                               *)
(*                                                                         *)
(* Every signal and every unhandled rejection begins a shutdown of its     *)
(* own, and they interleave at their awaits.  What a poll stores is in     *)
(* EventIndexer; here it has a part before its writes and a part with      *)
(* them.  Left out: how long the poller waits between polls.               *)
(***************************************************************************)
EXTENDS Naturals, Sequences

CONSTANTS
  Shutdown,          \* shutdowns that may be under way at once
  MaxLifecycleFaults \* bound: rejections of the disconnection

ASSUME LifecycleConfig == MaxLifecycleFaults \in Nat

VARIABLES
  boot,         \* "down", "hydrating" or "up" (listening, services started)
  running,      \* wrapped jobs, poller and queue that are started
  indexerPoll,  \* "none", "timer" set, or in flight: "reading", "writing"
  request,      \* an HTTP request is being answered
  accepting,    \* the server takes connections
  shutdown,     \* where each shutdown is
  lateStart,    \* history: services were started after a shutdown had passed by them
  cut,          \* history: what the last exit cut off
  lifecycleFaults

processVars == <<boot, running, accepting, lateStart, cut>>
lifecycleVars == <<processVars, indexerPoll, request, shutdown, lifecycleFaults>>

Jobs == <<"price_refresh", "webhook_retry", "airdrop_expiry">>
Service == {Jobs[i] : i \in DOMAIN Jobs} \cup {"indexer", "queue"}
InFlight == {"reading", "writing"}

NothingCut == [poll |-> FALSE, services |-> {}, request |-> FALSE, waited |-> FALSE]

LifecycleInit ==
  /\ boot = "down" /\ running = {} /\ accepting = FALSE
  /\ lateStart = FALSE /\ cut = NothingCut
  /\ indexerPoll = "none" /\ request = FALSE
  /\ shutdown = [s \in Shutdown |-> "none"]
  /\ lifecycleFaults = 0

-----------------------------------------------------------------------------
(* Boot *)

Spawn ==
  /\ boot = "down" /\ boot' = "hydrating"
  /\ lateStart' = FALSE /\ cut' = NothingCut
  /\ UNCHANGED <<running, accepting, indexerPoll, request, shutdown, lifecycleFaults>>

\* startServer: the delivery counters are loaded, or not (DeliveryMetrics); then
\* app.listen and, in its callback, every service starts.  The indexer polls at
\* once.
startServer ==
  /\ boot = "hydrating"
  /\ boot' = "up" /\ accepting' = TRUE
  /\ running' = Service
  /\ indexerPoll' = "reading"
  /\ lateStart' = (\E s \in Shutdown : shutdown[s] \notin {"none", Jobs[1]})
  /\ UNCHANGED <<cut, request, shutdown, lifecycleFaults>>

-----------------------------------------------------------------------------
(* The indexer's loop *)

\* scheduleNext: no timer once the poller was stopped.
Scheduled == IF "indexer" \in running THEN "timer" ELSE "none"

TimerFires ==
  /\ indexerPoll = "timer" /\ indexerPoll' = "reading"
  /\ UNCHANGED <<processVars, request, shutdown, lifecycleFaults>>

PollWrites ==
  /\ indexerPoll = "reading" /\ indexerPoll' = "writing"
  /\ UNCHANGED <<processVars, request, shutdown, lifecycleFaults>>

\* The poll succeeds, is skipped or fails, at any point; its finally block
\* schedules the next one.
PollSettles ==
  /\ indexerPoll \in InFlight
  /\ indexerPoll' = Scheduled
  /\ UNCHANGED <<processVars, request, shutdown, lifecycleFaults>>

-----------------------------------------------------------------------------
(* Requests *)

RequestArrives ==
  /\ accepting /\ ~request /\ request' = TRUE
  /\ UNCHANGED <<processVars, indexerPoll, shutdown, lifecycleFaults>>

RequestAnswered ==
  /\ request /\ request' = FALSE
  /\ UNCHANGED <<processVars, indexerPoll, shutdown, lifecycleFaults>>

-----------------------------------------------------------------------------
(* Shutdown *)

\* Signals, and errors nobody handled, at any moment of the process; the first
\* thing a shutdown does is to stop taking connections.
Signal(s) ==
  /\ boot # "down" /\ shutdown[s] = "none"
  /\ accepting' = FALSE
  /\ shutdown' = [shutdown EXCEPT ![s] = Jobs[1]]
  /\ UNCHANGED <<boot, running, lateStart, cut, indexerPoll, request, lifecycleFaults>>

\* Each wrapped job in turn is stopped and awaited.
StopJob(s) ==
  \E i \in DOMAIN Jobs :
    /\ shutdown[s] = Jobs[i]
    /\ running' = running \ {Jobs[i]}
    /\ shutdown' = [shutdown EXCEPT ![s] = IF i = Len(Jobs) THEN "indexer" ELSE Jobs[i + 1]]
    /\ UNCHANGED <<boot, accepting, lateStart, cut, indexerPoll, request, lifecycleFaults>>

\* EventPoller.stop: no further poll, and the one in flight is awaited.
stop_NotAwaited(s) ==
  /\ shutdown[s] = "indexer"
  /\ running' = running \ {"indexer"}
  /\ indexerPoll' = IF indexerPoll = "timer" THEN "none" ELSE indexerPoll
  /\ shutdown' = [shutdown EXCEPT ![s] = "queue"]
  /\ UNCHANGED <<boot, accepting, lateStart, cut, request, lifecycleFaults>>

stop(s) ==
  /\ shutdown[s] = "indexer"
  /\ running' = running \ {"indexer"}
  /\ indexerPoll' = IF indexerPoll = "timer" THEN "none" ELSE indexerPoll
  /\ shutdown' = [shutdown EXCEPT ![s] = IF indexerPoll \in InFlight THEN "inFlight" ELSE "queue"]
  /\ UNCHANGED <<boot, accepting, lateStart, cut, request, lifecycleFaults>>

PollAwaited(s) ==
  /\ shutdown[s] = "inFlight" /\ indexerPoll \notin InFlight
  /\ shutdown' = [shutdown EXCEPT ![s] = "queue"]
  /\ UNCHANGED <<processVars, indexerPoll, request, lifecycleFaults>>

\* jobQueue.stop, then the WebSockets are drained (PriceSubscriptions).
StopJobQueue(s) ==
  /\ shutdown[s] = "queue"
  /\ running' = running \ {"queue"}
  /\ shutdown' = [shutdown EXCEPT ![s] = "close"]
  /\ UNCHANGED <<boot, accepting, lateStart, cut, indexerPoll, request, lifecycleFaults>>

\* server.close with a callback, for at most ten seconds; a server that did not
\* listen when the shutdown began is closed here.
AwaitClose(s) ==
  /\ shutdown[s] = "close"
  /\ accepting' = FALSE
  /\ shutdown' = [shutdown EXCEPT ![s] = "closing"]
  /\ UNCHANGED <<boot, running, lateStart, cut, indexerPoll, request, lifecycleFaults>>

Closed(s) ==
  /\ shutdown[s] = "closing"
  /\ \/ ~request /\ cut' = cut
     \/ request /\ cut' = [cut EXCEPT !.waited = TRUE]
  /\ shutdown' = [shutdown EXCEPT ![s] = "disconnect"]
  /\ UNCHANGED <<boot, running, accepting, lateStart, indexerPoll, request, lifecycleFaults>>

\* cache.disconnect, then process.exit(0).
ProcessExits(s) ==
  /\ shutdown[s] = "disconnect"
  /\ boot' = "down" /\ accepting' = FALSE /\ running' = {}
  /\ cut' = [cut EXCEPT !.poll = indexerPoll = "writing", !.services = running, !.request = request]
  /\ indexerPoll' = "none" /\ request' = FALSE
  /\ shutdown' = [t \in Shutdown |-> "none"]
  /\ UNCHANGED <<lateStart, lifecycleFaults>>

\* quit() rejects: the rejection is unhandled and begins another shutdown.
DisconnectRejects(s) ==
  /\ shutdown[s] = "disconnect"
  /\ lifecycleFaults < MaxLifecycleFaults /\ lifecycleFaults' = lifecycleFaults + 1
  /\ accepting' = FALSE
  /\ shutdown' = [shutdown EXCEPT ![s] = Jobs[1]]
  /\ UNCHANGED <<boot, running, lateStart, cut, indexerPoll, request>>

ShutdownStep(s) ==
  \/ Signal(s) \/ StopJob(s) \/ stop(s) \/ PollAwaited(s) \/ StopJobQueue(s)
  \/ AwaitClose(s) \/ Closed(s) \/ ProcessExits(s) \/ DisconnectRejects(s)

LifecycleNext ==
  \/ Spawn \/ startServer
  \/ TimerFires \/ PollWrites \/ PollSettles
  \/ RequestArrives \/ RequestAnswered
  \/ \E s \in Shutdown : ShutdownStep(s)

-----------------------------------------------------------------------------

\* Whatever signals and failures overlap, a process that exits has no poll in
\* its writes and no service running, unless a signal came while the counters
\* were being loaded and the services were started behind the shutdown's back;
\* and it cuts off a request only when the ten seconds had passed.
ShutdownClean ==
  /\ (cut.poll \/ cut.services # {}) => lateStart
  /\ cut.request => cut.waited \/ lateStart

=============================================================================
