--------------------------- MODULE LeaderElection ---------------------------
(***************************************************************************)
(* services/leaderElection.js and jobs/leaderAwareJob.js: one Redis lease  *)
(* per background job, and the wrapper that starts and stops the job with  *)
(* it, on every replica of the service.                                    *)
(*                                                                         *)
(* Time is discrete.  Timers fire at the earliest when due and at the      *)
(* latest Lag ticks after (event-loop delay); a Redis command is answered  *)
(* or rejected within CommandTimeoutMs of being sent (ioredis              *)
(* commandTimeout), plus the same Lag.  Tick waits for whatever is due.    *)
(*                                                                         *)
(* A command has three observable points: sent, executed by Redis, settled *)
(* in the instance.  It may fail before or after Redis executed it (reply  *)
(* lost).  Commands of one instance execute in the order sent (one         *)
(* connection).  A rejected command executing even later is not modelled:  *)
(* it leaves the same lease-without-leader that a lost reply leaves.       *)
(* index.js calls start() once per process, so a stopped instance comes    *)
(* back only as a new process (Boot).                                      *)
(***************************************************************************)
EXTENDS Integers

CONSTANTS
  Instance,          \* replicas, named by config.leaderElection.instanceId
  None,              \* the lease key is absent
  LeaseTtlMs,        \* PX of the lease
  RenewIntervalMs,   \* setInterval of the renewal loop
  CheckIntervalMs,   \* setInterval of the wrapper's checkLeader
  CommandTimeoutMs,  \* ioredis commandTimeout
  Lag,               \* bound on event-loop delay
  MaxDisturbances    \* bound on crashes, shutdowns and command failures

\* A command settles before the next renewal timer, and a leader that fails
\* to renew has noticed and stopped its job before its lease can lapse.  The
\* defaults (15000, 5000, 2000, 3000) satisfy it for Lag below 1666 ms.
ASSUME LeaseTiming ==
  /\ None \notin Instance
  /\ LeaseTtlMs \in Nat /\ RenewIntervalMs \in Nat \ {0}
  /\ CheckIntervalMs \in Nat \ {0} /\ CommandTimeoutMs \in Nat \ {0}
  /\ Lag \in Nat /\ MaxDisturbances \in Nat
  /\ CommandTimeoutMs + Lag < RenewIntervalMs
  /\ RenewIntervalMs + CommandTimeoutMs + CheckIntervalMs + 3 * Lag < LeaseTtlMs

RenewDeadline == RenewIntervalMs + Lag

CommandDeadline == CommandTimeoutMs + Lag

CheckDeadline == CheckIntervalMs + Lag

VARIABLES
  holder, ttl,   \* Redis: value and remaining time of leader:<job>
  mode,          \* down, running (renewTimer set), stopping, stopped
  leader,        \* the election's `leader` flag
  cycle,         \* runElectionCycle's command and how far it has got
  release,       \* release()'s command and how far it has got
  wasLeader,     \* checkLeader's last reading
  started,       \* underlyingStarted: the job's own timers are running
  renewAge, checkAge, cycleAge, releaseAge,   \* ticks since each timer or send
  vacantFor,     \* history: see FailoverBound
  disturbances   \* crashes, shutdowns and command failures so far

redis == <<holder, ttl>>
ages == <<renewAge, checkAge, cycleAge, releaseAge>>
election == <<leader, cycle, release>>
wrapper == <<wasLeader, started>>
vars == <<holder, ttl, mode, leader, cycle, release, wasLeader, started,
          renewAge, checkAge, cycleAge, releaseAge, vacantFor, disturbances>>

Sent == {"acquire", "renew"}
Executed == {"acquired", "taken", "renewed", "lost"}

Init ==
  /\ holder = None /\ ttl = 0
  /\ mode = [i \in Instance |-> "down"]
  /\ leader = [i \in Instance |-> FALSE]
  /\ cycle = [i \in Instance |-> "idle"]
  /\ release = [i \in Instance |-> "idle"]
  /\ wasLeader = [i \in Instance |-> FALSE]
  /\ started = [i \in Instance |-> FALSE]
  /\ renewAge = [i \in Instance |-> 0]
  /\ checkAge = [i \in Instance |-> 0]
  /\ cycleAge = [i \in Instance |-> 0]
  /\ releaseAge = [i \in Instance |-> 0]
  /\ vacantFor = [i \in Instance |-> 0]
  /\ disturbances = 0

Disturb ==
  /\ disturbances < MaxDisturbances
  /\ disturbances' = disturbances + 1

-----------------------------------------------------------------------------
(* leaderElection.js *)

\* The vacancy an instance is answerable for ends when the key is set.
NoteVacancy == vacantFor' = IF holder' = None THEN vacantFor
                            ELSE [i \in Instance |-> 0]

\* Process start: wrapped start() arms the check timer, startRenewLoop()
\* sends the first acquire and arms the renewal timer.
Boot(i) ==
  /\ mode[i] = "down"
  /\ mode' = [mode EXCEPT ![i] = "running"]
  /\ cycle' = [cycle EXCEPT ![i] = "acquire"]
  /\ renewAge' = [renewAge EXCEPT ![i] = 0]
  /\ checkAge' = [checkAge EXCEPT ![i] = 0]
  /\ cycleAge' = [cycleAge EXCEPT ![i] = 0]
  /\ vacantFor' = [vacantFor EXCEPT ![i] = 0]
  /\ UNCHANGED <<redis, leader, release, wrapper, releaseAge, disturbances>>

\* The interval callback: runElectionCycle(), skipped while one is in flight.
RunElectionCycle_OnlyLeader(i) ==
  /\ mode[i] = "running"
  /\ renewAge[i] >= RenewIntervalMs
  /\ renewAge' = [renewAge EXCEPT ![i] = 0]
  /\ IF cycle[i] = "idle" /\ leader[i]
       THEN /\ cycle' = [cycle EXCEPT ![i] = "renew"]
            /\ cycleAge' = [cycleAge EXCEPT ![i] = 0]
       ELSE UNCHANGED <<cycle, cycleAge>>
  /\ UNCHANGED <<redis, mode, leader, release, wrapper, checkAge, releaseAge,
                 vacantFor, disturbances>>

RunElectionCycle(i) ==
  /\ mode[i] = "running"
  /\ renewAge[i] >= RenewIntervalMs
  /\ renewAge' = [renewAge EXCEPT ![i] = 0]
  /\ IF cycle[i] = "idle"
       THEN /\ cycle' = [cycle EXCEPT ![i] = IF leader[i] THEN "renew" ELSE "acquire"]
            /\ cycleAge' = [cycleAge EXCEPT ![i] = 0]
       ELSE UNCHANGED <<cycle, cycleAge>>
  /\ UNCHANGED <<redis, mode, leader, release, wrapper, checkAge, releaseAge,
                 vacantFor, disturbances>>

\* Redis executes SET NX PX.
ExecuteAcquire(i) ==
  /\ cycle[i] = "acquire"
  /\ \/ /\ holder = None
        /\ holder' = i
        /\ ttl' = LeaseTtlMs
        /\ cycle' = [cycle EXCEPT ![i] = "acquired"]
     \/ /\ holder # None
        /\ cycle' = [cycle EXCEPT ![i] = "taken"]
        /\ UNCHANGED redis
  /\ NoteVacancy
  /\ UNCHANGED <<mode, leader, release, wrapper, ages, disturbances>>

\* Redis executes RENEW_LUA.
ExecuteRenew(i) ==
  /\ cycle[i] = "renew"
  /\ IF holder = i
       THEN /\ ttl' = LeaseTtlMs
            /\ cycle' = [cycle EXCEPT ![i] = "renewed"]
       ELSE /\ cycle' = [cycle EXCEPT ![i] = "lost"]
            /\ UNCHANGED ttl
  /\ UNCHANGED <<holder, mode, leader, release, wrapper, ages, vacantFor,
                 disturbances>>

\* The awaited command settles: tryAcquire() or renew() reads its result.
SettleCycle_IgnoresGrant(i) ==
  /\ cycle[i] \in Executed
  /\ leader' = [leader EXCEPT ![i] = @ /\ cycle[i] \notin {"taken", "lost"}]
  /\ cycle' = [cycle EXCEPT ![i] = "idle"]
  /\ cycleAge' = [cycleAge EXCEPT ![i] = 0]
  /\ UNCHANGED <<redis, mode, release, wrapper, renewAge, checkAge, releaseAge,
                 vacantFor, disturbances>>

SettleCycle(i) ==
  /\ cycle[i] \in Executed
  /\ leader' = [leader EXCEPT ![i] = CASE cycle[i] = "acquired" -> TRUE
                                       [] cycle[i] \in {"taken", "lost"} -> FALSE
                                       [] cycle[i] = "renewed" -> leader[i]]
  /\ cycle' = [cycle EXCEPT ![i] = "idle"]
  /\ cycleAge' = [cycleAge EXCEPT ![i] = 0]
  /\ UNCHANGED <<redis, mode, release, wrapper, renewAge, checkAge, releaseAge,
                 vacantFor, disturbances>>

\* The command is rejected (timeout, connection loss), executed or not:
\* tryAcquire() leaves `leader` alone, renew() gives leadership up.
FailCycle_KeepLeader(i) ==
  /\ cycle[i] # "idle"
  /\ Disturb
  /\ cycle' = [cycle EXCEPT ![i] = "idle"]
  /\ cycleAge' = [cycleAge EXCEPT ![i] = 0]
  /\ vacantFor' = [vacantFor EXCEPT ![i] = 0]
  /\ UNCHANGED <<redis, mode, leader, release, wrapper, renewAge, checkAge,
                 releaseAge>>

FailCycle(i) ==
  /\ cycle[i] # "idle"
  /\ Disturb
  /\ leader' = [leader EXCEPT ![i] =
                  IF cycle[i] \in {"renew", "renewed", "lost"} THEN FALSE ELSE leader[i]]
  /\ cycle' = [cycle EXCEPT ![i] = "idle"]
  /\ cycleAge' = [cycleAge EXCEPT ![i] = 0]
  /\ vacantFor' = [vacantFor EXCEPT ![i] = 0]
  /\ UNCHANGED <<redis, mode, release, wrapper, renewAge, checkAge,
                 releaseAge>>

-----------------------------------------------------------------------------
(* leaderAwareJob.js *)

\* checkLeader(), from the interval or from the one-shot timer armed 500 ms
\* after start().  onLeadershipAcquired's restart branch is unreachable:
\* a job that is started has wasLeader (StartedFollowsLeader).
CheckLeader_IgnoresLoss(i) ==
  /\ mode[i] = "running"
  /\ started' = [started EXCEPT ![i] = @ \/ leader[i]]
  /\ wasLeader' = [wasLeader EXCEPT ![i] = @ \/ leader[i]]
  /\ checkAge' = [checkAge EXCEPT ![i] = 0]
  /\ UNCHANGED <<redis, mode, election, renewAge, cycleAge, releaseAge, vacantFor,
                 disturbances>>

CheckLeader(i) ==
  /\ mode[i] = "running"
  /\ started' = [started EXCEPT ![i] =
                   IF leader[i] = wasLeader[i] THEN started[i] ELSE leader[i]]
  /\ wasLeader' = [wasLeader EXCEPT ![i] = leader[i]]
  /\ checkAge' = [checkAge EXCEPT ![i] = 0]
  /\ UNCHANGED <<redis, mode, election, renewAge, cycleAge, releaseAge, vacantFor,
                 disturbances>>

\* stop(): manualStop, both timers cleared, then release() is awaited before
\* the underlying job is stopped.  release() returns at once when not leader,
\* even with an acquire in flight.
Stop(i) ==
  /\ mode[i] = "running"
  /\ Disturb
  /\ \/ /\ leader[i]
        /\ mode' = [mode EXCEPT ![i] = "stopping"]
        /\ release' = [release EXCEPT ![i] = "release"]
        /\ UNCHANGED started
     \/ /\ ~leader[i]
        /\ mode' = [mode EXCEPT ![i] = "stopped"]
        /\ started' = [started EXCEPT ![i] = FALSE]
        /\ UNCHANGED release
  /\ renewAge' = [renewAge EXCEPT ![i] = 0]
  /\ checkAge' = [checkAge EXCEPT ![i] = 0]
  /\ vacantFor' = [vacantFor EXCEPT ![i] = 0]
  /\ releaseAge' = [releaseAge EXCEPT ![i] = 0]
  /\ UNCHANGED <<redis, leader, cycle, wasLeader, cycleAge>>

\* Redis executes RELEASE_LUA, after any cycle command sent before it.
ExecuteRelease(i) ==
  /\ release[i] = "release"
  /\ cycle[i] \notin Sent
  /\ IF holder = i THEN holder' = None /\ ttl' = 0 ELSE UNCHANGED redis
  /\ release' = [release EXCEPT ![i] = "released"]
  /\ UNCHANGED <<mode, leader, cycle, wrapper, ages, vacantFor, disturbances>>

\* The rest of stop(): release() clears `leader` whether or not its command
\* succeeded (its errors are caught), and only then is the job stopped.
FinishStop(i) ==
  /\ \/ release[i] = "released" /\ UNCHANGED disturbances
     \/ release[i] = "release" /\ Disturb
  /\ release' = [release EXCEPT ![i] = "idle"]
  /\ leader' = [leader EXCEPT ![i] = FALSE]
  /\ started' = [started EXCEPT ![i] = FALSE]
  /\ mode' = [mode EXCEPT ![i] = "stopped"]
  /\ releaseAge' = [releaseAge EXCEPT ![i] = 0]
  /\ UNCHANGED <<redis, cycle, wasLeader, renewAge, checkAge, cycleAge, vacantFor>>

-----------------------------------------------------------------------------

\* The process ends: killed at any point, or exiting after stop().
Down(i) ==
  /\ mode' = [mode EXCEPT ![i] = "down"]
  /\ leader' = [leader EXCEPT ![i] = FALSE]
  /\ cycle' = [cycle EXCEPT ![i] = "idle"]
  /\ release' = [release EXCEPT ![i] = "idle"]
  /\ wasLeader' = [wasLeader EXCEPT ![i] = FALSE]
  /\ started' = [started EXCEPT ![i] = FALSE]
  /\ renewAge' = [renewAge EXCEPT ![i] = 0]
  /\ checkAge' = [checkAge EXCEPT ![i] = 0]
  /\ cycleAge' = [cycleAge EXCEPT ![i] = 0]
  /\ releaseAge' = [releaseAge EXCEPT ![i] = 0]
  /\ vacantFor' = [vacantFor EXCEPT ![i] = 0]
  /\ UNCHANGED redis

Crash(i) == mode[i] \in {"running", "stopping"} /\ Disturb /\ Down(i)

Exit(i) == mode[i] = "stopped" /\ UNCHANGED disturbances /\ Down(i)

Overdue(i) ==
  \/ mode[i] = "running" /\ renewAge[i] >= RenewDeadline
  \/ mode[i] = "running" /\ checkAge[i] >= CheckDeadline
  \/ cycle[i] # "idle" /\ cycleAge[i] >= CommandDeadline
  \/ release[i] # "idle" /\ releaseAge[i] >= CommandDeadline

\* One tick of real time; Redis expires the key when its TTL runs out.
Tick ==
  /\ \A i \in Instance : ~Overdue(i)
  /\ ttl' = IF ttl = 0 THEN 0 ELSE ttl - 1
  /\ holder' = IF ttl <= 1 THEN None ELSE holder
  /\ renewAge' = [i \in Instance |-> IF mode[i] = "running" THEN renewAge[i] + 1 ELSE 0]
  /\ checkAge' = [i \in Instance |-> IF mode[i] = "running" THEN checkAge[i] + 1 ELSE 0]
  /\ cycleAge' = [i \in Instance |-> IF cycle[i] # "idle" THEN cycleAge[i] + 1 ELSE 0]
  /\ releaseAge' = [i \in Instance |-> IF release[i] # "idle" THEN releaseAge[i] + 1 ELSE 0]
  /\ vacantFor' = [i \in Instance |-> IF holder = None /\ mode[i] = "running"
                                        THEN vacantFor[i] + 1 ELSE vacantFor[i]]
  /\ UNCHANGED <<mode, election, wrapper, disturbances>>

Next ==
  \/ Tick
  \/ \E i \in Instance :
       \/ Boot(i) \/ RunElectionCycle(i) \/ ExecuteAcquire(i) \/ ExecuteRenew(i)
       \/ SettleCycle(i) \/ FailCycle(i) \/ CheckLeader(i) \/ Stop(i)
       \/ ExecuteRelease(i) \/ FinishStop(i) \/ Crash(i) \/ Exit(i)

Spec == Init /\ [][Next]_vars

\* Time passes, and nothing a running instance or Redis is due to do is put
\* off for ever.  Nothing is assumed of Boot, Stop, Crash or Exit.
FairSpec ==
  /\ Spec
  /\ WF_vars(Tick)
  /\ \A i \in Instance :
       /\ WF_vars(RunElectionCycle(i)) /\ WF_vars(CheckLeader(i))
       /\ WF_vars(ExecuteAcquire(i)) /\ WF_vars(ExecuteRenew(i))
       /\ WF_vars(SettleCycle(i)) /\ WF_vars(ExecuteRelease(i)) /\ WF_vars(FinishStop(i))

-----------------------------------------------------------------------------

TypeOK ==
  /\ holder \in Instance \cup {None}
  /\ ttl \in 0..LeaseTtlMs
  /\ (holder = None) <=> (ttl = 0)
  /\ mode \in [Instance -> {"down", "running", "stopping", "stopped"}]
  /\ leader \in [Instance -> BOOLEAN]
  /\ cycle \in [Instance -> {"idle"} \cup Sent \cup Executed]
  /\ release \in [Instance -> {"idle", "release", "released"}]
  /\ wasLeader \in [Instance -> BOOLEAN]
  /\ started \in [Instance -> BOOLEAN]
  /\ renewAge \in [Instance -> Nat]
  /\ checkAge \in [Instance -> Nat]
  /\ cycleAge \in [Instance -> Nat]
  /\ releaseAge \in [Instance -> Nat]
  /\ vacantFor \in [Instance -> Nat]
  /\ disturbances \in 0..MaxDisturbances

\* A replica whose renewal loop runs and whose isLeader() answers true holds
\* the lease at that instant, through lost replies, failed renewals, crashes
\* and restarts: so no two of them ever believe they lead.
LeaderHoldsLease ==
  \A i \in Instance : mode[i] = "running" /\ leader[i] => holder = i

\* The scheduled job of a replica that is not shutting down runs only while
\* that replica holds the lease, although the wrapper learns of a lost
\* leadership only at its next checkLeader().
JobRunsUnderLease ==
  \A i \in Instance : mode[i] = "running" /\ started[i] => holder = i

\* The wrapper's flags agree: a started job was started for a leadership the
\* wrapper has not yet seen end, so job.start() is never called twice.
StartedFollowsLeader ==
  \A i \in Instance : started[i] => wasLeader[i] /\ mode[i] \in {"running", "stopping"}

\* The lease key stays absent no longer than one renewal interval plus one
\* command, for as long as some replica runs its loop with its commands
\* answered: failover completes within TTL + renew interval + latency.
FailoverBound ==
  \A i \in Instance : vacantFor[i] <= RenewDeadline + CommandDeadline

\* Unless no replica stays up, some replica holds the lease and runs the job
\* again and again once disturbances stop: the service is never left without
\* a leader for good, not even by a lease that a stopped or crashed replica
\* acquired on its way out.
LeadershipReturns ==
  \/ <>[](\A i \in Instance : mode[i] # "running")
  \/ []<>(\E i \in Instance : leader[i] /\ started[i] /\ holder = i)

=============================================================================
