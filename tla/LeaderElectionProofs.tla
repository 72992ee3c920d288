------------------------ MODULE LeaderElectionProofs ------------------------
(* Machine-checked proofs about the two locks the replicas keep in Redis:  *)
(* LeaderElection, for any number of replicas and every lease, renewal,    *)
(* check and command timing that LeaseTiming admits, and Stampede below;   *)
(* and about those who wait in Stampede and in PriceOracle.                *)
EXTENDS LeaderElection, Stampede, PriceOracle, TLAPS

-----------------------------------------------------------------------------
(* The inductive invariant, one replica at a time. *)

\* A process that is down has nothing in memory; only a stopping one has a
\* release in flight; a running job belongs to a process that runs.
Lifecycle(i) ==
  /\ mode[i] = "down" => /\ ~leader[i] /\ ~wasLeader[i] /\ ~started[i]
                         /\ cycle[i] = "idle"
  /\ (release[i] # "idle") <=> (mode[i] = "stopping")
  /\ started[i] => wasLeader[i] /\ mode[i] \in {"running", "stopping"}

\* Timers and commands keep their deadlines; a command in flight was sent by
\* the latest firing of the renewal timer.
Deadlines(i) ==
  mode[i] = "running" =>
    /\ renewAge[i] <= RenewDeadline
    /\ checkAge[i] <= CheckDeadline
    /\ cycle[i] # "idle" => cycleAge[i] = renewAge[i] /\ cycleAge[i] <= CommandDeadline

\* How much of the lease is left, for a replica that leads, that has just
\* been granted it, or that lost leadership and has not stopped its job yet.
LeaseLeft(i) ==
  mode[i] = "running" =>
    /\ leader[i] =>
         /\ holder = i
         /\ cycle[i] \in {"idle", "renew", "renewed"}
         /\ cycle[i] = "idle" => ttl + renewAge[i] >= LeaseTtlMs
         /\ cycle[i] = "renew" => ttl + cycleAge[i] + RenewDeadline >= LeaseTtlMs
         /\ cycle[i] = "renewed" => ttl + cycleAge[i] >= LeaseTtlMs
    /\ ~leader[i] =>
         /\ cycle[i] \in {"idle", "acquire", "acquired", "taken"}
         /\ cycle[i] = "acquired" => holder = i /\ ttl + cycleAge[i] >= LeaseTtlMs
    /\ started[i] /\ ~leader[i] =>
         /\ holder = i
         /\ ttl + RenewDeadline + CommandDeadline + checkAge[i] >= LeaseTtlMs

\* How long the key can have been absent, given where the replica's cycle is.
Vacancy(i) ==
  /\ holder # None => vacantFor[i] = 0
  /\ mode[i] # "running" => vacantFor[i] = 0
  /\ cycle[i] \in {"idle", "taken"} => vacantFor[i] <= renewAge[i]
  /\ cycle[i] = "acquire" => vacantFor[i] <= RenewDeadline + cycleAge[i]

Good(i) == Lifecycle(i) /\ Deadlines(i) /\ LeaseLeft(i) /\ Vacancy(i)

Inv == TypeOK /\ \A i \in Instance : Good(i)

-----------------------------------------------------------------------------

\* The three deadlines are naturals, and the timing assumption in their terms.
LEMMA DeadlineTypes ==
  /\ RenewDeadline \in Nat /\ CommandDeadline \in Nat /\ CheckDeadline \in Nat
  /\ LeaseTtlMs \in Nat /\ RenewIntervalMs \in Nat
  /\ CommandDeadline < RenewIntervalMs
  /\ RenewDeadline + CommandDeadline + CheckDeadline < LeaseTtlMs
  /\ None \notin Instance
  BY LeaseTiming DEF RenewDeadline, CommandDeadline, CheckDeadline

LEMMA InitInv == Init => Inv
<1> SUFFICES ASSUME Init PROVE Inv
  OBVIOUS
<1>1. TypeOK
  BY LeaseTiming DEF Init, TypeOK
<1>2. ASSUME NEW i \in Instance PROVE Good(i)
  BY DEF Init, Good, Lifecycle, Deadlines, LeaseLeft, Vacancy
<1> QED BY <1>1, <1>2 DEF Inv

LEMMA BootInv ==
  ASSUME Inv, NEW i \in Instance, Boot(i)
  PROVE  Inv'
<1>1. TypeOK'
  BY DeadlineTypes, LeaseTiming DEF Inv, TypeOK, Boot, redis, ages, election, wrapper, Sent, Executed
<1>2. ASSUME NEW j \in Instance PROVE Good(j)'
  <2>1. Lifecycle(j)'
    BY DEF Inv, Good, Lifecycle, TypeOK, Boot, redis, ages, election, wrapper
  <2>2. Deadlines(j)'
    BY DeadlineTypes DEF Inv, Good, Deadlines, Lifecycle, TypeOK, Boot, redis, ages, election, wrapper
  <2>3. LeaseLeft(j)'
    BY DeadlineTypes DEF Inv, Good, Deadlines, Lifecycle, LeaseLeft, TypeOK, Boot, redis, ages, election, wrapper
  <2>4. Vacancy(j)'
    BY DeadlineTypes DEF Inv, Good, Deadlines, Lifecycle, LeaseLeft, Vacancy, TypeOK, Boot, redis, ages, election, wrapper
  <2> QED BY <2>1, <2>2, <2>3, <2>4 DEF Good
<1> QED BY <1>1, <1>2 DEF Inv

LEMMA RunElectionCycleInv ==
  ASSUME Inv, NEW i \in Instance, RunElectionCycle(i)
  PROVE  Inv'
<1>1. TypeOK'
  BY DeadlineTypes, LeaseTiming DEF Inv, TypeOK, RunElectionCycle, redis, ages, election, wrapper, Sent, Executed
<1>2. ASSUME NEW j \in Instance PROVE Good(j)'
  <2>1. Lifecycle(j)'
    BY DEF Inv, Good, Lifecycle, TypeOK, RunElectionCycle, redis, ages, election, wrapper
  <2>2. Deadlines(j)'
    BY DeadlineTypes DEF Inv, Good, Deadlines, Lifecycle, TypeOK, RunElectionCycle, redis, ages, election, wrapper
  <2>3. LeaseLeft(j)'
    BY DeadlineTypes DEF Inv, Good, Deadlines, Lifecycle, LeaseLeft, TypeOK, RunElectionCycle, redis, ages, election, wrapper
  <2>4. Vacancy(j)'
    BY DeadlineTypes DEF Inv, Good, Deadlines, Lifecycle, LeaseLeft, Vacancy, TypeOK, RunElectionCycle, redis, ages, election, wrapper
  <2> QED BY <2>1, <2>2, <2>3, <2>4 DEF Good
<1> QED BY <1>1, <1>2 DEF Inv

LEMMA ExecuteAcquireInv ==
  ASSUME Inv, NEW i \in Instance, ExecuteAcquire(i)
  PROVE  Inv'
<1>1. TypeOK'
  BY DeadlineTypes, LeaseTiming DEF Inv, TypeOK, ExecuteAcquire, NoteVacancy, redis, ages, election, wrapper, Sent, Executed
<1>2. ASSUME NEW j \in Instance PROVE Good(j)'
  <2>1. Lifecycle(j)'
    BY DEF Inv, Good, Lifecycle, TypeOK, ExecuteAcquire, NoteVacancy, redis, ages, election, wrapper
  <2>2. Deadlines(j)'
    BY DeadlineTypes DEF Inv, Good, Deadlines, Lifecycle, TypeOK, ExecuteAcquire, NoteVacancy, redis, ages, election, wrapper
  <2>3. LeaseLeft(j)'
    BY DeadlineTypes DEF Inv, Good, Deadlines, Lifecycle, LeaseLeft, TypeOK, ExecuteAcquire, NoteVacancy, redis, ages, election, wrapper
  <2>4. Vacancy(j)'
    BY DeadlineTypes DEF Inv, Good, Deadlines, Lifecycle, LeaseLeft, Vacancy, TypeOK, ExecuteAcquire, NoteVacancy, redis, ages, election, wrapper
  <2> QED BY <2>1, <2>2, <2>3, <2>4 DEF Good
<1> QED BY <1>1, <1>2 DEF Inv

LEMMA ExecuteRenewInv ==
  ASSUME Inv, NEW i \in Instance, ExecuteRenew(i)
  PROVE  Inv'
<1>1. TypeOK'
  BY DeadlineTypes, LeaseTiming DEF Inv, TypeOK, ExecuteRenew, redis, ages, election, wrapper, Sent, Executed
<1>2. ASSUME NEW j \in Instance PROVE Good(j)'
  <2>1. Lifecycle(j)'
    BY DEF Inv, Good, Lifecycle, TypeOK, ExecuteRenew, redis, ages, election, wrapper
  <2>2. Deadlines(j)'
    BY DeadlineTypes DEF Inv, Good, Deadlines, Lifecycle, TypeOK, ExecuteRenew, redis, ages, election, wrapper
  <2>3. LeaseLeft(j)'
    BY DeadlineTypes DEF Inv, Good, Deadlines, Lifecycle, LeaseLeft, TypeOK, ExecuteRenew, redis, ages, election, wrapper
  <2>4. Vacancy(j)'
    BY DeadlineTypes DEF Inv, Good, Deadlines, Lifecycle, LeaseLeft, Vacancy, TypeOK, ExecuteRenew, redis, ages, election, wrapper
  <2> QED BY <2>1, <2>2, <2>3, <2>4 DEF Good
<1> QED BY <1>1, <1>2 DEF Inv

LEMMA SettleCycleInv ==
  ASSUME Inv, NEW i \in Instance, SettleCycle(i)
  PROVE  Inv'
<1>1. TypeOK'
  <2>1. leader' \in [Instance -> BOOLEAN]
    <3> DEFINE v == CASE cycle[i] = "acquired" -> TRUE
                      [] cycle[i] \in {"taken", "lost"} -> FALSE
                      [] cycle[i] = "renewed" -> leader[i]
    <3>1. v \in BOOLEAN
      <4>1. CASE cycle[i] = "acquired"
        BY <4>1
      <4>2. CASE cycle[i] \in {"taken", "lost"}
        BY <4>2
      <4>3. CASE cycle[i] = "renewed"
        BY <4>3 DEF Inv, TypeOK
      <4> QED BY <4>1, <4>2, <4>3 DEF SettleCycle, Executed
    <3>2. leader' = [leader EXCEPT ![i] = v]
      BY DEF SettleCycle
    <3> HIDE DEF v
    <3> QED BY <3>1, <3>2 DEF Inv, TypeOK
  <2>2. /\ cycle' \in [Instance -> {"idle"} \cup Sent \cup Executed]
        /\ cycleAge' \in [Instance -> Nat]
    BY DEF Inv, TypeOK, SettleCycle
  <2> QED BY <2>1, <2>2, Zenon
       DEF Inv, TypeOK, SettleCycle, redis, wrapper
<1>2. ASSUME NEW j \in Instance PROVE Good(j)'
  <2>1. Lifecycle(j)'
    BY DEF Inv, Good, Lifecycle, TypeOK, SettleCycle, Executed, redis, ages, election, wrapper
  <2>2. Deadlines(j)'
    BY DeadlineTypes DEF Inv, Good, Deadlines, Lifecycle, TypeOK, SettleCycle, Executed, redis, ages, election, wrapper
  <2>3. LeaseLeft(j)'
    BY DeadlineTypes DEF Inv, Good, Deadlines, Lifecycle, LeaseLeft, TypeOK, SettleCycle, Executed, redis, ages, election, wrapper
  <2>4. Vacancy(j)'
    BY DeadlineTypes DEF Inv, Good, Deadlines, Lifecycle, LeaseLeft, Vacancy, TypeOK, SettleCycle, Executed, redis, ages, election, wrapper
  <2> QED BY <2>1, <2>2, <2>3, <2>4 DEF Good
<1> QED BY <1>1, <1>2 DEF Inv

LEMMA FailCycleInv ==
  ASSUME Inv, NEW i \in Instance, FailCycle(i)
  PROVE  Inv'
<1>1. TypeOK'
  <2>1. leader' \in [Instance -> BOOLEAN]
    <3>1. (IF cycle[i] \in {"renew", "renewed", "lost"} THEN FALSE ELSE leader[i]) \in BOOLEAN
      BY DEF Inv, TypeOK
    <3> QED BY <3>1, Zenon DEF Inv, TypeOK, FailCycle
  <2>2. /\ cycle' \in [Instance -> {"idle"} \cup Sent \cup Executed]
        /\ cycleAge' \in [Instance -> Nat]
        /\ vacantFor' \in [Instance -> Nat]
        /\ disturbances' \in 0..MaxDisturbances
    BY LeaseTiming DEF Inv, TypeOK, FailCycle, Disturb
  <2> QED BY <2>1, <2>2, Zenon
       DEF Inv, TypeOK, FailCycle, redis, wrapper
<1>2. ASSUME NEW j \in Instance PROVE Good(j)'
  <2>1. Lifecycle(j)'
    BY DEF Inv, Good, Lifecycle, TypeOK, FailCycle, Disturb, redis, ages, election, wrapper
  <2>2. Deadlines(j)'
    BY DeadlineTypes DEF Inv, Good, Deadlines, Lifecycle, TypeOK, FailCycle, Disturb, redis, ages, election, wrapper
  <2>3. LeaseLeft(j)'
    BY DeadlineTypes DEF Inv, Good, Deadlines, Lifecycle, LeaseLeft, TypeOK, FailCycle, Disturb, redis, ages, election, wrapper
  <2>4. Vacancy(j)'
    BY DeadlineTypes DEF Inv, Good, Deadlines, Lifecycle, LeaseLeft, Vacancy, TypeOK, FailCycle, Disturb, redis, ages, election, wrapper
  <2> QED BY <2>1, <2>2, <2>3, <2>4 DEF Good
<1> QED BY <1>1, <1>2 DEF Inv

LEMMA CheckLeaderInv ==
  ASSUME Inv, NEW i \in Instance, CheckLeader(i)
  PROVE  Inv'
<1>1. TypeOK'
  <2>1. started' \in [Instance -> BOOLEAN]
    <3>1. (IF leader[i] = wasLeader[i] THEN started[i] ELSE leader[i]) \in BOOLEAN
      BY DEF Inv, TypeOK
    <3> QED BY <3>1, Zenon DEF Inv, TypeOK, CheckLeader
  <2>2. wasLeader' \in [Instance -> BOOLEAN]
    BY Zenon DEF Inv, TypeOK, CheckLeader
  <2>3. checkAge' \in [Instance -> Nat]
    BY DEF Inv, TypeOK, CheckLeader
  <2> QED BY <2>1, <2>2, <2>3, Zenon
       DEF Inv, TypeOK, CheckLeader, redis, election
<1>2. ASSUME NEW j \in Instance PROVE Good(j)'
  <2>1. Lifecycle(j)'
    BY DEF Inv, Good, Lifecycle, TypeOK, CheckLeader, redis, ages, election, wrapper
  <2>2. Deadlines(j)'
    BY DeadlineTypes DEF Inv, Good, Deadlines, Lifecycle, TypeOK, CheckLeader, redis, ages, election, wrapper
  <2>3. LeaseLeft(j)'
    BY DeadlineTypes DEF Inv, Good, Deadlines, Lifecycle, LeaseLeft, TypeOK, CheckLeader, redis, ages, election, wrapper
  <2>4. Vacancy(j)'
    BY DeadlineTypes DEF Inv, Good, Deadlines, Lifecycle, LeaseLeft, Vacancy, TypeOK, CheckLeader, redis, ages, election, wrapper
  <2> QED BY <2>1, <2>2, <2>3, <2>4 DEF Good
<1> QED BY <1>1, <1>2 DEF Inv

LEMMA StopInv ==
  ASSUME Inv, NEW i \in Instance, Stop(i)
  PROVE  Inv'
<1>1. TypeOK'
  <2>1. started' \in [Instance -> BOOLEAN]
    BY Zenon DEF Inv, TypeOK, Stop
  <2>2. /\ release' \in [Instance -> {"idle", "release", "released"}]
        /\ mode' \in [Instance -> {"down", "running", "stopping", "stopped"}]
    BY DEF Inv, TypeOK, Stop
  <2>3. /\ renewAge' \in [Instance -> Nat]
        /\ checkAge' \in [Instance -> Nat]
        /\ releaseAge' \in [Instance -> Nat]
        /\ vacantFor' \in [Instance -> Nat]
        /\ disturbances' \in 0..MaxDisturbances
    BY LeaseTiming DEF Inv, TypeOK, Stop, Disturb
  <2> QED BY <2>1, <2>2, <2>3, Zenon
       DEF Inv, TypeOK, Stop, redis
<1>2. ASSUME NEW j \in Instance PROVE Good(j)'
  <2>1. Lifecycle(j)'
    BY DEF Inv, Good, Lifecycle, TypeOK, Stop, Disturb, redis, ages, election, wrapper
  <2>2. Deadlines(j)'
    BY DeadlineTypes DEF Inv, Good, Deadlines, Lifecycle, TypeOK, Stop, Disturb, redis, ages, election, wrapper
  <2>3. LeaseLeft(j)'
    BY DeadlineTypes DEF Inv, Good, Deadlines, Lifecycle, LeaseLeft, TypeOK, Stop, Disturb, redis, ages, election, wrapper
  <2>4. Vacancy(j)'
    BY DeadlineTypes DEF Inv, Good, Deadlines, Lifecycle, LeaseLeft, Vacancy, TypeOK, Stop, Disturb, redis, ages, election, wrapper
  <2> QED BY <2>1, <2>2, <2>3, <2>4 DEF Good
<1> QED BY <1>1, <1>2 DEF Inv

LEMMA ExecuteReleaseInv ==
  ASSUME Inv, NEW i \in Instance, ExecuteRelease(i)
  PROVE  Inv'
<1>1. TypeOK'
  BY DeadlineTypes, LeaseTiming DEF Inv, TypeOK, ExecuteRelease, Sent, redis, ages, election, wrapper, Executed
<1>2. ASSUME NEW j \in Instance PROVE Good(j)'
  <2>1. Lifecycle(j)'
    BY DEF Inv, Good, Lifecycle, TypeOK, ExecuteRelease, Sent, redis, ages, election, wrapper
  <2>2. Deadlines(j)'
    BY DeadlineTypes DEF Inv, Good, Deadlines, Lifecycle, TypeOK, ExecuteRelease, Sent, redis, ages, election, wrapper
  <2>3. LeaseLeft(j)'
    BY DeadlineTypes DEF Inv, Good, Deadlines, Lifecycle, LeaseLeft, TypeOK, ExecuteRelease, Sent, redis, ages, election, wrapper
  <2>4. Vacancy(j)'
    BY DeadlineTypes DEF Inv, Good, Deadlines, Lifecycle, LeaseLeft, Vacancy, TypeOK, ExecuteRelease, Sent, redis, ages, election, wrapper
  <2> QED BY <2>1, <2>2, <2>3, <2>4 DEF Good
<1> QED BY <1>1, <1>2 DEF Inv

LEMMA FinishStopInv ==
  ASSUME Inv, NEW i \in Instance, FinishStop(i)
  PROVE  Inv'
<1>1. TypeOK'
  BY DeadlineTypes, LeaseTiming DEF Inv, TypeOK, FinishStop, Disturb, redis, ages, election, wrapper, Sent, Executed
<1>2. ASSUME NEW j \in Instance PROVE Good(j)'
  <2>1. Lifecycle(j)'
    BY DEF Inv, Good, Lifecycle, TypeOK, FinishStop, Disturb, redis, ages, election, wrapper
  <2>2. Deadlines(j)'
    BY DeadlineTypes DEF Inv, Good, Deadlines, Lifecycle, TypeOK, FinishStop, Disturb, redis, ages, election, wrapper
  <2>3. LeaseLeft(j)'
    BY DeadlineTypes DEF Inv, Good, Deadlines, Lifecycle, LeaseLeft, TypeOK, FinishStop, Disturb, redis, ages, election, wrapper
  <2>4. Vacancy(j)'
    BY DeadlineTypes DEF Inv, Good, Deadlines, Lifecycle, LeaseLeft, Vacancy, TypeOK, FinishStop, Disturb, redis, ages, election, wrapper
  <2> QED BY <2>1, <2>2, <2>3, <2>4 DEF Good
<1> QED BY <1>1, <1>2 DEF Inv

\* A crash or an exit forgets the process and leaves its lease behind.
LEMMA DownInv ==
  ASSUME Inv, NEW i \in Instance, Crash(i) \/ Exit(i)
  PROVE  Inv'
<1>1. Down(i) /\ disturbances' \in 0..MaxDisturbances
  BY LeaseTiming DEF Crash, Exit, Disturb, Inv, TypeOK
<1>2. TypeOK'
  <2>1. /\ leader' \in [Instance -> BOOLEAN]
        /\ wasLeader' \in [Instance -> BOOLEAN]
        /\ started' \in [Instance -> BOOLEAN]
    BY <1>1, Zenon DEF Inv, TypeOK, Down
  <2>2. /\ mode' \in [Instance -> {"down", "running", "stopping", "stopped"}]
        /\ cycle' \in [Instance -> {"idle"} \cup Sent \cup Executed]
        /\ release' \in [Instance -> {"idle", "release", "released"}]
    BY <1>1 DEF Inv, TypeOK, Down
  <2>3. /\ renewAge' \in [Instance -> Nat] /\ checkAge' \in [Instance -> Nat]
        /\ cycleAge' \in [Instance -> Nat] /\ releaseAge' \in [Instance -> Nat]
        /\ vacantFor' \in [Instance -> Nat]
    BY <1>1 DEF Inv, TypeOK, Down
  <2> QED BY <1>1, <2>1, <2>2, <2>3, Zenon DEF Inv, TypeOK, Down, redis
<1>3. ASSUME NEW j \in Instance PROVE Good(j)'
  BY <1>1, DeadlineTypes
     DEF Inv, Good, Lifecycle, Deadlines, LeaseLeft, Vacancy, TypeOK, Down, redis
<1> QED BY <1>2, <1>3 DEF Inv

\* Time only passes while every deadline is ahead, so a lease that some
\* running replica relies on has more than one tick left.
LEMMA TickInv == Inv /\ Tick => Inv'
<1> SUFFICES ASSUME Inv, Tick PROVE Inv'
  OBVIOUS
<1>1. TypeOK'
  <2>1. /\ renewAge' \in [Instance -> Nat] /\ checkAge' \in [Instance -> Nat]
        /\ cycleAge' \in [Instance -> Nat] /\ releaseAge' \in [Instance -> Nat]
        /\ vacantFor' \in [Instance -> Nat]
    BY DEF Inv, TypeOK, Tick
  <2>2. /\ holder' \in Instance \cup {None}
        /\ ttl' \in 0..LeaseTtlMs
        /\ (holder' = None) <=> (ttl' = 0)
    BY DeadlineTypes DEF Inv, TypeOK, Tick
  <2> QED BY <2>1, <2>2, Zenon DEF Inv, TypeOK, Tick, election, wrapper
<1>2. ASSUME NEW j \in Instance PROVE Good(j)'
  <2>0. ~Overdue(j)
    BY DEF Tick
  <2>1. Lifecycle(j)'
    BY DEF Inv, Good, Lifecycle, TypeOK, Tick, election, wrapper
  <2>2. Deadlines(j)'
    BY <2>0, DeadlineTypes
       DEF Inv, Good, Deadlines, TypeOK, Tick, Overdue, election, wrapper
  <2>3. LeaseLeft(j)'
    BY <2>0, DeadlineTypes
       DEF Inv, Good, Deadlines, LeaseLeft, TypeOK, Tick, Overdue, election, wrapper
  <2>4. Vacancy(j)'
    BY <2>0, DeadlineTypes
       DEF Inv, Good, Deadlines, LeaseLeft, Vacancy, TypeOK, Tick, Overdue, election, wrapper
  <2> QED BY <2>1, <2>2, <2>3, <2>4 DEF Good
<1> QED BY <1>1, <1>2 DEF Inv

LEMMA NextInv == Inv /\ [Next]_vars => Inv'
<1> SUFFICES ASSUME Inv, [Next]_vars PROVE Inv'
  OBVIOUS
<1>1. CASE UNCHANGED vars
  <2>1. TypeOK'
    BY <1>1, Zenon DEF vars, Inv, TypeOK
  <2>2. ASSUME NEW i \in Instance PROVE Good(i)'
    BY <1>1 DEF vars, Inv, Good, Lifecycle, Deadlines, LeaseLeft, Vacancy
  <2> QED BY <2>1, <2>2 DEF Inv
<1> QED BY <1>1, TickInv, BootInv, RunElectionCycleInv, ExecuteAcquireInv,
           ExecuteRenewInv, SettleCycleInv, FailCycleInv, CheckLeaderInv, StopInv,
           ExecuteReleaseInv, FinishStopInv, DownInv DEF Next

-----------------------------------------------------------------------------

THEOREM SpecInv == Spec => []Inv
  BY InitInv, NextInv, PTL DEF Spec

\* Type correctness; the key exists exactly while it has time to live.
THEOREM TypeCorrect == Spec => []TypeOK
<1>1. Inv => TypeOK
  BY DEF Inv
<1> QED BY <1>1, SpecInv, PTL

\* A running replica whose isLeader() is true holds the lease, for any number
\* of crashes, shutdowns and lost commands.
THEOREM LeaderSafety == Spec => []LeaderHoldsLease
<1>1. Inv => LeaderHoldsLease
  BY DEF Inv, Good, LeaseLeft, LeaderHoldsLease
<1> QED BY <1>1, SpecInv, PTL

\* No two running replicas believe they lead at the same time.
THEOREM LeaderUnique ==
  Spec => [](\A i, j \in Instance :
               (mode[i] = "running" /\ leader[i] /\ mode[j] = "running" /\ leader[j])
                 => i = j)
<1>1. LeaderHoldsLease =>
        (\A i, j \in Instance :
           (mode[i] = "running" /\ leader[i] /\ mode[j] = "running" /\ leader[j])
             => i = j)
  BY DEF LeaderHoldsLease
<1> QED BY <1>1, LeaderSafety, PTL

\* The scheduled job of a replica that is not shutting down runs under the
\* lease: the wrapper's polling is fast enough for the lease's TTL.
THEOREM JobSafety == Spec => []JobRunsUnderLease
<1>1. Inv => JobRunsUnderLease
  BY DEF Inv, Good, LeaseLeft, JobRunsUnderLease
<1> QED BY <1>1, SpecInv, PTL

\* The wrapper never starts a job it has already started.
THEOREM WrapperConsistent == Spec => []StartedFollowsLeader
<1>1. Inv => StartedFollowsLeader
  BY DEF Inv, Good, Lifecycle, StartedFollowsLeader
<1> QED BY <1>1, SpecInv, PTL

\* The lease is taken over within one renewal interval and one command of
\* becoming free.
THEOREM FailoverInTime == Spec => []FailoverBound
<1>1. Inv => FailoverBound
  <2> SUFFICES ASSUME Inv, NEW i \in Instance
               PROVE  vacantFor[i] <= RenewDeadline + CommandDeadline
    BY DEF FailoverBound
  <2>1. CASE mode[i] # "running"
    BY <2>1, DeadlineTypes DEF Inv, Good, Vacancy
  <2>2. CASE mode[i] = "running"
    BY <2>2, DeadlineTypes DEF Inv, Good, Vacancy, Deadlines, LeaseLeft, TypeOK
  <2> QED BY <2>1, <2>2
<1> QED BY <1>1, SpecInv, PTL

-----------------------------------------------------------------------------
(* Stampede: the lock of fetchWithLock, for any number of processes, calls, *)
(* background refreshes, failed commands and crashes.                       *)

StampedeSpec == StampedeInit /\ [][StampedeNext]_keyVars

(* The inductive invariant: a token has one owner, got it from its last    *)
(* acquireLock, and stands for the lock unless it was lost.                *)

Holding == {"fetch", "store", "release"}

TokenType ==
  /\ lock \in Token \cup {NoToken}
  /\ worker \in [Worker -> [pc : Holding \cup {"none", "recheck", "poll", "acquire", "asleep"},
                            token : Token \cup {NoToken}]]

\* Only a worker past acquireLock has a token.
TokenFromLock == \A w \in Worker : worker[w].pc \notin Holding => worker[w].token = NoToken

TokensDiffer ==
  \A v, w \in Worker : worker[v].token = worker[w].token /\ v # w => worker[v].token = NoToken

StampedeInv == TokenType /\ TokenFromLock /\ TokensDiffer /\ LockKept

USE StampedeConfig DEF Worker, Free, Holding

LEMMA StampedeInitInv == StampedeInit => StampedeInv
BY DEF StampedeInit, StampedeInv, TokenType, TokenFromLock, TokensDiffer, LockKept

\* Moving a worker on, between places that agree about having a token.
LEMMA GoesToKeeps ==
  ASSUME StampedeInv, NEW w \in Worker, NEW pc, GoesTo(w, pc),
         pc \in Holding \cup {"none", "recheck", "poll", "acquire", "asleep"},
         pc \notin Holding => worker[w].token = NoToken,
         UNCHANGED <<lock, lost>>
  PROVE  StampedeInv'
BY DEF StampedeInv, TokenType, TokenFromLock, TokensDiffer, LockKept, GoesTo

\* A flight that settles takes its token with it, and nobody else's.
LEMMA SettleKeeps ==
  ASSUME StampedeInv, NEW w \in Worker, Settle(w),
         lock' = lock \/ (lock' = NoToken /\ lock = worker[w].token)
  PROVE  StampedeInv'
BY DEF StampedeInv, TokenType, TokenFromLock, TokensDiffer, LockKept, Settle

LEMMA FetchKeeps ==
  ASSUME StampedeInv, NEW r \in Request, NEW n \in Node, Fetch(r, n)
  PROVE  StampedeInv'
<1>1. n \in Worker
  OBVIOUS
<1>2. CASE UNCHANGED worker
  BY <1>2 DEF StampedeInv, TokenType, TokenFromLock, TokensDiffer, LockKept, Fetch
<1>3. CASE triggerBackgroundRefresh
  <2>1. PICK b \in Refresher : At(b, "none") /\ GoesTo(b, "acquire")
    BY <1>3 DEF triggerBackgroundRefresh
  <2>2. worker[b].token = NoToken
    BY <2>1 DEF StampedeInv, TokenFromLock, At
  <2> QED BY <2>1, <2>2, GoesToKeeps DEF Fetch
<1>4. CASE At(n, "none") /\ GoesTo(n, "recheck")
  <2>1. worker[n].token = NoToken
    BY <1>1, <1>4 DEF StampedeInv, TokenFromLock, At
  <2> QED BY <1>1, <1>4, <2>1, GoesToKeeps DEF Fetch
<1> QED BY <1>2, <1>3, <1>4 DEF Fetch

LEMMA AcquireKeeps ==
  ASSUME StampedeInv, NEW w \in Worker, acquireLock(w)
  PROVE  StampedeInv'
<1>1. worker[w].token = NoToken
  BY DEF StampedeInv, TokenFromLock, acquireLock, At
<1>2. CASE \E t \in Token \ ({lock} \cup {worker[v].token : v \in Worker} \cup lost) :
             /\ worker' = [worker EXCEPT ![w] = [pc |-> "fetch", token |-> t]]
             /\ \/ lock = NoToken /\ lock' = t /\ UNCHANGED lost
                \/ lock' \in {lock} \cup (IF lock = NoToken THEN {t} ELSE {})
                     /\ lost' = lost \cup ({t} \ {lock'})
  <2>1. PICK t \in Token \ ({lock} \cup {worker[v].token : v \in Worker} \cup lost) :
             /\ worker' = [worker EXCEPT ![w] = [pc |-> "fetch", token |-> t]]
             /\ \/ lock = NoToken /\ lock' = t /\ UNCHANGED lost
                \/ lock' \in {lock} \cup (IF lock = NoToken THEN {t} ELSE {})
                     /\ lost' = lost \cup ({t} \ {lock'})
    BY <1>2
  <2>2. TokenType' /\ TokenFromLock' /\ TokensDiffer'
    BY <2>1 DEF StampedeInv, TokenType, TokenFromLock, TokensDiffer
  <2>3. LockKept'
    BY <2>1 DEF StampedeInv, TokenType, LockKept
  <2> QED BY <2>2, <2>3 DEF StampedeInv
<1>3. CASE UNCHANGED lock /\ w \in Node /\ GoesTo(w, "asleep") /\ UNCHANGED lost
  BY <1>1, <1>3, GoesToKeeps
<1>4. CASE UNCHANGED lock /\ Settle(w)
  BY <1>4, SettleKeeps
<1> QED BY <1>2, <1>3, <1>4 DEF acquireLock

LEMMA WorkerKeeps ==
  ASSUME StampedeInv, NEW w \in Worker, WorkerStep(w)
  PROVE  StampedeInv'
<1>1. CASE Look(w)
  <2>1. worker[w].token = NoToken
    BY <1>1 DEF StampedeInv, TokenFromLock, Look
  <2> QED BY <1>1, <2>1, GoesToKeeps, SettleKeeps DEF Look
<1>2. CASE acquireLock(w)
  BY <1>2, AcquireKeeps
<1>3. CASE WakeUp(w)
  <2>1. worker[w].token = NoToken
    BY <1>3 DEF StampedeInv, TokenFromLock, WakeUp, At
  <2> QED BY <1>3, <2>1, GoesToKeeps DEF WakeUp
<1>4. CASE Fetched(w)
  BY <1>4, GoesToKeeps DEF Fetched
<1>5. CASE Store(w)
  BY <1>5, GoesToKeeps DEF Store
<1>6. CASE releaseLock(w)
  BY <1>6, SettleKeeps DEF releaseLock
<1> QED BY <1>1, <1>2, <1>3, <1>4, <1>5, <1>6 DEF WorkerStep

LEMMA StampedeStepInv == StampedeInv /\ [StampedeNext]_keyVars => StampedeInv'
<1> SUFFICES ASSUME StampedeInv, [StampedeNext]_keyVars PROVE StampedeInv'
  OBVIOUS
<1>1. CASE \E r \in Request, n \in Node : Fetch(r, n)
  BY <1>1, FetchKeeps
<1>2. CASE \E w \in Worker : WorkerStep(w)
  BY <1>2, WorkerKeeps
<1>3. CASE \E n \in Node : NodeCrashes(n)
  BY <1>3 DEF NodeCrashes, StampedeInv, TokenType, TokenFromLock, TokensDiffer, LockKept
<1>4. CASE LockExpires
  BY <1>4 DEF LockExpires, StampedeInv, TokenType, TokenFromLock, TokensDiffer, LockKept
<1>5. CASE EntryAges
  BY <1>5 DEF EntryAges, StampedeInv, TokenType, TokenFromLock, TokensDiffer, LockKept
<1>6. CASE UNCHANGED keyVars
  BY <1>6 DEF keyVars, StampedeInv, TokenType, TokenFromLock, TokensDiffer, LockKept
<1> QED BY <1>1, <1>2, <1>3, <1>4, <1>5, <1>6 DEF StampedeNext

-----------------------------------------------------------------------------

\* releaseLock never takes the lock from another holder: a worker whose token was
\* neither outlived by the lock's TTL nor handed out without Redis holds the lock.
THEOREM LockSafety == StampedeSpec => []LockKept
<1>1. StampedeInv => LockKept
  BY DEF StampedeInv
<1> QED BY StampedeInitInv, StampedeStepInv, <1>1, PTL DEF StampedeSpec

\* Hence at most one worker whose token still stands for the lock is between
\* acquireLock and releaseLock.
Refreshing(w) == worker[w].token \notin lost \cup {NoToken}

THEOREM OneRefreshes == StampedeSpec => [](\A v, w \in Worker : Refreshing(v) /\ Refreshing(w) => v = w)
<1>1. StampedeInv => \A v, w \in Worker : Refreshing(v) /\ Refreshing(w) => v = w
  BY DEF StampedeInv, TokensDiffer, LockKept, Refreshing
<1> QED BY StampedeInitInv, StampedeStepInv, <1>1, PTL DEF StampedeSpec

-----------------------------------------------------------------------------
(* Nobody who waits is forgotten: the safety half of CallersAnswered, for  *)
(* Stampede and for PriceOracle.                                           *)

\* A call that waits does so on a process that is up and has a flight, and a
\* process that died has none.
CallersHaveFlight ==
  /\ \A r \in Request : request[r].pc = "wait" =>
       request[r].at \in Node \ down /\ worker[request[r].at].pc # "none"
  /\ \A n \in down : n \in Node => worker[n].pc = "none"

\* Calls as the code makes them.
CallType == request = [r \in Request |-> [pc |-> request[r].pc, at |-> request[r].at]]

FetchInv == TokenType /\ CallType /\ CallersHaveFlight

\* A worker that goes on and is not the flight of a process that died.
LEMMA GoesToWaits ==
  ASSUME FetchInv, NEW w \in Worker, NEW pc, GoesTo(w, pc), pc # "none", w \notin down,
         UNCHANGED <<request, down>>
  PROVE  CallType' /\ CallersHaveFlight'
<1>1. worker'[w].pc = pc /\ \A v \in Worker : v # w => worker'[v] = worker[v]
  BY DEF GoesTo, FetchInv, TokenType
<1>2. CallersHaveFlight'
  BY <1>1 DEF FetchInv, CallersHaveFlight
<1> QED BY <1>2 DEF FetchInv, CallType

\* A flight that settles leaves no call behind.
LEMMA SettleWaits ==
  ASSUME FetchInv, NEW w \in Worker, Settle(w), UNCHANGED down
  PROVE  CallType' /\ CallersHaveFlight'
<1>1. worker'[w].pc = "none" /\ \A v \in Worker : v # w => worker'[v] = worker[v]
  BY DEF Settle, FetchInv, TokenType
<1>2. ASSUME NEW r \in Request
      PROVE  \/ request'[r] = request[r] /\ ~(request[r].pc = "wait" /\ request[r].at = w)
             \/ request'[r].pc = "done"
  <2>1. request[r] = [pc |-> request[r].pc, at |-> request[r].at]
    BY DEF FetchInv, CallType
  <2> QED BY <2>1 DEF Settle
<1>3. CallersHaveFlight'
  BY <1>1, <1>2 DEF FetchInv, CallersHaveFlight
<1>4. CallType'
  <2> SUFFICES ASSUME NEW r \in Request PROVE request'[r] = [pc |-> request'[r].pc, at |-> request'[r].at]
    BY DEF Settle, CallType
  <2>1. request[r] = [pc |-> request[r].pc, at |-> request[r].at]
    BY DEF FetchInv, CallType
  <2> QED BY <2>1 DEF Settle
<1> QED BY <1>3, <1>4

\* The worker of a process that died is at rest; a background refresh is no process's.
LEMMA WorkersAreUp == ASSUME FetchInv, NEW w \in Worker, worker[w].pc # "none", down \subseteq Node PROVE w \notin down
BY DEF FetchInv, CallersHaveFlight

LEMMA FetchWaits ==
  ASSUME FetchInv, down \subseteq Node, NEW r \in Request, NEW n \in Node, Fetch(r, n)
  PROVE  CallType' /\ CallersHaveFlight'
<1> DEFINE waits == [pc |-> "wait", at |-> n]
           done == [pc |-> "done", at |-> n]
<1>1. waits.pc = "wait" /\ waits.at = n /\ done.pc = "done" /\ n \in Worker \ down
  BY DEF Fetch
<1>2. request' = [request EXCEPT ![r] = done] \/ request' = [request EXCEPT ![r] = waits]
  BY DEF Fetch
<1>3. CallType'
  BY <1>2 DEF FetchInv, CallType
<1>4. CASE request' = [request EXCEPT ![r] = done]
  <2>1. UNCHANGED worker \/ triggerBackgroundRefresh \/ (At(n, "none") /\ GoesTo(n, "recheck"))
    BY DEF Fetch
  <2>2. \A v \in Worker : worker'[v].pc = worker[v].pc \/ (v \notin down /\ worker'[v].pc # "none")
    BY <1>1, <2>1 DEF triggerBackgroundRefresh, GoesTo, FetchInv, TokenType
  <2>3. \A q \in Request : request'[q] = request[q] \/ request'[q].pc = "done"
    BY <1>1, <1>4 DEF FetchInv, CallType
  <2> QED BY <1>3, <2>2, <2>3 DEF FetchInv, CallersHaveFlight, Fetch
<1>5. CASE request' = [request EXCEPT ![r] = waits]
  <2>1. IF At(n, "none") THEN GoesTo(n, "recheck") ELSE UNCHANGED worker
    <3>1. request' # [request EXCEPT ![r] = done]
      <4>1. request'[r] = waits
        BY <1>5 DEF FetchInv, CallType
      <4>2. [request EXCEPT ![r] = done][r] = done
        BY DEF FetchInv, CallType
      <4>3. waits # done
        BY <1>1
      <4> QED BY <4>1, <4>2, <4>3
    <3> QED BY <3>1 DEF Fetch
  <2>2. worker'[n].pc # "none" /\ \A v \in Worker : v # n => worker'[v] = worker[v]
    BY <1>1, <2>1 DEF At, GoesTo, FetchInv, TokenType
  <2>3. request'[r].pc = "wait" /\ request'[r].at = n /\ \A q \in Request : q # r => request'[q] = request[q]
    BY <1>1, <1>5 DEF FetchInv, CallType
  <2>4. UNCHANGED down
    BY DEF Fetch
  <2> HIDE DEF waits, done
  <2> QED BY <1>1, <1>3, <2>2, <2>3, <2>4 DEF FetchInv, CallersHaveFlight
<1> QED BY <1>2, <1>4, <1>5

LEMMA WorkerWaits ==
  ASSUME FetchInv, down \subseteq Node, NEW w \in Worker, WorkerStep(w)
  PROVE  CallType' /\ CallersHaveFlight'
<1>1. worker[w].pc # "none" /\ UNCHANGED down
  BY DEF WorkerStep, Look, acquireLock, WakeUp, Fetched, Store, releaseLock, At
<1>2. w \notin down
  BY <1>1, WorkersAreUp
<1>3. CASE Settle(w)
  BY <1>1, <1>3, SettleWaits
<1>4. CASE \E pc \in {"acquire", "asleep", "poll", "fetch", "store", "release"} : GoesTo(w, pc) /\ UNCHANGED request
  BY <1>1, <1>2, <1>4, GoesToWaits
<1>5. ASSUME NEW t \in Token, worker' = [worker EXCEPT ![w] = [pc |-> "fetch", token |-> t]], UNCHANGED request
      PROVE  CallType' /\ CallersHaveFlight'
  <2>1. worker'[w].pc = "fetch" /\ \A v \in Worker : v # w => worker'[v] = worker[v]
    BY <1>5 DEF FetchInv, TokenType
  <2> QED BY <1>1, <1>2, <1>5, <2>1 DEF FetchInv, CallType, CallersHaveFlight
<1>6. CASE acquireLock(w)
  BY <1>3, <1>4, <1>5, <1>6 DEF acquireLock
<1>7. CASE ~acquireLock(w)
  BY <1>3, <1>4, <1>7 DEF WorkerStep, Look, WakeUp, Fetched, Store, releaseLock
<1> QED BY <1>6, <1>7

LEMMA CrashWaits ==
  ASSUME FetchInv, NEW n \in Node, NodeCrashes(n)
  PROVE  CallType' /\ CallersHaveFlight'
<1>1. worker'[n].pc = "none" /\ \A v \in Worker : v # n => worker'[v] = worker[v]
  BY DEF NodeCrashes, FetchInv, TokenType
<1>2. ASSUME NEW r \in Request
      PROVE  /\ request'[r] = [pc |-> request'[r].pc, at |-> request'[r].at]
             /\ \/ request'[r] = request[r] /\ ~(request[r].pc = "wait" /\ request[r].at = n)
                \/ request'[r].pc = "cut"
  <2>1. request[r] = [pc |-> request[r].pc, at |-> request[r].at]
    BY DEF FetchInv, CallType
  <2> QED BY <2>1 DEF NodeCrashes
<1>3. CallType'
  BY <1>2 DEF CallType, NodeCrashes
<1> QED BY <1>1, <1>2, <1>3 DEF FetchInv, CallersHaveFlight, NodeCrashes

\* Every call that waits for a cached value waits for a flight of a process that is
\* up, so that settling it answers the call: no crash and no failed command leaves
\* a call waiting for a flight that is gone.
THEOREM CallsHaveFlights == StampedeSpec => []CallersHaveFlight
<1> DEFINE I == StampedeInv /\ CallType /\ CallersHaveFlight /\ down \subseteq Node
<1>1. StampedeInit => I
  BY StampedeInitInv DEF StampedeInit, CallType, CallersHaveFlight
<1>2. ASSUME I, [StampedeNext]_keyVars PROVE I'
  <2>1. FetchInv
    BY <1>2 DEF StampedeInv, FetchInv
  <2>2. CallType' /\ CallersHaveFlight'
    <3>1. CASE LockExpires \/ EntryAges \/ UNCHANGED keyVars
      BY <1>2, <3>1 DEF LockExpires, EntryAges, keyVars, CallType, CallersHaveFlight
    <3> QED BY <1>2, <2>1, <3>1, FetchWaits, WorkerWaits, CrashWaits DEF StampedeNext
  <2>3. down' \subseteq Node
    BY <1>2 DEF StampedeNext, Fetch, WorkerStep, Look, acquireLock, WakeUp, Fetched, Store, releaseLock,
       NodeCrashes, LockExpires, EntryAges, keyVars
  <2> QED BY <1>2, <2>2, <2>3, StampedeStepInv
<1> QED BY <1>1, <1>2, PTL DEF StampedeSpec

OracleSpec == OracleInit /\ [][OracleNext]_oracleVars

\* Every request and every refresh cycle that waits has a flight on its process.
WaitersHaveFlight ==
  /\ \A c \in Caller : call[c].pc = "wait" => call[c].at \in Process /\ flight[call[c].at].pc # "none"
  /\ \A p \in Process : refresh[p] = "wait" => flight[p].pc # "none"

\* Flights and calls as the code makes them.
OracleType ==
  /\ flight = [p \in Process |-> [pc |-> flight[p].pc, price |-> flight[p].price,
                                  down |-> flight[p].down, anomalous |-> flight[p].anomalous]]
  /\ call = [c \in Caller |-> [pc |-> call[c].pc, at |-> call[c].at, answer |-> call[c].answer]]
  /\ refresh = [p \in Process |-> refresh[p]]

OracleInv == OracleType /\ WaitersHaveFlight

\* A flight that goes on, or takes off.
LEMMA FlightKeeps ==
  ASSUME OracleInv, NEW p \in Process, NEW f, f.pc # "none", flight' = [flight EXCEPT ![p] = f],
         f = [pc |-> f.pc, price |-> f.price, down |-> f.down, anomalous |-> f.anomalous],
         UNCHANGED <<call, refresh>>
  PROVE  OracleInv'
<1>1. flight'[p] = f /\ \A q \in Process : q # p => flight'[q] = flight[q]
  BY DEF OracleInv, OracleType
<1>2. WaitersHaveFlight'
  BY <1>1 DEF OracleInv, WaitersHaveFlight
<1>3. OracleType'
  BY <1>1 DEF OracleInv, OracleType
<1> QED BY <1>2, <1>3 DEF OracleInv

\* A flight that lands answers everybody who waits for it, and nobody else.
LEMMA LandAnswers ==
  ASSUME OracleInv, NEW p \in Process, NEW price, Land(p, price), NEW c \in Caller
  PROVE  /\ call'[c] = [pc |-> call'[c].pc, at |-> call'[c].at, answer |-> call'[c].answer]
         /\ \/ call'[c] = call[c] /\ ~(call[c].pc = "wait" /\ call[c].at = p)
            \/ call'[c].pc = "done"
<1>1. call[c] = [pc |-> call[c].pc, at |-> call[c].at, answer |-> call[c].answer]
  BY DEF OracleInv, OracleType
<1> QED BY <1>1 DEF Land

LEMMA LandKeeps == ASSUME OracleInv, NEW p \in Process, NEW price, Land(p, price) PROVE OracleInv'
<1>1. flight'[p].pc = "none" /\ \A q \in Process : q # p => flight'[q] = flight[q]
  BY DEF Land, Landed, OracleInv, OracleType
<1>2. refresh'[p] = "idle" /\ \A q \in Process : q # p => refresh'[q] = refresh[q]
  BY DEF Land, OracleInv, OracleType
<1>3. \A c \in Caller :
        /\ call'[c] = [pc |-> call'[c].pc, at |-> call'[c].at, answer |-> call'[c].answer]
        /\ \/ call'[c] = call[c] /\ ~(call[c].pc = "wait" /\ call[c].at = p)
           \/ call'[c].pc = "done"
  BY LandAnswers
<1>4. WaitersHaveFlight'
  <2>1. ASSUME NEW c \in Caller, call'[c].pc = "wait"
        PROVE  call'[c].at \in Process /\ flight'[call'[c].at].pc # "none"
    <3>1. call'[c] = call[c] /\ call[c].at # p /\ call[c].pc = "wait"
      BY <1>3, <2>1
    <3>2. call[c].at \in Process /\ flight[call[c].at].pc # "none"
      BY <3>1 DEF OracleInv, WaitersHaveFlight
    <3> QED BY <1>1, <3>1, <3>2
  <2>2. ASSUME NEW q \in Process, refresh'[q] = "wait" PROVE flight'[q].pc # "none"
    <3>1. q # p /\ refresh[q] = "wait"
      BY <1>2, <2>2
    <3> QED BY <1>1, <3>1 DEF OracleInv, WaitersHaveFlight
  <2> QED BY <2>1, <2>2 DEF WaitersHaveFlight
<1>5. OracleType'
  <2>1. \A q \in Process : flight'[q] = [pc |-> flight'[q].pc, price |-> flight'[q].price,
                                         down |-> flight'[q].down, anomalous |-> flight'[q].anomalous]
    BY DEF Land, Landed, OracleInv, OracleType
  <2>2. flight' = [q \in Process |-> flight'[q]] /\ refresh' = [q \in Process |-> refresh'[q]]
    BY DEF Land, OracleInv, OracleType
  <2>3. call' = [c \in Caller |-> call'[c]]
    BY DEF Land
  <2> QED BY <1>3, <2>1, <2>2, <2>3 DEF OracleType
<1> QED BY <1>4, <1>5 DEF OracleInv

\* The fields of a flight that goes on to its next step.
LEMMA FlightGoesOn ==
  ASSUME OracleInv, NEW p \in Process, NEW pc, pc # "none", NEW price, NEW anomalous,
         \/ flight' = [flight EXCEPT ![p].pc = pc]
         \/ flight' = [flight EXCEPT ![p].pc = pc, ![p].price = price]
         \/ flight' = [flight EXCEPT ![p].pc = pc, ![p].anomalous = anomalous],
         UNCHANGED <<call, refresh>>
  PROVE  OracleInv'
<1> DEFINE moved == [pc |-> pc, price |-> flight[p].price, down |-> flight[p].down,
                     anomalous |-> flight[p].anomalous]
           priced == [pc |-> pc, price |-> price, down |-> flight[p].down,
                      anomalous |-> flight[p].anomalous]
           noted == [pc |-> pc, price |-> flight[p].price, down |-> flight[p].down,
                     anomalous |-> anomalous]
<1>1. flight[p] = [pc |-> flight[p].pc, price |-> flight[p].price, down |-> flight[p].down,
                   anomalous |-> flight[p].anomalous]
  BY DEF OracleInv, OracleType
<1>2. \/ flight' = [flight EXCEPT ![p] = moved]
      \/ flight' = [flight EXCEPT ![p] = priced]
      \/ flight' = [flight EXCEPT ![p] = noted]
  BY <1>1
<1> QED BY <1>2, FlightKeeps

LEMMA JoinKeeps ==
  ASSUME OracleInv, NEW p \in Process, NEW d \in BOOLEAN, Join(p, d)
  PROVE  /\ flight'[p].pc # "none"
         /\ \A q \in Process : flight[q].pc # "none" => flight'[q].pc # "none"
         /\ flight' = [q \in Process |-> [pc |-> flight'[q].pc, price |-> flight'[q].price,
                                          down |-> flight'[q].down, anomalous |-> flight'[q].anomalous]]
<1> DEFINE start == [pc |-> "sources", price |-> NoPrice, down |-> d, anomalous |-> FALSE]
<1> HIDE DEF start
<1>0. [Landed EXCEPT !.pc = "sources", !.down = d] = start
  <2> DEFINE landed == Landed
             n == [landed EXCEPT !.pc = "sources", !.down = d]
  <2>1. landed = Landed /\ n = [landed EXCEPT !.pc = "sources", !.down = d]
    OBVIOUS
  <2> HIDE DEF landed, n
  <2>2. n = start
    BY <2>1 DEF start, Landed
  <2> QED BY <2>2 DEF n, landed
<1>1. flight' = flight \/ flight' = [flight EXCEPT ![p] = start]
  BY <1>0 DEF Join
<1>2. flight[p].pc = "none" => flight' = [flight EXCEPT ![p] = start]
  BY <1>0 DEF Join
<1>3. \A q \in Process : flight'[q] = flight[q] \/ flight'[q] = start
  BY <1>1 DEF OracleInv, OracleType
<1>4. flight[p].pc = "none" => flight'[p] = start
  BY <1>2 DEF OracleInv, OracleType
<1>5. flight' = [q \in Process |-> flight'[q]]
  BY <1>1 DEF OracleInv, OracleType
<1>6. start.pc # "none" /\ start = [pc |-> start.pc, price |-> start.price, down |-> start.down,
                                     anomalous |-> start.anomalous]
  BY DEF start
<1>7. ASSUME NEW q \in Process
      PROVE  flight'[q] = [pc |-> flight'[q].pc, price |-> flight'[q].price,
                           down |-> flight'[q].down, anomalous |-> flight'[q].anomalous]
  <2>1. flight[q] = [pc |-> flight[q].pc, price |-> flight[q].price, down |-> flight[q].down,
                     anomalous |-> flight[q].anomalous]
    BY DEF OracleInv, OracleType
  <2> QED BY <2>1, <1>3, <1>6
<1> QED BY <1>3, <1>4, <1>5, <1>6, <1>7

LEMMA FlightStepKeeps == ASSUME OracleInv, NEW p \in Process, FlightStep(p) PROVE OracleInv'
<1>1. CASE FetchFromAllSources(p)
  <2>1. PICK price : DoFetchFreshPrice(p, price)
    BY <1>1 DEF FetchFromAllSources
  <2>2. CASE Land(p, price)
    BY <2>2, LandKeeps
  <2>3. CASE flight' = [flight EXCEPT ![p].pc = "history", ![p].price = price] /\ UNCHANGED <<call, refresh>>
    BY <2>3, FlightGoesOn
  <2> QED BY <2>1, <2>2, <2>3 DEF DoFetchFreshPrice
<1>2. CASE HistoryGet(p)
  BY <1>2, FlightGoesOn DEF HistoryGet
<1>3. CASE HistorySet(p)
  <2>1. PICK pc \in {"reject", "store"} : flight' = [flight EXCEPT ![p].pc = pc]
    BY <1>3 DEF HistorySet
  <2> QED BY <1>3, <2>1, FlightGoesOn DEF HistorySet
<1>4. CASE RejectAnomalous(p)
  <2>1. CASE Land(p, cached)
    BY <2>1, LandKeeps
  <2>2. CASE flight' = [flight EXCEPT ![p].pc = "store"] /\ UNCHANGED <<call, refresh>>
    BY <2>2, FlightGoesOn
  <2> QED BY <1>4, <2>1, <2>2 DEF RejectAnomalous
<1>5. CASE StorePrice(p)
  BY <1>5, LandKeeps DEF StorePrice
<1> QED BY <1>1, <1>2, <1>3, <1>4, <1>5 DEF FlightStep

LEMMA GetPriceKeeps == ASSUME OracleInv, NEW c \in Caller, NEW p \in Process, GetPrice(c, p) PROVE OracleInv'
<1>1. CASE call' = [call EXCEPT ![c] = [pc |-> "done", at |-> p, answer |-> cached]] /\ UNCHANGED <<flight, refresh>>
  BY <1>1 DEF OracleInv, OracleType, WaitersHaveFlight
<1>2. ASSUME NEW d \in BOOLEAN, Join(p, d), UNCHANGED refresh,
             call' = [call EXCEPT ![c] = [pc |-> "wait", at |-> p, answer |-> NoPrice]]
      PROVE  OracleInv'
  <2>1. OracleType'
    BY <1>2, JoinKeeps DEF OracleInv, OracleType
  <2>2. call'[c].at = p /\ \A b \in Caller : b # c => call'[b] = call[b]
    BY <1>2 DEF OracleInv, OracleType
  <2>3. WaitersHaveFlight'
    BY <1>2, <2>2, JoinKeeps DEF OracleInv, WaitersHaveFlight
  <2> QED BY <2>1, <2>3 DEF OracleInv
<1> QED BY <1>1, <1>2 DEF GetPrice

LEMMA RefreshTickKeeps == ASSUME OracleInv, NEW p \in Process, RefreshTick(p) PROVE OracleInv'
<1>1. /\ Join(p, FALSE) /\ UNCHANGED call
      /\ refresh' = [refresh EXCEPT ![p] = "wait"]
  BY DEF RefreshTick, RefreshAllCachedPrices
<1>2. OracleType'
  BY <1>1, JoinKeeps DEF OracleInv, OracleType
<1>3. \A q \in Process : q # p => refresh'[q] = refresh[q]
  BY <1>1 DEF OracleInv, OracleType
<1>4. WaitersHaveFlight'
  BY <1>1, <1>3, JoinKeeps DEF OracleInv, WaitersHaveFlight
<1> QED BY <1>2, <1>4 DEF OracleInv

\* Every getPrice() and every refresh cycle that waits has a flight on its process,
\* and is answered as it lands, whatever the sources and Redis do on the way.
THEOREM WaitersAreAnswered ==
  OracleSpec =>
    /\ []WaitersHaveFlight
    /\ [][\A c \in Caller : call[c].pc = "wait" /\ flight'[call[c].at].pc = "none" => call'[c].pc = "done"]_oracleVars
<1> DEFINE Answered == \A c \in Caller : call[c].pc = "wait" /\ flight'[call[c].at].pc = "none" => call'[c].pc = "done"
<1>1. OracleInit => OracleInv
  BY DEF OracleInit, OracleInv, OracleType, WaitersHaveFlight, Landed, NewCall
<1>2. ASSUME OracleInv, [OracleNext]_oracleVars PROVE OracleInv'
  <2>1. CASE UNCHANGED <<flight, call, refresh>>
    BY <1>2, <2>1 DEF OracleInv, OracleType, WaitersHaveFlight
  <2>2. CASE OracleNext
    BY <1>2, <2>1, <2>2, FlightStepKeeps, GetPriceKeeps, RefreshTickKeeps
    DEF OracleNext, MarketMoves, ExpireCached, ExpireReading, Cooldown
  <2> QED BY <1>2, <2>1, <2>2 DEF oracleVars
<1>3. OracleInv /\ OracleInv' /\ [OracleNext]_oracleVars => [Answered]_oracleVars
  <2> SUFFICES ASSUME OracleInv, OracleInv', [OracleNext]_oracleVars, NEW c \in Caller,
                      call[c].pc = "wait", flight'[call[c].at].pc = "none"
               PROVE  call'[c].pc = "done"
    OBVIOUS
  <2>1. call[c].at \in Process /\ flight[call[c].at].pc # "none"
    BY DEF OracleInv, WaitersHaveFlight
  <2>2. call'[c].pc # "wait" \/ call'[c].at # call[c].at
    BY DEF OracleInv, WaitersHaveFlight
  <2>3. call'[c] = call[c] \/ call'[c].pc = "done"
    <3>1. ASSUME NEW p \in Process, NEW price, Land(p, price) PROVE call'[c] = call[c] \/ call'[c].pc = "done"
      BY <3>1, LandAnswers
    <3>2. ASSUME NEW b \in Caller, NEW p \in Process, GetPrice(b, p) PROVE call'[c] = call[c]
      <4>1. b # c
        BY <3>2 DEF GetPrice
      <4> QED BY <3>2, <4>1 DEF GetPrice, OracleInv, OracleType
    <3>3. ASSUME NEW p \in Process, FlightStep(p) PROVE UNCHANGED call \/ \E price : Land(p, price)
      BY <3>3 DEF FlightStep, FetchFromAllSources, DoFetchFreshPrice, HistoryGet, HistorySet, RejectAnomalous,
         StorePrice
    <3> QED BY <3>1, <3>2, <3>3
        DEF OracleNext, oracleVars, MarketMoves, ExpireCached, ExpireReading, Cooldown, RefreshTick
  <2> QED BY <2>1, <2>2, <2>3
<1>4. OracleInv => WaitersHaveFlight
  BY DEF OracleInv
<1> QED BY <1>1, <1>2, <1>3, <1>4, PTL DEF OracleSpec

=============================================================================
