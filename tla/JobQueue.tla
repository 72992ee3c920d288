------------------------------ MODULE JobQueue ------------------------------
(***************************************************************************)
(* The Redis-backed queue of background jobs (services/jobQueue.js), with  *)
(* the e-mail queue on top of it (services/emailQueue.js) and the part of  *)
(* index.js that starts it, stops it, and answers an unhandled rejection   *)
(* by shutting the process down.                                           *)
(*                                                                         *)
(* A poll is one run of _processNext; the interval starts another whether  *)
(* or not the last has returned.                                           *)
(***************************************************************************)
EXTENDS Naturals, Sequences, FiniteSets

CONSTANTS
  Job,              \* jobs: an e-mail, a dispatch, a report
  Poll,             \* runs of _processNext that may overlap
  JobConcurrency,   \* concurrency
  MaxJobRetries,    \* MAX_RETRIES
  NoJob,
  MaxQueueFaults    \* bound: failed commands, exits and signals

ASSUME JobQueueConfig ==
  /\ JobConcurrency \in Nat \ {0} /\ MaxJobRetries \in Nat \ {0}
  /\ NoJob \notin Job /\ IsFiniteSet(Poll) /\ MaxQueueFaults \in Nat

VARIABLES
  queue,        \* jobs:queue, each with its attempts; next at the head
  processing,   \* jobs:processing
  poll,         \* the runs of _processNext
  activeJobs,
  waiting,      \* setTimeout of RETRY_DELAY_MS: jobs to be pushed again
  process,      \* "up", "stopping" or "down"
  accepted,     \* history: jobs whose enqueue was answered
  settled,      \* history: jobs done, or failed for good
  ran,          \* history: runs of each job's handler
  mislaid,      \* history: jobs lost by an exit, or by a failed push
  queueFaults

queueVars == <<queue, processing, poll, activeJobs, waiting, process, accepted, settled, ran,
               mislaid, queueFaults>>

Raw(j, n) == [job |-> j, attempts |-> n]
NoPoll == [pc |-> "idle", raw |-> Raw(NoJob, 0)]

QueueInit ==
  /\ queue = <<>> /\ processing = {}
  /\ poll = [p \in Poll |-> NoPoll]
  /\ activeJobs = 0 /\ waiting = {}
  /\ process = "up"
  /\ accepted = {} /\ settled = {} /\ mislaid = {}
  /\ ran = [j \in Job |-> 0]
  /\ queueFaults = 0

QueueWorks == UNCHANGED queueFaults
QueueBreaks == queueFaults < MaxQueueFaults /\ queueFaults' = queueFaults + 1

\* enqueue / queueEmail: LPUSH, or the caller gets the error.
Enqueue(j) ==
  /\ process # "down" /\ j \notin accepted
  /\ queue' = Append(queue, Raw(j, 0))
  /\ accepted' = accepted \cup {j}
  /\ UNCHANGED <<processing, poll, activeJobs, waiting, process, settled, ran, mislaid, queueFaults>>

\* The interval: _processNext up to its RPOPLPUSH.
PollBegins(p) ==
  /\ process = "up" /\ poll[p].pc = "idle"
  /\ activeJobs < JobConcurrency
  /\ poll' = [poll EXCEPT ![p].pc = "pop"]
  /\ UNCHANGED <<queue, processing, activeJobs, waiting, process, accepted, settled, ran, mislaid,
                 queueFaults>>

\* RPOPLPUSH: the counter goes up only now, after the check was made.
Pop(p) ==
  /\ poll[p].pc = "pop"
  /\ IF queue = <<>>
     THEN poll' = [poll EXCEPT ![p] = NoPoll] /\ UNCHANGED <<queue, processing, activeJobs>>
     ELSE /\ queue' = Tail(queue)
          /\ processing' = processing \cup {Head(queue)}
          /\ poll' = [poll EXCEPT ![p] = [pc |-> "run", raw |-> Head(queue)]]
          /\ activeJobs' = activeJobs + 1
  /\ UNCHANGED <<waiting, process, accepted, settled, ran, mislaid, queueFaults>>

\* _executeJob: the handler succeeds, is missing, or fails: again after a
\* delay, or for good.  The finally block counts down and goes on to LREM.
Execute_OneMore(p) ==
  LET j == poll[p].raw.job n == poll[p].raw.attempts + 1 IN
  /\ poll[p].pc = "run"
  /\ \/ settled' = settled \cup {j} /\ UNCHANGED waiting
     \/ n <= MaxJobRetries /\ waiting' = waiting \cup {Raw(j, n)} /\ UNCHANGED settled
     \/ n > MaxJobRetries /\ settled' = settled \cup {j} /\ UNCHANGED waiting
  /\ ran' = [ran EXCEPT ![j] = @ + 1]
  /\ activeJobs' = activeJobs - 1
  /\ poll' = [poll EXCEPT ![p].pc = "rem"]
  /\ UNCHANGED <<queue, processing, process, accepted, mislaid, queueFaults>>

Execute(p) ==
  LET j == poll[p].raw.job n == poll[p].raw.attempts + 1 IN
  /\ poll[p].pc = "run"
  /\ \/ settled' = settled \cup {j} /\ UNCHANGED waiting
     \/ n < MaxJobRetries /\ waiting' = waiting \cup {Raw(j, n)} /\ UNCHANGED settled
     \/ n >= MaxJobRetries /\ settled' = settled \cup {j} /\ UNCHANGED waiting
  /\ ran' = [ran EXCEPT ![j] = @ + 1]
  /\ activeJobs' = activeJobs - 1
  /\ poll' = [poll EXCEPT ![p].pc = "rem"]
  /\ UNCHANGED <<queue, processing, process, accepted, mislaid, queueFaults>>

RemoveProcessed(p) ==
  /\ poll[p].pc = "rem"
  /\ processing' = processing \ {poll[p].raw}
  /\ poll' = [poll EXCEPT ![p] = NoPoll]
  /\ UNCHANGED <<queue, activeJobs, waiting, process, accepted, settled, ran, mislaid, queueFaults>>

\* The retry timer: LPUSH; a failure is logged and the job is gone.
Requeue ==
  /\ \E w \in waiting :
       /\ waiting' = waiting \ {w}
       /\ \/ QueueWorks /\ queue' = Append(queue, w) /\ UNCHANGED mislaid
          \/ QueueBreaks /\ mislaid' = mislaid \cup {w.job} /\ UNCHANGED queue
  /\ UNCHANGED <<processing, poll, activeJobs, process, accepted, settled, ran>>

-----------------------------------------------------------------------------

\* Nobody handles the rejection of _processNext: an RPOPLPUSH or LREM that
\* fails shuts the process down.  A failed RPOPLPUSH may have moved the job.
CommandRejected(p) ==
  /\ poll[p].pc \in {"pop", "rem"} /\ QueueBreaks
  /\ process' = "stopping"
  /\ poll' = [poll EXCEPT ![p] = NoPoll]
  /\ \/ UNCHANGED <<queue, processing, mislaid>>
     \/ /\ poll[p].pc = "pop" /\ queue # <<>>
        /\ queue' = Tail(queue) /\ processing' = processing \cup {Head(queue)}
        /\ mislaid' = mislaid \cup {Head(queue).job}
  /\ UNCHANGED <<activeJobs, waiting, accepted, settled, ran>>

\* A signal: stop() ends the interval and waits for nobody.
StopQueue ==
  /\ process = "up" /\ QueueBreaks
  /\ process' = "stopping"
  /\ UNCHANGED <<queue, processing, poll, activeJobs, waiting, accepted, settled, ran, mislaid>>

\* The process exits, after its shutdown or without one.
Exit ==
  /\ \/ process = "stopping" /\ QueueWorks
     \/ process = "up" /\ QueueBreaks
  /\ process' = "down"
  /\ mislaid' = mislaid \cup {w.job : w \in waiting}
                        \cup {poll[p].raw.job : p \in {q \in Poll : poll[q].pc = "run"}}
  /\ poll' = [p \in Poll |-> NoPoll] /\ activeJobs' = 0 /\ waiting' = {}
  /\ UNCHANGED <<queue, processing, accepted, settled, ran>>

\* The next process starts the queue; jobs:processing is not looked at.
Restart ==
  /\ process = "down"
  /\ process' = "up"
  /\ UNCHANGED <<queue, processing, poll, activeJobs, waiting, accepted, settled, ran, mislaid, queueFaults>>

QueueNext ==
  \/ \E j \in Job : Enqueue(j)
  \/ \E p \in Poll : PollBegins(p) \/ Pop(p) \/ Execute(p) \/ RemoveProcessed(p) \/ CommandRejected(p)
  \/ Requeue \/ StopQueue \/ Exit \/ Restart

-----------------------------------------------------------------------------

Queued == {queue[i].job : i \in DOMAIN queue}
Running == {poll[p].raw.job : p \in {q \in Poll : poll[q].pc = "run"}}

\* An accepted job is queued, running or waiting for its retry until it is
\* settled, through stops and restarts; an exit while it runs or waits, or a
\* command that failed, is the only way to lose it.
JobsKept ==
  accepted \subseteq settled \cup mislaid \cup Queued \cup Running \cup {w.job : w \in waiting}

\* No job runs in two polls at once, more often than it may be retried, or after
\* it was settled; and activeJobs counts the runs, however polls overlap or fail.
RunsBounded ==
  /\ \A j \in Job : ran[j] <= MaxJobRetries
  /\ \A p, q \in Poll : poll[p].pc = "run" /\ poll[q].pc = "run" /\ p # q
                          => poll[p].raw.job # poll[q].raw.job
  /\ Running \cap settled = {}
  /\ activeJobs = Cardinality({p \in Poll : poll[p].pc = "run"})

\* Every job that services/jobQueue.js accepted is kept until it is settled, and
\* runs no more often, and no more at once, than it may.
JobsSettle == JobsKept /\ RunsBounded

=============================================================================
