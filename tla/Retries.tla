------------------------------- MODULE Retries -------------------------------
(***************************************************************************)
(* The two retry loops: runWithRetry around a background job, with its     *)
(* dead-letter registry (jobs/retryWrapper.js), and queryWithRetry around  *)
(* a database query (database/queryRetry.js).                              *)
(*                                                                         *)
(* What an attempt throws is told apart only as the loops tell it apart:   *)
(* transient (retryable) or permanent.  The attempt may have had its       *)
(* effect all the same.                                                    *)
(***************************************************************************)
EXTENDS Naturals, Sequences, FiniteSets

CONSTANTS
  BackgroundJob,   \* jobs under runWithRetry
  Query,           \* queries under queryWithRetry
  Idempotent,      \* the jobs with isIdempotent
  MaxAttempts,     \* maxAttempts
  MaxQueryRetries, \* maxRetries
  DeadLetterCap,   \* 500 in the code
  MaxRounds        \* bound: runs of each job

ASSUME RetryConfig ==
  /\ Idempotent \subseteq BackgroundJob /\ BackgroundJob \cap Query = {}
  /\ MaxAttempts \in Nat \ {0} /\ MaxQueryRetries \in Nat
  /\ DeadLetterCap \in Nat \ {0} /\ MaxRounds \in Nat

VARIABLES
  loop,         \* the loop around each job or query
  deadLetters,  \* deadLetterRegistry: the job and the round that was given up
  effects,      \* history: effects of the current round
  doubtful,     \* history: an attempt of this round failed after its effect
  exhausted     \* history: rounds given up, in order

retryVars == <<loop, deadLetters, effects, doubtful, exhausted>>

Task == BackgroundJob \cup Query

RetriesInit ==
  /\ loop = [t \in Task |-> [pc |-> "idle", attempt |-> 0, round |-> 0]]
  /\ deadLetters = <<>> /\ exhausted = <<>>
  /\ effects = [t \in Task |-> 0] /\ doubtful = {}

\* A tick of a wrapped job (createRetryableJob), or a query.
StartLoop(t) ==
  /\ loop[t].pc = "idle" /\ loop[t].round < MaxRounds
  /\ loop' = [loop EXCEPT ![t] = [pc |-> "attempt", attempt |-> 1, round |-> @.round + 1]]
  /\ effects' = [effects EXCEPT ![t] = 0] /\ doubtful' = doubtful \ {t}
  /\ UNCHANGED <<deadLetters, exhausted>>

Succeeds(t) ==
  /\ loop[t].pc = "attempt"
  /\ effects' = [effects EXCEPT ![t] = @ + 1]
  /\ loop' = [loop EXCEPT ![t].pc = "idle"]
  /\ UNCHANGED <<deadLetters, doubtful, exhausted>>

\* The attempt throws, before its effect or after.
Throws(t) ==
  \E n \in {0, 1} :
    /\ effects' = [effects EXCEPT ![t] = @ + n]
    /\ doubtful' = IF n = 1 THEN doubtful \cup {t} ELSE doubtful

\* Rethrown at once: a permanent error, or a job not marked idempotent.
GivesUp_OnPermanent(t, transient) == ~transient

GivesUp(t, transient) == ~transient \/ (t \in BackgroundJob /\ t \notin Idempotent)

\* The end of the registry, at most the cap.
Bounded(seq) == IF Len(seq) > DeadLetterCap THEN Tail(seq) ELSE seq

\* runWithRetry's catch block, and its end when the attempts are exhausted.
JobThrows(t) ==
  LET entry == <<t, loop[t].round>> IN
  /\ t \in BackgroundJob /\ loop[t].pc = "attempt" /\ Throws(t)
  /\ \E transient \in BOOLEAN :
       \/ /\ GivesUp(t, transient)
          /\ loop' = [loop EXCEPT ![t].pc = "idle"]
          /\ UNCHANGED <<deadLetters, exhausted>>
       \/ /\ ~GivesUp(t, transient) /\ loop[t].attempt < MaxAttempts
          /\ loop' = [loop EXCEPT ![t].pc = "delay"]
          /\ UNCHANGED <<deadLetters, exhausted>>
       \/ /\ ~GivesUp(t, transient) /\ loop[t].attempt >= MaxAttempts
          /\ loop' = [loop EXCEPT ![t].pc = "idle"]
          /\ deadLetters' = Bounded(Append(deadLetters, entry))
          /\ exhausted' = Append(exhausted, entry)

\* queryWithRetry's catch block: attempts are counted from 0 to maxRetries.
QueryThrows(t) ==
  /\ t \in Query /\ loop[t].pc = "attempt" /\ Throws(t)
  /\ \E transient \in BOOLEAN :
       loop' = [loop EXCEPT ![t].pc = IF GivesUp(t, transient) \/ loop[t].attempt - 1 = MaxQueryRetries
                                      THEN "idle" ELSE "delay"]
  /\ UNCHANGED <<deadLetters, exhausted>>

\* The back-off is over.
NextAttempt(t) ==
  /\ loop[t].pc = "delay"
  /\ loop' = [loop EXCEPT ![t].pc = "attempt", ![t].attempt = @ + 1]
  /\ UNCHANGED <<deadLetters, effects, doubtful, exhausted>>

RetriesNext ==
  \E t \in Task : StartLoop(t) \/ Succeeds(t) \/ JobThrows(t) \/ QueryThrows(t) \/ NextAttempt(t)

-----------------------------------------------------------------------------

\* A job that is not idempotent has its effect at most once a round, whatever it
\* throws and when; anything else has it twice only after an attempt that failed
\* with its effect done, and never more often than the attempts allowed.
EffectsWithinBudget ==
  /\ \A t \in BackgroundJob \ Idempotent : effects[t] <= 1
  /\ \A t \in Task : effects[t] > 1 => t \in doubtful
  /\ \A t \in BackgroundJob : effects[t] <= MaxAttempts
  /\ \A t \in Query : effects[t] <= MaxQueryRetries + 1

\* The registry holds the last rounds that were given up, in order.
LatestFailuresKept ==
  LET n == Len(exhausted) k == Len(deadLetters) IN
  /\ k = (IF n < DeadLetterCap THEN n ELSE DeadLetterCap)
  /\ deadLetters = SubSeq(exhausted, n - k + 1, n)

RetriesSafe == EffectsWithinBudget /\ LatestFailuresKept

=============================================================================
