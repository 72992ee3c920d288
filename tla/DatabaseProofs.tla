--------------------------- MODULE DatabaseProofs ---------------------------
(* Machine-checked proofs about the database layer, for every value of the *)
(* constants: the retry loops, the connection pool, the migration runner,  *)
(* the query cache, stable pagination, and transactions with their         *)
(* versioned edits.                                                        *)
EXTENDS Database, Migrations, QueryCache, Pagination, FiniteSetTheorems, SequenceTheorems, TLAPS

-----------------------------------------------------------------------------
(* Retries (jobs/retryWrapper.js, database/queryRetry.js)                  *)

LoopPlaces == {"idle", "attempt", "delay"}
LoopRecord == [pc : LoopPlaces, attempt : Nat, round : Nat]
Entry == Task \X Nat

RetriesType ==
  /\ loop \in [Task -> LoopRecord]
  /\ effects \in [Task -> Nat] /\ doubtful \subseteq Task
  /\ deadLetters \in Seq(Entry) /\ exhausted \in Seq(Entry)

\* The attempts the loop around t may take.
Budget(t) == IF t \in BackgroundJob THEN MaxAttempts ELSE MaxQueryRetries + 1

\* Each attempt so far had its effect at most once, and one that failed with its
\* effect is on record.
WithinBudget(t) ==
  /\ effects[t] <= Budget(t)
  /\ effects[t] > 1 => t \in doubtful
  /\ t \in BackgroundJob \ Idempotent => effects[t] <= 1 /\ loop[t].pc # "delay"
  /\ loop[t].pc = "attempt" =>
       /\ loop[t].attempt <= Budget(t) /\ effects[t] < loop[t].attempt
       /\ effects[t] > 0 => t \in doubtful
       /\ t \in BackgroundJob \ Idempotent => effects[t] = 0
  /\ loop[t].pc = "delay" =>
       /\ loop[t].attempt < Budget(t) /\ effects[t] <= loop[t].attempt
       /\ effects[t] > 0 => t \in doubtful

\* The registry, entry by entry.
Kept ==
  /\ Len(deadLetters) = (IF Len(exhausted) < DeadLetterCap THEN Len(exhausted) ELSE DeadLetterCap)
  /\ \A i \in 1 .. Len(deadLetters) : deadLetters[i] = exhausted[Len(exhausted) - Len(deadLetters) + i]

RetriesInv == RetriesType /\ (\A t \in Task : WithinBudget(t)) /\ Kept

LEMMA BudgetType == \A t \in Task : Budget(t) \in Nat \ {0}
BY RetryConfig DEF Budget

LEMMA RetriesInitInv == RetriesInit => RetriesInv
<1> SUFFICES ASSUME RetriesInit PROVE RetriesInv
  OBVIOUS
<1>1. RetriesType
  BY DEF RetriesInit, RetriesType, LoopRecord, LoopPlaces
<1>2. \A t \in Task : WithinBudget(t)
  <2>1. \A t \in Task : loop[t].pc = "idle" /\ effects[t] = 0
    BY DEF RetriesInit
  <2> QED BY <2>1, BudgetType DEF WithinBudget
<1>3. Len(deadLetters) = 0 /\ Len(exhausted) = 0
  BY DEF RetriesInit
<1>4. Kept
  BY <1>3, RetryConfig DEF Kept
<1> QED BY <1>1, <1>2, <1>4 DEF RetriesInv

-----------------------------------------------------------------------------

\* The loop of t alone moves, to new; e effects are added and those of d doubted.
LoopTo(t, new) == new \in LoopRecord /\ loop' = [loop EXCEPT ![t] = new]

LEMMA LoopsMove ==
  ASSUME RetriesInv, NEW t \in Task, NEW new, LoopTo(t, new), NEW e \in Nat,
         effects' = [effects EXCEPT ![t] = e], doubtful' \subseteq Task,
         doubtful \ {t} \subseteq doubtful',
         WithinBudget(t)', deadLetters' \in Seq(Entry), exhausted' \in Seq(Entry), Kept'
  PROVE  RetriesInv'
<1>1. RetriesType'
  BY DEF RetriesInv, RetriesType, LoopTo
<1>2. \A u \in Task \ {t} : loop'[u] = loop[u] /\ effects'[u] = effects[u] /\ (u \in doubtful => u \in doubtful')
  BY DEF RetriesInv, RetriesType, LoopTo
<1>3. \A u \in Task \ {t} : WithinBudget(u)'
  BY <1>2 DEF RetriesInv, WithinBudget, Budget
<1> QED BY <1>1, <1>3 DEF RetriesInv

LEMMA LoopIs ==
  ASSUME RetriesInv, NEW t \in Task
  PROVE  /\ loop[t] \in LoopRecord /\ loop[t].pc \in LoopPlaces /\ loop[t].attempt \in Nat
         /\ loop[t].round \in Nat /\ effects[t] \in Nat
BY DEF RetriesInv, RetriesType, LoopRecord

LEMMA LoopMoved ==
  ASSUME RetriesInv, NEW t \in Task, NEW new, LoopTo(t, new), NEW e \in Nat,
         effects' = [effects EXCEPT ![t] = e]
  PROVE  loop'[t] = new /\ effects'[t] = e
BY DEF RetriesInv, RetriesType, LoopTo

\* A field of the loop is changed.
LEMMA PcTo ==
  ASSUME RetriesInv, NEW t \in Task, NEW p \in LoopPlaces, loop' = [loop EXCEPT ![t].pc = p]
  PROVE  \E new \in LoopRecord : /\ LoopTo(t, new) /\ new.pc = p /\ new.attempt = loop[t].attempt
                                 /\ new.round = loop[t].round
<1> DEFINE new == [loop[t] EXCEPT !.pc = p]
<1>1. loop[t] \in LoopRecord
  BY LoopIs
<1>2. new \in LoopRecord /\ new.pc = p /\ new.attempt = loop[t].attempt /\ new.round = loop[t].round
  BY <1>1 DEF LoopRecord
<1>3. loop' = [loop EXCEPT ![t] = new]
  BY DEF RetriesInv, RetriesType
<1> HIDE DEF new
<1> QED BY <1>2, <1>3 DEF LoopTo

LEMMA StartKeeps == ASSUME RetriesInv, NEW t \in Task, StartLoop(t) PROVE RetriesInv'
<1> DEFINE new == [pc |-> "attempt", attempt |-> 1, round |-> loop[t].round + 1]
<1>1. /\ loop' = [loop EXCEPT ![t] = new] /\ effects' = [effects EXCEPT ![t] = 0]
      /\ doubtful' = doubtful \ {t} /\ UNCHANGED <<deadLetters, exhausted>>
  BY DEF StartLoop, RetriesInv, RetriesType
<1>2. new \in LoopRecord /\ new.pc = "attempt" /\ new.attempt = 1
  BY LoopIs DEF LoopRecord, LoopPlaces
<1> HIDE DEF new
<1>3. LoopTo(t, new) /\ 0 \in Nat
  BY <1>1, <1>2 DEF LoopTo
<1>4. loop'[t] = new /\ effects'[t] = 0
  BY <1>1, <1>3, LoopMoved
<1>5. WithinBudget(t)'
  <2>1. Budget(t) \in Nat \ {0} /\ Budget(t)' = Budget(t)
    BY BudgetType DEF Budget
  <2> QED BY <1>2, <1>4, <2>1 DEF WithinBudget
<1>6. Kept' /\ deadLetters' \in Seq(Entry) /\ exhausted' \in Seq(Entry) /\ doubtful' \subseteq Task
  BY <1>1 DEF RetriesInv, RetriesType, Kept
<1> QED BY <1>1, <1>3, <1>5, <1>6, LoopsMove

LEMMA SucceedsKeeps == ASSUME RetriesInv, NEW t \in Task, Succeeds(t) PROVE RetriesInv'
<1>1. /\ loop[t].pc = "attempt" /\ loop' = [loop EXCEPT ![t].pc = "idle"]
      /\ effects' = [effects EXCEPT ![t] = effects[t] + 1]
      /\ UNCHANGED <<deadLetters, doubtful, exhausted>>
  BY DEF Succeeds, RetriesInv, RetriesType
<1>2. "idle" \in LoopPlaces /\ effects[t] \in Nat /\ loop[t].attempt \in Nat
  BY LoopIs DEF LoopPlaces
<1>3. PICK new \in LoopRecord : LoopTo(t, new) /\ new.pc = "idle"
  BY <1>1, <1>2, PcTo
<1>4. PICK e \in Nat : e = effects[t] + 1
  BY <1>2
<1>5. loop'[t] = new /\ effects'[t] = e
  BY <1>1, <1>3, <1>4, LoopMoved
<1>6. WithinBudget(t)'
  <2>1. Budget(t) \in Nat \ {0} /\ Budget(t)' = Budget(t) /\ WithinBudget(t)
    BY BudgetType DEF Budget, RetriesInv
  <2> QED BY <1>1, <1>2, <1>3, <1>4, <1>5, <2>1 DEF WithinBudget
<1>7. Kept' /\ deadLetters' \in Seq(Entry) /\ exhausted' \in Seq(Entry) /\ doubtful' \subseteq Task
  BY <1>1 DEF RetriesInv, RetriesType, Kept
<1> QED BY <1>1, <1>3, <1>4, <1>6, <1>7, LoopsMove

LEMMA NextAttemptKeeps == ASSUME RetriesInv, NEW t \in Task, NextAttempt(t) PROVE RetriesInv'
<1> DEFINE new == [loop[t] EXCEPT !.pc = "attempt", !.attempt = loop[t].attempt + 1]
<1>1. /\ loop[t].pc = "delay" /\ loop' = [loop EXCEPT ![t] = new]
      /\ effects' = [effects EXCEPT ![t] = effects[t]]
      /\ UNCHANGED <<deadLetters, doubtful, exhausted>>
  BY DEF NextAttempt, RetriesInv, RetriesType
<1>2. /\ loop[t] \in LoopRecord /\ "attempt" \in LoopPlaces /\ effects[t] \in Nat /\ loop[t].attempt \in Nat
      /\ loop[t].attempt + 1 \in Nat
  BY LoopIs DEF LoopPlaces
<1>3. new \in LoopRecord /\ new.pc = "attempt" /\ new.attempt = loop[t].attempt + 1
  BY <1>2 DEF LoopRecord
<1> HIDE DEF new
<1>4. LoopTo(t, new)
  BY <1>1, <1>3 DEF LoopTo
<1>5. PICK e \in Nat : e = effects[t]
  BY <1>2
<1>6. loop'[t] = new /\ effects'[t] = e
  BY <1>1, <1>4, <1>5, LoopMoved
<1>7. WithinBudget(t)'
  <2>1. Budget(t) \in Nat \ {0} /\ Budget(t)' = Budget(t) /\ WithinBudget(t)
    BY BudgetType DEF Budget, RetriesInv
  <2> QED BY <1>1, <1>2, <1>3, <1>5, <1>6, <2>1 DEF WithinBudget
<1>8. Kept' /\ deadLetters' \in Seq(Entry) /\ exhausted' \in Seq(Entry) /\ doubtful' \subseteq Task
  BY <1>1 DEF RetriesInv, RetriesType, Kept
<1> QED BY <1>1, <1>4, <1>5, <1>7, <1>8, LoopsMove

\* An attempt that threw, after its effect or before: the loop ends or, within its
\* budget and for what may run again, waits.
LEMMA ThrowsKeeps ==
  ASSUME RetriesInv, NEW t \in Task, loop[t].pc = "attempt", Throws(t), NEW p \in {"idle", "delay"},
         loop' = [loop EXCEPT ![t].pc = p],
         p = "delay" => loop[t].attempt < Budget(t) /\ t \notin BackgroundJob \ Idempotent,
         deadLetters' \in Seq(Entry), exhausted' \in Seq(Entry), Kept'
  PROVE  RetriesInv'
<1>1. PICK n \in {0, 1} : /\ effects' = [effects EXCEPT ![t] = effects[t] + n]
                          /\ doubtful' = IF n = 1 THEN doubtful \cup {t} ELSE doubtful
  BY DEF Throws, RetriesInv, RetriesType
<1>2. p \in LoopPlaces /\ effects[t] \in Nat /\ loop[t].attempt \in Nat
  BY LoopIs DEF LoopPlaces
<1>3. PICK new \in LoopRecord : LoopTo(t, new) /\ new.pc = p /\ new.attempt = loop[t].attempt
  BY <1>2, PcTo
<1>4. PICK e \in Nat : e = effects[t] + n
  BY <1>2
<1>5. loop'[t] = new /\ effects'[t] = e
  BY <1>1, <1>3, <1>4, LoopMoved
<1>6. WithinBudget(t)'
  <2>1. Budget(t) \in Nat \ {0} /\ Budget(t)' = Budget(t) /\ WithinBudget(t)
    BY BudgetType DEF Budget, RetriesInv
  <2>2. e > 0 => t \in doubtful'
    BY <1>1, <1>2, <1>4, <2>1 DEF WithinBudget
  <2> QED BY <1>2, <1>3, <1>4, <1>5, <2>1, <2>2 DEF WithinBudget
<1>7. doubtful' \subseteq Task /\ doubtful \ {t} \subseteq doubtful'
  BY <1>1 DEF RetriesInv, RetriesType
<1> QED BY <1>1, <1>3, <1>4, <1>6, <1>7, LoopsMove

\* The registry takes one entry more, and lets go of the oldest at its cap.
LEMMA RegistryKeeps ==
  ASSUME RetriesInv, NEW last \in Entry, deadLetters' = Bounded(Append(deadLetters, last)),
         exhausted' = Append(exhausted, last)
  PROVE  Kept' /\ deadLetters' \in Seq(Entry) /\ exhausted' \in Seq(Entry)
<1>0. deadLetters \in Seq(Entry) /\ exhausted \in Seq(Entry) /\ Kept /\ DeadLetterCap \in Nat \ {0}
  BY RetryConfig DEF RetriesInv, RetriesType
<1>k. PICK n \in Nat, k \in Nat : n = Len(exhausted) /\ k = Len(deadLetters)
  BY <1>0
<1> DEFINE more == Append(deadLetters, last)
<1>1. /\ more \in Seq(Entry) /\ Len(more) = k + 1 /\ k \in Nat /\ n \in Nat
      /\ \A i \in 1 .. k : more[i] = deadLetters[i]
      /\ more[k + 1] = last
  BY <1>0, <1>k
<1>2. /\ exhausted' \in Seq(Entry) /\ Len(exhausted') = n + 1
      /\ \A i \in 1 .. n : exhausted'[i] = exhausted[i]
      /\ exhausted'[n + 1] = last
  BY <1>0, <1>k
<1>3. k <= n /\ \A i \in 1 .. k : n - k + i \in 1 .. n /\ deadLetters[i] = exhausted[n - k + i]
  <2>1. k = IF n < DeadLetterCap THEN n ELSE DeadLetterCap
    BY <1>0, <1>k DEF Kept
  <2>2. k <= n
    BY <1>0, <2>1
  <2>3. \A i \in 1 .. k : n - k + i \in 1 .. n
    BY <2>2
  <2>4. \A i \in 1 .. k : deadLetters[i] = exhausted[n - k + i]
    BY <1>0, <1>k DEF Kept
  <2> QED BY <2>2, <2>3, <2>4
<1>4. \A i \in 1 .. k + 1 : more[i] = exhausted'[n - k + i]
  <2> SUFFICES ASSUME NEW i \in 1 .. k + 1 PROVE more[i] = exhausted'[n - k + i]
    OBVIOUS
  <2>1. CASE i = k + 1
    <3>1. n - k + i = n + 1
      BY <1>1, <2>1
    <3> QED BY <1>1, <1>2, <2>1, <3>1
  <2>2. CASE i # k + 1
    <3>1. i \in 1 .. k
      BY <1>1, <2>2
    <3> QED BY <1>1, <1>2, <1>3, <3>1
  <2> QED BY <2>1, <2>2
<1> HIDE DEF more
<1>5. CASE Len(more) > DeadLetterCap
  <2>1. deadLetters' = Tail(more) /\ more # <<>>
    <3>1. more # <<>>
      BY <1>1
    <3>2. deadLetters' = IF Len(more) > DeadLetterCap THEN Tail(more) ELSE more
      BY DEF Bounded, more
    <3> QED BY <1>5, <3>1, <3>2
  <2>2. /\ Tail(more) \in Seq(Entry) /\ Len(Tail(more)) = k
        /\ \A i \in 1 .. k : Tail(more)[i] = more[i + 1]
    BY <1>1, <2>1, HeadTailProperties
  <2>3. k = DeadLetterCap /\ n >= DeadLetterCap
    BY <1>0, <1>1, <1>5, <1>k DEF Kept
  <2>4. \A i \in 1 .. k : Tail(more)[i] = exhausted'[n + 1 - k + i]
    <3> SUFFICES ASSUME NEW i \in 1 .. k PROVE Tail(more)[i] = exhausted'[n + 1 - k + i]
      OBVIOUS
    <3>1. i + 1 \in 1 .. k + 1 /\ n - k + (i + 1) = n + 1 - k + i
      BY <1>1
    <3> QED BY <1>4, <2>2, <3>1
  <2>5. Len(deadLetters') = k /\ ~(n + 1 < DeadLetterCap)
    BY <1>0, <2>1, <2>2, <2>3
  <2>6. \A i \in 1 .. Len(deadLetters') :
          deadLetters'[i] = exhausted'[Len(exhausted') - Len(deadLetters') + i]
    <3>1. \A i \in 1 .. k : deadLetters'[i] = exhausted'[n + 1 - k + i]
      BY <2>1, <2>4, Zenon
    <3>2. Len(exhausted') = n + 1 /\ Len(deadLetters') = k
      BY <1>2, <2>5
    <3>3. \A i \in 1 .. k : Len(exhausted') - Len(deadLetters') + i = n + 1 - k + i
      BY <3>2
    <3> QED BY <3>1, <3>2, <3>3, Zenon
  <2>7. Len(deadLetters') = IF Len(exhausted') < DeadLetterCap THEN Len(exhausted') ELSE DeadLetterCap
    BY <1>2, <2>3, <2>5
  <2> QED BY <1>2, <2>1, <2>2, <2>6, <2>7 DEF Kept
<1>6. CASE ~(Len(more) > DeadLetterCap)
  <2>1. deadLetters' = more
    BY <1>6 DEF Bounded, more
  <2>2. k = n /\ k + 1 <= DeadLetterCap
    BY <1>0, <1>1, <1>6, <1>k DEF Kept
  <2>3. \A i \in 1 .. k + 1 : more[i] = exhausted'[(n + 1) - (k + 1) + i]
    <3>1. \A i \in 1 .. k + 1 : n - k + i = (n + 1) - (k + 1) + i
      BY <1>1
    <3> QED BY <1>4, <3>1
  <2>4. n + 1 = IF n + 1 < DeadLetterCap THEN n + 1 ELSE DeadLetterCap
    BY <1>0, <2>2
  <2>5. Len(deadLetters') = k + 1 /\ k + 1 = n + 1
    BY <1>1, <2>1, <2>2
  <2> QED BY <1>1, <1>2, <2>1, <2>3, <2>4, <2>5 DEF Kept
<1> QED BY <1>5, <1>6

LEMMA JobThrowsKeeps == ASSUME RetriesInv, NEW t \in Task, JobThrows(t) PROVE RetriesInv'
<1>0. t \in BackgroundJob /\ loop[t].pc = "attempt" /\ Throws(t) /\ Budget(t) = MaxAttempts
  BY DEF JobThrows, Budget
<1>1. Kept /\ deadLetters \in Seq(Entry) /\ exhausted \in Seq(Entry)
  BY DEF RetriesInv, RetriesType
<1>2. PICK transient \in BOOLEAN :
       \/ /\ GivesUp(t, transient)
          /\ loop' = [loop EXCEPT ![t].pc = "idle"]
          /\ UNCHANGED <<deadLetters, exhausted>>
       \/ /\ ~GivesUp(t, transient) /\ loop[t].attempt < MaxAttempts
          /\ loop' = [loop EXCEPT ![t].pc = "delay"]
          /\ UNCHANGED <<deadLetters, exhausted>>
       \/ /\ loop' = [loop EXCEPT ![t].pc = "idle"]
          /\ deadLetters' = Bounded(Append(deadLetters, <<t, loop[t].round>>))
          /\ exhausted' = Append(exhausted, <<t, loop[t].round>>)
  BY DEF JobThrows
<1>3. CASE /\ loop' = [loop EXCEPT ![t].pc = "idle"]
           /\ UNCHANGED <<deadLetters, exhausted>>
  <2>1. Kept' /\ deadLetters' \in Seq(Entry) /\ exhausted' \in Seq(Entry)
    BY <1>1, <1>3 DEF Kept
  <2> QED BY <1>0, <1>3, <2>1, ThrowsKeeps
<1>4. CASE /\ ~GivesUp(t, transient) /\ loop[t].attempt < MaxAttempts
           /\ loop' = [loop EXCEPT ![t].pc = "delay"]
           /\ UNCHANGED <<deadLetters, exhausted>>
  <2>1. Kept' /\ deadLetters' \in Seq(Entry) /\ exhausted' \in Seq(Entry)
    BY <1>1, <1>4 DEF Kept
  <2>2. t \notin BackgroundJob \ Idempotent
    BY <1>4 DEF GivesUp
  <2> QED BY <1>0, <1>4, <2>1, <2>2, ThrowsKeeps
<1>5. CASE /\ loop' = [loop EXCEPT ![t].pc = "idle"]
           /\ deadLetters' = Bounded(Append(deadLetters, <<t, loop[t].round>>))
           /\ exhausted' = Append(exhausted, <<t, loop[t].round>>)
  <2>1. PICK last \in Entry : last = <<t, loop[t].round>>
    BY LoopIs DEF Entry
  <2>2. Kept' /\ deadLetters' \in Seq(Entry) /\ exhausted' \in Seq(Entry)
    BY <1>5, <2>1, RegistryKeeps
  <2> QED BY <1>0, <1>5, <2>2, ThrowsKeeps
<1> QED BY <1>2, <1>3, <1>4, <1>5

LEMMA QueryThrowsKeeps == ASSUME RetriesInv, NEW t \in Task, QueryThrows(t) PROVE RetriesInv'
<1>0. /\ t \in Query /\ loop[t].pc = "attempt" /\ Throws(t) /\ UNCHANGED <<deadLetters, exhausted>>
  BY DEF QueryThrows
<1>1. t \notin BackgroundJob /\ Budget(t) = MaxQueryRetries + 1 /\ MaxQueryRetries \in Nat
  BY <1>0, RetryConfig DEF Budget
<1>2. Kept' /\ deadLetters' \in Seq(Entry) /\ exhausted' \in Seq(Entry)
  BY <1>0 DEF RetriesInv, RetriesType, Kept
<1>3. loop[t].attempt \in Nat /\ loop[t].attempt >= 1 /\ loop[t].attempt <= Budget(t)
  BY <1>0, LoopIs DEF RetriesInv, WithinBudget
<1>4. PICK p \in {"idle", "delay"} : /\ loop' = [loop EXCEPT ![t].pc = p]
                                     /\ p = "delay" => loop[t].attempt - 1 # MaxQueryRetries
  <2>1. PICK transient \in BOOLEAN :
          loop' = [loop EXCEPT ![t].pc = IF GivesUp(t, transient) \/ loop[t].attempt - 1 = MaxQueryRetries
                                         THEN "idle" ELSE "delay"]
    BY DEF QueryThrows
  <2>2. CASE GivesUp(t, transient) \/ loop[t].attempt - 1 = MaxQueryRetries
    <3>1. loop' = [loop EXCEPT ![t].pc = "idle"]
      BY <2>1, <2>2
    <3> QED BY <3>1
  <2>3. CASE ~(GivesUp(t, transient) \/ loop[t].attempt - 1 = MaxQueryRetries)
    <3>1. loop' = [loop EXCEPT ![t].pc = "delay"]
      BY <2>1, <2>3
    <3> QED BY <2>3, <3>1
  <2> QED BY <2>2, <2>3
<1>5. p = "delay" => loop[t].attempt < Budget(t)
  BY <1>1, <1>3, <1>4
<1> QED BY <1>0, <1>1, <1>2, <1>4, <1>5, ThrowsKeeps

LEMMA RetriesStep == RetriesInv /\ [RetriesNext]_retryVars => RetriesInv'
<1> SUFFICES ASSUME RetriesInv, [RetriesNext]_retryVars PROVE RetriesInv'
  OBVIOUS
<1>1. ASSUME NEW t \in Task,
             StartLoop(t) \/ Succeeds(t) \/ JobThrows(t) \/ QueryThrows(t) \/ NextAttempt(t)
      PROVE  RetriesInv'
  BY <1>1, StartKeeps, SucceedsKeeps, JobThrowsKeeps, QueryThrowsKeeps, NextAttemptKeeps
<1>2. CASE UNCHANGED retryVars
  BY <1>2 DEF retryVars, RetriesInv, RetriesType, WithinBudget, Budget, Kept
<1> QED BY <1>1, <1>2 DEF RetriesNext

LEMMA RetriesSafeFollows == RetriesInv => RetriesSafe
<1> SUFFICES ASSUME RetriesInv PROVE RetriesSafe
  OBVIOUS
<1>1. EffectsWithinBudget
  <2>1. \A t \in BackgroundJob : t \in Task /\ Budget(t) = MaxAttempts
    BY DEF Task, Budget
  <2>2. \A t \in Query : t \in Task /\ Budget(t) = MaxQueryRetries + 1
    BY RetryConfig DEF Task, Budget
  <2>3. \A t \in Task : WithinBudget(t)
    BY DEF RetriesInv
  <2> QED BY <2>1, <2>2, <2>3 DEF EffectsWithinBudget, WithinBudget
<1>2. LatestFailuresKept
  <2>0. /\ deadLetters \in Seq(Entry) /\ exhausted \in Seq(Entry) /\ Kept /\ DeadLetterCap \in Nat
    BY RetryConfig DEF RetriesInv, RetriesType
  <2>1. PICK n \in Nat, k \in Nat : n = Len(exhausted) /\ k = Len(deadLetters) /\ k <= n
    BY <2>0 DEF Kept
  <2>2. \A i \in n - k + 1 .. n : exhausted[i] \in Entry
    BY <2>0, <2>1, ElementOfSeq
  <2>3. PICK s : s = SubSeq(exhausted, n - k + 1, n)
    OBVIOUS
  <2>4. n - k + 1 \in Int /\ n \in Int
    BY <2>1
  <2>5. /\ s \in Seq(Entry)
        /\ Len(s) = IF n - k + 1 <= n THEN n - (n - k + 1) + 1 ELSE 0
        /\ \A i \in 1 .. n - (n - k + 1) + 1 : s[i] = exhausted[n - k + 1 + i - 1]
    BY <2>2, <2>3, <2>4, SubSeqProperties
  <2>6. Len(s) = k /\ \A i \in 1 .. k : s[i] = exhausted[n - k + i]
    BY <2>1, <2>5
  <2>7. \A i \in 1 .. k : deadLetters[i] = s[i]
    BY <2>0, <2>1, <2>6 DEF Kept
  <2>8. deadLetters = s
    BY <2>0, <2>1, <2>5, <2>6, <2>7, SeqEqual
  <2> QED BY <2>0, <2>1, <2>3, <2>8 DEF LatestFailuresKept, Kept
<1> QED BY <1>1, <1>2 DEF RetriesSafe

\* The two retry loops, for any jobs, queries and limits: no effect beyond the
\* attempts allowed, none twice unless an attempt failed with its effect done, and
\* the registry of jobs/retryWrapper.js holds the latest rounds given up, in order.
THEOREM RetriesAreSafe == RetriesSpec => []RetriesSafe
<1>1. RetriesSpec => []RetriesInv
  BY RetriesInitInv, RetriesStep, PTL DEF RetriesSpec
<1> QED BY <1>1, RetriesSafeFollows, PTL

-----------------------------------------------------------------------------
(* ConnectionPool (database/index.js and its pool monitor)                 *)

Pool == 1 .. MaxPools
BorrowPlaces == {"idle", "acquiring", "using"}
BorrowRecord == [pc : BorrowPlaces, pool : Pool \cup {NoPool}]
CounterRecord == [requests : Nat, successes : Nat, failures : Nat, releases : Nat]
ForgottenRecord == [waits : Nat, uses : Nat]

PoolType ==
  /\ pools \in 0 .. MaxPools
  /\ db \in 1 .. pools \cup {NoPool} /\ watched \in 1 .. pools \cup {NoPool}
  /\ open \subseteq 1 .. pools
  /\ used \in [Pool -> Nat]
  /\ borrower \in [Borrower -> BorrowRecord]
  /\ closer \in [Closer -> 1 .. pools \cup {NoPool}]
  /\ timers \subseteq Borrower
  /\ counters \in CounterRecord /\ forgotten \in ForgottenRecord

\* A call is on a pool that was created, unless it is idle.
OnPool(k) == IF k.pc = "idle" THEN k.pool = NoPool ELSE k.pool \in 1 .. pools

\* Each connection is counted where it was taken.
UsesCounted == \A p \in Pool : used[p] = Cardinality(At("using", p))

\* Unless two closeDb met, there is one, and it destroys the shared instance.
OneCloser ==
  closesMet \/
    /\ \A c, d \in Closer : closer[c] # NoPool /\ closer[d] # NoPool => c = d
    /\ \A c \in Closer : closer[c] # NoPool => db = closer[c]
    /\ open \subseteq {db} \cup Destroying

Watches == db \in open \ Destroying => watched = db
Tallied ==
  /\ counters.requests = counters.successes + counters.failures + Cardinality(timers) + forgotten.waits
  /\ counters.successes = counters.releases + Cardinality(At("using", watched)) + forgotten.uses

PoolInv ==
  /\ PoolType /\ \A u \in Borrower : OnPool(borrower[u])
  /\ UsesCounted /\ OneCloser /\ Watches
  /\ timers = At("acquiring", watched)
  /\ Tallied

-----------------------------------------------------------------------------

LEMMA AtIs ==
  ASSUME PoolType, NEW pc \in BorrowPlaces, NEW p \in Pool \cup {NoPool}
  PROVE  /\ IsFiniteSet(At(pc, p)) /\ Cardinality(At(pc, p)) \in Nat
         /\ At(pc, p) = {u \in Borrower : borrower[u].pc = pc /\ borrower[u].pool = p}
<1>1. At(pc, p) \subseteq Borrower
  BY DEF At
<1>2. ASSUME NEW u \in Borrower
      PROVE borrower[u] = [pc |-> pc, pool |-> p] <=> borrower[u].pc = pc /\ borrower[u].pool = p
  <2>1. borrower[u] \in [pc : BorrowPlaces, pool : Pool \cup {NoPool}]
    BY DEF PoolType, BorrowRecord
  <2> QED BY <2>1
<1>3. At(pc, p) = {u \in Borrower : borrower[u].pc = pc /\ borrower[u].pool = p}
  BY <1>2 DEF At
<1> QED BY <1>1, <1>3, PoolConfig, FS_Subset, FS_CardinalityType

LEMMA IdleRecord == NotBorrowing \in BorrowRecord /\ NotBorrowing.pc = "idle" /\ NotBorrowing.pool = NoPool
BY DEF NotBorrowing, BorrowRecord, BorrowPlaces

LEMMA PoolInitInv == PoolInit => PoolInv
<1> SUFFICES ASSUME PoolInit PROVE PoolInv
  OBVIOUS
<1>1. \A u \in Borrower : borrower[u] = NotBorrowing
  BY DEF PoolInit
<1>2. PoolType
  <2>1. pools \in 0 .. MaxPools
    BY PoolConfig DEF PoolInit
  <2>2. counters \in CounterRecord /\ forgotten \in ForgottenRecord
    BY DEF PoolInit, CounterRecord, ForgottenRecord
  <2> QED BY <2>1, <2>2, IdleRecord DEF PoolInit, PoolType, Pool
<1>3. \A u \in Borrower : OnPool(borrower[u])
  BY <1>1, IdleRecord DEF OnPool
<1>4. \A p \in Pool \cup {NoPool} : At("using", p) = {} /\ At("acquiring", p) = {}
  <2>1. "using" \in BorrowPlaces /\ "acquiring" \in BorrowPlaces
    BY DEF BorrowPlaces
  <2> QED BY <1>1, <1>2, <2>1, IdleRecord, AtIs
<1>5. Cardinality({}) = 0
  BY FS_EmptySet
<1>6. UsesCounted
  BY <1>4, <1>5 DEF UsesCounted, PoolInit, Pool
<1>7. timers = At("acquiring", watched) /\ At("using", watched) = {}
  BY <1>4 DEF PoolInit
<1>8. Tallied
  <2>1. /\ counters.requests = 0 /\ counters.successes = 0 /\ counters.failures = 0 /\ counters.releases = 0
        /\ forgotten.waits = 0 /\ forgotten.uses = 0 /\ timers = {}
    BY DEF PoolInit
  <2> QED BY <1>5, <1>7, <2>1 DEF Tallied
<1>9. OneCloser /\ Watches
  BY DEF PoolInit, OneCloser, Watches
<1> QED BY <1>2, <1>3, <1>6, <1>7, <1>8, <1>9 DEF PoolInv

-----------------------------------------------------------------------------

\* The call u alone moves, to place q on pool p.
Borrows(u, q, p) ==
  /\ borrower' \in [Borrower -> BorrowRecord]
  /\ \A v \in Borrower \ {u} : borrower'[v] = borrower[v]
  /\ borrower'[u].pc = q /\ borrower'[u].pool = p

LEMMA BorrowsAt ==
  ASSUME PoolType, PoolType', NEW u \in Borrower, NEW q \in BorrowPlaces, NEW p \in Pool \cup {NoPool},
         Borrows(u, q, p), NEW r \in BorrowPlaces, NEW x \in Pool \cup {NoPool}
  PROVE  At(r, x)' = IF r = q /\ x = p THEN At(r, x) \cup {u} ELSE At(r, x) \ {u}
<1>1. At(r, x) = {v \in Borrower : borrower[v].pc = r /\ borrower[v].pool = x}
  BY AtIs
<1>2. At(r, x)' = {v \in Borrower : borrower'[v].pc = r /\ borrower'[v].pool = x}
  <2>1. ASSUME NEW v \in Borrower
        PROVE borrower'[v] = [pc |-> r, pool |-> x] <=> borrower'[v].pc = r /\ borrower'[v].pool = x
    <3>1. borrower'[v] \in [pc : BorrowPlaces, pool : Pool \cup {NoPool}]
      BY DEF PoolType, BorrowRecord
    <3> QED BY <3>1
  <2> QED BY <2>1 DEF At
<1> QED BY <1>1, <1>2 DEF Borrows

LEMMA SharedKeeps ==
  ASSUME PoolInv, UNCHANGED <<db, open, closer, watched, closesMet>>
  PROVE  OneCloser' /\ Watches'
<1>1. Destroying' = Destroying
  BY DEF Destroying
<1> QED BY <1>1 DEF PoolInv, OneCloser, Watches

\* What it leaves has one call less, what it comes to one more.
LEMMA BorrowsCounts ==
  ASSUME PoolType, PoolType', NEW u \in Borrower, NEW q \in BorrowPlaces, NEW p \in Pool \cup {NoPool},
         Borrows(u, q, p), ~(borrower[u].pc = q /\ borrower[u].pool = p),
         NEW r \in BorrowPlaces, NEW x \in Pool \cup {NoPool}
  PROVE  /\ Cardinality(At(r, x)) \in Nat
         /\ r = q /\ x = p => Cardinality(At(r, x)') = Cardinality(At(r, x)) + 1
         /\ borrower[u].pc = r /\ borrower[u].pool = x =>
              Cardinality(At(r, x)) >= 1 /\ Cardinality(At(r, x)') = Cardinality(At(r, x)) - 1
         /\ ~(r = q /\ x = p) /\ ~(borrower[u].pc = r /\ borrower[u].pool = x) => At(r, x)' = At(r, x)
<1>1. /\ IsFiniteSet(At(r, x)) /\ Cardinality(At(r, x)) \in Nat
      /\ u \in At(r, x) <=> borrower[u].pc = r /\ borrower[u].pool = x
  BY AtIs
<1>2. At(r, x)' = IF r = q /\ x = p THEN At(r, x) \cup {u} ELSE At(r, x) \ {u}
  BY BorrowsAt
<1>3. CASE r = q /\ x = p
  <2>1. u \notin At(r, x) /\ At(r, x)' = At(r, x) \cup {u}
    BY <1>1, <1>2, <1>3
  <2>2. Cardinality(At(r, x)') = Cardinality(At(r, x)) + 1
    BY <1>1, <2>1, FS_AddElement
  <2> QED BY <1>1, <1>3, <2>1, <2>2
<1>4. CASE u \in At(r, x)
  <2>1. At(r, x)' = At(r, x) \ {u}
    BY <1>1, <1>2, <1>4
  <2>2. Cardinality(At(r, x)') = Cardinality(At(r, x)) - 1 /\ IsFiniteSet(At(r, x)')
    BY <1>1, <1>4, <2>1, FS_RemoveElement, FS_Subset
  <2>3. Cardinality(At(r, x)') \in Nat
    BY <2>2, FS_CardinalityType
  <2> QED BY <1>1, <1>4, <2>2, <2>3
<1>5. CASE ~(r = q /\ x = p) /\ u \notin At(r, x)
  BY <1>1, <1>2, <1>5
<1> QED BY <1>3, <1>4, <1>5

LEMMA OpenNumbered == ASSUME PoolInv PROVE NoPool \notin open
<1>1. 1 .. pools \subseteq Nat /\ open \subseteq 1 .. pools
  BY DEF PoolInv, PoolType
<1> QED BY <1>1, PoolConfig

LEMMA BorrowerTo ==
  ASSUME PoolType, NEW u \in Borrower, NEW new \in BorrowRecord, borrower' = [borrower EXCEPT ![u] = new]
  PROVE  Borrows(u, new.pc, new.pool)
BY DEF PoolType, Borrows

LEMMA BorrowerIs ==
  ASSUME PoolInv, NEW u \in Borrower
  PROVE  /\ borrower[u] \in BorrowRecord /\ borrower[u].pc \in BorrowPlaces
         /\ borrower[u].pool \in Pool \cup {NoPool}
         /\ borrower[u].pc # "idle" => borrower[u].pool \in 1 .. pools /\ borrower[u].pool \in Pool
         /\ borrower[u].pc = "idle" => borrower[u].pool = NoPool
<1>1. borrower[u] \in BorrowRecord /\ OnPool(borrower[u]) /\ pools \in 0 .. MaxPools
  BY DEF PoolInv, PoolType
<1>2. 1 .. pools \subseteq Pool
  BY <1>1, PoolConfig DEF Pool
<1> QED BY <1>1, <1>2 DEF BorrowRecord, OnPool

LEMMA Places == {"idle", "acquiring", "using"} \subseteq BorrowPlaces /\ NoPool \notin Pool
BY PoolConfig DEF BorrowPlaces, Pool

\* What the monitor counts, once more.
LEMMA CountersTo ==
  ASSUME PoolType
  PROVE  /\ [counters EXCEPT !.requests = @ + 1] \in CounterRecord
         /\ [counters EXCEPT !.requests = @ + 1].requests = counters.requests + 1
         /\ [counters EXCEPT !.requests = @ + 1].successes = counters.successes
         /\ [counters EXCEPT !.requests = @ + 1].failures = counters.failures
         /\ [counters EXCEPT !.requests = @ + 1].releases = counters.releases
         /\ [counters EXCEPT !.successes = @ + 1] \in CounterRecord
         /\ [counters EXCEPT !.successes = @ + 1].requests = counters.requests
         /\ [counters EXCEPT !.successes = @ + 1].successes = counters.successes + 1
         /\ [counters EXCEPT !.successes = @ + 1].failures = counters.failures
         /\ [counters EXCEPT !.successes = @ + 1].releases = counters.releases
         /\ [counters EXCEPT !.failures = @ + 1] \in CounterRecord
         /\ [counters EXCEPT !.failures = @ + 1].requests = counters.requests
         /\ [counters EXCEPT !.failures = @ + 1].successes = counters.successes
         /\ [counters EXCEPT !.failures = @ + 1].failures = counters.failures + 1
         /\ [counters EXCEPT !.failures = @ + 1].releases = counters.releases
         /\ [counters EXCEPT !.releases = @ + 1] \in CounterRecord
         /\ [counters EXCEPT !.releases = @ + 1].requests = counters.requests
         /\ [counters EXCEPT !.releases = @ + 1].successes = counters.successes
         /\ [counters EXCEPT !.releases = @ + 1].failures = counters.failures
         /\ [counters EXCEPT !.releases = @ + 1].releases = counters.releases + 1
BY DEF PoolType, CounterRecord

LEMMA NumbersAre ==
  ASSUME PoolType
  PROVE  /\ counters.requests \in Nat /\ counters.successes \in Nat /\ counters.failures \in Nat
         /\ counters.releases \in Nat /\ forgotten.waits \in Nat /\ forgotten.uses \in Nat
         /\ watched \in Pool \cup {NoPool} /\ db \in Pool \cup {NoPool} /\ 1 .. pools \subseteq Pool
         /\ pools \in Nat /\ (watched # NoPool => watched \in 1 .. pools) /\ (db # NoPool => db \in 1 .. pools)
<1>1. counters \in CounterRecord /\ forgotten \in ForgottenRecord /\ pools \in 0 .. MaxPools
      /\ db \in 1 .. pools \cup {NoPool} /\ watched \in 1 .. pools \cup {NoPool}
  BY DEF PoolType
<1>2. 1 .. pools \subseteq Pool
  BY <1>1, PoolConfig DEF Pool
<1> QED BY <1>1, <1>2 DEF CounterRecord, ForgottenRecord

\* A call moves from r on pool p to q, on the same pool or on none.
LEMMA acquireSuccessKeeps ==
  ASSUME PoolInv, NEW u \in Borrower, acquireSuccess(u) PROVE PoolInv'
<1>0. /\ borrower[u].pc = "acquiring" /\ borrower[u] \in BorrowRecord
      /\ borrower' = [borrower EXCEPT ![u].pc = "using"]
      /\ UNCHANGED <<db, pools, open, closer, requested, closesMet, watched, forgotten>>
  BY BorrowerIs DEF acquireSuccess, Heard
<1>1. PICK p \in Pool : /\ p = borrower[u].pool /\ p \in 1 .. pools
                        /\ used' = [used EXCEPT ![p] = @ + 1]
                        /\ counters' = (IF watched = p THEN [counters EXCEPT !.successes = @ + 1] ELSE counters)
                        /\ timers' = IF watched = p THEN timers \ {u} ELSE timers
  BY <1>0, BorrowerIs DEF acquireSuccess, Heard
<1> DEFINE new == [borrower[u] EXCEPT !.pc = "using"]
<1>2. new \in BorrowRecord /\ new.pc = "using" /\ new.pool = p
  BY <1>0, <1>1, Places DEF BorrowRecord
<1>3. borrower' = [borrower EXCEPT ![u] = new]
  BY <1>0 DEF PoolInv, PoolType
<1> HIDE DEF new
<1>4. Borrows(u, "using", p)
  BY <1>2, <1>3, BorrowerTo DEF PoolInv
<1>5. PoolType'
  <2>1. counters' \in CounterRecord
    BY <1>1, CountersTo DEF PoolInv, PoolType
  <2>2. used' \in [Pool -> Nat] /\ timers' \subseteq Borrower
    BY <1>1 DEF PoolInv, PoolType
  <2> QED BY <1>0, <1>4, <2>1, <2>2 DEF PoolInv, PoolType, Borrows
<1>6. \A v \in Borrower : OnPool(borrower[v])'
  BY <1>0, <1>1, <1>4 DEF PoolInv, OnPool, Borrows
<1>7. \A x \in Pool \cup {NoPool} :
        /\ Cardinality(At("using", x)) \in Nat /\ Cardinality(At("acquiring", x)) \in Nat
        /\ x # p => At("using", x)' = At("using", x) /\ At("acquiring", x)' = At("acquiring", x)
        /\ x = p => /\ Cardinality(At("using", x)') = Cardinality(At("using", x)) + 1
                    /\ Cardinality(At("acquiring", x)) >= 1
                    /\ Cardinality(At("acquiring", x)') = Cardinality(At("acquiring", x)) - 1
                    /\ At("acquiring", x)' = At("acquiring", x) \ {u}
  <2>1. PoolType
    BY DEF PoolInv
  <2> QED BY <1>0, <1>1, <1>4, <1>5, <2>1, Places, BorrowsCounts, BorrowsAt
<1>8. UsesCounted'
  <2>1. \A x \in Pool : used'[x] = IF x = p THEN used[x] + 1 ELSE used[x]
    BY <1>1 DEF PoolInv, PoolType
  <2> QED BY <1>7, <2>1 DEF PoolInv, UsesCounted
<1>9. watched \in Pool \cup {NoPool} /\ timers = At("acquiring", watched) /\ Tallied
  BY NumbersAre DEF PoolInv
<1>10. timers' = At("acquiring", watched)'
  <2>1. CASE watched = p
    BY <1>0, <1>1, <1>7, <1>9, <2>1
  <2>2. CASE watched # p
    BY <1>0, <1>1, <1>7, <1>9, <2>2
  <2> QED BY <2>1, <2>2
<1>11. Tallied'
  <2>1. CASE watched = p
    <3>1. /\ Cardinality(timers') = Cardinality(timers) - 1
          /\ Cardinality(timers) \in Nat
          /\ Cardinality(At("using", watched)') = Cardinality(At("using", watched)) + 1
          /\ Cardinality(At("using", watched)) \in Nat
      BY <1>0, <1>7, <1>9, <1>10, <2>1
    <3>2. /\ counters'.requests = counters.requests /\ counters'.successes = counters.successes + 1
          /\ counters'.failures = counters.failures /\ counters'.releases = counters.releases
      BY <1>1, <2>1, CountersTo DEF PoolInv
    <3> QED BY <1>0, <1>9, <3>1, <3>2, NumbersAre DEF Tallied, PoolInv
  <2>2. CASE watched # p
    BY <1>0, <1>1, <1>7, <1>9, <2>2 DEF Tallied
  <2> QED BY <2>1, <2>2
<1> QED BY <1>0, <1>5, <1>6, <1>8, <1>10, <1>11, SharedKeeps DEF PoolInv

LEMMA acquireFailKeeps ==
  ASSUME PoolInv, NEW u \in Borrower, acquireFail(u) PROVE PoolInv'
<1>0. /\ borrower[u].pc = "acquiring"
      /\ borrower' = [borrower EXCEPT ![u] = NotBorrowing]
      /\ UNCHANGED <<db, pools, open, used, closer, requested, closesMet, watched, forgotten>>
  BY DEF acquireFail, Heard
<1>1. PICK p \in Pool : /\ p = borrower[u].pool
                        /\ counters' = (IF watched = p THEN [counters EXCEPT !.failures = @ + 1] ELSE counters)
                        /\ timers' = IF watched = p THEN timers \ {u} ELSE timers
  BY <1>0, BorrowerIs DEF acquireFail, Heard
<1>2. Borrows(u, "idle", NoPool)
  BY <1>0, IdleRecord, BorrowerTo DEF PoolInv
<1>3. PoolType'
  <2>1. counters' \in CounterRecord
    BY <1>1, CountersTo DEF PoolInv, PoolType
  <2> QED BY <1>0, <1>1, <1>2, <2>1 DEF PoolInv, PoolType, Borrows
<1>4. \A v \in Borrower : OnPool(borrower[v])'
  BY <1>0, <1>2 DEF PoolInv, OnPool, Borrows
<1>5. \A x \in Pool \cup {NoPool} :
        /\ Cardinality(At("using", x)) \in Nat /\ Cardinality(At("acquiring", x)) \in Nat
        /\ At("using", x)' = At("using", x)
        /\ x # p => At("acquiring", x)' = At("acquiring", x)
        /\ x = p => /\ Cardinality(At("acquiring", x)) >= 1
                    /\ Cardinality(At("acquiring", x)') = Cardinality(At("acquiring", x)) - 1
                    /\ At("acquiring", x)' = At("acquiring", x) \ {u}
  <2>1. PoolType /\ NoPool \in Pool \cup {NoPool} /\ p # NoPool
    BY Places DEF PoolInv
  <2> QED BY <1>0, <1>1, <1>2, <1>3, <2>1, Places, BorrowsCounts, BorrowsAt
<1>6. UsesCounted'
  BY <1>0, <1>5 DEF PoolInv, UsesCounted
<1>7. watched \in Pool \cup {NoPool} /\ timers = At("acquiring", watched) /\ Tallied
  BY NumbersAre DEF PoolInv
<1>8. timers' = At("acquiring", watched)'
  <2>1. CASE watched = p
    BY <1>0, <1>1, <1>5, <1>7, <2>1
  <2>2. CASE watched # p
    BY <1>0, <1>1, <1>5, <1>7, <2>2
  <2> QED BY <2>1, <2>2
<1>9. Tallied'
  <2>1. CASE watched = p
    <3>1. /\ Cardinality(timers') = Cardinality(timers) - 1
          /\ Cardinality(timers) \in Nat
          /\ Cardinality(At("using", watched)') = Cardinality(At("using", watched))
          /\ Cardinality(At("using", watched)) \in Nat
      BY <1>0, <1>5, <1>7, <1>8, <2>1
    <3>2. /\ counters'.requests = counters.requests /\ counters'.successes = counters.successes
          /\ counters'.failures = counters.failures + 1 /\ counters'.releases = counters.releases
      BY <1>1, <2>1, CountersTo DEF PoolInv
    <3> QED BY <1>0, <1>7, <3>1, <3>2, NumbersAre DEF Tallied, PoolInv
  <2>2. CASE watched # p
    BY <1>0, <1>1, <1>5, <1>7, <2>2 DEF Tallied
  <2> QED BY <2>1, <2>2
<1> QED BY <1>0, <1>3, <1>4, <1>6, <1>8, <1>9, SharedKeeps DEF PoolInv

LEMMA releaseKeeps ==
  ASSUME PoolInv, NEW u \in Borrower, releaseConnection(u) PROVE PoolInv'
<1>0. /\ borrower[u].pc = "using"
      /\ borrower' = [borrower EXCEPT ![u] = NotBorrowing]
      /\ UNCHANGED <<db, pools, open, closer, requested, closesMet, watched, forgotten>>
  BY DEF releaseConnection, Heard
<1>1. PICK p \in Pool : /\ p = borrower[u].pool
                        /\ used' = [used EXCEPT ![p] = @ - 1]
                        /\ counters' = (IF watched = p THEN [counters EXCEPT !.releases = @ + 1] ELSE counters)
                        /\ timers' = IF watched = p THEN timers \ {u} ELSE timers
  BY <1>0, BorrowerIs, Places DEF releaseConnection, ReturnsTo, Heard
<1>2. Borrows(u, "idle", NoPool)
  BY <1>0, IdleRecord, BorrowerTo DEF PoolInv
<1>3. used[p] = Cardinality(At("using", p)) /\ used[p] >= 1 /\ used[p] \in Nat
  <2>1. u \in At("using", p) /\ IsFiniteSet(At("using", p)) /\ Cardinality(At("using", p)) \in Nat
    BY <1>0, <1>1, AtIs, Places DEF PoolInv
  <2>2. Cardinality(At("using", p)) # 0
    BY <2>1, FS_EmptySet
  <2> QED BY <2>1, <2>2 DEF PoolInv, UsesCounted
<1>4. used' \in [Pool -> Nat] /\ \A x \in Pool : used'[x] = IF x = p THEN used[x] - 1 ELSE used[x]
  BY <1>1, <1>3 DEF PoolInv, PoolType
<1>5. PoolType'
  <2>1. counters' \in CounterRecord
    BY <1>1, CountersTo DEF PoolInv, PoolType
  <2> QED BY <1>0, <1>1, <1>2, <1>4, <2>1 DEF PoolInv, PoolType, Borrows
<1>6. \A v \in Borrower : OnPool(borrower[v])'
  BY <1>0, <1>2 DEF PoolInv, OnPool, Borrows
<1>7. \A x \in Pool \cup {NoPool} :
        /\ Cardinality(At("using", x)) \in Nat /\ Cardinality(At("acquiring", x)) \in Nat
        /\ At("acquiring", x)' = At("acquiring", x)
        /\ x # p => At("using", x)' = At("using", x)
        /\ x = p => /\ Cardinality(At("using", x)) >= 1
                    /\ Cardinality(At("using", x)') = Cardinality(At("using", x)) - 1
        /\ u \notin At("acquiring", x)
  <2>1. PoolType /\ NoPool \in Pool \cup {NoPool} /\ p # NoPool
    BY Places DEF PoolInv
  <2> QED BY <1>0, <1>1, <1>2, <1>5, <2>1, Places, BorrowsCounts, AtIs
<1>8. UsesCounted'
  BY <1>4, <1>7 DEF PoolInv, UsesCounted
<1>9. watched \in Pool \cup {NoPool} /\ timers = At("acquiring", watched) /\ Tallied
  BY NumbersAre DEF PoolInv
<1>10. timers' = timers /\ timers' = At("acquiring", watched)'
  BY <1>0, <1>1, <1>7, <1>9
<1>11. Tallied'
  <2>1. CASE watched = p
    <3>1. /\ Cardinality(At("using", watched)') = Cardinality(At("using", watched)) - 1
          /\ Cardinality(At("using", watched)) \in Nat /\ Cardinality(timers) \in Nat
      BY <1>0, <1>7, <1>9, <2>1
    <3>2. /\ counters'.requests = counters.requests /\ counters'.successes = counters.successes
          /\ counters'.failures = counters.failures /\ counters'.releases = counters.releases + 1
      BY <1>1, <2>1, CountersTo DEF PoolInv
    <3> QED BY <1>0, <1>9, <1>10, <3>1, <3>2, NumbersAre DEF Tallied, PoolInv
  <2>2. CASE watched # p
    BY <1>0, <1>1, <1>7, <1>9, <1>10, <2>2 DEF Tallied
  <2> QED BY <2>1, <2>2
<1> QED BY <1>0, <1>5, <1>6, <1>8, <1>10, <1>11, SharedKeeps DEF PoolInv

LEMMA withConnectionKeeps ==
  ASSUME PoolInv, NEW u \in Borrower, withConnection(u) PROVE PoolInv'
<1>0. /\ borrower[u].pc = "idle" /\ db # NoPool
      /\ UNCHANGED <<db, pools, open, used, closer, watched, forgotten, closesMet>>
  BY DEF withConnection
<1>1. PICK p \in Pool : /\ p = db /\ p \in 1 .. pools
                        /\ borrower' = [borrower EXCEPT ![u] = [pc |-> "acquiring", pool |-> p]]
                        /\ timers' = (IF watched = p THEN timers \cup {u} ELSE timers)
                        /\ counters' = IF watched = p THEN [counters EXCEPT !.requests = @ + 1] ELSE counters
  BY <1>0, NumbersAre DEF withConnection, acquireRequest, PoolInv
<1> DEFINE new == [pc |-> "acquiring", pool |-> p]
<1>2. new \in BorrowRecord /\ new.pc = "acquiring" /\ new.pool = p
  BY Places DEF BorrowRecord
<1> HIDE DEF new
<1>3. Borrows(u, "acquiring", p)
  BY <1>1, <1>2, BorrowerTo DEF PoolInv, new
<1>4. PoolType'
  <2>1. counters' \in CounterRecord
    BY <1>1, CountersTo DEF PoolInv, PoolType
  <2> QED BY <1>0, <1>1, <1>3, <2>1 DEF PoolInv, PoolType, Borrows
<1>5. \A v \in Borrower : OnPool(borrower[v])'
  BY <1>0, <1>1, <1>3 DEF PoolInv, OnPool, Borrows
<1>6. \A x \in Pool \cup {NoPool} :
        /\ Cardinality(At("using", x)) \in Nat /\ Cardinality(At("acquiring", x)) \in Nat
        /\ At("using", x)' = At("using", x)
        /\ x # p => At("acquiring", x)' = At("acquiring", x)
        /\ x = p => /\ Cardinality(At("acquiring", x)') = Cardinality(At("acquiring", x)) + 1
                    /\ At("acquiring", x)' = At("acquiring", x) \cup {u}
  <2>1. PoolType
    BY DEF PoolInv
  <2> QED BY <1>0, <1>3, <1>4, <2>1, Places, BorrowsCounts, BorrowsAt
<1>7. UsesCounted'
  BY <1>0, <1>6 DEF PoolInv, UsesCounted
<1>8. watched \in Pool \cup {NoPool} /\ timers = At("acquiring", watched) /\ Tallied
  BY NumbersAre DEF PoolInv
<1>9. timers' = At("acquiring", watched)'
  <2>1. CASE watched = p
    BY <1>0, <1>1, <1>6, <1>8, <2>1
  <2>2. CASE watched # p
    BY <1>0, <1>1, <1>6, <1>8, <2>2
  <2> QED BY <2>1, <2>2
<1>10. Tallied'
  <2>1. CASE watched = p
    <3>1. /\ Cardinality(timers') = Cardinality(timers) + 1
          /\ Cardinality(timers) \in Nat
          /\ Cardinality(At("using", watched)') = Cardinality(At("using", watched))
          /\ Cardinality(At("using", watched)) \in Nat
      BY <1>0, <1>6, <1>8, <1>9, <2>1
    <3>2. /\ counters'.requests = counters.requests + 1 /\ counters'.successes = counters.successes
          /\ counters'.failures = counters.failures /\ counters'.releases = counters.releases
      BY <1>1, <2>1, CountersTo DEF PoolInv
    <3> QED BY <1>0, <1>8, <3>1, <3>2, NumbersAre DEF Tallied, PoolInv
  <2>2. CASE watched # p
    BY <1>0, <1>1, <1>6, <1>8, <2>2 DEF Tallied
  <2> QED BY <2>1, <2>2
<1> QED BY <1>0, <1>4, <1>5, <1>7, <1>9, <1>10, SharedKeeps DEF PoolInv

\* What a detach drops is on record.
LEMMA DroppedIs ==
  ASSUME PoolInv
  PROVE  /\ Dropped \in ForgottenRecord
         /\ Dropped.waits = forgotten.waits + Cardinality(timers)
         /\ Dropped.uses = forgotten.uses + Cardinality(At("using", watched))
         /\ Cardinality(timers) \in Nat /\ Cardinality(At("using", watched)) \in Nat
<1>1. PoolType /\ watched \in Pool \cup {NoPool} /\ timers = At("acquiring", watched)
      /\ forgotten.waits \in Nat /\ forgotten.uses \in Nat
  BY NumbersAre DEF PoolInv
<1>2. Cardinality(timers) \in Nat /\ Cardinality(At("using", watched)) \in Nat
  BY <1>1, AtIs, Places
<1> QED BY <1>1, <1>2 DEF Dropped, ForgottenRecord

LEMMA getDbKeeps ==
  ASSUME PoolInv, NEW u \in Borrower, getDb(u) PROVE PoolInv'
<1>0. /\ borrower[u].pc = "idle" /\ db = NoPool /\ pools < MaxPools /\ forgotten' = Dropped
      /\ timers' = {u}
      /\ counters' = [counters EXCEPT !.requests = @ + 1]
      /\ UNCHANGED <<used, closer, closesMet>>
  BY DEF getDb, attach, acquireRequest, Detached
<1>1. PICK p \in Pool : /\ p = pools + 1 /\ pools' = p /\ db' = p /\ watched' = p
                        /\ open' = open \cup {p}
                        /\ borrower' = [borrower EXCEPT ![u] = [pc |-> "acquiring", pool |-> p]]
  <2>1. pools + 1 \in Pool
    BY <1>0, NumbersAre, PoolConfig DEF PoolInv, Pool
  <2>2. pools' = pools + 1
    BY DEF getDb
  <2> QED BY <2>1, <2>2 DEF getDb, attach
<1>2. pools \in Nat /\ p \in 1 .. p /\ p \notin 1 .. pools /\ 1 .. pools \subseteq 1 .. p
  BY <1>1, NumbersAre DEF PoolInv
<1> DEFINE new == [pc |-> "acquiring", pool |-> p]
<1>3. new \in BorrowRecord /\ new.pc = "acquiring" /\ new.pool = p
  BY Places DEF BorrowRecord
<1> HIDE DEF new
<1>4. Borrows(u, "acquiring", p)
  BY <1>1, <1>3, BorrowerTo DEF PoolInv, new
<1>5. PoolType'
  <2>1. counters' \in CounterRecord /\ forgotten' \in ForgottenRecord
    BY <1>0, CountersTo, DroppedIs DEF PoolInv
  <2>2. p \in 0 .. MaxPools
    BY DEF Pool
  <2>3. closer' \in [Closer -> 1 .. p \cup {NoPool}]
    BY <1>0, <1>2 DEF PoolInv, PoolType
  <2>4. open' \subseteq 1 .. p
    BY <1>1, <1>2 DEF PoolInv, PoolType
  <2> QED BY <1>0, <1>1, <1>2, <1>4, <2>1, <2>2, <2>3, <2>4 DEF PoolInv, PoolType, Borrows
<1>6. \A v \in Borrower : OnPool(borrower[v])'
  BY <1>1, <1>2, <1>4 DEF PoolInv, OnPool, Borrows
<1>7. /\ \A x \in Pool \cup {NoPool} : At("using", x)' = At("using", x)
      /\ At("acquiring", p)' = At("acquiring", p) \cup {u}
  <2>1. PoolType
    BY DEF PoolInv
  <2> QED BY <1>0, <1>4, <1>5, <2>1, Places, BorrowsCounts, BorrowsAt
<1>8. At("using", p) = {} /\ At("acquiring", p) = {}
  <2>1. \A v \in Borrower : borrower[v].pool # p
    BY <1>2, BorrowerIs, Places
  <2> QED BY <2>1, AtIs, Places DEF PoolInv
<1>9. UsesCounted'
  BY <1>0, <1>7 DEF PoolInv, UsesCounted
<1>10. timers' = At("acquiring", watched)'
  BY <1>0, <1>1, <1>7, <1>8
<1>11. Tallied'
  <2>1. Cardinality(timers') = 1 /\ Cardinality(At("using", watched)') = 0
    BY <1>0, <1>1, <1>7, <1>8, FS_EmptySet, FS_Singleton
  <2>2. /\ counters'.requests = counters.requests + 1 /\ counters'.successes = counters.successes
        /\ counters'.failures = counters.failures /\ counters'.releases = counters.releases
    BY <1>0, CountersTo DEF PoolInv
  <2>3. /\ forgotten'.waits = forgotten.waits + Cardinality(timers)
        /\ forgotten'.uses = forgotten.uses + Cardinality(At("using", watched))
        /\ Cardinality(timers) \in Nat /\ Cardinality(At("using", watched)) \in Nat
    BY <1>0, DroppedIs
  <2> QED BY <2>1, <2>2, <2>3, NumbersAre DEF Tallied, PoolInv
<1>12. Destroying' = Destroying
  BY <1>0 DEF Destroying
<1>13. OneCloser'
  <2> SUFFICES ASSUME ~closesMet PROVE OneCloser'
    BY <1>0 DEF OneCloser
  <2>1. \A d \in Closer : closer[d] = NoPool
    BY <1>0 DEF PoolInv, OneCloser
  <2>2. open \subseteq {NoPool} /\ NoPool \notin open
    BY <1>0, <2>1, OpenNumbered DEF PoolInv, OneCloser, Destroying
  <2>3. open' = {p}
    BY <1>1, <2>2
  <2> QED BY <1>0, <1>1, <2>1, <2>3 DEF OneCloser
<1>14. Watches'
  BY <1>1 DEF Watches
<1> QED BY <1>5, <1>6, <1>9, <1>10, <1>11, <1>13, <1>14 DEF PoolInv

LEMMA closeDbKeeps ==
  ASSUME PoolInv, NEW c \in Closer, closeDb(c) PROVE PoolInv'
<1>0. /\ closer[c] = NoPool /\ db # NoPool /\ watched' = NoPool /\ timers' = {} /\ forgotten' = Dropped
      /\ closer' = [closer EXCEPT ![c] = db]
      /\ closesMet' = (closesMet \/ Destroying # {})
      /\ UNCHANGED <<db, pools, open, used, borrower, counters>>
  BY DEF closeDb, detach, Detached
<1>1. PoolType'
  BY <1>0, DroppedIs DEF PoolInv, PoolType
<1>2. \A v \in Borrower : OnPool(borrower[v])'
  BY <1>0 DEF PoolInv, OnPool
<1>3. \A q, x : At(q, x)' = At(q, x)
  BY <1>0 DEF At
<1>4. At("using", NoPool) = {} /\ At("acquiring", NoPool) = {}
  <2>1. \A v \in Borrower : borrower[v].pc # "idle" => borrower[v].pool # NoPool
    BY BorrowerIs, Places
  <2> QED BY <2>1, AtIs, Places DEF PoolInv
<1>5. UsesCounted'
  BY <1>0, <1>3 DEF PoolInv, UsesCounted
<1>6. timers' = At("acquiring", watched)' /\ At("using", watched)' = {}
  BY <1>0, <1>3, <1>4 DEF At
<1>7. Tallied'
  <2>1. Cardinality(timers') = 0 /\ Cardinality(At("using", watched)') = 0
    BY <1>0, <1>6, FS_EmptySet
  <2>2. /\ forgotten'.waits = forgotten.waits + Cardinality(timers)
        /\ forgotten'.uses = forgotten.uses + Cardinality(At("using", watched))
        /\ Cardinality(timers) \in Nat /\ Cardinality(At("using", watched)) \in Nat
    BY <1>0, DroppedIs
  <2> QED BY <1>0, <2>1, <2>2, NumbersAre DEF Tallied, PoolInv
<1>8. Destroying' = Destroying \cup {db}
  BY <1>0 DEF Destroying, PoolInv, PoolType
<1>9. OneCloser'
  <2>1. CASE closesMet \/ Destroying # {}
    BY <1>0, <2>1 DEF OneCloser
  <2>2. CASE ~closesMet /\ Destroying = {}
    <3>1. \A d \in Closer : closer[d] = NoPool
      BY <2>2 DEF Destroying
    <3>2. \A d \in Closer : closer'[d] = IF d = c THEN db ELSE NoPool
      BY <1>0, <3>1 DEF PoolInv, PoolType
    <3>3. open' \subseteq {db'} \cup Destroying'
      BY <1>0, <2>2, <1>8 DEF PoolInv, OneCloser
    <3> QED BY <1>0, <3>2, <3>3 DEF OneCloser
  <2> QED BY <2>1, <2>2
<1>10. Watches'
  BY <1>0, <1>8 DEF Watches
<1> QED BY <1>1, <1>2, <1>5, <1>6, <1>7, <1>9, <1>10 DEF PoolInv

LEMMA DestroyKeeps ==
  ASSUME PoolInv, NEW c \in Closer, DestroyEnds(c) PROVE PoolInv'
<1>0. /\ closer[c] # NoPool /\ closer' = [closer EXCEPT ![c] = NoPool]
      /\ open' = open \ {closer[c]} /\ db' = NoPool
      /\ UNCHANGED <<pools, used, borrower, watched, timers, counters, forgotten, closesMet>>
  BY DEF DestroyEnds, monitorVars
<1>1. PoolType'
  BY <1>0 DEF PoolInv, PoolType
<1>2. (\A v \in Borrower : OnPool(borrower[v])') /\ \A q, x : At(q, x)' = At(q, x)
  BY <1>0 DEF PoolInv, OnPool, At
<1>3. UsesCounted' /\ timers' = At("acquiring", watched)' /\ Tallied'
  BY <1>0, <1>2 DEF PoolInv, UsesCounted, Tallied, At
<1>4. OneCloser'
  <2> SUFFICES ASSUME ~closesMet PROVE OneCloser'
    BY <1>0 DEF OneCloser
  <2>1. /\ \A d \in Closer : closer[d] # NoPool => d = c
        /\ db = closer[c] /\ open \subseteq {db} \cup Destroying
    BY <1>0 DEF PoolInv, OneCloser
  <2>2. \A d \in Closer : closer'[d] = NoPool
    BY <1>0, <2>1 DEF PoolInv, PoolType
  <2>3. Destroying \subseteq {closer[c]}
    BY <2>1 DEF Destroying
  <2>4. open' = {}
    BY <1>0, <2>1, <2>3
  <2> QED BY <2>2, <2>4 DEF OneCloser
<1>5. Watches'
  <2>1. NoPool \notin open'
    BY <1>0, OpenNumbered
  <2> QED BY <1>0, <2>1 DEF Watches
<1> QED BY <1>1, <1>2, <1>3, <1>4, <1>5 DEF PoolInv

LEMMA PoolStep == PoolInv /\ [PoolNext]_poolVars => PoolInv'
<1> SUFFICES ASSUME PoolInv, [PoolNext]_poolVars PROVE PoolInv'
  OBVIOUS
<1>1. ASSUME NEW u \in Borrower, \/ withConnection(u) \/ getDb(u) \/ acquireSuccess(u)
                                 \/ acquireFail(u) \/ releaseConnection(u)
      PROVE  PoolInv'
  BY <1>1, withConnectionKeeps, getDbKeeps, acquireSuccessKeeps, acquireFailKeeps, releaseKeeps
<1>2. ASSUME NEW c \in Closer, closeDb(c) \/ DestroyEnds(c) PROVE PoolInv'
  BY <1>2, closeDbKeeps, DestroyKeeps
<1>3. CASE UNCHANGED poolVars
  <2>1. UNCHANGED <<db, pools, open, used, borrower, closer, watched, timers, counters, forgotten, closesMet>>
    BY <1>3 DEF poolVars, monitorVars
  <2>2. PoolType' /\ \A u \in Borrower : OnPool(borrower[u])'
    BY <2>1 DEF PoolInv, PoolType, OnPool
  <2>3. \A q, x : At(q, x)' = At(q, x)
    BY <2>1 DEF At
  <2>4. UsesCounted' /\ timers' = At("acquiring", watched)' /\ Tallied'
    BY <2>1, <2>3 DEF PoolInv, UsesCounted, Tallied, At
  <2> QED BY <2>1, <2>2, <2>4, SharedKeeps DEF PoolInv
<1> QED BY <1>1, <1>2, <1>3 DEF PoolNext

LEMMA PoolFollows == PoolInv => PoolAccounted
<1> SUFFICES ASSUME PoolInv PROVE PoolAccounted
  OBVIOUS
<1>1. 1 .. pools \subseteq Pool /\ Tallied /\ timers = At("acquiring", watched)
  BY NumbersAre DEF PoolInv
<1>2. ConnectionsReturned
  BY <1>1 DEF PoolInv, ConnectionsReturned, UsesCounted, OneCloser
<1>3. watched = NoPool => At("acquiring", watched) = {}
  <2>1. \A v \in Borrower : borrower[v].pc # "idle" => borrower[v].pool # NoPool
    BY BorrowerIs, Places
  <2> QED BY <2>1, AtIs, Places DEF PoolInv
<1>4. MonitorExact
  BY <1>1, <1>3 DEF PoolInv, MonitorExact, Watches, Tallied
<1> QED BY <1>2, <1>4 DEF PoolAccounted

\* The shared pool of database/index.js and its monitor, for any number of calls,
\* pools and closings: every connection goes back where it was taken, a pool that is
\* not the shared one is being destroyed unless two closeDb met, and the counters of
\* the monitor add up to the requests and uses under way.
THEOREM PoolSafe == PoolSpec => []PoolAccounted
<1>1. PoolSpec => []PoolInv
  BY PoolInitInv, PoolStep, PTL DEF PoolSpec
<1> QED BY <1>1, PoolFollows, PTL

-----------------------------------------------------------------------------
(* Migrations (the runner and its audit table)                             *)

MigrationsSpec == MigrationsInit /\ [][MigrationsNext]_migrationVars

RunPlaces == {"idle", "preflight", "lock", "migrate", "batch", "audit", "unlock", "destroy"}
RunRecord == [pc : RunPlaces, direction : {"none", "up", "down"}, names : Seq(1..MaxMigration)]

MigrationTypes ==
  /\ appliedUpTo \in 0..MaxMigration
  /\ lastRow \in [1..MaxMigration -> {"none", "up", "down"}]
  /\ migrating \in [Runner -> RunRecord]
  /\ unreliable \in BOOLEAN

\* The migrations of which run c still has to write the row.
Unrecorded(c) == {migrating[c].names[k] : k \in DOMAIN migrating[c].names}

\* A run that works on the schema holds the lock, and only between its batch
\* and its rows does it owe a row.
RunGuarded(c) ==
  /\ migrating[c].pc \in {"migrate", "batch", "audit", "unlock"} => advisory = c
  /\ migrating[c].names # <<>> => migrating[c].pc = "audit"

\* What c owes is what it has just done.
RunTruthful(c) ==
  \A m \in Unrecorded(c) : migrating[c].direction = "up" <=> m <= appliedUpTo

\* The last row about a migration is true, or a run still owes a later one.
RowsTruthful ==
  \A m \in 1..MaxMigration :
    \/ lastRow[m] = "up" <=> m <= appliedUpTo
    \/ \E c \in Runner : m \in Unrecorded(c)

MigrationsInv ==
  /\ MigrationTypes
  /\ ~unreliable => RowsTruthful /\ \A c \in Runner : RunGuarded(c) /\ RunTruthful(c)

\* A run alone moves, to new.
RunTo(c, new) == new \in RunRecord /\ migrating' = [migrating EXCEPT ![c] = new]

LEMMA RunMoves ==
  ASSUME MigrationsInv, NEW c \in Runner, NEW new, RunTo(c, new)
  PROVE  /\ migrating' \in [Runner -> RunRecord] /\ migrating'[c] = new
         /\ \A d \in Runner \ {c} : migrating'[d] = migrating[d] /\ Unrecorded(d)' = Unrecorded(d)
BY DEF MigrationsInv, MigrationTypes, RunTo, Unrecorded

\* The steps by which a run that owes no row moves to a place where it owes none.
LEMMA RunStepKeeps ==
  ASSUME MigrationsInv, NEW c \in Runner, NEW new, RunTo(c, new),
         ~unreliable' => migrating[c].names = <<>>, new.names = <<>>,
         UNCHANGED <<appliedUpTo, lastRow>>, unreliable' \in BOOLEAN, unreliable => unreliable',
         ~unreliable' => /\ new.pc \in {"migrate", "batch", "audit", "unlock"} => advisory' = c
                         /\ \A d \in Runner \ {c} : advisory = d => advisory' = d
  PROVE  MigrationsInv'
<1>1. /\ migrating' \in [Runner -> RunRecord] /\ migrating'[c] = new
      /\ \A d \in Runner \ {c} : migrating'[d] = migrating[d] /\ Unrecorded(d)' = Unrecorded(d)
  BY RunMoves
<1>2. MigrationTypes'
  BY <1>1 DEF MigrationsInv, MigrationTypes
<1>3. ASSUME ~unreliable'
      PROVE  RowsTruthful' /\ \A d \in Runner : RunGuarded(d)' /\ RunTruthful(d)'
  <2>0. ~unreliable /\ RowsTruthful /\ \A d \in Runner : RunGuarded(d) /\ RunTruthful(d)
    BY <1>3 DEF MigrationsInv, MigrationTypes
  <2>1. Unrecorded(c) = {} /\ Unrecorded(c)' = {}
    BY <1>1, <1>3 DEF Unrecorded
  <2>2. \A d \in Runner : Unrecorded(d)' = Unrecorded(d)
    BY <1>1, <2>1
  <2>3. RowsTruthful'
    BY <2>0, <2>2 DEF RowsTruthful
  <2>4. \A d \in Runner \ {c} : RunGuarded(d)' /\ RunTruthful(d)'
    BY <1>1, <1>3, <2>0 DEF RunGuarded, RunTruthful
  <2>5. RunGuarded(c)' /\ RunTruthful(c)'
    BY <1>1, <1>3, <2>1 DEF RunGuarded, RunTruthful
  <2> QED BY <2>3, <2>4, <2>5
<1> QED BY <1>2, <1>3 DEF MigrationsInv

\* The same for a run that moves to another place only, or ends.
LEMMA RunMovesTo ==
  ASSUME MigrationsInv, NEW c \in Runner, NEW p \in RunPlaces, MovesTo(c, p), migrating[c].names = <<>>
  PROVE  \E new \in RunRecord : RunTo(c, new) /\ new.names = <<>> /\ new.pc = p
<1>0. migrating[c] \in RunRecord
  BY DEF MigrationsInv, MigrationTypes
<1> DEFINE new == [migrating[c] EXCEPT !.pc = p]
<1>1. new \in RunRecord /\ new.names = <<>> /\ new.pc = p
  BY <1>0 DEF RunRecord
<1>2. migrating' = [migrating EXCEPT ![c] = new]
  BY DEF MovesTo, MigrationsInv, MigrationTypes
<1> HIDE DEF new
<1> QED BY <1>1, <1>2 DEF RunTo

LEMMA RunEndsTo ==
  ASSUME NEW c \in Runner, RunEnds(c)
  PROVE  RunTo(c, NotMigrating) /\ NotMigrating.names = <<>> /\ NotMigrating.pc = "idle"
<1>1. <<>> \in Seq(1..MaxMigration)
  OBVIOUS
<1> QED BY <1>1 DEF RunEnds, RunTo, NotMigrating, RunRecord, RunPlaces

LEMMA MigrationsInitInv == MigrationsInit => MigrationsInv
<1> SUFFICES ASSUME MigrationsInit PROVE MigrationsInv
  OBVIOUS
<1>1. NotMigrating \in RunRecord /\ NotMigrating.names = <<>> /\ NotMigrating.pc = "idle"
  BY DEF NotMigrating, RunRecord, RunPlaces
<1>2. \A c \in Runner : migrating[c] = NotMigrating
  BY DEF MigrationsInit
<1>3. MigrationTypes
  <2>1. migrating \in [Runner -> RunRecord]
    BY <1>1 DEF MigrationsInit
  <2>2. appliedUpTo \in 0..MaxMigration /\ lastRow \in [1..MaxMigration -> {"none", "up", "down"}]
    BY MigrationsConfig DEF MigrationsInit
  <2>3. unreliable \in BOOLEAN
    BY DEF MigrationsInit
  <2> QED BY <2>1, <2>2, <2>3 DEF MigrationTypes
<1>4. RowsTruthful
  BY DEF MigrationsInit, RowsTruthful
<1>5. \A c \in Runner : RunGuarded(c) /\ RunTruthful(c)
  BY <1>1, <1>2 DEF RunGuarded, RunTruthful, Unrecorded
<1> QED BY <1>3, <1>4, <1>5 DEF MigrationsInv

\* Who is not at its rows owes none.
LEMMA OwesNone ==
  ASSUME MigrationsInv, ~unreliable, NEW c \in Runner, migrating[c].pc # "audit"
  PROVE  migrating[c].names = <<>>
BY DEF MigrationsInv, RunGuarded

LEMMA RunKeeps ==
  ASSUME MigrationsInv, NEW c \in Runner, NEW direction \in {"up", "down"}, NEW production \in BOOLEAN,
         NEW allow \in BOOLEAN, Run(c, direction, production, allow)
  PROVE  MigrationsInv'
<1> DEFINE new == [pc |-> "preflight", direction |-> direction, names |-> <<>>]
<1>1. RunTo(c, new) /\ new.names = <<>> /\ new.pc = "preflight"
  <2>1. <<>> \in Seq(1..MaxMigration)
    OBVIOUS
  <2> QED BY <2>1 DEF RunTo, Run, RunRecord, RunPlaces
<1> HIDE DEF new
<1>2. ~unreliable' => migrating[c].names = <<>>
  BY OwesNone DEF Run
<1>3. UNCHANGED <<appliedUpTo, lastRow, unreliable, advisory>> /\ unreliable \in BOOLEAN
  BY DEF Run, MigrationsInv, MigrationTypes
<1> QED BY <1>1, <1>2, <1>3, RunStepKeeps

LEMMA PreflightKeeps ==
  ASSUME MigrationsInv, NEW c \in Runner, DryRun(c) \/ PreflightCheck(c)
  PROVE  MigrationsInv'
<1>1. UNCHANGED <<appliedUpTo, lastRow, unreliable, advisory>> /\ unreliable \in BOOLEAN
  BY DEF DryRun, PreflightCheck, MigrationsInv, MigrationTypes
<1>2. ~unreliable => migrating[c].names = <<>>
  BY OwesNone DEF DryRun, PreflightCheck
<1>3. CASE RunEnds(c)
  BY <1>1, <1>2, <1>3, RunEndsTo, RunStepKeeps
<1>4. CASE MovesTo(c, "lock") /\ ~unreliable
  <2>1. PICK new \in RunRecord : RunTo(c, new) /\ new.names = <<>> /\ new.pc = "lock"
    BY <1>2, <1>4, RunMovesTo DEF RunPlaces
  <2> QED BY <1>1, <1>2, <2>1, RunStepKeeps
<1>5. CASE MovesTo(c, "lock") /\ unreliable
  BY <1>1, <1>5 DEF MigrationsInv, MigrationTypes, MovesTo, RunRecord, RunPlaces
<1> QED BY <1>3, <1>4, <1>5 DEF DryRun, PreflightCheck

\* Nothing is promised once a lock, a row or an answer was lost.
LEMMA UnreliableKeeps ==
  ASSUME MigrationTypes', unreliable' PROVE MigrationsInv'
BY DEF MigrationsInv

LEMMA MoveTyped ==
  ASSUME MigrationsInv, NEW c \in Runner, NEW p \in RunPlaces, MovesTo(c, p)
  PROVE  migrating' \in [Runner -> RunRecord]
BY DEF MigrationsInv, MigrationTypes, MovesTo, RunRecord

LEMMA AdvisoryLockKeeps == ASSUME MigrationsInv, NEW c \in Runner, AdvisoryLock(c) PROVE MigrationsInv'
<1>0. UNCHANGED <<appliedUpTo, lastRow>> /\ MovesTo(c, "migrate") /\ migrating[c].pc = "lock"
  BY DEF AdvisoryLock
<1>1. MigrationTypes' \/ ~unreliable'
  BY <1>0, MoveTyped DEF RunPlaces, MigrationsInv, MigrationTypes, AdvisoryLock
<1>2. CASE ~unreliable'
  <2>1. advisory = NoRunner /\ advisory' = c /\ unreliable' = unreliable /\ unreliable \in BOOLEAN /\ ~unreliable
    BY <1>2 DEF AdvisoryLock, MigrationsInv, MigrationTypes
  <2>2. migrating[c].names = <<>>
    BY <1>0, <2>1, OwesNone
  <2>3. PICK new \in RunRecord : RunTo(c, new) /\ new.names = <<>> /\ new.pc = "migrate"
    BY <1>0, <2>2, RunMovesTo DEF RunPlaces
  <2>4. \A d \in Runner \ {c} : advisory = d => advisory' = d
    BY <2>1, MigrationsConfig
  <2> QED BY <1>0, <2>1, <2>2, <2>3, <2>4, RunStepKeeps
<1> QED BY <1>1, <1>2, UnreliableKeeps

LEMMA LockLostKeeps == ASSUME MigrationsInv, NEW c \in Runner, LockLost(c) PROVE MigrationsInv'
BY UnreliableKeeps DEF LockLost, MigrationsInv, MigrationTypes

\* A step that leaves the advisory lock alone and moves c, before its batch or
\* after its failure.
LEMMA PlainMoveKeeps ==
  ASSUME MigrationsInv, NEW c \in Runner, NEW p \in RunPlaces, MovesTo(c, p),
         migrating[c].pc \in {"migrate", "batch"}, p \in {"batch", "unlock"},
         UNCHANGED <<appliedUpTo, lastRow, advisory, unreliable>>
  PROVE  MigrationsInv'
<1>1. unreliable \in BOOLEAN
  BY DEF MigrationsInv, MigrationTypes
<1>2. CASE unreliable
  BY <1>2, MoveTyped, UnreliableKeeps DEF MigrationsInv, MigrationTypes
<1>3. CASE ~unreliable
  <2>1. migrating[c].names = <<>>
    BY <1>3, OwesNone
  <2>2. PICK new \in RunRecord : RunTo(c, new) /\ new.names = <<>> /\ new.pc = p
    BY <2>1, RunMovesTo
  <2>3. advisory = c
    BY <1>3 DEF MigrationsInv, RunGuarded
  <2> QED BY <1>1, <2>1, <2>2, <2>3, RunStepKeeps
<1> QED BY <1>1, <1>2, <1>3

LEMMA KnexBeginsKeeps == ASSUME MigrationsInv, NEW c \in Runner, KnexBegins(c) PROVE MigrationsInv'
BY PlainMoveKeeps DEF KnexBegins, RunPlaces

\* A batch leaves a prefix of the migrations applied.
LEMMA AfterTyped ==
  ASSUME MigrationsInv, NEW c \in Runner
  PROVE  /\ AppliedAfter(c) \in 0..MaxMigration
         /\ migrating[c].direction # "up" => Len(BatchNames(c)) = IF appliedUpTo = 0 THEN 0 ELSE 1
<1>0. appliedUpTo \in 0..MaxMigration /\ MaxMigration \in Nat
  BY MigrationsConfig DEF MigrationsInv, MigrationTypes
<1>1. CASE migrating[c].direction = "up"
  BY <1>0, <1>1 DEF AppliedAfter
<1>2. CASE migrating[c].direction # "up"
  <2>1. CASE appliedUpTo = 0
    <3>1. BatchNames(c) = <<>>
      BY <1>2, <2>1 DEF BatchNames
    <3>2. Len(BatchNames(c)) = 0
      BY <3>1, EmptySeq
    <3> QED BY <1>0, <1>2, <2>1, <3>2 DEF AppliedAfter
  <2>2. CASE appliedUpTo # 0
    <3>1. BatchNames(c) = <<appliedUpTo>>
      BY <1>2, <2>2 DEF BatchNames
    <3>2. Len(BatchNames(c)) = 1
      BY <3>1
    <3> QED BY <1>0, <1>2, <2>2, <3>2 DEF AppliedAfter
  <2> QED BY <2>1, <2>2
<1> QED BY <1>1, <1>2

\* So does one cut short.
LEMMA CutTyped ==
  ASSUME MigrationsInv, NEW c \in Runner, CutShort(c)
  PROVE  appliedUpTo' \in 0..MaxMigration
BY AfterTyped DEF CutShort, MigrationsInv, MigrationTypes

LEMMA KnexFailsKeeps == ASSUME MigrationsInv, NEW c \in Runner, KnexFails(c) PROVE MigrationsInv'
<1>1. /\ unreliable \in BOOLEAN /\ MovesTo(c, "unlock") /\ UNCHANGED <<lastRow, advisory>>
      /\ migrating[c].pc \in {"migrate", "batch"} /\ CutShort(c)
  BY DEF KnexFails, MigrationsInv, MigrationTypes
<1>2. CASE appliedUpTo' = appliedUpTo
  <2>1. unreliable' = unreliable
    BY <1>1, <1>2, Zenon DEF KnexFails
  <2> QED BY <1>1, <1>2, <2>1, PlainMoveKeeps DEF RunPlaces
<1>3. CASE appliedUpTo' # appliedUpTo
  <2>1. unreliable' = TRUE
    BY <1>3, Zenon DEF KnexFails
  <2>2. MigrationTypes'
    BY <1>1, <2>1, CutTyped, MoveTyped DEF MigrationsInv, MigrationTypes, RunPlaces
  <2> QED BY <2>1, <2>2, UnreliableKeeps
<1> QED BY <1>2, <1>3

\* While c holds the lock nobody else owes a row.
LEMMA OthersOweNone ==
  ASSUME MigrationsInv, ~unreliable, NEW c \in Runner, advisory = c
  PROVE  \A d \in Runner \ {c} : migrating[d].names = <<>> /\ Unrecorded(d) = {}
<1>1. \A d \in Runner \ {c} : migrating[d].names = <<>>
  BY DEF MigrationsInv, RunGuarded
<1> QED BY <1>1 DEF Unrecorded

LEMMA KnexCommitsKeeps == ASSUME MigrationsInv, NEW c \in Runner, KnexCommits(c) PROVE MigrationsInv'
<1> DEFINE up == migrating[c].direction = "up"
           theNames == IF up THEN [i \in 1..(MaxMigration - appliedUpTo) |-> appliedUpTo + i]
                       ELSE IF appliedUpTo = 0 THEN <<>> ELSE <<appliedUpTo>>
<1>0. /\ migrating[c] \in RunRecord /\ appliedUpTo \in 0..MaxMigration /\ MaxMigration \in Nat
      /\ migrating[c].pc = "batch" /\ unreliable \in BOOLEAN
      /\ UNCHANGED <<lastRow, advisory, unreliable>>
  BY MigrationsConfig DEF MigrationsInv, MigrationTypes, KnexCommits
<1>1. /\ theNames \in Seq(1..MaxMigration) /\ Len(theNames) \in Nat
      /\ up => {theNames[k] : k \in DOMAIN theNames} = (appliedUpTo + 1)..MaxMigration
      /\ ~up => {theNames[k] : k \in DOMAIN theNames} = {appliedUpTo} \ {0}
      /\ ~up => Len(theNames) = IF appliedUpTo = 0 THEN 0 ELSE 1
  <2>1. CASE up
    <3>1. theNames = [i \in 1..(MaxMigration - appliedUpTo) |-> appliedUpTo + i]
      BY <2>1
    <3>2. PICK n \in Nat : n = MaxMigration - appliedUpTo
      BY <1>0
    <3>3. \A i \in 1..n : appliedUpTo + i \in 1..MaxMigration
      BY <1>0, <3>2
    <3>4. theNames = [i \in 1..n |-> appliedUpTo + i]
      BY <3>1, <3>2
    <3> HIDE DEF theNames
    <3>5. theNames \in [1..n -> 1..MaxMigration] /\ DOMAIN theNames = 1..n
      BY <3>3, <3>4
    <3>6. theNames \in Seq(1..MaxMigration) /\ Len(theNames) = n
      <4>1. theNames \in Seq(1..MaxMigration)
        BY <3>3, <3>4, IsASeq
      <4>2. Len(theNames) \in Nat /\ DOMAIN theNames = 1..Len(theNames)
        BY <4>1, LenProperties
      <4>3. Len(theNames) = n
        BY <3>2, <3>5, <4>2
      <4> QED BY <4>1, <4>3
    <3>7. \A m \in (appliedUpTo + 1)..MaxMigration : \E k \in 1..n : theNames[k] = m
      <4> SUFFICES ASSUME NEW m \in (appliedUpTo + 1)..MaxMigration
                   PROVE  \E k \in 1..n : theNames[k] = m
        OBVIOUS
      <4>1. m - appliedUpTo \in 1..n
        BY <1>0, <3>2
      <4>2. theNames[m - appliedUpTo] = m
        BY <1>0, <3>4, <4>1
      <4> QED BY <4>1, <4>2
    <3>8. \A k \in 1..n : theNames[k] \in (appliedUpTo + 1)..MaxMigration
      BY <1>0, <3>2, <3>4
    <3> QED BY <2>1, <3>5, <3>6, <3>7, <3>8
  <2>2. CASE ~up /\ appliedUpTo = 0
    <3>1. theNames = <<>> /\ {appliedUpTo} \ {0} = {}
      BY <2>2
    <3> HIDE DEF theNames, up
    <3> QED BY <2>2, <3>1, EmptySeq
  <2>3. CASE ~up /\ appliedUpTo # 0
    <3>1. theNames = <<appliedUpTo>> /\ {appliedUpTo} \ {0} = {appliedUpTo} /\ appliedUpTo \in 1..MaxMigration
      BY <1>0, <2>3
    <3>2. PICK a \in 1..MaxMigration : a = appliedUpTo
      BY <3>1
    <3>3. <<a>> \in Seq(1..MaxMigration) /\ Len(<<a>>) = 1 /\ DOMAIN <<a>> = 1..1 /\ <<a>>[1] = a
      OBVIOUS
    <3>4. {<<a>>[k] : k \in 1..1} = {a}
      BY <3>3
    <3>5. theNames = <<a>>
      BY <3>1, <3>2
    <3> HIDE DEF theNames, up
    <3> QED BY <2>3, <3>1, <3>2, <3>3, <3>4, <3>5
  <2> QED BY <2>1, <2>2, <2>3
<1>2. /\ appliedUpTo' = IF up THEN MaxMigration ELSE appliedUpTo - Len(theNames)
      /\ migrating' = [migrating EXCEPT ![c].pc = "audit", ![c].names = theNames]
  BY Zenon DEF KnexCommits, BatchNames, AppliedAfter
<1> HIDE DEF theNames
<1>3. appliedUpTo' \in 0..MaxMigration
  <2>1. CASE up
    BY <1>0, <1>2, <2>1
  <2>2. CASE ~up
    <3>1. PICK n \in {0, 1} : n = Len(theNames) /\ (n = 1 => appliedUpTo # 0)
      BY <1>1, <2>2
    <3>2. appliedUpTo' = appliedUpTo - n
      BY <1>2, <2>2, <3>1
    <3> QED BY <1>0, <3>1, <3>2
  <2> QED BY <2>1, <2>2
<1>4. PICK s \in Seq(1..MaxMigration) : s = theNames
  BY <1>1
<1> DEFINE new == [migrating[c] EXCEPT !.pc = "audit", !.names = s]
<1>5. new \in RunRecord /\ new.names = s /\ new.pc = "audit" /\ new.direction = migrating[c].direction
  BY <1>0 DEF RunRecord, RunPlaces
<1>6. migrating' = [migrating EXCEPT ![c] = new]
  BY <1>2, <1>4 DEF MigrationsInv, MigrationTypes
<1> HIDE DEF new
<1>7. RunTo(c, new)
  BY <1>5, <1>6 DEF RunTo
<1>8. /\ migrating' \in [Runner -> RunRecord] /\ migrating'[c] = new
      /\ \A d \in Runner \ {c} : migrating'[d] = migrating[d] /\ Unrecorded(d)' = Unrecorded(d)
  BY <1>7, RunMoves
<1>9. MigrationTypes'
  BY <1>0, <1>3, <1>8 DEF MigrationsInv, MigrationTypes
<1>10. CASE ~unreliable
  <2>1. advisory = c /\ migrating[c].names = <<>>
    BY <1>0, <1>10, OwesNone DEF MigrationsInv, RunGuarded
  <2>2. \A d \in Runner : Unrecorded(d) = {}
    BY <1>10, <2>1, OthersOweNone DEF Unrecorded
  <2>3. \A m \in 1..MaxMigration : lastRow[m] = "up" <=> m <= appliedUpTo
    BY <1>10, <2>2 DEF MigrationsInv, RowsTruthful
  <2>4. Unrecorded(c)' = {s[k] : k \in DOMAIN s}
    BY <1>5, <1>8 DEF Unrecorded
  <2>5. /\ RowsTruthful' /\ RunTruthful(c)'
    <3>1. CASE up
      <4>1. appliedUpTo' = MaxMigration /\ Unrecorded(c)' = (appliedUpTo + 1)..MaxMigration
        BY <1>1, <1>2, <1>4, <2>4, <3>1
      <4>2. \A m \in 1..MaxMigration : m \in Unrecorded(c)' \/ m <= appliedUpTo
        BY <1>0, <4>1
      <4>3. RowsTruthful'
        BY <1>0, <2>3, <4>1, <4>2 DEF RowsTruthful
      <4>4. RunTruthful(c)'
        BY <1>0, <1>5, <1>8, <3>1, <4>1 DEF RunTruthful
      <4> QED BY <4>3, <4>4
    <3>2. CASE ~up
      <4>1. /\ appliedUpTo' = IF appliedUpTo = 0 THEN 0 ELSE appliedUpTo - 1
            /\ Unrecorded(c)' = {appliedUpTo} \ {0}
        <5>1. appliedUpTo' = appliedUpTo - Len(theNames)
          BY <1>2, <3>2
        <5>2. PICK n \in {0, 1} : n = Len(theNames) /\ n = IF appliedUpTo = 0 THEN 0 ELSE 1
          BY <1>1, <3>2
        <5>3. appliedUpTo' = appliedUpTo - n
          BY <5>1, <5>2
        <5>4. appliedUpTo' = IF appliedUpTo = 0 THEN 0 ELSE appliedUpTo - 1
          BY <1>0, <5>2, <5>3
        <5>5. Unrecorded(c)' = {appliedUpTo} \ {0}
          BY <1>1, <1>4, <2>4, <3>2, Zenon
        <5> QED BY <5>4, <5>5
      <4>2. \A m \in 1..MaxMigration : m \in Unrecorded(c)' \/ (m <= appliedUpTo <=> m <= appliedUpTo')
        BY <1>0, <4>1
      <4>3. RowsTruthful'
        BY <1>0, <2>3, <4>2 DEF RowsTruthful
      <4>4. RunTruthful(c)'
        BY <1>0, <1>5, <1>8, <3>2, <4>1 DEF RunTruthful
      <4> QED BY <4>3, <4>4
    <3> QED BY <3>1, <3>2
  <2>6. RunGuarded(c)'
    BY <1>0, <1>5, <1>8, <2>1 DEF RunGuarded
  <2>7. \A d \in Runner \ {c} : RunGuarded(d)' /\ RunTruthful(d)'
    <3>1. \A d \in Runner \ {c} : RunTruthful(d)'
      BY <1>8, <2>2 DEF RunTruthful
    <3>2. \A d \in Runner \ {c} : RunGuarded(d)'
      BY <1>0, <1>8, <1>10 DEF MigrationsInv, RunGuarded
    <3> QED BY <3>1, <3>2
  <2> QED BY <1>9, <2>5, <2>6, <2>7 DEF MigrationsInv
<1> QED BY <1>0, <1>9, <1>10, UnreliableKeeps

LEMMA RecordKeeps == ASSUME MigrationsInv, NEW c \in Runner, RecordMigrationRun(c) PROVE MigrationsInv'
<1>0. /\ migrating[c] \in RunRecord /\ migrating[c].names \in Seq(1..MaxMigration)
      /\ migrating[c].pc = "audit" /\ migrating[c].names # <<>> /\ unreliable \in BOOLEAN
      /\ UNCHANGED <<appliedUpTo, advisory>> /\ migrating[c].direction \in {"none", "up", "down"}
  BY DEF MigrationsInv, MigrationTypes, RecordMigrationRun, RunRecord
<1>1. PICK s \in Seq(1..MaxMigration) : s = migrating[c].names
  BY <1>0
<1>2. /\ Head(s) \in 1..MaxMigration /\ Tail(s) \in Seq(1..MaxMigration) /\ s # <<>>
      /\ {s[k] : k \in DOMAIN s} = {Head(s)} \cup {Tail(s)[k] : k \in DOMAIN Tail(s)}
  <2>1. s # <<>>
    BY <1>0, <1>1
  <2>2. /\ Head(s) = s[1] /\ Head(s) \in 1..MaxMigration /\ Tail(s) \in Seq(1..MaxMigration)
        /\ Len(Tail(s)) = Len(s) - 1 /\ Len(s) \in Nat \ {0}
        /\ \A k \in 1..Len(Tail(s)) : Tail(s)[k] = s[k + 1]
    <3>1. Head(s) = s[1]
      OBVIOUS
    <3>2. /\ Head(s) \in 1..MaxMigration /\ Tail(s) \in Seq(1..MaxMigration)
          /\ Len(Tail(s)) = Len(s) - 1 /\ \A k \in 1..Len(Tail(s)) : Tail(s)[k] = s[k + 1]
      BY <2>1, HeadTailProperties
    <3>3. Len(s) \in Nat \ {0}
      BY <2>1, LenProperties, EmptySeq
    <3> QED BY <3>1, <3>2, <3>3
  <2>3. DOMAIN s = 1..Len(s) /\ DOMAIN Tail(s) = 1..Len(Tail(s))
    BY <2>2, LenProperties
  <2>4. \A k \in DOMAIN s : s[k] = Head(s) \/ \E i \in DOMAIN Tail(s) : s[k] = Tail(s)[i]
    <3> SUFFICES ASSUME NEW k \in DOMAIN s, k # 1 PROVE \E i \in DOMAIN Tail(s) : s[k] = Tail(s)[i]
      BY <2>2
    <3>1. k - 1 \in DOMAIN Tail(s) /\ Tail(s)[k - 1] = s[k]
      BY <2>2, <2>3
    <3> QED BY <3>1
  <2>5. \A i \in DOMAIN Tail(s) : \E k \in DOMAIN s : s[k] = Tail(s)[i]
    BY <2>2, <2>3
  <2>6. \E k \in DOMAIN s : s[k] = Head(s)
    BY <2>2, <2>3
  <2> QED BY <2>1, <2>2, <2>4, <2>5, <2>6
<1>3. PICK t \in Seq(1..MaxMigration) : t = Tail(s)
  BY <1>2
<1>4. PICK m \in 1..MaxMigration : m = Head(s)
  BY <1>2
<1> DEFINE new == [migrating[c] EXCEPT !.names = t]
<1>5. new \in RunRecord /\ new.names = t /\ new.pc = "audit" /\ new.direction = migrating[c].direction
  BY <1>0 DEF RunRecord
<1>6. migrating' = [migrating EXCEPT ![c] = new]
  BY <1>1, <1>3 DEF MigrationsInv, MigrationTypes, RecordMigrationRun
<1> HIDE DEF new
<1>7. RunTo(c, new)
  BY <1>5, <1>6 DEF RunTo
<1>8. /\ migrating' \in [Runner -> RunRecord] /\ migrating'[c] = new
      /\ \A d \in Runner \ {c} : migrating'[d] = migrating[d] /\ Unrecorded(d)' = Unrecorded(d)
  BY <1>7, RunMoves
<1>9. /\ \/ lastRow' = [lastRow EXCEPT ![m] = migrating[c].direction] /\ unreliable' = unreliable
         \/ lastRow' = lastRow /\ unreliable'
      /\ unreliable' \in BOOLEAN
  BY <1>0, <1>1, <1>4 DEF RecordMigrationRun
<1>10. MigrationTypes'
  BY <1>0, <1>8, <1>9 DEF MigrationsInv, MigrationTypes
<1>11. CASE ~unreliable'
  <2>0. ~unreliable /\ lastRow' = [lastRow EXCEPT ![m] = migrating[c].direction]
    BY <1>9, <1>11
  <2>1. Unrecorded(c) = {m} \cup Unrecorded(c)'
    <3>1. Unrecorded(c) = {s[k] : k \in DOMAIN s}
      BY <1>1 DEF Unrecorded
    <3>2. Unrecorded(c)' = {t[k] : k \in DOMAIN t}
      BY <1>5, <1>8 DEF Unrecorded
    <3>3. {s[k] : k \in DOMAIN s} = {m} \cup {t[k] : k \in DOMAIN t}
      BY <1>2, <1>3, <1>4, Zenon
    <3> QED BY <3>1, <3>2, <3>3
  <2>2. /\ RowsTruthful /\ RunTruthful(c)
    BY <2>0 DEF MigrationsInv
  <2>3. RunTruthful(c)'
    BY <1>0, <1>5, <1>8, <2>1, <2>2 DEF RunTruthful
  <2>4. lastRow'[m] = "up" <=> m <= appliedUpTo
    BY <2>0, <2>1, <2>2 DEF RunTruthful, MigrationsInv, MigrationTypes
  <2>5. \A x \in 1..MaxMigration \ {m} : lastRow'[x] = lastRow[x]
    BY <2>0 DEF MigrationsInv, MigrationTypes
  <2>6. RowsTruthful'
    <3> SUFFICES ASSUME NEW x \in 1..MaxMigration
                 PROVE  \/ lastRow'[x] = "up" <=> x <= appliedUpTo'
                        \/ \E d \in Runner : x \in Unrecorded(d)'
      BY DEF RowsTruthful
    <3>1. CASE x = m
      BY <1>0, <2>4, <3>1
    <3>2. CASE x # m
      <4>1. \A d \in Runner : x \in Unrecorded(d) => x \in Unrecorded(d)'
        BY <1>8, <2>1, <3>2
      <4>2. (lastRow[x] = "up" <=> x <= appliedUpTo) \/ \E d \in Runner : x \in Unrecorded(d)
        BY <2>2 DEF RowsTruthful
      <4> QED BY <1>0, <2>5, <3>2, <4>1, <4>2
    <3> QED BY <3>1, <3>2
  <2>7. \A d \in Runner : RunGuarded(d)'
    BY <1>0, <1>5, <1>8, <2>0 DEF MigrationsInv, RunGuarded
  <2>8. \A d \in Runner \ {c} : RunTruthful(d)'
    BY <1>0, <1>8, <2>0 DEF MigrationsInv, RunTruthful
  <2> QED BY <1>10, <2>3, <2>6, <2>7, <2>8 DEF MigrationsInv
<1> QED BY <1>10, <1>11, UnreliableKeeps

LEMMA UnlockKeeps == ASSUME MigrationsInv, NEW c \in Runner, AdvisoryUnlock(c) PROVE MigrationsInv'
<1>0. UNCHANGED <<appliedUpTo, lastRow, unreliable>> /\ MovesTo(c, "destroy") /\ unreliable \in BOOLEAN
  BY DEF AdvisoryUnlock, MigrationsInv, MigrationTypes
<1>1. CASE unreliable
  BY <1>0, <1>1, MoveTyped, UnreliableKeeps DEF MigrationsInv, MigrationTypes, RunPlaces
<1>2. CASE ~unreliable
  <2>1. migrating[c].names = <<>>
    BY <1>2, OwesNone DEF AdvisoryUnlock, Audited
  <2>2. PICK new \in RunRecord : RunTo(c, new) /\ new.names = <<>> /\ new.pc = "destroy"
    BY <1>0, <2>1, RunMovesTo DEF RunPlaces
  <2>3. \A d \in Runner \ {c} : advisory = d => advisory' = d
    BY DEF AdvisoryUnlock
  <2> QED BY <1>0, <2>1, <2>2, <2>3, RunStepKeeps
<1> QED BY <1>0, <1>1, <1>2

LEMMA RunDestroyKeeps == ASSUME MigrationsInv, NEW c \in Runner, Destroy(c) PROVE MigrationsInv'
<1>1. /\ UNCHANGED <<appliedUpTo, lastRow, unreliable>> /\ RunEnds(c) /\ unreliable \in BOOLEAN
      /\ \A d \in Runner \ {c} : advisory = d => advisory' = d
  BY DEF Destroy, MigrationsInv, MigrationTypes
<1>2. ~unreliable => migrating[c].names = <<>>
  BY OwesNone DEF Destroy
<1> QED BY <1>1, <1>2, RunEndsTo, RunStepKeeps

LEMMA DiesKeeps == ASSUME MigrationsInv, NEW c \in Runner, RunnerDies(c) PROVE MigrationsInv'
<1>1. /\ UNCHANGED lastRow /\ RunEnds(c) /\ CutShort(c)
      /\ \A d \in Runner \ {c} : advisory = d => advisory' = d
  BY DEF RunnerDies
<1>2. /\ unreliable' \in BOOLEAN /\ (unreliable => unreliable')
      /\ ~unreliable' => migrating[c].names = <<>> /\ appliedUpTo' = appliedUpTo
  BY Zenon DEF RunnerDies, MigrationsInv, MigrationTypes
<1>3. CASE appliedUpTo' = appliedUpTo
  BY <1>1, <1>2, <1>3, RunEndsTo, RunStepKeeps
<1>4. CASE appliedUpTo' # appliedUpTo
  <2>1. MigrationTypes'
    <3>1. migrating' \in [Runner -> RunRecord]
      BY <1>1, RunEndsTo, RunMoves
    <3> QED BY <1>1, <1>2, <3>1, CutTyped DEF MigrationsInv, MigrationTypes
  <2> QED BY <1>2, <1>4, <2>1, UnreliableKeeps
<1> QED BY <1>3, <1>4

LEMMA MigrationsStepInv == ASSUME MigrationsInv, [MigrationsNext]_migrationVars PROVE MigrationsInv'
<1>1. ASSUME NEW c \in Runner,
             \/ DryRun(c) \/ PreflightCheck(c) \/ AdvisoryLock(c) \/ LockLost(c)
             \/ KnexBegins(c) \/ KnexCommits(c) \/ KnexFails(c)
             \/ RecordMigrationRun(c) \/ AdvisoryUnlock(c) \/ Destroy(c) \/ RunnerDies(c)
      PROVE  MigrationsInv'
  BY <1>1, PreflightKeeps, AdvisoryLockKeeps, LockLostKeeps, KnexBeginsKeeps, KnexCommitsKeeps,
     KnexFailsKeeps, RecordKeeps, UnlockKeeps, RunDestroyKeeps, DiesKeeps
<1>2. ASSUME NEW c \in Runner, NEW direction \in {"up", "down"}, NEW production \in BOOLEAN,
             NEW allow \in BOOLEAN, Run(c, direction, production, allow)
      PROVE  MigrationsInv'
  BY <1>2, RunKeeps
<1>3. CASE UNCHANGED migrationVars
  BY <1>3 DEF migrationVars, MigrationsInv, MigrationTypes, RowsTruthful, RunGuarded, RunTruthful, Unrecorded
<1> QED BY <1>1, <1>2, <1>3 DEF MigrationsNext

\* The audit rows of db/migrate.js, for any number of runs and migrations: when
\* no run is between its batch and its rows, the last row about a migration says "up"
\* exactly when it is applied, unless a lock or a row was lost, or a batch took
\* effect in a call of knex that failed.
THEOREM AuditIsTruthful == MigrationsSpec => []AuditTruthful
<1>1. MigrationsInit => MigrationsInv
  BY MigrationsInitInv
<1>2. MigrationsInv /\ [MigrationsNext]_migrationVars => MigrationsInv'
  BY MigrationsStepInv
<1>3. MigrationsInv => AuditTruthful
  <2> SUFFICES ASSUME MigrationsInv, ~unreliable, \A c \in Runner : migrating[c].names = <<>>
               PROVE  \A m \in 1..MaxMigration : lastRow[m] = "up" <=> m <= appliedUpTo
    BY DEF AuditTruthful
  <2>1. \A c \in Runner : Unrecorded(c) = {}
    BY DEF Unrecorded
  <2> QED BY <2>1 DEF MigrationsInv, RowsTruthful
<1> QED BY <1>1, <1>2, <1>3, PTL DEF MigrationsSpec

-----------------------------------------------------------------------------
(* QueryCache (cached answers and the tag set that lists them)            *)

QueryCacheSpec == QueryCacheInit /\ [][QueryCacheNext]_queryCacheVars

Stores == [pc : {"idle", "handler", "fetcher", "sadd", "expire"}, key : CacheKey \cup {"none"}]
Invalidations ==
  [pc : {"idle", "delTagged", "delFound", "delTag", "done"}, keys : SUBSET CacheKey,
   owed : SUBSET CacheKey, tagSetToo : BOOLEAN]

QueryCacheType ==
  /\ entry \in [CacheKey -> 0 .. LongTtl]
  /\ tagSet \in SUBSET CacheKey /\ tagTtl \in 1 .. Forever /\ covered \in SUBSET CacheKey
  /\ inval \in [Invalidator -> Invalidations]
  /\ storing \in [Storer -> Stores]
  /\ \A w \in Storer : storing[w].pc # "idle" => storing[w].key \in CacheKey

\* What is covered is listed, and gone before the list is.
CoveredListed == covered \subseteq tagSet /\ \A k \in covered : entry[k] # 0 /\ entry[k] <= tagTtl

\* What an invalidation owes is among the keys it found until it has deleted them,
\* and gone from then on.
PaysOff(i) ==
  /\ inval[i].pc \in {"delTagged", "delFound"} => inval[i].owed \subseteq inval[i].keys
  /\ inval[i].pc \in {"delTag", "done"} => \A k \in inval[i].owed : entry[k] = 0

QueryCacheInv == QueryCacheType /\ CoveredListed /\ \A i \in Invalidator : PaysOff(i)

LEMMA TtlIs ==
  /\ LongTtl \in Nat /\ ShortTtl \in Nat /\ Forever \in Nat /\ LongTtl < Forever
  /\ \A k : Ttl(k) \in 1 .. LongTtl
BY QueryCacheConfig DEF Ttl, Forever

LEMMA QueryCacheInitInv == QueryCacheInit => QueryCacheInv
<1> SUFFICES ASSUME QueryCacheInit PROVE QueryCacheInv
  OBVIOUS
<1>1. NotInvalidating \in Invalidations /\ NotInvalidating.pc = "idle"
  BY DEF NotInvalidating, Invalidations
<1>2. \A i \in Invalidator : inval[i] = NotInvalidating
  BY DEF QueryCacheInit
<1>3. storing \in [Storer -> Stores] /\ \A w \in Storer : storing[w].pc = "idle"
  BY DEF QueryCacheInit, NotStoring, Stores
<1> HIDE DEF NotInvalidating
<1>4. QueryCacheType
  BY <1>1, <1>3, TtlIs DEF QueryCacheInit, QueryCacheType
<1>5. CoveredListed
  BY DEF QueryCacheInit, CoveredListed
<1>6. \A i \in Invalidator : PaysOff(i)
  BY <1>1, <1>2 DEF PaysOff
<1> QED BY <1>4, <1>5, <1>6 DEF QueryCacheInv

\* A storer moves, to s.
LEMMA StorerMoves ==
  ASSUME QueryCacheType, NEW w \in Storer, NEW s \in Stores, s.pc # "idle" => s.key \in CacheKey,
         storing' = [storing EXCEPT ![w] = s]
  PROVE  /\ storing' \in [Storer -> Stores]
         /\ \A v \in Storer : storing'[v].pc # "idle" => storing'[v].key \in CacheKey
<1>1. storing' \in [Storer -> Stores] /\ storing'[w] = s /\ \A v \in Storer : v # w => storing'[v] = storing[v]
  BY DEF QueryCacheType
<1> QED BY <1>1 DEF QueryCacheType

LEMMA StorerIs ==
  ASSUME QueryCacheType, NEW w \in Storer, NEW pc \in {"handler", "fetcher", "sadd", "expire"},
         storing[w].pc # "idle"
  PROVE  /\ storing[w] \in Stores /\ storing[w].key \in CacheKey
         /\ [storing[w] EXCEPT !.pc = pc] \in Stores /\ [storing[w] EXCEPT !.pc = pc].key = storing[w].key
         /\ NotStoring \in Stores /\ NotStoring.pc = "idle"
BY DEF QueryCacheType, Stores, NotStoring

\* A storer that only moves leaves the rest as it is.
LEMMA StorerKeeps ==
  ASSUME QueryCacheInv, NEW w \in Storer, NEW s \in Stores, s.pc # "idle" => s.key \in CacheKey,
         storing' = [storing EXCEPT ![w] = s], UNCHANGED <<entry, tagSet, tagTtl, inval, covered>>
  PROVE  QueryCacheInv'
<1>1. QueryCacheType'
  BY StorerMoves DEF QueryCacheInv, QueryCacheType
<1> QED BY <1>1 DEF QueryCacheInv, CoveredListed, PaysOff

LEMMA BeginsStoring ==
  ASSUME QueryCacheInv, NEW w \in Storer, NEW k \in CacheKey, RequestMisses(w, k) \/ WarmCache(w, k)
  PROVE  QueryCacheInv'
<1>1. PICK s \in Stores : s.key \in CacheKey /\ storing' = [storing EXCEPT ![w] = s]
  <2>1. [pc |-> "handler", key |-> k] \in Stores /\ [pc |-> "fetcher", key |-> k] \in Stores
    BY DEF Stores
  <2> QED BY <2>1 DEF RequestMisses, WarmCache
<1> QED BY <1>1, StorerKeeps DEF RequestMisses, WarmCache

LEMMA EndsStoring ==
  ASSUME QueryCacheInv, NEW w \in Storer, NotCached(w) \/ TaggingFails(w)
  PROVE  QueryCacheInv'
<1>1. NotStoring \in Stores /\ NotStoring.pc = "idle"
  BY DEF NotStoring, Stores
<1> QED BY <1>1, StorerKeeps DEF NotCached, TaggingFails

LEMMA SetexKeeps == ASSUME QueryCacheInv, NEW w \in Storer, Setex(w) PROVE QueryCacheInv'
<1> DEFINE key == storing[w].key
<1>0. QueryCacheType /\ storing[w].pc \in {"handler", "fetcher"} /\ UNCHANGED <<tagSet, tagTtl>>
  BY DEF QueryCacheInv, Setex
<1>1. /\ storing[w] \in Stores /\ key \in CacheKey /\ NotStoring \in Stores /\ NotStoring.pc = "idle"
      /\ [storing[w] EXCEPT !.pc = "sadd"] \in Stores /\ [storing[w] EXCEPT !.pc = "sadd"].key = key
  BY <1>0, StorerIs
<1>2. PICK s \in Stores : (s.pc # "idle" => s.key \in CacheKey) /\ storing' = [storing EXCEPT ![w] = s]
  BY <1>1 DEF Setex
<1>3. CASE UNCHANGED <<entry, covered, inval>>
  BY <1>0, <1>2, <1>3, StorerKeeps
<1>4. CASE /\ entry' = [entry EXCEPT ![key] = Ttl(key)] /\ covered' = covered \ {key}
           /\ inval' = StoredAgain(key)
  <2> HIDE DEF key
  <2>1. /\ storing' \in [Storer -> Stores]
        /\ \A v \in Storer : storing'[v].pc # "idle" => storing'[v].key \in CacheKey
    BY <1>0, <1>2, StorerMoves
  <2>2. /\ entry' \in [CacheKey -> 0 .. LongTtl]
        /\ \A k \in CacheKey : k # key => entry'[k] = entry[k]
    BY <1>0, <1>1, <1>4, TtlIs DEF QueryCacheType
  <2>3. /\ inval' \in [Invalidator -> Invalidations]
        /\ \A i \in Invalidator : /\ inval'[i].pc = inval[i].pc /\ inval'[i].keys = inval[i].keys
                                  /\ inval'[i].owed = inval[i].owed \ {key}
    <3>1. ASSUME NEW i \in Invalidator
          PROVE  /\ inval'[i] \in Invalidations
                 /\ inval'[i].pc = inval[i].pc /\ inval'[i].keys = inval[i].keys
                 /\ inval'[i].owed = inval[i].owed \ {key}
      <4>1. inval[i] \in Invalidations
        BY <1>0 DEF QueryCacheType
      <4>2. inval'[i] = [inval[i] EXCEPT !.owed = @ \ {key}]
        BY <1>4 DEF StoredAgain
      <4> QED BY <4>1, <4>2 DEF Invalidations
    <3>2. inval' = [i \in Invalidator |-> [inval[i] EXCEPT !.owed = @ \ {key}]]
      BY <1>4 DEF StoredAgain
    <3>3. inval' \in [Invalidator -> Invalidations]
      BY <3>1, <3>2
    <3> QED BY <3>1, <3>3
  <2>4. QueryCacheType'
    BY <1>0, <1>4, <2>1, <2>2, <2>3 DEF QueryCacheType
  <2>5. CoveredListed'
    BY <1>0, <1>4, <2>2 DEF QueryCacheInv, CoveredListed, QueryCacheType
  <2>6. ASSUME NEW i \in Invalidator PROVE PaysOff(i)'
    <3>1. PaysOff(i) /\ inval[i].owed \in SUBSET CacheKey
      BY <1>0 DEF QueryCacheInv, QueryCacheType, Invalidations
    <3> QED BY <2>2, <2>3, <3>1 DEF PaysOff
  <2> QED BY <2>4, <2>5, <2>6 DEF QueryCacheInv
<1> QED BY <1>3, <1>4 DEF Setex

LEMMA SaddKeeps == ASSUME QueryCacheInv, NEW w \in Storer, Sadd(w) PROVE QueryCacheInv'
<1> DEFINE s == [storing[w] EXCEPT !.pc = "expire"]
<1>0. QueryCacheType /\ storing[w].pc = "sadd"
  BY DEF QueryCacheInv, Sadd
<1>1. storing[w].key \in CacheKey /\ s \in Stores /\ s.key \in CacheKey
  BY <1>0, StorerIs
<1>2. storing' = [storing EXCEPT ![w] = s]
  BY DEF Sadd
<1> HIDE DEF s
<1>3. QueryCacheType'
  BY <1>0, <1>1, <1>2, StorerMoves DEF QueryCacheType, Sadd
<1> QED BY <1>3 DEF QueryCacheInv, CoveredListed, PaysOff, Sadd

LEMMA ExpireKeeps == ASSUME QueryCacheInv, NEW w \in Storer, Expire(w) PROVE QueryCacheInv'
<1> DEFINE key == storing[w].key
           ttl == IF tagSet = {} THEN Forever ELSE Ttl(key)
<1>0. QueryCacheType /\ storing[w].pc = "expire"
  BY DEF QueryCacheInv, Expire
<1>1. key \in CacheKey /\ NotStoring \in Stores /\ NotStoring.pc = "idle"
  BY <1>0, StorerIs
<1>2. /\ TagSetIs(tagSet, ttl) /\ UNCHANGED <<entry, inval>>
      /\ covered' = {k \in covered \cup ({key} \cap tagSet) : entry[k] \in 1 .. Ttl(key)}
      /\ storing' = [storing EXCEPT ![w] = NotStoring]
  BY DEF Expire, TagTtl
<1> HIDE DEF key
<1>3. ttl \in 1 .. Forever /\ Ttl(key) \in 1 .. LongTtl /\ Forever \in Nat /\ LongTtl \in Nat
  BY TtlIs
<1>4. tagSet' = tagSet /\ tagTtl' = ttl
  BY <1>2, <1>3 DEF TagSetIs
<1>5. QueryCacheType'
  BY <1>0, <1>1, <1>2, <1>3, <1>4, StorerMoves DEF QueryCacheType
<1>6. CoveredListed'
  <2>1. \A k \in covered' : k \in tagSet /\ k \in CacheKey /\ entry[k] \in 1 .. Ttl(key)
    BY <1>0, <1>2 DEF QueryCacheInv, CoveredListed, QueryCacheType
  <2>2. \A k \in covered' : entry[k] # 0 /\ entry[k] <= ttl
    BY <1>3, <2>1
  <2> QED BY <1>2, <1>4, <2>1, <2>2 DEF CoveredListed
<1> QED BY <1>2, <1>5, <1>6 DEF QueryCacheInv, PaysOff

LEMMA InvalidateKeyKeeps == ASSUME QueryCacheInv, NEW k \in CacheKey, invalidateKey(k) PROVE QueryCacheInv'
<1>1. /\ entry' \in [CacheKey -> 0 .. LongTtl] /\ entry'[k] = 0
      /\ \A l \in CacheKey : l # k => entry'[l] = entry[l]
  BY TtlIs DEF QueryCacheInv, QueryCacheType, invalidateKey
<1>2. QueryCacheType'
  BY <1>1 DEF QueryCacheInv, QueryCacheType, invalidateKey
<1>3. CoveredListed'
  BY <1>1 DEF QueryCacheInv, QueryCacheType, CoveredListed, invalidateKey
<1>4. ASSUME NEW i \in Invalidator PROVE PaysOff(i)'
  <2>1. PaysOff(i) /\ inval[i].owed \in SUBSET CacheKey /\ inval' = inval
    BY DEF QueryCacheInv, QueryCacheType, Invalidations, invalidateKey
  <2> QED BY <1>1, <2>1 DEF PaysOff
<1> QED BY <1>2, <1>3, <1>4 DEF QueryCacheInv

\* An invalidation moves, to new.
LEMMA InvalMoves ==
  ASSUME QueryCacheType, NEW i \in Invalidator, NEW new \in Invalidations, inval' = [inval EXCEPT ![i] = new]
  PROVE  /\ inval' \in [Invalidator -> Invalidations] /\ inval'[i] = new
         /\ \A j \in Invalidator : j # i => inval'[j] = inval[j]
BY DEF QueryCacheType

LEMMA InvalKeeps ==
  ASSUME QueryCacheInv, NEW i \in Invalidator, NEW new \in Invalidations, inval' = [inval EXCEPT ![i] = new],
         UNCHANGED <<entry, tagSet, tagTtl, storing, covered>>,
         new.pc \in {"delTagged", "delFound"} => new.owed \subseteq new.keys,
         new.pc \notin {"delTag", "done"}
  PROVE  QueryCacheInv'
<1>1. /\ inval' \in [Invalidator -> Invalidations] /\ inval'[i] = new
      /\ \A j \in Invalidator : j # i => inval'[j] = inval[j]
  BY InvalMoves DEF QueryCacheInv
<1>2. QueryCacheType'
  BY <1>1 DEF QueryCacheInv, QueryCacheType
<1>3. ASSUME NEW j \in Invalidator PROVE PaysOff(j)'
  BY <1>1 DEF QueryCacheInv, PaysOff
<1> QED BY <1>2, <1>3 DEF QueryCacheInv, CoveredListed

LEMMA FindsKeeps ==
  ASSUME QueryCacheInv, NEW i \in Invalidator,
         Smembers(i) \/ \E pattern \in SUBSET CacheKey, all \in BOOLEAN : KeysFound(i, pattern, all)
  PROVE  QueryCacheInv'
<1>1. CASE Smembers(i)
  <2> DEFINE new == [pc |-> "delTagged", keys |-> tagSet, owed |-> covered, tagSetToo |-> FALSE]
  <2>1. new \in Invalidations /\ new.pc = "delTagged" /\ new.owed \subseteq new.keys
    BY DEF QueryCacheInv, QueryCacheType, CoveredListed, Invalidations
  <2>2. inval' = [inval EXCEPT ![i] = new]
    BY <1>1 DEF Smembers
  <2> HIDE DEF new
  <2> QED BY <1>1, <2>1, <2>2, InvalKeeps DEF Smembers
<1>2. ASSUME NEW pattern \in SUBSET CacheKey, NEW all \in BOOLEAN, KeysFound(i, pattern, all)
      PROVE  QueryCacheInv'
  <2> DEFINE found == {k \in pattern : entry[k] # 0}
             too == all /\ tagSet # {}
             new == [pc |-> "delFound", keys |-> found, owed |-> found, tagSetToo |-> too]
  <2>1. inval' = [inval EXCEPT ![i] = new] /\ UNCHANGED <<entry, tagSet, tagTtl, storing, covered>>
    BY <1>2 DEF KeysFound
  <2>2. found \in SUBSET CacheKey /\ too \in BOOLEAN
    OBVIOUS
  <2> HIDE DEF found, too
  <2>3. new \in Invalidations /\ new.pc = "delFound" /\ new.owed = new.keys
    BY <2>2 DEF Invalidations
  <2> HIDE DEF new
  <2> QED BY <2>1, <2>3, InvalKeeps
<1> QED BY <1>1, <1>2

LEMMA OverKeeps ==
  ASSUME QueryCacheInv, NEW i \in Invalidator, InvalidationOver(i) \/ InvalidationFails(i)
  PROVE  QueryCacheInv'
<1>1. NotInvalidating \in Invalidations /\ NotInvalidating.pc = "idle"
  BY DEF NotInvalidating, Invalidations
<1> HIDE DEF NotInvalidating
<1> QED BY <1>1, InvalKeeps DEF InvalidationOver, InvalidationFails

\* What a DEL of entries, of the set, or of both leaves.
LEMMA DelKeeps ==
  ASSUME QueryCacheInv, NEW i \in Invalidator, NEW pc \in {"delTag", "done"}, NEW gone \in SUBSET CacheKey,
         inval' = [inval EXCEPT ![i].pc = pc],
         entry' = [k \in CacheKey |-> IF k \in gone THEN 0 ELSE entry[k]], UNCHANGED storing,
         \/ tagSet' = {} /\ tagTtl' = Forever /\ covered' = {}
         \/ tagSet' = tagSet /\ tagTtl' \in {tagTtl, Forever} /\ covered' = covered \ gone,
         inval[i].pc = "delTag" \/ (inval[i].pc \in {"delTagged", "delFound"} /\ gone = inval[i].keys)
  PROVE  QueryCacheInv'
<1>0. QueryCacheType /\ PaysOff(i) /\ inval[i] \in Invalidations
  BY DEF QueryCacheInv, QueryCacheType
<1> DEFINE new == [inval[i] EXCEPT !.pc = pc]
<1>1. new \in Invalidations /\ new.pc = pc /\ new.owed = inval[i].owed /\ inval' = [inval EXCEPT ![i] = new]
  BY <1>0 DEF Invalidations
<1> HIDE DEF new
<1>2. /\ inval' \in [Invalidator -> Invalidations] /\ inval'[i] = new
      /\ \A j \in Invalidator : j # i => inval'[j] = inval[j]
  BY <1>0, <1>1, InvalMoves
<1>3. entry' \in [CacheKey -> 0 .. LongTtl] /\ \A k \in CacheKey : entry'[k] \in {0, entry[k]}
  BY <1>0, TtlIs DEF QueryCacheType
<1>4. QueryCacheType'
  BY <1>0, <1>2, <1>3, TtlIs DEF QueryCacheType
<1>5. CoveredListed'
  <2>1. CASE covered' = {}
    BY <2>1 DEF CoveredListed
  <2>2. CASE tagSet' = tagSet /\ tagTtl' \in {tagTtl, Forever} /\ covered' = covered \ gone
    <3> SUFFICES ASSUME NEW k \in covered' PROVE k \in tagSet' /\ entry'[k] # 0 /\ entry'[k] <= tagTtl'
      BY DEF CoveredListed
    <3>1. k \in covered /\ k \in CacheKey /\ entry'[k] = entry[k] /\ k \in tagSet /\ entry[k] # 0
          /\ entry[k] <= tagTtl /\ entry[k] \in 0 .. LongTtl
      BY <1>0, <2>2 DEF QueryCacheInv, CoveredListed, QueryCacheType
    <3>2. entry[k] <= Forever
      BY <3>1, TtlIs
    <3> QED BY <2>2, <3>1, <3>2
  <2> QED BY <2>1, <2>2
<1>6. ASSUME NEW j \in Invalidator PROVE PaysOff(j)'
  <2>1. CASE j = i
    <3>1. \A k \in inval[i].owed : k \in CacheKey /\ (k \in gone \/ entry[k] = 0)
      BY <1>0 DEF PaysOff, Invalidations
    <3>2. \A k \in new.owed : entry'[k] = 0
      BY <1>1, <3>1
    <3> QED BY <1>1, <1>2, <2>1, <3>2 DEF PaysOff
  <2>2. CASE j # i
    <3>1. PaysOff(j) /\ inval'[j] = inval[j] /\ inval[j].owed \in SUBSET CacheKey
      BY <1>0, <1>2, <2>2 DEF QueryCacheInv, QueryCacheType, Invalidations
    <3>2. inval[j].pc \in {"delTag", "done"} => \A k \in inval[j].owed : entry'[k] = 0
      BY <1>3, <3>1 DEF PaysOff
    <3> QED BY <3>1, <3>2 DEF PaysOff
  <2> QED BY <2>1, <2>2
<1> QED BY <1>4, <1>5, <1>6 DEF QueryCacheInv

LEMMA DeletesKeeps == ASSUME QueryCacheInv, NEW i \in Invalidator, DelEntries(i) \/ DelTag(i) PROVE QueryCacheInv'
<1>0. tagTtl # 0 /\ Forever # 0 /\ QueryCacheType
  BY TtlIs DEF QueryCacheInv, QueryCacheType
<1>1. CASE DelEntries(i)
  <2>1. PICK pc \in {"delTag", "done"} : inval' = [inval EXCEPT ![i].pc = pc]
    BY <1>1 DEF DelEntries
  <2>2. PICK gone \in SUBSET CacheKey : gone = inval[i].keys
    BY <1>0 DEF QueryCacheType, Invalidations
  <2>3. /\ entry' = [k \in CacheKey |-> IF k \in gone THEN 0 ELSE entry[k]] /\ UNCHANGED storing
        /\ inval[i].pc \in {"delTagged", "delFound"}
    BY <1>1, <2>2 DEF DelEntries, Deleted
  <2>4. \/ tagSet' = {} /\ tagTtl' = Forever /\ covered' = {}
        \/ tagSet' = tagSet /\ tagTtl' \in {tagTtl, Forever} /\ covered' = covered \ gone
    BY <1>0, <1>1, <2>2 DEF DelEntries, Deleted, TagSetIs
  <2> QED BY <2>1, <2>2, <2>3, <2>4, DelKeeps
<1>2. CASE DelTag(i)
  <2>1. PICK gone \in SUBSET CacheKey : gone = {}
    OBVIOUS
  <2>2. entry' = [k \in CacheKey |-> IF k \in gone THEN 0 ELSE entry[k]]
    BY <1>0, <1>2, <2>1 DEF DelTag, QueryCacheType
  <2>3. tagSet' = {} /\ tagTtl' = Forever /\ covered' = {}
    BY <1>0, <1>2 DEF DelTag, TagSetIs
  <2> QED BY <1>2, <2>2, <2>3, DelKeeps DEF DelTag
<1> QED BY <1>1, <1>2

LEMMA TtlTickKeeps == ASSUME QueryCacheInv, TtlTick PROVE QueryCacheInv'
<1> DEFINE ttl == IF tagTtl = Forever THEN Forever ELSE tagTtl - 1
<1>0. QueryCacheType /\ UNCHANGED <<storing, inval>> /\ TagSetIs(tagSet, ttl)
  BY DEF QueryCacheInv, TtlTick
<1>1. /\ entry' \in [CacheKey -> 0 .. LongTtl] /\ \A k \in CacheKey : entry[k] \in 0 .. LongTtl
      /\ \A k \in CacheKey : entry'[k] = (IF entry[k] = 0 THEN 0 ELSE entry[k] - 1)
  <2>1. entry' = [k \in CacheKey |-> IF entry[k] = 0 THEN 0 ELSE entry[k] - 1]
    BY DEF TtlTick
  <2>2. \A k \in CacheKey : entry[k] \in 0 .. LongTtl
    BY <1>0 DEF QueryCacheType
  <2> QED BY <2>1, <2>2, TtlIs
<1>2. ttl \in 0 .. Forever /\ Forever \in Nat /\ tagTtl \in 1 .. Forever /\ Forever # 0
  BY <1>0, TtlIs DEF QueryCacheType
<1>3. covered' = {k \in covered : entry'[k] # 0}
  BY DEF TtlTick
<1>4. tagSet' = (IF ttl = 0 THEN {} ELSE tagSet) /\ tagTtl' \in {ttl, Forever} /\ tagTtl' # 0
  BY <1>0, <1>2 DEF TagSetIs
<1>5. QueryCacheType'
  <2>1. tagTtl' \in 1 .. Forever
    BY <1>2, <1>4
  <2> QED BY <1>0, <1>1, <1>3, <1>4, <2>1 DEF QueryCacheType
<1>6. CoveredListed'
  <2> SUFFICES ASSUME NEW k \in covered' PROVE k \in tagSet' /\ entry'[k] # 0 /\ entry'[k] <= tagTtl'
    BY DEF CoveredListed
  <2>1. k \in covered /\ k \in CacheKey /\ entry'[k] # 0 /\ k \in tagSet /\ entry[k] <= tagTtl
    BY <1>0, <1>3 DEF QueryCacheInv, CoveredListed, QueryCacheType
  <2>2. entry[k] \in 1 .. LongTtl /\ entry'[k] = entry[k] - 1 /\ entry'[k] \in 1 .. LongTtl /\ LongTtl \in Nat
        /\ LongTtl < Forever
    BY <1>1, <2>1, TtlIs
  <2>3. ttl # 0 /\ entry'[k] <= ttl /\ entry'[k] <= Forever
    BY <1>2, <2>1, <2>2
  <2> QED BY <1>4, <2>1, <2>3
<1>7. ASSUME NEW i \in Invalidator PROVE PaysOff(i)'
  <2>1. PaysOff(i) /\ inval' = inval /\ inval[i].owed \in SUBSET CacheKey
    BY <1>0 DEF QueryCacheInv, QueryCacheType, Invalidations
  <2> QED BY <1>1, <2>1 DEF PaysOff
<1> QED BY <1>5, <1>6, <1>7 DEF QueryCacheInv

LEMMA QueryCacheStepInv == ASSUME QueryCacheInv, [QueryCacheNext]_queryCacheVars PROVE QueryCacheInv'
<1>1. ASSUME NEW w \in Storer, NotCached(w) \/ Setex(w) \/ Sadd(w) \/ Expire(w) \/ TaggingFails(w)
      PROVE  QueryCacheInv'
  BY <1>1, EndsStoring, SetexKeeps, SaddKeeps, ExpireKeeps
<1>2. CASE \/ \E w \in CachedRequest, k \in CacheKey : RequestMisses(w, k)
           \/ \E w \in WarmUp, k \in CacheKey : WarmCache(w, k)
  BY <1>2, BeginsStoring DEF Storer
<1>3. CASE UNCHANGED queryCacheVars
  BY <1>3 DEF queryCacheVars, QueryCacheInv, QueryCacheType, CoveredListed, PaysOff
<1> QED BY <1>1, <1>2, <1>3, InvalidateKeyKeeps, FindsKeeps, DeletesKeeps, OverKeeps, TtlTickKeeps
        DEF QueryCacheNext

\* Whatever overlaps, an invalidation that returns has removed every entry it owes,
\* and the tag set lists every covered entry as long as that lives: for any number
\* of keys, requests, warm-ups and invalidations and all times to live.
THEOREM InvalidationsAreComplete == QueryCacheSpec => []InvalidationsComplete
<1>1. QueryCacheInv => InvalidationsComplete
  BY DEF QueryCacheInv, CoveredListed, PaysOff, InvalidationsComplete
<1>2. QueryCacheInv /\ [QueryCacheNext]_queryCacheVars => QueryCacheInv'
  BY QueryCacheStepInv
<1> QED BY QueryCacheInitInv, <1>1, <1>2, PTL DEF QueryCacheSpec

-----------------------------------------------------------------------------
(* Transactions, row locks and versioned edits                             *)

-----------------------------------------------------------------------------
(* The inductive invariant *)

TrxType ==
  /\ holder \in [Row -> Session \cup {Free}]
  /\ trx \in [Session -> [pc : {"idle", "locking", "commit", "ok", "error", "backoff"},
                          want : SUBSET Row, attempt : Nat]]
  /\ applied \in [Session -> Nat]
  /\ ambiguous \subseteq Session

EditType ==
  /\ version \in 0 .. MaxVersion
  /\ editor \in [Editor -> [pc : {"idle", "read"}, seen : 0 .. MaxVersion]]
  /\ won \in [1 .. MaxVersion -> Nat]

\* What a transaction holds it wanted, and lies below what it still wants.
Ascending(c) ==
  /\ Mine(c) \subseteq trx[c].want
  /\ \A r \in Mine(c), q \in trx[c].want \ Mine(c) : r < q

\* Rows are held, and nothing is applied, only between begin and the end of an attempt.
Scoped(c) ==
  /\ trx[c].pc \notin {"locking", "commit"} => Mine(c) = {}
  /\ trx[c].pc \notin {"ok", "error"} => applied[c] = 0
  /\ trx[c].pc = "ok" => applied[c] = 1
  /\ trx[c].pc = "error" => applied[c] <= 1 /\ (c \notin ambiguous => applied[c] = 0)

TrxInv == TrxType /\ \A c \in Session : Ascending(c) /\ Scoped(c)

\* Versions not yet superseded have no accepted edit; a deleted entity stays deleted.
EditInv ==
  /\ EditType
  /\ \A v \in 1 .. MaxVersion : won[v] <= 1 /\ (version > 0 /\ v >= version => won[v] = 0)
  /\ \A e \in Editor : editor[e].pc = "read" => editor[e].seen > 0

TrxEditInv == TrxInv /\ EditInv

\* The two halves of the module touch different variables.
rowVars == <<holder, trx, applied, ambiguous>>
editVars == <<version, editor, won>>

USE TransactionConfig

-----------------------------------------------------------------------------
(* Row locks *)

LEMMA BeginKeeps ==
  ASSUME TrxInv, NEW c \in Session, NEW wanted \in SUBSET Row, BeginTrx(c, wanted)
  PROVE  TrxInv'
<1>1. TrxType'
  BY DEF TrxInv, TrxType, BeginTrx
<1>2. \A d \in Session : Mine(d)' = Mine(d)
  BY DEF BeginTrx, Mine
<1>3. Mine(c) = {} /\ applied[c] = 0
  BY DEF TrxInv, Scoped, BeginTrx
<1>4. trx'[c] = [pc |-> "locking", want |-> wanted, attempt |-> 0] /\ applied' = applied
  BY DEF BeginTrx, TrxInv, TrxType
<1>5. Ascending(c)' /\ Scoped(c)'
  BY <1>2, <1>3, <1>4 DEF Ascending, Scoped
<1>6. \A d \in Session \ {c} : Ascending(d)' /\ Scoped(d)'
  BY <1>2 DEF BeginTrx, TrxInv, TrxType, Ascending, Scoped
<1> QED BY <1>1, <1>5, <1>6 DEF TrxInv

LEMMA LockKeeps ==
  ASSUME TrxInv, NEW c \in Session, LockRow(c)
  PROVE  TrxInv'
<1>1. PICK r \in NextRow(c) : holder[r] = Free /\ holder' = [holder EXCEPT ![r] = c]
  BY DEF LockRow
<1>2. r \in Row /\ r \in trx[c].want \ Mine(c) /\ \A q \in trx[c].want \ Mine(c) : r <= q
  BY <1>1 DEF NextRow, TrxInv, TrxType
<1>3. TrxType'
  BY <1>1, <1>2 DEF TrxInv, TrxType, LockRow
<1>4. Mine(c)' = Mine(c) \cup {r}
  BY <1>1, <1>2 DEF Mine, TrxInv, TrxType
<1>5. \A d \in Session \ {c} : Mine(d)' = Mine(d)
  BY <1>1, <1>2 DEF Mine, TrxInv, TrxType
<1>6. trx' = trx /\ applied' = applied /\ ambiguous' = ambiguous /\ trx[c].pc = "locking"
  BY DEF LockRow
<1>7. Scoped(c)'
  BY <1>6 DEF TrxInv, Scoped
<1>8. Ascending(c)'
  <2>1. Mine(c)' \subseteq trx'[c].want
    BY <1>2, <1>4, <1>6 DEF TrxInv, Ascending
  <2>2. ASSUME NEW p \in Mine(c)', NEW q \in trx'[c].want \ Mine(c)' PROVE p < q
    <3>1. q \in trx[c].want \ Mine(c) /\ q # r /\ q \in Nat /\ r \in Nat
      BY <1>2, <1>4, <1>6, <2>2 DEF TrxInv, TrxType
    <3>2. CASE p = r
      BY <1>2, <3>1, <3>2
    <3>3. CASE p \in Mine(c)
      BY <3>1, <3>3 DEF TrxInv, Ascending
    <3> QED BY <1>4, <2>2, <3>2, <3>3
  <2> QED BY <2>1, <2>2 DEF Ascending
<1>9. \A d \in Session \ {c} : Ascending(d)' /\ Scoped(d)'
  BY <1>5, <1>6 DEF TrxInv, Ascending, Scoped
<1> QED BY <1>3, <1>7, <1>8, <1>9 DEF TrxInv

LEMMA CallbackKeeps ==
  ASSUME TrxInv, NEW c \in Session, Callback(c)
  PROVE  TrxInv'
<1>1. TrxType'
  BY DEF TrxInv, TrxType, Callback
<1>2. \A d \in Session : Mine(d)' = Mine(d) /\ trx'[d].want = trx[d].want
  BY DEF Callback, Mine, TrxInv, TrxType
<1>3. \A d \in Session : Ascending(d)'
  BY <1>2 DEF TrxInv, Ascending
<1>4. \A d \in Session : Scoped(d)'
  BY <1>2 DEF TrxInv, TrxType, Scoped, Callback
<1> QED BY <1>1, <1>3, <1>4 DEF TrxInv

\* The end of an attempt: c's rows are released.
LEMMA ReleaseKeeps ==
  ASSUME TrxInv, NEW c \in Session, holder' = Released(c),
         NEW pc \in {"ok", "error", "backoff"}, trx' = [trx EXCEPT ![c].pc = pc],
         applied' \in [Session -> Nat], ambiguous' \subseteq Session,
         \A d \in Session \ {c} : applied'[d] = applied[d] /\ (d \in ambiguous <=> d \in ambiguous'),
         pc = "backoff" => applied'[c] = 0,
         pc = "ok" => applied'[c] = 1,
         pc = "error" => applied'[c] <= 1 /\ (c \notin ambiguous' => applied'[c] = 0)
  PROVE  TrxInv'
<1>1. TrxType'
  BY DEF TrxInv, TrxType, Released
<1>2. Mine(c)' = {}
  BY DEF Mine, Released, TrxInv, TrxType
<1>3. \A d \in Session \ {c} : Mine(d)' = Mine(d)
  BY DEF Mine, Released, TrxInv, TrxType
<1>4. trx'[c].pc = pc /\ \A d \in Session \ {c} : trx'[d] = trx[d]
  BY DEF TrxInv, TrxType
<1>5. Ascending(c)' /\ Scoped(c)'
  BY <1>2, <1>4 DEF Ascending, Scoped
<1>6. \A d \in Session \ {c} : Ascending(d)' /\ Scoped(d)'
  BY <1>3, <1>4 DEF TrxInv, Ascending, Scoped
<1> QED BY <1>1, <1>5, <1>6 DEF TrxInv

LEMMA CommitKeeps ==
  ASSUME TrxInv, NEW c \in Session, CommitTrx(c)
  PROVE  TrxInv'
<1>1. applied[c] = 0 /\ applied \in [Session -> Nat] /\ ambiguous \subseteq Session
  BY DEF TrxInv, TrxType, Scoped, CommitTrx
<1>2. applied' = [applied EXCEPT ![c] = @ + 1] /\ holder' = Released(c)
  BY DEF CommitTrx
<1>3. /\ applied' \in [Session -> Nat] /\ applied'[c] = 1
      /\ \A d \in Session \ {c} : applied'[d] = applied[d]
  BY <1>1, <1>2
<1>4. CASE trx' = [trx EXCEPT ![c].pc = "ok"] /\ UNCHANGED ambiguous
  <2>1. "ok" \in {"ok", "error", "backoff"}
    OBVIOUS
  <2> QED BY <1>1, <1>2, <1>3, <1>4, <2>1, ReleaseKeeps
<1>5. CASE trx' = [trx EXCEPT ![c].pc = "error"] /\ ambiguous' = ambiguous \cup {c}
  <2>1. "error" \in {"ok", "error", "backoff"}
    OBVIOUS
  <2>2. /\ ambiguous' \subseteq Session /\ c \in ambiguous'
        /\ \A d \in Session \ {c} : d \in ambiguous <=> d \in ambiguous'
    BY <1>1, <1>5
  <2>3. \A d \in Session \ {c} : applied'[d] = applied[d] /\ (d \in ambiguous <=> d \in ambiguous')
    BY <1>3, <2>2
  <2>4. applied'[c] <= 1 /\ (c \notin ambiguous' => applied'[c] = 0)
    BY <1>3, <2>2
  <2> QED BY <1>2, <1>3, <1>5, <2>1, <2>2, <2>3, <2>4, ReleaseKeeps
<1> QED BY <1>4, <1>5 DEF CommitTrx

LEMMA FailKeeps ==
  ASSUME TrxInv, NEW c \in Session, TrxFails(c)
  PROVE  TrxInv'
<1>1. applied[c] = 0 /\ applied \in [Session -> Nat] /\ ambiguous \subseteq Session
  BY DEF TrxInv, TrxType, Scoped, TrxFails
<1>2. PICK pc \in {"error", "backoff"} : trx' = [trx EXCEPT ![c].pc = pc]
  BY DEF TrxFails
<1>3. UNCHANGED <<applied, ambiguous>> /\ holder' = Released(c) /\ pc \in {"ok", "error", "backoff"}
  BY DEF TrxFails
<1>4. \A d \in Session \ {c} : applied'[d] = applied[d] /\ (d \in ambiguous <=> d \in ambiguous')
  BY <1>3
<1>5. /\ applied' \in [Session -> Nat] /\ ambiguous' \subseteq Session
      /\ applied'[c] = 0 /\ applied'[c] <= 1
  BY <1>1, <1>3
<1>6. /\ pc = "backoff" => applied'[c] = 0
      /\ pc = "ok" => applied'[c] = 1
      /\ pc = "error" => applied'[c] <= 1 /\ (c \notin ambiguous' => applied'[c] = 0)
  BY <1>2, <1>5
<1> QED BY <1>2, <1>3, <1>4, <1>5, <1>6, ReleaseKeeps

LEMMA RetryKeeps ==
  ASSUME TrxInv, NEW c \in Session, RetryTrx(c)
  PROVE  TrxInv'
<1>1. TrxType'
  BY DEF TrxInv, TrxType, RetryTrx
<1>2. \A d \in Session : Mine(d)' = Mine(d) /\ trx'[d].want = trx[d].want
  BY DEF RetryTrx, Mine, TrxInv, TrxType
<1>3. \A d \in Session : Ascending(d)'
  BY <1>2 DEF TrxInv, Ascending
<1>4. \A d \in Session : Scoped(d)'
  BY <1>2 DEF TrxInv, TrxType, Scoped, RetryTrx
<1> QED BY <1>1, <1>3, <1>4 DEF TrxInv

-----------------------------------------------------------------------------
(* Versioned edits *)

LEMMA EditKeeps ==
  ASSUME EditInv, NEW e \in Editor,
         ReadVersion(e) \/ UpdateWithLock(e) \/ DeleteWithLock(e) \/ EditRefused(e)
  PROVE  EditInv'
<1>1. CASE ReadVersion(e)
  BY <1>1 DEF EditInv, EditType, ReadVersion
<1>2. CASE UpdateWithLock(e)
  <2>1. version \in 1 .. MaxVersion /\ version < MaxVersion /\ won[version] = 0
    BY <1>2 DEF EditInv, EditType, UpdateWithLock
  <2> QED BY <1>2, <2>1 DEF EditInv, EditType, UpdateWithLock, NoEdit
<1>3. CASE DeleteWithLock(e)
  <2>1. version \in 1 .. MaxVersion /\ won[version] = 0
    BY <1>3 DEF EditInv, EditType, DeleteWithLock
  <2> QED BY <1>3, <2>1 DEF EditInv, EditType, DeleteWithLock, NoEdit
<1>4. CASE EditRefused(e)
  BY <1>4 DEF EditInv, EditType, EditRefused, NoEdit
<1> QED BY <1>1, <1>2, <1>3, <1>4

-----------------------------------------------------------------------------

LEMMA RowStutter ==
  ASSUME TrxInv, UNCHANGED rowVars PROVE TrxInv'
BY DEF TrxInv, TrxType, Ascending, Scoped, Mine, rowVars

LEMMA EditStutter ==
  ASSUME EditInv, UNCHANGED editVars PROVE EditInv'
BY DEF EditInv, EditType, editVars

LEMMA TrxInitInv == TrxInit => TrxEditInv
<1> SUFFICES ASSUME TrxInit PROVE TrxEditInv
  OBVIOUS
<1>1. \A c \in Session : Mine(c) = {}
  BY DEF TrxInit, Mine
<1>2. TrxInv
  BY <1>1 DEF TrxInit, NoTrx, TrxInv, TrxType, Ascending, Scoped
<1>3. EditInv
  BY DEF TrxInit, NoEdit, EditInv, EditType
<1> QED BY <1>2, <1>3 DEF TrxEditInv

LEMMA TrxStepInv == TrxEditInv /\ [TrxNext]_trxVars => TrxEditInv'
<1> SUFFICES ASSUME TrxEditInv, [TrxNext]_trxVars PROVE TrxEditInv'
  OBVIOUS
<1>0. TrxInv /\ EditInv
  BY DEF TrxEditInv
<1>1. ASSUME NEW c \in Session,
             (\E wanted \in SUBSET Row : BeginTrx(c, wanted)) \/ LockRow(c) \/ Callback(c)
               \/ CommitTrx(c) \/ TrxFails(c) \/ RetryTrx(c)
      PROVE  TrxEditInv'
  <2>1. TrxInv'
    BY <1>0, <1>1, BeginKeeps, LockKeeps, CallbackKeeps, CommitKeeps, FailKeeps, RetryKeeps
  <2>2. UNCHANGED editVars
    BY <1>1 DEF BeginTrx, LockRow, Callback, CommitTrx, TrxFails, RetryTrx, editVars
  <2> QED BY <1>0, <2>1, <2>2, EditStutter DEF TrxEditInv
<1>2. ASSUME NEW e \in Editor,
             ReadVersion(e) \/ UpdateWithLock(e) \/ DeleteWithLock(e) \/ EditRefused(e)
      PROVE  TrxEditInv'
  <2>1. UNCHANGED rowVars
    BY <1>2 DEF ReadVersion, UpdateWithLock, DeleteWithLock, EditRefused, rowVars
  <2> QED BY <1>0, <1>2, <2>1, EditKeeps, RowStutter DEF TrxEditInv
<1>3. CASE UNCHANGED trxVars
  BY <1>0, <1>3, RowStutter, EditStutter DEF TrxEditInv, trxVars, rowVars, editVars
<1> QED BY <1>1, <1>2, <1>3 DEF TrxNext

-----------------------------------------------------------------------------

\* The row lockRows waits for lies above every row its transaction holds, so a
\* chain of waiting transactions climbs through the rows and cannot close, however
\* many take part.
LockOrder ==
  \A c, d, e \in Session :
    WaitsFor(c, d) /\ WaitsFor(d, e) => \A r \in NextRow(c), q \in NextRow(d) : holder[r] = d => r < q

LEMMA Climbing == TrxInv => LockOrder
BY DEF TrxInv, TrxType, Ascending, LockOrder, WaitsFor, NextRow, Mine

\* Waits for row locks climb: no set of transactions can wait in a circle.
THEOREM LocksClimb == TrxSpec => []LockOrder
<1>1. TrxEditInv => LockOrder
  BY Climbing DEF TrxEditInv
<1> QED BY TrxInitInv, TrxStepInv, <1>1, PTL DEF TrxSpec

\* withTransaction, lockRows and the versioned edits keep their promises: no two
\* transactions wait for each other, an answered one took effect exactly once and
\* one that failed not at all, and no accepted edit is overwritten.
THEOREM TransactionsAreSafe == TrxSpec => []TransactionsSafe
<1>1. ASSUME TrxEditInv PROVE NoLockCycle
  <2> SUFFICES ASSUME NEW c \in Session, NEW d \in Session, WaitsFor(c, d), WaitsFor(d, c) PROVE FALSE
    BY DEF NoLockCycle
  <2>1. PICK r \in NextRow(c) : holder[r] = d
    BY DEF WaitsFor
  <2>2. PICK q \in NextRow(d) : holder[q] = c
    BY DEF WaitsFor
  <2>3. r < q /\ q < r
    BY <1>1, <2>1, <2>2, Climbing DEF TrxEditInv, LockOrder
  <2>4. r \in Nat /\ q \in Nat
    BY <1>1, <2>1, <2>2 DEF TrxEditInv, TrxInv, TrxType, NextRow
  <2> QED BY <2>3, <2>4
<1>2. TrxEditInv => EffectOnce
  BY DEF TrxEditInv, TrxInv, TrxType, Scoped, EffectOnce
<1>3. TrxEditInv => EditsNotLost
  BY DEF TrxEditInv, EditInv, EditType, EditsNotLost
<1>4. TrxEditInv => TransactionsSafe
  BY <1>1, <1>2, <1>3 DEF TransactionsSafe
<1> QED BY TrxInitInv, TrxStepInv, <1>4, PTL DEF TrxSpec

-----------------------------------------------------------------------------
(* The composition *)

\* Beside each other, transactions, retry loops and pool keep their promises: what
\* the run checks of them together holds for every number of actors and rows.
THEOREM DatabaseIsSafe == DatabaseSpec => []DatabaseSafe
<1>1. TransactionsSafe /\ RetriesSafe /\ PoolAccounted => DatabaseSafe
  BY DEF DatabaseSafe
<1> QED BY <1>1, TransactionsAreSafe, RetriesAreSafe, PoolSafe, PTL DEF DatabaseSpec

-----------------------------------------------------------------------------
(* The first rows of a finite set under a strict total order R, a set of   *)
(* pairs: what ORDER BY and LIMIT leave.                                   *)

StrictOrder(R, S) ==
  /\ \A x \in S : <<x, x>> \notin R
  /\ \A x, y, z \in S : <<x, y>> \in R /\ <<y, z>> \in R => <<x, z>> \in R
  /\ \A x, y \in S : x = y \/ <<x, y>> \in R \/ <<y, x>> \in R
Below(R, S, r) == {q \in S : <<q, r>> \in R}
Foremost(R, S, n) == {r \in S : Cardinality(Below(R, S, r)) < n}

LEMMA OrderOfSubset ==
  ASSUME NEW R, NEW S, StrictOrder(R, S), NEW T \in SUBSET S PROVE StrictOrder(R, T)
BY DEF StrictOrder

LEMMA BelowFinite ==
  ASSUME NEW R, NEW S, IsFiniteSet(S), NEW r
  PROVE  IsFiniteSet(Below(R, S, r)) /\ Cardinality(Below(R, S, r)) \in Nat
<1>1. Below(R, S, r) \in SUBSET S
  BY DEF Below
<1>2. IsFiniteSet(Below(R, S, r))
  BY <1>1, FS_Subset
<1> QED BY <1>2, FS_CardinalityType

\* A non-empty set has a first element: one with a minimal set of elements below.
LEMMA LeastExists ==
  ASSUME NEW R, NEW S, IsFiniteSet(S), StrictOrder(R, S), S # {}
  PROVE  \E x \in S : \A y \in S : <<y, x>> \notin R
<1> DEFINE B == {Below(R, S, x) : x \in S}
<1>1. IsWellFoundedOn(StrictSubsetOrdering(S), FiniteSubsetsOf(S))
  BY FS_StrictSubsetOrderingWellFounded
<1>2. FiniteSubsetsOf(S) = SUBSET S
  BY FS_FiniteSubsetsOfFinite
<1>3. B \subseteq FiniteSubsetsOf(S) /\ B # {}
  <2>1. \A x \in S : Below(R, S, x) \in SUBSET S
    BY DEF Below
  <2> QED BY <1>2, <2>1
<1> HIDE DEF B
<1>4. PICK b \in B : \A c \in B : ~ (<<c, b>> \in StrictSubsetOrdering(S))
  BY <1>1, <1>3, WFMin
<1>5. PICK x \in S : b = Below(R, S, x)
  BY <1>4 DEF B
<1>6. ASSUME NEW y \in S, <<y, x>> \in R PROVE FALSE
  <2>1. PICK c : c = Below(R, S, y)
    OBVIOUS
  <2>2. c \in B
    BY <2>1 DEF B
  <2>3. c \subseteq b
    BY <1>5, <1>6, <2>1 DEF Below, StrictOrder
  <2>4. y \in b /\ y \notin c
    BY <1>5, <1>6, <2>1 DEF Below, StrictOrder
  <2>5. <<c, b>> \in StrictSubsetOrdering(S)
    BY <1>3, <1>2, <2>2, <2>3, <2>4 DEF StrictSubsetOrdering
  <2> QED BY <1>4, <2>2, <2>5
<1> QED BY <1>6

LEMMA GreatestExists ==
  ASSUME NEW R, NEW S, IsFiniteSet(S), StrictOrder(R, S), S # {}
  PROVE  \E x \in S : \A y \in S : y = x \/ <<y, x>> \in R
<1>1. PICK Q : Q = {p \in S \X S : <<p[2], p[1]>> \in R}
  OBVIOUS
<1>2. \A x, y \in S : <<x, y>> \in Q <=> <<y, x>> \in R
  BY <1>1
<1>3. StrictOrder(Q, S)
  BY <1>2 DEF StrictOrder
<1>4. PICK x \in S : \A y \in S : <<y, x>> \notin Q
  BY <1>3, LeastExists
<1> QED BY <1>2, <1>4 DEF StrictOrder

\* What comes before one of the first n is one of the first n.
LEMMA ForemostIsInitial ==
  ASSUME NEW R, NEW S, IsFiniteSet(S), StrictOrder(R, S), NEW n \in Nat,
         NEW q \in Foremost(R, S, n), NEW r \in S, <<r, q>> \in R
  PROVE  r \in Foremost(R, S, n)
<1>1. q \in S /\ Cardinality(Below(R, S, q)) < n
  BY DEF Foremost
<1>2. Below(R, S, r) \in SUBSET Below(R, S, q)
  BY <1>1 DEF Below, StrictOrder
<1>3. Cardinality(Below(R, S, r)) <= Cardinality(Below(R, S, q))
  BY <1>2, BelowFinite, FS_Subset
<1>4. Cardinality(Below(R, S, r)) \in Nat /\ Cardinality(Below(R, S, q)) \in Nat
  BY BelowFinite
<1> QED BY <1>1, <1>3, <1>4 DEF Foremost

\* If some element is not one of the first n, there are n of them.
LEMMA ForemostFull ==
  ASSUME NEW R, NEW S, IsFiniteSet(S), StrictOrder(R, S), NEW n \in Nat, NEW r \in S,
         r \notin Foremost(R, S, n)
  PROVE  Cardinality(Foremost(R, S, n)) >= n
<1>1. PICK F \in SUBSET S : F = Foremost(R, S, n)
  BY DEF Foremost
<1>2. PICK T \in SUBSET S : T = S \ F
  OBVIOUS
<1>3. StrictOrder(R, T) /\ IsFiniteSet(T) /\ IsFiniteSet(F) /\ T # {}
  BY <1>1, <1>2, OrderOfSubset, FS_Subset
<1>4. PICK x \in T : \A y \in T : <<y, x>> \notin R
  BY <1>3, LeastExists
<1>5. Below(R, S, x) \in SUBSET F
  BY <1>2, <1>4 DEF Below
<1>6. Cardinality(Below(R, S, x)) <= Cardinality(F)
  BY <1>3, <1>5, FS_Subset
<1>7. Cardinality(Below(R, S, x)) >= n
  <2>1. ~ (Cardinality(Below(R, S, x)) < n)
    BY <1>1, <1>2, <1>4 DEF Foremost
  <2>2. Cardinality(Below(R, S, x)) \in Nat
    BY BelowFinite
  <2> QED BY <2>1, <2>2
<1>8. Cardinality(F) \in Nat /\ Cardinality(Below(R, S, x)) \in Nat
  BY <1>3, BelowFinite, FS_CardinalityType
<1> QED BY <1>1, <1>6, <1>7, <1>8

\* A set of at most n elements is its own first n.
LEMMA ForemostOfFew ==
  ASSUME NEW R, NEW S, IsFiniteSet(S), StrictOrder(R, S), NEW n \in Nat, Cardinality(S) <= n
  PROVE  Foremost(R, S, n) = S
<1>1. ASSUME NEW r \in S PROVE Cardinality(Below(R, S, r)) < n
  <2>1. Below(R, S, r) \in SUBSET S /\ r \notin Below(R, S, r)
    BY DEF Below, StrictOrder
  <2>2. /\ Cardinality(Below(R, S, r)) <= Cardinality(S)
        /\ Cardinality(S) = Cardinality(Below(R, S, r)) => S = Below(R, S, r)
    BY <2>1, FS_Subset
  <2>3. Cardinality(Below(R, S, r)) \in Nat /\ Cardinality(S) \in Nat
    BY BelowFinite, FS_CardinalityType
  <2>4. Cardinality(S) # Cardinality(Below(R, S, r))
    BY <2>1, <2>2
  <2> QED BY <2>2, <2>3, <2>4
<1> QED BY <1>1 DEF Foremost

\* A non-empty set has a first element, so some are among the first n > 0.
LEMMA ForemostSome ==
  ASSUME NEW R, NEW S, IsFiniteSet(S), StrictOrder(R, S), S # {}, NEW n \in Nat \ {0}
  PROVE  Foremost(R, S, n) # {}
<1>1. PICK x \in S : \A y \in S : <<y, x>> \notin R
  BY LeastExists
<1>2. Below(R, S, x) = {}
  BY <1>1 DEF Below
<1>3. Cardinality(Below(R, S, x)) = 0
  BY <1>2, FS_EmptySet
<1> QED BY <1>1, <1>3 DEF Foremost

\* A page of n out of n + 1 rows fetched: it is an initial part of what is left
\* and has a last row, or it is all that is left.
LEMMA PageIs ==
  ASSUME NEW R, NEW S, IsFiniteSet(S), StrictOrder(R, S), NEW n \in Nat \ {0},
         NEW F, F = Foremost(R, S, n + 1), NEW I, I = Foremost(R, F, n)
  PROVE  /\ I \in SUBSET S
         /\ Cardinality(F) > n => /\ \E l \in I : \A q \in I : q = l \/ <<q, l>> \in R
                                  /\ \A q \in I : \A r \in S \ I : <<q, r>> \in R
         /\ ~ (Cardinality(F) > n) => I = S
<1>1. F \in SUBSET S /\ I \in SUBSET F /\ I \in SUBSET S
  BY DEF Foremost
<1>2. IsFiniteSet(F) /\ StrictOrder(R, F) /\ IsFiniteSet(I) /\ StrictOrder(R, I)
  BY <1>1, FS_Subset, OrderOfSubset
<1>3. Cardinality(F) \in Nat
  BY <1>2, FS_CardinalityType
<1>4. ASSUME Cardinality(F) > n PROVE \E l \in I : \A q \in I : q = l \/ <<q, l>> \in R
  <2>1. F # {}
    BY <1>4, FS_EmptySet
  <2>2. I # {}
    BY <1>2, <2>1, ForemostSome
  <2> QED BY <1>2, <2>2, GreatestExists
<1>5. ASSUME NEW q \in I, NEW r \in S \ I PROVE <<q, r>> \in R
  <2>1. CASE <<r, q>> \in R
    <3>1. q \in F /\ r \in F
      BY <1>1, <2>1, ForemostIsInitial
    <3> QED BY <1>2, <2>1, <3>1, ForemostIsInitial
  <2> QED BY <1>1, <2>1 DEF StrictOrder
<1>6. ASSUME ~ (Cardinality(F) > n) PROVE I = S
  <2>1. ASSUME NEW r \in S, r \notin F PROVE FALSE
    <3>1. Cardinality(F) >= n + 1
      BY <2>1, ForemostFull
    <3> QED BY <1>3, <1>6, <3>1
  <2>2. F = S
    BY <1>1, <2>1
  <2> QED BY <1>2, <1>3, <1>6, <2>2, ForemostOfFew
<1> QED BY <1>1, <1>4, <1>5, <1>6

\* A batch of n: it is an initial part of what is left and has a last row, or,
\* if it is short, all that is left.
LEMMA FullBatchIs ==
  ASSUME NEW R, NEW S, IsFiniteSet(S), StrictOrder(R, S), NEW n \in Nat \ {0},
         NEW F, F = Foremost(R, S, n)
  PROVE  /\ F \in SUBSET S /\ IsFiniteSet(F) /\ Cardinality(F) \in Nat
         /\ ~ (Cardinality(F) < n) => \E l \in F : \A q \in F : q = l \/ <<q, l>> \in R
         /\ \A q \in F : \A r \in S \ F : <<q, r>> \in R
         /\ Cardinality(F) < n => F = S
<1>1. F \in SUBSET S
  BY DEF Foremost
<1>2. IsFiniteSet(F) /\ StrictOrder(R, F)
  BY <1>1, FS_Subset, OrderOfSubset
<1>3. Cardinality(F) \in Nat
  BY <1>2, FS_CardinalityType
<1>4. ASSUME ~ (Cardinality(F) < n) PROVE \E l \in F : \A q \in F : q = l \/ <<q, l>> \in R
  <2>1. F # {}
    BY <1>4, FS_EmptySet
  <2> QED BY <1>2, <2>1, GreatestExists
<1>5. ASSUME NEW q \in F, NEW r \in S \ F PROVE <<q, r>> \in R
  <2>1. CASE <<r, q>> \in R
    BY <1>1, <2>1, ForemostIsInitial
  <2> QED BY <1>1, <2>1 DEF StrictOrder
<1>6. ASSUME Cardinality(F) < n PROVE F = S
  <2>1. ASSUME NEW r \in S, r \notin F PROVE FALSE
    <3>1. Cardinality(F) >= n
      BY <2>1, ForemostFull
    <3> QED BY <1>3, <1>6, <3>1
  <2> QED BY <1>1, <2>1
<1> QED BY <1>1, <1>2, <1>3, <1>4, <1>5, <1>6

-----------------------------------------------------------------------------
(* Cursors: values that encodeCursor tells apart compare as before.        *)

LEMMA Multiples ==
  ASSUME NEW P \in Nat \ {0}, NEW v \in Nat
  PROVE  \E q \in Nat : v \div P = q /\ q * P <= v /\ v < q * P + P
OBVIOUS

LEMMA CursorKeeps ==
  ASSUME NEW v \in Nat, NEW e \in Nat, encodeCursor(e) = e \/ encodeCursor(v) # encodeCursor(e)
  PROVE  /\ encodeCursor(e) \in Nat
         /\ v < encodeCursor(e) <=> v < e
         /\ v > encodeCursor(e) <=> v > e
         /\ v = encodeCursor(e) <=> v = e
<1>1. PICK P \in Nat \ {0} : P = Precision
  BY PaginationConfig
<1>2. PICK a \in Nat : v \div P = a /\ a * P <= v /\ v < a * P + P
  BY Multiples
<1>3. PICK b \in Nat : e \div P = b /\ b * P <= e /\ e < b * P + P
  BY Multiples
<1>4. encodeCursor(v) = a * P /\ encodeCursor(e) = b * P
  BY <1>1, <1>2, <1>3 DEF encodeCursor
<1>5. a < b => a * P + P <= b * P
  OBVIOUS
<1>6. b < a => b * P + P <= a * P
  OBVIOUS
<1>7. PICK x \in Nat, y \in Nat : x = a * P /\ y = b * P
  OBVIOUS
<1>8. CASE y = e
  BY <1>4, <1>7, <1>8
<1>9. CASE x # y
  <2>1. a # b
    BY <1>7, <1>9
  <2>2. x + P <= y \/ y + P <= x
    BY <1>5, <1>6, <1>7, <2>1
  <2>3. x <= v /\ v < x + P /\ y <= e /\ e < y + P
    BY <1>2, <1>3, <1>7
  <2>4. (v < y <=> v < e) /\ (v > y <=> v > e) /\ (v = y <=> v = e)
    BY <2>2, <2>3
  <2> QED BY <1>4, <1>7, <2>4
<1> QED BY <1>4, <1>7, <1>8, <1>9


-----------------------------------------------------------------------------
(* Pagination: the invariant. *)

PagesType ==
  /\ rows \in [RowId -> SortValue \cup {NotThere}]
  /\ reader \in {"none", "asc", "desc", "batches", "done"}
  /\ after = NoCursor \/ after \in [k : Nat, id : RowId]
  /\ seen \in [RowId -> 0 .. 2]
  /\ steady \in SUBSET Rows /\ pageEnds \in SUBSET SortValue

\* Still to come, as the next query sees it.
Ahead(r) == \/ after = NoCursor
            \/ IF reader = "batches" THEN r > after.id ELSE Beyond(r, after)

\* A row that was returned lies behind the cursor, one that was there all along
\* and was not lies ahead of it.
RowOk(r) ==
  ~Blurred(rows[r]) =>
    /\ seen[r] <= 1
    /\ reader = "done" /\ r \in steady => seen[r] = 1
    /\ reader # "done" => /\ seen[r] = 1 => ~Ahead(r)
                          /\ r \in steady /\ seen[r] = 0 => Ahead(r)

PagesInv == PagesType /\ \A r \in Rows : RowOk(r)

-----------------------------------------------------------------------------
(* The order of the rows, and a page of them. *)

LEMMA RowsAre ==
  ASSUME PagesType
  PROVE  /\ Rows \in SUBSET RowId /\ IsFiniteSet(Rows)
         /\ \A r \in Rows : r \in RowId /\ r \in Nat /\ rows[r] \in SortValue /\ rows[r] \in Nat
<1>1. Rows \in SUBSET RowId
  BY DEF Rows
<1>2. IsFiniteSet(Rows)
  BY <1>1, PaginationConfig, FS_Subset
<1>3. \A r \in Rows : rows[r] \in SortValue
  BY DEF PagesType, Rows
<1> QED BY <1>1, <1>2, <1>3, PaginationConfig

\* The order of the rows as a set of pairs.
RowRelation == {p \in RowId \X RowId : Precedes(p[1], p[2])}

LEMMA RowOrder ==
  ASSUME PagesType, NEW S \in SUBSET Rows, NEW R, R = RowRelation
  PROVE  /\ IsFiniteSet(S) /\ StrictOrder(R, S)
         /\ \A q, r \in S : <<q, r>> \in R <=> Precedes(q, r)
         /\ \A T \in SUBSET S : \A n \in Nat : First(T, n) = Foremost(R, T, n)
<1>1. \A q, r \in S : <<q, r>> \in R <=> Precedes(q, r)
  BY RowsAre DEF RowRelation
<1>2. StrictOrder(R, S)
  <2>1. \A r \in S : r \in Nat /\ rows[r] \in Nat
    BY RowsAre
  <2>2. \A x \in S : ~Precedes(x, x)
    BY <2>1 DEF Precedes
  <2>3. \A x, y, z \in S : Precedes(x, y) /\ Precedes(y, z) => Precedes(x, z)
    BY <2>1 DEF Precedes
  <2>4. \A x, y \in S : x = y \/ Precedes(x, y) \/ Precedes(y, x)
    BY <2>1 DEF Precedes
  <2> QED BY <1>1, <2>2, <2>3, <2>4 DEF StrictOrder
<1>3. ASSUME NEW T \in SUBSET S, NEW n \in Nat PROVE First(T, n) = Foremost(R, T, n)
  <2>1. \A r \in T : {q \in T : Precedes(q, r)} = Below(R, T, r)
    BY <1>1 DEF Below
  <2> QED BY <2>1 DEF First, Foremost
<1>4. IsFiniteSet(S)
  BY RowsAre, FS_Subset
<1> QED BY <1>1, <1>2, <1>3, <1>4

\* The items of a page, the row its cursor is made of, and the rest.
LEMMA ItemsAre ==
  ASSUME PagesType, NEW A \in SUBSET Rows, NEW F, F = First(A, PageLimit + 1),
         NEW I, I = First(F, PageLimit)
  PROVE  /\ I \in SUBSET A
         /\ Cardinality(F) > PageLimit =>
              /\ LastOf(I) \in I
              /\ \A q \in I : q = LastOf(I) \/ Precedes(q, LastOf(I))
              /\ \A r \in A \ I : Precedes(LastOf(I), r)
         /\ ~ (Cardinality(F) > PageLimit) => I = A
<1>1. PICK R : R = RowRelation
  OBVIOUS
<1>2. /\ IsFiniteSet(A) /\ StrictOrder(R, A)
      /\ \A q, r \in A : <<q, r>> \in R <=> Precedes(q, r)
      /\ \A T \in SUBSET A : \A n \in Nat : First(T, n) = Foremost(R, T, n)
  BY <1>1, RowOrder
<1>3. PICK n \in Nat \ {0} : n = PageLimit
  BY PaginationConfig
<1>4. F = Foremost(R, A, n + 1)
  BY <1>2, <1>3
<1>5. F \in SUBSET A
  BY <1>4 DEF Foremost
<1>6. I = Foremost(R, F, n)
  BY <1>2, <1>3, <1>5
<1>7. /\ I \in SUBSET A
      /\ Cardinality(F) > n => /\ \E l \in I : \A q \in I : q = l \/ <<q, l>> \in R
                               /\ \A q \in I : \A r \in A \ I : <<q, r>> \in R
      /\ ~ (Cardinality(F) > n) => I = A
  BY <1>2, <1>4, <1>6, PageIs
<1>8. ASSUME Cardinality(F) > n
      PROVE  /\ LastOf(I) \in I
             /\ \A q \in I : q = LastOf(I) \/ Precedes(q, LastOf(I))
             /\ \A r \in A \ I : Precedes(LastOf(I), r)
  <2>1. \E l \in I : \A q \in I : q = l \/ Precedes(q, l)
    BY <1>2, <1>7, <1>8
  <2>2. LastOf(I) \in I /\ \A q \in I : q = LastOf(I) \/ Precedes(q, LastOf(I))
    BY <2>1 DEF LastOf
  <2>3. PICK l \in I : l = LastOf(I)
    BY <2>2
  <2>4. \A r \in A \ I : Precedes(l, r)
    BY <1>2, <1>7, <1>8, <2>3
  <2> QED BY <2>2, <2>3, <2>4
<1> QED BY <1>3, <1>7, <1>8

\* A cursor made of l parts the rows as l does, but for blurred ones.
LEMMA CursorParts ==
  ASSUME PagesType, reader \in {"asc", "desc"}, NEW l \in Rows, NEW r \in Rows,
         NEW c, c = [k |-> encodeCursor(rows[l]), id |-> l],
         encodeCursor(rows[l]) = rows[l] \/ encodeCursor(rows[r]) # encodeCursor(rows[l])
  PROVE  /\ (r = l \/ Precedes(r, l)) => ~Beyond(r, c)
         /\ Precedes(l, r) => Beyond(r, c)
<1>1. PICK v \in Nat, e \in Nat : v = rows[r] /\ e = rows[l]
  BY RowsAre
<1>2. r \in Nat /\ l \in Nat
  BY RowsAre
<1>3. PICK k \in Nat : /\ k = encodeCursor(e)
                       /\ (v < k <=> v < e) /\ (v > k <=> v > e) /\ (v = k <=> v = e)
  BY <1>1, CursorKeeps
<1>4. c.k = k /\ c.id = l
  BY <1>1, <1>3
<1> QED BY <1>1, <1>2, <1>3, <1>4 DEF Beyond, Precedes

\* What lies behind a cursor precedes what lies ahead of it.
LEMMA BehindPrecedes ==
  ASSUME PagesType, NEW l \in Rows, NEW r \in Rows, NEW c \in [k : Nat, id : RowId],
         ~Beyond(r, c), Beyond(l, c)
  PROVE  Precedes(r, l)
<1>1. /\ rows[r] \in Nat /\ rows[l] \in Nat /\ r \in Nat /\ l \in Nat
  BY RowsAre
<1>2. c.k \in Nat /\ c.id \in Nat
  BY PaginationConfig
<1> QED BY <1>1, <1>2 DEF Beyond, Precedes


-----------------------------------------------------------------------------
(* One lemma per action. *)

LEMMA PagesInitially == PaginationInit => PagesInv
BY DEF PaginationInit, PagesInv, PagesType, Rows

LEMMA InsertKeeps ==
  ASSUME PagesInv, NEW r \in RowId, NEW v \in SortValue, Insert(r, v) PROVE PagesInv'
<1>1. /\ r \notin Rows /\ seen[r] = 0 /\ rows' = [rows EXCEPT ![r] = v]
      /\ UNCHANGED <<reader, after, seen, steady, pageEnds>>
  BY DEF Insert
<1>2. /\ rows' \in [RowId -> SortValue \cup {NotThere}]
      /\ \A q \in RowId : q # r => rows'[q] = rows[q]
  BY <1>1 DEF PagesInv, PagesType
<1>3. \A q \in RowId : q # r => (q \in Rows' <=> q \in Rows)
  BY <1>2 DEF Rows
<1>4. PagesType'
  <2>1. steady' \in SUBSET Rows'
    BY <1>1, <1>3 DEF PagesInv, PagesType, Rows
  <2> QED BY <1>1, <1>2, <2>1 DEF PagesInv, PagesType
<1>5. ASSUME NEW q \in Rows' PROVE RowOk(q)'
  <2>0. q \in RowId
    BY DEF Rows
  <2>1. CASE q = r
    BY <1>1, <2>1 DEF RowOk, PagesInv, PagesType
  <2>2. CASE q # r
    <3>1. q \in Rows /\ RowOk(q)
      BY <1>3, <2>0, <2>2 DEF PagesInv
    <3> QED BY <1>1, <1>2, <2>0, <2>2, <3>1 DEF RowOk, Ahead, Beyond, Blurred
  <2> QED BY <2>1, <2>2
<1> QED BY <1>4, <1>5 DEF PagesInv

LEMMA DeleteKeeps ==
  ASSUME PagesInv, NEW r \in RowId, Delete(r) PROVE PagesInv'
<1>1. /\ rows' = [rows EXCEPT ![r] = NotThere] /\ steady' = steady \ {r}
      /\ UNCHANGED <<reader, after, seen, pageEnds>>
  BY DEF Delete
<1>2. /\ rows' \in [RowId -> SortValue \cup {NotThere}] /\ rows'[r] = NotThere
      /\ \A q \in RowId : q # r => rows'[q] = rows[q]
  BY <1>1 DEF PagesInv, PagesType
<1>3. /\ r \notin Rows' /\ \A q \in RowId : q # r => (q \in Rows' <=> q \in Rows)
  BY <1>2 DEF Rows
<1>4. PagesType'
  <2>1. steady' \in SUBSET Rows'
    BY <1>1, <1>3 DEF PagesInv, PagesType, Rows
  <2> QED BY <1>1, <1>2, <2>1 DEF PagesInv, PagesType
<1>5. ASSUME NEW q \in Rows' PROVE RowOk(q)'
  <2>0. q \in RowId /\ q # r
    BY <1>3 DEF Rows
  <2>1. q \in Rows /\ RowOk(q)
    BY <1>3, <2>0 DEF PagesInv
  <2> QED BY <1>1, <1>2, <2>0, <2>1 DEF RowOk, Ahead, Beyond, Blurred
<1> QED BY <1>4, <1>5 DEF PagesInv

LEMMA OpenKeeps ==
  ASSUME PagesInv, NEW kind \in {"asc", "desc", "batches"}, Open(kind) PROVE PagesInv'
<1>1. /\ reader' = kind /\ after' = NoCursor /\ seen' = [r \in RowId |-> 0] /\ steady' = Rows
      /\ pageEnds' = {} /\ UNCHANGED rows
  BY DEF Open
<1>2. Rows' = Rows
  BY <1>1 DEF Rows
<1>3. PagesType'
  BY <1>1, <1>2 DEF PagesInv, PagesType
<1>4. ASSUME NEW q \in Rows' PROVE RowOk(q)'
  <2>1. q \in RowId /\ seen'[q] = 0
    BY <1>1 DEF Rows
  <2> QED BY <1>1, <2>1 DEF RowOk, Ahead
<1> QED BY <1>3, <1>4 DEF PagesInv

LEMMA CloseKeeps == ASSUME PagesInv, Close PROVE PagesInv'
<1>1. /\ reader' = "none" /\ after' = NoCursor /\ seen' = [r \in RowId |-> 0] /\ steady' = {}
      /\ pageEnds' = {} /\ UNCHANGED rows
  BY DEF Close
<1>2. Rows' = Rows
  BY <1>1 DEF Rows
<1>3. PagesType'
  BY <1>1, <1>2 DEF PagesInv, PagesType
<1>4. ASSUME NEW q \in Rows' PROVE RowOk(q)'
  <2>1. q \in RowId /\ seen'[q] = 0
    BY <1>1 DEF Rows
  <2> QED BY <1>1, <2>1 DEF RowOk, Ahead
<1> QED BY <1>3, <1>4 DEF PagesInv

\* Rows returned are counted; the others are as before.
LEMMA Returned ==
  ASSUME PagesType, NEW items, Return(items)
  PROVE  /\ seen' \in [RowId -> 0 .. 2]
         /\ \A r \in RowId : r \notin items => seen'[r] = seen[r]
         /\ \A r \in RowId : r \in items /\ seen[r] = 0 => seen'[r] = 1
BY DEF PagesType, Return

\* A page that is not the last: what it returns lies behind the new cursor, what
\* it leaves lies ahead of it, and so does what lay behind or ahead before.
LEMMA PageKeeps ==
  ASSUME PagesInv, NEW A, A = {r \in Rows : Ahead(r)}, NEW items \in SUBSET A, Return(items),
         UNCHANGED <<rows, steady>>, PagesType', pageEnds \subseteq pageEnds', reader # "done",
         \/ reader' = "done" /\ items = A
         \/ /\ reader' = reader
            /\ \A r \in Rows : ~Blurred(rows[r])' =>
                 /\ r \in items \/ ~Ahead(r) => ~Ahead(r)'
                 /\ r \in A \ items => Ahead(r)'
  PROVE  PagesInv'
<1>1. Rows' = Rows
  BY DEF Rows
<1>2. ASSUME NEW r \in Rows, ~Blurred(rows[r])' PROVE RowOk(r)'
  <2>1. r \in RowId /\ rows'[r] = rows[r] /\ seen[r] \in 0 .. 2
    BY DEF PagesInv, PagesType, Rows
  <2>2. ~Blurred(rows[r])
    BY <1>2 DEF Blurred, encodeCursor
  <2>3. RowOk(r) /\ seen[r] <= 1
    BY <2>2 DEF PagesInv, RowOk
  <2>4. (r \notin items => seen'[r] = seen[r]) /\ (r \in items /\ seen[r] = 0 => seen'[r] = 1)
    BY <2>1, Returned DEF PagesInv
  <2>5. CASE r \in items
    <3>1. Ahead(r)
      BY <2>5
    <3>2. seen[r] = 0 /\ seen'[r] = 1
      BY <2>1, <2>2, <2>3, <2>4, <2>5, <3>1 DEF RowOk
    <3>3. reader' # "done" => ~Ahead(r)'
      BY <1>2, <2>5
    <3> QED BY <3>2, <3>3 DEF RowOk
  <2>6. CASE r \notin items
    <3>1. /\ seen[r] = 1 => ~Ahead(r)
          /\ r \in steady /\ seen[r] = 0 => Ahead(r)
      BY <2>2, <2>3 DEF RowOk
    <3>2. CASE reader' = "done" /\ items = A
      <4>1. ~Ahead(r)
        BY <2>6, <3>2
      <4>2. r \in steady => seen[r] = 1
        BY <2>1, <2>3, <3>1, <4>1
      <4> QED BY <2>3, <2>4, <2>6, <3>2, <4>2 DEF RowOk
    <3>3. CASE /\ reader' = reader
               /\ ~Ahead(r) => ~Ahead(r)'
               /\ r \in A \ items => Ahead(r)'
      <4>1. /\ seen'[r] = 1 => ~Ahead(r)'
            /\ r \in steady /\ seen'[r] = 0 => Ahead(r)'
        BY <2>4, <2>6, <3>1, <3>3
      <4> QED BY <2>3, <2>4, <2>6, <3>3, <4>1 DEF RowOk
    <3> QED BY <1>2, <3>2, <3>3
  <2> QED BY <2>5, <2>6
<1>3. \A r \in Rows : RowOk(r)'
  BY <1>2 DEF RowOk
<1> QED BY <1>1, <1>3 DEF PagesInv


LEMMA BuildPageKeeps == ASSUME PagesInv, buildPage PROVE PagesInv'
<1>1. PICK A \in SUBSET Rows : A = applyCursor
  BY DEF applyCursor
<1>2. PICK F : F = First(A, PageLimit + 1)
  OBVIOUS
<1>3. PICK I : I = First(F, PageLimit)
  OBVIOUS
<1>4. /\ reader \in {"asc", "desc"} /\ Return(I) /\ UNCHANGED <<rows, steady>>
      /\ IF Cardinality(F) > PageLimit
         THEN /\ after' = [k |-> encodeCursor(rows[LastOf(I)]), id |-> LastOf(I)]
              /\ pageEnds' = pageEnds \cup {rows[LastOf(I)]}
              /\ UNCHANGED reader
         ELSE reader' = "done" /\ UNCHANGED <<after, pageEnds>>
  BY <1>1, <1>2, <1>3 DEF buildPage
<1>5. /\ I \in SUBSET A
      /\ Cardinality(F) > PageLimit =>
           /\ LastOf(I) \in I
           /\ \A q \in I : q = LastOf(I) \/ Precedes(q, LastOf(I))
           /\ \A r \in A \ I : Precedes(LastOf(I), r)
      /\ ~ (Cardinality(F) > PageLimit) => I = A
  BY <1>2, <1>3, ItemsAre DEF PagesInv
<1>6. A = {r \in Rows : Ahead(r)}
  BY <1>1, <1>4 DEF applyCursor, Ahead
<1>7. Rows' = Rows /\ PagesType /\ seen' \in [RowId -> 0 .. 2]
  BY <1>4, Returned DEF Rows, PagesInv
<1>8. CASE ~ (Cardinality(F) > PageLimit)
  <2>1. PagesType'
    BY <1>4, <1>7, <1>8 DEF PagesType
  <2> QED BY <1>4, <1>5, <1>6, <1>8, <2>1, PageKeeps
<1>9. CASE Cardinality(F) > PageLimit
  <2>1. PICK l \in I : l = LastOf(I)
    BY <1>5, <1>9
  <2>2. l \in A /\ l \in Rows /\ rows[l] \in SortValue /\ rows[l] \in Nat /\ l \in RowId
    BY <1>5, <1>7, RowsAre
  <2>3. PICK c : c = [k |-> encodeCursor(rows[l]), id |-> l]
    OBVIOUS
  <2>4. after' = c /\ pageEnds' = pageEnds \cup {rows[l]} /\ reader' = reader
    BY <1>4, <1>9, <2>1, <2>3
  <2>5. c \in [k : Nat, id : RowId]
    <3>1. encodeCursor(rows[l]) \in Nat
      BY <2>2, PaginationConfig DEF encodeCursor
    <3> QED BY <2>2, <2>3, <3>1
  <2>6. after' # NoCursor
    BY <2>4, <2>5, PaginationConfig
  <2>7. PagesType'
    BY <1>4, <1>7, <2>2, <2>4, <2>5 DEF PagesType
  <2>8. ASSUME NEW r \in Rows, ~Blurred(rows[r])'
        PROVE  /\ r \in I \/ ~Ahead(r) => ~Ahead(r)'
               /\ r \in A \ I => Ahead(r)'
    <3>1. encodeCursor(rows[l]) = rows[l] \/ encodeCursor(rows[r]) # encodeCursor(rows[l])
      BY <1>4, <2>4, <2>8 DEF Blurred, encodeCursor
    <3>2. /\ (r = l \/ Precedes(r, l)) => ~Beyond(r, c)
          /\ Precedes(l, r) => Beyond(r, c)
      BY <1>4, <1>7, <2>2, <2>3, <3>1, CursorParts
    <3>3. Ahead(r)' <=> Beyond(r, c)
      BY <1>4, <2>4, <2>6 DEF Ahead, Beyond
    <3>4. r \in I => r = l \/ Precedes(r, l)
      BY <1>5, <1>9, <2>1
    <3>5. r \in A \ I => Precedes(l, r)
      BY <1>5, <1>9, <2>1
    <3>6. ASSUME ~Ahead(r) PROVE Precedes(r, l)
      <4>1. after # NoCursor /\ ~Beyond(r, after) /\ Beyond(l, after)
        BY <1>1, <1>4, <2>2, <3>6 DEF Ahead, applyCursor
      <4>2. after \in [k : Nat, id : RowId]
        BY <1>7, <4>1 DEF PagesType
      <4> QED BY <1>7, <2>2, <4>1, <4>2, BehindPrecedes
    <3> QED BY <3>2, <3>3, <3>4, <3>5, <3>6
  <2>9. pageEnds \subseteq pageEnds' /\ reader # "done"
    BY <1>4, <2>4
  <2> QED BY <1>4, <1>5, <1>6, <2>4, <2>7, <2>8, <2>9, PageKeeps
<1> QED BY <1>8, <1>9

\* The first n of a set of ids.
FirstIds(A, n) == {r \in A : Cardinality({q \in A : q < r}) < n}

\* A batch by id, the row its cursor is made of, and the rest.
LEMMA BatchesAre ==
  ASSUME PagesType, NEW A \in SUBSET Rows, NEW n \in Nat \ {0},
         NEW I, I = FirstIds(A, n)
  PROVE  /\ I \in SUBSET A /\ (\A q \in I : \A r \in A \ I : q < r) /\ Cardinality(I) \in Nat
         /\ ~ (Cardinality(I) < n) => Max(I) \in I /\ \A q \in I : q <= Max(I)
         /\ Cardinality(I) < n => I = A
<1>0. IsFiniteSet(A) /\ \A r \in A : r \in Nat
  BY RowsAre, FS_Subset
<1>1. PICK R : R = {p \in A \X A : p[1] < p[2]}
  OBVIOUS
<1>2. \A q, r \in A : <<q, r>> \in R <=> q < r
  BY <1>1
<1>3. StrictOrder(R, A)
  BY <1>0, <1>2 DEF StrictOrder
<1>4. I = Foremost(R, A, n)
  <2>1. \A r \in A : {q \in A : q < r} = Below(R, A, r)
    BY <1>2 DEF Below
  <2> QED BY <2>1 DEF Foremost, FirstIds
<1>5. /\ I \in SUBSET A /\ IsFiniteSet(I) /\ Cardinality(I) \in Nat
      /\ ~ (Cardinality(I) < n) => \E l \in I : \A q \in I : q = l \/ <<q, l>> \in R
      /\ \A q \in I : \A r \in A \ I : <<q, r>> \in R
      /\ Cardinality(I) < n => I = A
  BY <1>0, <1>3, <1>4, FullBatchIs
<1>6. ASSUME ~ (Cardinality(I) < n) PROVE Max(I) \in I /\ \A q \in I : q <= Max(I)
  <2>1. PICK l \in I : \A q \in I : q = l \/ q < l
    BY <1>2, <1>5, <1>6
  <2>2. \A q \in I : l >= q
    BY <1>0, <1>5, <2>1
  <2>3. Max(I) \in I /\ \A q \in I : Max(I) >= q
    BY <2>1, <2>2 DEF Max
  <2> QED BY <1>0, <1>5, <2>3
<1> QED BY <1>2, <1>5, <1>6

LEMMA StreamBatchesKeeps == ASSUME PagesInv, streamBatches PROVE PagesInv'
<1>1. PICK A \in SUBSET Rows : A = {r \in Rows : after = NoCursor \/ r > after.id}
  OBVIOUS
<1>2. PICK n \in Nat \ {0} : n = PageLimit
  BY PaginationConfig
<1>3. PICK I : I = FirstIds(A, n)
  OBVIOUS
<1>4. /\ reader = "batches" /\ Return(I) /\ UNCHANGED <<rows, steady, pageEnds>>
      /\ IF Cardinality(I) < n THEN reader' = "done" /\ UNCHANGED after
         ELSE after' = [k |-> 0, id |-> Max(I)] /\ UNCHANGED reader
  BY <1>1, <1>2, <1>3 DEF streamBatches, FirstIds
<1>5. /\ I \in SUBSET A /\ (\A q \in I : \A r \in A \ I : q < r)
      /\ ~ (Cardinality(I) < n) => Max(I) \in I /\ \A q \in I : q <= Max(I)
      /\ Cardinality(I) < n => I = A
  BY <1>3, BatchesAre DEF PagesInv
<1>6. A = {r \in Rows : Ahead(r)}
  BY <1>1, <1>4 DEF Ahead
<1>7. Rows' = Rows /\ PagesType /\ seen' \in [RowId -> 0 .. 2]
  BY <1>4, Returned DEF Rows, PagesInv
<1>8. CASE Cardinality(I) < n
  <2>1. PagesType'
    BY <1>4, <1>7, <1>8 DEF PagesType
  <2> QED BY <1>4, <1>5, <1>6, <1>8, <2>1, PageKeeps
<1>9. CASE ~ (Cardinality(I) < n)
  <2>1. PICK l \in I : l = Max(I)
    BY <1>5, <1>9
  <2>2. l \in A /\ l \in Rows /\ l \in RowId /\ l \in Nat
    BY <1>5, <1>7, RowsAre
  <2>3. after' = [k |-> 0, id |-> l] /\ reader' = reader
    BY <1>4, <1>9, <2>1
  <2>4. after' \in [k : Nat, id : RowId] /\ after'.id = l /\ after' # NoCursor
    BY <2>2, <2>3, PaginationConfig
  <2>5. PagesType'
    BY <1>4, <1>7, <2>3, <2>4 DEF PagesType
  <2>6. ASSUME NEW r \in Rows
        PROVE  /\ r \in I \/ ~Ahead(r) => ~Ahead(r)'
               /\ r \in A \ I => Ahead(r)'
    <3>1. r \in Nat
      BY <1>7, RowsAre
    <3>2. Ahead(r)' <=> r > l
      BY <1>4, <2>3, <2>4 DEF Ahead
    <3>3. r \in I => r <= l
      BY <1>5, <1>9, <2>1
    <3>4. r \in A \ I => l < r
      BY <1>5, <2>1
    <3>5. ASSUME ~Ahead(r) PROVE r <= l
      <4>1. after # NoCursor /\ ~ (r > after.id) /\ l > after.id
        BY <1>1, <1>4, <2>2, <3>5 DEF Ahead
      <4>2. after.id \in Nat
        BY <1>7, <4>1, PaginationConfig DEF PagesType
      <4> QED BY <2>2, <3>1, <4>1, <4>2
    <3> QED BY <2>2, <3>1, <3>2, <3>3, <3>4, <3>5
  <2>7. pageEnds \subseteq pageEnds' /\ reader # "done"
    BY <1>4
  <2> QED BY <1>4, <1>5, <1>6, <2>3, <2>5, <2>6, <2>7, PageKeeps
<1> QED BY <1>8, <1>9

\* Whatever is inserted and deleted between the pages of utils/stablePagination.js
\* or the batches of streamBatches, a reader that comes to the end was given every
\* row that was there all along, exactly once, but for blurred ones: for any
\* finite table, page limit and precision of the cursor.
THEOREM PagesAreExact == PaginationSpec => []PagesExact
<1>1. PaginationInit => PagesInv
  BY PagesInitially
<1>2. PagesInv /\ [PaginationNext]_paginationVars => PagesInv'
  <2> SUFFICES ASSUME PagesInv, [PaginationNext]_paginationVars PROVE PagesInv'
    OBVIOUS
  <2>1. CASE UNCHANGED paginationVars
    BY <2>1 DEF paginationVars, PagesInv, PagesType, Rows, RowOk, Ahead, Beyond, Blurred
  <2>2. CASE \E r \in RowId : Delete(r) \/ \E v \in SortValue : Insert(r, v)
    BY <2>2, DeleteKeeps, InsertKeeps
  <2>3. CASE \E kind \in {"asc", "desc", "batches"} : Open(kind)
    BY <2>3, OpenKeeps
  <2> QED BY <2>1, <2>2, <2>3, BuildPageKeeps, StreamBatchesKeeps, CloseKeeps DEF PaginationNext
<1>3. PagesInv => PagesExact
  BY DEF PagesInv, PagesExact, RowOk
<1> QED BY <1>1, <1>2, <1>3, PTL DEF PaginationSpec


=============================================================================
