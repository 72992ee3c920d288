--------------------------- MODULE CircuitBreaker ---------------------------
(***************************************************************************)
(* utils/circuitBreaker.js: the breaker in front of Soroban RPC, Horizon,  *)
(* webhook delivery and every price source, shared by concurrent callers.  *)
(*                                                                         *)
(* The code compares timestamps with Date.now(); the model keeps the AGE   *)
(* of each timestamp instead (now - t), advanced by Tick and saturated     *)
(* just past the largest age any comparison can tell apart, so no clock    *)
(* bound is needed.  failureCount is always failures.length and            *)
(* halfOpenInFlight is always halfOpenCallsInFlight > 0 in the code, so    *)
(* neither is a variable of its own.                                       *)
(***************************************************************************)
EXTENDS Naturals, Sequences, FiniteSets

CONSTANTS
  Call,              \* the concurrent callers sharing this breaker
  FailureThreshold,  \* failures in the rolling window that open it
  SuccessThreshold,  \* successes in half-open that close it
  TimeoutMs,         \* cooldown while open, in ticks
  WindowMs,          \* rolling window, in ticks
  TrialCount,        \* trial calls allowed in half-open
  None               \* JavaScript's null

\* The constructor clamps every option with Math.max(1, ...).
ASSUME BreakerOptions ==
  /\ IsFiniteSet(Call)
  /\ FailureThreshold \in Nat \ {0}
  /\ SuccessThreshold \in Nat \ {0}
  /\ TimeoutMs \in Nat \ {0}
  /\ WindowMs \in Nat \ {0}
  /\ TrialCount \in Nat \ {0}
  /\ None \notin Nat

VARIABLES
  breaker,    \* the CircuitBreaker object
  caller,     \* each caller: not in call(), or awaiting fn() as plain / probe
  healthy,    \* the dependency has recovered for good (environment)
  sinceTrip   \* history: age of the last transition to OPEN, None after reset()

breakerVars == <<breaker, caller, healthy, sinceTrip>>

States == {"closed", "open", "half-open"}

Outcome == {"ok", "dependencyFailure", "clientError"}

-----------------------------------------------------------------------------
(* The object's methods, as functions of its fields. *)

NewBreaker ==
  [state |-> "closed", failures |-> <<>>, successCount |-> 0,
   openedAge |-> None, halfOpenCallsInFlight |-> 0]

\* halfOpenCallsInFlight is deliberately left alone: its probes still run.
TransitionTo(b, next) ==
  IF b.state = next THEN b
  ELSE [b EXCEPT !.state = next, !.failures = <<>>, !.successCount = 0,
                 !.openedAge = IF next = "open" THEN 0 ELSE None]

MoveToHalfOpenIfReady_Early(b) ==
  IF b.state = "open" /\ b.openedAge + 1 >= TimeoutMs
    THEN TransitionTo(b, "half-open") ELSE b

MoveToHalfOpenIfReady(b) ==
  IF b.state = "open" /\ b.openedAge >= TimeoutMs
    THEN TransitionTo(b, "half-open") ELSE b

\* Failures are pushed in clock order, so the expired ones are a prefix.
PruneFailures(b) ==
  LET expired == {k \in DOMAIN b.failures : b.failures[k] > WindowMs}
  IN  [b EXCEPT !.failures =
         SubSeq(b.failures, Cardinality(expired) + 1, Len(b.failures))]

RecordSuccess_NoClose(b) ==
  IF b.state = "half-open" THEN [b EXCEPT !.successCount = 0]
  ELSE IF b.state = "closed" THEN [b EXCEPT !.failures = <<>>]
  ELSE b

RecordSuccess(b) ==
  CASE b.state = "half-open" ->
         LET counted == [b EXCEPT !.successCount = b.successCount + 1]
         IN  IF counted.successCount >= SuccessThreshold
               THEN TransitionTo(counted, "closed") ELSE counted
    [] b.state = "closed" -> [b EXCEPT !.failures = <<>>]
    [] b.state = "open" -> b

RecordFailure_OffByOne(b) ==
  CASE b.state = "half-open" -> TransitionTo(b, "open")
    [] b.state = "closed" ->
         LET pushed == PruneFailures([b EXCEPT !.failures = Append(b.failures, 0)])
         IN  IF Len(pushed.failures) > FailureThreshold
               THEN TransitionTo(pushed, "open") ELSE pushed
    [] b.state = "open" -> b

RecordFailure(b) ==
  CASE b.state = "half-open" -> TransitionTo(b, "open")
    [] b.state = "closed" ->
         LET pushed == PruneFailures([b EXCEPT !.failures = Append(b.failures, 0)])
         IN  IF Len(pushed.failures) >= FailureThreshold
               THEN TransitionTo(pushed, "open") ELSE pushed
    [] b.state = "open" -> b

-----------------------------------------------------------------------------

BreakerInit ==
  /\ breaker = NewBreaker
  /\ caller = [c \in Call |-> "idle"]
  /\ healthy = FALSE
  /\ sinceTrip = None

\* History only: a step that opens the breaker restarts the age.
NoteTrip == sinceTrip' = IF breaker.state # "open" /\ breaker'.state = "open"
                           THEN 0 ELSE sinceTrip

\* call() up to the await: the lazy move to half-open happens first, whether
\* or not the call is then admitted; a refused call changes nothing else.
Refused(b) ==
  \/ b.state = "open"
  \/ b.state = "half-open" /\ b.halfOpenCallsInFlight >= TrialCount

EnterCall(c) ==
  LET b == MoveToHalfOpenIfReady(breaker) IN
  /\ caller[c] = "idle"
  /\ \/ /\ Refused(b)
        /\ breaker' = b
        /\ UNCHANGED caller
     \/ /\ ~Refused(b)
        /\ b.state = "closed"
        /\ breaker' = b
        /\ caller' = [caller EXCEPT ![c] = "plain"]
     \/ /\ ~Refused(b)
        /\ b.state = "half-open"
        /\ breaker' = [b EXCEPT !.halfOpenCallsInFlight = @ + 1]
        /\ caller' = [caller EXCEPT ![c] = "probe"]
  /\ NoteTrip
  /\ UNCHANGED healthy

\* The finally block: only a call admitted as a probe gives its slot back.
FreeSlot_Leaky(b, c) ==
  IF caller[c] = "probe" /\ b.state = "half-open"
    THEN [b EXCEPT !.halfOpenCallsInFlight = IF @ = 0 THEN 0 ELSE @ - 1]
    ELSE b

FreeSlot(b, c) ==
  IF caller[c] = "probe"
    THEN [b EXCEPT !.halfOpenCallsInFlight = IF @ = 0 THEN 0 ELSE @ - 1]
    ELSE b

\* call() after the await.  The outcome is judged in whatever state the
\* breaker has by now, which need not be the one the call was admitted in.
\* A request timeout (_withTimeout) is a dependencyFailure: ETIMEDOUT.
SettleCall(c, outcome) ==
  /\ caller[c] # "idle"
  /\ healthy => outcome = "ok"
  /\ breaker' = FreeSlot(CASE outcome = "ok" -> RecordSuccess(breaker)
                           [] outcome = "dependencyFailure" -> RecordFailure(breaker)
                           [] outcome = "clientError" -> breaker, c)
  /\ caller' = [caller EXCEPT ![c] = "idle"]
  /\ NoteTrip
  /\ UNCHANGED healthy

\* getState(), isOpen(), getFailureCount(), getSafeState(): reads that move
\* the breaker to half-open and prune its window.
Observe ==
  /\ breaker' = PruneFailures(MoveToHalfOpenIfReady(breaker))
  /\ UNCHANGED <<caller, healthy, sinceTrip>>

\* reset(), from an operator or a test; in-flight calls are not cancelled.
Reset ==
  /\ breaker' = TransitionTo(breaker, "closed")
  /\ sinceTrip' = None
  /\ UNCHANGED <<caller, healthy>>

Older(age, cap) == IF age < cap THEN age + 1 ELSE age

\* Date.now() advances by one tick.
Tick ==
  /\ breaker' = [breaker EXCEPT
       !.failures = [k \in DOMAIN @ |-> Older(@[k], WindowMs + 1)],
       !.openedAge = IF @ = None THEN None ELSE Older(@, TimeoutMs)]
  /\ sinceTrip' = IF sinceTrip = None THEN None ELSE Older(sinceTrip, TimeoutMs)
  /\ UNCHANGED <<caller, healthy>>

\* Environment: from now on every call that settles succeeds.
Recover ==
  /\ ~healthy
  /\ healthy' = TRUE
  /\ UNCHANGED <<breaker, caller, sinceTrip>>

BreakerNext ==
  \/ \E c \in Call : EnterCall(c)
  \/ \E c \in Call, outcome \in Outcome : SettleCall(c, outcome)
  \/ Observe
  \/ Reset
  \/ Tick
  \/ Recover

BreakerSpec == BreakerInit /\ [][BreakerNext]_breakerVars

-----------------------------------------------------------------------------

BreakerType ==
  [state : States, failures : Seq(0..(WindowMs + 1)), successCount : Nat,
   openedAge : (0..TimeoutMs) \cup {None}, halfOpenCallsInFlight : Nat]

\* Every field keeps its type, and openedAge is set exactly while OPEN.
TypeOK ==
  /\ breaker \in BreakerType
  /\ (breaker.openedAge # None) <=> (breaker.state = "open")
  /\ caller \in [Call -> {"idle", "plain", "probe"}]
  /\ healthy \in BOOLEAN
  /\ sinceTrip \in (0..TimeoutMs) \cup {None}

Probes == {c \in Call : caller[c] = "probe"}

\* halfOpenCallsInFlight counts exactly the calls admitted as probes that
\* have not settled, across reopenings, resets and new half-open periods
\* (_transitionTo does not reset it), and never exceeds trialCount: no slot
\* leaks and no more than trialCount probes run against a sick dependency.
ProbeSlotsExact ==
  /\ breaker.halfOpenCallsInFlight = Cardinality(Probes)
  /\ Cardinality(Probes) <= TrialCount

\* A breaker never sits on a decision already reached: while CLOSED its
\* window holds fewer than failureThreshold failures, while HALF_OPEN it has
\* fewer than successThreshold successes, and neither counter survives into
\* the next state.
DecisionsTakenAtOnce ==
  /\ Len(breaker.failures) < FailureThreshold
  /\ breaker.successCount < SuccessThreshold
  /\ breaker.state # "closed" => breaker.failures = <<>>
  /\ breaker.state # "half-open" => breaker.successCount = 0

\* Once the breaker trips, no call reaches the dependency for timeoutMs
\* unless reset() intervenes, whatever late results of calls admitted
\* before the trip, or reads through getState(), arrive meanwhile.
CooldownRespected ==
  [][ (\E c \in Call : caller[c] = "idle" /\ caller'[c] # "idle")
        => sinceTrip \in {None, TimeoutMs} ]_breakerVars

\* A breaker in front of a recovered dependency eventually closes: no stuck
\* half-open period, no probe slot lost to an earlier failure.
Recovers == healthy ~> (breaker.state = "closed")

=============================================================================
