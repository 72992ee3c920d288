------------------------ MODULE CircuitBreakerProofs ------------------------
(* Machine-checked proofs about CircuitBreaker, for every number of callers *)
(* and every threshold, window, cooldown and trial count.                   *)
EXTENDS CircuitBreaker, FiniteSetTheorems, SequenceTheorems, TLAPS

-----------------------------------------------------------------------------
(* What each method keeps true of the object it works on. *)

\* The part of the inductive invariant that speaks of one breaker object.
Sound(b) ==
  /\ b \in BreakerType
  /\ (b.openedAge # None) <=> (b.state = "open")
  /\ Len(b.failures) < FailureThreshold
  /\ b.successCount < SuccessThreshold
  /\ b.state # "closed" => b.failures = <<>>
  /\ b.state # "half-open" => b.successCount = 0

\* A transition yields a sound breaker even from one whose counter has just
\* reached its threshold, because _transitionTo clears both counters.
LEMMA TransitionSound ==
  ASSUME NEW b \in BreakerType, NEW next \in States, b.state # next
  PROVE  /\ Sound(TransitionTo(b, next))
         /\ TransitionTo(b, next).state = next
         /\ next = "open" => TransitionTo(b, next).openedAge = 0
         /\ TransitionTo(b, next).halfOpenCallsInFlight = b.halfOpenCallsInFlight
<1> DEFINE t == [b EXCEPT !.state = next, !.failures = <<>>, !.successCount = 0,
                          !.openedAge = IF next = "open" THEN 0 ELSE None]
<1>1. TransitionTo(b, next) = t
  BY DEF TransitionTo
<1>2. /\ t.state = next
      /\ t.failures = <<>>
      /\ t.successCount = 0
      /\ t.openedAge = IF next = "open" THEN 0 ELSE None
      /\ t.halfOpenCallsInFlight = b.halfOpenCallsInFlight
  BY DEF BreakerType
<1>3. <<>> \in Seq(0..(WindowMs + 1)) /\ Len(<<>>) = 0
  OBVIOUS
<1>4. (IF next = "open" THEN 0 ELSE None) \in (0..TimeoutMs) \cup {None}
  BY BreakerOptions
<1>5. t \in BreakerType
  BY <1>3, <1>4 DEF BreakerType
<1>6. Sound(t)
  <2> HIDE DEF t
  <2>1. Len(t.failures) < FailureThreshold /\ t.successCount < SuccessThreshold
    BY <1>2, <1>3, BreakerOptions
  <2>2. (t.openedAge # None) <=> (t.state = "open")
    BY <1>2, BreakerOptions
  <2> QED BY <1>2, <1>5, <2>1, <2>2 DEF Sound
<1> QED BY <1>1, <1>2, <1>6

\* The lazy move to half-open either does nothing or ends an elapsed cooldown.
LEMMA MoveSound ==
  ASSUME NEW b, Sound(b)
  PROVE  LET m == MoveToHalfOpenIfReady(b) IN
         /\ Sound(m)
         /\ m.halfOpenCallsInFlight = b.halfOpenCallsInFlight
         /\ \/ m = b /\ (b.state = "open" => b.openedAge < TimeoutMs)
            \/ b.state = "open" /\ b.openedAge = TimeoutMs /\ m.state = "half-open"
<1>1. CASE b.state = "open" /\ b.openedAge >= TimeoutMs
  <2>1. b.openedAge = TimeoutMs
    BY <1>1, BreakerOptions DEF Sound, BreakerType
  <2>2. MoveToHalfOpenIfReady(b) = TransitionTo(b, "half-open")
    BY <1>1 DEF MoveToHalfOpenIfReady
  <2> QED BY <1>1, <2>1, <2>2, TransitionSound DEF Sound, States
<1>2. CASE ~(b.state = "open" /\ b.openedAge >= TimeoutMs)
  <2>1. MoveToHalfOpenIfReady(b) = b
    BY <1>2 DEF MoveToHalfOpenIfReady
  <2>2. b.state = "open" => b.openedAge < TimeoutMs
    BY <1>2, BreakerOptions DEF Sound, BreakerType
  <2> QED BY <2>1, <2>2
<1> QED BY <1>1, <1>2

\* Pruning shortens the window and touches nothing else.
LEMMA PruneSound ==
  ASSUME NEW b \in BreakerType
  PROVE  LET p == PruneFailures(b) IN
         /\ p \in BreakerType
         /\ Len(p.failures) <= Len(b.failures)
         /\ b.failures = <<>> => p.failures = <<>>
         /\ p.state = b.state
         /\ p.openedAge = b.openedAge
         /\ p.successCount = b.successCount
         /\ p.halfOpenCallsInFlight = b.halfOpenCallsInFlight
<1> DEFINE f == b.failures
           expired == {k \in DOMAIN f : f[k] > WindowMs}
           n == Cardinality(expired)
<1>1. f \in Seq(0..(WindowMs + 1))
  BY DEF BreakerType
<1>2. n \in Nat
  <2>1. DOMAIN f = 1..Len(f) /\ Len(f) \in Nat
    BY <1>1
  <2>2. IsFiniteSet(1..Len(f))
    BY <2>1, FS_Interval
  <2>3. IsFiniteSet(expired)
    BY <2>1, <2>2, FS_Subset
  <2> QED BY <2>3, FS_CardinalityType
<1>3. /\ SubSeq(f, n + 1, Len(f)) \in Seq(0..(WindowMs + 1))
      /\ Len(SubSeq(f, n + 1, Len(f))) =
           IF n + 1 <= Len(f) THEN Len(f) - (n + 1) + 1 ELSE 0
  <2> HIDE DEF n, f
  <2>1. \A i \in (n + 1)..Len(f) : f[i] \in 0..(WindowMs + 1)
    <3> DEFINE S == 0..(WindowMs + 1)
    <3>1. f \in Seq(S)
      BY <1>1
    <3> HIDE DEF S
    <3>2. \A i \in (n + 1)..Len(f) : i \in 1..Len(f)
      BY <1>2, <3>1
    <3>3. \A i \in (n + 1)..Len(f) : f[i] \in S
      BY <3>1, <3>2
    <3> QED BY <3>3 DEF S
  <2>2. n + 1 \in Int /\ Len(f) \in Int
    BY <1>1, <1>2
  <2> QED BY <2>1, <2>2, SubSeqProperties
<1>4. Len(SubSeq(f, n + 1, Len(f))) <= Len(f)
  <2> HIDE DEF n, f
  <2> QED BY <1>1, <1>2, <1>3
<1>5. ASSUME f = <<>> PROVE SubSeq(f, n + 1, Len(f)) = <<>>
  <2>1. Len(f) = 0
    BY <1>5
  <2> HIDE DEF n, f
  <2> QED BY <1>1, <1>2, <2>1
<1>6. PruneFailures(b) = [b EXCEPT !.failures = SubSeq(f, n + 1, Len(f))]
  BY DEF PruneFailures
<1> HIDE DEF n, f
<1>7. b.failures = f
  BY DEF f
<1> QED BY <1>3, <1>4, <1>5, <1>6, <1>7 DEF BreakerType

LEMMA RecordSuccessSound ==
  ASSUME NEW b, Sound(b)
  PROVE  LET s == RecordSuccess(b) IN
         /\ Sound(s)
         /\ s.halfOpenCallsInFlight = b.halfOpenCallsInFlight
         /\ s.state # "open" \/ s = b
         /\ b.state = "open" => s = b
<1>1. CASE b.state = "half-open"
  <2> DEFINE counted == [b EXCEPT !.successCount = b.successCount + 1]
  <2>1. /\ counted \in BreakerType
        /\ counted.state = "half-open"
        /\ counted.failures = <<>>
        /\ counted.openedAge = None
        /\ counted.successCount = b.successCount + 1
        /\ counted.halfOpenCallsInFlight = b.halfOpenCallsInFlight
    BY <1>1 DEF Sound, BreakerType
  <2>2. RecordSuccess(b) = IF counted.successCount >= SuccessThreshold
                             THEN TransitionTo(counted, "closed") ELSE counted
    BY <1>1 DEF RecordSuccess
  <2> HIDE DEF counted
  <2>3. CASE counted.successCount >= SuccessThreshold
    BY <1>1, <2>1, <2>2, <2>3, TransitionSound DEF States
  <2>4. CASE ~(counted.successCount >= SuccessThreshold)
    <3>1. Len(counted.failures) < FailureThreshold
      BY <2>1, BreakerOptions
    <3>2. counted.successCount < SuccessThreshold
      BY <2>1, <2>4, BreakerOptions DEF BreakerType
    <3> QED BY <1>1, <2>1, <2>2, <2>4, <3>1, <3>2 DEF Sound
  <2> QED BY <2>3, <2>4
<1>2. CASE b.state = "closed"
  <2>1. RecordSuccess(b) = [b EXCEPT !.failures = <<>>]
    BY <1>2 DEF RecordSuccess
  <2>2. <<>> \in Seq(0..(WindowMs + 1)) /\ Len(<<>>) = 0
    OBVIOUS
  <2>3. [b EXCEPT !.failures = <<>>] \in BreakerType
    BY <2>2 DEF Sound, BreakerType
  <2> QED BY <1>2, <2>1, <2>2, <2>3, BreakerOptions DEF Sound, BreakerType
<1>3. CASE b.state = "open"
  BY <1>3 DEF RecordSuccess
<1> QED BY <1>1, <1>2, <1>3 DEF Sound, BreakerType, States

LEMMA RecordFailureSound ==
  ASSUME NEW b, Sound(b)
  PROVE  LET s == RecordFailure(b) IN
         /\ Sound(s)
         /\ s.halfOpenCallsInFlight = b.halfOpenCallsInFlight
         /\ s.state = "open" => s = b \/ (b.state # "open" /\ s.openedAge = 0)
         /\ b.state = "open" => s = b
<1>1. CASE b.state = "half-open"
  BY <1>1, TransitionSound DEF Sound, RecordFailure, States
<1>2. CASE b.state = "closed"
  <2> DEFINE grown == [b EXCEPT !.failures = Append(b.failures, 0)]
             pushed == PruneFailures(grown)
  <2>1. /\ grown \in BreakerType
        /\ grown.state = "closed"
        /\ grown.successCount = 0
        /\ grown.openedAge = None
        /\ grown.halfOpenCallsInFlight = b.halfOpenCallsInFlight
    <3>1. Append(b.failures, 0) \in Seq(0..(WindowMs + 1))
      BY BreakerOptions DEF Sound, BreakerType
    <3> QED BY <1>2, <3>1 DEF Sound, BreakerType
  <2> HIDE DEF grown
  <2>2. /\ pushed \in BreakerType
        /\ pushed.state = "closed"
        /\ pushed.successCount = 0
        /\ pushed.openedAge = None
        /\ pushed.halfOpenCallsInFlight = b.halfOpenCallsInFlight
    BY <2>1, PruneSound
  <2>3. RecordFailure(b) = IF Len(pushed.failures) >= FailureThreshold
                             THEN TransitionTo(pushed, "open") ELSE pushed
    BY <1>2 DEF RecordFailure, grown
  <2> HIDE DEF pushed
  <2>4. CASE Len(pushed.failures) >= FailureThreshold
    BY <1>2, <2>2, <2>3, <2>4, TransitionSound DEF States
  <2>5. CASE ~(Len(pushed.failures) >= FailureThreshold)
    <3>1. Len(pushed.failures) < FailureThreshold
      BY <2>2, <2>5, BreakerOptions DEF BreakerType
    <3>2. pushed.successCount < SuccessThreshold
      BY <2>2, BreakerOptions
    <3> QED BY <1>2, <2>2, <2>3, <2>5, <3>1, <3>2 DEF Sound
  <2> QED BY <2>4, <2>5
<1>3. CASE b.state = "open"
  BY <1>3 DEF RecordFailure
<1> QED BY <1>1, <1>2, <1>3 DEF Sound, BreakerType, States

-----------------------------------------------------------------------------

\* The inductive invariant: a sound object, exact probe slots, and the age of
\* the last trip tied to the breaker's own cooldown.
Inv ==
  /\ Sound(breaker)
  /\ caller \in [Call -> {"idle", "plain", "probe"}]
  /\ healthy \in BOOLEAN
  /\ ProbeSlotsExact
  /\ sinceTrip \in (0..TimeoutMs) \cup {None}
  /\ breaker.state = "open" => sinceTrip = breaker.openedAge
  /\ breaker.state # "open" => sinceTrip \in {None, TimeoutMs}

LEMMA ProbesFinite ==
  /\ IsFiniteSet(Probes)
  /\ Cardinality(Probes) \in Nat
  BY BreakerOptions, FS_Subset, FS_CardinalityType DEF Probes

LEMMA InitInv == BreakerInit => Inv
<1> SUFFICES ASSUME BreakerInit PROVE Inv
  OBVIOUS
<1>1. Sound(breaker)
  <2>1. <<>> \in Seq(0..(WindowMs + 1)) /\ Len(<<>>) = 0
    OBVIOUS
  <2> QED BY <2>1, BreakerOptions DEF BreakerInit, NewBreaker, Sound, BreakerType, States
<1>2. Probes = {}
  BY DEF BreakerInit, Probes
<1>3. ProbeSlotsExact
  BY <1>2, FS_EmptySet, BreakerOptions DEF BreakerInit, NewBreaker, ProbeSlotsExact
<1> QED BY <1>1, <1>3, BreakerOptions DEF BreakerInit, NewBreaker, Inv

LEMMA EnterCallInv ==
  ASSUME Inv, NEW c \in Call, EnterCall(c)
  PROVE  Inv' /\ (caller'[c] # "idle" => sinceTrip \in {None, TimeoutMs})
<1> DEFINE m == MoveToHalfOpenIfReady(breaker)
<1>1. /\ Sound(m)
      /\ m.halfOpenCallsInFlight = breaker.halfOpenCallsInFlight
      /\ \/ m = breaker /\ (breaker.state = "open" => breaker.openedAge < TimeoutMs)
         \/ breaker.state = "open" /\ breaker.openedAge = TimeoutMs /\ m.state = "half-open"
  BY MoveSound DEF Inv
<1>2. m.state # "open" => sinceTrip \in {None, TimeoutMs}
  BY <1>1 DEF Inv
<1>3. m.state = "open" => m = breaker
  BY <1>1
<1> HIDE DEF m
<1>4. CASE Refused(m) /\ breaker' = m /\ UNCHANGED caller
  <2>1. Probes' = Probes
    BY <1>4 DEF Probes
  <2>2. sinceTrip' = sinceTrip
    BY <1>3, <1>4 DEF EnterCall, NoteTrip
  <2>3. caller'[c] = "idle"
    BY <1>4 DEF EnterCall
  <2>4. healthy' = healthy
    BY DEF EnterCall
  <2> QED BY <1>1, <1>2, <1>3, <1>4, <2>1, <2>2, <2>3, <2>4 DEF Inv, ProbeSlotsExact, Sound
<1>5. CASE /\ m.state = "closed"
           /\ breaker' = m
           /\ caller' = [caller EXCEPT ![c] = "plain"]
  <2>1. Probes' = Probes
    BY <1>5 DEF Probes, EnterCall, Inv
  <2>2. sinceTrip' = sinceTrip
    BY <1>3, <1>5 DEF EnterCall, NoteTrip
  <2>3. healthy' = healthy
    BY DEF EnterCall
  <2> QED BY <1>1, <1>2, <1>3, <1>5, <2>1, <2>2, <2>3 DEF Inv, ProbeSlotsExact, Sound
<1>6. CASE /\ ~Refused(m)
           /\ m.state = "half-open"
           /\ breaker' = [m EXCEPT !.halfOpenCallsInFlight = @ + 1]
           /\ caller' = [caller EXCEPT ![c] = "probe"]
  <2>1. c \notin Probes /\ Probes' = Probes \cup {c}
    BY <1>6 DEF Probes, EnterCall, Inv
  <2>2. Cardinality(Probes') = Cardinality(Probes) + 1
    BY <2>1, ProbesFinite, FS_AddElement
  <2>3. Cardinality(Probes) < TrialCount
    BY <1>1, <1>6, ProbesFinite, BreakerOptions DEF Refused, Inv, ProbeSlotsExact
  <2>4. /\ breaker' \in BreakerType
        /\ breaker'.state = "half-open"
        /\ breaker'.failures = m.failures
        /\ breaker'.successCount = m.successCount
        /\ breaker'.openedAge = m.openedAge
        /\ breaker'.halfOpenCallsInFlight = m.halfOpenCallsInFlight + 1
    BY <1>1, <1>6 DEF Sound, BreakerType
  <2>5. Sound(breaker')
    BY <1>1, <1>6, <2>4 DEF Sound
  <2>6. ProbeSlotsExact'
    BY <1>1, <2>2, <2>3, <2>4, ProbesFinite, BreakerOptions DEF Inv, ProbeSlotsExact
  <2>7. sinceTrip' = sinceTrip
    BY <2>4 DEF EnterCall, NoteTrip
  <2>8. healthy' = healthy
    BY DEF EnterCall
  <2> QED BY <1>2, <1>6, <2>4, <2>5, <2>6, <2>7, <2>8 DEF Inv, Sound
<1> QED BY <1>4, <1>5, <1>6 DEF EnterCall, m

LEMMA SettleInv ==
  ASSUME Inv, NEW c \in Call, NEW outcome \in Outcome, SettleCall(c, outcome)
  PROVE  Inv'
<1> DEFINE r == CASE outcome = "ok" -> RecordSuccess(breaker)
                  [] outcome = "dependencyFailure" -> RecordFailure(breaker)
                  [] outcome = "clientError" -> breaker
<1>1. /\ Sound(r)
      /\ r.halfOpenCallsInFlight = breaker.halfOpenCallsInFlight
      /\ breaker.state = "open" => r = breaker
      /\ r.state = "open" => r = breaker \/ (breaker.state # "open" /\ r.openedAge = 0)
  <2>1. CASE outcome = "ok"
    BY <2>1, RecordSuccessSound DEF Inv
  <2>2. CASE outcome = "dependencyFailure"
    BY <2>2, RecordFailureSound DEF Inv
  <2>3. CASE outcome = "clientError"
    BY <2>3 DEF Inv
  <2> QED BY <2>1, <2>2, <2>3 DEF Outcome
<1>2. breaker' = FreeSlot(r, c) /\ caller' = [caller EXCEPT ![c] = "idle"]
      /\ caller[c] # "idle" /\ NoteTrip /\ healthy' = healthy
  BY DEF SettleCall
<1> HIDE DEF r
<1>3. r.halfOpenCallsInFlight \in Nat /\ r \in BreakerType
  BY <1>1 DEF Sound, BreakerType
<1>4. /\ breaker' \in BreakerType
      /\ breaker'.state = r.state
      /\ breaker'.failures = r.failures
      /\ breaker'.successCount = r.successCount
      /\ breaker'.openedAge = r.openedAge
  BY <1>2, <1>3 DEF FreeSlot, BreakerType
<1>5. Sound(breaker')
  BY <1>1, <1>4 DEF Sound
<1>6. ProbeSlotsExact'
  <2>1. CASE caller[c] = "probe"
    <3>1. c \in Probes /\ Probes' = Probes \ {c}
      BY <1>2, <2>1 DEF Probes, Inv
    <3>2. Cardinality(Probes') = Cardinality(Probes) - 1
      BY <3>1, ProbesFinite, FS_RemoveElement
    <3>3. Cardinality(Probes) # 0
      BY <3>1, ProbesFinite, FS_EmptySet
    <3>4. breaker'.halfOpenCallsInFlight = r.halfOpenCallsInFlight - 1
      BY <1>1, <1>2, <1>3, <2>1, <3>3 DEF FreeSlot, BreakerType, Inv, ProbeSlotsExact
    <3> QED BY <1>1, <3>2, <3>3, <3>4, ProbesFinite, BreakerOptions DEF Inv, ProbeSlotsExact
  <2>2. CASE caller[c] # "probe"
    <3>1. Probes' = Probes
      BY <1>2, <2>2 DEF Probes, Inv
    <3>2. breaker' = r
      BY <1>2, <2>2 DEF FreeSlot
    <3> QED BY <1>1, <3>1, <3>2 DEF Inv, ProbeSlotsExact
  <2> QED BY <2>1, <2>2
<1>7. /\ sinceTrip' \in (0..TimeoutMs) \cup {None}
      /\ breaker'.state = "open" => sinceTrip' = breaker'.openedAge
      /\ breaker'.state # "open" => sinceTrip' \in {None, TimeoutMs}
  <2>1. CASE breaker.state = "open"
    BY <1>1, <1>2, <1>4, <2>1 DEF NoteTrip, Inv
  <2>2. CASE breaker.state # "open" /\ r.state = "open"
    BY <1>1, <1>2, <1>4, <2>2, BreakerOptions DEF NoteTrip, Inv
  <2>3. CASE breaker.state # "open" /\ r.state # "open"
    BY <1>2, <1>4, <2>3 DEF NoteTrip, Inv
  <2> QED BY <2>1, <2>2, <2>3
<1> QED BY <1>2, <1>5, <1>6, <1>7 DEF Inv

LEMMA ObserveInv == Inv /\ Observe => Inv'
<1> SUFFICES ASSUME Inv, Observe PROVE Inv'
  OBVIOUS
<1> DEFINE m == MoveToHalfOpenIfReady(breaker)
<1>1. /\ Sound(m)
      /\ m.halfOpenCallsInFlight = breaker.halfOpenCallsInFlight
      /\ \/ m = breaker
         \/ breaker.state = "open" /\ breaker.openedAge = TimeoutMs /\ m.state = "half-open"
  BY MoveSound DEF Inv
<1>2. breaker' = PruneFailures(m) /\ UNCHANGED <<caller, healthy, sinceTrip>>
  BY DEF Observe
<1> HIDE DEF m
<1>3. /\ breaker' \in BreakerType
      /\ Len(breaker'.failures) <= Len(m.failures)
      /\ m.failures = <<>> => breaker'.failures = <<>>
      /\ breaker'.state = m.state
      /\ breaker'.openedAge = m.openedAge
      /\ breaker'.successCount = m.successCount
      /\ breaker'.halfOpenCallsInFlight = m.halfOpenCallsInFlight
  BY <1>1, <1>2, PruneSound DEF Sound
<1>4. Len(breaker'.failures) < FailureThreshold
  <2>1. Len(breaker'.failures) \in Nat /\ Len(m.failures) \in Nat
    BY <1>1, <1>3 DEF Sound, BreakerType
  <2> QED BY <1>1, <1>3, <2>1, BreakerOptions DEF Sound
<1>5. Sound(breaker')
  BY <1>1, <1>3, <1>4 DEF Sound
<1>6. ProbeSlotsExact'
  BY <1>1, <1>2, <1>3 DEF Inv, ProbeSlotsExact, Probes
<1> QED BY <1>1, <1>2, <1>3, <1>5, <1>6 DEF Inv, Sound

LEMMA ResetInv == Inv /\ Reset => Inv'
<1> SUFFICES ASSUME Inv, Reset PROVE Inv'
  OBVIOUS
<1>1. /\ Sound(breaker')
      /\ breaker'.state = "closed"
      /\ breaker'.halfOpenCallsInFlight = breaker.halfOpenCallsInFlight
  <2>1. CASE breaker.state = "closed"
    BY <2>1 DEF Reset, TransitionTo, Inv
  <2>2. CASE breaker.state # "closed"
    BY <2>2, TransitionSound DEF Reset, Inv, Sound, States
  <2> QED BY <2>1, <2>2
<1>2. ProbeSlotsExact'
  BY <1>1 DEF Reset, Inv, ProbeSlotsExact, Probes
<1> QED BY <1>1, <1>2 DEF Reset, Inv

LEMMA TickInv == Inv /\ Tick => Inv'
<1> SUFFICES ASSUME Inv, Tick PROVE Inv'
  OBVIOUS
<1> DEFINE f == breaker.failures
           g == [k \in DOMAIN f |-> Older(f[k], WindowMs + 1)]
           a == IF breaker.openedAge = None THEN None
                ELSE Older(breaker.openedAge, TimeoutMs)
<1>1. breaker' = [breaker EXCEPT !.failures = g, !.openedAge = a]
  BY DEF Tick
<1>2. g \in Seq(0..(WindowMs + 1)) /\ Len(g) = Len(f)
  <2>1. f \in Seq(0..(WindowMs + 1))
    BY DEF Inv, Sound, BreakerType
  <2> HIDE DEF f
  <2>2. \A k \in 1..Len(f) : Older(f[k], WindowMs + 1) \in 0..(WindowMs + 1)
    BY <2>1, BreakerOptions DEF Older
  <2>3. g = [k \in 1..Len(f) |-> Older(f[k], WindowMs + 1)]
    BY <2>1
  <2> QED BY <2>1, <2>2, <2>3
<1>3. a \in (0..TimeoutMs) \cup {None} /\ (a = None <=> breaker.openedAge = None)
  BY BreakerOptions DEF Inv, Sound, BreakerType, Older
<1>4. f = <<>> => g = <<>>
  <2> SUFFICES ASSUME f = <<>> PROVE g = <<>>
    OBVIOUS
  <2>1. Len(g) = 0
    BY <1>2
  <2> HIDE DEF g
  <2> QED BY <1>2, <2>1
<1>5. f = breaker.failures
  OBVIOUS
<1> HIDE DEF f, g
<1>6. /\ breaker' \in BreakerType
      /\ breaker'.state = breaker.state
      /\ breaker'.failures = g
      /\ breaker'.successCount = breaker.successCount
      /\ breaker'.openedAge = a
      /\ breaker'.halfOpenCallsInFlight = breaker.halfOpenCallsInFlight
  <2> HIDE DEF a
  <2> QED BY <1>1, <1>2, <1>3 DEF Inv, Sound, BreakerType
<1>7. Sound(breaker')
  BY <1>2, <1>3, <1>4, <1>5, <1>6 DEF Inv, Sound
<1>8. ProbeSlotsExact'
  BY <1>6 DEF Tick, Inv, ProbeSlotsExact, Probes
<1>9. /\ sinceTrip' \in (0..TimeoutMs) \cup {None}
      /\ breaker'.state = "open" => sinceTrip' = breaker'.openedAge
      /\ breaker'.state # "open" => sinceTrip' \in {None, TimeoutMs}
  <2>1. sinceTrip' = IF sinceTrip = None THEN None ELSE Older(sinceTrip, TimeoutMs)
    BY DEF Tick
  <2>2. sinceTrip' \in (0..TimeoutMs) \cup {None}
    BY <2>1, BreakerOptions DEF Inv, Older
  <2>3. breaker'.state = "open" => sinceTrip' = breaker'.openedAge
    BY <1>6, <2>1 DEF Inv
  <2>4. breaker'.state # "open" => sinceTrip' \in {None, TimeoutMs}
    BY <1>6, <2>1, BreakerOptions DEF Inv, Older
  <2> QED BY <2>2, <2>3, <2>4
<1> QED BY <1>7, <1>8, <1>9 DEF Tick, Inv

LEMMA RecoverInv == Inv /\ Recover => Inv'
  BY DEF Inv, Recover, Sound, ProbeSlotsExact, Probes, BreakerType

LEMMA NextInv == Inv /\ [BreakerNext]_breakerVars => Inv'
<1> SUFFICES ASSUME Inv, [BreakerNext]_breakerVars PROVE Inv'
  OBVIOUS
<1>1. CASE UNCHANGED breakerVars
  BY <1>1 DEF breakerVars, Inv, Sound, ProbeSlotsExact, Probes, BreakerType
<1> QED BY <1>1, EnterCallInv, SettleInv, ObserveInv, ResetInv, TickInv, RecoverInv DEF BreakerNext

-----------------------------------------------------------------------------

THEOREM SpecInv == BreakerSpec => []Inv
  BY InitInv, NextInv, PTL DEF BreakerSpec

\* Every reachable breaker is well typed, and openedAge is set exactly while
\* it is OPEN.
THEOREM TypeCorrect == BreakerSpec => []TypeOK
<1>1. Inv => TypeOK
  BY DEF Inv, Sound, TypeOK
<1> QED BY <1>1, SpecInv, PTL

\* Probe slots never leak and at most trialCount probes run at once, for any
\* number of concurrent callers.
THEOREM ProbeSlots == BreakerSpec => []ProbeSlotsExact
<1>1. Inv => ProbeSlotsExact
  BY DEF Inv
<1> QED BY <1>1, SpecInv, PTL

\* The breaker acts on a threshold in the step that reaches it.
THEOREM Decisions == BreakerSpec => []DecisionsTakenAtOnce
<1>1. Inv => DecisionsTakenAtOnce
  BY DEF Inv, Sound, DecisionsTakenAtOnce
<1> QED BY <1>1, SpecInv, PTL

\* No late result and no read of a tripped breaker cuts its cooldown short.
THEOREM Cooldown == BreakerSpec => CooldownRespected
<1> DEFINE Quiet == (\E c \in Call : caller[c] = "idle" /\ caller'[c] # "idle")
                      => sinceTrip \in {None, TimeoutMs}
<1>1. Inv /\ [BreakerNext]_breakerVars => [Quiet]_breakerVars
  <2> SUFFICES ASSUME Inv, [BreakerNext]_breakerVars, NEW c \in Call,
                      caller[c] = "idle", caller'[c] # "idle"
               PROVE  sinceTrip \in {None, TimeoutMs}
    OBVIOUS
  <2>1. ASSUME NEW d \in Call, EnterCall(d) PROVE sinceTrip \in {None, TimeoutMs}
    <3>1. c = d
      BY <2>1 DEF EnterCall, Inv
    <3> QED BY <2>1, <3>1, EnterCallInv
  <2>2. ASSUME NEW d \in Call, NEW outcome \in Outcome, SettleCall(d, outcome) PROVE FALSE
    BY <2>2 DEF SettleCall, Inv
  <2>3. ~(Observe \/ Reset \/ Tick \/ Recover \/ UNCHANGED breakerVars)
    BY DEF Observe, Reset, Tick, Recover, breakerVars
  <2> QED BY <2>1, <2>2, <2>3 DEF BreakerNext
<1> QED BY <1>1, SpecInv, PTL DEF BreakerSpec, CooldownRespected

=============================================================================
