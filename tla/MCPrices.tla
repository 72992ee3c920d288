----------------------------- MODULE MCPrices -----------------------------
(***************************************************************************)
(* Price look-ups, the circuit breaker in front of every source, and the   *)
(* stampede protection of cached values, each on a small instance.  They   *)
(* share no state, so a property of one is checked in the behaviours where *)
(* only that one moves: a sum of state spaces in place of their product.   *)
(***************************************************************************)
EXTENDS PriceOracle, Stampede, CircuitBreaker

VARIABLE part   \* the component that moves
vars == <<part, oracleVars, keyVars, breakerVars>>

Looks == part = "oracle"
Guards == part = "stampede"
Breaks == part = "breaker"

\* The components at rest have one initial state.
Init ==
  /\ OracleInit /\ StampedeInit /\ BreakerInit
  /\ part \in {"oracle", "stampede", "breaker"}
  /\ Guards \/ entry = "none"
  /\ Looks \/ (rejects /\ \A m \in Price : market[1] <= m)

Next ==
  /\ UNCHANGED part
  /\ \/ Looks /\ OracleNext /\ UNCHANGED <<keyVars, breakerVars>>
     \/ Guards /\ StampedeNext /\ UNCHANGED <<oracleVars, breakerVars>>
     \/ Breaks /\ BreakerNext /\ UNCHANGED <<oracleVars, keyVars>>

\* Commands, requests and fetches time out, cron keeps firing, cooldowns end; and
\* a flight cannot poll for ever, for lockTimeoutMs is over sooner or later.  The
\* clock runs, callers of the breaker keep coming (price refresh, poll loop and
\* request handlers are periodic), and every admitted call settles: the breakers
\* are built with requestTimeoutMs or wrap HTTP clients with their own timeout.
Fairness ==
  /\ \A p \in Process : /\ WF_oracleVars(Looks /\ FlightStep(p))
                         /\ WF_oracleVars(Looks /\ RefreshTick(p))
  /\ \A p \in Process, s \in Keyed : WF_oracleVars(Looks /\ Cooldown(p, s))
  /\ \A w \in Worker : WF_keyVars(Guards /\ WorkerStep(w))
  /\ \A n \in Node : SF_keyVars(Guards /\ WakeUp(n) /\ GoesTo(n, "fetch"))
  /\ WF_breakerVars(Breaks /\ Tick)
  /\ \A c \in Call : /\ WF_breakerVars(Breaks /\ EnterCall(c))
                      /\ WF_breakerVars(Breaks /\ \E outcome \in Outcome : SettleCall(c, outcome))

Spec == Init /\ [][Next]_vars /\ Fairness

\* Whoever asks for a price, or for a cached value behind a lock, is answered.
CallersAnswered == PriceAnswered /\ FetchAnswered

===========================================================================
