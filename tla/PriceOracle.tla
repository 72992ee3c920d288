---------------------------- MODULE PriceOracle ----------------------------
(***************************************************************************)
(* Prices of one asset: getPrice(), the single-flight fetchFreshPrice()    *)
(* with its anomaly check (services/priceOracle.js), the price sources     *)
(* (services/sources) and the refresh job (jobs/priceRefresh.js), on       *)
(* several processes that share Redis.                                     *)
(*                                                                         *)
(* An await is a step boundary.  The breaker around each source is         *)
(* CircuitBreaker's subject: a call it refuses is an "error" here.  The    *)
(* quorum flag and the names of the sources only decorate the answer, and  *)
(* only cache warming reads the set of queried assets: all left out.       *)
(***************************************************************************)
EXTENDS Integers, FiniteSets

CONSTANTS
  Process,           \* replicas
  Caller,            \* requests that call getPrice()
  Source,            \* price sources that support the asset
  Keyed,             \* those with an API key and so an auth circuit
  Price,             \* prices the market can have
  AnomalyThreshold,  \* config.price.anomalyThresholdPercent
  NoPrice,           \* null
  MaxMoves,          \* bound: moves of the market
  MaxOracleFaults    \* bound: failed commands and unusable answers

ASSUME OracleConfig ==
  /\ Keyed \subseteq Source
  /\ Price \subseteq Nat \ {0}
  /\ AnomalyThreshold \in Nat
  /\ NoPrice \notin Int
  /\ MaxMoves \in Nat /\ MaxOracleFaults \in Nat

VARIABLES
  market,    \* <<price before the last move, price now>>
  moves,
  circuit,   \* circuit[p][s]: the source's auth circuit is open
  cached,    \* price:<asset>
  reading,   \* price:history:<asset>
  flight,    \* inFlight's entry on each process
  call,      \* each request's place
  refresh,   \* the refresh cycle of each process
  rejects,   \* config.price.anomalyAction = 'reject'
  oracleFaults

oracleVars == <<market, moves, circuit, cached, reading, flight, call, refresh,
                rejects, oracleFaults>>

Landed == [pc |-> "none", price |-> NoPrice, down |-> FALSE, anomalous |-> FALSE]
NewCall == [pc |-> "new", at |-> "nowhere", answer |-> NoPrice]

OracleInit ==
  /\ market \in {<<m, m>> : m \in Price}
  /\ moves = 0
  /\ circuit = [p \in Process |-> [s \in Keyed |-> FALSE]]
  /\ cached = NoPrice /\ reading = NoPrice
  /\ flight = [p \in Process |-> Landed]
  /\ call = [c \in Caller |-> NewCall]
  /\ refresh = [p \in Process |-> "idle"]
  /\ rejects \in BOOLEAN
  /\ oracleFaults = 0

Failures(n) == oracleFaults + n <= MaxOracleFaults /\ oracleFaults' = oracleFaults + n
NoFailure == UNCHANGED oracleFaults

-----------------------------------------------------------------------------
(* The world *)

MarketMoves ==
  /\ moves < MaxMoves
  /\ \E m \in Price \ {market[2]} : market' = <<market[2], m>>
  /\ moves' = moves + 1
  /\ UNCHANGED <<circuit, cached, reading, flight, call, refresh, rejects, oracleFaults>>

\* The TTLs of the two keys, and an auth circuit's cooldown, run out.
ExpireCached ==
  /\ cached # NoPrice /\ cached' = NoPrice
  /\ UNCHANGED <<market, moves, circuit, reading, flight, call, refresh, rejects,
                 oracleFaults>>

ExpireReading ==
  /\ reading # NoPrice /\ reading' = NoPrice
  /\ UNCHANGED <<market, moves, circuit, cached, flight, call, refresh, rejects,
                 oracleFaults>>

Cooldown(p, s) ==
  /\ circuit[p][s] /\ circuit' = [circuit EXCEPT ![p][s] = FALSE]
  /\ UNCHANGED <<market, moves, cached, reading, flight, call, refresh, rejects,
                 oracleFaults>>

-----------------------------------------------------------------------------
(* fetchFreshPrice: one flight per process *)

\* Starts a flight, or joins the one in the air.
Join(p, down) ==
  flight' = IF flight[p].pc # "none" THEN flight
            ELSE [flight EXCEPT ![p] = [Landed EXCEPT !.pc = "sources", !.down = down]]

\* The promise settles: everybody who waits on it goes on, and the entry goes.
Land(p, price) ==
  /\ flight' = [flight EXCEPT ![p] = Landed]
  /\ call' = [c \in Caller |-> IF call[c].pc = "wait" /\ call[c].at = p
                               THEN [call[c] EXCEPT !.pc = "done", !.answer = price] ELSE call[c]]
  /\ refresh' = [refresh EXCEPT ![p] = "idle"]

\* What any source may answer ("late": a price from before the market's last
\* move), and what one with an API key may do besides.
SourceOutcomes == {"ok", "late", "empty", "error"}
Outcomes == SourceOutcomes \cup {"denied", "skipped"}

Answer(outcome) == CASE outcome = "ok" -> market[2]
                     [] outcome = "late" -> market[1]
                     [] OTHER -> NoPrice

\* A 401 opens the circuit, any response with a body closes it.
SourceCircuit(open, outcome) ==
  outcome = "denied" \/ (open /\ outcome \in {"error", "skipped"})

\* The k-th smallest of the sources' answers, and the mean of the middle two
\* (or of the middle one with itself).
KthAnswer(answers, k) ==
  CHOOSE v \in {answers[s] : s \in DOMAIN answers} :
    /\ Cardinality({s \in DOMAIN answers : answers[s] < v}) < k
    /\ Cardinality({s \in DOMAIN answers : answers[s] <= v}) >= k

median(answers) ==
  LET n == Cardinality(DOMAIN answers)
  IN  IF n = 0 THEN NoPrice
      ELSE (KthAnswer(answers, (n + 1) \div 2) + KthAnswer(answers, n \div 2 + 1)) \div 2

\* doFetchFreshPrice once the sources have answered: no price at all, or no
\* Redis to check and store it with, ends the flight.
DoFetchFreshPrice(p, price) ==
  IF price = NoPrice \/ flight[p].down
  THEN Land(p, price)
  ELSE /\ flight' = [flight EXCEPT ![p].pc = "history", ![p].price = price]
       /\ UNCHANGED <<call, refresh>>

FetchFromAllSources(p) ==
  /\ flight[p].pc = "sources"
  /\ \E o \in [Source -> Outcomes] :
       LET answered == {s \in Source : Answer(o[s]) # NoPrice}
           price == median([s \in answered |-> Answer(o[s])])
       IN  /\ \A s \in Source : /\ o[s] = "skipped" <=> s \in Keyed /\ circuit[p][s]
                                /\ o[s] = "denied" => s \in Keyed
           /\ Failures(Cardinality({s \in Source : o[s] \notin {"ok", "skipped"}}))
           /\ circuit' = [circuit EXCEPT ![p] =
                            [s \in Keyed |-> SourceCircuit(circuit[p][s], o[s])]]
           /\ DoFetchFreshPrice(p, price)
  /\ UNCHANGED <<market, moves, cached, reading, rejects>>

abs(n) == IF n < 0 THEN -n ELSE n

IsAnomalous(price) ==
  reading # NoPrice /\ abs(price - reading) * 100 > AnomalyThreshold * reading

\* detectAnomaly: GET, and SET in any case unless the GET failed.
HistoryGet(p) ==
  /\ flight[p].pc = "history"
  /\ \/ /\ flight' = [flight EXCEPT ![p].pc = "note",
                                    ![p].anomalous = IsAnomalous(flight[p].price)]
        /\ NoFailure
     \/ flight' = [flight EXCEPT ![p].pc = "store"] /\ Failures(1)
  /\ UNCHANGED <<market, moves, circuit, cached, reading, call, refresh, rejects>>

HistorySet_OnlyNormal(p) ==
  /\ flight[p].pc = "note"
  /\ reading' = IF flight[p].anomalous THEN reading ELSE flight[p].price
  /\ flight' = [flight EXCEPT ![p].pc = IF flight[p].anomalous /\ rejects THEN "reject"
                                        ELSE "store"]
  /\ UNCHANGED <<market, moves, circuit, cached, call, refresh, rejects, oracleFaults>>

HistorySet(p) ==
  /\ flight[p].pc = "note"
  /\ \/ reading' = flight[p].price /\ NoFailure
     \/ reading' \in {reading, flight[p].price} /\ Failures(1)
  /\ flight' = [flight EXCEPT ![p].pc = IF flight[p].anomalous /\ rejects THEN "reject"
                                        ELSE "store"]
  /\ UNCHANGED <<market, moves, circuit, cached, call, refresh, rejects>>

\* An anomalous price is dropped in favour of the cached one, if there is one.
RejectAnomalous(p) ==
  /\ flight[p].pc = "reject"
  /\ \/ /\ cached # NoPrice
        /\ Land(p, cached) /\ NoFailure
     \/ /\ \/ cached = NoPrice /\ NoFailure
           \/ Failures(1)
        /\ flight' = [flight EXCEPT ![p].pc = "store"]
        /\ UNCHANGED <<call, refresh>>
  /\ UNCHANGED <<market, moves, circuit, cached, reading, rejects>>

StorePrice(p) ==
  /\ flight[p].pc = "store"
  /\ \/ cached' = flight[p].price /\ NoFailure
     \/ cached' \in {cached, flight[p].price} /\ Failures(1)
  /\ Land(p, flight[p].price)
  /\ UNCHANGED <<market, moves, circuit, reading, rejects>>

-----------------------------------------------------------------------------
(* Callers *)

\* getPrice: a cached price answers at once; otherwise, or when Redis fails,
\* the request waits for a flight.
GetPrice(c, p) ==
  /\ call[c].pc = "new"
  /\ \/ /\ cached # NoPrice
        /\ call' = [call EXCEPT ![c] = [pc |-> "done", at |-> p, answer |-> cached]]
        /\ NoFailure /\ UNCHANGED flight
     \/ /\ \/ cached = NoPrice /\ Join(p, FALSE) /\ NoFailure
           \/ Join(p, TRUE) /\ Failures(1)
        /\ call' = [call EXCEPT ![c] = [pc |-> "wait", at |-> p, answer |-> NoPrice]]
  /\ UNCHANGED <<market, moves, circuit, cached, reading, refresh, rejects>>

\* SCAN finds the cached price (otherwise the cycle is over).
RefreshAllCachedPrices(p) == cached # NoPrice /\ Join(p, FALSE)

\* A tick of the refresh job, unless the last cycle still runs: the cycle
\* waits for the flight.
RefreshTick(p) ==
  /\ refresh[p] = "idle"
  /\ RefreshAllCachedPrices(p)
  /\ refresh' = [refresh EXCEPT ![p] = "wait"]
  /\ UNCHANGED <<market, moves, circuit, cached, reading, call, rejects, oracleFaults>>

FlightStep(p) ==
  FetchFromAllSources(p) \/ HistoryGet(p) \/ HistorySet(p) \/ RejectAnomalous(p) \/ StorePrice(p)

OracleNext ==
  \/ MarketMoves \/ ExpireCached \/ ExpireReading
  \/ \E p \in Process, s \in Keyed : Cooldown(p, s)
  \/ \E p \in Process : FlightStep(p) \/ RefreshTick(p)
  \/ \E c \in Caller, p \in Process : GetPrice(c, p)

-----------------------------------------------------------------------------

\* Every getPrice() is answered.
PriceAnswered == \A c \in Caller : call[c].pc = "wait" ~> call[c].pc = "done"

\* Once the market stays at a price, the cache ends up with it (or empty),
\* even when every move is an anomaly to be rejected: a rejected reading is
\* remembered, so the next one like it counts as normal.
LastingMoveServed ==
  \A m \in Price : <>[](market[2] = m) => <>[](cached \in {NoPrice, m})

=============================================================================
