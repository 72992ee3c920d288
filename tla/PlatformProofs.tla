--------------------------- MODULE PlatformProofs ---------------------------
(* Machine-checked proofs about the parts of the platform that keep state  *)
(* of their own in Redis or in the process, for every value of the         *)
(* constants: each has its inductive invariant, one lemma per action, and  *)
(* its theorem.                                                            *)
EXTENDS RequestGuards, PriceSubscriptions, ServerProcess, CacheWarm, JobQueue, RedisClient, Alerts,
        FiniteSetTheorems, SequenceTheorems, TLAPS

-----------------------------------------------------------------------------
(* RequestGuards (rate limit and idempotency keys)                         *)

GuardsSpec == GuardsInit /\ [][GuardsNext]_guardVars

ReqPlaces == {"new", "incr", "expire", "check", "refused", "run", "replayed", "store", "failed", "answered"}

GuardsType ==
  /\ bucket \in Bucket
  /\ counter \in [Bucket -> Nat] /\ admitted \in [Bucket -> Nat]
  /\ response \in {"none", "stored"}
  /\ req \in [Req -> [pc : ReqPlaces, bucket : Bucket]]
  /\ opened \in Nat /\ done \in Nat /\ guardFaults \in Nat /\ unseen \in BOOLEAN

\* The first request of a window, which has counted itself and sets the expiry.
First(r, b) == req[r].pc = "expire" /\ req[r].bucket = b

\* A window has let pass no more than it counted and no more than the maximum; its
\* first request, let pass later, has its place in both.
LimitInv ==
  /\ \A b \in Bucket : admitted[b] <= counter[b] /\ admitted[b] <= LimitMax
  /\ \A r \in Req, b \in Bucket :
       First(r, b) => admitted[b] < counter[b] /\ admitted[b] < LimitMax
  /\ \A r, q \in Req, b \in Bucket : First(r, b) /\ First(q, b) => r = q
  /\ \A r \in Req : req[r].pc = "refused" => counter[req[r].bucket] > LimitMax
  /\ opened <= guardFaults

\* Requests that run the handler or store its answer.
Busy(r) == req[r].pc \in {"run", "store"}

\* As long as nobody checked beside another and no command failed: one request at
\* a time is past its check, none once the answer is stored, and the handler has
\* succeeded only for the one that stores.
OnceInv ==
  ~unseen /\ guardFaults = 0 =>
    /\ \A r, q \in Req : Busy(r) /\ Busy(q) => r = q
    /\ response = "stored" => done <= 1 /\ \A r \in Req : ~Busy(r)
    /\ response = "none" =>
         /\ (\A r \in Req : req[r].pc # "store") => done = 0
         /\ done <= 1

GuardsInv == GuardsType /\ LimitInv /\ OnceInv

ReqType == [Req -> [pc : ReqPlaces, bucket : Bucket]]

LEMMA GuardsInitInv == GuardsInit => GuardsInv
<1> SUFFICES ASSUME GuardsInit PROVE GuardsInv
  OBVIOUS
<1> USE GuardConfig DEF GuardsInit, NewReq, Bucket, ReqPlaces
<1>1. \A r \in Req : req[r] = [pc |-> "new", bucket |-> 0]
  OBVIOUS
<1>2. 0 \in Bucket /\ counter \in [Bucket -> Nat] /\ \A b \in Bucket : counter[b] = 0
  OBVIOUS
<1>3. GuardsType
  BY <1>1, <1>2 DEF GuardsType
<1>4. LimitInv
  BY <1>1, <1>2 DEF LimitInv, First
<1>5. OnceInv
  BY <1>1 DEF OnceInv, Busy
<1> QED BY <1>3, <1>4, <1>5 DEF GuardsInv

\* A request that goes on to another place keeps its window.
LEMMA MoveReq ==
  ASSUME req \in ReqType, NEW r \in Req, NEW p \in ReqPlaces,
         req' = [req EXCEPT ![r].pc = p]
  PROVE  /\ req' \in ReqType
         /\ \A q \in Req : req'[q].pc = (IF q = r THEN p ELSE req[q].pc)
         /\ \A q \in Req : req'[q].bucket = req[q].bucket
<1>1. req \in [Req -> [pc : ReqPlaces, bucket : Bucket]]
  BY DEF ReqType
<1> QED BY <1>1 DEF ReqType

\* What a step does to the requests: r goes on to p, the others stay.
ReqGoes(r, p) ==
  /\ req' \in ReqType
  /\ \A q \in Req : req'[q].pc = (IF q = r THEN p ELSE req[q].pc)
  /\ \A q \in Req : req'[q].bucket = req[q].bucket

LEMMA ReqMoves ==
  ASSUME req \in ReqType, NEW r \in Req
  PROVE  /\ \A p \in ReqPlaces : req' = [req EXCEPT ![r].pc = p] => ReqGoes(r, p)
BY MoveReq DEF ReqGoes

LEMMA VerdictMoves ==
  ASSUME GuardsType, NEW r \in Req, NEW n \in Nat, Verdict(r, n)
  PROVE  \/ n > LimitMax /\ ReqGoes(r, "refused") /\ UNCHANGED admitted
         \/ /\ n <= LimitMax /\ ReqGoes(r, "check")
            /\ admitted' = [admitted EXCEPT ![req[r].bucket] = @ + 1]
<1>1. req \in ReqType
  BY DEF GuardsType, ReqType
<1>2. "refused" \in ReqPlaces /\ "check" \in ReqPlaces
  BY DEF ReqPlaces
<1>3. CASE n > LimitMax
  <2>1. req' = [req EXCEPT ![r].pc = "refused"] /\ UNCHANGED admitted
    BY <1>3 DEF Verdict
  <2> QED BY <1>1, <1>2, <1>3, <2>1, ReqMoves
<1>4. CASE ~(n > LimitMax)
  <2>1. /\ req' = [req EXCEPT ![r].pc = "check"]
        /\ admitted' = [admitted EXCEPT ![req[r].bucket] = @ + 1]
    BY <1>4 DEF Verdict
  <2>2. n <= LimitMax
    BY <1>4, GuardConfig
  <2> QED BY <1>1, <1>2, <2>1, <2>2, ReqMoves
<1> QED BY <1>3, <1>4

LEMMA IncrMoves ==
  ASSUME GuardsType, NEW r \in Req, Incr(r)
  PROVE  LET b == req[r].bucket IN
         /\ b \in Bucket /\ counter' = [counter EXCEPT ![b] = @ + 1]
         /\ req[r].pc = "incr"
         /\ UNCHANGED <<bucket, untimed, response, opened, done, unseen, guardFaults>>
         /\ \/ counter[b] = 0 /\ ReqGoes(r, "expire") /\ UNCHANGED admitted
            \/ /\ counter[b] # 0 /\ counter[b] + 1 > LimitMax
               /\ ReqGoes(r, "refused") /\ UNCHANGED admitted
            \/ /\ counter[b] # 0 /\ counter[b] + 1 <= LimitMax /\ ReqGoes(r, "check")
               /\ admitted' = [admitted EXCEPT ![b] = @ + 1]
<1> DEFINE b == req[r].bucket
<1>1. req \in ReqType /\ b \in Bucket /\ counter[b] \in Nat /\ counter[b] + 1 \in Nat
  BY DEF GuardsType, ReqType
<1>2. "expire" \in ReqPlaces
  BY DEF ReqPlaces
<1>3. CASE counter[b] = 0
  <2>1. req' = [req EXCEPT ![r].pc = "expire"] /\ UNCHANGED admitted
    BY <1>3 DEF Incr
  <2>2. ReqGoes(r, "expire")
    BY <1>1, <1>2, <2>1, ReqMoves
  <2> QED BY <1>1, <1>3, <2>1, <2>2 DEF Incr, Works
<1>4. CASE counter[b] # 0
  <2>1. Verdict(r, counter[b] + 1)
    BY <1>4 DEF Incr
  <2> HIDE DEF b
  <2>2. \/ counter[b] + 1 > LimitMax /\ ReqGoes(r, "refused") /\ UNCHANGED admitted
        \/ /\ counter[b] + 1 <= LimitMax /\ ReqGoes(r, "check")
           /\ admitted' = [admitted EXCEPT ![req[r].bucket] = @ + 1]
    BY <1>1, <2>1, VerdictMoves
  <2> QED BY <1>1, <1>4, <2>2 DEF Incr, Works, b
<1> QED BY <1>3, <1>4

\* Every step of a request, as what it does to the places of all requests.
LEMMA StepMoves ==
  ASSUME GuardsType, NEW r \in Req
  PROVE  /\ Arrive(r) => /\ req[r].pc = "new" /\ req' \in ReqType
                         /\ req'[r].pc = "incr" /\ \A q \in Req \ {r} : req'[q] = req[q]
         /\ FailOpen(r) => ReqGoes(r, "check")
         /\ CheckKey(r) => \/ Works /\ response = "stored" /\ ReqGoes(r, "replayed")
                           \/ Works /\ response # "stored" /\ ReqGoes(r, "run")
                           \/ Breaks /\ ReqGoes(r, "run")
         /\ StoreResponse(r) => ReqGoes(r, "answered")
<1>1. req \in ReqType /\ req \in [Req -> [pc : ReqPlaces, bucket : Bucket]] /\ bucket \in Bucket
  BY DEF GuardsType, ReqType
<1> USE DEF ReqPlaces
<1>2. ASSUME Arrive(r)
      PROVE  /\ req[r].pc = "new" /\ req' \in ReqType
             /\ req'[r].pc = "incr" /\ \A q \in Req \ {r} : req'[q] = req[q]
  BY <1>1, <1>2 DEF Arrive, ReqType
<1>3. ASSUME FailOpen(r) PROVE ReqGoes(r, "check")
  <2>1. req' = [req EXCEPT ![r].pc = "check"]
    BY <1>3 DEF FailOpen
  <2> QED BY <1>1, <2>1, ReqMoves
<1>4. ASSUME CheckKey(r)
      PROVE  \/ Works /\ response = "stored" /\ ReqGoes(r, "replayed")
             \/ Works /\ response # "stored" /\ ReqGoes(r, "run")
             \/ Breaks /\ ReqGoes(r, "run")
  <2>1. \/ Works /\ response = "stored" /\ req' = [req EXCEPT ![r].pc = "replayed"]
        \/ Works /\ response # "stored" /\ req' = [req EXCEPT ![r].pc = "run"]
        \/ Breaks /\ req' = [req EXCEPT ![r].pc = "run"]
    BY <1>4 DEF CheckKey
  <2>2. "replayed" \in ReqPlaces /\ "run" \in ReqPlaces
    OBVIOUS
  <2> QED BY ONLY <1>1, <2>1, <2>2, ReqMoves
<1>5. ASSUME StoreResponse(r) PROVE ReqGoes(r, "answered")
  <2>1. req' = [req EXCEPT ![r].pc = "answered"]
    BY <1>5 DEF StoreResponse
  <2> QED BY <1>1, <2>1, ReqMoves
<1> QED BY <1>2, <1>3, <1>4, <1>5

LEMMA HandleMoves ==
  ASSUME GuardsType, NEW r \in Req, Handle(r)
  PROVE  \/ ReqGoes(r, "store") /\ done' = done + 1
         \/ ReqGoes(r, "failed") /\ done' = done
<1>1. req \in ReqType /\ "store" \in ReqPlaces /\ "failed" \in ReqPlaces
  BY DEF GuardsType, ReqType, ReqPlaces
<1>2. req' = [req EXCEPT ![r].pc = "store"] => ReqGoes(r, "store")
  BY <1>1, ReqMoves
<1>3. req' = [req EXCEPT ![r].pc = "failed"] => ReqGoes(r, "failed")
  BY <1>1, ReqMoves
<1> QED BY <1>2, <1>3, Zenon DEF Handle

LEMMA GuardsTypeStep == GuardsType /\ [GuardsNext]_guardVars => GuardsType'
<1> SUFFICES ASSUME GuardsType, [GuardsNext]_guardVars PROVE GuardsType'
  OBVIOUS
<1>0. GuardsType <=>
        /\ bucket \in Bucket
        /\ counter \in [Bucket -> Nat] /\ admitted \in [Bucket -> Nat]
        /\ response \in {"none", "stored"} /\ req \in ReqType
        /\ opened \in Nat /\ done \in Nat /\ guardFaults \in Nat /\ unseen \in BOOLEAN
  BY DEF GuardsType, ReqType
<1>a. GuardsType' <=>
        /\ bucket' \in Bucket
        /\ counter' \in [Bucket -> Nat] /\ admitted' \in [Bucket -> Nat]
        /\ response' \in {"none", "stored"} /\ req' \in ReqType
        /\ opened' \in Nat /\ done' \in Nat /\ guardFaults' \in Nat /\ unseen' \in BOOLEAN
  BY DEF GuardsType, ReqType
<1>1. ASSUME NEW r \in Req, Arrive(r) PROVE GuardsType'
  BY <1>0, <1>a, <1>1, StepMoves DEF Arrive
<1>2. ASSUME NEW r \in Req, Incr(r) PROVE GuardsType'
  BY <1>0, <1>a, <1>2, IncrMoves DEF ReqGoes
<1>3. ASSUME NEW r \in Req, SetWindow(r) PROVE GuardsType'
  BY <1>0, <1>a, <1>3, VerdictMoves DEF ReqGoes, SetWindow, Works
<1>4. ASSUME NEW r \in Req, FailOpen(r) PROVE GuardsType'
  <2>1. ReqGoes(r, "check") 
    BY <1>4, StepMoves
  <2> QED BY <1>0, <1>a, <1>4, <2>1, GuardConfig DEF FailOpen, Breaks, ReqGoes
<1>5. ASSUME NEW r \in Req, CheckKey(r) PROVE GuardsType'
  <2>1. req' \in ReqType
    BY <1>0, <1>5, StepMoves DEF ReqGoes
  <2> QED BY <1>0, <1>a, <1>5, <2>1, GuardConfig DEF CheckKey, Breaks, Works
<1>6. ASSUME NEW r \in Req, Handle(r) PROVE GuardsType'
  <2>1. \/ ReqGoes(r, "store") /\ done' = done + 1
        \/ ReqGoes(r, "failed") /\ done' = done
    BY <1>6, HandleMoves
  <2> QED BY <1>0, <1>a, <1>6, <2>1 DEF Handle, ReqGoes
<1>7. ASSUME NEW r \in Req, StoreResponse(r) PROVE GuardsType'
  <2>1. ReqGoes(r, "answered") 
    BY <1>7, StepMoves
  <2> QED BY <1>0, <1>a, <1>7, <2>1, GuardConfig DEF StoreResponse, Works, Breaks, ReqGoes
<1>8. CASE GuardTick
  <2>1. bucket' \in Bucket /\ response' \in {"none", "stored"} /\ done' \in Nat
    <3>1. \/ bucket < MaxBucket /\ bucket' = bucket + 1 /\ UNCHANGED <<response, done>>
          \/ response' = "none" /\ done' = 0 /\ bucket' = bucket
      BY <1>8 DEF GuardTick
    <3>2. /\ bucket \in 0 .. MaxBucket /\ MaxBucket \in Nat
          /\ response \in {"none", "stored"} /\ done \in Nat
      BY <1>0, GuardConfig DEF Bucket
    <3>3. CASE bucket < MaxBucket /\ bucket' = bucket + 1 /\ UNCHANGED <<response, done>>
      <4>1. bucket' \in 0 .. MaxBucket
        BY <3>2, <3>3
      <4> QED BY <3>2, <3>3, <4>1 DEF Bucket
    <3>4. CASE response' = "none" /\ done' = 0 /\ bucket' = bucket
      BY <3>2, <3>4 DEF Bucket
    <3> QED BY <3>1, <3>3, <3>4
  <2> QED BY <1>0, <1>a, <1>8, <2>1 DEF GuardTick
<1>9. CASE UNCHANGED guardVars
  BY <1>9 DEF guardVars, GuardsType
<1> QED BY <1>1, <1>2, <1>3, <1>4, <1>5, <1>6, <1>7, <1>8, <1>9 DEF GuardsNext

LEMMA LimitStep == GuardsType /\ LimitInv /\ [GuardsNext]_guardVars => LimitInv'
<1> SUFFICES ASSUME GuardsType, LimitInv, [GuardsNext]_guardVars PROVE LimitInv'
  OBVIOUS
<1> USE GuardConfig DEF GuardsType, LimitInv, First, ReqPlaces
<1>1. ASSUME NEW r \in Req, Arrive(r) PROVE LimitInv'
  BY <1>1 DEF Arrive
<1>2. ASSUME NEW r \in Req, Incr(r) PROVE LimitInv'
  <2> DEFINE b == req[r].bucket
  <2>1. CASE counter[b] = 0
    BY <1>2, <2>1 DEF Incr, Works
  <2>2. CASE counter[b] # 0
    BY <1>2, <2>2 DEF Incr, Works, Verdict
  <2> QED BY <2>1, <2>2
<1>3. ASSUME NEW r \in Req, SetWindow(r) PROVE LimitInv'
  <2>1. \/ 1 > LimitMax /\ ReqGoes(r, "refused") /\ UNCHANGED admitted
        \/ /\ 1 <= LimitMax /\ ReqGoes(r, "check")
           /\ admitted' = [admitted EXCEPT ![req[r].bucket] = @ + 1]
    BY <1>3, VerdictMoves DEF SetWindow
  <2> QED BY <1>3, <2>1 DEF SetWindow, Works, ReqGoes
<1>4. ASSUME NEW r \in Req, FailOpen(r) PROVE LimitInv'
  BY <1>4 DEF FailOpen, Breaks
<1>5. ASSUME NEW r \in Req, CheckKey(r) PROVE LimitInv'
  BY <1>5 DEF CheckKey, Works, Breaks
<1>6. ASSUME NEW r \in Req, Handle(r) PROVE LimitInv'
  BY <1>6 DEF Handle
<1>7. ASSUME NEW r \in Req, StoreResponse(r) PROVE LimitInv'
  BY <1>7 DEF StoreResponse, Works, Breaks
<1>8. CASE GuardTick
  BY <1>8 DEF GuardTick
<1>9. CASE UNCHANGED guardVars
  BY <1>9 DEF guardVars
<1> QED BY <1>1, <1>2, <1>3, <1>4, <1>5, <1>6, <1>7, <1>8, <1>9 DEF GuardsNext

LEMMA OnceStep == GuardsType /\ OnceInv /\ [GuardsNext]_guardVars => OnceInv'
<1> SUFFICES ASSUME GuardsType, OnceInv, [GuardsNext]_guardVars PROVE OnceInv'
  OBVIOUS
<1> USE DEF GuardsType, OnceInv, Busy, ReqPlaces
<1>1. ASSUME NEW r \in Req, Arrive(r) PROVE OnceInv'
  BY <1>1 DEF Arrive
<1>2. ASSUME NEW r \in Req, Incr(r) PROVE OnceInv'
  BY <1>2 DEF Incr, Works, Verdict
<1>3. ASSUME NEW r \in Req, SetWindow(r) PROVE OnceInv'
  BY <1>3 DEF SetWindow, Works, Verdict
<1>4. ASSUME NEW r \in Req, FailOpen(r) PROVE OnceInv'
  BY <1>4 DEF FailOpen, Breaks
<1>5. ASSUME NEW r \in Req, CheckKey(r) PROVE OnceInv'
  <2>1. \/ Works /\ response = "stored" /\ ReqGoes(r, "replayed")
        \/ Works /\ response # "stored" /\ ReqGoes(r, "run")
        \/ Breaks /\ ReqGoes(r, "run")
    BY <1>5, StepMoves
  <2>2. req[r].pc = "check" /\ UNCHANGED <<response, done>>
        /\ unseen' = (unseen \/ \E q \in Req \ {r} : req[q].pc \in {"run", "store"})
    BY <1>5, Zenon DEF CheckKey
  <2> SUFFICES ASSUME ~unseen', guardFaults' = 0 PROVE OnceInv'
    BY DEF OnceInv
  <2>3. ~unseen /\ guardFaults = 0 /\ Works /\ \A q \in Req \ {r} : ~Busy(q)
    <3>1. ~unseen /\ \A q \in Req \ {r} : ~Busy(q)
      BY <2>2, Zenon DEF Busy
    <3>2. guardFaults = 0 /\ guardFaults' = guardFaults
      BY <2>1 DEF Works, Breaks
    <3> QED BY <3>1, <3>2 DEF Works
  <2>4. \A q \in Req \ {r} : ~Busy(q)' /\ req'[q].pc = req[q].pc
    BY <2>1, <2>3 DEF ReqGoes
  <2>5. CASE response = "stored" /\ ReqGoes(r, "replayed")
    BY <2>2, <2>3, <2>4, <2>5 DEF ReqGoes
  <2>6. CASE response # "stored" /\ ReqGoes(r, "run")
    BY <2>2, <2>3, <2>4, <2>6 DEF ReqGoes
  <2> QED BY <2>1, <2>3, <2>5, <2>6 DEF Works, Breaks
<1>6. ASSUME NEW r \in Req, Handle(r) PROVE OnceInv'
  BY <1>6 DEF Handle
<1>7. ASSUME NEW r \in Req, StoreResponse(r) PROVE OnceInv'
  BY <1>7 DEF StoreResponse, Works, Breaks
<1>8. CASE GuardTick
  BY <1>8 DEF GuardTick
<1>9. CASE UNCHANGED guardVars
  BY <1>9 DEF guardVars
<1> QED BY <1>1, <1>2, <1>3, <1>4, <1>5, <1>6, <1>7, <1>8, <1>9 DEF GuardsNext

\* A request on its way through middleware/rateLimit.js and services/idempotency.js,
\* for any number of requests, windows and failures: no window admits more than the
\* limit, nobody is refused below it, more pass only by failures of Redis, and a
\* handler that succeeded runs again only beside a request still under way or after
\* a failure.
THEOREM GuardsSafe == GuardsSpec => []RequestsGuarded
<1>1. GuardsInv /\ [GuardsNext]_guardVars => GuardsInv'
  BY GuardsTypeStep, LimitStep, OnceStep DEF GuardsInv
<1>2. GuardsInv => RequestsGuarded
  BY DEF GuardsInv, GuardsType, LimitInv, OnceInv, RequestsGuarded, LimitKept, RunOnce
<1> QED BY GuardsInitInv, <1>1, <1>2, PTL DEF GuardsSpec

-----------------------------------------------------------------------------
(* PriceSubscriptions (the price stream)                                   *)

WsSpec == WsInit /\ [][WsNext]_wsVars

WireStates == {"new", "open", "closing", "closed"}
DrainRecord == [phase : {"none", "warned", "closed", "done"}, frozen : SUBSET Socket]

WsType ==
  /\ wire \in [Socket -> WireStates]
  /\ clientIp \in [Socket -> Ip \cup {NoIp}]
  /\ assets \in [Socket -> SUBSET Asset]
  /\ perIp \in [Ip -> Nat]
  /\ subscribers \in [Asset -> SUBSET Socket]
  /\ drain \in [Drainer -> DrainRecord]

\* The clients of one address.
From(i) == {s \in clients : clientIp[s] = i}

\* What is no client has no assets, and is not one before its upgrade.
Strangers == \A s \in Socket : s \notin clients => assets[s] = {}

\* A drain lets nobody in, and has frozen whoever is left.
Frozen(d) ==
  /\ drain[d].phase # "none" => draining
  /\ drain[d].phase \in {"warned", "closed"} => clients \subseteq drain[d].frozen
  /\ drain[d].phase = "done" => clients = {}

WsInv == WsType /\ MapsAgree /\ Strangers /\ \A d \in Drainer : Frozen(d)

LEMMA ClientsFinite ==
  /\ IsFiniteSet(clients) /\ Cardinality(clients) \in Nat
  /\ \A i \in Ip : IsFiniteSet(From(i)) /\ Cardinality(From(i)) \in Nat
<1>1. IsFiniteSet(clients)
  BY SubscriptionsConfig, FS_Subset DEF clients
<1>2. \A i \in Ip : From(i) \subseteq clients
  BY DEF From
<1> QED BY <1>1, <1>2, FS_Subset, FS_CardinalityType

LEMMA WsInitInv == WsInit => WsInv
<1> SUFFICES ASSUME WsInit PROVE WsInv
  OBVIOUS
<1>1. WsType
  BY DEF WsInit, WsType, WireStates, DrainRecord
<1>2. clients = {} /\ \A i \in Ip : From(i) = {}
  BY DEF WsInit, clients, From
<1>3. Cardinality(clients) = 0 /\ \A i \in Ip : Cardinality(From(i)) = 0
  BY <1>2, FS_EmptySet
<1>4. {MaxConnections, MaxConnectionsPerIp} \subseteq Nat
  BY SubscriptionsConfig
<1>5. MapsAgree
  BY <1>2, <1>3, <1>4 DEF MapsAgree, WsInit, From
<1>6. \A d \in Drainer : Frozen(d)
  BY DEF WsInit, Frozen
<1> QED BY <1>1, <1>5, <1>6 DEF WsInv, Strangers, WsInit

\* Clients leave and their entries with them; those that stay keep their wire.
LEMMA LeaveKeeps ==
  ASSUME WsInv, NEW out \in SUBSET clients,
         clientIp' = [s \in Socket |-> IF s \in out THEN NoIp ELSE clientIp[s]],
         assets' = [s \in Socket |-> IF s \in out THEN {} ELSE assets[s]],
         perIp' = [i \in Ip |-> perIp[i] - Cardinality({s \in out : clientIp[s] = i})],
         subscribers' = [a \in Asset |-> subscribers[a] \ {s \in out : a \in assets[s]}],
         wire' \in [Socket -> WireStates],
         \A s \in clients \ out : wire'[s] \in {"open", "closing"},
         drain' \in [Drainer -> DrainRecord]
  PROVE  WsType' /\ MapsAgree' /\ Strangers' /\ clients' = clients \ out
<1>1. clients' = clients \ out
  BY DEF clients
<1>2. \A i \in Ip : From(i)' = From(i) \ {s \in out : clientIp[s] = i}
  BY <1>1, SubscriptionsConfig DEF From, clients
<1>3. \A i \in Ip : {s \in out : clientIp[s] = i} \subseteq From(i)
  BY DEF From
<1>4. ASSUME NEW i \in Ip
      PROVE  perIp'[i] = Cardinality(From(i)') /\ perIp'[i] \in Nat /\ perIp'[i] <= perIp[i]
  <2> DEFINE leaving == {s \in out : clientIp[s] = i}
  <2>1. leaving \subseteq From(i) /\ IsFiniteSet(From(i))
    BY <1>3, ClientsFinite
  <2>2. From(i) \cap leaving = leaving
    BY <2>1
  <2>3. Cardinality(From(i) \ leaving) = Cardinality(From(i)) - Cardinality(leaving)
    BY <2>1, <2>2, FS_Difference
  <2>4. IsFiniteSet(leaving) /\ Cardinality(leaving) \in Nat /\ Cardinality(leaving) <= Cardinality(From(i))
    BY <2>1, FS_Subset, FS_CardinalityType
  <2>5. perIp[i] = Cardinality(From(i)) /\ Cardinality(From(i)) \in Nat
    BY ClientsFinite DEF WsInv, MapsAgree, From
  <2>6. From(i)' = From(i) \ leaving /\ perIp'[i] = perIp[i] - Cardinality(leaving)
    BY <1>2
  <2> HIDE DEF leaving
  <2> QED BY <2>3, <2>4, <2>5, <2>6
<1>5. WsType'
  <2>1. perIp' \in [Ip -> Nat]
    BY <1>4
  <2>2. clientIp' \in [Socket -> Ip \cup {NoIp}] /\ assets' \in [Socket -> SUBSET Asset]
        /\ subscribers' \in [Asset -> SUBSET Socket]
    BY DEF WsInv, WsType
  <2> QED BY <2>1, <2>2 DEF WsType
<1>6. Cardinality(clients') <= MaxConnections
  <2>1. Cardinality(clients') <= Cardinality(clients) /\ Cardinality(clients') \in Nat
    BY <1>1, ClientsFinite, FS_Subset, FS_CardinalityType
  <2>2. MaxConnections \in Nat /\ Cardinality(clients) \in Nat /\ Cardinality(clients) <= MaxConnections
    BY ClientsFinite, SubscriptionsConfig DEF WsInv, MapsAgree
  <2> QED BY <2>1, <2>2
<1>7. \A i \in Ip : perIp'[i] <= MaxConnectionsPerIp
  <2>1. MaxConnectionsPerIp \in Nat /\ \A i \in Ip : perIp[i] \in Nat /\ perIp[i] <= MaxConnectionsPerIp
    BY SubscriptionsConfig DEF WsInv, WsType, MapsAgree
  <2> QED BY <1>4, <2>1
<1>8. \A a \in Asset : subscribers'[a] = {s \in clients' : a \in assets'[s]}
  <2> SUFFICES ASSUME NEW a \in Asset PROVE subscribers'[a] = {s \in clients' : a \in assets'[s]}
    OBVIOUS
  <2>1. subscribers[a] = {s \in clients : a \in assets[s]} /\ clients \subseteq Socket
    BY DEF WsInv, MapsAgree, clients
  <2> QED BY <1>1, <2>1
<1>9. MapsAgree'
  <2>1. \A s \in clients' : wire'[s] \in {"open", "closing"}
    BY <1>1
  <2> QED BY <1>4, <1>6, <1>7, <1>8, <2>1 DEF MapsAgree, From
<1>10. Strangers'
  BY <1>1 DEF WsInv, Strangers
<1> QED BY <1>1, <1>5, <1>9, <1>10

LEMMA FrozenKeeps ==
  ASSUME WsInv, UNCHANGED <<draining, drain>>, clients' \subseteq clients
  PROVE  \A d \in Drainer : Frozen(d)'
BY DEF WsInv, Frozen

LEMMA AddKeeps ==
  ASSUME WsInv, NEW s \in Socket, NEW ip \in Ip, add(s, ip)
  PROVE  WsInv'
<1>0. /\ wire[s] = "new" /\ s \notin clients
      /\ UNCHANGED <<assets, missedPings, subscribers, lastPrice, draining, drain>>
  BY DEF add, lifecycle, WsInv, MapsAgree
<1>1. CASE UNCHANGED <<clientIp, perIp>> /\ wire' = [wire EXCEPT ![s] = "closing"]
  <2>1. clients' = clients /\ \A i \in Ip : From(i)' = From(i)
    BY <1>1 DEF clients, From
  <2>2. WsType'
    BY <1>0, <1>1 DEF WsInv, WsType, WireStates
  <2>3. MapsAgree'
    <3>1. \A t \in clients' : wire'[t] \in {"open", "closing"}
      BY <1>1, <2>1 DEF WsInv, MapsAgree, WsType, clients
    <3>2. \A i \in Ip : perIp'[i] = Cardinality(From(i)')
      BY <1>1, <2>1 DEF WsInv, MapsAgree, From
    <3> QED BY <1>0, <1>1, <2>1, <3>1, <3>2 DEF WsInv, MapsAgree, From
  <2> QED BY <1>0, <2>1, <2>2, <2>3, FrozenKeeps DEF WsInv, Strangers
<1>2. CASE /\ ~draining /\ ~(Cardinality(clients) >= MaxConnections)
           /\ ~(perIp[ip] >= MaxConnectionsPerIp)
           /\ wire' = [wire EXCEPT ![s] = "open"]
           /\ clientIp' = [clientIp EXCEPT ![s] = ip]
           /\ perIp' = [perIp EXCEPT ![ip] = @ + 1]
  <2>0. ip # NoIp /\ MaxConnections \in Nat /\ MaxConnectionsPerIp \in Nat
    BY SubscriptionsConfig
  <2>1. clients' = clients \cup {s}
    BY <1>2, <2>0 DEF clients, WsInv, WsType
  <2>2. From(ip)' = From(ip) \cup {s} /\ \A i \in Ip \ {ip} : From(i)' = From(i)
    BY <1>0, <1>2, <2>1 DEF From, WsInv, WsType, clients
  <2>3. s \notin From(ip)
    BY <1>0 DEF From
  <2>4. Cardinality(From(ip)') = Cardinality(From(ip)) + 1 /\ Cardinality(clients') = Cardinality(clients) + 1
    BY <1>0, <2>1, <2>2, <2>3, ClientsFinite, FS_AddElement
  <2>5. perIp' \in [Ip -> Nat] /\ perIp'[ip] = perIp[ip] + 1 /\ \A i \in Ip \ {ip} : perIp'[i] = perIp[i]
    BY <1>2 DEF WsInv, WsType
  <2>6. WsType'
    BY <1>0, <1>2, <2>5 DEF WsInv, WsType, WireStates
  <2>7. \A i \in Ip : perIp'[i] = Cardinality(From(i)') /\ perIp'[i] <= MaxConnectionsPerIp
    <3>1. \A i \in Ip : perIp[i] \in Nat /\ perIp[i] = Cardinality(From(i)) /\ perIp[i] <= MaxConnectionsPerIp
      BY DEF WsInv, MapsAgree, From, WsType
    <3>2. perIp[ip] + 1 <= MaxConnectionsPerIp
      BY <1>2, <2>0, <3>1
    <3>3. ASSUME NEW i \in Ip, i # ip
          PROVE  perIp'[i] = Cardinality(From(i)') /\ perIp'[i] <= MaxConnectionsPerIp
      BY <2>2, <2>5, <3>1, <3>3
    <3>4. perIp'[ip] = Cardinality(From(ip)') /\ perIp'[ip] <= MaxConnectionsPerIp
      BY <2>4, <2>5, <3>1, <3>2
    <3> QED BY <3>3, <3>4
  <2>8. Cardinality(clients') <= MaxConnections
    BY <1>2, <2>0, <2>4, ClientsFinite
  <2>9. \A a \in Asset : subscribers'[a] = {t \in clients' : a \in assets'[t]}
    BY <1>0, <2>1 DEF WsInv, MapsAgree, Strangers
  <2>10. \A t \in clients' : wire'[t] \in {"open", "closing"}
    BY <1>2, <2>1 DEF WsInv, MapsAgree, WsType, clients
  <2>11. MapsAgree'
    BY <2>7, <2>8, <2>9, <2>10 DEF MapsAgree, From
  <2>12. \A d \in Drainer : Frozen(d)'
    <3>1. \A d \in Drainer : drain'[d].phase = "none"
      BY <1>0, <1>2 DEF WsInv, Frozen
    <3> QED BY <3>1 DEF Frozen
  <2>13. Strangers'
    BY <1>0, <2>1 DEF WsInv, Strangers
  <2> QED BY <2>6, <2>11, <2>12, <2>13 DEF WsInv
<1> QED BY <1>1, <1>2 DEF add

\* A client changes its own assets, and the index with them.
LEMMA AssetsKeep ==
  ASSUME WsInv, NEW s \in clients, NEW A \in SUBSET Asset,
         assets' = [assets EXCEPT ![s] = A],
         \A a \in Asset : subscribers'[a] = IF a \in A THEN subscribers[a] \cup {s} ELSE subscribers[a] \ {s},
         subscribers' \in [Asset -> SUBSET Socket],
         UNCHANGED <<wire, clientIp, perIp, draining, drain>>
  PROVE  WsInv'
<1>0. s \in Socket /\ clients' = clients
  BY DEF clients
<1>1. WsType'
  BY <1>0 DEF WsInv, WsType
<1>2. ASSUME NEW a \in Asset PROVE subscribers'[a] = {t \in clients' : a \in assets'[t]}
  <2>1. assets'[s] = A /\ \A t \in Socket \ {s} : assets'[t] = assets[t]
    BY <1>0 DEF WsInv, WsType
  <2>2. subscribers[a] = {t \in clients : a \in assets[t]} /\ clients \subseteq Socket
    BY DEF WsInv, MapsAgree, clients
  <2>3. subscribers'[a] = IF a \in A THEN subscribers[a] \cup {s} ELSE subscribers[a] \ {s}
    OBVIOUS
  <2>4. CASE a \in A
    BY <1>0, <2>1, <2>2, <2>3, <2>4
  <2>5. CASE a \notin A
    BY <1>0, <2>1, <2>2, <2>3, <2>5
  <2> QED BY <2>4, <2>5
<1>3. MapsAgree'
  BY <1>0, <1>2 DEF WsInv, MapsAgree
<1>4. Strangers'
  BY <1>0 DEF WsInv, WsType, Strangers
<1> QED BY <1>0, <1>1, <1>3, <1>4, FrozenKeeps DEF WsInv

LEMMA SubscribeKeeps ==
  ASSUME WsInv, NEW s \in Socket, NEW A \in SUBSET Asset, subscribe(s, A) \/ unsubscribe(s, A)
  PROVE  WsInv'
<1>0. s \in clients /\ UNCHANGED <<wire, clientIp, perIp, draining, drain>>
  BY DEF subscribe, unsubscribe, lifecycle
<1>1. assets[s] \in SUBSET Asset /\ \A a \in Asset : subscribers[a] = {t \in clients : a \in assets[t]}
  BY DEF WsInv, WsType, MapsAgree
<1>2. CASE subscribe(s, A)
  <2>1. PICK added \in SUBSET (A \ assets[s]) :
          /\ assets' = [assets EXCEPT ![s] = @ \cup added]
          /\ subscribers' = [a \in Asset |->
                              IF a \in added THEN subscribers[a] \cup {s} ELSE subscribers[a]]
    BY <1>2 DEF subscribe
  <2>2. PICK B \in SUBSET Asset : B = assets[s] \cup added
    BY <1>1, <2>1
  <2>3. assets' = [assets EXCEPT ![s] = B]
    BY <2>1, <2>2 DEF WsInv, WsType
  <2>4. subscribers' \in [Asset -> SUBSET Socket]
    BY <2>1 DEF WsInv, WsType
  <2>5. \A a \in Asset : subscribers'[a] = IF a \in B THEN subscribers[a] \cup {s} ELSE subscribers[a] \ {s}
    BY <1>0, <1>1, <2>1, <2>2
  <2> QED BY <1>0, <2>3, <2>4, <2>5, AssetsKeep
<1>3. CASE unsubscribe(s, A)
  <2>1. /\ assets' = [assets EXCEPT ![s] = @ \ A]
        /\ subscribers' = [a \in Asset |->
                             IF a \in A THEN subscribers[a] \ {s} ELSE subscribers[a]]
    BY <1>3 DEF unsubscribe
  <2>2. PICK B \in SUBSET Asset : B = assets[s] \ A
    BY <1>1
  <2>3. assets' = [assets EXCEPT ![s] = B]
    BY <2>1, <2>2 DEF WsInv, WsType
  <2>4. subscribers' \in [Asset -> SUBSET Socket]
    BY <2>1 DEF WsInv, WsType
  <2>5. \A a \in Asset : subscribers'[a] = IF a \in B THEN subscribers[a] \cup {s} ELSE subscribers[a] \ {s}
    BY <1>0, <1>1, <2>1, <2>2
  <2> QED BY <1>0, <2>3, <2>4, <2>5, AssetsKeep
<1> QED BY <1>2, <1>3

LEMMA ClosesKeeps ==
  ASSUME WsInv, NEW s \in Socket, SocketCloses(s)
  PROVE  WsInv'
<1>0. /\ wire' = [wire EXCEPT ![s] = "closed"] /\ _remove({s}) /\ UNCHANGED <<draining, drain>>
  BY DEF SocketCloses, lifecycle
<1>1. PICK out \in SUBSET clients : out = {s} \cap clients
  OBVIOUS
<1>2. /\ wire' \in [Socket -> WireStates] /\ \A t \in clients \ out : wire'[t] \in {"open", "closing"}
      /\ drain' \in [Drainer -> DrainRecord]
  BY <1>0, <1>1 DEF WsInv, WsType, MapsAgree, WireStates, clients
<1>3. WsType' /\ MapsAgree' /\ Strangers' /\ clients' = clients \ out
  BY <1>0, <1>1, <1>2, LeaveKeeps DEF _remove
<1> QED BY <1>0, <1>3, FrozenKeeps DEF WsInv

LEMMA HeartbeatKeeps == ASSUME WsInv, Heartbeat PROVE WsInv'
<1>1. PICK out \in SUBSET clients : out = {s \in clients : missedPings[s] >= MaxMissedPings}
  OBVIOUS
<1>2. /\ clientIp' = [s \in Socket |-> IF s \in out THEN NoIp ELSE clientIp[s]]
      /\ assets' = [s \in Socket |-> IF s \in out THEN {} ELSE assets[s]]
      /\ perIp' = [i \in Ip |-> perIp[i] - Cardinality({s \in out : clientIp[s] = i})]
      /\ subscribers' = [a \in Asset |-> subscribers[a] \ {s \in out : a \in assets[s]}]
      /\ wire' = [s \in Socket |-> IF s \in out THEN "closed" ELSE wire[s]]
      /\ UNCHANGED <<draining, drain>>
  BY <1>1 DEF Heartbeat, lifecycle
<1>3. /\ wire' \in [Socket -> WireStates] /\ \A t \in clients \ out : wire'[t] \in {"open", "closing"}
      /\ drain' \in [Drainer -> DrainRecord]
  BY <1>2 DEF WsInv, WsType, MapsAgree, WireStates, clients
<1>4. WsType' /\ MapsAgree' /\ Strangers' /\ clients' = clients \ out
  BY <1>2, <1>3, LeaveKeeps
<1> QED BY <1>2, <1>4, FrozenKeeps DEF WsInv

LEMMA DrainKeeps == ASSUME WsInv, NEW d \in Drainer, Drain(d) PROVE WsInv'
<1> DEFINE r == [phase |-> IF clients = {} THEN "done" ELSE "warned", frozen |-> clients]
<1>0. /\ drain' = [drain EXCEPT ![d] = r] /\ draining'
      /\ UNCHANGED <<wire, clientIp, assets, missedPings, perIp, subscribers, lastPrice>>
  BY DEF Drain
<1>1. r \in DrainRecord /\ r.phase = (IF clients = {} THEN "done" ELSE "warned") /\ r.frozen = clients
  BY DEF DrainRecord, clients
<1> HIDE DEF r
<1>2. clients' = clients
  BY <1>0 DEF clients
<1>3. WsType' /\ drain'[d] = r /\ \A e \in Drainer \ {d} : drain'[e] = drain[e]
  BY <1>0, <1>1 DEF WsInv, WsType
<1>4. MapsAgree' /\ Strangers'
  BY <1>0, <1>2 DEF WsInv, MapsAgree, Strangers
<1>5. Frozen(d)'
  BY <1>0, <1>1, <1>2, <1>3 DEF Frozen
<1>6. \A e \in Drainer \ {d} : Frozen(e)'
  BY <1>0, <1>2, <1>3 DEF WsInv, Frozen
<1> QED BY <1>3, <1>4, <1>5, <1>6 DEF WsInv

LEMMA DrainClosesKeeps == ASSUME WsInv, NEW d \in Drainer, DrainCloses(d) PROVE WsInv'
<1>0. /\ drain[d].phase = "warned" /\ drain' = [drain EXCEPT ![d].phase = "closed"]
      /\ wire' = [s \in Socket |-> IF s \in drain[d].frozen \cap clients THEN "closing" ELSE wire[s]]
      /\ UNCHANGED <<clientIp, assets, missedPings, perIp, subscribers, lastPrice, draining>>
  BY DEF DrainCloses
<1> DEFINE r == [drain[d] EXCEPT !.phase = "closed"]
<1>1. drain[d] \in DrainRecord
  BY DEF WsInv, WsType
<1>2. r \in DrainRecord /\ r.phase = "closed" /\ r.frozen = drain[d].frozen
  BY <1>1 DEF DrainRecord
<1>3. drain' = [drain EXCEPT ![d] = r]
  BY <1>0 DEF WsInv, WsType
<1> HIDE DEF r
<1>4. drain' \in [Drainer -> DrainRecord] /\ drain'[d] = r /\ \A e \in Drainer \ {d} : drain'[e] = drain[e]
  BY <1>2, <1>3 DEF WsInv, WsType
<1>5. clients' = clients
  BY <1>0 DEF clients
<1>6. wire' \in [Socket -> WireStates] /\ \A s \in clients : wire'[s] \in {"open", "closing"}
  BY <1>0 DEF WsInv, WsType, MapsAgree, WireStates, clients
<1>7. WsType' /\ MapsAgree' /\ Strangers'
  BY <1>0, <1>4, <1>5, <1>6 DEF WsInv, WsType, MapsAgree, Strangers
<1>8. \A e \in Drainer : Frozen(e)'
  BY <1>0, <1>2, <1>4, <1>5 DEF WsInv, Frozen
<1> QED BY <1>7, <1>8 DEF WsInv

LEMMA DrainEndsKeeps == ASSUME WsInv, NEW d \in Drainer, DrainEnds(d) PROVE WsInv'
<1> DEFINE r == [phase |-> "done", frozen |-> {}]
<1>0. /\ drain[d].phase = "closed" /\ drain' = [drain EXCEPT ![d] = r]
      /\ wire' = [s \in Socket |-> IF s \in drain[d].frozen \cap clients THEN "closed" ELSE wire[s]]
      /\ _remove(drain[d].frozen) /\ UNCHANGED draining
  BY DEF DrainEnds
<1>1. r \in DrainRecord /\ r.phase = "done"
  BY DEF DrainRecord
<1> HIDE DEF r
<1>2. drain' \in [Drainer -> DrainRecord] /\ drain'[d] = r /\ \A e \in Drainer \ {d} : drain'[e] = drain[e]
  BY <1>0, <1>1 DEF WsInv, WsType
<1>3. clients \subseteq drain[d].frozen
  BY <1>0 DEF WsInv, Frozen
<1>4. drain[d].frozen \cap clients = clients
  BY <1>3
<1>5. /\ wire' \in [Socket -> WireStates] /\ \A t \in clients \ clients : wire'[t] \in {"open", "closing"}
  BY <1>0 DEF WsInv, WsType, WireStates
<1>6. PICK out \in SUBSET clients : out = clients
  OBVIOUS
<1>7. WsType' /\ MapsAgree' /\ Strangers' /\ clients' = clients \ out
  BY <1>0, <1>2, <1>4, <1>5, <1>6, LeaveKeeps DEF _remove
<1>8. clients' = {}
  BY <1>6, <1>7
<1>9. \A e \in Drainer : Frozen(e)'
  BY <1>0, <1>1, <1>2, <1>8 DEF WsInv, Frozen
<1> QED BY <1>7, <1>9 DEF WsInv

LEMMA WsStep == WsInv /\ [WsNext]_wsVars => WsInv'
<1> SUFFICES ASSUME WsInv, [WsNext]_wsVars PROVE WsInv'
  OBVIOUS
<1>1. ASSUME NEW s \in Socket, NEW ip \in Ip, add(s, ip) PROVE WsInv'
  BY <1>1, AddKeeps
<1>2. ASSUME NEW s \in Socket, NEW A \in SUBSET Asset, subscribe(s, A) \/ unsubscribe(s, A) PROVE WsInv'
  BY <1>2, SubscribeKeeps
<1>3. ASSUME UNCHANGED <<wire, clientIp, assets, perIp, subscribers, draining, drain>> PROVE WsInv'
  <2>1. clients' = clients
    BY <1>3 DEF clients
  <2> QED BY <1>3, <2>1, FrozenKeeps DEF WsInv, WsType, MapsAgree, Strangers
<1>4. ASSUME NEW s \in Socket, pong(s) PROVE WsInv'
  BY <1>3, <1>4 DEF pong, lifecycle
<1>5. ASSUME NEW s \in Socket, SocketCloses(s) PROVE WsInv'
  BY <1>5, ClosesKeeps
<1>6. ASSUME NEW a \in Asset, notifyPriceUpdates(a) PROVE WsInv'
  BY <1>3, <1>6 DEF notifyPriceUpdates, lifecycle
<1>7. ASSUME NEW d \in Drainer, Drain(d) \/ DrainCloses(d) \/ DrainEnds(d) PROVE WsInv'
  BY <1>7, DrainKeeps, DrainClosesKeeps, DrainEndsKeeps
<1>8. CASE Heartbeat
  BY <1>8, HeartbeatKeeps
<1>9. CASE UNCHANGED wsVars
  BY <1>3, <1>9 DEF wsVars
<1> QED BY <1>1, <1>2, <1>4, <1>5, <1>6, <1>7, <1>8, <1>9 DEF WsNext

\* The price stream of ws/PriceSubscriptionManager.js, for any number of sockets,
\* addresses, assets and drains: its maps agree and its caps hold through every
\* callback, and a finished drain leaves no client.
THEOREM SubscriptionsSafe == WsSpec => []SubscriptionsConsistent
<1>1. WsSpec => []WsInv
  BY WsInitInv, WsStep, PTL DEF WsSpec
<1>2. WsInv => SubscriptionsConsistent
  BY DEF WsInv, SubscriptionsConsistent, DrainLeavesNobody, Frozen
<1> QED BY <1>1, <1>2, PTL

-----------------------------------------------------------------------------
(* Lifecycle (start and shutdown)                                          *)

\* The places of a shutdown, by what it has behind it.
AfterIndexer == {"inFlight", "queue", "close", "closing", "disconnect"}
AfterPoll == {"queue", "close", "closing", "disconnect"}
AfterQueue == {"close", "closing", "disconnect"}
ShutdownPlaces == {"none", "price_refresh", "webhook_retry", "airdrop_expiry", "indexer"} \cup AfterIndexer

LifeType ==
  /\ running \subseteq Service /\ indexerPoll \in {"none", "timer", "reading", "writing"}
  /\ request \in BOOLEAN /\ shutdown \in [Shutdown -> ShutdownPlaces]
  /\ boot = "down" => \A s \in Shutdown : shutdown[s] = "none"

\* What shutdown s has stopped stays stopped.
Behind(s) ==
  /\ shutdown[s] \notin {"none", "price_refresh"} => "price_refresh" \notin running
  /\ shutdown[s] \in {"airdrop_expiry", "indexer"} \cup AfterIndexer => "webhook_retry" \notin running
  /\ shutdown[s] \in {"indexer"} \cup AfterIndexer => "airdrop_expiry" \notin running
  /\ shutdown[s] \in AfterIndexer => "indexer" \notin running /\ indexerPoll # "timer"
  /\ shutdown[s] \in AfterPoll => indexerPoll = "none"
  /\ shutdown[s] \in AfterQueue => "queue" \notin running
  /\ shutdown[s] \in {"closing", "disconnect"} => ~accepting
  /\ shutdown[s] = "disconnect" => ~request \/ cut.waited

CutType == cut \in [poll : BOOLEAN, services : SUBSET Service, request : BOOLEAN, waited : BOOLEAN]

\* A process cuts off nothing before it exits.
Uncut == boot # "down" => ~cut.poll /\ cut.services = {} /\ ~cut.request

LifeInv ==
  /\ LifeType /\ CutType /\ Uncut
  /\ ~lateStart => \A s \in Shutdown : Behind(s)
  /\ ShutdownClean

LEMMA JobsAre ==
  /\ Jobs[1] = "price_refresh" /\ Jobs[2] = "webhook_retry" /\ Jobs[3] = "airdrop_expiry"
  /\ DOMAIN Jobs = 1 .. 3 /\ Len(Jobs) = 3
  /\ Service = {"price_refresh", "webhook_retry", "airdrop_expiry", "indexer", "queue"}
<1>1. /\ Jobs[1] = "price_refresh" /\ Jobs[2] = "webhook_retry" /\ Jobs[3] = "airdrop_expiry"
      /\ DOMAIN Jobs = 1 .. 3 /\ Len(Jobs) = 3
  BY DEF Jobs
<1>2. 1 .. 3 = {1, 2, 3}
  OBVIOUS
<1> QED BY <1>1, <1>2 DEF Service

LEMMA LifeInitInv == LifecycleInit => LifeInv
<1> SUFFICES ASSUME LifecycleInit PROVE LifeInv
  OBVIOUS
<1>1. LifeType
  BY DEF LifecycleInit, LifeType, ShutdownPlaces
<1>2. CutType /\ ~cut.poll /\ cut.services = {} /\ ~cut.request
  BY DEF LifecycleInit, CutType, NothingCut
<1>3. \A s \in Shutdown : Behind(s)
  BY DEF LifecycleInit, Behind, AfterIndexer, AfterPoll, AfterQueue
<1> QED BY <1>1, <1>2, <1>3 DEF LifeInv, ShutdownClean, Uncut

\* One shutdown moves on and stops something; nothing is started.
LEMMA MovesOn ==
  ASSUME LifeInv, NEW s \in Shutdown, NEW p \in ShutdownPlaces, boot # "down",
         shutdown' = [shutdown EXCEPT ![s] = p], running' \subseteq running,
         indexerPoll' = indexerPoll \/ (indexerPoll = "timer" /\ indexerPoll' = "none"),
         accepting' = accepting \/ accepting' = FALSE,
         UNCHANGED <<boot, lateStart, request, cut>>,
         ~lateStart /\ Behind(s) => Behind(s)'
  PROVE  LifeInv'
<1>1. LifeType' /\ CutType' /\ ShutdownClean' /\ Uncut'
  BY DEF LifeInv, LifeType, CutType, ShutdownClean, Uncut
<1>2. ASSUME ~lateStart, NEW t \in Shutdown \ {s} PROVE Behind(t)'
  <2>1. shutdown'[t] = shutdown[t] /\ Behind(t)
    BY <1>2 DEF LifeInv, LifeType
  <2> QED BY <2>1 DEF Behind
<1> QED BY <1>1, <1>2 DEF LifeInv

LEMMA MovesTo ==
  ASSUME LifeInv, NEW s \in Shutdown, NEW p, shutdown' = [shutdown EXCEPT ![s] = p]
  PROVE  shutdown'[s] = p
BY DEF LifeInv, LifeType

LEMMA ShutdownKeeps ==
  ASSUME LifeInv, NEW s \in Shutdown, ShutdownStep(s)
  PROVE  LifeInv'
<1> USE DEF AfterIndexer, AfterPoll, AfterQueue
<1>0. ASSUME shutdown[s] # "none" PROVE boot # "down"
  BY <1>0 DEF LifeInv, LifeType
<1>1. CASE Signal(s) \/ DisconnectRejects(s)
  <2>1. "price_refresh" \in ShutdownPlaces /\ shutdown' = [shutdown EXCEPT ![s] = "price_refresh"] /\ boot # "down"
    BY <1>0, <1>1, JobsAre DEF Signal, DisconnectRejects, ShutdownPlaces
  <2>2. Behind(s)'
    BY <2>1, MovesTo DEF Behind
  <2> QED BY <1>1, <2>1, <2>2, MovesOn DEF Signal, DisconnectRejects
<1>2. CASE StopJob(s)
  <2>1. PICK i \in 1 .. 3 :
          /\ shutdown[s] = Jobs[i] /\ running' = running \ {Jobs[i]}
          /\ shutdown' = [shutdown EXCEPT ![s] = IF i = 3 THEN "indexer" ELSE Jobs[i + 1]]
          /\ UNCHANGED <<boot, accepting, lateStart, cut, indexerPoll, request, lifecycleFaults>>
    BY <1>2, JobsAre DEF StopJob
  <2>2. CASE i = 1
    <3>1. shutdown[s] = "price_refresh" /\ shutdown' = [shutdown EXCEPT ![s] = "webhook_retry"]
          /\ running' = running \ {"price_refresh"} /\ "webhook_retry" \in ShutdownPlaces
      <4>1. i # 3 /\ i + 1 = 2
        BY <2>2
      <4>2. shutdown' = [shutdown EXCEPT ![s] = Jobs[2]]
        BY <2>1, <4>1
      <4> QED BY <2>1, <2>2, <4>2, JobsAre DEF ShutdownPlaces
    <3>2. Behind(s) => Behind(s)'
      BY <3>1, MovesTo DEF Behind
    <3> QED BY <1>0, <2>1, <3>1, <3>2, MovesOn
  <2>3. CASE i = 2
    <3>1. shutdown[s] = "webhook_retry" /\ shutdown' = [shutdown EXCEPT ![s] = "airdrop_expiry"]
          /\ running' = running \ {"webhook_retry"} /\ "airdrop_expiry" \in ShutdownPlaces
      <4>1. i # 3 /\ i + 1 = 3
        BY <2>3
      <4>2. shutdown' = [shutdown EXCEPT ![s] = Jobs[3]]
        BY <2>1, <4>1
      <4> QED BY <2>1, <2>3, <4>2, JobsAre DEF ShutdownPlaces
    <3>2. Behind(s) => Behind(s)'
      BY <3>1, MovesTo DEF Behind
    <3> QED BY <1>0, <2>1, <3>1, <3>2, MovesOn
  <2>4. CASE i = 3
    <3>1. shutdown[s] = "airdrop_expiry" /\ shutdown' = [shutdown EXCEPT ![s] = "indexer"]
          /\ running' = running \ {"airdrop_expiry"} /\ "indexer" \in ShutdownPlaces
      BY <2>1, <2>4, JobsAre DEF ShutdownPlaces
    <3>2. Behind(s) => Behind(s)'
      BY <3>1, MovesTo DEF Behind
    <3> QED BY <1>0, <2>1, <3>1, <3>2, MovesOn
  <2> QED BY <2>1, <2>2, <2>3, <2>4
<1>3. CASE stop(s)
  <2>0. /\ shutdown[s] = "indexer" /\ running' = running \ {"indexer"}
        /\ indexerPoll' = (IF indexerPoll = "timer" THEN "none" ELSE indexerPoll)
        /\ UNCHANGED <<boot, accepting, lateStart, cut, request, lifecycleFaults>>
    BY <1>3 DEF stop
  <2>1. CASE indexerPoll \in InFlight
    <3>1. shutdown' = [shutdown EXCEPT ![s] = "inFlight"] /\ "inFlight" \in ShutdownPlaces /\ indexerPoll' # "timer"
      BY <1>3, <2>1 DEF stop, ShutdownPlaces, InFlight
    <3>2. Behind(s) => Behind(s)'
      BY <2>0, <3>1, MovesTo DEF Behind
    <3> QED BY <1>0, <2>0, <3>1, <3>2, MovesOn
  <2>2. CASE indexerPoll \notin InFlight
    <3>1. shutdown' = [shutdown EXCEPT ![s] = "queue"] /\ "queue" \in ShutdownPlaces /\ indexerPoll' = "none"
      BY <1>3, <2>2 DEF stop, ShutdownPlaces, InFlight, LifeInv, LifeType
    <3>2. Behind(s) => Behind(s)'
      BY <2>0, <3>1, MovesTo DEF Behind
    <3> QED BY <1>0, <2>0, <3>1, <3>2, MovesOn
  <2> QED BY <2>1, <2>2
<1>4. CASE PollAwaited(s)
  <2>1. /\ shutdown[s] = "inFlight" /\ shutdown' = [shutdown EXCEPT ![s] = "queue"] /\ "queue" \in ShutdownPlaces
        /\ indexerPoll \in {"none", "timer"}
        /\ UNCHANGED <<boot, running, accepting, lateStart, cut, indexerPoll, request>>
    BY <1>4 DEF PollAwaited, processVars, ShutdownPlaces, InFlight, LifeInv, LifeType
  <2>2. Behind(s) => Behind(s)'
    BY <2>1, MovesTo DEF Behind
  <2> QED BY <1>0, <2>1, <2>2, MovesOn
<1>5. CASE StopJobQueue(s)
  <2>1. /\ shutdown[s] = "queue" /\ shutdown' = [shutdown EXCEPT ![s] = "close"] /\ "close" \in ShutdownPlaces
        /\ running' = running \ {"queue"}
        /\ UNCHANGED <<boot, accepting, lateStart, cut, indexerPoll, request>>
    BY <1>5 DEF StopJobQueue, ShutdownPlaces
  <2>2. Behind(s) => Behind(s)'
    BY <2>1, MovesTo DEF Behind
  <2> QED BY <1>0, <2>1, <2>2, MovesOn
<1>6. CASE AwaitClose(s)
  <2>1. /\ shutdown[s] = "close" /\ shutdown' = [shutdown EXCEPT ![s] = "closing"] /\ "closing" \in ShutdownPlaces
        /\ accepting' = FALSE
        /\ UNCHANGED <<boot, running, lateStart, cut, indexerPoll, request>>
    BY <1>6 DEF AwaitClose, ShutdownPlaces
  <2>2. Behind(s) => Behind(s)'
    BY <2>1, MovesTo DEF Behind
  <2> QED BY <1>0, <2>1, <2>2, MovesOn
<1>7. CASE Closed(s)
  <2>1. /\ shutdown[s] = "closing" /\ shutdown' = [shutdown EXCEPT ![s] = "disconnect"]
        /\ "disconnect" \in ShutdownPlaces
        /\ UNCHANGED <<boot, running, accepting, lateStart, indexerPoll, request>>
    BY <1>7 DEF Closed, ShutdownPlaces
  <2>2. CASE ~request /\ cut' = cut
    <3>1. Behind(s) => Behind(s)'
      BY <2>1, <2>2, MovesTo DEF Behind
    <3> QED BY <1>0, <2>1, <2>2, <3>1, MovesOn
  <2>3. CASE request /\ cut' = [cut EXCEPT !.waited = TRUE]
    <3>1. /\ cut' \in [poll : BOOLEAN, services : SUBSET Service, request : BOOLEAN, waited : BOOLEAN]
          /\ cut'.waited = TRUE
          /\ cut'.poll = cut.poll /\ cut'.services = cut.services /\ cut'.request = cut.request
      BY <2>3 DEF LifeInv, CutType
    <3>2. ShutdownClean' /\ CutType' /\ Uncut'
      BY <2>1, <3>1 DEF LifeInv, ShutdownClean, CutType, Uncut
    <3>3. LifeType' /\ shutdown'[s] = "disconnect" /\ \A t \in Shutdown \ {s} : shutdown'[t] = shutdown[t]
      BY <1>0, <2>1 DEF LifeInv, LifeType
    <3>4. ASSUME ~lateStart, NEW t \in Shutdown PROVE Behind(t)'
      <4>1. CASE t = s
        BY <2>1, <3>1, <3>3, <3>4, <4>1 DEF Behind, LifeInv
      <4>2. CASE t # s
        BY <2>1, <3>1, <3>3, <3>4, <4>2 DEF Behind, LifeInv
      <4> QED BY <4>1, <4>2
    <3> QED BY <2>1, <3>2, <3>3, <3>4 DEF LifeInv
  <2> QED BY <1>7, <2>2, <2>3 DEF Closed
<1>8. CASE ProcessExits(s)
  <2>0. /\ shutdown[s] = "disconnect" /\ boot' = "down" /\ running' = {} /\ indexerPoll' = "none"
        /\ request' = FALSE
        /\ shutdown' = [t \in Shutdown |-> "none"] /\ lateStart' = lateStart
        /\ cut' = [cut EXCEPT !.poll = (indexerPoll = "writing"), !.services = running, !.request = request]
    BY <1>8 DEF ProcessExits
  <2>1. LifeType' /\ \A t \in Shutdown : Behind(t)'
    BY <2>0 DEF LifeType, Behind, ShutdownPlaces
  <2>2. /\ CutType' /\ (cut'.poll <=> indexerPoll = "writing") /\ cut'.services = running
        /\ cut'.request = request /\ cut'.waited = cut.waited
    <3>1. running \in SUBSET Service /\ request \in BOOLEAN /\ (indexerPoll = "writing") \in BOOLEAN
      BY DEF LifeInv, LifeType
    <3> QED BY <2>0, <3>1 DEF LifeInv, CutType
  <2>3. ~lateStart => indexerPoll = "none" /\ running = {} /\ (~request \/ cut.waited)
    BY <2>0, JobsAre DEF LifeInv, LifeType, Behind
  <2>4. ShutdownClean'
    BY <2>0, <2>2, <2>3 DEF ShutdownClean
  <2> QED BY <2>0, <2>1, <2>2, <2>4 DEF LifeInv, Uncut
<1> QED BY <1>1, <1>2, <1>3, <1>4, <1>5, <1>6, <1>7, <1>8 DEF ShutdownStep

LEMMA LifeStep == LifeInv /\ [LifecycleNext]_lifecycleVars => LifeInv'
<1> SUFFICES ASSUME LifeInv, [LifecycleNext]_lifecycleVars PROVE LifeInv'
  OBVIOUS
<1>1. CASE Spawn
  <2>1. LifeType' /\ \A s \in Shutdown : shutdown'[s] = "none"
    BY <1>1 DEF Spawn, LifeInv, LifeType
  <2>2. CutType' /\ ~cut'.poll /\ cut'.services = {} /\ ~cut'.request
    BY <1>1 DEF Spawn, CutType, NothingCut
  <2>3. \A s \in Shutdown : Behind(s)'
    BY <2>1 DEF Behind, AfterIndexer, AfterPoll, AfterQueue
  <2> QED BY <2>1, <2>2, <2>3 DEF LifeInv, ShutdownClean, Uncut
<1>2. CASE startServer
  <2>0. /\ boot = "hydrating" /\ boot' = "up" /\ running' = Service /\ indexerPoll' = "reading"
        /\ lateStart' = (\E s \in Shutdown : shutdown[s] \notin {"none", "price_refresh"})
        /\ UNCHANGED <<cut, request, shutdown>>
    BY <1>2, JobsAre DEF startServer
  <2>1. LifeType' /\ CutType'
    BY <2>0 DEF LifeInv, LifeType, CutType
  <2>2. ~lateStart' => \A s \in Shutdown : Behind(s)'
    BY <2>0 DEF Behind, AfterIndexer, AfterPoll, AfterQueue
  <2>3. Uncut' /\ ShutdownClean'
    BY <2>0 DEF LifeInv, Uncut, ShutdownClean
  <2> QED BY <2>1, <2>2, <2>3 DEF LifeInv
<1>3. ASSUME UNCHANGED <<boot, running, accepting, lateStart, cut, shutdown, request>>,
             \/ UNCHANGED indexerPoll
             \/ indexerPoll = "timer" /\ indexerPoll' = "reading"
             \/ indexerPoll = "reading" /\ indexerPoll' = "writing"
             \/ indexerPoll \in InFlight /\ indexerPoll' = Scheduled
      PROVE  LifeInv'
  <2>1. LifeType' /\ CutType' /\ Uncut' /\ ShutdownClean'
    BY <1>3 DEF LifeInv, LifeType, CutType, Uncut, ShutdownClean, Scheduled
  <2>2. ASSUME ~lateStart, NEW s \in Shutdown PROVE Behind(s)'
    <3>1. Behind(s)
      BY <2>2 DEF LifeInv
    <3>2. shutdown[s] \in AfterIndexer => indexerPoll' # "timer"
      BY <1>3, <3>1 DEF Behind, Scheduled
    <3>3. shutdown[s] \in AfterPoll => indexerPoll' = "none"
      BY <1>3, <3>1 DEF Behind, Scheduled, InFlight
    <3> QED BY <1>3, <3>1, <3>2, <3>3 DEF Behind
  <2> QED BY <1>3, <2>1, <2>2 DEF LifeInv
<1>4. CASE TimerFires \/ PollWrites \/ PollSettles
  BY <1>3, <1>4 DEF TimerFires, PollWrites, PollSettles, processVars
<1>5. CASE RequestArrives \/ RequestAnswered
  <2>0. UNCHANGED <<boot, running, accepting, lateStart, cut, shutdown, indexerPoll>>
    BY <1>5 DEF RequestArrives, RequestAnswered, processVars
  <2>1. LifeType' /\ CutType' /\ Uncut' /\ ShutdownClean'
    BY <1>5, <2>0 DEF RequestArrives, RequestAnswered, LifeInv, LifeType, CutType, Uncut, ShutdownClean
  <2>2. request' = FALSE \/ accepting
    BY <1>5 DEF RequestArrives, RequestAnswered
  <2>3. ASSUME ~lateStart, NEW s \in Shutdown PROVE Behind(s)'
    <3>1. Behind(s)
      BY <2>3 DEF LifeInv
    <3> QED BY <2>0, <2>2, <3>1 DEF Behind
  <2> QED BY <2>0, <2>1, <2>3 DEF LifeInv
<1>6. ASSUME NEW s \in Shutdown, ShutdownStep(s) PROVE LifeInv'
  BY <1>6, ShutdownKeeps
<1>7. CASE UNCHANGED lifecycleVars
  BY <1>3, <1>7 DEF lifecycleVars, processVars
<1> QED BY <1>1, <1>2, <1>4, <1>5, <1>6, <1>7 DEF LifecycleNext

\* The end of a process (index.js), for any number of shutdowns that interleave: it
\* cuts off no poll and no running service unless it was still starting, and a
\* request only when the time to wait had passed.
THEOREM ShutdownsClean == LifecycleSpec => []ShutdownClean
<1>1. LifecycleSpec => []LifeInv
  BY LifeInitInv, LifeStep, PTL DEF LifecycleSpec
<1>2. LifeInv => ShutdownClean
  BY DEF LifeInv
<1> QED BY <1>1, <1>2, PTL

-----------------------------------------------------------------------------
(* DeliveryMetrics (counters in memory and in Redis)                       *)

Counts == [total : Nat, success : Nat]
Bit(success) == IF success THEN 1 ELSE 0

MetricsType ==
  /\ memory \in [Hash -> Counts] /\ durable \in [Hash -> Counts] /\ delivered \in Counts
  /\ unsent \in Seq(BOOLEAN)

\* The pipelines under way lead from the successes in Redis to those delivered:
\* f is the counter after each of them.
Leads(f, h) ==
  /\ f[0] = durable[h].success /\ f[Len(unsent)] = delivered.success
  /\ \A i \in 1 .. Len(unsent) : f[i] = f[i - 1] + Bit(unsent[i])

OnTheWay(h) ==
  /\ durable[h].total + Len(unsent) = delivered.total
  /\ \E f \in [0 .. Len(unsent) -> Nat] : Leads(f, h)

MetricsInv ==
  /\ MetricsType
  /\ counting # "up" => unsent = <<>>
  /\ ~lostCounts => \A h \in Hash : OnTheWay(h)
  /\ ~lostCounts /\ counting = "up" /\ ~memoryEmpty => \A h \in Hash : memory[h] = delivered

LEMMA BitType == \A b \in BOOLEAN : Bit(b) \in Nat
BY DEF Bit

LEMMA PlusIs ==
  ASSUME NEW c \in Counts, NEW b \in BOOLEAN
  PROVE  Plus(c, b) \in Counts /\ Plus(c, b).total = c.total + 1 /\ Plus(c, b).success = c.success + Bit(b)
<1>1. c.total \in Nat /\ c.success \in Nat /\ Bit(b) \in Nat
  BY BitType DEF Counts
<1>2. Plus(c, b) = [total |-> c.total + 1, success |-> c.success + Bit(b)]
  BY DEF Plus, Bit
<1> QED BY <1>1, <1>2 DEF Counts

LEMMA MetricsInitInv == MetricsInit => MetricsInv
<1> SUFFICES ASSUME MetricsInit PROVE MetricsInv
  OBVIOUS
<1>1. Zero \in Counts /\ Zero.total = 0 /\ Zero.success = 0
  BY DEF Zero, Counts
<1>2. /\ MetricsType /\ unsent = <<>> /\ counting # "up" /\ delivered = Zero
      /\ \A h \in Hash : durable[h] = Zero
  BY <1>1 DEF MetricsInit, MetricsType, NoCounters
<1>3. Len(unsent) = 0
  BY <1>2
<1>4. ASSUME NEW h \in Hash PROVE OnTheWay(h)
  <2>1. [i \in 0 .. 0 |-> 0] \in [0 .. Len(unsent) -> Nat] /\ Leads([i \in 0 .. 0 |-> 0], h)
    BY <1>1, <1>2, <1>3, <1>4 DEF Leads
  <2> QED BY <1>1, <1>2, <1>3, <2>1 DEF OnTheWay
<1> QED BY <1>2, <1>4 DEF MetricsInv

\* A delivery: one pipeline more, at the end.
LEMMA recordKeeps ==
  ASSUME MetricsInv, NEW b \in BOOLEAN, recordDeliveryEnd(b)
  PROVE  MetricsInv'
<1>0. /\ counting = "up" /\ delivered' = Plus(delivered, b) /\ unsent' = Append(unsent, b)
      /\ memory' = [h \in Hash |-> Plus(memory[h], b)]
      /\ UNCHANGED <<counting, durable, memoryEmpty, lostCounts>>
  BY DEF recordDeliveryEnd
<1>1. /\ delivered \in Counts /\ unsent \in Seq(BOOLEAN) /\ \A h \in Hash : memory[h] \in Counts /\ durable[h] \in Counts
  BY DEF MetricsInv, MetricsType
<1>2. MetricsType'
  BY <1>0, <1>1, PlusIs DEF MetricsInv, MetricsType
<1>3. PICK n \in Nat : /\ Len(unsent) = n /\ Len(unsent') = n + 1
                       /\ \A i \in 1 .. n : unsent'[i] = unsent[i]
                       /\ unsent'[n + 1] = b
  BY <1>0, <1>1
<1>4. ASSUME NEW h \in Hash, OnTheWay(h) PROVE OnTheWay(h)'
  <2>1. PICK f \in [0 .. n -> Nat] : Leads(f, h)
    BY <1>3, <1>4 DEF OnTheWay
  <2>2. delivered'.total = delivered.total + 1 /\ delivered'.success = delivered.success + Bit(b)
        /\ Bit(b) \in Nat
    BY <1>0, <1>1, PlusIs, BitType
  <2>3. PICK g : g = [i \in 0 .. n + 1 |-> IF i = n + 1 THEN f[n] + Bit(b) ELSE f[i]]
    OBVIOUS
  <2>4. g \in [0 .. n + 1 -> Nat] /\ (\A i \in 0 .. n : g[i] = f[i]) /\ g[n + 1] = f[n] + Bit(b)
    BY <1>3, <2>2, <2>3
  <2>5. /\ f[0] = durable[h].success /\ f[n] = delivered.success
        /\ \A i \in 1 .. n : f[i] = f[i - 1] + Bit(unsent[i])
    BY <1>3, <2>1 DEF Leads
  <2>6. g[0] = durable'[h].success /\ g[n + 1] = delivered'.success
    BY <1>0, <1>3, <2>2, <2>4, <2>5
  <2>7. \A i \in 1 .. n + 1 : g[i] = g[i - 1] + Bit(unsent'[i])
    <3> SUFFICES ASSUME NEW i \in 1 .. n + 1 PROVE g[i] = g[i - 1] + Bit(unsent'[i])
      OBVIOUS
    <3>1. CASE i = n + 1
      <4>1. i - 1 = n /\ n \in 0 .. n
        BY <1>3, <3>1
      <4> QED BY <1>3, <2>4, <3>1, <4>1
    <3>2. CASE i # n + 1
      <4>1. i \in 1 .. n /\ i \in 0 .. n /\ i - 1 \in 0 .. n
        BY <1>3, <3>2
      <4> QED BY <1>3, <2>4, <2>5, <4>1
    <3> QED BY <3>1, <3>2
  <2>8. Leads(g, h)'
    BY <1>3, <2>6, <2>7 DEF Leads
  <2>9. durable'[h].total + Len(unsent') = delivered'.total
    BY <1>0, <1>1, <1>3, <1>4, <2>2 DEF OnTheWay, Counts
  <2> QED BY <1>3, <2>4, <2>8, <2>9 DEF OnTheWay
<1>5. ASSUME \A h \in Hash : memory[h] = delivered PROVE \A h \in Hash : memory'[h] = delivered'
  BY <1>0, <1>5
<1> QED BY <1>0, <1>2, <1>4, <1>5 DEF MetricsInv

\* A pipeline is executed: the path loses its first step.
LEMMA PipelineKeeps ==
  ASSUME MetricsInv, PipelineExecuted
  PROVE  MetricsInv'
<1>0. /\ unsent # <<>> /\ unsent' = Tail(unsent)
      /\ UNCHANGED <<counting, memory, delivered, memoryEmpty>>
      /\ unsent \in Seq(BOOLEAN) /\ durable \in [Hash -> Counts]
  BY DEF PipelineExecuted, MetricsInv, MetricsType
<1>1. /\ Head(unsent) \in BOOLEAN /\ unsent' \in Seq(BOOLEAN) /\ Len(unsent) \in Nat
      /\ Len(unsent') = Len(unsent) - 1 /\ Head(unsent) = unsent[1] /\ Len(unsent) >= 1
      /\ \A i \in 1 .. Len(unsent') : unsent'[i] = unsent[i + 1]
  BY <1>0, HeadTailProperties
<1>2. PICK b \in BOOLEAN : b = Head(unsent)
  BY <1>1
<1>3. \A h \in Hash : /\ Plus(durable[h], b) \in Counts
                      /\ Plus(durable[h], b).total = durable[h].total + 1
                      /\ Plus(durable[h], b).success = durable[h].success + Bit(b)
  BY <1>0, PlusIs
<1>4. durable' \in [Hash -> Counts]
  <2>1. CASE durable' = Persisted(Head(unsent))
    BY <1>2, <1>3, <2>1 DEF Persisted
  <2>2. CASE durable' = durable
    BY <1>0, <2>2
  <2>3. CASE \E h \in Hash : durable' = [durable EXCEPT ![h] = Plus(durable[h], b)]
    BY <1>0, <1>3, <2>3
  <2> QED BY <1>2, <2>1, <2>2, <2>3 DEF PipelineExecuted
<1>5. MetricsType' /\ (counting' # "up" => unsent' = <<>>)
  BY <1>0, <1>1, <1>4 DEF MetricsInv, MetricsType
<1>6. CASE lostCounts' = TRUE
  BY <1>5, <1>6 DEF MetricsInv
<1>7. CASE durable' = Persisted(Head(unsent)) /\ UNCHANGED lostCounts
  <2>1. PICK n \in Nat : Len(unsent) = n + 1 /\ Len(unsent') = n
    <3>1. Len(unsent) - 1 \in Nat /\ Len(unsent) = (Len(unsent) - 1) + 1
      BY <1>1
    <3> QED BY <1>1, <3>1
  <2>2. ASSUME NEW h \in Hash, OnTheWay(h) PROVE OnTheWay(h)'
    <3>1. PICK f \in [0 .. n + 1 -> Nat] : Leads(f, h)
      BY <2>1, <2>2 DEF OnTheWay
    <3>2. /\ f[0] = durable[h].success /\ f[n + 1] = delivered.success
          /\ \A i \in 1 .. n + 1 : f[i] = f[i - 1] + Bit(unsent[i])
      BY <2>1, <3>1 DEF Leads
    <3>3. PICK g : g = [i \in 0 .. n |-> f[i + 1]]
      OBVIOUS
    <3>4. g \in [0 .. n -> Nat] /\ \A i \in 0 .. n : g[i] = f[i + 1]
      BY <2>1, <3>3
    <3>5. durable'[h] = Plus(durable[h], b)
      BY <1>2, <1>7 DEF Persisted
    <3>6. g[0] = durable'[h].success
      <4>1. g[0] = f[1] /\ f[1] = f[0] + Bit(unsent[1])
        <5>1. 0 \in 0 .. n /\ 1 \in 1 .. n + 1 /\ 1 - 1 = 0 /\ 0 + 1 = 1
          BY <2>1
        <5> QED BY <3>2, <3>4, <5>1
      <4> QED BY <1>1, <1>2, <1>3, <3>2, <3>5, <4>1
    <3>7. g[n] = delivered'.success
      BY <1>0, <2>1, <3>2, <3>4
    <3>8. \A i \in 1 .. n : g[i] = g[i - 1] + Bit(unsent'[i])
      <4> SUFFICES ASSUME NEW i \in 1 .. n PROVE g[i] = g[i - 1] + Bit(unsent'[i])
        OBVIOUS
      <4>1. i \in 0 .. n /\ i - 1 \in 0 .. n /\ i + 1 \in 1 .. n + 1 /\ (i - 1) + 1 = i /\ (i + 1) - 1 = i
        BY <2>1
      <4>2. unsent'[i] = unsent[i + 1]
        BY <1>1, <2>1
      <4>3. g[i] = f[i + 1] /\ g[i - 1] = f[i] /\ f[i + 1] = f[i] + Bit(unsent[i + 1])
        BY <3>2, <3>4, <4>1
      <4> QED BY <4>2, <4>3
    <3>9. Leads(g, h)'
      BY <2>1, <3>6, <3>7, <3>8 DEF Leads
    <3>10. durable'[h].total + Len(unsent') = delivered'.total
      <4>1. durable[h].total \in Nat /\ durable[h].total + (n + 1) = delivered.total
        BY <1>0, <2>1, <2>2 DEF OnTheWay, Counts
      <4>2. durable'[h].total = durable[h].total + 1
        BY <1>3, <3>5
      <4>3. delivered' = delivered
        BY <1>0
      <4>4. (durable[h].total + 1) + n = delivered.total
        <5>1. PICK d \in Nat : d = durable[h].total
          BY <4>1
        <5>2. d + (n + 1) = delivered.total
          BY <4>1, <5>1, Zenon
        <5>3. d + (n + 1) = (d + 1) + n
          OBVIOUS
        <5> QED BY <5>1, <5>2, <5>3, Zenon
      <4>5. Len(unsent') = n
        BY <2>1
      <4> QED BY <4>2, <4>3, <4>4, <4>5, Zenon
    <3> QED BY <2>1, <3>4, <3>9, <3>10 DEF OnTheWay
  <2> QED BY <1>0, <1>5, <1>7, <2>2 DEF MetricsInv
<1> QED BY <1>6, <1>7 DEF PipelineExecuted

\* When nothing is on its way, the hashes are the deliveries.
LEMMA HydrateKeeps == ASSUME MetricsInv, hydrateMetrics PROVE MetricsInv'
<1>0. /\ counting = "hydrating" /\ counting' = "up" /\ UNCHANGED <<durable, unsent, delivered, lostCounts>>
  BY DEF hydrateMetrics
<1>1. unsent = <<>> /\ Len(unsent) = 0
  BY <1>0 DEF MetricsInv
<1>2. memory' \in [Hash -> Counts] /\ (memory' = durable \/ memoryEmpty' = TRUE)
  <2>1. NoCounters \in [Hash -> Counts]
    BY DEF NoCounters, Zero, Counts
  <2>2. durable \in [Hash -> Counts] /\ "aggregate" \in Hash
    BY DEF MetricsInv, MetricsType, Hash
  <2>3. [NoCounters EXCEPT !["aggregate"] = durable["aggregate"]] \in [Hash -> Counts]
    BY <2>1, <2>2
  <2> QED BY <2>1, <2>2, <2>3 DEF hydrateMetrics
<1>3. MetricsType'
  BY <1>0, <1>2 DEF MetricsInv, MetricsType
<1>4. ASSUME NEW h \in Hash PROVE OnTheWay(h)' <=> OnTheWay(h)
  BY <1>0 DEF OnTheWay, Leads
<1>5. ASSUME NEW h \in Hash, OnTheWay(h) PROVE durable[h] = delivered
  <2>1. durable[h] \in [total : Nat, success : Nat] /\ delivered \in [total : Nat, success : Nat]
    BY DEF MetricsInv, MetricsType, Counts
  <2>2. durable[h].total = delivered.total
    BY <1>1, <1>5, <2>1 DEF OnTheWay
  <2>3. durable[h].success = delivered.success
    BY <1>1, <1>5 DEF OnTheWay, Leads
  <2> QED BY <2>1, <2>2, <2>3
<1> QED BY <1>0, <1>1, <1>2, <1>3, <1>4, <1>5 DEF MetricsInv

LEMMA MetricsStep == MetricsInv /\ [MetricsNext]_metricsVars => MetricsInv'
<1> SUFFICES ASSUME MetricsInv, [MetricsNext]_metricsVars PROVE MetricsInv'
  OBVIOUS
<1>1. CASE ProcessStarts
  <2>1. NoCounters \in [Hash -> Counts]
    BY DEF NoCounters, Zero, Counts
  <2>2. MetricsType' /\ unsent' = unsent /\ counting = "down" /\ counting' = "hydrating" /\ UNCHANGED lostCounts
    BY <1>1, <2>1 DEF ProcessStarts, MetricsInv, MetricsType
  <2>3. ASSUME NEW h \in Hash PROVE OnTheWay(h)' <=> OnTheWay(h)
    BY <1>1 DEF ProcessStarts, OnTheWay, Leads
  <2> QED BY <2>2, <2>3 DEF MetricsInv
<1>2. CASE hydrateMetrics
  BY <1>2, HydrateKeeps
<1>3. ASSUME NEW b \in BOOLEAN, recordDeliveryEnd(b) PROVE MetricsInv'
  BY <1>3, recordKeeps
<1>4. CASE PipelineExecuted
  BY <1>4, PipelineKeeps
<1>5. CASE ProcessEnds
  <2>1. /\ counting' = "down" /\ unsent' = <<>> /\ UNCHANGED <<memory, durable, delivered, memoryEmpty>>
        /\ MetricsType'
    BY <1>5 DEF ProcessEnds, MetricsInv, MetricsType
  <2>2. CASE unsent = <<>>
    <3>1. unsent' = unsent /\ UNCHANGED lostCounts
      BY <1>5, <2>1, <2>2 DEF ProcessEnds
    <3>0. UNCHANGED <<durable, delivered>>
      BY <2>1
    <3>2. ASSUME NEW h \in Hash PROVE OnTheWay(h)' <=> OnTheWay(h)
      BY <3>0, <3>1 DEF OnTheWay, Leads
    <3> QED BY <2>1, <3>1, <3>2 DEF MetricsInv
  <2>3. CASE unsent # <<>>
    <3>1. lostCounts' = TRUE
      BY <1>5, <2>3 DEF ProcessEnds
    <3> QED BY <2>1, <3>1 DEF MetricsInv
  <2> QED BY <2>2, <2>3
<1>6. CASE UNCHANGED metricsVars
  <2>1. UNCHANGED <<counting, memory, durable, unsent, delivered, memoryEmpty, lostCounts>>
    BY <1>6 DEF metricsVars
  <2>2. ASSUME NEW h \in Hash PROVE OnTheWay(h)' <=> OnTheWay(h)
    BY <2>1 DEF OnTheWay, Leads
  <2> QED BY <2>1, <2>2 DEF MetricsInv, MetricsType
<1> QED BY <1>1, <1>2, <1>3, <1>4, <1>5, <1>6 DEF MetricsNext

\* The delivery counters of webhookDispatcher.js survive any number of processes:
\* those in Redis are the deliveries that ended, but for pipelines on their way,
\* unless one was lost; and a process that loaded them counts each delivery once.
THEOREM CountersSafe == MetricsSpec => []CountersDurable
<1>1. MetricsSpec => []MetricsInv
  BY MetricsInitInv, MetricsStep, PTL DEF MetricsSpec
<1>2. MetricsInv => CountersDurable
  BY DEF MetricsInv, CountersDurable, OnTheWay
<1> QED BY <1>1, <1>2, PTL

-----------------------------------------------------------------------------
(* CacheWarm (warming under a lock)                                        *)

WarmSpec == WarmInit /\ [][WarmNext]_warmVars

WarmAssets == Watched \cup Queried
WarmPlaces == {"lock", "collect", "pool", "get", "del", "done"}
WarmStates == {"idle", "disabled", "locked", "running", "completed"}
WarmRecord ==
  [state : WarmStates, pc : WarmPlaces, queue : SUBSET WarmAssets, flying : SUBSET WarmAssets,
   done : Nat, good : Nat, aborted : BOOLEAN, total : Nat, summary : Nat]

\* The warming of one instance: every asset is queued, in flight or done; who has
\* nothing to do yet has done nothing; and who finished in time has nothing left.
WarmOk(w) ==
  /\ Cardinality(w.flying) <= Concurrency
  /\ w.queue \cap w.flying = {}
  /\ w.done + Cardinality(w.flying) + Cardinality(w.queue) = w.total
  /\ w.pc \in {"lock", "collect"} => /\ w.queue = {} /\ w.flying = {} /\ w.done = 0 /\ w.good = 0
                                     /\ w.total = 0 /\ w.summary = 0
  /\ w.pc \in {"collect", "pool"} <=> w.state = "running"
  /\ w.state = "completed" => w.aborted \/ (w.queue = {} /\ w.flying = {} /\ w.summary = w.good)

\* The lock is that of the instance that warms, and of the one that is about to
\* delete it, unless it was lost.
LockOk(i) ==
  /\ warm[i].state = "running" /\ i \notin unguarded => warmLock = i
  /\ warm[i].pc = "del" /\ i \notin late => warmLock = i

WarmInv ==
  /\ warm \in [Instance -> WarmRecord]
  /\ \A i \in Instance : WarmOk(warm[i]) /\ LockOk(i)

LEMMA WarmSets ==
  ASSUME NEW S \in SUBSET WarmAssets
  PROVE  IsFiniteSet(S) /\ Cardinality(S) \in Nat
<1>1. IsFiniteSet(WarmAssets)
  BY WarmConfig, FS_Union DEF WarmAssets
<1> QED BY <1>1, FS_Subset, FS_CardinalityType

LEMMA WarmIs ==
  ASSUME NEW w \in WarmRecord
  PROVE  /\ w.state \in WarmStates /\ w.pc \in WarmPlaces /\ w.queue \in SUBSET WarmAssets
         /\ w.flying \in SUBSET WarmAssets /\ w.done \in Nat /\ w.good \in Nat
         /\ w.total \in Nat /\ w.summary \in Nat /\ w.aborted \in BOOLEAN
BY DEF WarmRecord

LEMMA WarmInitInv == WarmInit => WarmInv
<1> SUFFICES ASSUME WarmInit PROVE WarmInv
  OBVIOUS
<1>1. /\ NotStarted \in WarmRecord /\ NotStarted.pc = "lock" /\ NotStarted.state = "idle"
      /\ NotStarted.queue = {} /\ NotStarted.flying = {} /\ NotStarted.done = 0
      /\ NotStarted.good = 0 /\ NotStarted.total = 0 /\ NotStarted.summary = 0
  BY DEF NotStarted, WarmRecord, WarmStates, WarmPlaces
<1>2. Cardinality({}) = 0 /\ Concurrency \in Nat
  BY FS_EmptySet, WarmConfig
<1>3. WarmOk(NotStarted)
  BY <1>1, <1>2 DEF WarmOk
<1>4. \A i \in Instance : warm[i] = NotStarted
  BY DEF WarmInit
<1>5. \A i \in Instance : LockOk(i)
  BY <1>1, <1>4 DEF LockOk
<1> QED BY <1>1, <1>3, <1>4, <1>5 DEF WarmInit, WarmInv

\* Instance i alone moves, to new.
WarmTo(i, new) == new \in WarmRecord /\ warm' = [warm EXCEPT ![i] = new]

LEMMA WarmMoves ==
  ASSUME WarmInv, NEW i \in Instance, NEW new, WarmTo(i, new)
  PROVE  /\ warm' \in [Instance -> WarmRecord] /\ warm'[i] = new
         /\ \A j \in Instance \ {i} : warm'[j] = warm[j]
BY DEF WarmInv, WarmTo

\* A step that leaves the lock alone, and by which i neither begins to warm nor
\* to release.
LEMMA PoolStepKeeps ==
  ASSUME WarmInv, NEW i \in Instance, NEW new, WarmTo(i, new), WarmOk(new),
         new.state = "running" => warm[i].state = "running",
         new.pc = "del" => warm[i].pc = "del" \/ warmLock = i,
         UNCHANGED <<warmLock, unguarded, late>>
  PROVE  WarmInv'
<1>1. /\ warm' \in [Instance -> WarmRecord] /\ warm'[i] = new
      /\ \A j \in Instance \ {i} : warm'[j] = warm[j]
  BY WarmMoves
<1>2. \A j \in Instance : WarmOk(warm'[j])
  BY <1>1 DEF WarmInv
<1>3. \A j \in Instance : LockOk(j)'
  BY <1>1 DEF WarmInv, LockOk
<1> QED BY <1>1, <1>2, <1>3 DEF WarmInv

LEMMA TakeKeeps == ASSUME WarmInv, NEW i \in Instance, TakeWarmLock(i) PROVE WarmInv'
<1>0. warm[i] \in WarmRecord /\ WarmOk(warm[i]) /\ warm[i].pc = "lock" /\ late' = late
  BY DEF WarmInv, TakeWarmLock
<1>1. ASSUME NEW p \in WarmPlaces, NEW st \in WarmStates,
             warm' = [warm EXCEPT ![i].pc = p, ![i].state = st],
             p \notin {"lock", "pool"}, p = "collect" <=> st = "running", st # "completed"
      PROVE  \E new \in WarmRecord : /\ WarmTo(i, new) /\ WarmOk(new) /\ new.pc = p /\ new.state = st
  <2> DEFINE new == [warm[i] EXCEPT !.pc = p, !.state = st]
  <2>1. /\ new \in WarmRecord /\ new.pc = p /\ new.state = st
        /\ new.queue = warm[i].queue /\ new.flying = warm[i].flying /\ new.done = warm[i].done
        /\ new.good = warm[i].good /\ new.total = warm[i].total /\ new.summary = warm[i].summary
    BY <1>0 DEF WarmRecord
  <2>2. warm' = [warm EXCEPT ![i] = new]
    BY <1>1 DEF WarmInv
  <2> HIDE DEF new
  <2>3. WarmOk(new)
    BY <1>0, <1>1, <2>1 DEF WarmOk
  <2> QED BY <2>1, <2>2, <2>3 DEF WarmTo
<1>2. {"done", "collect"} \subseteq WarmPlaces /\ {"disabled", "locked", "running"} \subseteq WarmStates
  BY DEF WarmPlaces, WarmStates
<1>3. CASE /\ \E st \in {"disabled", "locked"} : warm' = [warm EXCEPT ![i].pc = "done", ![i].state = st]
           /\ UNCHANGED <<warmLock, unguarded>>
  <2>1. PICK st \in {"disabled", "locked"} : warm' = [warm EXCEPT ![i].pc = "done", ![i].state = st]
    BY <1>3
  <2>2. PICK new \in WarmRecord : WarmTo(i, new) /\ WarmOk(new) /\ new.pc = "done" /\ new.state = st
    <3>1. /\ "done" \in WarmPlaces /\ st \in WarmStates /\ "done" \notin {"lock", "pool"}
          /\ "done" = "collect" <=> st = "running"
          /\ st # "completed"
      BY <1>2
    <3> QED BY <1>1, <2>1, <3>1
  <2> QED BY <1>0, <1>3, <2>2, PoolStepKeeps
<1>4. CASE /\ warm' = [warm EXCEPT ![i].pc = "collect", ![i].state = "running"]
           /\ \/ warmLock = Nobody /\ warmLock' = i /\ UNCHANGED unguarded /\ NoWarmFault
              \/ /\ WarmFault /\ unguarded' = unguarded \cup {i}
                 /\ warmLock' \in {warmLock} \cup (IF warmLock = Nobody THEN {i} ELSE {})
  <2>1. PICK new \in WarmRecord : WarmTo(i, new) /\ WarmOk(new) /\ new.pc = "collect" /\ new.state = "running"
    BY <1>1, <1>2, <1>4
  <2>2. /\ warm' \in [Instance -> WarmRecord] /\ warm'[i] = new
        /\ \A j \in Instance \ {i} : warm'[j] = warm[j]
    BY <2>1, WarmMoves
  <2>3. \A j \in Instance \ {i} : warmLock = j => warmLock' = j
    BY <1>4, WarmConfig
  <2>4. LockOk(i)'
    BY <1>4, <2>1, <2>2 DEF LockOk
  <2>5. \A j \in Instance \ {i} : LockOk(j)'
    <3>1. unguarded \subseteq unguarded'
      BY <1>4
    <3> QED BY <1>0, <2>2, <2>3, <3>1 DEF WarmInv, LockOk
  <2> QED BY <2>1, <2>2, <2>4, <2>5 DEF WarmInv
<1> QED BY <1>3, <1>4 DEF TakeWarmLock

LEMMA CollectKeeps == ASSUME WarmInv, NEW i \in Instance, CollectAssets(i) PROVE WarmInv'
<1>0. /\ warm[i] \in WarmRecord /\ WarmOk(warm[i]) /\ warm[i].pc = "collect"
      /\ UNCHANGED <<warmLock, unguarded, late>>
  BY DEF WarmInv, CollectAssets
<1>1. PICK chosen \in SUBSET WarmAssets, n \in Nat, p \in WarmPlaces, st \in WarmStates :
        /\ n = Cardinality(chosen)
        /\ p = IF chosen = {} THEN "get" ELSE "pool"
        /\ st = IF chosen = {} THEN "completed" ELSE "running"
        /\ warm' = [warm EXCEPT ![i].queue = chosen, ![i].total = n, ![i].pc = p, ![i].state = st]
  <2>1. PICK chosen \in SUBSET WarmAssets :
          warm' = [warm EXCEPT ![i].queue = chosen, ![i].total = Cardinality(chosen),
                               ![i].pc = IF chosen = {} THEN "get" ELSE "pool",
                               ![i].state = IF chosen = {} THEN "completed" ELSE "running"]
    BY DEF CollectAssets, WarmAssets
  <2>2. Cardinality(chosen) \in Nat
    BY WarmSets
  <2>3. /\ (IF chosen = {} THEN "get" ELSE "pool") \in WarmPlaces
        /\ (IF chosen = {} THEN "completed" ELSE "running") \in WarmStates
    BY DEF WarmPlaces, WarmStates
  <2> QED BY <2>1, <2>2, <2>3
<1> DEFINE new == [warm[i] EXCEPT !.queue = chosen, !.total = n, !.pc = p, !.state = st]
<1>2. /\ new \in WarmRecord /\ new.pc = p /\ new.state = st
      /\ new.queue = chosen /\ new.flying = warm[i].flying /\ new.done = warm[i].done
      /\ new.good = warm[i].good /\ new.total = n /\ new.summary = warm[i].summary
  BY <1>0 DEF WarmRecord
<1>3. warm' = [warm EXCEPT ![i] = new]
  BY <1>1 DEF WarmInv
<1> HIDE DEF new
<1>4. WarmOk(new)
  <2>1. /\ warm[i].flying = {} /\ warm[i].done = 0 /\ warm[i].good = 0 /\ warm[i].summary = 0
        /\ Cardinality({}) = 0 /\ Concurrency \in Nat
    BY <1>0, FS_EmptySet, WarmConfig DEF WarmOk
  <2>2. /\ new.flying = {} /\ new.done = 0 /\ new.good = 0 /\ new.summary = 0
        /\ Cardinality(new.flying) = 0 /\ Cardinality(new.queue) = n /\ new.total = n
    BY <1>1, <1>2, <2>1
  <2>3. /\ new.done + Cardinality(new.flying) + Cardinality(new.queue) = new.total
        /\ Cardinality(new.flying) <= Concurrency
    BY <2>1, <2>2
  <2>4. CASE chosen = {}
    BY <1>1, <1>2, <2>2, <2>3, <2>4 DEF WarmOk
  <2>5. CASE chosen # {}
    BY <1>1, <1>2, <2>2, <2>3, <2>5 DEF WarmOk
  <2> QED BY <2>4, <2>5
<1>5. WarmTo(i, new)
  BY <1>2, <1>3 DEF WarmTo
<1>6. new.pc # "del" /\ warm[i].state = "running"
  BY <1>0, <1>1, <1>2 DEF WarmOk
<1> QED BY <1>0, <1>4, <1>5, <1>6, PoolStepKeeps

LEMMA StartFetchKeeps == ASSUME WarmInv, NEW i \in Instance, StartFetch(i) PROVE WarmInv'
<1>0. /\ warm[i] \in WarmRecord /\ WarmOk(warm[i]) /\ UNCHANGED <<warmLock, unguarded, late>>
      /\ Cardinality(warm[i].flying) < Concurrency /\ Concurrency \in Nat
  BY WarmConfig DEF WarmInv, StartFetch
<1>1. PICK a \in warm[i].queue :
        warm' = [warm EXCEPT ![i].queue = @ \ {a},
                             ![i].flying = IF warm[i].aborted THEN @ ELSE @ \cup {a},
                             ![i].done = IF warm[i].aborted THEN @ + 1 ELSE @]
  BY DEF StartFetch
<1>2. /\ warm[i].queue \in SUBSET WarmAssets /\ warm[i].flying \in SUBSET WarmAssets /\ warm[i].done \in Nat
      /\ warm[i].total \in Nat
  BY <1>0, WarmIs
<1>3. PICK q \in SUBSET WarmAssets, f \in SUBSET WarmAssets, d \in Nat :
        /\ q = warm[i].queue \ {a}
        /\ f = IF warm[i].aborted THEN warm[i].flying ELSE warm[i].flying \cup {a}
        /\ d = IF warm[i].aborted THEN warm[i].done + 1 ELSE warm[i].done
        /\ warm' = [warm EXCEPT ![i].queue = q, ![i].flying = f, ![i].done = d]
  <2>1. /\ warm[i].queue \ {a} \in SUBSET WarmAssets
        /\ (IF warm[i].aborted THEN warm[i].flying ELSE warm[i].flying \cup {a}) \in SUBSET WarmAssets
        /\ (IF warm[i].aborted THEN warm[i].done + 1 ELSE warm[i].done) \in Nat
    BY <1>1, <1>2
  <2> QED BY <1>1, <2>1 DEF WarmInv
<1> DEFINE new == [warm[i] EXCEPT !.queue = q, !.flying = f, !.done = d]
<1>4. /\ new \in WarmRecord /\ new.pc = warm[i].pc /\ new.state = warm[i].state
      /\ new.queue = q /\ new.flying = f /\ new.done = d /\ new.aborted = warm[i].aborted
      /\ new.good = warm[i].good /\ new.total = warm[i].total /\ new.summary = warm[i].summary
  BY <1>0 DEF WarmRecord
<1>5. warm' = [warm EXCEPT ![i] = new]
  BY <1>3 DEF WarmInv
<1> HIDE DEF new
<1>6. /\ Cardinality(q) \in Nat /\ Cardinality(warm[i].queue) = Cardinality(q) + 1
      /\ Cardinality(f) \in Nat /\ Cardinality(warm[i].flying) \in Nat
      /\ Cardinality(f) <= Concurrency
      /\ d + Cardinality(f) = warm[i].done + Cardinality(warm[i].flying) + 1
  <2>1. /\ IsFiniteSet(q) /\ Cardinality(q) \in Nat /\ IsFiniteSet(warm[i].flying)
        /\ Cardinality(warm[i].flying) \in Nat /\ IsFiniteSet(warm[i].queue)
    BY <1>2, WarmSets
  <2>2. a \notin q /\ warm[i].queue = q \cup {a}
    BY <1>3
  <2>3. Cardinality(warm[i].queue) = Cardinality(q) + 1
    BY <2>1, <2>2, FS_AddElement
  <2>4. CASE warm[i].aborted
    BY <1>0, <1>2, <1>3, <2>1, <2>3, <2>4
  <2>5. CASE ~warm[i].aborted
    <3>1. f = warm[i].flying \cup {a} /\ d = warm[i].done
      BY <1>3, <2>5
    <3>2. a \notin warm[i].flying
      BY <1>0, <1>1 DEF WarmOk
    <3>3. Cardinality(f) = Cardinality(warm[i].flying) + 1
      BY <2>1, <3>1, <3>2, FS_AddElement
    <3> QED BY <1>0, <1>2, <2>1, <2>3, <3>1, <3>3
  <2> QED BY <2>4, <2>5
<1>7. WarmOk(new)
  <2>1. warm[i].pc \notin {"lock", "collect"} /\ (warm[i].state = "completed" => warm[i].aborted)
    BY <1>0, <1>1 DEF WarmOk
  <2>2. q \cap f = {}
    BY <1>0, <1>1, <1>3 DEF WarmOk
  <2>3. d + Cardinality(f) + Cardinality(q) = new.total
    <3>1. /\ warm[i].done + Cardinality(warm[i].flying) + Cardinality(warm[i].queue) = warm[i].total
          /\ new.total = warm[i].total
      BY <1>0, <1>4 DEF WarmOk
    <3> QED BY <1>2, <1>6, <3>1
  <2>4. warm[i].pc \in {"collect", "pool"} <=> warm[i].state = "running"
    BY <1>0 DEF WarmOk
  <2> QED BY <1>4, <1>6, <2>1, <2>2, <2>3, <2>4 DEF WarmOk
<1>8. WarmTo(i, new)
  BY <1>4, <1>5 DEF WarmTo
<1> QED BY <1>0, <1>4, <1>7, <1>8, PoolStepKeeps

LEMMA FetchEndsKeeps == ASSUME WarmInv, NEW i \in Instance, FetchEnds(i) PROVE WarmInv'
<1>0. /\ warm[i] \in WarmRecord /\ WarmOk(warm[i]) /\ UNCHANGED <<warmLock, unguarded, late>>
      /\ Concurrency \in Nat
  BY WarmConfig DEF WarmInv, FetchEnds
<1>1. PICK a \in warm[i].flying, n \in {0, 1} :
        warm' = [warm EXCEPT ![i].flying = @ \ {a}, ![i].done = @ + 1, ![i].good = @ + n]
  BY DEF FetchEnds
<1>2. /\ warm[i].queue \in SUBSET WarmAssets /\ warm[i].flying \in SUBSET WarmAssets /\ warm[i].done \in Nat
      /\ warm[i].total \in Nat /\ warm[i].good \in Nat
  BY <1>0, WarmIs
<1>3. PICK f \in SUBSET WarmAssets, d \in Nat, g \in Nat :
        /\ f = warm[i].flying \ {a} /\ d = warm[i].done + 1
        /\ warm' = [warm EXCEPT ![i].flying = f, ![i].done = d, ![i].good = g]
  <2>1. /\ warm[i].flying \ {a} \in SUBSET WarmAssets
        /\ warm[i].done + 1 \in Nat /\ warm[i].good + n \in Nat
    BY <1>1, <1>2
  <2> QED BY <1>1, <2>1 DEF WarmInv
<1> DEFINE new == [warm[i] EXCEPT !.flying = f, !.done = d, !.good = g]
<1>4. /\ new \in WarmRecord /\ new.pc = warm[i].pc /\ new.state = warm[i].state
      /\ new.queue = warm[i].queue /\ new.flying = f /\ new.done = d /\ new.aborted = warm[i].aborted
      /\ new.total = warm[i].total
  BY <1>0 DEF WarmRecord
<1>5. warm' = [warm EXCEPT ![i] = new]
  BY <1>3 DEF WarmInv
<1> HIDE DEF new
<1>6. /\ Cardinality(f) \in Nat /\ Cardinality(warm[i].flying) = Cardinality(f) + 1
      /\ Cardinality(warm[i].queue) \in Nat
  <2>1. IsFiniteSet(f) /\ Cardinality(f) \in Nat /\ Cardinality(warm[i].queue) \in Nat
    BY <1>2, WarmSets
  <2>2. a \notin f /\ warm[i].flying = f \cup {a}
    BY <1>3
  <2> QED BY <2>1, <2>2, FS_AddElement
<1>7. WarmOk(new)
  <2>1. warm[i].pc \notin {"lock", "collect"} /\ (warm[i].state = "completed" => warm[i].aborted)
    BY <1>0, <1>1 DEF WarmOk
  <2>2. warm[i].queue \cap f = {}
    BY <1>0, <1>3 DEF WarmOk
  <2>3. /\ d + Cardinality(f) + Cardinality(warm[i].queue) = new.total
        /\ Cardinality(f) <= Concurrency
    <3>1. /\ warm[i].done + Cardinality(warm[i].flying) + Cardinality(warm[i].queue) = warm[i].total
          /\ new.total = warm[i].total /\ Cardinality(warm[i].flying) <= Concurrency
      BY <1>0, <1>4 DEF WarmOk
    <3> QED BY <1>0, <1>2, <1>3, <1>6, <3>1
  <2>4. warm[i].pc \in {"collect", "pool"} <=> warm[i].state = "running"
    BY <1>0 DEF WarmOk
  <2> QED BY <1>4, <2>1, <2>2, <2>3, <2>4 DEF WarmOk
<1>8. WarmTo(i, new)
  BY <1>4, <1>5 DEF WarmTo
<1> QED BY <1>0, <1>4, <1>7, <1>8, PoolStepKeeps

\* The pool is through, or the timeout cuts it off.
LEMMA PoolThroughKeeps ==
  ASSUME WarmInv, NEW i \in Instance, warm[i].pc = "pool", NEW b \in BOOLEAN, NEW s \in Nat,
         warm' = [warm EXCEPT ![i].pc = "get", ![i].state = "completed", ![i].aborted = b,
                              ![i].summary = s],
         b \/ (warm[i].queue = {} /\ warm[i].flying = {} /\ s = warm[i].good),
         UNCHANGED <<warmLock, unguarded, late>>
  PROVE  WarmInv'
<1>0. warm[i] \in WarmRecord /\ WarmOk(warm[i])
  BY DEF WarmInv
<1> DEFINE new == [warm[i] EXCEPT !.pc = "get", !.state = "completed", !.aborted = b, !.summary = s]
<1>1. /\ new \in WarmRecord /\ new.pc = "get" /\ new.state = "completed" /\ new.aborted = b
      /\ new.queue = warm[i].queue /\ new.flying = warm[i].flying /\ new.done = warm[i].done
      /\ new.good = warm[i].good /\ new.total = warm[i].total /\ new.summary = s
  BY <1>0 DEF WarmRecord, WarmPlaces, WarmStates
<1>2. warm' = [warm EXCEPT ![i] = new]
  BY DEF WarmInv
<1> HIDE DEF new
<1>3. WarmOk(new)
  BY <1>0, <1>1 DEF WarmOk
<1>4. WarmTo(i, new)
  BY <1>1, <1>2 DEF WarmTo
<1> QED BY <1>1, <1>3, <1>4, PoolStepKeeps

LEMMA PoolEndsKeeps == ASSUME WarmInv, NEW i \in Instance, PoolEnds(i) PROVE WarmInv'
<1>0. warm[i] \in WarmRecord /\ warm[i].good \in Nat /\ warm[i].aborted \in BOOLEAN
  BY WarmIs DEF WarmInv
<1>1. warm' = [warm EXCEPT ![i].pc = "get", ![i].state = "completed", ![i].aborted = warm[i].aborted,
                           ![i].summary = warm[i].good]
  <2>1. [warm[i] EXCEPT !.pc = "get", !.state = "completed", !.aborted = warm[i].aborted,
                        !.summary = warm[i].good]
          = [warm[i] EXCEPT !.pc = "get", !.state = "completed", !.summary = warm[i].good]
    BY <1>0 DEF WarmRecord
  <2>2. warm \in [Instance -> WarmRecord]
    BY DEF WarmInv
  <2> QED BY <2>1, <2>2 DEF PoolEnds
<1> QED BY <1>0, <1>1, PoolThroughKeeps DEF PoolEnds

LEMMA WarmTimesOutKeeps == ASSUME WarmInv, NEW i \in Instance, WarmTimesOut(i) PROVE WarmInv'
BY PoolThroughKeeps DEF WarmTimesOut

\* A step that only moves instance i on, past the pool.
LEMMA ReleaseMoves ==
  ASSUME WarmInv, NEW i \in Instance, warm[i].pc \in {"get", "del"}, NEW p \in {"del", "done"},
         warm' = [warm EXCEPT ![i].pc = p]
  PROVE  \E new \in WarmRecord :
           /\ WarmTo(i, new) /\ WarmOk(new) /\ new.pc = p /\ new.state = warm[i].state
           /\ new.state # "running"
<1>0. warm[i] \in WarmRecord /\ WarmOk(warm[i]) /\ p \in WarmPlaces
  BY DEF WarmInv, WarmPlaces
<1> DEFINE new == [warm[i] EXCEPT !.pc = p]
<1>1. /\ new \in WarmRecord /\ new.pc = p /\ new.state = warm[i].state /\ new.aborted = warm[i].aborted
      /\ new.queue = warm[i].queue /\ new.flying = warm[i].flying /\ new.done = warm[i].done
      /\ new.good = warm[i].good /\ new.total = warm[i].total /\ new.summary = warm[i].summary
  BY <1>0 DEF WarmRecord
<1>2. warm' = [warm EXCEPT ![i] = new]
  BY DEF WarmInv
<1> HIDE DEF new
<1>3. WarmOk(new) /\ new.state # "running"
  BY <1>0, <1>1 DEF WarmOk
<1> QED BY <1>1, <1>2, <1>3 DEF WarmTo

LEMMA LockGetKeeps == ASSUME WarmInv, NEW i \in Instance, WarmLockGet(i) PROVE WarmInv'
<1>1. PICK p \in {"del", "done"} : warm' = [warm EXCEPT ![i].pc = p] /\ (p = "del" => warmLock = i)
  BY DEF WarmLockGet
<1>2. warm[i].pc = "get" /\ UNCHANGED <<warmLock, unguarded, late>>
  BY DEF WarmLockGet
<1>3. PICK new \in WarmRecord : /\ WarmTo(i, new) /\ WarmOk(new) /\ new.pc = p
                                /\ new.state # "running"
  BY <1>1, <1>2, ReleaseMoves
<1> QED BY <1>1, <1>2, <1>3, PoolStepKeeps

LEMMA LockDelKeeps == ASSUME WarmInv, NEW i \in Instance, WarmLockDel(i) PROVE WarmInv'
<1>0. warm[i].pc = "del" /\ warm' = [warm EXCEPT ![i].pc = "done"] /\ warmLock' \in {warmLock, Nobody}
  BY DEF WarmLockDel
<1>1. PICK new \in WarmRecord : /\ WarmTo(i, new) /\ WarmOk(new) /\ new.pc = "done"
                                /\ new.state # "running"
  BY <1>0, ReleaseMoves
<1>2. /\ warm' \in [Instance -> WarmRecord] /\ warm'[i] = new
      /\ \A j \in Instance \ {i} : warm'[j] = warm[j]
  BY <1>1, WarmMoves
<1>3. unguarded \subseteq unguarded' /\ late \subseteq late'
  BY DEF WarmLockDel
<1>4. ASSUME NEW j \in Instance, j # i, warmLock = j
      PROVE  warmLock' = j \/ (j \in unguarded' /\ j \in late')
  <2>1. i \in late
    BY <1>0, <1>4 DEF WarmInv, LockOk
  <2> QED BY <1>4, <2>1 DEF WarmLockDel
<1>5. LockOk(i)'
  BY <1>1, <1>2 DEF LockOk
<1>6. \A j \in Instance \ {i} : LockOk(j)'
  BY <1>2, <1>3, <1>4 DEF WarmInv, LockOk
<1>7. \A j \in Instance : WarmOk(warm'[j])
  BY <1>1, <1>2 DEF WarmInv
<1> QED BY <1>2, <1>5, <1>6, <1>7 DEF WarmInv

LEMMA LockExpiresKeeps == ASSUME WarmInv, WarmLockExpires PROVE WarmInv'
<1>1. \A j \in Instance : LockOk(j)'
  BY DEF WarmInv, LockOk, WarmLockExpires
<1> QED BY <1>1 DEF WarmInv, WarmLockExpires

LEMMA WarmStepInv == ASSUME WarmInv, [WarmNext]_warmVars PROVE WarmInv'
<1>1. ASSUME NEW i \in Instance,
             \/ TakeWarmLock(i) \/ CollectAssets(i) \/ StartFetch(i) \/ FetchEnds(i) \/ PoolEnds(i)
             \/ WarmTimesOut(i) \/ WarmLockGet(i) \/ WarmLockDel(i)
      PROVE  WarmInv'
  BY <1>1, TakeKeeps, CollectKeeps, StartFetchKeeps, FetchEndsKeeps, PoolEndsKeeps, WarmTimesOutKeeps,
     LockGetKeeps, LockDelKeeps
<1>2. CASE WarmLockExpires
  BY <1>2, LockExpiresKeeps
<1>3. CASE UNCHANGED warmVars
  BY <1>3 DEF warmVars, WarmInv, LockOk
<1> QED BY <1>1, <1>2, <1>3 DEF WarmNext

LEMMA WarmInvSafe == WarmInv => WarmUpSafe
<1> SUFFICES ASSUME WarmInv PROVE WarmUpSafe
  OBVIOUS
<1>1. WarmsAlone
  BY DEF WarmInv, LockOk, WarmsAlone
<1>2. ASSUME NEW i \in Instance
      PROVE  /\ Cardinality(warm[i].flying) <= Concurrency
             /\ warm[i].done + Cardinality(warm[i].flying) + Cardinality(warm[i].queue) = warm[i].total
             /\ warm[i].state = "completed" /\ ~warm[i].aborted
                  => warm[i].done = warm[i].total /\ warm[i].summary = warm[i].good
  <2>1. warm[i] \in WarmRecord /\ WarmOk(warm[i]) /\ warm[i].done \in Nat
    BY WarmIs DEF WarmInv
  <2> QED BY <2>1, FS_EmptySet DEF WarmOk
<1> QED BY <1>1, <1>2 DEF WarmUpSafe, PoolBounded

\* The warm-up of the price cache, for any number of replicas and assets: who warms
\* holds the lock unless it was lost, the pool keeps to its width after the timeout
\* too, and a summary given in time accounts for every asset.
THEOREM WarmUpsSafe == WarmSpec => []WarmUpSafe
<1>1. WarmInit => WarmInv
  BY WarmInitInv
<1>2. WarmInv /\ [WarmNext]_warmVars => WarmInv'
  BY WarmStepInv
<1>3. WarmInv => WarmUpSafe
  BY WarmInvSafe
<1> QED BY <1>1, <1>2, <1>3, PTL DEF WarmSpec

-----------------------------------------------------------------------------
(* JobQueue (background jobs)                                              *)

QueueSpec == QueueInit /\ [][QueueNext]_queueVars

RawJobs == [job : Job, attempts : Nat]
PollRecord == [pc : {"idle", "pop", "run", "rem"}, raw : [job : Job \cup {NoJob}, attempts : Nat]]

Elems(q) == {q[i] : i \in DOMAIN q}
Distinct(q) == \A i, k \in DOMAIN q : q[i].job = q[k].job => i = k
RunPolls == {p \in Poll : poll[p].pc = "run"}

QueueTypes ==
  /\ queue \in Seq(RawJobs) /\ waiting \in SUBSET RawJobs
  /\ poll \in [Poll -> PollRecord]
  /\ accepted \in SUBSET Job /\ settled \in SUBSET accepted /\ ran \in [Job -> Nat]

\* A job that still has a place: accepted, not settled, with a run left.
Live(x) ==
  /\ x \in RawJobs /\ x.job \in accepted \ settled
  /\ x.attempts = ran[x.job] /\ x.attempts < MaxJobRetries

JobsLive ==
  /\ \A x \in Elems(queue) : Live(x)
  /\ \A w \in waiting : Live(w)
  /\ \A p \in RunPolls : Live(poll[p].raw)

\* No job has two places.
JobsApart ==
  /\ Distinct(queue)
  /\ \A w, x \in waiting : w.job = x.job => w = x
  /\ \A p, q \in RunPolls : poll[p].raw.job = poll[q].raw.job => p = q
  /\ \A x \in Elems(queue), w \in waiting : x.job # w.job
  /\ \A x \in Elems(queue), p \in RunPolls : x.job # poll[p].raw.job
  /\ \A w \in waiting, p \in RunPolls : w.job # poll[p].raw.job

JobsCounted ==
  /\ activeJobs = Cardinality(RunPolls)
  /\ \A j \in Job : ran[j] <= MaxJobRetries /\ (j \notin accepted => ran[j] = 0)

\* No accepted job has lost its place but by a fault.
JobsPlaced ==
  \A j \in accepted :
    \/ j \in settled \/ j \in mislaid
    \/ \E x \in Elems(queue) : x.job = j
    \/ \E w \in waiting : w.job = j
    \/ \E p \in RunPolls : poll[p].raw.job = j

QueueInv == QueueTypes /\ JobsLive /\ JobsApart /\ JobsCounted /\ JobsPlaced

-----------------------------------------------------------------------------

LEMMA PushCells ==
  ASSUME NEW q \in Seq(RawJobs), NEW r \in RawJobs, Distinct(q), \A x \in Elems(q) : x.job # r.job
  PROVE  /\ Append(q, r) \in Seq(RawJobs)
         /\ Elems(Append(q, r)) = Elems(q) \cup {r}
         /\ Distinct(Append(q, r))
<1>0. Len(q) \in Nat /\ DOMAIN q = 1..Len(q)
  BY LenProperties
<1>1. PICK s \in Seq(RawJobs), n \in Nat : s = Append(q, r) /\ n = Len(q)
  BY <1>0, AppendProperties
<1>2. /\ DOMAIN s = 1..(n + 1) /\ DOMAIN q = 1..n
      /\ \A i \in 1..n : s[i] = q[i]
      /\ s[n + 1] = r
  BY <1>0, <1>1, AppendProperties, LenProperties
<1>3. \A i \in 1..(n + 1) : i \in 1..n \/ i = n + 1
  OBVIOUS
<1>4. n + 1 \in 1..(n + 1) /\ 1..n \subseteq 1..(n + 1)
  OBVIOUS
<1>5. Elems(s) = Elems(q) \cup {r}
  BY <1>2, <1>3, <1>4, Zenon DEF Elems
<1>6. \A i \in 1..n : q[i].job # r.job
  BY <1>2 DEF Elems
<1>7. Distinct(s)
  BY <1>2, <1>3, <1>6, Zenon DEF Distinct
<1> QED BY <1>1, <1>5, <1>7, Zenon

LEMMA PopCells ==
  ASSUME NEW q \in Seq(RawJobs), q # <<>>, Distinct(q)
  PROVE  /\ Tail(q) \in Seq(RawJobs) /\ Head(q) \in RawJobs
         /\ Elems(q) = {Head(q)} \cup Elems(Tail(q))
         /\ \A x \in Elems(Tail(q)) : x.job # Head(q).job
         /\ Distinct(Tail(q))
<1>0. /\ Len(q) \in Nat \ {0} /\ DOMAIN q = 1..Len(q) /\ Head(q) = q[1] /\ Head(q) \in RawJobs
      /\ Tail(q) \in Seq(RawJobs) /\ Len(Tail(q)) = Len(q) - 1
      /\ \A i \in 1..Len(Tail(q)) : Tail(q)[i] = q[i + 1]
  <2>1. Head(q) = q[1]
    OBVIOUS
  <2>2. Len(q) \in Nat \ {0} /\ DOMAIN q = 1..Len(q)
    BY LenProperties, EmptySeq
  <2> QED BY <2>1, <2>2, HeadTailProperties
<1>1. PICK t \in Seq(RawJobs), n \in Nat : t = Tail(q) /\ n = Len(q) - 1
  <2>1. Len(q) - 1 \in Nat
    <3>1. PICK k \in Nat \ {0} : k = Len(q)
      BY <1>0
    <3> QED BY <3>1
  <2> QED BY <1>0, <2>1
<1>2. DOMAIN t = 1..n /\ DOMAIN q = 1..(n + 1) /\ \A i \in 1..n : t[i] = q[i + 1]
  <2>1. DOMAIN t = 1..Len(t)
    BY LenProperties
  <2> QED BY <1>0, <1>1, <2>1
<1>3. PICK h \in RawJobs : h = Head(q) /\ h = q[1]
  BY <1>0
<1>4. \A i \in 1..(n + 1) : i = 1 \/ \E k \in 1..n : i = k + 1
  <2> SUFFICES ASSUME NEW i \in 1..(n + 1), i # 1 PROVE \E k \in 1..n : i = k + 1
    OBVIOUS
  <2>1. i - 1 \in 1..n /\ i = (i - 1) + 1
    OBVIOUS
  <2> QED BY <2>1
<1>5. \A k \in 1..n : k + 1 \in 1..(n + 1) /\ k + 1 # 1
  OBVIOUS
<1>6. 1 \in 1..(n + 1)
  OBVIOUS
<1>7. Elems(q) = {h} \cup Elems(t)
  <2>1. \A i \in 1..(n + 1) : q[i] = h \/ \E k \in 1..n : q[i] = t[k]
    BY <1>2, <1>3, <1>4
  <2>2. \A k \in 1..n : \E i \in 1..(n + 1) : q[i] = t[k]
    BY <1>2, <1>5
  <2>3. \E i \in 1..(n + 1) : q[i] = h
    BY <1>3, <1>6
  <2>4. \A x : x \in Elems(q) <=> x = h \/ x \in Elems(t)
    <3>1. \A x : x \in Elems(q) <=> \E i \in 1..(n + 1) : x = q[i]
      BY <1>2 DEF Elems
    <3>2. \A x : x \in Elems(t) <=> \E k \in 1..n : x = t[k]
      BY <1>2 DEF Elems
    <3> QED BY <2>1, <2>2, <2>3, <3>1, <3>2, Zenon
  <2> QED BY <2>4, Zenon
<1>8. \A x \in Elems(t) : x.job # h.job
  BY <1>2, <1>3, <1>5, <1>6 DEF Elems, Distinct
<1>9. Distinct(t)
  BY <1>2, <1>5 DEF Distinct
<1> QED BY <1>1, <1>3, <1>7, <1>8, <1>9, Zenon

\* One run of _processNext moves on, to new.
PollTo(p, new) == new \in PollRecord /\ poll' = [poll EXCEPT ![p] = new]

LEMMA PollMoves ==
  ASSUME QueueTypes, NEW p \in Poll, NEW new, PollTo(p, new)
  PROVE  /\ poll' \in [Poll -> PollRecord] /\ poll'[p] = new
         /\ \A q \in Poll \ {p} : poll'[q] = poll[q]
         /\ new.pc = "run" => RunPolls' = RunPolls \cup {p}
         /\ new.pc # "run" => RunPolls' = RunPolls \ {p}
<1>1. /\ poll' \in [Poll -> PollRecord] /\ poll'[p] = new
      /\ \A q \in Poll \ {p} : poll'[q] = poll[q]
  BY DEF QueueTypes, PollTo
<1>2. new.pc = "run" => RunPolls' = RunPolls \cup {p}
  BY <1>1 DEF RunPolls
<1>3. new.pc # "run" => RunPolls' = RunPolls \ {p}
  BY <1>1 DEF RunPolls
<1> QED BY <1>1, <1>2, <1>3

LEMMA NoPollIs == NoPoll \in PollRecord /\ NoPoll.pc = "idle"
BY DEF NoPoll, PollRecord, Raw

LEMMA RunPollsFinite == IsFiniteSet(RunPolls) /\ Cardinality(RunPolls) \in Nat
<1>1. IsFiniteSet(RunPolls)
  BY JobQueueConfig, FS_Subset DEF RunPolls
<1> QED BY <1>1, FS_CardinalityType

LEMMA QueueInitInv == QueueInit => QueueInv
<1> SUFFICES ASSUME QueueInit PROVE QueueInv
  OBVIOUS
<1>1. RunPolls = {} /\ Elems(queue) = {} /\ waiting = {} /\ accepted = {}
  BY NoPollIs DEF QueueInit, RunPolls, Elems
<1>2. QueueTypes
  <2>1. <<>> \in Seq(RawJobs)
    OBVIOUS
  <2> QED BY <2>1, NoPollIs DEF QueueInit, QueueTypes
<1>3. JobsLive /\ JobsPlaced
  BY <1>1 DEF JobsLive, JobsPlaced
<1>4. JobsApart
  <2>1. Distinct(queue)
    BY DEF QueueInit, Distinct
  <2> QED BY <1>1, <2>1 DEF JobsApart
<1>5. JobsCounted
  BY <1>1, FS_EmptySet, JobQueueConfig DEF JobsCounted, QueueInit
<1> QED BY <1>2, <1>3, <1>4, <1>5 DEF QueueInv

\* A step after which there is no more of anything, and what went is accounted for.
LEMMA FewerKeeps ==
  ASSUME QueueInv, UNCHANGED <<accepted, settled, ran>>,
         queue' \in Seq(RawJobs), poll' \in [Poll -> PollRecord],
         Elems(queue') \subseteq Elems(queue), Distinct(queue'), waiting' \subseteq waiting,
         RunPolls' \subseteq RunPolls, \A p \in RunPolls' : poll'[p] = poll[p],
         activeJobs' = Cardinality(RunPolls'), mislaid \subseteq mislaid',
         \A x \in Elems(queue) : x \in Elems(queue') \/ x.job \in mislaid',
         \A w \in waiting : w \in waiting' \/ w.job \in mislaid',
         \A p \in RunPolls : p \in RunPolls' \/ poll[p].raw.job \in mislaid'
  PROVE  QueueInv'
<1>0. Elems(queue)' = Elems(queue') /\ (Distinct(queue)' <=> Distinct(queue'))
  BY DEF Elems, Distinct
<1>1. QueueTypes'
  BY DEF QueueInv, QueueTypes
<1>2. \A x \in RawJobs : Live(x) => Live(x)'
  BY DEF Live
<1>3. JobsLive'
  <2>1. \A x \in Elems(queue) \cup waiting : Live(x)
    BY DEF QueueInv, JobsLive
  <2>2. \A x : Live(x) => x \in RawJobs
    BY DEF Live
  <2>3. \A p \in RunPolls : Live(poll[p].raw)
    BY DEF QueueInv, JobsLive
  <2> QED BY <1>0, <1>2, <2>1, <2>2, <2>3 DEF JobsLive
<1>4. JobsApart'
  BY <1>0 DEF QueueInv, JobsApart
<1>5. JobsCounted'
  BY DEF QueueInv, JobsCounted
<1>6. JobsPlaced'
  <2> SUFFICES ASSUME NEW j \in accepted
               PROVE  \/ j \in settled \/ j \in mislaid'
                      \/ \E x \in Elems(queue') : x.job = j
                      \/ \E w \in waiting' : w.job = j
                      \/ \E p \in RunPolls' : poll'[p].raw.job = j
    BY <1>0 DEF JobsPlaced
  <2>1. \/ j \in settled \/ j \in mislaid
        \/ \E x \in Elems(queue) : x.job = j
        \/ \E w \in waiting : w.job = j
        \/ \E p \in RunPolls : poll[p].raw.job = j
    BY DEF QueueInv, JobsPlaced
  <2> QED BY <2>1
<1> QED BY <1>1, <1>3, <1>4, <1>5, <1>6 DEF QueueInv

\* A poll that does not run moves to where it does not run either.
LEMMA QuietPollKeeps ==
  ASSUME QueueInv, NEW p \in Poll, NEW new, PollTo(p, new), poll[p].pc # "run", new.pc # "run",
         UNCHANGED <<queue, waiting, activeJobs, accepted, settled, ran>>, mislaid \subseteq mislaid'
  PROVE  QueueInv'
<1>1. /\ poll' \in [Poll -> PollRecord] /\ RunPolls' = RunPolls \ {p}
      /\ \A q \in Poll \ {p} : poll'[q] = poll[q]
  BY PollMoves DEF QueueInv
<1>2. RunPolls' = RunPolls /\ \A q \in RunPolls' : poll'[q] = poll[q]
  BY <1>1 DEF RunPolls
<1>3. queue' \in Seq(RawJobs) /\ Distinct(queue') /\ Elems(queue') = Elems(queue)
  BY DEF QueueInv, QueueTypes, JobsApart
<1>4. activeJobs' = Cardinality(RunPolls')
  BY <1>2 DEF QueueInv, JobsCounted
<1> QED BY <1>1, <1>2, <1>3, <1>4, FewerKeeps

LEMMA EnqueueKeeps == ASSUME QueueInv, NEW j \in Job, Enqueue(j) PROVE QueueInv'
<1> DEFINE r == Raw(j, 0)
<1>0. /\ r \in RawJobs /\ r.job = j /\ r.attempts = 0 /\ j \notin accepted
      /\ queue' = Append(queue, r) /\ accepted' = accepted \cup {j}
      /\ UNCHANGED <<poll, activeJobs, waiting, settled, ran, mislaid>>
  BY DEF Raw, RawJobs, Enqueue
<1> HIDE DEF r
<1>1. /\ \A x \in Elems(queue) : x.job # j
      /\ \A w \in waiting : w.job # j
      /\ \A p \in RunPolls : poll[p].raw.job # j
  BY <1>0 DEF QueueInv, JobsLive, Live
<1>2. queue \in Seq(RawJobs) /\ Distinct(queue)
  BY DEF QueueInv, QueueTypes, JobsApart
<1>3. queue' \in Seq(RawJobs) /\ Elems(queue') = Elems(queue) \cup {r} /\ Distinct(queue')
  BY <1>0, <1>1, <1>2, PushCells
<1>4. Elems(queue)' = Elems(queue') /\ (Distinct(queue)' <=> Distinct(queue')) /\ RunPolls' = RunPolls
  BY <1>0 DEF Elems, Distinct, RunPolls
<1>5. QueueTypes'
  BY <1>0, <1>3 DEF QueueInv, QueueTypes
<1>6. settled' = settled
  BY <1>0
<1>7. JobsLive'
  <2>1. \A x : Live(x) => Live(x)'
    BY <1>0 DEF Live
  <2>2. Live(r)'
    <3>1. ran[j] = 0 /\ j \notin settled
      BY <1>0 DEF QueueInv, JobsCounted, QueueTypes
    <3> QED BY <1>0, <3>1, JobQueueConfig DEF Live
  <2> QED BY <1>0, <1>3, <1>4, <2>1, <2>2 DEF QueueInv, JobsLive
<1>8. JobsApart'
  BY <1>0, <1>1, <1>3, <1>4 DEF QueueInv, JobsApart
<1>9. JobsCounted'
  BY <1>0, <1>4 DEF QueueInv, JobsCounted
<1>10. JobsPlaced'
  BY <1>0, <1>3, <1>4 DEF QueueInv, JobsPlaced
<1> QED BY <1>5, <1>7, <1>8, <1>9, <1>10 DEF QueueInv

LEMMA BeginsKeeps == ASSUME QueueInv, NEW p \in Poll, PollBegins(p) PROVE QueueInv'
<1> DEFINE new == [poll[p] EXCEPT !.pc = "pop"]
<1>0. poll[p] \in PollRecord
  BY DEF QueueInv, QueueTypes
<1>1. new \in PollRecord /\ new.pc = "pop"
  BY <1>0 DEF PollRecord
<1>2. poll' = [poll EXCEPT ![p] = new]
  BY DEF PollBegins, QueueInv, QueueTypes
<1> HIDE DEF new
<1> QED BY <1>1, <1>2, QuietPollKeeps DEF PollTo, PollBegins

LEMMA PopKeeps == ASSUME QueueInv, NEW p \in Poll, Pop(p) PROVE QueueInv'
<1>0. /\ poll[p].pc = "pop" /\ UNCHANGED <<waiting, accepted, settled, ran, mislaid>>
      /\ queue \in Seq(RawJobs) /\ Distinct(queue)
  BY DEF Pop, QueueInv, QueueTypes, JobsApart
<1>1. CASE queue = <<>>
  BY <1>0, <1>1, NoPollIs, QuietPollKeeps DEF Pop, PollTo
<1>2. CASE queue # <<>>
  <2>1. /\ queue' = Tail(queue) /\ activeJobs' = activeJobs + 1
        /\ poll' = [poll EXCEPT ![p] = [pc |-> "run", raw |-> Head(queue)]]
    BY <1>2 DEF Pop
  <2>2. /\ Tail(queue) \in Seq(RawJobs) /\ Head(queue) \in RawJobs
        /\ Elems(queue) = {Head(queue)} \cup Elems(Tail(queue))
        /\ \A x \in Elems(Tail(queue)) : x.job # Head(queue).job
        /\ Distinct(Tail(queue))
    BY <1>0, <1>2, PopCells
  <2>3. PICK h \in RawJobs : h = Head(queue)
    BY <2>2
  <2> DEFINE new == [pc |-> "run", raw |-> h]
  <2>4. new \in PollRecord /\ new.pc = "run" /\ new.raw = h
    BY DEF PollRecord, RawJobs
  <2>5. PollTo(p, new)
    BY <2>1, <2>3, <2>4 DEF PollTo
  <2> HIDE DEF new
  <2>6. /\ poll' \in [Poll -> PollRecord] /\ poll'[p] = new
        /\ \A q \in Poll \ {p} : poll'[q] = poll[q]
        /\ RunPolls' = RunPolls \cup {p}
    BY <2>4, <2>5, PollMoves DEF QueueInv
  <2>7. /\ Elems(queue)' = Elems(queue') /\ (Distinct(queue)' <=> Distinct(queue'))
        /\ queue' \in Seq(RawJobs) /\ Distinct(queue')
        /\ Elems(queue) = {h} \cup Elems(queue') /\ \A x \in Elems(queue') : x.job # h.job
    BY <2>1, <2>2, <2>3 DEF Elems, Distinct
  <2>8. p \notin RunPolls /\ RunPolls \subseteq Poll
    BY <1>0 DEF RunPolls
  <2>9. QueueTypes'
    BY <1>0, <2>6, <2>7 DEF QueueInv, QueueTypes
  <2>10. JobsLive'
    <3>1. \A x : Live(x) => Live(x)'
      BY <1>0 DEF Live
    <3>2. Live(h)
      BY <2>7 DEF QueueInv, JobsLive
    <3> QED BY <1>0, <2>4, <2>6, <2>7, <2>8, <3>1, <3>2 DEF QueueInv, JobsLive
  <2>11. JobsApart'
    <3>1. /\ \A w \in waiting : h.job # w.job
          /\ \A q \in RunPolls : h.job # poll[q].raw.job
      BY <2>7 DEF QueueInv, JobsApart
    <3>2. \A q \in RunPolls : poll'[q] = poll[q]
      BY <2>6, <2>8
    <3>3. /\ Distinct(queue)' /\ waiting' = waiting /\ Elems(queue)' \subseteq Elems(queue)
          /\ \A w, x \in waiting : w.job = x.job => w = x
          /\ \A q, r \in RunPolls : poll[q].raw.job = poll[r].raw.job => q = r
          /\ \A x \in Elems(queue), w \in waiting : x.job # w.job
          /\ \A x \in Elems(queue), q \in RunPolls : x.job # poll[q].raw.job
          /\ \A w \in waiting, q \in RunPolls : w.job # poll[q].raw.job
      BY <1>0, <2>7 DEF QueueInv, JobsApart
    <3>4. \A q, r \in RunPolls' : poll'[q].raw.job = poll'[r].raw.job => q = r
      BY <2>4, <2>6, <3>1, <3>2, <3>3
    <3>5. \A x \in Elems(queue)', q \in RunPolls' : x.job # poll'[q].raw.job
      BY <2>4, <2>6, <2>7, <3>2, <3>3
    <3>6. \A w \in waiting', q \in RunPolls' : w.job # poll'[q].raw.job
      BY <2>4, <2>6, <3>1, <3>2, <3>3
    <3> QED BY <3>3, <3>4, <3>5, <3>6 DEF JobsApart
  <2>12. JobsCounted'
    <3>1. Cardinality(RunPolls \cup {p}) = Cardinality(RunPolls) + 1
      BY <2>8, RunPollsFinite, FS_AddElement
    <3> QED BY <1>0, <2>1, <2>6, <3>1 DEF QueueInv, JobsCounted
  <2>13. JobsPlaced'
    <3> SUFFICES ASSUME NEW j \in accepted
                 PROVE  \/ j \in settled \/ j \in mislaid
                        \/ \E x \in Elems(queue)' : x.job = j
                        \/ \E w \in waiting : w.job = j
                        \/ \E q \in RunPolls' : poll'[q].raw.job = j
      BY <1>0 DEF JobsPlaced
    <3>1. \/ j \in settled \/ j \in mislaid
          \/ \E x \in Elems(queue) : x.job = j
          \/ \E w \in waiting : w.job = j
          \/ \E q \in RunPolls : poll[q].raw.job = j
      BY DEF QueueInv, JobsPlaced
    <3> QED BY <2>4, <2>6, <2>7, <2>8, <3>1
  <2> QED BY <2>9, <2>10, <2>11, <2>12, <2>13 DEF QueueInv
<1> QED BY <1>1, <1>2

LEMMA ExecuteKeeps == ASSUME QueueInv, NEW p \in Poll, Execute(p) PROVE QueueInv'
<1>0. /\ poll[p].pc = "run" /\ p \in RunPolls /\ poll[p] \in PollRecord /\ Live(poll[p].raw)
      /\ UNCHANGED <<queue, accepted, mislaid>>
      /\ activeJobs' = activeJobs - 1 /\ poll' = [poll EXCEPT ![p].pc = "rem"]
  BY DEF Execute, QueueInv, QueueTypes, JobsLive, RunPolls
<1>1. PICK h \in RawJobs : h = poll[p].raw /\ Live(h)
  BY <1>0 DEF Live
<1>2. PICK j \in Job, a \in Nat, n \in Nat :
        j = h.job /\ a = h.attempts /\ n = a + 1 /\ a = ran[j] /\ a < MaxJobRetries /\ j \in accepted
  BY <1>1 DEF Live, RawJobs
<1>3. /\ \/ settled' = settled \cup {j} /\ waiting' = waiting
         \/ n < MaxJobRetries /\ waiting' = waiting \cup {Raw(j, n)} /\ settled' = settled
      /\ ran' = [ran EXCEPT ![j] = @ + 1]
  BY <1>1, <1>2, Zenon DEF Execute
<1>4. ran \in [Job -> Nat] /\ ran' \in [Job -> Nat] /\ ran'[j] = n /\ \A k \in Job \ {j} : ran'[k] = ran[k]
  BY <1>2, <1>3 DEF QueueInv, QueueTypes
<1> DEFINE new == [poll[p] EXCEPT !.pc = "rem"]
<1>5. new \in PollRecord /\ new.pc = "rem"
  BY <1>0 DEF PollRecord
<1>6. PollTo(p, new)
  BY <1>0, <1>5 DEF PollTo, QueueInv, QueueTypes
<1> HIDE DEF new
<1>7. /\ poll' \in [Poll -> PollRecord] /\ RunPolls' = RunPolls \ {p}
      /\ \A q \in Poll \ {p} : poll'[q] = poll[q]
  BY <1>5, <1>6, PollMoves DEF QueueInv
<1>8. RunPolls \subseteq Poll /\ \A q \in RunPolls' : q # p /\ q \in RunPolls /\ poll'[q] = poll[q]
  BY <1>7 DEF RunPolls
\* Nobody else holds job j.
<1>9. /\ \A x \in Elems(queue) : x.job # j
      /\ \A w \in waiting : w.job # j
      /\ \A q \in RunPolls : poll[q].raw.job = j => q = p
  BY <1>0, <1>1, <1>2 DEF QueueInv, JobsApart
<1> DEFINE r == Raw(j, n)
<1>10. r \in RawJobs /\ r.job = j /\ r.attempts = n
  BY DEF Raw, RawJobs
<1>11. /\ settled' \subseteq settled \cup {j} /\ settled \subseteq settled'
       /\ waiting' \subseteq waiting \cup {r} /\ waiting \subseteq waiting'
       /\ r \in waiting' => n < MaxJobRetries /\ j \notin settled'
       /\ j \in settled' \/ r \in waiting'
  <2>1. j \notin settled /\ r \notin waiting
    BY <1>1, <1>2, <1>9, <1>10 DEF Live
  <2> QED BY <1>3, <2>1
<1> HIDE DEF r
<1>12. QueueTypes'
  BY <1>0, <1>2, <1>4, <1>7, <1>10, <1>11 DEF QueueInv, QueueTypes
<1>13. JobsLive'
  <2>1. \A x : Live(x) /\ x.job # j => Live(x)'
    <3> SUFFICES ASSUME NEW x, Live(x), x.job # j PROVE Live(x)'
      OBVIOUS
    <3>1. x \in RawJobs /\ x.job \in Job
      BY DEF Live, RawJobs
    <3> QED BY <1>0, <1>4, <1>11, <3>1 DEF Live
  <2>2. r \in waiting' => Live(r)'
    BY <1>0, <1>2, <1>4, <1>10, <1>11 DEF Live
  <2>3. \A x \in Elems(queue)' : Live(x)'
    <3>1. Elems(queue)' = Elems(queue)
      BY <1>0 DEF Elems
    <3> QED BY <1>9, <2>1, <3>1 DEF QueueInv, JobsLive
  <2>4. \A w \in waiting' : Live(w)'
    BY <1>9, <1>11, <2>1, <2>2 DEF QueueInv, JobsLive
  <2>5. ASSUME NEW q \in RunPolls' PROVE Live(poll[q].raw)'
    <3>1. Live(poll[q].raw) /\ poll[q].raw.job # j /\ poll'[q] = poll[q]
      BY <1>8, <1>9, <2>5 DEF QueueInv, JobsLive
    <3>2. PICK x \in RawJobs : x = poll[q].raw
      BY <3>1 DEF Live
    <3>3. Live(x)' /\ x = poll'[q].raw
      BY <2>1, <3>1, <3>2
    <3> QED BY <3>3 DEF Live
  <2> QED BY <2>3, <2>4, <2>5 DEF JobsLive
<1>14. JobsApart'
  <2>1. Elems(queue)' = Elems(queue) /\ (Distinct(queue)' <=> Distinct(queue))
    BY <1>0 DEF Elems, Distinct
  <2>2. /\ Distinct(queue)
        /\ \A w, x \in waiting : w.job = x.job => w = x
        /\ \A q, s \in RunPolls : poll[q].raw.job = poll[s].raw.job => q = s
        /\ \A x \in Elems(queue), w \in waiting : x.job # w.job
        /\ \A x \in Elems(queue), q \in RunPolls : x.job # poll[q].raw.job
        /\ \A w \in waiting, q \in RunPolls : w.job # poll[q].raw.job
    BY DEF QueueInv, JobsApart
  <2>3. \A w, x \in waiting' : w.job = x.job => w = x
    BY <1>9, <1>10, <1>11, <2>2
  <2>4. \A q, s \in RunPolls' : poll'[q].raw.job = poll'[s].raw.job => q = s
    BY <1>8, <2>2
  <2>5. \A x \in Elems(queue), w \in waiting' : x.job # w.job
    BY <1>9, <1>10, <1>11, <2>2
  <2>6. \A x \in Elems(queue), q \in RunPolls' : x.job # poll'[q].raw.job
    BY <1>8, <2>2
  <2>7. \A w \in waiting', q \in RunPolls' : w.job # poll'[q].raw.job
    BY <1>8, <1>9, <1>10, <1>11, <2>2
  <2> QED BY <2>1, <2>2, <2>3, <2>4, <2>5, <2>6, <2>7 DEF JobsApart
<1>15. JobsCounted'
  <2>1. activeJobs' = Cardinality(RunPolls')
    <3>1. Cardinality(RunPolls \ {p}) = Cardinality(RunPolls) - 1
      BY <1>0, RunPollsFinite, FS_RemoveElement
    <3> QED BY <1>0, <1>7, <3>1 DEF QueueInv, JobsCounted
  <2>2. n <= MaxJobRetries
    BY <1>2, JobQueueConfig
  <2> QED BY <1>0, <1>2, <1>4, <2>1, <2>2 DEF QueueInv, JobsCounted
<1>16. JobsPlaced'
  <2> SUFFICES ASSUME NEW k \in accepted
               PROVE  \/ k \in settled' \/ k \in mislaid
                      \/ \E x \in Elems(queue)' : x.job = k
                      \/ \E w \in waiting' : w.job = k
                      \/ \E q \in RunPolls' : poll'[q].raw.job = k
    BY <1>0 DEF JobsPlaced
  <2>1. \/ k \in settled \/ k \in mislaid
        \/ \E x \in Elems(queue) : x.job = k
        \/ \E w \in waiting : w.job = k
        \/ \E q \in RunPolls : poll[q].raw.job = k
    BY DEF QueueInv, JobsPlaced
  <2>2. Elems(queue)' = Elems(queue)
    BY <1>0 DEF Elems
  <2>3. \A q \in RunPolls : poll[q].raw.job # j => q \in RunPolls' /\ poll'[q] = poll[q]
    BY <1>1, <1>2, <1>7, <1>8
  <2> QED BY <1>10, <1>11, <2>1, <2>2, <2>3
<1> QED BY <1>12, <1>13, <1>14, <1>15, <1>16 DEF QueueInv

LEMMA RemoveKeeps == ASSUME QueueInv, NEW p \in Poll, RemoveProcessed(p) PROVE QueueInv'
BY NoPollIs, QuietPollKeeps DEF RemoveProcessed, PollTo

LEMMA RejectedKeeps == ASSUME QueueInv, NEW p \in Poll, CommandRejected(p) PROVE QueueInv'
<1>0. /\ poll[p].pc \in {"pop", "rem"} /\ PollTo(p, NoPoll)
      /\ UNCHANGED <<activeJobs, waiting, accepted, settled, ran>>
  BY NoPollIs DEF CommandRejected, PollTo
<1>1. CASE UNCHANGED <<queue, mislaid>>
  BY <1>0, <1>1, NoPollIs, QuietPollKeeps
<1>2. CASE queue # <<>> /\ queue' = Tail(queue) /\ mislaid' = mislaid \cup {Head(queue).job}
  <2>1. queue \in Seq(RawJobs) /\ Distinct(queue)
    BY DEF QueueInv, QueueTypes, JobsApart
  <2>2. /\ Tail(queue) \in Seq(RawJobs)
        /\ Elems(queue) = {Head(queue)} \cup Elems(Tail(queue)) /\ Distinct(Tail(queue))
    BY <1>2, <2>1, PopCells
  <2>3. /\ poll' \in [Poll -> PollRecord] /\ RunPolls' = RunPolls \ {p}
        /\ \A q \in Poll \ {p} : poll'[q] = poll[q]
    BY <1>0, NoPollIs, PollMoves DEF QueueInv
  <2>4. RunPolls' = RunPolls /\ \A q \in RunPolls' : poll'[q] = poll[q]
    BY <1>0, <2>3 DEF RunPolls
  <2>5. activeJobs' = Cardinality(RunPolls')
    BY <1>0, <2>4 DEF QueueInv, JobsCounted
  <2> QED BY <1>0, <1>2, <2>2, <2>3, <2>4, <2>5, FewerKeeps
<1> QED BY <1>1, <1>2 DEF CommandRejected

LEMMA RequeueKeeps == ASSUME QueueInv, Requeue PROVE QueueInv'
<1>0. PICK w \in waiting :
        /\ waiting' = waiting \ {w}
        /\ \/ queue' = Append(queue, w) /\ mislaid' = mislaid
           \/ mislaid' = mislaid \cup {w.job} /\ queue' = queue
  BY DEF Requeue
<1>1. /\ UNCHANGED <<poll, activeJobs, accepted, settled, ran>>
      /\ queue \in Seq(RawJobs) /\ Distinct(queue) /\ w \in RawJobs
      /\ poll' \in [Poll -> PollRecord] /\ RunPolls' = RunPolls
      /\ activeJobs' = Cardinality(RunPolls')
  BY DEF Requeue, QueueInv, QueueTypes, JobsApart, RunPolls, JobsCounted
<1>2. CASE mislaid' = mislaid \cup {w.job} /\ queue' = queue
  BY <1>0, <1>1, <1>2, FewerKeeps
<1>3. CASE queue' = Append(queue, w) /\ mislaid' = mislaid
  <2>1. \A x \in Elems(queue) : x.job # w.job
    BY DEF QueueInv, JobsApart
  <2>2. queue' \in Seq(RawJobs) /\ Elems(queue') = Elems(queue) \cup {w} /\ Distinct(queue')
    BY <1>1, <1>3, <2>1, PushCells
  <2>3. Elems(queue)' = Elems(queue') /\ (Distinct(queue)' <=> Distinct(queue'))
    BY DEF Elems, Distinct
  <2>4. QueueTypes'
    BY <1>0, <1>1, <2>2 DEF QueueInv, QueueTypes
  <2>5. JobsLive'
    <3>1. \A x : Live(x) => Live(x)'
      BY <1>1 DEF Live
    <3> QED BY <1>0, <1>1, <2>2, <2>3, <3>1 DEF QueueInv, JobsLive
  <2>6. JobsApart'
    BY <1>0, <1>1, <2>1, <2>2, <2>3 DEF QueueInv, JobsApart
  <2>7. JobsCounted'
    BY <1>1 DEF QueueInv, JobsCounted
  <2>8. JobsPlaced'
    BY <1>0, <1>1, <1>3, <2>2, <2>3 DEF QueueInv, JobsPlaced
  <2> QED BY <2>4, <2>5, <2>6, <2>7, <2>8 DEF QueueInv
<1> QED BY <1>0, <1>2, <1>3

LEMMA ExitKeeps == ASSUME QueueInv, Exit PROVE QueueInv'
<1>0. /\ UNCHANGED <<queue, accepted, settled, ran>> /\ waiting' = {} /\ activeJobs' = 0
      /\ poll' = [p \in Poll |-> NoPoll]
      /\ mislaid \subseteq mislaid' /\ \A w \in waiting : w.job \in mislaid'
      /\ \A p \in RunPolls : poll[p].raw.job \in mislaid'
  BY DEF Exit, RunPolls
<1>1. poll' \in [Poll -> PollRecord] /\ RunPolls' = {}
  BY <1>0, NoPollIs DEF RunPolls
<1>2. queue' \in Seq(RawJobs) /\ Distinct(queue') /\ Elems(queue') = Elems(queue)
  BY <1>0 DEF QueueInv, QueueTypes, JobsApart
<1>3. activeJobs' = Cardinality(RunPolls')
  BY <1>0, <1>1, FS_EmptySet
<1> QED BY <1>0, <1>1, <1>2, <1>3, FewerKeeps

\* A step that touches no job.
LEMMA QueueRests ==
  ASSUME QueueInv, UNCHANGED <<queue, poll, activeJobs, waiting, accepted, settled, ran, mislaid>>
  PROVE  QueueInv'
BY DEF QueueInv, QueueTypes, JobsLive, JobsApart, JobsCounted, JobsPlaced, Live, RunPolls, Elems, Distinct

LEMMA QueueStepInv == ASSUME QueueInv, [QueueNext]_queueVars PROVE QueueInv'
<1>1. ASSUME NEW p \in Poll,
             PollBegins(p) \/ Pop(p) \/ Execute(p) \/ RemoveProcessed(p) \/ CommandRejected(p)
      PROVE  QueueInv'
  BY <1>1, BeginsKeeps, PopKeeps, ExecuteKeeps, RemoveKeeps, RejectedKeeps
<1>2. CASE StopQueue \/ Restart \/ UNCHANGED queueVars
  BY <1>2, QueueRests DEF StopQueue, Restart, queueVars
<1> QED BY <1>1, <1>2, EnqueueKeeps, RequeueKeeps, ExitKeeps DEF QueueNext

\* services/jobQueue.js, for any number of jobs and overlapping polls: an accepted job
\* keeps its place until it is settled, unless a fault loses it; it runs in one poll
\* at a time, no more often than it may be retried, never after it was settled; and
\* activeJobs counts the runs.
THEOREM JobsAreSettled == QueueSpec => []JobsSettle
<1>1. QueueInit => QueueInv
  BY QueueInitInv
<1>2. QueueInv /\ [QueueNext]_queueVars => QueueInv'
  BY QueueStepInv
<1>3. QueueInv => JobsSettle
  <2> SUFFICES ASSUME QueueInv PROVE JobsSettle
    OBVIOUS
  <2>1. JobsKept
    BY DEF QueueInv, JobsPlaced, JobsKept, Queued, Running, Elems, RunPolls
  <2>2. Running \cap settled = {}
    BY DEF QueueInv, JobsLive, Live, Running, RunPolls
  <2>3. activeJobs = Cardinality({p \in Poll : poll[p].pc = "run"}) /\ \A j \in Job : ran[j] <= MaxJobRetries
    BY DEF QueueInv, JobsCounted, RunPolls
  <2>4. \A p, q \in Poll : poll[p].pc = "run" /\ poll[q].pc = "run" /\ p # q
                             => poll[p].raw.job # poll[q].raw.job
    BY DEF QueueInv, JobsApart, RunPolls
  <2> QED BY <2>1, <2>2, <2>3, <2>4 DEF JobsSettle, RunsBounded
<1> QED BY <1>1, <1>2, <1>3, PTL DEF QueueSpec

-----------------------------------------------------------------------------
(* Alerts (creation, removal and overlapping evaluations)                 *)

AlertsSpec == AlertsInit /\ [][AlertsNext]_alertVars

InHand == {"asset", "fire", "get", "del", "set", "cool"}
EvalRecord ==
  [pc : {"idle", "smembers", "next"} \cup InHand, price : {"low", "high"}, todo : SUBSET Alert,
   id : Alert \cup {NoAlert}, read : AlertRecord \cup {NoAlert}, silent : SUBSET Alert]

\* What an evaluation carries: the alert in hand and its record, and of the alerts
\* removed before it listed them only those that a backfill put back.
EvalOk(k) ==
  /\ k.pc \in InHand => k.id \in Alert
  /\ k.pc \in {"asset", "fire", "set"} => k.read \in AlertRecord
  /\ k.todo \cap k.silent \subseteq revived
  /\ k.pc \in InHand /\ k.id \in k.silent => k.id \in revived

AlertsType ==
  /\ alert \in [Alert -> AlertRecord \cup {NoAlert}]
  /\ alertIds \in SUBSET Alert /\ assetIds \in SUBSET Alert /\ gone \in SUBSET Alert /\ fired \in SUBSET Alert
  /\ quote \in {"low", "high"} /\ backfill \in (SUBSET Alert) \cup {NoAlert} /\ dropping \in SUBSET Alert
  /\ eval \in [Evaluation -> EvalRecord] /\ overlapped \in BOOLEAN /\ alertFaults \in Nat

\* While no evaluation met another and no command failed: an alert that fired is
\* gone, or in the hands of the evaluation that fired it; one about to fire, or to be
\* written back, has not fired; and the alert in hand is there, or removed.
FiresOnce ==
  ~overlapped /\ alertFaults = 0 =>
    /\ twice = {}
    /\ \A e, f \in Evaluation : eval[e].pc # "idle" /\ eval[f].pc # "idle" => e = f
    /\ \A a \in fired : \/ alert[a] = NoAlert /\ a \in gone
                        \/ \E e \in Evaluation : eval[e].pc \in {"get", "del"} /\ eval[e].id = a
    /\ \A e \in Evaluation :
         /\ eval[e].pc \in {"asset", "fire", "set"} => eval[e].id \notin fired
         /\ eval[e].pc \in {"asset", "fire", "get"} => alert[eval[e].id] # NoAlert \/ eval[e].id \in gone

QuietInv == AlertsType /\ gone \cap assetIds \subseteq revived /\ \A e \in Evaluation : EvalOk(eval[e])

AlertsInv == QuietInv /\ FiresOnce

\* An evaluation moves, to new.
EvalTo(e, new) == new \in EvalRecord /\ eval' = [eval EXCEPT ![e] = new]

LEMMA EvalMoves ==
  ASSUME AlertsType, NEW e \in Evaluation, NEW new, EvalTo(e, new)
  PROVE  /\ eval' \in [Evaluation -> EvalRecord] /\ eval'[e] = new
         /\ \A f \in Evaluation : f # e => eval'[f] = eval[f]
BY DEF AlertsType, EvalTo

LEMMA EvalIs ==
  ASSUME AlertsType, NEW e \in Evaluation
  PROVE  /\ eval[e] \in EvalRecord /\ eval[e].todo \in SUBSET Alert /\ eval[e].silent \in SUBSET Alert
         /\ eval[e].id \in Alert \cup {NoAlert} /\ eval[e].read \in AlertRecord \cup {NoAlert}
         /\ eval[e].price \in {"low", "high"}
BY DEF AlertsType, EvalRecord

LEMMA IdleEval ==
  /\ Idle \in EvalRecord /\ Idle.pc = "idle" /\ Idle.todo = {} /\ Idle.silent = {} /\ Idle.id = NoAlert
  /\ EvalOk(Idle)
BY DEF Idle, EvalRecord, EvalOk, InHand

\* The kinds of step: an end, on to the next alert, or on with this one.
LEMMA EvalEnds ==
  ASSUME NEW e \in Evaluation, Ends(e)
  PROVE  EvalTo(e, Idle)
BY IdleEval DEF Ends, EvalTo

LEMMA EvalGoes ==
  ASSUME AlertsType, NEW e \in Evaluation, NEW pc \in InHand, Goes(e, pc)
  PROVE  \E new : /\ EvalTo(e, new) /\ new.pc = pc /\ new.id = eval[e].id /\ new.read = eval[e].read
                  /\ new.todo = eval[e].todo /\ new.silent = eval[e].silent
<1> DEFINE new == [eval[e] EXCEPT !.pc = pc]
<1>1. eval[e] \in EvalRecord
  BY EvalIs
<1>2. /\ new \in EvalRecord /\ new.pc = pc /\ new.id = eval[e].id /\ new.read = eval[e].read
      /\ new.todo = eval[e].todo /\ new.silent = eval[e].silent
  BY <1>1 DEF EvalRecord
<1>3. eval' = [eval EXCEPT ![e] = new]
  BY DEF Goes
<1> HIDE DEF new
<1> QED BY <1>2, <1>3 DEF EvalTo

LEMMA EvalContinues ==
  ASSUME AlertsType, NEW e \in Evaluation, Continue(e)
  PROVE  \E new : EvalTo(e, new) /\ new.pc = "next" /\ new.todo = eval[e].todo /\ new.silent = eval[e].silent
<1> DEFINE new == [eval[e] EXCEPT !.pc = "next", !.id = NoAlert, !.read = NoAlert]
<1>1. eval[e] \in EvalRecord
  BY EvalIs
<1>2. new \in EvalRecord /\ new.pc = "next" /\ new.todo = eval[e].todo /\ new.silent = eval[e].silent
  BY <1>1 DEF EvalRecord
<1>3. eval' = [eval EXCEPT ![e] = new]
  BY DEF Continue
<1> HIDE DEF new
<1> QED BY <1>2, <1>3 DEF EvalTo

\* What a step of an evaluation has to see to.
LEMMA EvalKeeps ==
  ASSUME AlertsInv, NEW e \in Evaluation, NEW new, EvalTo(e, new), eval[e].pc # "idle",
         UNCHANGED <<quote, backfill, dropping, overlapped, revived>>,
         alert' \in [Alert -> AlertRecord \cup {NoAlert}], alertIds' \in SUBSET Alert, assetIds' \in SUBSET Alert,
         gone' \in SUBSET Alert, fired' \in SUBSET Alert, alertFaults' \in {alertFaults, alertFaults + 1},
         gone' \cap assetIds' \subseteq revived, EvalOk(new),
         ~overlapped /\ alertFaults' = 0 /\ alertFaults = 0 =>
           /\ twice' = {}
           /\ \A a \in fired' : \/ alert'[a] = NoAlert /\ a \in gone'
                                \/ new.pc \in {"get", "del"} /\ new.id = a
           /\ new.pc \in {"asset", "fire", "set"} => new.id \notin fired'
           /\ new.pc \in {"asset", "fire", "get"} => alert'[new.id] # NoAlert \/ new.id \in gone'
  PROVE  AlertsInv'
<1>0. AlertsType /\ FiresOnce /\ QuietInv /\ alertFaults \in Nat
  BY DEF AlertsInv, QuietInv, AlertsType
<1>1. /\ eval' \in [Evaluation -> EvalRecord] /\ eval'[e] = new
      /\ \A f \in Evaluation : f # e => eval'[f] = eval[f]
  BY <1>0, EvalMoves
<1>2. AlertsType'
  BY <1>0, <1>1 DEF AlertsType
<1>3. ASSUME NEW f \in Evaluation PROVE EvalOk(eval[f])'
  <2>1. EvalOk(new)' /\ (f # e => EvalOk(eval[f]))
    BY <1>0 DEF QuietInv, EvalOk
  <2> QED BY <1>1, <2>1 DEF EvalOk
<1>4. FiresOnce'
  <2> SUFFICES ASSUME ~overlapped', alertFaults' = 0 PROVE FiresOnce'
    BY DEF FiresOnce
  <2>1. ~overlapped /\ alertFaults = 0
    BY <1>0
  <2>2. \A f \in Evaluation : f # e => eval'[f].pc = "idle"
    BY <1>0, <1>1, <2>1 DEF FiresOnce
  <2> QED BY <1>1, <2>1, <2>2 DEF FiresOnce
<1> QED BY <1>2, <1>3, <1>4 DEF AlertsInv, QuietInv

\* What holds of the evaluation under way, when it is the only one.
LEMMA OnceNow ==
  ASSUME AlertsInv, NEW e \in Evaluation, eval[e].pc # "idle", ~overlapped, alertFaults = 0
  PROVE  /\ twice = {}
         /\ \A a \in fired : \/ alert[a] = NoAlert /\ a \in gone
                             \/ eval[e].pc \in {"get", "del"} /\ eval[e].id = a
         /\ eval[e].pc \in {"asset", "fire", "set"} => eval[e].id \notin fired
         /\ eval[e].pc \in {"asset", "fire", "get"} => alert[eval[e].id] # NoAlert \/ eval[e].id \in gone
BY DEF AlertsInv, FiresOnce

LEMMA StoredNow ==
  ASSUME AlertsInv
  PROVE  /\ alert \in [Alert -> AlertRecord \cup {NoAlert}] /\ alertIds \in SUBSET Alert
         /\ assetIds \in SUBSET Alert /\ gone \in SUBSET Alert /\ fired \in SUBSET Alert
         /\ gone \cap assetIds \subseteq revived /\ AlertsType /\ alertFaults \in Nat
         /\ \A e \in Evaluation : EvalOk(eval[e])
BY DEF AlertsInv, QuietInv, AlertsType

\* An evaluation ends: without an alert that fired in its hands, or by a fault.
LEMMA EndsKeeps ==
  ASSUME AlertsInv, NEW e \in Evaluation, Ends(e), eval[e].pc # "idle",
         \/ AlertFault
         \/ alertFaults' = alertFaults /\ eval[e].pc \notin {"get", "del"} /\ UNCHANGED <<alert, gone>>,
         UNCHANGED <<quote, backfill, dropping, overlapped, revived, fired, twice>>,
         alert' \in [Alert -> AlertRecord \cup {NoAlert}], alertIds' \in SUBSET Alert, assetIds' \in SUBSET Alert,
         gone' \in SUBSET Alert, gone' \cap assetIds' \subseteq revived
  PROVE  AlertsInv'
<1>1. EvalTo(e, Idle) /\ Idle.pc = "idle" /\ EvalOk(Idle)
  BY EvalEnds, IdleEval
<1>2. alertFaults' \in {alertFaults, alertFaults + 1} /\ alertFaults \in Nat
  BY StoredNow DEF AlertFault
<1>3. ~overlapped /\ alertFaults' = 0 /\ alertFaults = 0 =>
        twice' = {} /\ \A a \in fired' : alert'[a] = NoAlert /\ a \in gone'
  BY <1>2, OnceNow DEF AlertFault
<1> QED BY <1>1, <1>2, <1>3, StoredNow, EvalKeeps

LEMMA ListAssetKeeps == ASSUME AlertsInv, NEW e \in Evaluation, ListAsset(e) PROVE AlertsInv'
<1>0. /\ UNCHANGED <<alert, alertIds, assetIds, quote, backfill, dropping, overlapped, revived, fired, twice, gone>>
      /\ eval[e].pc = "smembers"
  BY DEF ListAsset, stores, requests, alertHistory
<1>1. CASE Ends(e) /\ AlertFault
  BY <1>0, <1>1, EndsKeeps, StoredNow
<1>2. CASE /\ eval' = [eval EXCEPT ![e].pc = "next", ![e].todo = assetIds, ![e].silent = gone]
           /\ UNCHANGED alertFaults
  <2> DEFINE new == [eval[e] EXCEPT !.pc = "next", !.todo = assetIds, !.silent = gone]
  <2>1. eval[e] \in EvalRecord /\ assetIds \in SUBSET Alert /\ gone \in SUBSET Alert
    BY StoredNow, EvalIs
  <2>2. new \in EvalRecord /\ new.pc = "next" /\ new.todo = assetIds /\ new.silent = gone
    BY <2>1 DEF EvalRecord
  <2>3. eval' = [eval EXCEPT ![e] = new]
    BY <1>2
  <2> HIDE DEF new
  <2>4. EvalTo(e, new) /\ EvalOk(new)
    BY <2>2, <2>3, StoredNow DEF EvalTo, EvalOk, InHand
  <2> QED BY <1>0, <1>2, <2>2, <2>4, StoredNow, OnceNow, EvalKeeps
<1> QED BY <1>1, <1>2 DEF ListAsset

LEMMA ReadAlertKeeps == ASSUME AlertsInv, NEW e \in Evaluation, ReadAlert(e) PROVE AlertsInv'
<1>0. /\ UNCHANGED <<alert, alertIds, assetIds, quote, backfill, dropping, overlapped, revived, fired, twice, gone>>
      /\ eval[e].pc = "next"
  BY DEF ReadAlert, stores, requests, alertHistory
<1>1. CASE Ends(e) /\ (AlertFault \/ UNCHANGED alertFaults)
  BY <1>0, <1>1, EndsKeeps, StoredNow
<1>2. ASSUME NEW a \in eval[e].todo, UNCHANGED alertFaults, NEW read, read = alert[a],
             NEW left, left = [eval[e] EXCEPT !.todo = @ \ {a}],
             \/ eval' = [eval EXCEPT ![e] = left]
             \/ /\ read # NoAlert
                /\ eval' = [eval EXCEPT ![e] = [left EXCEPT !.id = a, !.read = read,
                                                !.pc = IF read.repeat THEN "asset" ELSE "fire"]]
      PROVE  AlertsInv'
  <2>1. eval[e] \in EvalRecord /\ a \in Alert /\ eval[e].todo \in SUBSET Alert /\ EvalOk(eval[e])
    BY EvalIs, StoredNow
  <2>2. /\ left \in EvalRecord /\ left.pc = "next" /\ left.todo = eval[e].todo \ {a}
        /\ left.silent = eval[e].silent
    BY <1>0, <1>2, <2>1 DEF EvalRecord
  <2>3. CASE eval' = [eval EXCEPT ![e] = left]
    <3>1. EvalTo(e, left) /\ EvalOk(left)
      BY <2>1, <2>2, <2>3 DEF EvalTo, EvalOk, InHand
    <3> QED BY <1>0, <1>2, <2>2, <3>1, StoredNow, OnceNow, EvalKeeps
  <2>4. CASE /\ read # NoAlert
             /\ eval' = [eval EXCEPT ![e] = [left EXCEPT !.id = a, !.read = read,
                                             !.pc = IF read.repeat THEN "asset" ELSE "fire"]]
    <3> DEFINE pc == IF read.repeat THEN "asset" ELSE "fire"
               new == [left EXCEPT !.id = a, !.read = read, !.pc = pc]
    <3>1. read \in AlertRecord /\ pc \in {"asset", "fire"}
      BY <1>2, <2>1, <2>4, StoredNow
    <3>2. eval' = [eval EXCEPT ![e] = new]
      BY <2>4
    <3> HIDE DEF pc
    <3>3. /\ new \in EvalRecord /\ new.pc = pc /\ new.id = a /\ new.read = read
          /\ new.todo = left.todo /\ new.silent = left.silent
      BY <2>1, <2>2, <3>1 DEF EvalRecord, InHand
    <3> HIDE DEF new
    <3>4. EvalTo(e, new) /\ EvalOk(new)
      BY <2>1, <2>2, <3>1, <3>2, <3>3 DEF EvalTo, EvalOk, InHand
    <3>5. ~overlapped /\ alertFaults = 0 => /\ a \notin fired /\ twice = {}
                                            /\ \A b \in fired : alert[b] = NoAlert /\ b \in gone
      BY <1>0, <1>2, <2>4, OnceNow
    <3> QED BY <1>0, <1>2, <2>4, <3>1, <3>3, <3>4, <3>5, StoredNow, EvalKeeps
  <2> QED BY <1>2, <2>3, <2>4
<1>3. CASE \E a \in eval[e].todo :
          LET r == alert[a]
              left == [eval[e] EXCEPT !.todo = @ \ {a}]
          IN  /\ eval' = [eval EXCEPT ![e] =
                   IF r = NoAlert \/ ~isTriggered(r, eval[e].price)
                        \/ (r.repeat /\ r.last = "recent") THEN left
                   ELSE [left EXCEPT !.id = a, !.read = r,
                                     !.pc = IF r.repeat THEN "asset" ELSE "fire"]]
              /\ UNCHANGED <<awaited, alertFaults>>
  BY <1>2, <1>3
<1> QED BY <1>1, <1>3 DEF ReadAlert

\* On with the same alert, nothing stored having changed.
LEMMA OnKeeps ==
  ASSUME AlertsInv, NEW e \in Evaluation, NEW pc \in InHand, Goes(e, pc), UNCHANGED alertFaults,
         UNCHANGED <<alert, alertIds, assetIds, quote, backfill, dropping, overlapped, revived, fired, twice, gone>>,
         \/ eval[e].pc = "asset" /\ pc = "fire"
         \/ eval[e].pc = "fire" /\ pc = "set"
         \/ eval[e].pc = "get" /\ pc = "del"
  PROVE  AlertsInv'
<1>1. PICK new : /\ EvalTo(e, new) /\ new.pc = pc /\ new.id = eval[e].id /\ new.read = eval[e].read
                 /\ new.todo = eval[e].todo /\ new.silent = eval[e].silent
  BY StoredNow, EvalGoes
<1>2. EvalOk(new)
  BY <1>1, StoredNow DEF EvalOk, InHand
<1> QED BY <1>1, <1>2, StoredNow, OnceNow, EvalKeeps

\* On to the next alert, none that fired being in hand and still there.
LEMMA ContinueKeeps ==
  ASSUME AlertsInv, NEW e \in Evaluation, Continue(e), UNCHANGED alertFaults, eval[e].pc \in InHand,
         UNCHANGED <<quote, backfill, dropping, overlapped, revived, fired, twice>>,
         alert' \in [Alert -> AlertRecord \cup {NoAlert}], alertIds' \in SUBSET Alert, assetIds' \in SUBSET Alert,
         gone' \in SUBSET Alert, gone' \cap assetIds' \subseteq revived,
         ~overlapped /\ alertFaults = 0 => \A a \in fired : alert'[a] = NoAlert /\ a \in gone'
  PROVE  AlertsInv'
<1>1. PICK new : EvalTo(e, new) /\ new.pc = "next" /\ new.todo = eval[e].todo /\ new.silent = eval[e].silent
  BY StoredNow, EvalContinues
<1>2. EvalOk(new) /\ eval[e].pc # "idle"
  BY <1>1, StoredNow DEF EvalOk, InHand
<1> QED BY <1>1, <1>2, StoredNow, OnceNow, EvalKeeps

LEMMA ReadCooldownKeeps == ASSUME AlertsInv, NEW e \in Evaluation, ReadCooldown(e) PROVE AlertsInv'
<1>0. /\ UNCHANGED <<alert, alertIds, assetIds, quote, backfill, dropping, overlapped, revived, fired, twice, gone>>
      /\ eval[e].pc = "asset"
  BY DEF ReadCooldown, stores, requests, alertHistory
<1>1. CASE Ends(e) /\ AlertFault
  BY <1>0, <1>1, EndsKeeps, StoredNow
<1>2. CASE Continue(e) /\ UNCHANGED alertFaults
  BY <1>0, <1>2, ContinueKeeps, OnceNow, StoredNow DEF InHand
<1>3. CASE Goes(e, "fire") /\ UNCHANGED alertFaults
  BY <1>0, <1>3, OnKeeps DEF InHand
<1> QED BY <1>1, <1>2, <1>3 DEF ReadCooldown

LEMMA FireKeeps == ASSUME AlertsInv, NEW e \in Evaluation, Fire(e) PROVE AlertsInv'
<1>0. /\ UNCHANGED <<alert, alertIds, assetIds, quote, backfill, dropping, overlapped, revived, gone, alertFaults>>
      /\ eval[e].pc = "fire"
  BY DEF Fire, stores, requests
<1>1. CASE Ends(e) /\ UNCHANGED <<fired, twice>>
  BY <1>0, <1>1, EndsKeeps, StoredNow
<1>2. CASE Goes(e, "set") /\ UNCHANGED <<fired, twice>>
  BY <1>0, <1>2, OnKeeps DEF InHand
<1>3. CASE /\ Goes(e, "get") /\ fired' = fired \cup {eval[e].id}
           /\ twice' = twice \cup (fired \cap {eval[e].id})
  <2>1. PICK new : /\ EvalTo(e, new) /\ new.pc = "get" /\ new.id = eval[e].id /\ new.read = eval[e].read
                   /\ new.todo = eval[e].todo /\ new.silent = eval[e].silent
    BY <1>3, StoredNow, EvalGoes DEF InHand
  <2>2. EvalOk(new) /\ eval[e].id \in Alert
    BY <1>0, <2>1, StoredNow DEF EvalOk, InHand
  <2>3. ~overlapped /\ alertFaults = 0 =>
          /\ twice' = {}
          /\ \A a \in fired' : (alert[a] = NoAlert /\ a \in gone) \/ new.id = a
          /\ alert[new.id] # NoAlert \/ new.id \in gone
    BY <1>0, <1>3, <2>1, OnceNow
  <2> QED BY <1>0, <1>3, <2>1, <2>2, <2>3, StoredNow, EvalKeeps
<1> QED BY <1>1, <1>2, <1>3 DEF Fire

LEMMA DiscardGetKeeps == ASSUME AlertsInv, NEW e \in Evaluation, DiscardGet(e) PROVE AlertsInv'
<1>0. /\ UNCHANGED <<alert, alertIds, assetIds, quote, backfill, dropping, overlapped, revived, fired, twice, gone>>
      /\ eval[e].pc = "get"
  BY DEF DiscardGet, stores, requests, alertHistory
<1>1. CASE Ends(e) /\ AlertFault
  BY <1>0, <1>1, EndsKeeps, StoredNow
<1>2. CASE alert[eval[e].id] = NoAlert /\ Continue(e) /\ UNCHANGED alertFaults
  <2>1. ~overlapped /\ alertFaults = 0 => \A a \in fired : alert[a] = NoAlert /\ a \in gone
    BY <1>0, <1>2, OnceNow
  <2> QED BY <1>0, <1>2, <2>1, ContinueKeeps, StoredNow DEF InHand
<1>3. CASE Goes(e, "del") /\ UNCHANGED alertFaults
  BY <1>0, <1>3, OnKeeps DEF InHand
<1> QED BY <1>1, <1>2, <1>3 DEF DiscardGet

LEMMA DropIs ==
  ASSUME AlertsInv, NEW a \in Alert, Drop(a)
  PROVE  /\ alert' \in [Alert -> AlertRecord \cup {NoAlert}] /\ alertIds' \in SUBSET Alert
         /\ assetIds' \in SUBSET Alert /\ gone' \in SUBSET Alert /\ gone' \cap assetIds' \subseteq revived
         /\ gone \subseteq gone' /\ a \in gone' /\ alert'[a] = NoAlert
         /\ \A b \in Alert : b # a => alert'[b] = alert[b]
BY StoredNow DEF Drop

LEMMA DiscardKeeps == ASSUME AlertsInv, NEW e \in Evaluation, Discard(e) PROVE AlertsInv'
<1>0. UNCHANGED <<quote, backfill, dropping, overlapped, revived, fired, twice>> /\ eval[e].pc = "del"
  BY DEF Discard, requests
<1>1. CASE Ends(e) /\ AlertFault /\ UNCHANGED <<alert, alertIds, assetIds, gone>>
  BY <1>0, <1>1, EndsKeeps, StoredNow
<1>2. CASE Drop(eval[e].id) /\ Ends(e) /\ AlertFault
  <2>1. eval[e].id \in Alert
    BY <1>0, StoredNow DEF EvalOk, InHand
  <2> QED BY <1>0, <1>2, <2>1, DropIs, EndsKeeps
<1>3. CASE Drop(eval[e].id) /\ Continue(e) /\ UNCHANGED alertFaults
  <2>1. PICK id \in Alert : id = eval[e].id
    BY <1>0, StoredNow DEF EvalOk, InHand
  <2>2. /\ alert' \in [Alert -> AlertRecord \cup {NoAlert}] /\ alertIds' \in SUBSET Alert
        /\ assetIds' \in SUBSET Alert /\ gone' \in SUBSET Alert /\ gone' \cap assetIds' \subseteq revived
        /\ gone \subseteq gone' /\ id \in gone' /\ alert'[id] = NoAlert
        /\ \A b \in Alert : b # id => alert'[b] = alert[b]
    BY <1>3, <2>1, DropIs
  <2>3. ~overlapped /\ alertFaults = 0 => \A a \in fired : alert'[a] = NoAlert /\ a \in gone'
    BY <1>0, <2>1, <2>2, OnceNow, StoredNow
  <2> QED BY <1>0, <1>3, <2>2, <2>3, ContinueKeeps DEF InHand
<1> QED BY <1>1, <1>2, <1>3 DEF Discard

LEMMA RearmKeeps == ASSUME AlertsInv, NEW e \in Evaluation, Rearm(e) PROVE AlertsInv'
<1> DEFINE base == IF eval[e].read.type = "change_pct" THEN eval[e].price ELSE eval[e].read.baseline
           written == [eval[e].read EXCEPT !.last = "recent", !.baseline = base]
<1>0. /\ UNCHANGED <<alertIds, assetIds, quote, backfill, dropping, overlapped, revived, fired, twice, gone>>
      /\ eval[e].pc = "set"
  BY DEF Rearm, requests, alertHistory
<1>1. PICK id \in Alert : id = eval[e].id
  BY <1>0, StoredNow DEF EvalOk, InHand
<1>2. eval[e].read \in AlertRecord /\ eval[e].price \in {"low", "high"}
  BY <1>0, StoredNow, EvalIs DEF EvalOk
<1>3. base \in {"none", "low", "high"}
  BY <1>2 DEF AlertRecord
<1>4. alert' \in {alert, [alert EXCEPT ![id] = written]}
  BY <1>1 DEF Rearm
<1> HIDE DEF base
<1>5. written \in AlertRecord
  BY <1>2, <1>3 DEF AlertRecord
<1> HIDE DEF written
<1>6. alert' \in [Alert -> AlertRecord \cup {NoAlert}] /\ \A a \in Alert : a # id => alert'[a] = alert[a]
  BY <1>4, <1>5, StoredNow
<1>7. CASE Ends(e) /\ AlertFault
  BY <1>0, <1>6, <1>7, EndsKeeps, StoredNow
<1>8. CASE Goes(e, "cool") /\ UNCHANGED alertFaults
  <2>1. PICK new : /\ EvalTo(e, new) /\ new.pc = "cool" /\ new.id = eval[e].id /\ new.read = eval[e].read
                   /\ new.todo = eval[e].todo /\ new.silent = eval[e].silent
    BY <1>8, StoredNow, EvalGoes DEF InHand
  <2>2. EvalOk(new)
    BY <1>0, <2>1, StoredNow DEF EvalOk, InHand
  <2>3. ~overlapped /\ alertFaults = 0 => twice = {} /\ \A a \in fired : alert'[a] = NoAlert /\ a \in gone
    BY <1>0, <1>1, <1>6, OnceNow, StoredNow
  <2> QED BY <1>0, <1>6, <1>8, <2>1, <2>2, <2>3, StoredNow, EvalKeeps
<1> QED BY <1>7, <1>8 DEF Rearm

LEMMA StartCooldownKeeps == ASSUME AlertsInv, NEW e \in Evaluation, StartCooldown(e) PROVE AlertsInv'
<1>0. /\ UNCHANGED <<alert, alertIds, assetIds, quote, backfill, dropping, overlapped, revived, fired, twice, gone>>
      /\ eval[e].pc = "cool"
  BY DEF StartCooldown, requests, alertHistory
<1>1. CASE Ends(e) /\ AlertFault
  BY <1>0, <1>1, EndsKeeps, StoredNow
<1>2. CASE Continue(e) /\ UNCHANGED alertFaults
  BY <1>0, <1>2, ContinueKeeps, OnceNow, StoredNow DEF InHand
<1> QED BY <1>1, <1>2 DEF StartCooldown

LEMMA EvaluateAllKeeps == ASSUME AlertsInv, NEW e \in Evaluation, EvaluateAll(e) PROVE AlertsInv'
<1>0. AlertsType /\ UNCHANGED <<alert, alertIds, assetIds, quote, backfill, dropping, revived, fired, twice, gone,
                               alertFaults>>
  BY StoredNow DEF EvaluateAll, stores, requests
<1>1. PICK new : EvalTo(e, new) /\ new.pc = "smembers" /\ new.todo = {}
  <2> DEFINE new == [Idle EXCEPT !.pc = "smembers", !.price = quote]
  <2>1. new \in EvalRecord /\ new.pc = "smembers" /\ new.todo = {}
    BY <1>0, IdleEval DEF AlertsType, EvalRecord
  <2>2. eval' = [eval EXCEPT ![e] = new]
    BY DEF EvaluateAll
  <2> HIDE DEF new
  <2> QED BY <2>1, <2>2 DEF EvalTo
<1>3. /\ eval' \in [Evaluation -> EvalRecord] /\ eval'[e] = new
      /\ \A f \in Evaluation : f # e => eval'[f] = eval[f]
  BY <1>0, <1>1, EvalMoves
<1>4. overlapped' \in BOOLEAN
  BY DEF EvaluateAll
<1>5. AlertsType'
  BY <1>0, <1>3, <1>4 DEF AlertsType
<1>6. ASSUME NEW f \in Evaluation PROVE EvalOk(eval[f])'
  <2>1. CASE f = e
    BY <1>0, <1>1, <1>3, <2>1 DEF EvalOk, InHand
  <2>2. CASE f # e
    <3>1. EvalOk(eval[f])
      BY StoredNow
    <3> QED BY <1>0, <1>3, <2>2, <3>1 DEF EvalOk
  <2> QED BY <2>1, <2>2
<1>7. FiresOnce'
  <2> SUFFICES ASSUME ~overlapped', alertFaults' = 0 PROVE FiresOnce'
    BY DEF FiresOnce
  <2>1. ~overlapped /\ \A f \in Evaluation : eval[f].pc = "idle"
    BY DEF EvaluateAll
  <2>2. FiresOnce
    BY DEF AlertsInv
  <2> QED BY <1>0, <1>1, <1>3, <2>1, <2>2 DEF FiresOnce
<1>8. (gone \cap assetIds \subseteq revived)'
  BY <1>0, StoredNow
<1> QED BY <1>5, <1>6, <1>7, <1>8 DEF AlertsInv, QuietInv

\* What the requests, the backfill and time have to see to.
LEMMA StoreKeeps ==
  ASSUME AlertsInv, UNCHANGED <<eval, overlapped, fired, twice, alertFaults>>,
         alert' \in [Alert -> AlertRecord \cup {NoAlert}], alertIds' \in SUBSET Alert, assetIds' \in SUBSET Alert,
         gone' \in SUBSET Alert, gone' \cap assetIds' \subseteq revived', revived \subseteq revived',
         quote' \in {"low", "high"}, backfill' \in (SUBSET Alert) \cup {NoAlert}, dropping' \in SUBSET Alert,
         gone \subseteq gone', \A a \in Alert : alert[a] = NoAlert /\ a \in gone => alert'[a] = NoAlert,
         \A a \in Alert : alert[a] # NoAlert /\ a \notin gone' => alert'[a] # NoAlert
  PROVE  AlertsInv'
<1>1. AlertsType'
  BY StoredNow DEF AlertsType
<1>2. ASSUME NEW e \in Evaluation PROVE EvalOk(eval[e])'
  <2>1. EvalOk(eval[e])
    BY StoredNow
  <2> QED BY <2>1 DEF EvalOk
<1>3. FiresOnce'
  <2> SUFFICES ASSUME ~overlapped, alertFaults = 0 PROVE FiresOnce'
    BY DEF FiresOnce
  <2>1. FiresOnce /\ fired \in SUBSET Alert /\ \A e \in Evaluation : EvalOk(eval[e])
    BY StoredNow DEF AlertsInv
  <2>2. ASSUME NEW a \in fired
        PROVE  \/ alert'[a] = NoAlert /\ a \in gone'
               \/ \E e \in Evaluation : eval[e].pc \in {"get", "del"} /\ eval[e].id = a
    BY <2>1 DEF FiresOnce
  <2>3. ASSUME NEW e \in Evaluation, eval[e].pc \in {"asset", "fire", "get"}
        PROVE  alert'[eval[e].id] # NoAlert \/ eval[e].id \in gone'
    <3>1. eval[e].id \in Alert /\ (alert[eval[e].id] # NoAlert \/ eval[e].id \in gone)
      BY <2>1, <2>3 DEF FiresOnce, EvalOk, InHand
    <3> QED BY <3>1
  <2> QED BY <2>1, <2>2, <2>3 DEF FiresOnce
<1> QED BY <1>1, <1>2, <1>3 DEF AlertsInv, QuietInv

LEMMA CreateKeeps ==
  ASSUME AlertsInv, NEW a \in Alert, NEW type \in AlertType, NEW repeat \in BOOLEAN, CreateAlert(a, type, repeat)
  PROVE  AlertsInv'
<1>0. quote \in {"low", "high"} /\ backfill \in (SUBSET Alert) \cup {NoAlert} /\ dropping \in SUBSET Alert
  BY StoredNow DEF AlertsType
<1>1. PICK b \in {"none", quote} :
        alert' = [alert EXCEPT ![a] = [type |-> type, repeat |-> repeat, last |-> "never", baseline |-> b]]
  BY DEF CreateAlert
<1> DEFINE r == [type |-> type, repeat |-> repeat, last |-> "never", baseline |-> b]
<1>2. r \in AlertRecord
  BY <1>0, AlertsConfig DEF AlertRecord
<1> HIDE DEF r
<1>3. /\ alert' \in [Alert -> AlertRecord \cup {NoAlert}] /\ \A c \in Alert : c # a => alert'[c] = alert[c]
      /\ alert[a] = NoAlert /\ a \notin gone
  BY <1>1, <1>2, StoredNow DEF CreateAlert, r
<1>4. /\ UNCHANGED <<eval, overlapped, fired, twice, alertFaults, gone, revived, quote, backfill, dropping>>
      /\ alertIds' \in SUBSET Alert /\ assetIds' \in SUBSET Alert /\ gone \cap assetIds' \subseteq revived
  BY <1>3, StoredNow DEF CreateAlert, requests, alertHistory
<1> QED BY <1>0, <1>3, <1>4, StoredNow, StoreKeeps

LEMMA RemoveAlertKeeps == ASSUME AlertsInv, NEW a \in Alert, RemoveGetAlert(a) \/ RemoveAlert(a) PROVE AlertsInv'
<1>0. quote \in {"low", "high"} /\ backfill \in (SUBSET Alert) \cup {NoAlert} /\ dropping \in SUBSET Alert
  BY StoredNow DEF AlertsType
<1>1. CASE RemoveGetAlert(a)
  BY <1>0, <1>1, StoredNow, StoreKeeps DEF RemoveGetAlert, stores, alertHistory
<1>2. CASE RemoveAlert(a)
  <2>1. /\ alert' \in [Alert -> AlertRecord \cup {NoAlert}] /\ alertIds' \in SUBSET Alert
        /\ assetIds' \in SUBSET Alert /\ gone' \in SUBSET Alert /\ gone' \cap assetIds' \subseteq revived
        /\ gone \subseteq gone' /\ a \in gone' /\ alert'[a] = NoAlert
        /\ \A b \in Alert : b # a => alert'[b] = alert[b]
    BY <1>2, DropIs DEF RemoveAlert
  <2> QED BY <1>0, <1>2, <2>1, StoreKeeps DEF RemoveAlert
<1> QED BY <1>1, <1>2

LEMMA BackfillKeeps == ASSUME AlertsInv, BackfillRead \/ BackfillWrite PROVE AlertsInv'
<1>0. quote \in {"low", "high"} /\ backfill \in (SUBSET Alert) \cup {NoAlert} /\ dropping \in SUBSET Alert
  BY StoredNow DEF AlertsType
<1>1. CASE BackfillRead
  <2>1. backfill' \in SUBSET Alert
    BY <1>1, StoredNow DEF BackfillRead
  <2> QED BY <1>0, <1>1, <2>1, StoredNow, StoreKeeps DEF BackfillRead, stores, alertHistory
<1>2. CASE BackfillWrite
  <2>1. /\ backfill # NoAlert /\ backfill' = NoAlert /\ assetIds' = assetIds \cup backfill
        /\ revived' = revived \cup (backfill \cap gone)
        /\ UNCHANGED <<alert, alertIds, quote, eval, dropping, fired, twice, gone, overlapped, alertFaults>>
    BY <1>2 DEF BackfillWrite
  <2>2. backfill \in SUBSET Alert
    BY <1>0, <2>1, Zenon
  <2>3. assetIds' \in SUBSET Alert /\ gone \cap assetIds' \subseteq revived' /\ revived \subseteq revived'
    BY <2>1, <2>2, StoredNow
  <2>4. backfill' \in (SUBSET Alert) \cup {NoAlert}
    BY <2>1, Zenon
  <2>5. alert' \in [Alert -> AlertRecord \cup {NoAlert}] /\ gone' \in SUBSET Alert /\ alertIds' \in SUBSET Alert
    BY <2>1, StoredNow
  <2> QED BY <1>0, <2>1, <2>3, <2>4, <2>5, StoredNow, StoreKeeps
<1> QED BY <1>1, <1>2

LEMMA TimeKeeps ==
  ASSUME AlertsInv, QuoteMoves \/ CooldownPasses \/ EvaluationTimesOut \/ UNCHANGED alertVars
  PROVE  AlertsInv'
<1>0. quote \in {"low", "high"} /\ backfill \in (SUBSET Alert) \cup {NoAlert} /\ dropping \in SUBSET Alert
  BY StoredNow DEF AlertsType
<1>1. CASE CooldownPasses
  <2>1. ASSUME NEW a \in Alert
        PROVE  /\ alert'[a] \in AlertRecord \cup {NoAlert}
               /\ alert[a] = NoAlert => alert'[a] = NoAlert
               /\ alert[a] # NoAlert => alert'[a] # NoAlert
    <3>1. alert[a] \in AlertRecord => [alert[a] EXCEPT !.last = "past"] \in AlertRecord
      BY DEF AlertRecord
    <3>2. alert[a] \in AlertRecord \cup {NoAlert} /\ NoAlert \notin AlertRecord
      BY StoredNow, AlertsConfig
    <3>3. alert'[a] = IF alert[a] # NoAlert /\ alert[a].last = "recent"
                      THEN [alert[a] EXCEPT !.last = "past"] ELSE alert[a]
      BY <1>1 DEF CooldownPasses
    <3> QED BY <3>1, <3>2, <3>3
  <2>2. alert' = [a \in Alert |-> alert'[a]]
    BY <1>1 DEF CooldownPasses
  <2>3. alert' \in [Alert -> AlertRecord \cup {NoAlert}]
    BY <2>1, <2>2
  <2> QED BY <1>0, <1>1, <2>1, <2>3, StoredNow, StoreKeeps DEF CooldownPasses, requests, alertHistory
<1>2. CASE QuoteMoves \/ EvaluationTimesOut \/ UNCHANGED alertVars
  BY <1>0, <1>2, StoredNow, StoreKeeps
     DEF QuoteMoves, EvaluationTimesOut, stores, requests, alertHistory, alertVars
<1> QED BY <1>1, <1>2

LEMMA AlertsInitInv == AlertsInit => AlertsInv
<1> SUFFICES ASSUME AlertsInit PROVE AlertsInv
  OBVIOUS
<1>1. \A e \in Evaluation : eval[e] = Idle
  BY DEF AlertsInit
<1>2. AlertsType
  <2>1. alert \in [Alert -> AlertRecord \cup {NoAlert}]
    BY DEF AlertsInit
  <2>2. eval \in [Evaluation -> EvalRecord]
    <3> HIDE DEF Idle
    <3> QED BY IdleEval DEF AlertsInit
  <2>3. backfill \in (SUBSET Alert) \cup {NoAlert}
    BY Zenon DEF AlertsInit
  <2> QED BY <2>1, <2>2, <2>3 DEF AlertsInit, AlertsType
<1>3. FiresOnce
  BY <1>1, IdleEval DEF AlertsInit, FiresOnce
<1> QED BY <1>1, <1>2, <1>3, IdleEval DEF AlertsInit, AlertsInv, QuietInv

LEMMA AlertsStepInv == ASSUME AlertsInv, [AlertsNext]_alertVars PROVE AlertsInv'
<1>1. ASSUME NEW e \in Evaluation, EvaluateAll(e) \/ EvalStep(e) PROVE AlertsInv'
  BY <1>1, EvaluateAllKeeps, ListAssetKeeps, ReadAlertKeeps, ReadCooldownKeeps, FireKeeps, DiscardGetKeeps,
     DiscardKeeps, RearmKeeps, StartCooldownKeeps DEF EvalStep
<1> QED BY <1>1, CreateKeeps, RemoveAlertKeeps, BackfillKeeps, TimeKeeps DEF AlertsNext

\* A one-shot alert is delivered once unless evaluations overlapped or a command
\* failed, and an evaluation fires no alert removed before it listed them, unless a
\* backfill put it back: for any number of alerts and evaluations.
THEOREM AlertsFireRight == AlertsSpec => []AlertsFireAsArmed
<1>1. AlertsInv => AlertsFireAsArmed
  <2> SUFFICES ASSUME AlertsInv PROVE AlertsFireAsArmed
    OBVIOUS
  <2>1. OneShotFiresOnce
    BY StoredNow DEF AlertsInv, FiresOnce, OneShotFiresOnce
  <2>2. RemovedStaysQuiet
    BY StoredNow DEF EvalOk, InHand, RemovedStaysQuiet
  <2> QED BY <2>1, <2>2 DEF AlertsFireAsArmed
<1>2. AlertsInv /\ [AlertsNext]_alertVars => AlertsInv'
  BY AlertsStepInv
<1> QED BY AlertsInitInv, <1>1, <1>2, PTL DEF AlertsSpec

-----------------------------------------------------------------------------
(* RedisClient (the semaphore in front of Redis)                           *)

RedisSpec == RedisInit /\ [][RedisNext]_redisVars

-----------------------------------------------------------------------------
(* The inductive invariant *)

OperationPlaces == {"idle", "waiting", "permitted", "issued", "rejected"}
Statuses == {"connecting", "ready", "end"}

\* The calls that hold a permit, the calls that wait for one, and the queue's members.
Holders == {o \in Operation : operation[o].pc \in {"permitted", "issued"}}
Waiting == {o \in Operation : operation[o].pc = "waiting"}
QueueMembers == {waiters[i] : i \in DOMAIN waiters}

ClientType ==
  /\ waiters \in Seq(Operation)
  /\ operation \in [Operation -> [pc : OperationPlaces, via : Nat]]
  /\ status \in Seq(Statuses) /\ handle \in Nat

\* No call waits in two places of the queue, and the queue is those that wait.
QueueExact ==
  /\ \A i, j \in DOMAIN waiters : waiters[i] = waiters[j] => i = j
  /\ QueueMembers = Waiting

CountExact ==
  /\ current = Cardinality(Holders) /\ current <= MaxConcurrentOps
  /\ waiters # <<>> => current = MaxConcurrentOps
  /\ grantedLate = {}

RedisInv == ClientType /\ QueueExact /\ CountExact

USE RedisConfig DEF OperationPlaces, Statuses, NoOperation

LEMMA HoldersFinite == IsFiniteSet(Holders) /\ Cardinality(Holders) \in Nat
BY FS_Subset, FS_CardinalityType DEF Holders

-----------------------------------------------------------------------------

LEMMA RedisInitInv == RedisInit => RedisInv
<1> SUFFICES ASSUME RedisInit PROVE RedisInv
  OBVIOUS
<1>1. Holders = {} /\ Waiting = {} /\ QueueMembers = {}
  BY DEF RedisInit, Holders, Waiting, QueueMembers
<1>2. Cardinality(Holders) = 0
  BY <1>1, FS_EmptySet
<1> QED BY <1>1, <1>2 DEF RedisInit, RedisInv, ClientType, QueueExact, CountExact

LEMMA AcquireKeeps ==
  ASSUME RedisInv, NEW o \in Operation, Acquire(o)
  PROVE  RedisInv'
<1>0. operation[o].pc = "idle" /\ o \notin Holders /\ o \notin Waiting
  BY DEF Acquire, Holders, Waiting
<1>1. CASE current < MaxConcurrentOps
  <2>1. waiters = <<>> /\ waiters' = waiters
    BY <1>1, HoldersFinite DEF Acquire, RedisInv, CountExact
  <2>2. Holders' = Holders \cup {o}
    BY <1>1 DEF Acquire, Holders, RedisInv, ClientType
  <2>3. Cardinality(Holders') = Cardinality(Holders) + 1
    BY <1>0, <2>2, HoldersFinite, FS_AddElement
  <2>4. Waiting' = Waiting
    BY <1>0, <1>1 DEF Acquire, Waiting, RedisInv, ClientType
  <2>5. ClientType'
    BY <1>1 DEF Acquire, RedisInv, ClientType
  <2>6. QueueExact'
    BY <2>1, <2>4 DEF RedisInv, QueueExact, QueueMembers
  <2>7. CountExact'
    BY <1>1, <2>1, <2>3, HoldersFinite DEF Acquire, RedisInv, CountExact
  <2> QED BY <2>5, <2>6, <2>7 DEF RedisInv
<1>2. CASE ~(current < MaxConcurrentOps)
  <2>1. waiters' = Append(waiters, o) /\ current' = current /\ current = MaxConcurrentOps
    BY <1>2, HoldersFinite DEF Acquire, RedisInv, CountExact
  <2>a. operation' = [operation EXCEPT ![o].pc = "waiting"] /\ UNCHANGED <<status, handle, grantedLate>>
    BY <1>2 DEF Acquire
  <2>b. operation \in [Operation -> [pc : OperationPlaces, via : Nat]]
    BY DEF RedisInv, ClientType
  <2>2. ClientType'
    <3>1. waiters' \in Seq(Operation)
      BY <2>1 DEF RedisInv, ClientType
    <3>2. operation' \in [Operation -> [pc : OperationPlaces, via : Nat]]
      BY <2>a, <2>b
    <3> QED BY <2>a, <3>1, <3>2 DEF RedisInv, ClientType
  <2>c. \A p \in Operation : operation'[p].pc = IF p = o THEN "waiting" ELSE operation[p].pc
    BY <2>a, <2>b
  <2>3. Holders' = Holders /\ Waiting' = Waiting \cup {o}
    BY <1>0, <2>c DEF Holders, Waiting
  <2>4. /\ Len(waiters') = Len(waiters) + 1 /\ waiters'[Len(waiters) + 1] = o
        /\ \A i \in DOMAIN waiters : waiters'[i] = waiters[i]
        /\ DOMAIN waiters' = DOMAIN waiters \cup {Len(waiters) + 1}
        /\ DOMAIN waiters = 1 .. Len(waiters) /\ Len(waiters) \in Nat
    BY <2>1 DEF RedisInv, ClientType
  <2>5. o \notin QueueMembers
    BY <1>0 DEF RedisInv, QueueExact
  <2>6. QueueMembers' = QueueMembers \cup {o}
    BY <2>4 DEF QueueMembers
  <2>7. \A i, j \in DOMAIN waiters' : waiters'[i] = waiters'[j] => i = j
    BY <2>4, <2>5 DEF RedisInv, QueueExact, QueueMembers
  <2>8. CountExact'
    BY <2>1, <2>3, <2>a DEF RedisInv, CountExact
  <2> QED BY <2>2, <2>3, <2>6, <2>7, <2>8 DEF RedisInv, QueueExact
<1> QED BY <1>1, <1>2

LEMMA WaitTimesOutKeeps ==
  ASSUME RedisInv, NEW o \in Operation, WaiterTimesOut(o)
  PROVE  RedisInv'
<1>1. PICK i \in DOMAIN waiters : waiters[i] = o /\ waiters' = Splice(waiters, i)
  BY DEF WaiterTimesOut
<1>2. Len(waiters) \in Nat /\ DOMAIN waiters = 1 .. Len(waiters) /\ i \in 1 .. Len(waiters)
  BY <1>1 DEF RedisInv, ClientType
<1>3. waiters' = [j \in 1 .. Len(waiters) - 1 |-> IF j < i THEN waiters[j] ELSE waiters[j + 1]]
  BY <1>1 DEF Splice
<1>4. waiters' \in Seq(Operation) /\ DOMAIN waiters' = 1 .. Len(waiters) - 1
  <2>1. \A j \in 1 .. Len(waiters) - 1 : waiters'[j] \in Operation
    BY <1>2, <1>3 DEF RedisInv, ClientType
  <2>2. Len(waiters) - 1 \in Nat
    BY <1>2
  <2> QED BY <1>3, <2>1, <2>2
<1>5. ClientType'
  BY <1>4 DEF WaiterTimesOut, RedisInv, ClientType
<1>6. Holders' = Holders /\ Waiting' = Waiting \ {o}
  BY DEF WaiterTimesOut, Holders, Waiting, RedisInv, ClientType
<1>7. \A j, k \in DOMAIN waiters' : waiters'[j] = waiters'[k] => j = k
  BY <1>2, <1>3, <1>4 DEF RedisInv, QueueExact
<1>8. QueueMembers' = QueueMembers \ {o}
  <2>1. ASSUME NEW j \in DOMAIN waiters' PROVE waiters'[j] \in QueueMembers /\ waiters'[j] # o
    BY <1>1, <1>2, <1>3, <1>4, <2>1 DEF RedisInv, QueueExact, QueueMembers
  <2>2. ASSUME NEW k \in DOMAIN waiters, waiters[k] # o
        PROVE  \E j \in DOMAIN waiters' : waiters'[j] = waiters[k]
    <3>1. CASE k < i
      <4>1. k \in DOMAIN waiters' /\ waiters'[k] = waiters[k]
        BY <1>2, <1>3, <1>4, <2>2, <3>1
      <4> QED BY <4>1
    <3>2. CASE k > i
      <4>1. k - 1 \in DOMAIN waiters' /\ waiters'[k - 1] = waiters[k]
        BY <1>2, <1>3, <1>4, <2>2, <3>2
      <4> QED BY <4>1
    <3>3. k # i
      BY <1>1, <2>2
    <3> QED BY <1>2, <2>2, <3>1, <3>2, <3>3
  <2> QED BY <2>1, <2>2 DEF QueueMembers
<1>9. CountExact'
  <2>1. waiters # <<>>
    BY <1>2
  <2> QED BY <1>6, <2>1 DEF WaiterTimesOut, RedisInv, CountExact
<1> QED BY <1>5, <1>6, <1>7, <1>8, <1>9 DEF RedisInv, QueueExact

LEMMA IssueKeeps ==
  ASSUME RedisInv, NEW o \in Operation, Issue(o)
  PROVE  RedisInv'
<1>1. status' \in Seq(Statuses) /\ handle' \in Nat
  BY DEF Issue, RedisInv, ClientType
<1>2. operation' = [operation EXCEPT ![o] = [pc |-> "issued", via |-> handle']] /\ operation[o].pc = "permitted"
  BY DEF Issue
<1>3. ClientType'
  BY <1>1, <1>2 DEF Issue, RedisInv, ClientType
<1>4. Holders' = Holders /\ Waiting' = Waiting
  BY <1>2 DEF Holders, Waiting, RedisInv, ClientType
<1> QED BY <1>3, <1>4 DEF Issue, RedisInv, QueueExact, CountExact, QueueMembers

\* _release keeps the count by handing the permit on, or lowers it by one.
LEMMA SettleKeeps ==
  ASSUME RedisInv, NEW o \in Operation, Settle(o)
  PROVE  RedisInv'
<1>0. operation[o].pc = "issued" /\ o \in Holders
  BY DEF Settle, Holders
<1>1. CASE waiters = <<>>
  <2>1. Holders' = Holders \ {o} /\ Waiting' = Waiting
    BY <1>0, <1>1 DEF Settle, Holders, Waiting, RedisInv, ClientType
  <2>2. Cardinality(Holders') = Cardinality(Holders) - 1
    BY <1>0, <2>1, HoldersFinite, FS_RemoveElement
  <2>3. ClientType'
    BY <1>1 DEF Settle, RedisInv, ClientType
  <2>4. CountExact'
    BY <1>1, <2>2, HoldersFinite DEF Settle, RedisInv, CountExact
  <2> QED BY <1>1, <2>1, <2>3, <2>4 DEF Settle, RedisInv, QueueExact, QueueMembers
<1>2. CASE waiters # <<>>
  <2> DEFINE next == Head(waiters)
  <2>1. /\ Len(waiters) \in Nat \ {0} /\ DOMAIN waiters = 1 .. Len(waiters)
        /\ next = waiters[1] /\ next \in Operation
        /\ waiters' = Tail(waiters) /\ waiters' \in Seq(Operation)
        /\ DOMAIN waiters' = 1 .. Len(waiters) - 1
        /\ \A i \in DOMAIN waiters' : waiters'[i] = waiters[i + 1]
    <3>1. waiters \in Seq(Operation) /\ waiters' = Tail(waiters)
      BY <1>2 DEF Settle, RedisInv, ClientType
    <3>2. Len(waiters) \in Nat \ {0} /\ DOMAIN waiters = 1 .. Len(waiters)
      BY <1>2, <3>1
    <3>3. waiters' \in Seq(Operation) /\ Len(waiters') = Len(waiters) - 1
      BY <1>2, <3>1
    <3>4. next = waiters[1] /\ next \in Operation
      BY <1>2, <3>1, <3>2
    <3>5. DOMAIN waiters' = 1 .. Len(waiters) - 1
      BY <3>3
    <3>6. \A i \in 1 .. Len(waiters) - 1 : waiters'[i] = waiters[i + 1]
      BY <1>2, <3>1, <3>2
    <3> QED BY <3>1, <3>2, <3>3, <3>4, <3>5, <3>6
  <2>2. next \in Waiting /\ operation[next].pc = "waiting" /\ next # o
    BY <1>0, <2>1 DEF RedisInv, QueueExact, QueueMembers, Waiting
  <2>3. /\ operation' = [operation EXCEPT ![o] = NoOperation, ![next].pc = "permitted"]
        /\ grantedLate' = grantedLate /\ current' = current
    BY <1>2, <2>2 DEF Settle, RedisInv, ClientType
  <2>4. ClientType'
    <3>1. operation' \in [Operation -> [pc : OperationPlaces, via : Nat]]
      BY <2>1, <2>3 DEF RedisInv, ClientType
    <3> QED BY <2>1, <3>1 DEF Settle, RedisInv, ClientType
  <2>5. Holders' = (Holders \ {o}) \cup {next} /\ Waiting' = Waiting \ {next}
    BY <1>0, <2>1, <2>2, <2>3 DEF Holders, Waiting, RedisInv, ClientType
  <2>6. Cardinality(Holders') = Cardinality(Holders)
    <3>1. Cardinality(Holders \ {o}) = Cardinality(Holders) - 1 /\ IsFiniteSet(Holders \ {o})
      BY <1>0, HoldersFinite, FS_RemoveElement
    <3>2. next \notin Holders \ {o}
      BY <2>2 DEF Holders
    <3>3. Cardinality((Holders \ {o}) \cup {next}) = Cardinality(Holders \ {o}) + 1
      BY <3>1, <3>2, FS_AddElement
    <3>4. Cardinality(Holders') = (Cardinality(Holders) - 1) + 1
      BY <2>5, <3>1, <3>3
    <3> QED BY <3>4, HoldersFinite
  <2>7. QueueMembers' = QueueMembers \ {next}
    <3>1. ASSUME NEW i \in DOMAIN waiters' PROVE waiters'[i] \in QueueMembers /\ waiters'[i] # next
      BY <2>1, <3>1 DEF RedisInv, QueueExact, QueueMembers
    <3>2. ASSUME NEW k \in DOMAIN waiters, waiters[k] # next
          PROVE  \E i \in DOMAIN waiters' : waiters'[i] = waiters[k]
      <4>1. k - 1 \in DOMAIN waiters' /\ waiters'[k - 1] = waiters[k]
        BY <2>1, <3>2
      <4> QED BY <4>1
    <3> QED BY <3>1, <3>2 DEF QueueMembers
  <2>8. \A i, j \in DOMAIN waiters' : waiters'[i] = waiters'[j] => i = j
    BY <2>1 DEF RedisInv, QueueExact
  <2>9. CountExact'
    BY <1>2, <2>3, <2>6 DEF RedisInv, CountExact
  <2> QED BY <2>4, <2>5, <2>7, <2>8, <2>9 DEF RedisInv, QueueExact
<1> QED BY <1>1, <1>2

LEMMA RedisStepInv == RedisInv /\ [RedisNext]_redisVars => RedisInv'
<1> SUFFICES ASSUME RedisInv, [RedisNext]_redisVars PROVE RedisInv'
  OBVIOUS
<1>1. CASE \E o \in Operation : Acquire(o)
  BY <1>1, AcquireKeeps
<1>2. CASE \E o \in Operation : WaiterTimesOut(o)
  BY <1>2, WaitTimesOutKeeps
<1>3. CASE \E o \in Operation : Issue(o)
  BY <1>3, IssueKeeps
<1>4. CASE \E o \in Operation : Settle(o)
  BY <1>4, SettleKeeps
<1>5. CASE \E o \in Operation : CallAgain(o)
  <2>1. PICK o \in Operation : CallAgain(o)
    BY <1>5
  <2>2. ClientType' /\ Holders' = Holders /\ Waiting' = Waiting
    BY <2>1 DEF CallAgain, RedisInv, ClientType, Holders, Waiting
  <2> QED BY <2>1, <2>2 DEF CallAgain, RedisInv, QueueExact, CountExact, QueueMembers
<1>6. CASE (\E c \in DOMAIN status : ClientMoves(c)) \/ Disconnect \/ Disconnected \/ UNCHANGED redisVars
  <2>1. UNCHANGED <<current, waiters, operation, grantedLate>>
    BY <1>6 DEF ClientMoves, Disconnect, Disconnected, redisVars
  <2>2. status' \in Seq(Statuses) /\ handle' \in Nat
    <3>1. CASE \E c \in DOMAIN status : ClientMoves(c)
      <4>1. PICK c \in DOMAIN status, x \in Statuses : status' = [status EXCEPT ![c] = x]
        BY <3>1 DEF ClientMoves
      <4>2. status \in Seq(Statuses)
        BY DEF RedisInv, ClientType
      <4>3. status' \in Seq(Statuses)
        BY <4>1, <4>2
      <4> QED BY <3>1, <4>3 DEF ClientMoves, RedisInv, ClientType
    <3>2. CASE Disconnect \/ Disconnected \/ UNCHANGED redisVars
      BY <3>2 DEF Disconnect, Disconnected, redisVars, RedisInv, ClientType
    <3> QED BY <1>6, <3>1, <3>2
  <2> QED BY <2>1, <2>2 DEF RedisInv, ClientType, QueueExact, CountExact, QueueMembers, Holders, Waiting
<1> QED BY <1>1, <1>2, <1>3, <1>4, <1>5, <1>6 DEF RedisNext

-----------------------------------------------------------------------------

\* The semaphore of utils/semaphore.js is exact: its counter is the number of calls
\* with a permit, nobody waits while one is free, and a waiter that timed out is
\* not handed one, whatever happens to the clients meanwhile.
THEOREM Permits == RedisSpec => []PermitsExact
<1>1. RedisInv => PermitsExact
  BY DEF RedisInv, QueueExact, CountExact, PermitsExact, Holders, Waiting, QueueMembers
<1> QED BY RedisInitInv, RedisStepInv, <1>1, PTL DEF RedisSpec

-----------------------------------------------------------------------------
(* A process, composed *)

\* Beside each other, the life cycle and the counters of a process keep their
\* promises, for every number of shutdowns, deliveries and processes in a row.
THEOREM ProcessesEndWell == ProcessSpec => []ProcessEndsWell
<1>1. ShutdownClean /\ CountersDurable => ProcessEndsWell
  BY DEF ProcessEndsWell
<1> QED BY <1>1, ShutdownsClean, CountersSafe, PTL DEF ProcessSpec

=============================================================================
