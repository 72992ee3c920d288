----------------------- MODULE WebhookDeliveryProofs -----------------------
(* Machine-checked proofs about WebhookDelivery, for any number of         *)
(* replicas, deliveries, crashes and Redis errors, and every maxAttempts   *)
(* and retryBatchSize; and about WebhookDispatch, for any number of        *)
(* dispatches, events, requests and faults, and any finite set of webhooks.*)
EXTENDS WebhookDelivery, WebhookDispatch, FiniteSetTheorems, SequenceTheorems, TLAPS

-----------------------------------------------------------------------------
(* The inductive invariant: what the token of a delivery (its place in the *)
(* retry queue, in a worker's batch, or inside attempt()) says about the   *)
(* stored record and about the HTTP requests already made.                 *)

NoToken(d) ==
  /\ d \notin retries
  /\ \A i \in Instance : d \notin batch[i]
  /\ \A a \in Agent : ~Busy(a, d)

\* Before create() nothing refers to the delivery.
Fresh(d) == record[d].status = "none" => NoToken(d) /\ accepted[d] = 0

\* ExclusiveAttempt for one delivery.
Exclusive(d) ==
  /\ \A a, b \in Agent : Busy(a, d) /\ Busy(b, d) => a = b
  /\ \A i, j \in Instance : d \in batch[i] /\ d \in batch[j] => i = j
  /\ \A i \in Instance, a \in Agent : ~(d \in batch[i] /\ Busy(a, d))
  /\ d \in retries =>
       /\ \A i \in Instance : d \notin batch[i]
       /\ \A a \in Agent : Busy(a, d) =>
            at[a].pc \in {"read", "write"} /\ at[a].status = "pending"

\* A terminal record has no token left that could change it.
Settled(d) == record[d].status \in {"success", "failed"} => NoToken(d)

\* After a 2xx the only token left is the attempt recording that success.
Recorded(d) ==
  /\ accepted[d] <= 1
  /\ accepted[d] = 1 =>
       /\ d \notin retries
       /\ \A i \in Instance : d \notin batch[i]
       /\ \A a \in Agent : Busy(a, d) =>
            at[a].pc \in {"read", "write"} /\ at[a].status = "success"

\* The deliveries that can have pushed d out of an index.
NewerThan(d) == {e \in Delivery : SameWebhook(d, e) /\ e > d /\ record[e].status # "none"}

\* StatusIndexExact for one delivery.
Indexed(d) ==
  /\ index[d] \subseteq {record[d].status} \ {"none"}
  /\ record[d].status # "none" /\ index[d] = {} => AtLeast(RecentDeliveries, NewerThan(d))

\* update() carries a real status, and writes over the record it has read.
Recording(a) ==
  /\ at[a].pc \in {"read", "write"} => at[a].status # "none"
  /\ at[a].pc = "write" => at[a].existing = record[at[a].id]

Inv ==
  /\ TypeOK
  /\ \A d \in Delivery : Fresh(d) /\ Exclusive(d) /\ Settled(d) /\ Recorded(d)
                         /\ Indexed(d)
  /\ \A a \in Agent : Recording(a)

-----------------------------------------------------------------------------
(* What a step does to the status indexes. *)

LEMMA AtLeastGrows ==
  ASSUME NEW n, NEW S, NEW T, S \subseteq T, AtLeast(n, S)
  PROVE  AtLeast(n, T)
<1>1. PICK R \in SUBSET S : IsFiniteSet(R) /\ Cardinality(R) = n
  BY DEF AtLeast
<1>2. R \in SUBSET T
  OBVIOUS
<1> QED BY <1>1, <1>2 DEF AtLeast

LEMMA IndexStays ==
  ASSUME NEW d \in Delivery, Indexed(d), UNCHANGED <<record, index>>
  PROVE  Indexed(d)'
<1>1. NewerThan(d)' = NewerThan(d)
  BY DEF NewerThan
<1> QED BY <1>1 DEF Indexed

\* The newer members an index has once d is written to it.
Pushers(entries, d, s, e) ==
  {f \in Delivery : SameWebhook(e, f) /\ f > e /\ (f = d \/ s \in entries[f])}

\* queueIndexWrite adds d at most, and what it drops has enough newer members.
LEMMA IndexWrite ==
  ASSUME NEW entries \in [Delivery -> SUBSET Statuses], NEW d \in Delivery, NEW s \in Statuses
  PROVE  /\ queueIndexWrite(entries, d, s) \in [Delivery -> SUBSET Statuses]
         /\ \A e \in Delivery : queueIndexWrite(entries, d, s)[e] \subseteq
              IF e = d THEN entries[e] \cup {s} ELSE entries[e]
         /\ \A e \in Delivery :
              (\/ \E t \in entries[e] : t \notin queueIndexWrite(entries, d, s)[e]
               \/ e = d /\ s \notin queueIndexWrite(entries, d, s)[e]) =>
              AtLeast(RecentDeliveries, Pushers(entries, d, s, e))
<1> DEFINE members == {e \in Delivery : SameWebhook(d, e) /\ (e = d \/ s \in entries[e])}
           evicted == {e \in members : AtLeast(RecentDeliveries, {f \in members : f > e})}
<1>1. queueIndexWrite(entries, d, s) =
        [e \in Delivery |-> IF e \in evicted THEN entries[e] \ {s}
                            ELSE IF e = d THEN entries[e] \cup {s} ELSE entries[e]]
  BY DEF queueIndexWrite
<1>2. ASSUME NEW e \in evicted
      PROVE  AtLeast(RecentDeliveries, Pushers(entries, d, s, e))
  <2>1. AtLeast(RecentDeliveries, {f \in members : f > e})
    OBVIOUS
  <2>2. {f \in members : f > e} \subseteq Pushers(entries, d, s, e)
    BY DEF SameWebhook, Pushers
  <2> HIDE DEF members
  <2> QED BY <2>1, <2>2, AtLeastGrows
<1> HIDE DEF evicted
<1> QED BY <1>1, <1>2

\* Writing d to the index of its new status keeps every delivery rightly listed.
LEMMA ListedMoves ==
  ASSUME Inv, NEW d \in Delivery, NEW s \in Statuses \ {"none"},
         index' = queueIndexWrite([index EXCEPT ![d] = {}], d, s),
         record'[d].status = s,
         \A e \in Delivery : e # d => record'[e] = record[e]
  PROVE  index' \in [Delivery -> SUBSET Statuses] /\ \A e \in Delivery : Indexed(e)'
<1> DEFINE entries == [index EXCEPT ![d] = {}]
<1>1. /\ entries \in [Delivery -> SUBSET Statuses] /\ entries[d] = {}
      /\ \A e \in Delivery : e # d => entries[e] = index[e]
  BY DEF Inv, TypeOK
<1>2. \A e \in Delivery : index[e] \subseteq {record[e].status} \ {"none"}
  BY DEF Inv, Indexed
<1>3. \A e \in Delivery : record[e].status # "none" => record'[e].status # "none"
  OBVIOUS
<1>4. /\ index' \in [Delivery -> SUBSET Statuses]
      /\ \A e \in Delivery : index'[e] \subseteq IF e = d THEN entries[e] \cup {s} ELSE entries[e]
      /\ \A e \in Delivery :
           (\/ \E t \in entries[e] : t \notin index'[e]
            \/ e = d /\ s \notin index'[e]) => AtLeast(RecentDeliveries, Pushers(entries, d, s, e))
  <2> HIDE DEF entries
  <2>1. index' = queueIndexWrite(entries, d, s)
    BY DEF entries
  <2>2. s \in Statuses
    OBVIOUS
  <2>3. /\ queueIndexWrite(entries, d, s) \in [Delivery -> SUBSET Statuses]
        /\ \A e \in Delivery : queueIndexWrite(entries, d, s)[e] \subseteq
             IF e = d THEN entries[e] \cup {s} ELSE entries[e]
        /\ \A e \in Delivery :
             (\/ \E t \in entries[e] : t \notin queueIndexWrite(entries, d, s)[e]
              \/ e = d /\ s \notin queueIndexWrite(entries, d, s)[e]) =>
             AtLeast(RecentDeliveries, Pushers(entries, d, s, e))
    BY <1>1, <2>2, IndexWrite
  <2> QED BY <2>1, <2>3, Zenon
<1>5. \A e \in Delivery : Pushers(entries, d, s, e) \subseteq NewerThan(e)'
  BY <1>1, <1>2 DEF NewerThan, Pushers
<1>6. \A e \in Delivery : NewerThan(e) \subseteq NewerThan(e)'
  BY <1>3 DEF NewerThan
<1> HIDE DEF entries
<1>7. ASSUME NEW e \in Delivery PROVE Indexed(e)'
  <2>1. index'[e] \subseteq {record'[e].status} \ {"none"}
    BY <1>1, <1>2, <1>4
  <2>2. ASSUME record'[e].status # "none", index'[e] = {}
        PROVE  AtLeast(RecentDeliveries, NewerThan(e)')
    <3>1. CASE e # d /\ index[e] = {}
      <4>1. AtLeast(RecentDeliveries, NewerThan(e))
        BY <2>2, <3>1 DEF Inv, Indexed
      <4> QED BY <4>1, <1>6, AtLeastGrows
    <3>2. CASE e = d \/ index[e] # {}
      <4>1. AtLeast(RecentDeliveries, Pushers(entries, d, s, e))
        BY <3>2, <2>2, <1>1, <1>4
      <4> QED BY <4>1, <1>5, AtLeastGrows
    <3> QED BY <3>1, <3>2
  <2> QED BY <2>1, <2>2 DEF Indexed
<1> QED BY <1>4, <1>7

-----------------------------------------------------------------------------
(* What a step does to the agent taking it. *)

\* Values an agent's place in attempt() may move to.
LEMMA AgentValues ==
  /\ Idle \in AgentType /\ Idle.pc = "idle" /\ Idle.id = None
  /\ \A d \in Delivery, pc \in {"payload", "find"} :
       Begin(d, pc) \in AgentType /\ Begin(d, pc).pc = pc /\ Begin(d, pc).id = d
  BY DEF Idle, Begin, NoRecord, AgentType, RecordType, Statuses, Steps

\* Agent a alone moves, and stays well formed.
LEMMA AgentMoves ==
  ASSUME TypeOK, NEW a \in Agent, NEW new \in AgentType,
         (new.id = None) <=> (new.pc = "idle"),
         at' = [at EXCEPT ![a] = new]
  PROVE  /\ at' \in [Agent -> AgentType]
         /\ at'[a] = new
         /\ \A b \in Agent : b # a => at'[b] = at[b]
         /\ \A b \in Agent : (at'[b].id = None) <=> (at'[b].pc = "idle")
<1>1. at \in [Agent -> AgentType] /\ \A b \in Agent : (at[b].id = None) <=> (at[b].pc = "idle")
  BY DEF TypeOK
<1>2. at' \in [Agent -> AgentType] /\ at'[a] = new /\ \A b \in Agent : b # a => at'[b] = at[b]
  BY <1>1
<1>3. ASSUME NEW b \in Agent PROVE (at'[b].id = None) <=> (at'[b].pc = "idle")
  <2>1. CASE b = a
    BY <2>1, <1>2
  <2>2. CASE b # a
    BY <2>2, <1>1, <1>2
  <2> QED BY <2>1, <2>2
<1> QED BY <1>2, <1>3

\* A legal move of agent a inside attempt(): it keeps its delivery or drops
\* it, and once it is recording an outcome it does not change its mind.
Move(a, new) ==
  /\ new.id \in {at[a].id, None}
  /\ (new.id = None) <=> (new.pc = "idle")
  /\ new.pc \in {"read", "write"} => new.status # "none"
  /\ new.pc = "write" => new.existing = record[new.id]
  /\ \/ at[a].pc \notin {"read", "write"}
     \/ new.id = None
     \/ new.pc \in {"read", "write"} /\ new.status = at[a].status

\* Steps of attempt() that touch neither the record, its indexes, the retry
\* queue, the batches nor the receiver preserve the invariant.
LEMMA QuietStep ==
  ASSUME Inv, NEW a \in Agent, NEW new \in AgentType,
         at[a].pc # "idle", Move(a, new),
         at' = [at EXCEPT ![a] = new],
         UNCHANGED <<record, index, retries, owner, batch, history>>,
         deadLetter' \in [Delivery -> Nat],
         crashes' \in 0..MaxCrashes, redisErrors' \in 0..MaxRedisErrors
  PROVE  Inv'
<1>1. /\ at' \in [Agent -> AgentType]
      /\ at'[a] = new
      /\ \A b \in Agent : b # a => at'[b] = at[b]
      /\ \A b \in Agent : (at'[b].id = None) <=> (at'[b].pc = "idle")
  BY AgentMoves DEF Move, Inv
<1>2. TypeOK'
  BY <1>1 DEF Inv, TypeOK, history
<1>3. \A b \in Agent, e \in Delivery : Busy(b, e)' => Busy(b, e)
  BY <1>1, DeliveryConfig DEF Busy, Move
<1>4. ASSUME NEW e \in Delivery PROVE Fresh(e)' /\ Settled(e)'
  BY <1>3 DEF Inv, Fresh, Settled, NoToken, history
<1>5. ASSUME NEW e \in Delivery PROVE Exclusive(e)'
  <2>1. \A b \in Agent : e \in retries /\ Busy(b, e)' =>
          at'[b].pc \in {"read", "write"} /\ at'[b].status = "pending"
    BY <1>1, <1>3, DeliveryConfig DEF Inv, Exclusive, Busy, Move
  <2> QED BY <2>1, <1>3, Zenon DEF Inv, Exclusive
<1>6. ASSUME NEW e \in Delivery PROVE Recorded(e)'
  <2>1. \A b \in Agent : accepted[e] = 1 /\ Busy(b, e)' =>
          at'[b].pc \in {"read", "write"} /\ at'[b].status = "success"
    BY <1>1, <1>3, DeliveryConfig DEF Inv, Recorded, Busy, Move
  <2> QED BY <2>1 DEF Inv, Recorded, history
<1>7. ASSUME NEW e \in Delivery PROVE Indexed(e)'
  BY IndexStays DEF Inv
<1>8. ASSUME NEW b \in Agent PROVE Recording(b)'
  <2>1. CASE b = a
    BY <2>1, <1>1 DEF Recording, Move
  <2>2. CASE b # a
    BY <2>2, <1>1 DEF Inv, Recording
  <2> QED BY <2>1, <2>2
<1> QED BY <1>2, <1>4, <1>5, <1>6, <1>7, <1>8 DEF Inv

\* Leaving attempt() is always a legal move.
LEMMA ReturnMoves ==
  ASSUME NEW a \in Agent
  PROVE  Idle \in AgentType /\ Move(a, Idle)
  BY AgentValues DEF Move

\* A step that counts a Redis error stays within its bound.
LEMMA ErrorBound ==
  ASSUME TypeOK, UNCHANGED faults \/ RedisError
  PROVE  crashes' \in 0..MaxCrashes /\ redisErrors' \in 0..MaxRedisErrors
  BY DeliveryConfig DEF TypeOK, faults, RedisError

-----------------------------------------------------------------------------
(* One lemma per action. *)

LEMMA InitInv == Init => Inv
<1> SUFFICES ASSUME Init PROVE Inv
  OBVIOUS
<1>1. TypeOK
  BY AgentValues, DeliveryConfig DEF Init, TypeOK, NoRecord, RecordType, Statuses
<1>2. \A a \in Agent : at[a].pc = "idle" /\ at[a].id = None
  BY AgentValues DEF Init
<1>3. ASSUME NEW d \in Delivery PROVE NoToken(d)
  BY <1>2, DeliveryConfig DEF Init, NoToken, Busy
<1> QED
  BY <1>1, <1>2, <1>3
  DEF Init, Inv, Fresh, Exclusive, Settled, Recorded, Indexed, Recording, NoToken, NoRecord

LEMMA SavePayloadInv ==
  ASSUME Inv, NEW d \in Delivery, SavePayload(d)
  PROVE  Inv'
<1> DEFINE next == [at[d] EXCEPT !.pc = "find"]
<1>1. d \in Agent /\ at[d] \in AgentType /\ at[d].pc = "payload"
  BY DEF Inv, TypeOK, Agent, SavePayload
<1>2. next \in AgentType /\ Move(d, next)
  <2>1. next \in AgentType /\ next.pc = "find" /\ next.id = at[d].id
    BY <1>1 DEF AgentType, Steps
  <2>2. (at[d].id = None) <=> (at[d].pc = "idle")
    BY <1>1 DEF Inv, TypeOK
  <2> QED BY <2>1, <2>2, <1>1 DEF Move
<1>3. at' = [at EXCEPT ![d] = next] \/ at' = [at EXCEPT ![d] = Idle]
  BY <1>1 DEF SavePayload, Goto, Return, Inv, TypeOK
<1>4. /\ crashes' \in 0..MaxCrashes /\ redisErrors' \in 0..MaxRedisErrors
      /\ deadLetter' \in [Delivery -> Nat]
  BY ErrorBound DEF SavePayload, Inv, TypeOK
<1>5. UNCHANGED <<record, index, retries, owner, batch, history>>
  BY DEF SavePayload
<1> HIDE DEF next
<1> QED BY <1>1, <1>2, <1>3, <1>4, <1>5, ReturnMoves, QuietStep

LEMMA FindByIdInv ==
  ASSUME Inv, NEW a \in Agent, FindById(a)
  PROVE  Inv'
<1> DEFINE next == [at[a] EXCEPT !.pc = "webhook", !.snapshot = record[at[a].id].attempts]
<1>1. /\ at[a] \in AgentType /\ at[a].pc = "find"
      /\ (at[a].id = None) <=> (at[a].pc = "idle")
  BY DEF Inv, TypeOK, FindById
<1>2. next \in AgentType /\ Move(a, next)
  <2>1. record[at[a].id].attempts \in Nat
    BY <1>1 DEF Inv, TypeOK, AgentType, RecordType
  <2>2. next \in AgentType /\ next.pc = "webhook" /\ next.id = at[a].id
    BY <2>1, <1>1 DEF AgentType, Steps
  <2> QED BY <2>2, <1>1 DEF Move
<1>3. at' = [at EXCEPT ![a] = next] \/ at' = [at EXCEPT ![a] = Idle]
  BY <1>1 DEF FindById, Return, Inv, TypeOK
<1>4. /\ crashes' \in 0..MaxCrashes /\ redisErrors' \in 0..MaxRedisErrors
      /\ deadLetter' \in [Delivery -> Nat]
  BY ErrorBound DEF FindById, Inv, TypeOK
<1>5. UNCHANGED <<record, index, retries, owner, batch, history>>
  BY DEF FindById
<1> HIDE DEF next
<1> QED BY <1>1, <1>2, <1>3, <1>4, <1>5, ReturnMoves, QuietStep

LEMMA GetWebhookInv ==
  ASSUME Inv, NEW a \in Agent, GetWebhook(a)
  PROVE  Inv'
<1> DEFINE found == [at[a] EXCEPT !.pc = "post"]
           missing == [at[a] EXCEPT !.pc = "read", !.status = "failed", !.attempts = 0]
<1>1. /\ at[a] \in AgentType /\ at[a].pc = "webhook"
      /\ (at[a].id = None) <=> (at[a].pc = "idle")
  BY DEF Inv, TypeOK, GetWebhook
<1>2. found \in AgentType /\ Move(a, found)
  <2>1. found \in AgentType /\ found.pc = "post" /\ found.id = at[a].id
    BY <1>1 DEF AgentType, Steps
  <2> QED BY <2>1, <1>1 DEF Move
<1>3. missing \in AgentType /\ Move(a, missing)
  <2>1. /\ missing \in AgentType /\ missing.pc = "read" /\ missing.id = at[a].id
        /\ missing.status = "failed"
    BY <1>1 DEF AgentType, Steps, Statuses
  <2> QED BY <2>1, <1>1 DEF Move
<1>4. \/ at' = [at EXCEPT ![a] = found]
      \/ at' = [at EXCEPT ![a] = missing]
      \/ at' = [at EXCEPT ![a] = Idle]
  BY <1>1 DEF GetWebhook, Goto, Patch, Return, Inv, TypeOK
<1>5. /\ crashes' \in 0..MaxCrashes /\ redisErrors' \in 0..MaxRedisErrors
      /\ deadLetter' \in [Delivery -> Nat]
  BY ErrorBound DEF GetWebhook, Inv, TypeOK
<1>6. UNCHANGED <<record, index, retries, owner, batch, history>>
  BY DEF GetWebhook
<1> HIDE DEF found, missing
<1> QED BY <1>1, <1>2, <1>3, <1>4, <1>5, <1>6, ReturnMoves, QuietStep

LEMMA DeadLetterInv ==
  ASSUME Inv, NEW a \in Agent, DeadLetter(a)
  PROVE  Inv'
<1> DEFINE next == [at[a] EXCEPT !.pc = "read", !.status = "failed"]
<1>1. /\ at[a] \in AgentType /\ at[a].pc = "deadLetter"
      /\ (at[a].id = None) <=> (at[a].pc = "idle")
  BY DEF Inv, TypeOK, DeadLetter
<1>2. next \in AgentType /\ Move(a, next)
  <2>1. /\ next \in AgentType /\ next.pc = "read" /\ next.id = at[a].id
        /\ next.status = "failed"
    BY <1>1 DEF AgentType, Steps, Statuses
  <2> QED BY <2>1, <1>1 DEF Move
<1>3. at' = [at EXCEPT ![a] = next]
  <2>1. [at[a] EXCEPT !.pc = "read", !.status = "failed", !.attempts = at[a].attempts] = next
    BY <1>1 DEF AgentType
  <2> QED BY <2>1 DEF DeadLetter, Patch, Inv, TypeOK
<1>4. deadLetter' \in [Delivery -> Nat]
  BY DEF DeadLetter, Inv, TypeOK
<1>5. crashes' \in 0..MaxCrashes /\ redisErrors' \in 0..MaxRedisErrors
  BY ErrorBound DEF DeadLetter, Inv
<1>6. UNCHANGED <<record, index, retries, owner, batch, history>>
  BY DEF DeadLetter
<1> HIDE DEF next
<1> QED BY <1>1, <1>2, <1>3, <1>4, <1>5, <1>6, QuietStep

LEMMA UpdateReadInv ==
  ASSUME Inv, NEW a \in Agent, UpdateRead(a)
  PROVE  Inv'
<1> DEFINE next == [at[a] EXCEPT !.pc = "write", !.existing = record[at[a].id]]
<1>1. /\ at[a] \in AgentType /\ at[a].pc = "read"
      /\ (at[a].id = None) <=> (at[a].pc = "idle")
      /\ at[a].status # "none"
  BY DEF Inv, TypeOK, UpdateRead, Recording
<1>2. next \in AgentType /\ Move(a, next)
  <2>1. record[at[a].id] \in RecordType
    BY <1>1 DEF Inv, TypeOK, AgentType
  <2>2. /\ next \in AgentType /\ next.pc = "write" /\ next.id = at[a].id
        /\ next.existing = record[at[a].id] /\ next.status = at[a].status
    BY <2>1, <1>1 DEF AgentType, Steps
  <2> QED BY <2>2, <1>1 DEF Move
<1>3. at' = [at EXCEPT ![a] = next] \/ at' = [at EXCEPT ![a] = Idle]
  BY <1>1 DEF UpdateRead, Return, Inv, TypeOK
<1>4. /\ crashes' \in 0..MaxCrashes /\ redisErrors' \in 0..MaxRedisErrors
      /\ deadLetter' \in [Delivery -> Nat]
  BY ErrorBound DEF UpdateRead, Inv, TypeOK
<1>5. UNCHANGED <<record, index, retries, owner, batch, history>>
  BY DEF UpdateRead
<1> HIDE DEF next
<1> QED BY <1>1, <1>2, <1>3, <1>4, <1>5, ReturnMoves, QuietStep

\* create() is the only way a delivery gets its first token.
LEMMA CreateInv ==
  ASSUME Inv, NEW d \in Delivery, NEW i \in Instance, Create(d, i)
  PROVE  Inv'
<1> DEFINE new == Begin(d, "payload")
<1>1. new \in AgentType /\ new.pc = "payload" /\ new.id = d /\ d # None /\ d \in Agent
  BY AgentValues, DeliveryConfig DEF Agent
<1>2. at' = [at EXCEPT ![d] = new] \/ at' = at
  BY DEF Create
<1> HIDE DEF new
<1>3. /\ at' \in [Agent -> AgentType]
      /\ at'[d] = new \/ at'[d] = at[d]
      /\ \A b \in Agent : b # d => at'[b] = at[b]
      /\ \A b \in Agent : (at'[b].id = None) <=> (at'[b].pc = "idle")
  <2>1. CASE at' = [at EXCEPT ![d] = new]
    BY <2>1, <1>1, AgentMoves DEF Inv
  <2>2. CASE at' = at
    BY <2>2 DEF Inv, TypeOK
  <2> QED BY <1>2, <2>1, <2>2
<1>4. /\ record' \in [Delivery -> RecordType]
      /\ record'[d].status = "pending"
      /\ \A e \in Delivery : e # d => record'[e] = record[e]
  BY DEF Create, Inv, TypeOK, RecordType, Statuses
<1>5. index' \in [Delivery -> SUBSET Statuses] /\ \A e \in Delivery : Indexed(e)'
  <2>1. index[d] = {}
    BY DEF Create, Inv, Indexed
  <2>2. index = [index EXCEPT ![d] = {}]
    BY <2>1 DEF Inv, TypeOK
  <2>3. index' = queueIndexWrite([index EXCEPT ![d] = {}], d, "pending")
    BY <2>2, Zenon DEF Create
  <2>4. "pending" \in Statuses \ {"none"}
    BY DEF Statuses
  <2> QED BY <2>3, <2>4, <1>4, ListedMoves
<1>6. TypeOK'
  BY <1>3, <1>4, <1>5, ErrorBound DEF Create, Inv, TypeOK, history, faults
<1>7. NoToken(d) /\ accepted[d] = 0
  BY DEF Create, Inv, Fresh
<1>8. UNCHANGED <<retries, batch, accepted>>
  BY DEF Create, history
<1>9. \A b \in Agent, e \in Delivery : Busy(b, e)' => Busy(b, e) \/ (b = d /\ e = d)
  BY <1>1, <1>3 DEF Busy
<1>10. ASSUME NEW e \in Delivery PROVE Fresh(e)' /\ Settled(e)'
  <2>1. CASE e = d
    BY <2>1, <1>4 DEF Fresh, Settled
  <2>2. CASE e # d
    BY <2>2, <1>4, <1>8, <1>9 DEF Inv, Fresh, Settled, NoToken
  <2> QED BY <2>1, <2>2
<1>11. ASSUME NEW e \in Delivery PROVE Exclusive(e)'
  <2>1. CASE e = d
    BY <2>1, <1>7, <1>8, <1>9 DEF Exclusive, NoToken
  <2>2. CASE e # d
    BY <2>2, <1>1, <1>3, <1>8, <1>9 DEF Inv, Exclusive, Busy
  <2> QED BY <2>1, <2>2
<1>12. ASSUME NEW e \in Delivery PROVE Recorded(e)'
  <2>1. CASE e = d
    BY <2>1, <1>7, <1>8 DEF Recorded
  <2>2. CASE e # d
    BY <2>2, <1>1, <1>3, <1>8, <1>9 DEF Inv, Recorded, Busy
  <2> QED BY <2>1, <2>2
<1>13. ASSUME NEW b \in Agent PROVE Recording(b)'
  <2>1. CASE at'[b] = new
    BY <2>1, <1>1 DEF Recording
  <2>2. CASE at'[b] = at[b]
    <3>1. at'[b] = at[b] /\ at[b] \in AgentType /\ ~Busy(b, d)
      BY <2>2, <1>7 DEF Inv, TypeOK, NoToken
    <3>2. at[b].pc = "write" => record'[at[b].id] = record[at[b].id]
      BY <3>1, <1>4 DEF Busy, Inv, TypeOK, AgentType
    <3> QED BY <3>1, <3>2 DEF Inv, Recording
  <2> QED BY <2>1, <2>2, <1>3
<1> QED BY <1>5, <1>6, <1>10, <1>11, <1>12, <1>13 DEF Inv

\* Popping moves tokens from the queue to one batch, or loses them.
LEMMA PopDueRetriesInv ==
  ASSUME Inv, NEW i \in Instance, NEW ids \in SUBSET Delivery, PopDueRetries(i, ids)
  PROVE  Inv'
<1>1. /\ retries' = retries \ ids
      /\ ids \subseteq retries
      /\ batch[i] = {}
      /\ \A d \in ids : \A a \in Agent : ~Busy(a, d)
      /\ UNCHANGED <<record, index, deadLetter, owner, at, history>>
  BY DEF PopDueRetries, Due
<1>2. batch' = [batch EXCEPT ![i] = ids] \/ batch' = batch
  BY DEF PopDueRetries
<1>3. /\ batch' \in [Instance -> SUBSET Delivery]
      /\ batch'[i] \subseteq ids
      /\ \A j \in Instance : j # i => batch'[j] = batch[j]
  BY <1>1, <1>2 DEF Inv, TypeOK
<1>4. TypeOK'
  <2>1. crashes' \in 0..MaxCrashes /\ redisErrors' \in 0..MaxRedisErrors
    BY ErrorBound DEF PopDueRetries, Inv
  <2> QED BY <2>1, <1>1, <1>3 DEF Inv, TypeOK, history
<1>5. \A e \in Delivery : NoToken(e) => NoToken(e)'
  BY <1>1, <1>3 DEF NoToken, Busy
<1>6. ASSUME NEW e \in Delivery PROVE Fresh(e)' /\ Settled(e)' /\ Indexed(e)'
  <2>1. Indexed(e)'
    BY <1>1, IndexStays DEF Inv
  <2> QED BY <2>1, <1>5, <1>1 DEF Inv, Fresh, Settled, history
<1>7. ASSUME NEW e \in Delivery PROVE Exclusive(e)'
  <2>1. CASE e \in ids
    <3>1. e \notin retries' /\ \A j \in Instance : j # i => e \notin batch'[j]
      BY <2>1, <1>1, <1>3 DEF Inv, Exclusive
    <3>2. \A a \in Agent : ~Busy(a, e)'
      BY <2>1, <1>1 DEF Busy
    <3> QED BY <3>1, <3>2 DEF Exclusive
  <2>2. CASE e \notin ids
    <3>1. \A j \in Instance : e \in batch'[j] => e \in batch[j]
      BY <2>2, <1>1, <1>3
    <3>2. (e \in retries' => e \in retries) /\ at' = at
      BY <1>1
    <3> QED BY <3>1, <3>2 DEF Inv, Exclusive, Busy
  <2> QED BY <2>1, <2>2
<1>8. ASSUME NEW e \in Delivery PROVE Recorded(e)'
  <2>1. \A j \in Instance : e \in batch'[j] => e \in batch[j] \/ e \in retries
    BY <1>1, <1>3
  <2>2. (e \in retries' => e \in retries) /\ at' = at /\ accepted' = accepted
    BY <1>1 DEF history
  <2> QED BY <2>1, <2>2 DEF Inv, Recorded, Busy
<1>9. ASSUME NEW b \in Agent PROVE Recording(b)'
  BY <1>1 DEF Inv, Recording
<1> QED BY <1>4, <1>6, <1>7, <1>8, <1>9 DEF Inv

\* Beginning a popped attempt moves its token from the batch to the worker.
LEMMA NextOfBatchInv ==
  ASSUME Inv, NEW i \in Instance, NEW d \in Delivery, NextOfBatch(i, d)
  PROVE  Inv'
<1> DEFINE new == Begin(d, "find")
<1>1. new \in AgentType /\ new.pc = "find" /\ new.id = d /\ d # None /\ i \in Agent
  BY AgentValues, DeliveryConfig DEF Agent
<1>2. at' = [at EXCEPT ![i] = new]
  BY DEF NextOfBatch
<1> HIDE DEF new
<1>3. /\ at' \in [Agent -> AgentType]
      /\ at'[i] = new
      /\ \A b \in Agent : b # i => at'[b] = at[b]
      /\ \A b \in Agent : (at'[b].id = None) <=> (at'[b].pc = "idle")
  BY <1>1, <1>2, AgentMoves DEF Inv
<1>4. /\ d \in batch[i]
      /\ batch' \in [Instance -> SUBSET Delivery]
      /\ batch'[i] = batch[i] \ {d}
      /\ \A j \in Instance : j # i => batch'[j] = batch[j]
  BY DEF NextOfBatch, Inv, TypeOK
<1>5. UNCHANGED <<record, index, retries, deadLetter, owner, posts, accepted, crashes, redisErrors>>
  BY DEF NextOfBatch, history, faults
<1>6. TypeOK'
  BY <1>3, <1>4, <1>5 DEF Inv, TypeOK
<1>7. \A b \in Agent, e \in Delivery : Busy(b, e)' => Busy(b, e) \/ (b = i /\ e = d)
  BY <1>1, <1>3 DEF Busy
<1>8. \A j \in Instance, e \in Delivery : e \in batch'[j] => e \in batch[j]
  BY <1>4
<1>9. \A j \in Instance : d \notin batch'[j]
  BY <1>4 DEF Inv, Exclusive
<1>10. d \notin retries /\ \A b \in Agent : ~Busy(b, d)
  BY <1>4 DEF Inv, Exclusive
<1>11. ASSUME NEW e \in Delivery PROVE Fresh(e)' /\ Settled(e)' /\ Indexed(e)'
  <2>1. Indexed(e)'
    BY <1>5, IndexStays DEF Inv
  <2>2. CASE e = d
    BY <2>1, <2>2, <1>4, <1>5 DEF Inv, Fresh, Settled, NoToken
  <2>3. CASE e # d
    BY <2>1, <2>3, <1>5, <1>7, <1>8 DEF Inv, Fresh, Settled, NoToken
  <2> QED BY <2>2, <2>3
<1>12. ASSUME NEW e \in Delivery PROVE Exclusive(e)'
  <2>1. CASE e = d
    BY <2>1, <1>5, <1>7, <1>9, <1>10 DEF Exclusive
  <2>2. CASE e # d
    BY <2>2, <1>1, <1>3, <1>5, <1>7, <1>8 DEF Inv, Exclusive, Busy
  <2> QED BY <2>1, <2>2
<1>13. ASSUME NEW e \in Delivery PROVE Recorded(e)'
  <2>1. CASE e = d
    BY <2>1, <1>4, <1>5, DeliveryConfig DEF Inv, Recorded
  <2>2. CASE e # d
    BY <2>2, <1>1, <1>3, <1>5, <1>7, <1>8 DEF Inv, Recorded, Busy
  <2> QED BY <2>1, <2>2
<1>14. ASSUME NEW b \in Agent PROVE Recording(b)'
  <2>1. CASE b = i
    BY <2>1, <1>1, <1>3 DEF Recording
  <2>2. CASE b # i
    BY <2>2, <1>3, <1>5 DEF Inv, Recording
  <2> QED BY <2>1, <2>2
<1> QED BY <1>6, <1>11, <1>12, <1>13, <1>14 DEF Inv

\* A POST is made by the only token of its delivery, none accepted before.
LEMMA PostInv ==
  ASSUME Inv, NEW a \in Agent, NEW outcome \in Outcome, Post(a, outcome)
  PROVE  Inv'
<1> DEFINE d == at[a].id
           new == IF outcome = "2xx"
                    THEN [at[a] EXCEPT !.pc = "read", !.status = "success",
                                       !.attempts = at[a].snapshot + 1]
                    ELSE [at[a] EXCEPT !.attempts = at[a].snapshot + 1,
                            !.pc = IF outcome = "retryable" /\ at[a].snapshot + 1 < MaxAttempts
                                     THEN "schedule" ELSE "deadLetter"]
<1>1. at[a] \in AgentType /\ at[a].pc = "post" /\ d \in Delivery
  BY DEF Inv, TypeOK, AgentType, Post
<1>2. /\ new \in AgentType /\ new.id = d
      /\ new.pc \in {"read", "schedule", "deadLetter"}
      /\ new.pc = "read" => new.status = "success"
      /\ outcome = "2xx" => new.pc = "read"
  <2>1. at[a].snapshot + 1 \in Nat
    BY <1>1 DEF AgentType
  <2>2. CASE outcome = "2xx"
    BY <2>1, <2>2, <1>1 DEF AgentType, Steps, Statuses
  <2>3. CASE outcome # "2xx"
    <3>1. PICK pc \in {"schedule", "deadLetter"} :
            new = [at[a] EXCEPT !.attempts = at[a].snapshot + 1, !.pc = pc]
      BY <2>3
    <3> QED BY <2>1, <2>3, <3>1, <1>1 DEF AgentType, Steps
  <2> QED BY <2>2, <2>3
<1>3. at' = [at EXCEPT ![a] = new]
  BY <1>1 DEF Post, Patch, Inv, TypeOK
<1> HIDE DEF new
<1>4. /\ at' \in [Agent -> AgentType]
      /\ at'[a] = new
      /\ \A b \in Agent : b # a => at'[b] = at[b]
      /\ \A b \in Agent : (at'[b].id = None) <=> (at'[b].pc = "idle")
  <2>1. (new.id = None) <=> (new.pc = "idle")
    BY <1>1, <1>2, DeliveryConfig
  <2> QED BY <2>1, <1>2, <1>3, AgentMoves DEF Inv
<1>5. /\ posts' \in [Delivery -> Nat]
      /\ accepted' \in [Delivery -> Nat]
      /\ accepted'[d] \in {accepted[d], accepted[d] + 1}
      /\ accepted'[d] = accepted[d] + 1 => outcome = "2xx"
      /\ \A e \in Delivery : e # d => accepted'[e] = accepted[e]
  BY <1>1 DEF Post, Inv, TypeOK
<1>6. UNCHANGED <<record, index, retries, deadLetter, owner, batch, crashes, redisErrors>>
  BY DEF Post, faults
<1>7. TypeOK'
  BY <1>4, <1>5, <1>6 DEF Inv, TypeOK
<1>8. /\ d \notin retries /\ \A i \in Instance : d \notin batch[i]
      /\ \A b \in Agent : Busy(b, d) => b = a
      /\ accepted[d] = 0
      /\ record[d].status # "none"
  <2>1. Busy(a, d)
    BY DEF Busy
  <2>2. accepted[d] \in Nat
    BY <1>1 DEF Inv, TypeOK
  <2>3. accepted[d] = 0
    BY <2>1, <2>2, <1>1 DEF Inv, Recorded
  <2> QED BY <2>1, <2>3, <1>1 DEF Inv, Exclusive, Fresh, NoToken
<1>9. \A b \in Agent, e \in Delivery : Busy(b, e)' <=> Busy(b, e)
  BY <1>2, <1>4 DEF Busy
<1>10. ASSUME NEW e \in Delivery PROVE Fresh(e)' /\ Settled(e)' /\ Indexed(e)'
  <2>1. Indexed(e)'
    BY <1>6, IndexStays DEF Inv
  <2> QED BY <2>1, <1>5, <1>6, <1>8, <1>9 DEF Inv, Fresh, Settled, NoToken
<1>11. ASSUME NEW e \in Delivery PROVE Exclusive(e)'
  <2>1. \A b \in Agent : e \in retries /\ Busy(b, e)' =>
          at'[b].pc \in {"read", "write"} /\ at'[b].status = "pending"
    BY <1>1, <1>4, <1>8, <1>9 DEF Inv, Exclusive, Busy
  <2> QED BY <2>1, <1>6, <1>9 DEF Inv, Exclusive
<1>12. ASSUME NEW e \in Delivery PROVE Recorded(e)'
  <2>1. CASE e = d
    <3>1. accepted'[e] \in {0, 1} /\ (accepted'[e] = 1 => outcome = "2xx")
      BY <2>1, <1>5, <1>8
    <3>2. \A b \in Agent : Busy(b, e)' => b = a
      BY <2>1, <1>8, <1>9
    <3> QED BY <2>1, <3>1, <3>2, <1>2, <1>4, <1>6, <1>8 DEF Recorded
  <2>2. CASE e # d
    <3>1. \A b \in Agent : Busy(b, e)' => at'[b] = at[b]
      BY <2>2, <1>2, <1>4 DEF Busy
    <3> QED BY <2>2, <3>1, <1>5, <1>6, <1>9 DEF Inv, Recorded
  <2> QED BY <2>1, <2>2
<1>13. ASSUME NEW b \in Agent PROVE Recording(b)'
  <2>1. CASE b = a
    BY <2>1, <1>2, <1>4 DEF Recording
  <2>2. CASE b # a
    BY <2>2, <1>4, <1>6 DEF Inv, Recording
  <2> QED BY <2>1, <2>2
<1> QED BY <1>7, <1>10, <1>11, <1>12, <1>13 DEF Inv

\* The id goes back to the queue while its attempt records "pending".
LEMMA ScheduleRetryInv ==
  ASSUME Inv, NEW a \in Agent, ScheduleRetry(a)
  PROVE  Inv'
<1> DEFINE d == at[a].id
           next == [at[a] EXCEPT !.pc = "read", !.status = "pending"]
<1>1. at[a] \in AgentType /\ at[a].pc = "schedule" /\ d \in Delivery
  BY DEF Inv, TypeOK, AgentType, ScheduleRetry
<1>2. /\ next \in AgentType /\ next.id = d /\ next.pc = "read"
      /\ next.status = "pending"
  BY <1>1 DEF AgentType, Steps, Statuses
<1>3. PICK new \in {next, Idle} : at' = [at EXCEPT ![a] = new]
  <2>1. [at[a] EXCEPT !.pc = "read", !.status = "pending", !.attempts = at[a].attempts] = next
    BY <1>1 DEF AgentType
  <2> QED BY <2>1 DEF ScheduleRetry, Patch, Return, Inv, TypeOK
<1> HIDE DEF next
<1>4. /\ new \in AgentType /\ new.id \in {d, None}
      /\ (new.id = None) <=> (new.pc = "idle")
      /\ new.id = d => new.pc = "read" /\ new.status = "pending"
      /\ new.pc # "write" /\ (new.pc = "read" => new.status # "none")
  BY <1>1, <1>2, AgentValues, DeliveryConfig
<1>5. /\ at' \in [Agent -> AgentType]
      /\ at'[a] = new
      /\ \A b \in Agent : b # a => at'[b] = at[b]
      /\ \A b \in Agent : (at'[b].id = None) <=> (at'[b].pc = "idle")
  BY <1>3, <1>4, AgentMoves DEF Inv
<1>6. retries' \in {retries, retries \cup {d}}
  BY DEF ScheduleRetry
<1>7. UNCHANGED <<record, index, deadLetter, owner, batch, posts, accepted>>
  BY DEF ScheduleRetry, history
<1>8. TypeOK'
  <2>1. crashes' \in 0..MaxCrashes /\ redisErrors' \in 0..MaxRedisErrors
    BY ErrorBound DEF ScheduleRetry, Inv
  <2> QED BY <2>1, <1>1, <1>5, <1>6, <1>7 DEF Inv, TypeOK
<1>9. \A b \in Agent, e \in Delivery : Busy(b, e)' => Busy(b, e)
  BY <1>4, <1>5, DeliveryConfig DEF Busy
<1>10. /\ \A i \in Instance : d \notin batch[i]
       /\ \A b \in Agent : Busy(b, d) => b = a
       /\ accepted[d] = 0
       /\ record[d].status \notin {"none", "success", "failed"}
  <2>1. Busy(a, d)
    BY DEF Busy
  <2>2. accepted[d] \in Nat
    BY <1>1 DEF Inv, TypeOK
  <2>3. accepted[d] = 0
    BY <2>1, <2>2, <1>1 DEF Inv, Recorded
  <2> QED BY <2>1, <2>3, <1>1 DEF Inv, Exclusive, Fresh, Settled, NoToken
<1>11. ASSUME NEW e \in Delivery PROVE Fresh(e)' /\ Settled(e)' /\ Indexed(e)'
  <2>1. Indexed(e)'
    BY <1>7, IndexStays DEF Inv
  <2> QED BY <2>1, <1>6, <1>7, <1>9, <1>10 DEF Inv, Fresh, Settled, NoToken
<1>12. ASSUME NEW e \in Delivery PROVE Exclusive(e)'
  <2>1. CASE e = d
    <3>1. \A b \in Agent : Busy(b, e)' => b = a
      BY <2>1, <1>9, <1>10
    <3>2. Busy(a, e)' => new.id = d
      BY <2>1, <1>5 DEF Busy
    <3> QED BY <2>1, <3>1, <3>2, <1>4, <1>5, <1>7, <1>10 DEF Exclusive
  <2>2. CASE e # d
    <3>1. \A b \in Agent : Busy(b, e)' => at'[b] = at[b]
      BY <2>2, <1>4, <1>5, DeliveryConfig DEF Busy
    <3>2. e \in retries' => e \in retries
      BY <2>2, <1>6
    <3> QED BY <3>1, <3>2, <1>7, <1>9 DEF Inv, Exclusive
  <2> QED BY <2>1, <2>2
<1>13. ASSUME NEW e \in Delivery PROVE Recorded(e)'
  <2>1. CASE e = d
    BY <2>1, <1>7, <1>10 DEF Recorded
  <2>2. CASE e # d
    <3>1. \A b \in Agent : Busy(b, e)' => at'[b] = at[b]
      BY <2>2, <1>4, <1>5, DeliveryConfig DEF Busy
    <3>2. e \in retries' => e \in retries
      BY <2>2, <1>6
    <3> QED BY <3>1, <3>2, <1>7, <1>9 DEF Inv, Recorded
  <2> QED BY <2>1, <2>2
<1>14. ASSUME NEW b \in Agent PROVE Recording(b)'
  <2>1. CASE b = a
    BY <2>1, <1>4, <1>5 DEF Recording
  <2>2. CASE b # a
    BY <2>2, <1>5, <1>7 DEF Inv, Recording
  <2> QED BY <2>1, <2>2
<1> QED BY <1>8, <1>11, <1>12, <1>13, <1>14 DEF Inv

\* The final write is made by the only agent of its delivery, over the
\* record it has read, and gives the token up unless a retry holds it.
LEMMA UpdateWriteInv ==
  ASSUME Inv, NEW a \in Agent, UpdateWrite(a)
  PROVE  Inv'
<1> DEFINE d == at[a].id
<1>1. /\ at[a] \in AgentType /\ at[a].pc = "write" /\ d \in Delivery
      /\ at[a].status # "none" /\ at[a].existing = record[d]
  BY DEF Inv, TypeOK, AgentType, UpdateWrite, Recording
<1>2. /\ at' \in [Agent -> AgentType]
      /\ at'[a] = Idle
      /\ \A b \in Agent : b # a => at'[b] = at[b]
      /\ \A b \in Agent : (at'[b].id = None) <=> (at'[b].pc = "idle")
  BY AgentValues, AgentMoves DEF Inv, UpdateWrite, Return
<1>3. UNCHANGED <<retries, deadLetter, owner, batch, posts, accepted>>
  BY DEF UpdateWrite, history
<1>4. \/ record' = [record EXCEPT ![d] = Merged(a)] /\ index' = MoveIndex(a)
      \/ UNCHANGED <<record, index>>
  BY DEF UpdateWrite
<1>5. Merged(a) \in RecordType /\ Merged(a).status = at[a].status
  BY <1>1 DEF Merged, AgentType, RecordType
<1>6. Busy(a, d) /\ record[d].status # "none"
  BY <1>1 DEF Busy, Inv, Fresh, NoToken
<1>8. at[a].status \in Statuses
  BY <1>1 DEF AgentType
<1>9. /\ record' \in [Delivery -> RecordType]
      /\ \A e \in Delivery : e # d => record'[e] = record[e]
      /\ record'[d].status \in {record[d].status, at[a].status}
  BY <1>1, <1>4, <1>5 DEF Inv, TypeOK
<1>10. /\ index' \in [Delivery -> SUBSET Statuses]
       /\ \A e \in Delivery : Indexed(e)'
  <2>1. CASE UNCHANGED <<record, index>>
    BY <2>1, IndexStays DEF Inv, TypeOK
  <2>2. CASE record' = [record EXCEPT ![d] = Merged(a)] /\ index' = MoveIndex(a)
    <3>1. record'[d].status = at[a].status
      BY <2>2, <1>1, <1>5 DEF Inv, TypeOK
    <3>2. CASE at[a].status = record[d].status
      <4>1. index' = index
        BY <2>2, <3>2, <1>1 DEF MoveIndex
      <4>2. \A e \in Delivery : record'[e].status = record[e].status
        BY <3>1, <3>2, <1>9
      <4>3. \A e \in Delivery : NewerThan(e)' = NewerThan(e)
        BY <4>2 DEF NewerThan
      <4> QED BY <4>1, <4>2, <4>3 DEF Inv, TypeOK, Indexed
    <3>3. CASE at[a].status # record[d].status
      <4>1. index[d] \ {record[d].status} = {}
        BY <1>1 DEF Inv, Indexed
      <4>2. [index EXCEPT ![d] = @ \ {record[d].status}] = [index EXCEPT ![d] = {}]
        BY <4>1, <1>1 DEF Inv, TypeOK
      <4>3. index' = queueIndexWrite([index EXCEPT ![d] = @ \ {record[d].status}], d, at[a].status)
        BY <2>2, <3>3, <1>1 DEF MoveIndex
      <4>4. index' = queueIndexWrite([index EXCEPT ![d] = {}], d, at[a].status)
        BY <4>2, <4>3, Zenon
      <4>5. at[a].status \in Statuses \ {"none"}
        BY <1>1, <1>8
      <4> QED BY <4>4, <4>5, <3>1, <1>1, <1>9, ListedMoves
    <3> QED BY <3>2, <3>3
  <2> QED BY <2>1, <2>2, <1>4
<1>11. TypeOK'
  <2>1. crashes' \in 0..MaxCrashes /\ redisErrors' \in 0..MaxRedisErrors
    BY ErrorBound DEF UpdateWrite, Inv
  <2> QED BY <2>1, <1>2, <1>3, <1>9, <1>10 DEF Inv, TypeOK
<1>12. /\ \A b \in Agent : Busy(b, d) => b = a
       /\ \A i \in Instance : d \notin batch[i]
       /\ d \in retries => at[a].status = "pending"
       /\ record[d].status \notin {"none", "success", "failed"}
  BY <1>1, <1>6 DEF Inv, Exclusive, Settled, NoToken
<1>13. \A b \in Agent, e \in Delivery : Busy(b, e)' => b # a /\ Busy(b, e)
  BY <1>2, AgentValues, DeliveryConfig DEF Busy
<1>14. \A b \in Agent : at'[b].id # d
  BY <1>1, <1>12, <1>13 DEF Busy
<1>15. ASSUME NEW e \in Delivery PROVE Fresh(e)'
  <2>1. CASE e = d
    BY <2>1, <1>1, <1>9, <1>12 DEF Fresh
  <2>2. CASE e # d
    BY <2>2, <1>3, <1>9, <1>13 DEF Inv, Fresh, NoToken
  <2> QED BY <2>1, <2>2
<1>16. ASSUME NEW e \in Delivery PROVE Settled(e)'
  <2>1. CASE e = d
    BY <2>1, <1>3, <1>9, <1>12, <1>14 DEF Settled, NoToken, Busy
  <2>2. CASE e # d
    BY <2>2, <1>3, <1>9, <1>13 DEF Inv, Settled, NoToken
  <2> QED BY <2>1, <2>2
<1>17. \A b \in Agent, e \in Delivery : Busy(b, e)' => at'[b] = at[b]
  BY <1>2, <1>13
<1>18. ASSUME NEW e \in Delivery PROVE Exclusive(e)' /\ Recorded(e)'
  BY <1>3, <1>13, <1>17 DEF Inv, Exclusive, Recorded
<1>19. ASSUME NEW b \in Agent PROVE Recording(b)'
  <2>1. CASE b = a
    BY <2>1, <1>2, AgentValues DEF Recording
  <2>2. CASE b # a
    <3>1. at'[b] = at[b] /\ at[b] \in AgentType /\ at[b].id # d
      BY <2>2, <1>2, <1>12 DEF Inv, TypeOK, Busy
    <3>2. at[b].pc = "write" => record'[at[b].id] = record[at[b].id]
      BY <3>1, <1>9 DEF Inv, TypeOK, AgentType
    <3> QED BY <3>1, <3>2 DEF Inv, Recording
  <2> QED BY <2>1, <2>2
<1> QED BY <1>10, <1>11, <1>15, <1>16, <1>18, <1>19 DEF Inv

\* A crash only loses tokens.
LEMMA CrashInv ==
  ASSUME Inv, NEW i \in Instance, Crash(i)
  PROVE  Inv'
<1>1. /\ at' \in [Agent -> AgentType]
      /\ \A b \in Agent : at'[b] \in {at[b], Idle}
  BY AgentValues DEF Crash, Inv, TypeOK
<1>2. \A b \in Agent : (at'[b].id = None) <=> (at'[b].pc = "idle")
  BY <1>1, AgentValues DEF Inv, TypeOK
<1>3. /\ batch' \in [Instance -> SUBSET Delivery]
      /\ \A j \in Instance : batch'[j] \subseteq batch[j]
  BY DEF Crash, Inv, TypeOK
<1>4. UNCHANGED <<record, index, retries, deadLetter, owner, posts, accepted, redisErrors>>
  BY DEF Crash, history
<1>5. TypeOK'
  <2>1. crashes' \in 0..MaxCrashes
    BY DeliveryConfig DEF Crash, Inv, TypeOK
  <2> QED BY <2>1, <1>1, <1>2, <1>3, <1>4 DEF Inv, TypeOK
<1>6. \A b \in Agent, e \in Delivery : Busy(b, e)' => Busy(b, e) /\ at'[b] = at[b]
  BY <1>1, AgentValues, DeliveryConfig DEF Busy
<1>7. ASSUME NEW e \in Delivery PROVE Fresh(e)' /\ Settled(e)' /\ Indexed(e)'
  <2>1. Indexed(e)'
    BY <1>4, IndexStays DEF Inv
  <2> QED BY <2>1, <1>3, <1>4, <1>6 DEF Inv, Fresh, Settled, NoToken
<1>8. ASSUME NEW e \in Delivery PROVE Exclusive(e)' /\ Recorded(e)'
  BY <1>3, <1>4, <1>6 DEF Inv, Exclusive, Recorded
<1>9. ASSUME NEW b \in Agent PROVE Recording(b)'
  BY <1>1, <1>4, AgentValues DEF Inv, Recording
<1> QED BY <1>5, <1>7, <1>8, <1>9 DEF Inv

LEMMA NextInv ==
  ASSUME Inv, [Next]_vars
  PROVE  Inv'
<1>1. CASE \E d \in Delivery, i \in Instance : Create(d, i)
  BY <1>1, CreateInv
<1>2. CASE \E d \in Delivery : SavePayload(d)
  BY <1>2, SavePayloadInv
<1>3. CASE \E i \in Instance, ids \in SUBSET Delivery : PopDueRetries(i, ids)
  BY <1>3, PopDueRetriesInv
<1>4. CASE \E i \in Instance, d \in Delivery : NextOfBatch(i, d)
  BY <1>4, NextOfBatchInv
<1>5. CASE \E a \in Agent : AgentStep(a)
  <2> PICK a \in Agent : AgentStep(a)
    BY <1>5
  <2> QED
    BY FindByIdInv, GetWebhookInv, PostInv, ScheduleRetryInv, DeadLetterInv, UpdateReadInv,
       UpdateWriteInv
    DEF AgentStep
<1>6. CASE \E i \in Instance : Crash(i)
  BY <1>6, CrashInv
<1>7. CASE UNCHANGED vars
  <2>1. \A e \in Delivery : Indexed(e)'
    BY <1>7, IndexStays DEF vars, Inv
  <2> QED BY <2>1, <1>7 DEF vars, Inv, TypeOK, Fresh, Exclusive, Settled, Recorded, Recording,
                           NoToken, Busy
<1> QED BY <1>1, <1>2, <1>3, <1>4, <1>5, <1>6, <1>7 DEF Next

-----------------------------------------------------------------------------
(* The theorems. *)

\* The inductive invariant holds in every reachable state.
THEOREM SpecInv == Spec => []Inv
  BY InitInv, NextInv, PTL DEF Spec

\* Every variable keeps its type through retries, crashes and Redis errors.
THEOREM TypeCorrect == Spec => []TypeOK
<1>1. Inv => TypeOK
  BY DEF Inv
<1> QED BY <1>1, SpecInv, PTL

\* No two agents, on any replicas, are ever inside attempt() for the same
\* delivery, and a queued or popped retry is held once.
THEOREM Exclusivity == Spec => []ExclusiveAttempt
<1>1. Inv => ExclusiveAttempt
  BY DEF Inv, Exclusive, ExclusiveAttempt
<1> QED BY <1>1, SpecInv, PTL

\* A delivery answered 2xx is not sent again.
THEOREM NoResend == Spec => []AcceptedOnce
<1>1. Inv => AcceptedOnce
  BY DEF Inv, Recorded, AcceptedOnce
<1> QED BY <1>1, SpecInv, PTL

\* The status indexes list every delivery that has fewer than
\* RECENT_DELIVERIES_LIMIT newer ones under its stored status, and none under
\* another.
THEOREM IndexAgrees == Spec => []StatusIndexExact
<1>1. Inv => StatusIndexExact
  BY DEF Inv, Indexed, NewerThan, StatusIndexExact
<1> QED BY <1>1, SpecInv, PTL

\* success and failed are never overwritten.
THEOREM TerminalStays == Spec => TerminalIsFinal
<1> DEFINE Keeps == \A d \in Delivery :
      record[d].status \in {"success", "failed"} => record'[d] = record[d]
<1>1. ASSUME Inv, [Next]_vars PROVE Keeps
  <2> SUFFICES ASSUME NEW d \in Delivery, record[d].status \in {"success", "failed"}
               PROVE  record'[d] = record[d]
    OBVIOUS
  <2>1. CASE UNCHANGED record
    BY <2>1
  <2>2. ASSUME NEW e \in Delivery, NEW i \in Instance, Create(e, i)
        PROVE  record'[d] = record[d]
    BY <1>1, <2>2 DEF Create, Inv, TypeOK
  <2>3. ASSUME NEW a \in Agent, UpdateWrite(a)
        PROVE  record'[d] = record[d]
    <3>1. at[a].id # d
      BY <1>1, <2>3 DEF Inv, Settled, NoToken, Busy
    <3> QED BY <1>1, <2>3, <3>1 DEF UpdateWrite, Inv, TypeOK
  <2>4. CASE Next
    BY <2>1, <2>2, <2>3, <2>4
    DEF Next, AgentStep, SavePayload, PopDueRetries, NextOfBatch, FindById, GetWebhook,
        Post, ScheduleRetry, DeadLetter, UpdateRead, Crash
  <2> QED BY <1>1, <2>1, <2>4 DEF vars
<1>2. Inv /\ [Next]_vars => [Keeps]_vars
  BY <1>1
<1> QED BY <1>2, SpecInv, PTL DEF Spec, TerminalIsFinal

-----------------------------------------------------------------------------
(* The refinement: what WebhookDelivery does to the state DeliveryPromise  *)
(* sees.                                                                   *)

\* An agent records success only for a delivery its receiver has accepted.
SuccessEarned ==
  \A a \in Agent : at[a].pc \in {"read", "write"} /\ at[a].status = "success" =>
                   accepted[at[a].id] = 1

LEMMA EarnedInit == Init => SuccessEarned
  BY AgentValues DEF Init, SuccessEarned, Idle

\* An agent that keeps its patch keeps what earned it.
LEMMA EarnedKept ==
  ASSUME Inv, Inv', SuccessEarned, NEW a \in Agent,
         \A d \in Delivery : accepted'[d] >= accepted[d],
         \/ at'[a].pc \notin {"read", "write"}
         \/ at'[a].status # "success"
         \/ at[a].pc \in {"read", "write"} /\ at'[a].status = at[a].status /\ at'[a].id = at[a].id
  PROVE  at'[a].pc \in {"read", "write"} /\ at'[a].status = "success" => accepted'[at'[a].id] = 1
<1> SUFFICES ASSUME at'[a].pc \in {"read", "write"}, at'[a].status = "success"
             PROVE  accepted'[at'[a].id] = 1
  OBVIOUS
<1>1. at[a].pc \in {"read", "write"} /\ at[a].status = "success" /\ at'[a].id = at[a].id
  OBVIOUS
<1>2. at[a].id \in Delivery
  BY <1>1 DEF Inv, TypeOK, AgentType
<1>3. accepted[at[a].id] = 1
  BY <1>1 DEF SuccessEarned
<1>4. accepted'[at[a].id] \in Nat /\ accepted'[at[a].id] <= 1
  BY <1>2 DEF Inv, TypeOK, Recorded
<1> QED BY <1>1, <1>2, <1>3, <1>4

LEMMA EarnedStep ==
  ASSUME Inv, Inv', SuccessEarned, [Next]_vars
  PROVE  SuccessEarned'
<1> SUFFICES ASSUME NEW a \in Agent
             PROVE  at'[a].pc \in {"read", "write"} /\ at'[a].status = "success" =>
                    accepted'[at'[a].id] = 1
  BY DEF SuccessEarned
<1>0. at \in [Agent -> AgentType] /\ accepted \in [Delivery -> Nat]
  BY DEF Inv, TypeOK
<1> DEFINE Keeps == \/ at'[a].pc \notin {"read", "write"}
                    \/ at'[a].status # "success"
                    \/ /\ at[a].pc \in {"read", "write"}
                       /\ at'[a].status = at[a].status /\ at'[a].id = at[a].id
<1>1. ASSUME UNCHANGED accepted, Keeps
      PROVE  at'[a].pc \in {"read", "write"} /\ at'[a].status = "success" => accepted'[at'[a].id] = 1
  <2>1. \A d \in Delivery : accepted'[d] >= accepted[d]
    BY <1>0, <1>1
  <2> QED BY <2>1, <1>1, EarnedKept
<1>2. CASE UNCHANGED vars
  BY <1>2 DEF vars, SuccessEarned
<1>3. ASSUME NEW d \in Delivery, NEW i \in Instance, Create(d, i) PROVE UNCHANGED accepted /\ Keeps
  BY <1>3, <1>0 DEF Create, Begin, Idle, history
<1>4. ASSUME NEW d \in Delivery, SavePayload(d) PROVE UNCHANGED accepted /\ Keeps
  BY <1>4, <1>0 DEF AgentType, SavePayload, Return, Goto, Idle, history
<1>5. ASSUME NEW i \in Instance, NEW ids \in SUBSET Delivery, PopDueRetries(i, ids)
      PROVE  UNCHANGED accepted /\ Keeps
  BY <1>5, <1>0 DEF PopDueRetries, history
<1>6. ASSUME NEW i \in Instance, NEW d \in Delivery, NextOfBatch(i, d)
      PROVE  UNCHANGED accepted /\ Keeps
  BY <1>6, <1>0 DEF NextOfBatch, Begin, Idle, history
<1>7. ASSUME NEW i \in Instance, Crash(i) PROVE UNCHANGED accepted /\ Keeps
  BY <1>7, <1>0 DEF Crash, Idle, history
<1>8. ASSUME NEW b \in Agent,
             FindById(b) \/ GetWebhook(b) \/ ScheduleRetry(b) \/ DeadLetter(b) \/ UpdateRead(b)
             \/ UpdateWrite(b)
      PROVE  UNCHANGED accepted /\ Keeps
  <2>1. CASE FindById(b)
    BY <2>1, <1>0 DEF AgentType, FindById, Return, Idle, history
  <2>2. CASE GetWebhook(b)
    BY <2>2, <1>0 DEF AgentType, GetWebhook, Return, Patch, Goto, Idle, history
  <2>3. CASE ScheduleRetry(b)
    BY <2>3, <1>0 DEF AgentType, ScheduleRetry, Return, Patch, Idle, history
  <2>4. CASE DeadLetter(b)
    BY <2>4, <1>0 DEF DeadLetter, Patch, history
  <2>5. CASE UpdateRead(b)
    BY <2>5, <1>0 DEF AgentType, UpdateRead, Return, Idle, history
  <2>6. CASE UpdateWrite(b)
    BY <2>6, <1>0 DEF UpdateWrite, Return, Idle, history
  <2> QED BY <1>8, <2>1, <2>2, <2>3, <2>4, <2>5, <2>6
<1>9. ASSUME NEW b \in Agent, NEW outcome \in Outcome, Post(b, outcome)
      PROVE  at'[a].pc \in {"read", "write"} /\ at'[a].status = "success" => accepted'[at'[a].id] = 1
  <2>1. at[b].id \in Delivery
    BY <1>9 DEF Post, Inv, TypeOK, AgentType
  <2>2. \A d \in Delivery : accepted'[d] >= accepted[d]
    BY <1>9, <1>0 DEF Post
  <2>3. CASE a = b /\ outcome = "2xx"
    <3>1. at'[a].id = at[a].id /\ accepted'[at[a].id] = accepted[at[a].id] + 1
      BY <1>9, <2>1, <2>3, <1>0 DEF AgentType, Post, Patch
    <3>2. accepted'[at[a].id] <= 1 /\ accepted[at[a].id] \in Nat
      BY <2>1, <2>3, <1>0 DEF Inv, Recorded
    <3> QED BY <3>1, <3>2
  <2>4. CASE ~(a = b /\ outcome = "2xx")
    <3>1. Keeps
      BY <1>9, <2>4, <1>0 DEF AgentType, Post, Patch
    <3> QED BY <3>1, <2>2, EarnedKept
  <2> QED BY <2>3, <2>4
<1> QED BY <1>1, <1>2, <1>3, <1>4, <1>5, <1>6, <1>7, <1>8, <1>9 DEF Next, AgentStep

LEMMA PromiseInit == Init => Promise!Init
<1> SUFFICES ASSUME Init PROVE Promise!Init
  OBVIOUS
<1>1. \A d \in Delivery, a \in Agent : ~Busy(a, d)
  BY DeliveryConfig DEF Init, Busy, Idle
<1>2. [d \in Delivery |-> record[d].status] = [d \in Delivery |-> "none"]
  BY DEF Init, NoRecord
<1>3. [d \in Delivery |-> {a \in Agent : Busy(a, d)}] = [d \in Delivery |-> {}]
  BY <1>1
<1>4. [d \in Delivery |-> accepted[d] > 0] = [d \in Delivery |-> FALSE]
  <2>1. \A d \in Delivery : (accepted[d] > 0) = FALSE
    BY DEF Init
  <2> QED BY <2>1, Zenon
<1> QED BY <1>2, <1>3, <1>4 DEF Promise!Init

\* Every step but create() and the start of a retry keeps each agent at its
\* delivery or takes it away.
LEMMA KeepOrLeave ==
  ASSUME TypeOK,
         \/ \E d \in Delivery : SavePayload(d)
         \/ \E i \in Instance, ids \in SUBSET Delivery : PopDueRetries(i, ids)
         \/ \E a \in Agent : AgentStep(a)
         \/ \E i \in Instance : Crash(i)
  PROVE  \A b \in Agent : at'[b].id \in {at[b].id, None}
<1>0. at \in [Agent -> AgentType]
  BY DEF TypeOK
<1>1. ASSUME NEW d \in Delivery, SavePayload(d) PROVE \A b \in Agent : at'[b].id \in {at[b].id, None}
  BY <1>0, <1>1 DEF SavePayload, Return, Goto, Idle, AgentType
<1>2. ASSUME NEW i \in Instance, Crash(i) PROVE \A b \in Agent : at'[b].id \in {at[b].id, None}
  BY <1>0, <1>2 DEF Crash, Idle
<1>3. ASSUME NEW a \in Agent, AgentStep(a) PROVE \A b \in Agent : at'[b].id \in {at[b].id, None}
  <2>1. CASE FindById(a)
    BY <2>1, <1>0 DEF FindById, Return, Idle, AgentType
  <2>2. CASE GetWebhook(a)
    BY <2>2, <1>0 DEF GetWebhook, Return, Patch, Goto, Idle, AgentType
  <2>3. CASE ScheduleRetry(a)
    BY <2>3, <1>0 DEF ScheduleRetry, Return, Patch, Idle, AgentType
  <2>4. CASE DeadLetter(a)
    BY <2>4, <1>0 DEF DeadLetter, Patch, AgentType
  <2>5. CASE UpdateRead(a)
    BY <2>5, <1>0 DEF UpdateRead, Return, Idle, AgentType
  <2>6. CASE UpdateWrite(a)
    BY <2>6, <1>0 DEF UpdateWrite, Return, Idle
  <2>7. ASSUME NEW outcome \in Outcome, Post(a, outcome)
        PROVE  \A b \in Agent : at'[b].id \in {at[b].id, None}
    BY <2>7, <1>0 DEF Post, Patch, AgentType
  <2> QED BY <1>3, <2>1, <2>2, <2>3, <2>4, <2>5, <2>6, <2>7 DEF AgentStep
<1>4. ASSUME NEW i \in Instance, NEW ids \in SUBSET Delivery, PopDueRetries(i, ids)
      PROVE  \A b \in Agent : at'[b].id \in {at[b].id, None}
  BY <1>4 DEF PopDueRetries
<1> QED BY <1>1, <1>2, <1>3, <1>4

\* A dispatch task attempts only the delivery it created.
OwnTask == \A d \in Delivery : at[d].id \in {d, None}

LEMMA OwnTaskInit == Init => OwnTask
  BY DEF Init, OwnTask, Idle, Agent

LEMMA OwnTaskStep ==
  ASSUME Inv, OwnTask, [Next]_vars
  PROVE  OwnTask'
<1>0. at \in [Agent -> AgentType] /\ Delivery \subseteq Agent /\ Instance \subseteq Agent
  BY DEF Inv, TypeOK, Agent
<1>1. ASSUME NEW d \in Delivery, NEW i \in Instance, Create(d, i) PROVE OwnTask'
  BY <1>0, <1>1, AgentValues DEF Create, OwnTask
<1>2. ASSUME NEW i \in Instance, NEW d \in Delivery, NextOfBatch(i, d) PROVE OwnTask'
  <2>1. \A e \in Delivery : at'[e] = at[e]
    BY <1>0, <1>2, DeliveryConfig DEF NextOfBatch
  <2> QED BY <2>1 DEF OwnTask
<1>3. CASE \A b \in Agent : at'[b].id \in {at[b].id, None}
  BY <1>0, <1>3 DEF OwnTask
<1>4. CASE UNCHANGED vars
  BY <1>4 DEF vars, OwnTask
<1> QED BY <1>1, <1>2, <1>3, <1>4, KeepOrLeave DEF Next, Inv

\* Steps in which agents only keep or leave their delivery are Leave or stutter.
LEMMA LeavingStep ==
  ASSUME Inv, Inv', UNCHANGED accepted,
         \A d \in Delivery : record'[d].status = record[d].status,
         \A b \in Agent : at'[b].id \in {at[b].id, None}
  PROVE  Promise!Next
<1> DEFINE S == {d \in Delivery : \A b \in Agent : ~Busy(b, d)'}
           Now(d) == {a \in Agent : Busy(a, d)}
<1>1. \A b \in Agent, d \in Delivery : Busy(b, d)' => Busy(b, d)
  BY DeliveryConfig DEF Busy
<1>2. ASSUME NEW d \in Delivery
      PROVE  {a \in Agent : Busy(a, d)'} = IF d \in S THEN {} ELSE Now(d)
  <2>1. CASE d \in S
    BY <2>1
  <2>2. CASE d \notin S
    <3>1. PICK b \in Agent : Busy(b, d)'
      BY <2>2
    <3>2. \A a \in Agent : Busy(a, d) => a = b
      BY <3>1, <1>1 DEF Inv, Exclusive
    <3> QED BY <3>1, <3>2, <1>1, <2>2
  <2> QED BY <2>1, <2>2
<1>3. [d \in Delivery |-> {a \in Agent : Busy(a, d)'}]
        = [d \in Delivery |-> IF d \in S THEN {} ELSE [e \in Delivery |-> Now(e)][d]]
  BY <1>2
<1>4. [d \in Delivery |-> record'[d].status] = [d \in Delivery |-> record[d].status]
  OBVIOUS
<1>5. [d \in Delivery |-> accepted'[d] > 0] = [d \in Delivery |-> accepted[d] > 0]
  OBVIOUS
<1>6. Promise!Leave(S)
  BY <1>3, <1>4, <1>5 DEF Promise!Leave
<1> QED BY <1>6, S \in SUBSET Delivery DEF Promise!Next

\* The four steps the promise can see: create(), the start of a retry, a 2xx,
\* and the write of a verdict.
LEMMA CreatePromise ==
  ASSUME Inv, OwnTask, NEW d \in Delivery, NEW i \in Instance, Create(d, i)
  PROVE  Promise!Next
<1>1. \A b \in Agent : ~Busy(b, d)
  BY DEF Inv, Fresh, NoToken, Create
<1>2. d \in Agent /\ at \in [Agent -> AgentType] /\ record \in [Delivery -> RecordType]
  BY DEF Agent, Inv, TypeOK
<1>3. /\ [e \in Delivery |-> record[e].status][d] = "none"
      /\ [e \in Delivery |-> record'[e].status]
           = [[e \in Delivery |-> record[e].status] EXCEPT ![d] = "pending"]
  BY <1>2 DEF Create
<1>4. [e \in Delivery |-> accepted'[e] > 0] = [e \in Delivery |-> accepted[e] > 0]
  BY DEF Create, history
<1>5. CASE UNCHANGED at
  <2>1. [e \in Delivery |-> {a \in Agent : Busy(a, e)'}] = [e \in Delivery |-> {a \in Agent : Busy(a, e)}]
    BY <1>5 DEF Busy
  <2>2. Promise!Register(d)
    BY <2>1, <1>3, <1>4 DEF Promise!Register
  <2> QED BY <2>2 DEF Promise!Next
<1>6. CASE at' = [at EXCEPT ![d] = Begin(d, "payload")]
  <2>1. at'[d].id = d /\ \A b \in Agent : b # d => at'[b] = at[b]
    BY <1>2, <1>6, AgentValues
  <2>2. at[d].id = None
    BY <1>1, <1>2 DEF OwnTask, Busy
  <2>3. ASSUME NEW e \in Delivery
        PROVE  {a \in Agent : Busy(a, e)'} = IF e = d THEN {d} ELSE {a \in Agent : Busy(a, e)}
    BY <2>1, <2>2, <1>1, <1>2, DeliveryConfig DEF Busy
  <2>4. [e \in Delivery |-> {a \in Agent : Busy(a, e)'}]
          = [[e \in Delivery |-> {a \in Agent : Busy(a, e)}] EXCEPT ![d] = {d}]
    BY <2>3
  <2>5. Promise!Register(d)
    BY <2>4, <1>2, <1>3, <1>4 DEF Promise!Register
  <2> QED BY <2>5 DEF Promise!Next
<1> QED BY <1>5, <1>6 DEF Create

LEMMA NextOfBatchPromise ==
  ASSUME Inv, NEW i \in Instance, NEW d \in Delivery, NextOfBatch(i, d)
  PROVE  Promise!Next
<1>1. /\ i \in Agent /\ at \in [Agent -> AgentType] /\ record \in [Delivery -> RecordType]
      /\ accepted \in [Delivery -> Nat] /\ at[i].id = None
  BY DEF Agent, Inv, TypeOK, NextOfBatch
<1>2. (\A b \in Agent : ~Busy(b, d)) /\ d \in batch[i]
  BY DEF Inv, Exclusive, NextOfBatch
<1>3. record[d].status = "pending" /\ accepted[d] = 0
  BY <1>1, <1>2 DEF Inv, Fresh, Settled, Recorded, NoToken, RecordType, Statuses
<1>4. at'[i].id = d /\ \A b \in Agent : b # i => at'[b] = at[b]
  BY <1>1, AgentValues DEF NextOfBatch
<1>5. ASSUME NEW e \in Delivery
      PROVE  {a \in Agent : Busy(a, e)'} = IF e = d THEN {i} ELSE {a \in Agent : Busy(a, e)}
  BY <1>1, <1>2, <1>4, DeliveryConfig DEF Busy
<1>6. [e \in Delivery |-> {a \in Agent : Busy(a, e)'}]
        = [[e \in Delivery |-> {a \in Agent : Busy(a, e)}] EXCEPT ![d] = {i}]
  BY <1>5
<1>7. UNCHANGED <<record, accepted>>
  BY DEF NextOfBatch, history
<1>8. ~[e \in Delivery |-> accepted[e] > 0][d]
  <2>1. ~(accepted[d] > 0)
    BY <1>3
  <2> QED BY <2>1, Zenon
<1>9. Promise!Take(d, i)
  BY <1>2, <1>3, <1>6, <1>7, <1>8 DEF Promise!Take
<1> QED BY <1>1, <1>9 DEF Promise!Next

LEMMA AcceptPromise ==
  ASSUME Inv, NEW a \in Agent, NEW d \in Delivery, at[a].id = d, Post(a, "2xx")
  PROVE  Promise!Next
<1>1. /\ d \in Delivery /\ at \in [Agent -> AgentType] /\ record \in [Delivery -> RecordType]
      /\ accepted \in [Delivery -> Nat]
  BY DEF Inv, TypeOK, Post, AgentType
<1>2. Busy(a, d) /\ at[a].pc = "post"
  BY DEF Busy, Post
<1>3. record[d].status = "pending" /\ accepted[d] = 0
  <2>1. record[d] \in RecordType /\ ~NoToken(d)
    BY <1>1, <1>2 DEF NoToken
  <2>2. record[d].status = "pending"
    BY <1>1, <2>1 DEF Inv, Fresh, Settled, RecordType, Statuses
  <2>3. accepted[d] \in Nat /\ accepted[d] <= 1 /\ accepted[d] # 1
    BY <1>1, <1>2 DEF Inv, Recorded
  <2> QED BY <2>2, <2>3
<1>4. \A b \in Agent : at'[b].id = at[b].id
  BY <1>1 DEF Post, Patch, AgentType
<1>5. [e \in Delivery |-> {b \in Agent : Busy(b, e)'}] = [e \in Delivery |-> {b \in Agent : Busy(b, e)}]
  BY <1>4 DEF Busy
<1>6. \A e \in Delivery : accepted'[e] = IF e = d THEN 1 ELSE accepted[e]
  BY <1>1, <1>3 DEF Post
<1>7. \A e \in Delivery : (accepted'[e] > 0) = IF e = d THEN TRUE ELSE accepted[e] > 0
  <2>1. ASSUME NEW e \in Delivery, e = d
        PROVE  (accepted'[e] > 0) = TRUE
    BY <1>6, <2>1
  <2>2. ASSUME NEW e \in Delivery, e # d
        PROVE  (accepted'[e] > 0) = (accepted[e] > 0)
    <3>1. accepted'[e] = accepted[e]
      BY <1>6, <2>2
    <3> QED BY <3>1, Zenon
  <2> QED BY <2>1, <2>2, Zenon
<1>8. [e \in Delivery |-> accepted'[e] > 0]
        = [[e \in Delivery |-> accepted[e] > 0] EXCEPT ![d] = TRUE]
  BY <1>1, <1>7, Zenon
<1>9. ~[e \in Delivery |-> accepted[e] > 0][d]
  <2>1. ~(accepted[d] > 0)
    BY <1>3
  <2> QED BY <2>1, <1>1, Zenon
<1>10. [e \in Delivery |-> {b \in Agent : Busy(b, e)}][d] # {}
  BY <1>1, <1>2
<1>11. UNCHANGED record
  BY DEF Post
<1>12. Promise!Accept(d)
  BY <1>1, <1>3, <1>5, <1>8, <1>9, <1>10, <1>11 DEF Promise!Accept
<1> QED BY <1>12 DEF Promise!Next

LEMMA SettlePromise ==
  ASSUME Inv, SuccessEarned, NEW a \in Agent, NEW d \in Delivery, NEW verdict,
         at[a].id = d, at[a].status = verdict, UpdateWrite(a),
         record'[d].status # record[d].status
  PROVE  Promise!Next
<1>1. /\ d \in Delivery /\ at \in [Agent -> AgentType] /\ record \in [Delivery -> RecordType]
      /\ accepted \in [Delivery -> Nat]
  BY DEF Inv, TypeOK, UpdateWrite, AgentType
<1>2. Busy(a, d) /\ at[a].pc = "write"
  BY DEF Busy, UpdateWrite
<1>3. record[d].status = "pending"
  BY <1>1, <1>2 DEF Inv, Fresh, Settled, NoToken, RecordType, Statuses
<1>4. record' = [record EXCEPT ![d] = Merged(a)]
  BY DEF UpdateWrite
<1>5. record'[d].status = verdict /\ \A e \in Delivery : e # d => record'[e] = record[e]
  BY <1>1, <1>4 DEF Merged
<1>6. verdict \in {"success", "failed"}
  BY <1>1, <1>2, <1>3, <1>5 DEF Inv, Recording, AgentType, Statuses
<1>7. verdict = IF accepted[d] > 0 THEN "success" ELSE "failed"
  BY <1>1, <1>2, <1>6 DEF SuccessEarned, Inv, Recorded
<1>8. at'[a] = Idle /\ \A b \in Agent : b # a => at'[b] = at[b]
  BY <1>1 DEF UpdateWrite, Return
<1>9. \A b \in Agent : Busy(b, d) => b = a
  BY <1>1, <1>2 DEF Inv, Exclusive
<1>10. ASSUME NEW e \in Delivery
       PROVE  {b \in Agent : Busy(b, e)'} = IF e = d THEN {} ELSE {b \in Agent : Busy(b, e)}
  BY <1>1, <1>2, <1>8, <1>9, DeliveryConfig DEF Busy, Idle
<1>11. [e \in Delivery |-> {b \in Agent : Busy(b, e)'}]
         = [[e \in Delivery |-> {b \in Agent : Busy(b, e)}] EXCEPT ![d] = {}]
  BY <1>10
<1>12. [e \in Delivery |-> record'[e].status]
         = [[e \in Delivery |-> record[e].status] EXCEPT ![d] = verdict]
  BY <1>1, <1>5
<1>13. [e \in Delivery |-> {b \in Agent : Busy(b, e)}][d] # {}
  BY <1>1, <1>2
<1>14. UNCHANGED accepted
  BY DEF UpdateWrite, history
<1>15. verdict = IF [e \in Delivery |-> accepted[e] > 0][d] THEN "success" ELSE "failed"
  BY <1>1, <1>7
<1>16. Promise!Settle(d, verdict)
  BY <1>1, <1>3, <1>11, <1>12, <1>13, <1>14, <1>15 DEF Promise!Settle
<1> QED BY <1>6, <1>16 DEF Promise!Next

LEMMA PromiseStep ==
  ASSUME Inv, Inv', OwnTask, SuccessEarned, [Next]_vars
  PROVE  [Promise!Next]_(Promise!promiseVars)
<1>0. /\ at \in [Agent -> AgentType] /\ record \in [Delivery -> RecordType]
      /\ accepted \in [Delivery -> Nat]
  BY DEF Inv, TypeOK
<1>1. CASE UNCHANGED vars
  BY <1>1 DEF vars, Promise!promiseVars, Busy
<1>2. ASSUME NEW d \in Delivery, NEW i \in Instance, Create(d, i) PROVE Promise!Next
  BY <1>2, CreatePromise
<1>3. ASSUME NEW i \in Instance, NEW d \in Delivery, NextOfBatch(i, d) PROVE Promise!Next
  BY <1>3, NextOfBatchPromise
<1>4. ASSUME NEW a \in Agent, Post(a, "2xx") PROVE Promise!Next
  <2>1. at[a].id \in Delivery
    BY <1>4 DEF Inv, TypeOK, Post, AgentType
  <2> QED BY <1>4, <2>1, AcceptPromise
<1>5. ASSUME NEW a \in Agent, UpdateWrite(a) PROVE Promise!Next
  <2>1. CASE record'[at[a].id].status # record[at[a].id].status
    <3>1. at[a].id \in Delivery
      BY <1>5 DEF Inv, TypeOK, UpdateWrite, AgentType
    <3> QED BY <2>1, <3>1, <1>5, SettlePromise
  <2>2. CASE record'[at[a].id].status = record[at[a].id].status
    <3>1. \A d \in Delivery : record'[d].status = record[d].status
      BY <1>0, <1>5, <2>2 DEF UpdateWrite
    <3>2. UNCHANGED accepted /\ \A b \in Agent : at'[b].id \in {at[b].id, None}
      BY <1>5, KeepOrLeave DEF UpdateWrite, history, AgentStep, Inv
    <3> QED BY <3>1, <3>2, LeavingStep
  <2> QED BY <2>1, <2>2
<1>6. ASSUME \A b \in Agent : at'[b].id \in {at[b].id, None}, UNCHANGED <<record, accepted>>
      PROVE  Promise!Next
  BY <1>6, LeavingStep
<1>7. ASSUME NEW a \in Agent, NEW outcome \in Outcome, Post(a, outcome) PROVE Promise!Next
  <2>1. CASE outcome = "2xx"
    BY <1>4, <1>7, <2>1
  <2>2. CASE outcome # "2xx"
    <3>1. UNCHANGED <<record, accepted>>
      BY <1>0, <1>7, <2>2 DEF Post
    <3>2. \A b \in Agent : at'[b].id \in {at[b].id, None}
      BY <1>7, KeepOrLeave DEF AgentStep, Inv
    <3> QED BY <3>1, <3>2, <1>6
  <2> QED BY <2>1, <2>2
<1>8. ASSUME NEW a \in Agent, AgentStep(a) PROVE Promise!Next
  <2>1. CASE FindById(a) \/ GetWebhook(a) \/ ScheduleRetry(a) \/ DeadLetter(a) \/ UpdateRead(a)
    <3>1. UNCHANGED <<record, accepted>>
      BY <2>1 DEF FindById, GetWebhook, ScheduleRetry, DeadLetter, UpdateRead, history
    <3>2. \A b \in Agent : at'[b].id \in {at[b].id, None}
      BY <1>8, KeepOrLeave DEF Inv
    <3> QED BY <3>1, <3>2, <1>6
  <2> QED BY <2>1, <1>5, <1>7, <1>8 DEF AgentStep
<1>9. ASSUME \/ \E d \in Delivery : SavePayload(d)
             \/ \E i \in Instance, ids \in SUBSET Delivery : PopDueRetries(i, ids)
             \/ \E i \in Instance : Crash(i)
      PROVE  Promise!Next
  <2>1. UNCHANGED <<record, accepted>>
    BY <1>9 DEF SavePayload, PopDueRetries, Crash, history
  <2>2. \A b \in Agent : at'[b].id \in {at[b].id, None}
    BY <1>9, KeepOrLeave DEF Inv
  <2> QED BY <2>1, <2>2, <1>6
<1> QED BY <1>1, <1>2, <1>3, <1>8, <1>9 DEF Next

\* For any number of replicas and deliveries, through every crash and failed
\* command, the delivery code implements DeliveryPromise.
THEOREM Refinement == Spec => ImplementsPromise
<1>1. Init => OwnTask /\ SuccessEarned /\ Promise!Init
  BY OwnTaskInit, EarnedInit, PromiseInit
<1>2. Inv /\ Inv' /\ OwnTask /\ SuccessEarned /\ [Next]_vars =>
        OwnTask' /\ SuccessEarned' /\ [Promise!Next]_(Promise!promiseVars)
  BY OwnTaskStep, EarnedStep, PromiseStep
<1> QED BY <1>1, <1>2, SpecInv, PTL DEF Spec, ImplementsPromise, Promise!Spec

-----------------------------------------------------------------------------
(* The bound on requests: which agent has sent a request that the record   *)
(* does not count yet, and what becomes of its count.                      *)

\* Faults so far; each can keep one request from being counted.
Lost == crashes + redisErrors

\* An agent that has made a request and not recorded it yet.
Sent(k) == k.pc \in {"schedule", "deadLetter"} \/ (k.pc \in {"read", "write"} /\ k.attempts # 0)

\* What an agent carries, when the record counts n requests.
Carries(k, n) ==
  /\ k.pc \in {"webhook", "post"} => k.snapshot = n
  /\ Sent(k) => k.attempts = n + 1
  /\ k.pc = "schedule" \/ (k.pc \in {"read", "write"} /\ k.status = "pending")
       => Sent(k) /\ k.attempts < MaxAttempts

Counted(d) ==
  /\ record[d].attempts <= MaxAttempts
  /\ record[d].status = "none" => record[d].attempts = 0
  /\ ~NoToken(d) => record[d].attempts < MaxAttempts
  /\ posts[d] <= record[d].attempts + Lost + 1
  /\ (\A a \in Agent : Busy(a, d) => ~Sent(at[a])) => posts[d] <= record[d].attempts + Lost

CountInv ==
  /\ \A d \in Delivery : Counted(d)
  /\ \A a \in Agent : at[a].pc # "idle" => Carries(at[a], record[at[a].id].attempts)

LEMMA LostCounts ==
  ASSUME Inv
  PROVE  /\ Lost \in Nat
         /\ UNCHANGED faults => Lost' = Lost
         /\ RedisError => Lost' = Lost + 1
         /\ \A i \in Instance : Crash(i) => Lost' = Lost + 1
<1>1. crashes \in Nat /\ redisErrors \in Nat
  BY DeliveryConfig DEF Inv, TypeOK
<1>2. UNCHANGED faults => Lost' = Lost
  BY DEF faults, Lost
<1>3. RedisError => Lost' = Lost + 1
  BY <1>1 DEF RedisError, Lost
<1>4. ASSUME NEW i \in Instance, Crash(i) PROVE Lost' = Lost + 1
  BY <1>1, <1>4 DEF Crash, Lost
<1> QED BY <1>1, <1>2, <1>3, <1>4 DEF Lost

LEMMA CountTypes ==
  ASSUME Inv, NEW d \in Delivery
  PROVE  posts[d] \in Nat /\ record[d].attempts \in Nat /\ record[d] \in RecordType
BY DEF Inv, TypeOK, RecordType

LEMMA CountInit == Init => CountInv
<1> SUFFICES ASSUME Init PROVE CountInv
  OBVIOUS
<1>1. \A a \in Agent : at[a].pc = "idle" /\ at[a].id = None
  BY AgentValues DEF Init
<1>2. ASSUME NEW d \in Delivery PROVE NoToken(d)
  BY <1>1, DeliveryConfig DEF Init, NoToken, Busy
<1>3. \A d \in Delivery : record[d].attempts = 0 /\ posts[d] = 0
  BY DEF Init, NoRecord
<1>4. Lost = 0 /\ MaxAttempts \in Nat
  BY DeliveryConfig DEF Init, Lost
<1>5. \A d \in Delivery : Counted(d)
  BY <1>2, <1>3, <1>4 DEF Counted
<1> QED BY <1>1, <1>5 DEF CountInv

\* A step that makes no request and counts none: no delivery gets its first
\* token, and an agent that leaves with a request uncounted leaves by a fault.
LEMMA CountKept ==
  ASSUME Inv, CountInv, UNCHANGED <<record, posts>>, Lost' \in Nat, Lost' >= Lost,
         \A d \in Delivery : NoToken(d) => NoToken(d)',
         \A d \in Delivery, a \in Agent :
           Busy(a, d) /\ Sent(at[a]) => (Busy(a, d)' /\ Sent(at'[a])) \/ Lost' > Lost,
         \A a \in Agent : at'[a].pc # "idle" => Carries(at'[a], record[at'[a].id].attempts)
  PROVE  CountInv'
<1>0. Lost \in Nat
  BY LostCounts
<1>1. ASSUME NEW d \in Delivery PROVE Counted(d)'
  <2>1. posts[d] \in Nat /\ record[d].attempts \in Nat
    BY CountTypes
  <2>2. PICK r \in Nat, q \in Nat, l \in Nat, m \in Nat :
          r = record[d].attempts /\ q = posts[d] /\ l = Lost /\ m = Lost'
    BY <1>0, <2>1
  <2>3. /\ record'[d].attempts = r /\ posts'[d] = q /\ m >= l /\ q <= r + l + 1
    BY <2>2 DEF CountInv, Counted
  <2>4. q <= r + m + 1
    BY <2>3
  <2>5. /\ record'[d].attempts <= MaxAttempts
        /\ record'[d].status = "none" => record'[d].attempts = 0
        /\ ~NoToken(d)' => record'[d].attempts < MaxAttempts
    BY DEF CountInv, Counted
  <2>6. ASSUME \A a \in Agent : Busy(a, d)' => ~Sent(at'[a]) PROVE q <= r + m
    <3>1. CASE \A a \in Agent : Busy(a, d) => ~Sent(at[a])
      <4>1. q <= r + l
        BY <2>2, <3>1 DEF CountInv, Counted
      <4> QED BY <2>3, <4>1
    <3>2. CASE ~\A a \in Agent : Busy(a, d) => ~Sent(at[a])
      <4>1. m > l
        BY <2>2, <2>6, <3>2
      <4> QED BY <2>3, <4>1
    <3> QED BY <3>1, <3>2
  <2>7. (\A a \in Agent : Busy(a, d) => ~Sent(at[a]))' => q <= r + m
    BY <2>6 DEF Sent
  <2> QED BY <2>2, <2>3, <2>4, <2>5, <2>7 DEF Counted
<1>2. \A a \in Agent : (at[a].pc # "idle" => Carries(at[a], record[at[a].id].attempts))'
  BY DEF Carries, Sent
<1> QED BY <1>1, <1>2 DEF CountInv

\* The same, when one agent moves inside attempt() or leaves it.
LEMMA MoveCounted ==
  ASSUME Inv, CountInv, NEW a \in Agent, NEW new \in AgentType, at' = [at EXCEPT ![a] = new],
         at[a].pc # "idle", UNCHANGED <<record, posts, batch>>,
         retries' \subseteq retries \cup {at[a].id},
         Lost' \in Nat, Lost' >= Lost,
         new = Idle \/ (new.id = at[a].id /\ Carries(new, record[at[a].id].attempts)),
         Sent(at[a]) => (new.id = at[a].id /\ Sent(new)) \/ Lost' > Lost
  PROVE  CountInv'
<1>1. /\ at \in [Agent -> AgentType] /\ at'[a] = new /\ \A b \in Agent \ {a} : at'[b] = at[b]
  BY DEF Inv, TypeOK
<1>2. Idle.pc = "idle" /\ Idle.id = None
  BY AgentValues
<1>3. at[a].id \in Delivery /\ Busy(a, at[a].id)
  BY <1>1 DEF Inv, TypeOK, AgentType, Busy
<1>4. \A b \in Agent, e \in Delivery : Busy(b, e)' => Busy(b, e)
  BY <1>1, <1>2, DeliveryConfig DEF Busy
<1>5. \A e \in Delivery : NoToken(e) => NoToken(e)'
  BY <1>3, <1>4 DEF NoToken
<1>6. \A e \in Delivery, b \in Agent :
        Busy(b, e) /\ Sent(at[b]) => (Busy(b, e)' /\ Sent(at'[b])) \/ Lost' > Lost
  BY <1>1 DEF Busy
<1>7. \A b \in Agent : at'[b].pc # "idle" => Carries(at'[b], record[at'[b].id].attempts)
  BY <1>1, <1>2 DEF CountInv
<1> QED BY <1>5, <1>6, <1>7, CountKept

LEMMA IdleIs == Idle \in AgentType
BY AgentValues

\* What the agent of a step is, and what it carries.
LEMMA AtAgent ==
  ASSUME Inv, CountInv, NEW a \in Agent, at[a].pc # "idle"
  PROVE  /\ at[a] \in AgentType /\ at[a].id \in Delivery /\ Carries(at[a], record[at[a].id].attempts)
         /\ record[at[a].id].attempts \in Nat /\ record[at[a].id].attempts < MaxAttempts
         /\ at[a].attempts \in Nat /\ at[a].snapshot \in Nat
<1>1. at[a] \in AgentType /\ at[a].id \in Delivery /\ at[a].attempts \in Nat /\ at[a].snapshot \in Nat
  BY DEF Inv, TypeOK, AgentType
<1>2. ~NoToken(at[a].id)
  BY DEF NoToken, Busy
<1>3. record[at[a].id].attempts < MaxAttempts
  BY <1>1, <1>2 DEF CountInv, Counted
<1> QED BY <1>1, <1>3, CountTypes DEF CountInv

LEMMA SavePayloadCounted == ASSUME Inv, CountInv, NEW d \in Delivery, SavePayload(d) PROVE CountInv'
<1> DEFINE next == [at[d] EXCEPT !.pc = "find"]
<1>1. d \in Agent /\ at[d].pc = "payload"
  BY DEF Agent, SavePayload
<1>2. at[d] \in AgentType
  BY <1>1, AtAgent
<1>3. next \in AgentType /\ next.pc = "find" /\ next.id = at[d].id
  BY <1>2 DEF AgentType, Steps
<1>4. at' = [at EXCEPT ![d] = next] \/ at' = [at EXCEPT ![d] = Idle]
  BY <1>1 DEF SavePayload, Goto, Return, Inv, TypeOK
<1>5. Lost' \in Nat /\ Lost' >= Lost /\ UNCHANGED <<record, posts, batch, retries>>
  BY LostCounts DEF SavePayload, history
<1> HIDE DEF next
<1>6. Carries(next, record[at[d].id].attempts) /\ ~Sent(at[d])
  BY <1>1, <1>3 DEF Carries, Sent
<1> QED BY <1>1, <1>3, <1>4, <1>5, <1>6, IdleIs, MoveCounted

LEMMA FindByIdCounted == ASSUME Inv, CountInv, NEW a \in Agent, FindById(a) PROVE CountInv'
<1> DEFINE next == [at[a] EXCEPT !.pc = "webhook", !.snapshot = record[at[a].id].attempts]
<1>1. at[a].pc = "find"
  BY DEF FindById
<1>2. at[a] \in AgentType /\ record[at[a].id].attempts \in Nat
  BY <1>1, AtAgent
<1>3. /\ next \in AgentType /\ next.pc = "webhook" /\ next.id = at[a].id
      /\ next.snapshot = record[at[a].id].attempts
  BY <1>2 DEF AgentType, Steps
<1>4. at' = [at EXCEPT ![a] = next] \/ at' = [at EXCEPT ![a] = Idle]
  BY <1>1 DEF FindById, Return, Inv, TypeOK
<1>5. Lost' \in Nat /\ Lost' >= Lost /\ UNCHANGED <<record, posts, batch, retries>>
  BY LostCounts DEF FindById, history
<1> HIDE DEF next
<1>6. Carries(next, record[at[a].id].attempts) /\ ~Sent(at[a])
  BY <1>1, <1>3 DEF Carries, Sent
<1> QED BY <1>1, <1>3, <1>4, <1>5, <1>6, IdleIs, MoveCounted

LEMMA GetWebhookCounted == ASSUME Inv, CountInv, NEW a \in Agent, GetWebhook(a) PROVE CountInv'
<1> DEFINE found == [at[a] EXCEPT !.pc = "post"]
           missing == [at[a] EXCEPT !.pc = "read", !.status = "failed", !.attempts = 0]
<1>1. at[a].pc = "webhook"
  BY DEF GetWebhook
<1>2. at[a] \in AgentType /\ Carries(at[a], record[at[a].id].attempts)
  BY <1>1, AtAgent
<1>3. /\ found \in AgentType /\ found.pc = "post" /\ found.id = at[a].id
      /\ found.snapshot = at[a].snapshot
  BY <1>2 DEF AgentType, Steps
<1>4. /\ missing \in AgentType /\ missing.pc = "read" /\ missing.id = at[a].id
      /\ missing.status = "failed" /\ missing.attempts = 0
  BY <1>2 DEF AgentType, Steps, Statuses
<1>5. \/ at' = [at EXCEPT ![a] = found]
      \/ at' = [at EXCEPT ![a] = missing]
      \/ at' = [at EXCEPT ![a] = Idle]
  BY <1>1 DEF GetWebhook, Goto, Patch, Return, Inv, TypeOK
<1>6. Lost' \in Nat /\ Lost' >= Lost /\ UNCHANGED <<record, posts, batch, retries>>
  BY LostCounts DEF GetWebhook, history
<1> HIDE DEF found, missing
<1>7. /\ Carries(found, record[at[a].id].attempts) /\ ~Sent(at[a])
      /\ Carries(missing, record[at[a].id].attempts)
  BY <1>1, <1>2, <1>3, <1>4 DEF Carries, Sent
<1> QED BY <1>1, <1>3, <1>4, <1>5, <1>6, <1>7, IdleIs, MoveCounted

LEMMA DeadLetterCounted == ASSUME Inv, CountInv, NEW a \in Agent, DeadLetter(a) PROVE CountInv'
<1> DEFINE next == [at[a] EXCEPT !.pc = "read", !.status = "failed"]
<1>1. at[a].pc = "deadLetter"
  BY DEF DeadLetter
<1>2. /\ at[a] \in AgentType /\ Carries(at[a], record[at[a].id].attempts)
      /\ record[at[a].id].attempts \in Nat
  BY <1>1, AtAgent
<1>3. /\ next \in AgentType /\ next.pc = "read" /\ next.id = at[a].id
      /\ next.status = "failed" /\ next.attempts = at[a].attempts
  BY <1>2 DEF AgentType, Steps, Statuses
<1>4. at' = [at EXCEPT ![a] = next]
  <2>1. [at[a] EXCEPT !.pc = "read", !.status = "failed", !.attempts = at[a].attempts] = next
    BY <1>2 DEF AgentType
  <2> QED BY <2>1 DEF DeadLetter, Patch, Inv, TypeOK
<1>5. Lost' \in Nat /\ Lost' >= Lost /\ UNCHANGED <<record, posts, batch, retries>>
  BY LostCounts DEF DeadLetter, history
<1> HIDE DEF next
<1>6. Carries(next, record[at[a].id].attempts) /\ Sent(next)
  BY <1>1, <1>2, <1>3 DEF Carries, Sent
<1> QED BY <1>1, <1>3, <1>4, <1>5, <1>6, MoveCounted

LEMMA UpdateReadCounted == ASSUME Inv, CountInv, NEW a \in Agent, UpdateRead(a) PROVE CountInv'
<1> DEFINE next == [at[a] EXCEPT !.pc = "write", !.existing = record[at[a].id]]
<1>1. at[a].pc = "read"
  BY DEF UpdateRead
<1>2. /\ at[a] \in AgentType /\ at[a].id \in Delivery /\ Carries(at[a], record[at[a].id].attempts)
  BY <1>1, AtAgent
<1>3. /\ next \in AgentType /\ next.pc = "write" /\ next.id = at[a].id
      /\ next.status = at[a].status /\ next.attempts = at[a].attempts
  <2>1. record[at[a].id] \in RecordType
    BY <1>2, CountTypes
  <2> QED BY <1>2, <2>1 DEF AgentType, Steps
<1> HIDE DEF next
<1>4. Carries(next, record[at[a].id].attempts) /\ (Sent(at[a]) => Sent(next))
  BY <1>1, <1>2, <1>3 DEF Carries, Sent
<1>5. UNCHANGED <<record, posts, batch, retries>> /\ Lost \in Nat
  BY LostCounts DEF UpdateRead, history
<1>6. CASE at' = [at EXCEPT ![a] = next] /\ UNCHANGED faults
  <2>1. Lost' \in Nat /\ Lost' >= Lost
    BY <1>6, LostCounts
  <2> QED BY <1>1, <1>3, <1>4, <1>5, <1>6, <2>1, MoveCounted
<1>7. CASE at' = [at EXCEPT ![a] = Idle] /\ RedisError
  <2>1. Lost' = Lost + 1 /\ Lost' \in Nat /\ Lost' > Lost /\ Lost' >= Lost
    BY <1>5, <1>7, LostCounts
  <2> QED BY <1>1, <1>5, <1>7, <2>1, IdleIs, MoveCounted
<1> QED
  BY <1>1, <1>6, <1>7 DEF UpdateRead, Return, Inv, TypeOK, next

LEMMA ScheduleCounted == ASSUME Inv, CountInv, NEW a \in Agent, ScheduleRetry(a) PROVE CountInv'
<1> DEFINE next == [at[a] EXCEPT !.pc = "read", !.status = "pending"]
<1>1. at[a].pc = "schedule"
  BY DEF ScheduleRetry
<1>2. /\ at[a] \in AgentType /\ Carries(at[a], record[at[a].id].attempts)
      /\ record[at[a].id].attempts \in Nat
  BY <1>1, AtAgent
<1>3. /\ next \in AgentType /\ next.pc = "read" /\ next.id = at[a].id
      /\ next.status = "pending" /\ next.attempts = at[a].attempts
  BY <1>2 DEF AgentType, Steps, Statuses
<1>4. [at[a] EXCEPT !.pc = "read", !.status = "pending", !.attempts = at[a].attempts] = next
  BY <1>2 DEF AgentType
<1>5. \/ at' = [at EXCEPT ![a] = next] /\ UNCHANGED faults
      \/ at' = [at EXCEPT ![a] = Idle] /\ RedisError
  BY <1>4 DEF ScheduleRetry, Patch, Return, Inv, TypeOK
<1> HIDE DEF next
<1>6. Carries(next, record[at[a].id].attempts) /\ Sent(next)
  BY <1>1, <1>2, <1>3 DEF Carries, Sent
<1>7. /\ UNCHANGED <<record, posts, batch>> /\ Lost \in Nat
      /\ retries' \subseteq retries \cup {at[a].id}
  BY LostCounts DEF ScheduleRetry, history
<1>8. CASE at' = [at EXCEPT ![a] = next] /\ UNCHANGED faults
  <2>1. Lost' \in Nat /\ Lost' >= Lost
    BY <1>8, LostCounts
  <2> QED BY <1>1, <1>3, <1>6, <1>7, <1>8, <2>1, MoveCounted
<1>9. CASE at' = [at EXCEPT ![a] = Idle] /\ RedisError
  <2>1. Lost' = Lost + 1 /\ Lost' \in Nat /\ Lost' > Lost /\ Lost' >= Lost
    BY <1>7, <1>9, LostCounts
  <2> QED BY <1>1, <1>7, <1>9, <2>1, IdleIs, MoveCounted
<1> QED BY <1>5, <1>8, <1>9

LEMMA PopCounted ==
  ASSUME Inv, CountInv, NEW i \in Instance, NEW ids \in SUBSET Delivery, PopDueRetries(i, ids)
  PROVE  CountInv'
<1>1. /\ UNCHANGED <<record, posts, at>> /\ Lost' \in Nat /\ Lost' >= Lost
      /\ retries' = retries \ ids /\ \A d \in ids : d \in retries
  BY LostCounts DEF PopDueRetries, history, Due
<1>2. \A j \in Instance, d \in Delivery : d \in batch'[j] => d \in batch[j] \/ d \in ids
  BY DEF PopDueRetries, Inv, TypeOK
<1>3. \A d \in Delivery : NoToken(d) => NoToken(d)'
  BY <1>1, <1>2 DEF NoToken, Busy
<1>4. \A d \in Delivery, a \in Agent : Busy(a, d)' <=> Busy(a, d)
  BY <1>1 DEF Busy
<1> QED BY <1>1, <1>3, <1>4, CountKept DEF CountInv

LEMMA NextOfBatchCounted ==
  ASSUME Inv, CountInv, NEW i \in Instance, NEW d \in Delivery, NextOfBatch(i, d)
  PROVE  CountInv'
<1> DEFINE new == Begin(d, "find")
<1>1. new \in AgentType /\ new.pc = "find" /\ new.id = d /\ d # None /\ i \in Agent
  BY AgentValues, DeliveryConfig DEF Agent
<1>2. /\ at' = [at EXCEPT ![i] = new] /\ at[i].pc = "idle" /\ d \in batch[i]
      /\ UNCHANGED <<record, posts, retries>> /\ Lost' \in Nat /\ Lost' >= Lost
  BY LostCounts DEF NextOfBatch, history
<1> HIDE DEF new
<1>3. at'[i] = new /\ \A b \in Agent \ {i} : at'[b] = at[b]
  BY <1>1, <1>2 DEF Inv, TypeOK
<1>4. \A j \in Instance : batch'[j] \subseteq batch[j]
  BY DEF NextOfBatch, Inv, TypeOK
<1>5. \A e \in Delivery : NoToken(e) => NoToken(e)'
  BY <1>1, <1>2, <1>3, <1>4 DEF NoToken, Busy
<1>6. \A e \in Delivery, b \in Agent : Busy(b, e) /\ Sent(at[b]) => Busy(b, e)' /\ Sent(at'[b])
  BY <1>2, <1>3 DEF Busy, Sent
<1>7. \A b \in Agent : at'[b].pc # "idle" => Carries(at'[b], record[at'[b].id].attempts)
  <2>1. Carries(new, record[new.id].attempts)
    BY <1>1 DEF Carries, Sent
  <2> QED BY <1>3, <2>1 DEF CountInv
<1> QED BY <1>2, <1>5, <1>6, <1>7, CountKept

LEMMA CrashCounted == ASSUME Inv, CountInv, NEW i \in Instance, Crash(i) PROVE CountInv'
<1>1. \A b \in Agent : at'[b] \in {at[b], Idle}
  BY DEF Crash
<1>2. /\ UNCHANGED <<record, posts, retries>> /\ \A j \in Instance : batch'[j] \subseteq batch[j]
  BY DEF Crash, history, Inv, TypeOK
<1>3. Lost' \in Nat /\ Lost' > Lost /\ Lost' >= Lost
  BY LostCounts
<1>4. \A b \in Agent, e \in Delivery : Busy(b, e)' => Busy(b, e)
  BY <1>1, AgentValues, DeliveryConfig DEF Busy
<1>5. \A e \in Delivery : NoToken(e) => NoToken(e)'
  BY <1>2, <1>4 DEF NoToken
<1>6. \A b \in Agent : at'[b].pc # "idle" => Carries(at'[b], record[at'[b].id].attempts)
  BY <1>1, AgentValues DEF CountInv
<1> QED BY <1>2, <1>3, <1>5, <1>6, CountKept

\* A step that changes the record or the count of one delivery, d, and nothing
\* of the others.
LEMMA OthersCounted ==
  ASSUME Inv, CountInv, NEW d \in Delivery, Lost' \in Nat, Lost' >= Lost,
         \A e \in Delivery \ {d} : /\ record'[e] = record[e] /\ posts'[e] = posts[e]
                                   /\ NoToken(e) => NoToken(e)'
                                   /\ \A b \in Agent : Busy(b, e) => Busy(b, e)' /\ at'[b] = at[b]
  PROVE  \A e \in Delivery \ {d} : Counted(e)'
<1> SUFFICES ASSUME NEW e \in Delivery \ {d} PROVE Counted(e)'
  OBVIOUS
<1>0. Lost \in Nat /\ posts[e] \in Nat /\ record[e].attempts \in Nat
  BY LostCounts, CountTypes
<1>1. PICK r \in Nat, q \in Nat, l \in Nat, m \in Nat :
        r = record[e].attempts /\ q = posts[e] /\ l = Lost /\ m = Lost'
  BY <1>0
<1>2. /\ record'[e].attempts = r /\ posts'[e] = q /\ m >= l /\ q <= r + l + 1
  BY <1>1 DEF CountInv, Counted
<1>3. q <= r + m + 1
  BY <1>2
<1>4. /\ record'[e].attempts <= MaxAttempts
      /\ record'[e].status = "none" => record'[e].attempts = 0
      /\ ~NoToken(e)' => record'[e].attempts < MaxAttempts
  BY DEF CountInv, Counted
<1>5. ASSUME (\A a \in Agent : Busy(a, e) => ~Sent(at[a]))' PROVE q <= r + m
  <2>1. \A a \in Agent : Busy(a, e) => ~Sent(at[a])
    BY <1>5 DEF Sent
  <2>2. q <= r + l
    BY <1>1, <2>1 DEF CountInv, Counted
  <2> QED BY <1>2, <2>2
<1> QED BY <1>1, <1>2, <1>3, <1>4, <1>5 DEF Counted

LEMMA CreateCounted ==
  ASSUME Inv, OwnTask, CountInv, NEW d \in Delivery, NEW i \in Instance, Create(d, i)
  PROVE  CountInv'
<1> DEFINE new == Begin(d, "payload")
<1>1. new \in AgentType /\ new.pc = "payload" /\ new.id = d /\ d # None /\ d \in Agent
  BY AgentValues, DeliveryConfig DEF Agent
<1>2. /\ at' = [at EXCEPT ![d] = new] \/ at' = at
      /\ UNCHANGED <<retries, batch, posts>> /\ record[d].status = "none"
  BY DEF Create, history
<1> HIDE DEF new
<1>3. /\ at'[d] = new \/ at'[d] = at[d]
      /\ \A b \in Agent : b # d => at'[b] = at[b]
  BY <1>1, <1>2 DEF Inv, TypeOK
<1>4. /\ record'[d].status = "pending" /\ record'[d].attempts = 0
      /\ \A e \in Delivery : e # d => record'[e] = record[e]
  BY DEF Create, Inv, TypeOK
<1>5. Lost \in Nat /\ Lost' \in Nat /\ Lost' >= Lost
  BY LostCounts DEF Create
<1>6. NoToken(d) /\ record[d].attempts = 0
  BY <1>2 DEF Inv, Fresh, CountInv, Counted
<1>7. Counted(d)'
  <2>1. posts[d] \in Nat /\ posts[d] <= record[d].attempts + Lost
    BY <1>6, CountTypes DEF NoToken, CountInv, Counted
  <2>2. posts'[d] <= 0 + Lost' /\ posts'[d] <= 0 + Lost' + 1
    BY <1>2, <1>5, <1>6, <2>1
  <2> QED BY <1>4, <2>2, DeliveryConfig DEF Counted
<1>8. ASSUME NEW e \in Delivery \ {d}
      PROVE  /\ NoToken(e) => NoToken(e)'
             /\ \A b \in Agent : Busy(b, e) => Busy(b, e)' /\ at'[b] = at[b]
  <2>1. \A b \in Agent : Busy(b, e)' => Busy(b, e)
    BY <1>1, <1>3 DEF Busy
  <2>2. \A b \in Agent : Busy(b, e) => at'[b] = at[b]
    <3>1. at[d].id = None
      BY <1>1, <1>6 DEF OwnTask, NoToken, Busy
    <3> QED BY <1>3, <3>1, DeliveryConfig DEF Busy
  <2> QED BY <1>2, <2>1, <2>2 DEF NoToken, Busy
<1>9. \A e \in Delivery : Counted(e)'
  BY <1>2, <1>4, <1>5, <1>7, <1>8, OthersCounted
<1>10. \A b \in Agent : (at[b].pc # "idle" => Carries(at[b], record[at[b].id].attempts))'
  <2>1. Carries(new, 0)
    BY <1>1 DEF Carries, Sent
  <2>2. ASSUME NEW b \in Agent, at'[b].pc # "idle", at'[b] = at[b]
        PROVE  Carries(at'[b], record'[at'[b].id].attempts)
    <3>1. at[b].id \in Delivery /\ at[b].id # d
      BY <1>6, <2>2 DEF Inv, TypeOK, AgentType, NoToken, Busy
    <3> QED BY <1>4, <2>2, <3>1 DEF CountInv
  <2>3. \A b \in Agent : at'[b].pc # "idle" => Carries(at'[b], record'[at'[b].id].attempts)
    BY <1>1, <1>3, <1>4, <2>1, <2>2
  <2> QED BY <2>3 DEF Carries, Sent
<1> QED BY <1>9, <1>10 DEF CountInv

LEMMA PostCounted ==
  ASSUME Inv, CountInv, NEW a \in Agent, NEW outcome \in Outcome, Post(a, outcome)
  PROVE  CountInv'
<1>1. at[a].pc = "post"
  BY DEF Post
<1>2. PICK d \in Delivery, n \in Nat :
        /\ d = at[a].id /\ n = record[d].attempts /\ n < MaxAttempts
        /\ at[a] \in AgentType /\ at[a].snapshot = n
  BY <1>1, AtAgent DEF Carries
<1>3. PICK new \in AgentType :
        /\ at' = [at EXCEPT ![a] = new] /\ new.id = d /\ new.attempts = n + 1
        /\ \/ new.pc = "read" /\ new.status = "success"
           \/ new.pc = "schedule" /\ n + 1 < MaxAttempts
           \/ new.pc = "deadLetter"
  <2>0. n + 1 \in Nat
    OBVIOUS
  <2>1. CASE outcome = "2xx"
    <3> DEFINE k == [at[a] EXCEPT !.pc = "read", !.status = "success", !.attempts = n + 1]
    <3>1. k \in AgentType /\ k.id = d /\ k.attempts = n + 1 /\ k.pc = "read" /\ k.status = "success"
      <4>1. /\ k \in AgentType /\ k.id = at[a].id /\ k.attempts = n + 1 /\ k.pc = "read"
            /\ k.status = "success"
        BY <2>0, <1>2 DEF AgentType, Steps, Statuses
      <4> QED BY <1>2, <4>1
    <3>2. at' = [at EXCEPT ![a] = k]
      BY <1>2, <2>1 DEF Post, Patch, Inv, TypeOK
    <3> HIDE DEF k
    <3> QED BY <3>1, <3>2
  <2>2. CASE outcome # "2xx"
    <3>1. PICK p \in {"schedule", "deadLetter"} :
            /\ p = IF outcome = "retryable" /\ n + 1 < MaxAttempts THEN "schedule" ELSE "deadLetter"
            /\ at' = [at EXCEPT ![a].attempts = n + 1, ![a].pc = p]
      BY <1>2, <2>2 DEF Post
    <3> DEFINE k == [at[a] EXCEPT !.attempts = n + 1, !.pc = p]
    <3>2. k \in AgentType /\ k.id = d /\ k.attempts = n + 1 /\ k.pc = p
      <4>1. k \in AgentType /\ k.id = at[a].id /\ k.attempts = n + 1 /\ k.pc = p
        BY <2>0, <1>2 DEF AgentType, Steps
      <4> QED BY <1>2, <4>1
    <3>3. at' = [at EXCEPT ![a] = k]
      BY <3>1 DEF Inv, TypeOK
    <3> HIDE DEF k
    <3> QED BY <3>1, <3>2, <3>3
  <2> QED BY <2>1, <2>2
<1>4. at'[a] = new /\ \A b \in Agent \ {a} : at'[b] = at[b]
  BY <1>3 DEF Inv, TypeOK
<1>5. /\ posts'[d] = posts[d] + 1 /\ \A e \in Delivery \ {d} : posts'[e] = posts[e]
      /\ UNCHANGED <<record, retries, batch>>
  BY <1>2 DEF Post, Inv, TypeOK
<1>6. Lost \in Nat /\ Lost' \in Nat /\ Lost' = Lost /\ Lost' >= Lost
  <2>1. Lost \in Nat /\ Lost' = Lost
    BY LostCounts DEF Post
  <2> QED BY <2>1
<1>7. \A b \in Agent : Busy(b, d) => b = a
  BY <1>2 DEF Inv, Exclusive, Busy
<1>8. Sent(new) /\ Carries(new, n) /\ ~Sent(at[a])
  BY <1>1, <1>3 DEF Sent, Carries
<1>9. Counted(d)'
  <2>1. posts[d] <= n + Lost /\ posts[d] \in Nat
    BY <1>2, <1>7, <1>8, CountTypes DEF CountInv, Counted
  <2>2. posts'[d] <= n + Lost' + 1
    BY <1>5, <1>6, <2>1
  <2>3. ~(\A b \in Agent : Busy(b, d) => ~Sent(at[b]))'
    BY <1>3, <1>4, <1>8 DEF Busy, Sent
  <2>4. record'[d].attempts = n /\ n <= MaxAttempts
    BY <1>2, <1>5, DeliveryConfig
  <2>5. record'[d].status = "none" => record'[d].attempts = 0
    BY <1>5 DEF CountInv, Counted
  <2> QED BY <1>2, <2>2, <2>3, <2>4, <2>5 DEF Counted
<1>10. \A e \in Delivery \ {d} : Counted(e)'
  <2>1. \A e \in Delivery \ {d}, b \in Agent : Busy(b, e) => Busy(b, e)' /\ at'[b] = at[b]
    BY <1>2, <1>4 DEF Busy
  <2>2. \A e \in Delivery \ {d}, b \in Agent : Busy(b, e)' => Busy(b, e)
    BY <1>3, <1>4 DEF Busy
  <2>3. \A e \in Delivery \ {d} : NoToken(e) => NoToken(e)'
    BY <1>5, <2>2 DEF NoToken
  <2> QED BY <1>5, <1>6, <2>1, <2>3, OthersCounted
<1>11. \A b \in Agent : (at[b].pc # "idle" => Carries(at[b], record[at[b].id].attempts))'
  <2>1. \A b \in Agent : at'[b].pc # "idle" => Carries(at'[b], record[at'[b].id].attempts)
    BY <1>2, <1>3, <1>4, <1>8 DEF CountInv
  <2> QED BY <1>5, <2>1 DEF Carries, Sent
<1> QED BY <1>9, <1>10, <1>11 DEF CountInv

LEMMA WriteCounted == ASSUME Inv, CountInv, NEW a \in Agent, UpdateWrite(a) PROVE CountInv'
<1>1. at[a].pc = "write"
  BY DEF UpdateWrite
<1>2. PICK d \in Delivery, n \in Nat :
        /\ d = at[a].id /\ n = record[d].attempts /\ n < MaxAttempts
        /\ at[a] \in AgentType /\ Carries(at[a], n) /\ at[a].attempts \in Nat
  BY <1>1, AtAgent
<1>3. at' = [at EXCEPT ![a] = Idle] /\ UNCHANGED <<posts, retries, batch>>
  BY DEF UpdateWrite, Return, history
<1>4. CASE UNCHANGED record /\ RedisError
  <2>1. Lost' \in Nat /\ Lost' > Lost /\ Lost' >= Lost
    BY <1>4, LostCounts
  <2> QED BY <1>1, <1>3, <1>4, <2>1, IdleIs, MoveCounted
<1>5. CASE record' = [record EXCEPT ![d] = Merged(a)] /\ (UNCHANGED faults \/ RedisError)
  <2>1. Lost \in Nat /\ Lost' \in Nat /\ Lost' >= Lost
    BY <1>5, LostCounts
  <2>2. at[a].existing = record[d] /\ at[a].status # "none"
    BY <1>1, <1>2 DEF Inv, Recording
  <2>3. PICK m \in Nat : m = IF at[a].attempts = 0 THEN n ELSE n + 1
    BY <1>2
  <2>4. /\ record'[d].attempts = m /\ record'[d].status = at[a].status
        /\ \A e \in Delivery \ {d} : record'[e] = record[e]
    <3>1. Merged(a).attempts = m /\ Merged(a).status = at[a].status
      BY <1>1, <1>2, <2>2, <2>3 DEF Merged, Carries, Sent
    <3> QED BY <1>5, <3>1 DEF Inv, TypeOK
  <2>5. at'[a].pc = "idle" /\ at'[a].id = None /\ \A b \in Agent \ {a} : at'[b] = at[b]
    BY <1>3, AgentValues DEF Inv, TypeOK
  <2>6. /\ \A b \in Agent : Busy(b, d) => b = a
        /\ \A i \in Instance : d \notin batch[i]
        /\ d \in retries => at[a].status = "pending"
    <3>1. Busy(a, d)
      BY <1>2 DEF Busy
    <3> QED BY <1>1, <3>1 DEF Inv, Exclusive
  <2>7. \A b \in Agent : ~Busy(b, d)'
    BY <1>2, <2>5, <2>6, DeliveryConfig DEF Busy
  <2>8. Counted(d)'
    <3>1. posts[d] \in Nat /\ posts[d] <= m + Lost
      <4>1. posts[d] \in Nat /\ posts[d] <= n + Lost + 1
        BY <1>2, CountTypes DEF CountInv, Counted
      <4>2. CASE at[a].attempts = 0
        <5>1. \A b \in Agent : Busy(b, d) => ~Sent(at[b])
          BY <1>1, <2>6, <4>2 DEF Sent
        <5> QED BY <1>2, <2>3, <4>1, <4>2, <5>1 DEF CountInv, Counted
      <4>3. CASE at[a].attempts # 0
        BY <2>1, <2>3, <4>1, <4>3
      <4> QED BY <4>2, <4>3
    <3>2. posts'[d] <= m + Lost' /\ posts'[d] <= m + Lost' + 1
      BY <1>3, <2>1, <3>1
    <3>3. m <= MaxAttempts
      BY <1>2, <2>3, DeliveryConfig
    <3>4. d \in retries => m < MaxAttempts
      BY <1>1, <1>2, <2>3, <2>6 DEF Carries, Sent
    <3>5. ~NoToken(d)' => m < MaxAttempts
      BY <1>3, <2>6, <2>7, <3>4 DEF NoToken
    <3> QED BY <2>2, <2>4, <3>2, <3>3, <3>5 DEF Counted
  <2>9. \A e \in Delivery \ {d} : Counted(e)'
    <3>1. \A e \in Delivery \ {d}, b \in Agent : Busy(b, e) => Busy(b, e)' /\ at'[b] = at[b]
      BY <1>2, <2>5 DEF Busy
    <3>2. \A e \in Delivery \ {d}, b \in Agent : Busy(b, e)' => Busy(b, e)
      BY <2>5, DeliveryConfig DEF Busy
    <3>3. \A e \in Delivery \ {d} : NoToken(e) => NoToken(e)'
      BY <1>3, <3>2 DEF NoToken
    <3> QED BY <1>3, <2>1, <2>4, <3>1, <3>3, OthersCounted
  <2>10. \A b \in Agent : (at[b].pc # "idle" => Carries(at[b], record[at[b].id].attempts))'
    <3>1. ASSUME NEW b \in Agent, at'[b].pc # "idle"
          PROVE  Carries(at'[b], record'[at'[b].id].attempts)
      <4>1. at'[b] = at[b] /\ b # a
        BY <2>5, <3>1
      <4>2. at[b].id \in Delivery /\ at[b].id # d
        BY <2>6, <3>1, <4>1 DEF Inv, TypeOK, AgentType, Busy
      <4> QED BY <2>4, <3>1, <4>1, <4>2 DEF CountInv
    <3> QED BY <3>1 DEF Carries, Sent
  <2> QED BY <2>8, <2>9, <2>10 DEF CountInv
<1> QED BY <1>2, <1>4, <1>5 DEF UpdateWrite

LEMMA CountStep == ASSUME Inv, OwnTask, CountInv, [Next]_vars PROVE CountInv'
<1>1. ASSUME NEW a \in Agent, AgentStep(a) PROVE CountInv'
  BY <1>1, FindByIdCounted, GetWebhookCounted, PostCounted, ScheduleCounted, DeadLetterCounted,
     UpdateReadCounted, WriteCounted DEF AgentStep
<1>2. CASE UNCHANGED vars
  BY <1>2 DEF vars, CountInv, Counted, NoToken, Busy, Lost, Sent, Carries
<1> QED BY <1>1, <1>2, CreateCounted, SavePayloadCounted, PopCounted, NextOfBatchCounted, CrashCounted
    DEF Next

\* A delivery is sent at most maxAttempts times, and once more for each crash or
\* Redis error, which may keep attempt() from counting a request it has made.
THEOREM AttemptsAreBounded == Spec => []AttemptsBounded
<1>1. Init => Inv /\ OwnTask /\ CountInv
  BY InitInv, OwnTaskInit, CountInit
<1>2. Inv /\ OwnTask /\ CountInv /\ [Next]_vars => (Inv /\ OwnTask /\ CountInv)'
  BY NextInv, OwnTaskStep, CountStep
<1>3. Inv /\ CountInv => AttemptsBounded
  <2> SUFFICES ASSUME Inv, CountInv, NEW d \in Delivery
               PROVE  posts[d] <= MaxAttempts + crashes + redisErrors
    BY DEF AttemptsBounded
  <2>1. /\ Lost \in Nat /\ posts[d] \in Nat /\ record[d].attempts \in Nat /\ crashes \in Nat
        /\ redisErrors \in Nat /\ MaxAttempts \in Nat
    BY LostCounts, CountTypes, DeliveryConfig DEF Inv, TypeOK
  <2>2. posts[d] <= MaxAttempts + Lost
    <3>1. CASE \A a \in Agent : Busy(a, d) => ~Sent(at[a])
      BY <2>1, <3>1 DEF CountInv, Counted
    <3>2. CASE ~\A a \in Agent : Busy(a, d) => ~Sent(at[a])
      <4>1. ~NoToken(d)
        BY <3>2 DEF NoToken
      <4> QED BY <2>1, <4>1 DEF CountInv, Counted
    <3> QED BY <3>1, <3>2
  <2> QED BY <2>1, <2>2 DEF Lost
<1> QED BY <1>1, <1>2, <1>3, PTL DEF Spec

-----------------------------------------------------------------------------
(* What becomes of a delivery that is not settled: as long as no process   *)
(* dies and no Redis command fails, its token is somewhere.                *)

\* Every pending delivery is queued, popped by a worker or being attempted.
PendingHeld == \A d \in Delivery : record[d].status = "pending" => ~NoToken(d)

\* An agent recording "pending" has put its delivery back on the queue before.
RequeuedFirst ==
  \A a \in Agent : at[a].pc \in {"read", "write"} /\ at[a].status = "pending" => at[a].id \in retries

HeldInv == Undisturbed => PendingHeld /\ RequeuedFirst

LEMMA UndisturbedSo ==
  ASSUME Inv
  PROVE  /\ UNCHANGED faults => (Undisturbed' <=> Undisturbed)
         /\ RedisError => ~Undisturbed'
         /\ \A i \in Instance : Crash(i) => ~Undisturbed'
<1>1. crashes \in Nat /\ redisErrors \in Nat
  BY DeliveryConfig DEF Inv, TypeOK
<1>2. UNCHANGED faults => (Undisturbed' <=> Undisturbed)
  BY DEF faults, Undisturbed
<1>3. RedisError => ~Undisturbed'
  BY <1>1 DEF RedisError, Undisturbed
<1>4. ASSUME NEW i \in Instance, Crash(i) PROVE ~Undisturbed'
  BY <1>1, <1>4 DEF Crash, Undisturbed
<1> QED BY <1>2, <1>3, <1>4

\* A step of an agent that keeps its delivery, or leaves it queued or settled.
LEMMA HeldMove ==
  ASSUME Inv, PendingHeld, RequeuedFirst, NEW a \in Agent, at[a].pc # "idle",
         NEW new, at' = [at EXCEPT ![a] = new],
         UNCHANGED batch, retries \subseteq retries',
         \A e \in Delivery : e # at[a].id => record'[e] = record[e],
         new.id = at[a].id \/ record'[at[a].id].status # "pending" \/ at[a].id \in retries',
         ~(new.pc \in {"read", "write"} /\ new.status = "pending") \/ new.id \in retries'
  PROVE  PendingHeld' /\ RequeuedFirst'
<1>1. at'[a] = new /\ \A b \in Agent : b # a => at'[b] = at[b]
  BY DEF Inv, TypeOK
<1>2. RequeuedFirst'
  BY <1>1 DEF RequeuedFirst
<1>3. ASSUME NEW d \in Delivery, record'[d].status = "pending" PROVE ~NoToken(d)'
  <2>1. CASE d = at[a].id
    BY <2>1, <1>1, <1>3 DEF NoToken, Busy
  <2>2. CASE d # at[a].id
    <3>1. ~NoToken(d)
      BY <2>2, <1>3 DEF PendingHeld
    <3>2. \A b \in Agent : Busy(b, d) => Busy(b, d)'
      BY <2>2, <1>1 DEF Busy
    <3> QED BY <3>1, <3>2 DEF NoToken
  <2> QED BY <2>1, <2>2
<1> QED BY <1>2, <1>3 DEF PendingHeld

LEMMA HeldAgentStep ==
  ASSUME Inv, PendingHeld, RequeuedFirst, NEW a \in Agent, AgentStep(a), UNCHANGED faults
  PROVE  PendingHeld' /\ RequeuedFirst'
<1>1. at[a].pc # "idle"
  BY DEF AgentStep, FindById, GetWebhook, ScheduleRetry, DeadLetter, UpdateRead, UpdateWrite, Post
<1>2. at[a] \in AgentType /\ at[a].id \in Delivery /\ at[a] = at[a]
  BY <1>1 DEF Inv, TypeOK, AgentType
<1>3. ~RedisError
  BY DEF RedisError, faults, Inv, TypeOK
<1>4. CASE FindById(a)
  <2> DEFINE next == [at[a] EXCEPT !.pc = "webhook", !.snapshot = record[at[a].id].attempts]
  <2>1. next.pc = "webhook" /\ next.id = at[a].id
    BY <1>2 DEF AgentType
  <2>2. \/ at' = [at EXCEPT ![a] = next]
        \/ at' = [at EXCEPT ![a] = Idle] /\ record[at[a].id].status = "success"
    BY <1>3, <1>4 DEF FindById, Return, Inv, TypeOK
  <2>3. UNCHANGED <<record, batch, retries>>
    BY <1>4 DEF FindById
  <2> HIDE DEF next
  <2> QED BY <1>1, <2>1, <2>2, <2>3, HeldMove, AgentValues
<1>5. CASE GetWebhook(a)
  <2> DEFINE found == [at[a] EXCEPT !.pc = "post"]
             missing == [at[a] EXCEPT !.pc = "read", !.status = "failed", !.attempts = 0]
  <2>1. /\ found.pc = "post" /\ found.id = at[a].id
        /\ missing.status = "failed" /\ missing.id = at[a].id
    BY <1>2 DEF AgentType
  <2>2. at' = [at EXCEPT ![a] = found] \/ at' = [at EXCEPT ![a] = missing]
    BY <1>3, <1>5 DEF GetWebhook, Goto, Patch, Inv, TypeOK
  <2>3. UNCHANGED <<record, batch, retries>>
    BY <1>5 DEF GetWebhook
  <2> HIDE DEF found, missing
  <2> QED BY <1>1, <2>1, <2>2, <2>3, HeldMove
<1>6. CASE ScheduleRetry(a)
  <2> DEFINE next == [at[a] EXCEPT !.pc = "read", !.status = "pending", !.attempts = at[a].attempts]
  <2>1. next.id = at[a].id
    BY <1>2 DEF AgentType
  <2>2. at' = [at EXCEPT ![a] = next] /\ retries' = retries \cup {at[a].id}
    BY <1>3, <1>6 DEF ScheduleRetry, Patch, Inv, TypeOK
  <2>3. UNCHANGED <<record, batch>>
    BY <1>6 DEF ScheduleRetry
  <2> HIDE DEF next
  <2> QED BY <1>1, <2>1, <2>2, <2>3, HeldMove
<1>7. CASE DeadLetter(a)
  <2> DEFINE next == [at[a] EXCEPT !.pc = "read", !.status = "failed", !.attempts = at[a].attempts]
  <2>1. next.id = at[a].id /\ next.status = "failed"
    BY <1>2 DEF AgentType
  <2>2. at' = [at EXCEPT ![a] = next]
    BY <1>7 DEF DeadLetter, Patch, Inv, TypeOK
  <2>3. UNCHANGED <<record, batch, retries>>
    BY <1>7 DEF DeadLetter
  <2> HIDE DEF next
  <2> QED BY <1>1, <2>1, <2>2, <2>3, HeldMove
<1>8. CASE UpdateRead(a)
  <2> DEFINE next == [at[a] EXCEPT !.pc = "write", !.existing = record[at[a].id]]
  <2>1. next.id = at[a].id /\ next.status = at[a].status
    BY <1>2 DEF AgentType
  <2>2. at' = [at EXCEPT ![a] = next] /\ at[a].pc = "read"
    BY <1>3, <1>8 DEF UpdateRead, Inv, TypeOK
  <2>3. UNCHANGED <<record, batch, retries>>
    BY <1>8 DEF UpdateRead
  <2>4. at[a].status # "pending" \/ at[a].id \in retries
    BY <2>2 DEF RequeuedFirst
  <2> HIDE DEF next
  <2> QED BY <1>1, <2>1, <2>2, <2>3, <2>4, HeldMove
<1>9. CASE UpdateWrite(a)
  <2>1. at' = [at EXCEPT ![a] = Idle] /\ at[a].pc = "write" /\ UNCHANGED <<batch, retries>>
    BY <1>9 DEF UpdateWrite, Return
  <2>2. at[a].status # "pending" \/ at[a].id \in retries
    BY <2>1 DEF RequeuedFirst
  <2>3. record' = [record EXCEPT ![at[a].id] = Merged(a)]
    BY <1>3, <1>9 DEF UpdateWrite
  <2>4. record'[at[a].id].status = at[a].status /\ \A e \in Delivery : e # at[a].id => record'[e] = record[e]
    BY <1>2, <2>3 DEF Merged, Inv, TypeOK
  <2> QED BY <1>1, <2>1, <2>2, <2>4, HeldMove, AgentValues
<1>10. ASSUME NEW outcome \in Outcome, Post(a, outcome) PROVE PendingHeld' /\ RequeuedFirst'
  <2> DEFINE n == at[a].snapshot + 1
             won == [at[a] EXCEPT !.pc = "read", !.status = "success", !.attempts = n]
             again == [at[a] EXCEPT !.attempts = n, !.pc = "schedule"]
             lost == [at[a] EXCEPT !.attempts = n, !.pc = "deadLetter"]
  <2>1. /\ won.id = at[a].id /\ won.status = "success"
        /\ again.id = at[a].id /\ again.pc = "schedule"
        /\ lost.id = at[a].id /\ lost.pc = "deadLetter"
    BY <1>2 DEF AgentType
  <2>2. at' = [at EXCEPT ![a] = won] \/ at' = [at EXCEPT ![a] = again] \/ at' = [at EXCEPT ![a] = lost]
    BY <1>10 DEF Post, Patch, Inv, TypeOK
  <2>3. UNCHANGED <<record, batch, retries>>
    BY <1>10 DEF Post
  <2> HIDE DEF won, again, lost
  <2> QED BY <1>1, <2>1, <2>2, <2>3, HeldMove
<1> QED BY <1>4, <1>5, <1>6, <1>7, <1>8, <1>9, <1>10 DEF AgentStep

LEMMA HeldStep == ASSUME Inv, Inv', OwnTask, HeldInv, [Next]_vars PROVE HeldInv'
<1> SUFFICES ASSUME Undisturbed' PROVE PendingHeld' /\ RequeuedFirst'
  BY DEF HeldInv
<1>1. ASSUME NEW i \in Instance PROVE ~Crash(i)
  BY UndisturbedSo
<1>2. ~RedisError
  BY UndisturbedSo
<1>3. UNCHANGED faults
  BY <1>1, <1>2 DEF Next, vars, faults, Create, SavePayload, PopDueRetries, NextOfBatch, AgentStep,
     FindById, GetWebhook, ScheduleRetry, DeadLetter, UpdateRead, UpdateWrite, Post
<1>4. PendingHeld /\ RequeuedFirst
  BY <1>3, UndisturbedSo DEF HeldInv
<1>5. ASSUME NEW d \in Delivery, NEW i \in Instance, Create(d, i) PROVE PendingHeld' /\ RequeuedFirst'
  <2>1. /\ at' = [at EXCEPT ![d] = Begin(d, "payload")] /\ UNCHANGED <<batch, retries>>
        /\ record' = [record EXCEPT ![d] = [status |-> "pending", attempts |-> 0]]
        /\ record[d].status = "none"
    BY <1>2, <1>5 DEF Create
  <2>2. d \in Agent /\ at[d].id = None
    BY <2>1 DEF Agent, OwnTask, Inv, Fresh, NoToken, Busy
  <2>3. at'[d] = Begin(d, "payload") /\ \A b \in Agent : b # d => at'[b] = at[b]
    BY <2>1, <2>2 DEF Inv, TypeOK
  <2>4. RequeuedFirst'
    BY <1>4, <2>1, <2>3, AgentValues DEF RequeuedFirst
  <2>5. ASSUME NEW e \in Delivery, record'[e].status = "pending" PROVE ~NoToken(e)'
    <3>1. CASE e = d
      BY <2>2, <2>3, <3>1, AgentValues DEF NoToken, Busy
    <3>2. CASE e # d
      <4>1. ~NoToken(e)
        BY <1>4, <2>1, <2>5, <3>2 DEF PendingHeld, Inv, TypeOK
      <4>2. \A b \in Agent : Busy(b, e) => Busy(b, e)'
        BY <2>2, <2>3, DeliveryConfig DEF Busy
      <4> QED BY <2>1, <4>1, <4>2 DEF NoToken
    <3> QED BY <3>1, <3>2
  <2> QED BY <2>4, <2>5 DEF PendingHeld
<1>6. ASSUME NEW d \in Delivery, SavePayload(d) PROVE PendingHeld' /\ RequeuedFirst'
  <2> DEFINE next == [at[d] EXCEPT !.pc = "find"]
  <2>1. d \in Agent /\ at[d].pc = "payload"
    BY <1>6 DEF Agent, SavePayload
  <2>2. next.pc = "find" /\ next.id = at[d].id
    BY <2>1 DEF Inv, TypeOK, AgentType
  <2>3. at' = [at EXCEPT ![d] = next] /\ UNCHANGED <<record, batch, retries>>
    BY <1>2, <1>6, <2>1 DEF SavePayload, Goto, Inv, TypeOK
  <2> HIDE DEF next
  <2> QED BY <1>4, <2>1, <2>2, <2>3, HeldMove
<1>7. ASSUME NEW i \in Instance, NEW ids \in SUBSET Delivery, PopDueRetries(i, ids)
      PROVE  PendingHeld' /\ RequeuedFirst'
  <2>1. /\ UNCHANGED <<record, at>> /\ retries' = retries \ ids /\ batch' = [batch EXCEPT ![i] = ids]
        /\ batch[i] = {} /\ \A d \in ids, a \in Agent : ~Busy(a, d)
    BY <1>2, <1>7 DEF PopDueRetries, Due
  <2>2. batch'[i] = ids /\ \A j \in Instance : batch[j] \subseteq batch'[j]
    BY <2>1 DEF Inv, TypeOK
  <2>3. RequeuedFirst'
    BY <1>4, <2>1 DEF RequeuedFirst, Busy
  <2>4. ASSUME NEW e \in Delivery, ~NoToken(e) PROVE ~NoToken(e)'
    BY <2>1, <2>2, <2>4 DEF NoToken, Busy
  <2> QED BY <1>4, <2>1, <2>3, <2>4 DEF PendingHeld
<1>8. ASSUME NEW i \in Instance, NEW d \in Delivery, NextOfBatch(i, d) PROVE PendingHeld' /\ RequeuedFirst'
  <2>1. /\ at' = [at EXCEPT ![i] = Begin(d, "find")] /\ at[i].pc = "idle" /\ i \in Agent
        /\ UNCHANGED <<record, retries>> /\ batch' = [batch EXCEPT ![i] = @ \ {d}]
    BY <1>8 DEF NextOfBatch, Agent
  <2>2. at'[i] = Begin(d, "find") /\ at[i].id = None /\ \A b \in Agent : b # i => at'[b] = at[b]
    BY <2>1 DEF Inv, TypeOK
  <2>3. RequeuedFirst'
    BY <1>4, <2>1, <2>2, AgentValues DEF RequeuedFirst
  <2>4. \A e \in Delivery, j \in Instance : e # d /\ e \in batch[j] => e \in batch'[j]
    BY <2>1 DEF Inv, TypeOK
  <2>5. ASSUME NEW e \in Delivery, ~NoToken(e) PROVE ~NoToken(e)'
    <3>1. CASE e = d
      BY <2>1, <2>2, <3>1, AgentValues DEF NoToken, Busy
    <3>2. CASE e # d
      BY <2>1, <2>2, <2>4, <2>5, <3>2, DeliveryConfig DEF NoToken, Busy
    <3> QED BY <3>1, <3>2
  <2> QED BY <1>4, <2>1, <2>3, <2>5 DEF PendingHeld
<1>9. CASE UNCHANGED vars
  BY <1>4, <1>9 DEF vars, PendingHeld, RequeuedFirst, NoToken, Busy
<1> QED BY <1>1, <1>3, <1>4, <1>5, <1>6, <1>7, <1>8, <1>9, HeldAgentStep DEF Next

\* As long as no process dies and no Redis command fails, every pending delivery is
\* queued, popped or being attempted: what RetrySurvives says, which a crash breaks.
THEOREM PendingAreHeld == Spec => [](Undisturbed => PendingHeld /\ RetrySurvives)
<1>1. Init => HeldInv
  BY AgentValues DEF Init, HeldInv, PendingHeld, RequeuedFirst, NoRecord
<1>2. HeldInv => (Undisturbed => PendingHeld /\ RetrySurvives)
  BY DEF HeldInv, PendingHeld, RetrySurvives, NoToken
<1>3. Inv /\ Inv' /\ OwnTask /\ HeldInv /\ [Next]_vars => HeldInv'
  BY HeldStep
<1>4. Init => Inv /\ OwnTask
  BY InitInv, OwnTaskInit
<1>5. Inv /\ OwnTask /\ [Next]_vars => Inv' /\ OwnTask'
  BY NextInv, OwnTaskStep
<1> QED BY <1>1, <1>2, <1>3, <1>4, <1>5, PTL DEF Spec

-----------------------------------------------------------------------------
(* WebhookDispatch: types *)

WebhookState == [exists : BOOLEAN, sub : {"event", "other", "*", "unused", "removed"}, active : BOOLEAN]
RequestPlaces == {"new", "srem", "sadd", "set", "zrange", "exec", "done"}
RequestState ==
  [pc : RequestPlaces, id : Webhook \cup {Unset}, read : WebhookState, next : WebhookState,
   listed : SUBSET (Webhook \X EventId)]
TaskPlaces == {"new", "smembers", "mget", "incr", "batch", "done"}
TaskState ==
  [pc : TaskPlaces, event : EventId \cup {Unset}, ids : SUBSET Webhook, targets : SUBSET Webhook]
JobPlaces == {"none", "waiting", "claim", "find", "create", "attempt"}

\* A request at work has its webhook, a dispatch that has begun its event.
RequestOk(r) == request[r].pc \in {"srem", "sadd", "set", "zrange", "exec"} => request[r].id \in Webhook
TaskHasEvent(x) == task[x].pc # "new" => task[x].event \in EventId

RegistryType ==
  /\ webhook \in [Webhook -> WebhookState] /\ eventIndex \in SUBSET Webhook
  /\ request \in [Request -> RequestState] /\ \A r \in Request : RequestOk(r)
  /\ stored \in SUBSET (Webhook \X EventId) /\ listed \in SUBSET (Webhook \X EventId)

FanOutType ==
  /\ claimed \in SUBSET EventId /\ delivered \in SUBSET (Webhook \X EventId)
  /\ task \in [Dispatch -> TaskState] /\ \A x \in Dispatch : TaskHasEvent(x)
  /\ sequences \in [EventId -> Nat] /\ created \in [Webhook \X EventId -> Nat]

JobsType == job \in [Job -> JobPlaces] /\ queue \in Seq(Job) /\ current \in Nat

PromisesType == owed \in [Dispatch -> SUBSET Webhook] /\ dispatchFaults \in Nat

-----------------------------------------------------------------------------
(* Sequences, joined and cut. *)

LEMMA Joined ==
  ASSUME NEW S, NEW s \in Seq(S), NEW t \in Seq(S)
  PROVE  /\ s \o t \in Seq(S) /\ Len(s \o t) = Len(s) + Len(t)
         /\ \A i \in 1 .. Len(s) : (s \o t)[i] = s[i]
         /\ \A i \in 1 .. Len(t) : (s \o t)[Len(s) + i] = t[i]
<1> DEFINE c == s \o t
<1>1. PICK n \in Nat, m \in Nat : n = Len(s) /\ m = Len(t)
  BY LenProperties
<1>2. /\ c \in Seq(S) /\ Len(c) = n + m
      /\ \A i \in 1 .. n + m : c[i] = IF i <= n THEN s[i] ELSE t[i - n]
  BY <1>1, ConcatProperties, Zenon
<1> HIDE DEF c
<1>3. \A i \in 1 .. n : c[i] = s[i]
  BY <1>2
<1>4. \A i \in 1 .. m : c[n + i] = t[i]
  BY <1>2
<1>5. c \in Seq(S) /\ Len(c) = Len(s) + Len(t) /\ (\A i \in 1 .. Len(s) : c[i] = s[i])
      /\ \A i \in 1 .. Len(t) : c[Len(s) + i] = t[i]
  BY <1>1, <1>2, <1>3, <1>4
<1> QED BY <1>5, Zenon DEF c

LEMMA LastPart ==
  ASSUME NEW S, NEW s \in Seq(S), NEW g \in Nat, g <= Len(s)
  PROVE  /\ SubSeq(s, g + 1, Len(s)) \in Seq(S) /\ Len(SubSeq(s, g + 1, Len(s))) = Len(s) - g
         /\ \A i \in 1 .. Len(s) - g : SubSeq(s, g + 1, Len(s))[i] = s[g + i]
<1>1. PICK n \in Nat : n = Len(s) /\ \A i \in 1 .. n : s[i] \in S
  BY LenProperties, ElementOfSeq
<1> DEFINE c == SubSeq(s, g + 1, n)
<1>2. /\ c \in Seq(S) /\ Len(c) = IF g + 1 <= n THEN n - (g + 1) + 1 ELSE 0
      /\ \A i \in 1 .. n - (g + 1) + 1 : c[i] = s[(g + 1) + i - 1]
  <2>1. g + 1 \in Int /\ n \in Int /\ \A i \in g + 1 .. n : s[i] \in S
    BY <1>1
  <2> QED BY <2>1, SubSeqProperties
<1> HIDE DEF c
<1>3. Len(c) = n - g
  BY <1>1, <1>2
<1>4. ASSUME NEW i \in 1 .. n - g PROVE c[i] = s[g + i]
  <2>1. i \in 1 .. n - (g + 1) + 1 /\ (g + 1) + i - 1 = g + i
    BY <1>1
  <2> QED BY <1>2, <2>1
<1>5. c \in Seq(S) /\ Len(c) = Len(s) - g /\ \A i \in 1 .. Len(s) - g : c[i] = s[g + i]
  BY <1>1, <1>2, <1>3, <1>4
<1> QED BY <1>1, <1>5, Zenon DEF c
-----------------------------------------------------------------------------
(* The semaphore: what it counts and whom it queues. *)

Held == {"claim", "find", "create", "attempt"}

SemaphoreInv ==
  /\ JobsType
  /\ IsFiniteSet(Holding) /\ current = Cardinality(Holding) /\ current <= MaxInFlight
  /\ \A i \in 1 .. Len(queue) : job[queue[i]] = "waiting"
  /\ \A i, k \in 1 .. Len(queue) : queue[i] = queue[k] => i = k
  /\ \A j \in Job : job[j] = "waiting" => \E i \in 1 .. Len(queue) : queue[i] = j
  /\ queue # <<>> => current = MaxInFlight

LEMMA HoldingIs == \A j \in Job : j \in Holding <=> job[j] \in Held
BY DEF Holding, Held

\* A job that holds its permit goes on with it.
LEMMA JobGoesSemaphore ==
  ASSUME SemaphoreInv, NEW j \in Job, NEW pc \in Held, job[j] \in Held, JobGoes(j, pc)
  PROVE  /\ SemaphoreInv' /\ job'[j] = pc
         /\ \A i \in Job : i # j => job'[i] = job[i]
<1>1. job \in [Job -> JobPlaces] /\ job' = [job EXCEPT ![j] = pc] /\ UNCHANGED <<current, queue>>
  BY DEF SemaphoreInv, JobsType, JobGoes, semaphore
<1>2. /\ job' \in [Job -> JobPlaces] /\ job'[j] = pc
      /\ \A i \in Job : i # j => job'[i] = job[i]
  BY <1>1 DEF Held, JobPlaces
<1>3. Holding' = Holding
  <2>1. \A i \in Job : job'[i] \in Held <=> job[i] \in Held
    BY <1>2
  <2> QED BY <2>1 DEF Holding, Held
<1>4. \A i \in Job : job'[i] = "waiting" <=> job[i] = "waiting"
  BY <1>2 DEF Held
<1>5. queue \in Seq(Job) /\ \A i \in 1 .. Len(queue) : queue[i] \in Job
  BY DEF SemaphoreInv, JobsType
<1>6. SemaphoreInv'
  BY <1>1, <1>2, <1>3, <1>4, <1>5 DEF SemaphoreInv, JobsType
<1> QED BY <1>2, <1>6

\* A job leaves: its permit is free, or with the first that waited.
LEMMA ReleaseSemaphore ==
  ASSUME SemaphoreInv, NEW j \in Job, job[j] \in Held, Release(j)
  PROVE  /\ SemaphoreInv' /\ job'[j] = "none"
         /\ \A i \in Job : i # j => job'[i] = job[i] \/ (job[i] = "waiting" /\ job'[i] = "claim")
<1>0. /\ job \in [Job -> JobPlaces] /\ queue \in Seq(Job) /\ current \in Nat /\ IsFiniteSet(Holding)
      /\ current = Cardinality(Holding) /\ current <= MaxInFlight /\ j \in Holding
      /\ \A i \in 1 .. Len(queue) : queue[i] \in Job /\ job[queue[i]] = "waiting"
  BY HoldingIs DEF SemaphoreInv, JobsType
<1>1. CASE queue = <<>>
  <2>1. current' = current - 1 /\ job' = [job EXCEPT ![j] = "none"] /\ queue' = queue
    BY <1>1 DEF Release
  <2>2. /\ job' \in [Job -> JobPlaces] /\ job'[j] = "none" /\ \A i \in Job : i # j => job'[i] = job[i]
    BY <1>0, <2>1 DEF JobPlaces
  <2>3. Holding' = Holding \ {j}
    <3>1. \A i \in Job : job'[i] \in Held <=> job[i] \in Held /\ i # j
      BY <2>2 DEF Held
    <3> QED BY <3>1 DEF Holding, Held
  <2>4. IsFiniteSet(Holding') /\ Cardinality(Holding') = current - 1
    BY <1>0, <2>3, FS_RemoveElement
  <2>5. current' \in Nat
    BY <1>0, <2>1, <2>4, FS_CardinalityType
  <2>6. Len(queue) = 0 /\ ~\E i \in Job : job[i] = "waiting"
    BY <1>0, <1>1 DEF SemaphoreInv
  <2>7. ~\E i \in Job : job'[i] = "waiting"
    BY <2>2, <2>6
  <2>8. SemaphoreInv'
    BY <1>0, <1>1, <2>1, <2>2, <2>4, <2>5, <2>6, <2>7, DispatchConfig DEF SemaphoreInv, JobsType
  <2> QED BY <2>2, <2>8
<1>2. CASE queue # <<>>
  <2> DEFINE first == Head(queue)
  <2>1. current' = current /\ job' = [job EXCEPT ![j] = "none", ![first] = "claim"] /\ queue' = Tail(queue)
    BY <1>2 DEF Release
  <2>2. /\ first \in Job /\ queue[1] = first /\ job[first] = "waiting" /\ Len(queue) \in Nat /\ Len(queue) >= 1
        /\ Tail(queue) \in Seq(Job) /\ Len(Tail(queue)) = Len(queue) - 1
        /\ \A i \in 1 .. Len(queue) - 1 : Tail(queue)[i] = queue[i + 1]
    BY <1>0, <1>2
  <2> HIDE DEF first
  <2>3. first # j
    BY <2>2 DEF Held
  <2>4. /\ job' \in [Job -> JobPlaces] /\ job'[j] = "none" /\ job'[first] = "claim"
        /\ \A i \in Job : i # j /\ i # first => job'[i] = job[i]
    BY <1>0, <2>1, <2>2, <2>3 DEF JobPlaces
  <2>5. Holding' = (Holding \ {j}) \cup {first}
    <3>1. \A i \in Job : job'[i] \in Held <=> (job[i] \in Held /\ i # j) \/ i = first
      BY <2>2, <2>3, <2>4 DEF Held
    <3> QED BY <2>2, <3>1 DEF Holding, Held
  <2>6. IsFiniteSet(Holding') /\ Cardinality(Holding') = current
    <3>1. IsFiniteSet(Holding \ {j}) /\ Cardinality(Holding \ {j}) = current - 1 /\ first \notin Holding \ {j}
      BY <1>0, <2>2, FS_RemoveElement, HoldingIs DEF Held
    <3> HIDE DEF Holding
    <3>2. IsFiniteSet((Holding \ {j}) \cup {first}) /\ Cardinality((Holding \ {j}) \cup {first}) = current - 1 + 1
      BY <3>1, FS_AddElement
    <3> QED BY <1>0, <2>5, <3>2
  <2>7. ASSUME NEW i \in 1 .. Len(queue') PROVE job'[queue'[i]] = "waiting" /\ queue'[i] = queue[i + 1]
    <3>1. i + 1 \in 1 .. Len(queue) /\ queue'[i] = queue[i + 1] /\ i + 1 # 1
      BY <2>1, <2>2
    <3>2. queue[i + 1] # first /\ job[queue[i + 1]] = "waiting" /\ queue[i + 1] \in Job
      BY <1>0, <2>2, <3>1 DEF SemaphoreInv
    <3>3. queue[i + 1] # j
      BY <3>2 DEF Held
    <3> QED BY <2>4, <3>1, <3>2, <3>3
  <2>8. ASSUME NEW i \in 1 .. Len(queue'), NEW k \in 1 .. Len(queue'), queue'[i] = queue'[k] PROVE i = k
    <3>1. i + 1 \in 1 .. Len(queue) /\ k + 1 \in 1 .. Len(queue) /\ queue[i + 1] = queue[k + 1]
      BY <2>1, <2>2, <2>7, <2>8
    <3> QED BY <3>1 DEF SemaphoreInv
  <2>9. ASSUME NEW i \in Job, job'[i] = "waiting" PROVE \E k \in 1 .. Len(queue') : queue'[k] = i
    <3>1. i # j /\ i # first /\ job[i] = "waiting"
      BY <2>4, <2>9
    <3>2. PICK k \in 1 .. Len(queue) : queue[k] = i
      BY <3>1 DEF SemaphoreInv
    <3>3. k - 1 \in 1 .. Len(queue') /\ queue'[k - 1] = i
      BY <2>1, <2>2, <3>1, <3>2
    <3> QED BY <3>3
  <2>10. current = MaxInFlight
    BY <1>2 DEF SemaphoreInv
  <2>11. SemaphoreInv'
    BY <1>0, <2>1, <2>2, <2>4, <2>6, <2>7, <2>8, <2>9, <2>10 DEF SemaphoreInv, JobsType
  <2> QED BY <2>2, <2>4, <2>11
<1> QED BY <1>1, <1>2

\* Jobs that were idle acquire, in order: some go on, the others queue.
LEMMA AcquireSemaphore ==
  ASSUME SemaphoreInv, NEW js \in Seq(Job), Acquire(js), \A k \in 1 .. Len(js) : job[js[k]] = "none",
         \A i, k \in 1 .. Len(js) : js[i] = js[k] => i = k
  PROVE  /\ SemaphoreInv'
         /\ \A k \in 1 .. Len(js) : job'[js[k]] \in {"claim", "waiting"}
         /\ \A i \in Job : (\A k \in 1 .. Len(js) : js[k] # i) => job'[i] = job[i]
<1>0. /\ job \in [Job -> JobPlaces] /\ queue \in Seq(Job) /\ current \in Nat /\ IsFiniteSet(Holding)
      /\ current = Cardinality(Holding) /\ current <= MaxInFlight /\ MaxInFlight \in Nat
      /\ \A i \in 1 .. Len(queue) : queue[i] \in Job /\ job[queue[i]] = "waiting"
      /\ DOMAIN js = 1 .. Len(js) /\ Len(js) \in Nat /\ \A k \in 1 .. Len(js) : js[k] \in Job
  BY DispatchConfig DEF SemaphoreInv, JobsType
<1> DEFINE free == MaxInFlight - current
           g == IF Len(js) <= free THEN Len(js) ELSE free
           rest == SubSeq(js, g + 1, Len(js))
<1>1. /\ g \in Nat /\ g <= Len(js) /\ g <= MaxInFlight - current
      /\ g < Len(js) => g = MaxInFlight - current
  BY <1>0
<1>2. /\ current' = current + g /\ queue' = queue \o rest
      /\ job' = [j \in Job |-> IF \E k \in 1 .. g : js[k] = j THEN "claim"
                               ELSE IF \E k \in DOMAIN js : js[k] = j THEN "waiting"
                               ELSE job[j]]
  BY DEF Acquire
<1> HIDE DEF g
<1>3. /\ rest \in Seq(Job) /\ Len(rest) = Len(js) - g
      /\ \A i \in 1 .. Len(js) - g : rest[i] = js[g + i]
  BY <1>1, LastPart
<1> HIDE DEF rest
<1>4. /\ queue' \in Seq(Job) /\ Len(queue') = Len(queue) + Len(rest)
      /\ \A i \in 1 .. Len(queue) : queue'[i] = queue[i]
      /\ \A i \in 1 .. Len(rest) : queue'[Len(queue) + i] = rest[i]
  <2>0. queue \in Seq(Job) /\ rest \in Seq(Job)
    BY <1>0, <1>3
  <2>1. /\ queue \o rest \in Seq(Job) /\ Len(queue \o rest) = Len(queue) + Len(rest)
        /\ \A i \in 1 .. Len(queue) : (queue \o rest)[i] = queue[i]
        /\ \A i \in 1 .. Len(rest) : (queue \o rest)[Len(queue) + i] = rest[i]
    BY <2>0, Joined
  <2> QED BY <1>2, <2>1, Zenon
<1>5. PICK n \in Nat, m \in Nat : n = Len(queue) /\ m = Len(js)
  <2>1. Len(queue) \in Nat /\ Len(js) \in Nat
    BY <1>0, LenProperties, Zenon
  <2> QED BY <2>1, Zenon
<1>6. /\ \A i \in 1 .. n : queue'[i] = queue[i]
      /\ \A i \in n + 1 .. n + (m - g) : queue'[i] = js[g + (i - n)] /\ g + (i - n) \in g + 1 .. m
      /\ Len(queue') = n + (m - g)
  <2>1. Len(rest) = m - g /\ Len(queue') = n + (m - g)
    BY <1>3, <1>4, <1>5, Zenon
  <2>2. ASSUME NEW i \in n + 1 .. n + (m - g)
        PROVE  queue'[i] = js[g + (i - n)] /\ g + (i - n) \in g + 1 .. m
    <3>1. i - n \in 1 .. m - g /\ n + (i - n) = i /\ g + (i - n) \in g + 1 .. m
      BY <1>1, <1>5
    <3>2. queue'[n + (i - n)] = rest[i - n] /\ rest[i - n] = js[g + (i - n)]
      BY <1>3, <1>4, <1>5, <2>1, <3>1
    <3> QED BY <3>1, <3>2
  <2>3. \A i \in 1 .. n : queue'[i] = queue[i]
    BY <1>4, <1>5
  <2> QED BY <2>1, <2>2, <2>3
<1>7. /\ job' \in [Job -> JobPlaces]
      /\ \A k \in 1 .. g : job'[js[k]] = "claim"
      /\ \A k \in g + 1 .. m : job'[js[k]] = "waiting"
      /\ \A i \in Job : (\A k \in 1 .. m : js[k] # i) => job'[i] = job[i]
  <2>1. job' \in [Job -> JobPlaces]
    BY <1>0, <1>2 DEF JobPlaces
  <2>2. ASSUME NEW k \in 1 .. g PROVE job'[js[k]] = "claim"
    BY <1>0, <1>1, <1>2, <1>5
  <2>3. ASSUME NEW k \in g + 1 .. m PROVE job'[js[k]] = "waiting"
    <3>1. k \in 1 .. m /\ js[k] \in Job /\ ~\E i \in 1 .. g : js[i] = js[k]
      BY <1>0, <1>1, <1>5
    <3> QED BY <1>0, <1>2, <1>5, <3>1
  <2>4. ASSUME NEW i \in Job, \A k \in 1 .. m : js[k] # i PROVE job'[i] = job[i]
    BY <1>0, <1>1, <1>2, <1>5, <2>4
  <2> QED BY <2>1, <2>2, <2>3, <2>4
<1>8. \A k \in 1 .. m : job'[js[k]] \in {"claim", "waiting"}
  BY <1>1, <1>7
<1> DEFINE new == {js[k] : k \in 1 .. g}
<1>9. Holding' = Holding \cup new /\ Holding \cap new = {}
  <2>1. ASSUME NEW i \in Job PROVE job'[i] \in Held <=> job[i] \in Held \/ i \in new
    <3>1. CASE \E k \in 1 .. g : js[k] = i
      BY <1>7, <3>1 DEF Held
    <3>2. CASE ~(\E k \in 1 .. g : js[k] = i) /\ \E k \in 1 .. m : js[k] = i
      <4>1. PICK k \in 1 .. m : js[k] = i
        BY <3>2
      <4>2. k \in g + 1 .. m
        BY <1>1, <3>2, <4>1
      <4>3. job'[i] = "waiting" /\ job[i] = "none"
        BY <1>5, <1>7, <4>1, <4>2
      <4> QED BY <3>2, <4>3 DEF Held
    <3>3. CASE ~\E k \in 1 .. m : js[k] = i
      BY <1>1, <1>5, <1>7, <3>3
    <3> QED BY <3>1, <3>2, <3>3
  <2>2. new \subseteq Job /\ \A i \in new : job[i] = "none"
    BY <1>0, <1>1, <1>5
  <2>3. \A i : i \in Holding' <=> i \in Holding \cup new
    BY <2>1, <2>2 DEF Holding, Held
  <2>4. \A i \in Holding : job[i] \in Held
    BY DEF Holding, Held
  <2>5. Holding \cap new = {}
    BY <2>2, <2>4 DEF Held
  <2> HIDE DEF Holding, new
  <2> QED BY <2>3, <2>5
<1>10. IsFiniteSet(new) /\ Cardinality(new) = g
  <2> DEFINE f == [k \in 1 .. g |-> js[k]]
  <2>1. f \in Bijection(1 .. g, new)
    BY <1>0, <1>1, <1>5 DEF Bijection, Injection, Surjection, IsInjective
  <2>2. ExistsBijection(1 .. g, new)
    BY <2>1 DEF ExistsBijection
  <2>3. IsFiniteSet(1 .. g) /\ Cardinality(1 .. g) = g
    BY <1>1, FS_Interval
  <2> HIDE DEF new
  <2> QED BY <2>2, <2>3, FS_Bijection
<1> HIDE DEF new
<1>11. IsFiniteSet(Holding') /\ Cardinality(Holding') = current + g
  <2> HIDE DEF Holding
  <2>1. /\ IsFiniteSet(Holding \cup new)
        /\ Cardinality(Holding \cup new) = Cardinality(Holding) + Cardinality(new) - Cardinality(Holding \cap new)
    BY <1>0, <1>10, FS_Union, Zenon
  <2>2. Cardinality(Holding \cap new) = 0
    BY <1>9, FS_EmptySet, Zenon
  <2>3. Cardinality(Holding) = current /\ Cardinality(new) = g /\ Holding' = Holding \cup new
    BY <1>0, <1>9, <1>10, Zenon
  <2>4. current + g - 0 = current + g
    BY <1>0, <1>1
  <2> QED BY <2>1, <2>2, <2>3, <2>4, Zenon
<1>12. ASSUME NEW i \in 1 .. Len(queue')
       PROVE  /\ job'[queue'[i]] = "waiting"
              /\ i <= n => queue'[i] = queue[i] /\ job[queue[i]] = "waiting"
              /\ i > n => \E k \in g + 1 .. m : k = g + (i - n) /\ queue'[i] = js[k] /\ job[js[k]] = "none"
  <2>1. CASE i <= n
    <3>1. i \in 1 .. n /\ queue[i] \in Job /\ job[queue[i]] = "waiting" /\ queue'[i] = queue[i]
      BY <1>0, <1>5, <1>6, <2>1
    <3>2. \A k \in 1 .. m : js[k] # queue[i]
      BY <1>5, <3>1
    <3> QED BY <1>7, <2>1, <3>1, <3>2
  <2>2. CASE i > n
    <3>1. i \in n + 1 .. n + (m - g)
      BY <1>1, <1>5, <1>6, <2>2
    <3>2. queue'[i] = js[g + (i - n)] /\ g + (i - n) \in g + 1 .. m
      BY <1>6, <3>1
    <3>3. job[js[g + (i - n)]] = "none"
      BY <1>1, <1>5, <3>2
    <3> QED BY <1>7, <2>2, <3>2, <3>3
  <2> QED BY <1>5, <1>6, <1>1, <2>1, <2>2
<1>13. ASSUME NEW i \in 1 .. Len(queue'), NEW k \in 1 .. Len(queue'), queue'[i] = queue'[k] PROVE i = k
  <2>1. i \in Int /\ k \in Int
    OBVIOUS
  <2>2. CASE i <= n /\ k <= n
    <3>1. i \in 1 .. Len(queue) /\ k \in 1 .. Len(queue) /\ queue[i] = queue[k]
      BY <1>5, <1>12, <1>13, <2>2
    <3> QED BY <3>1 DEF SemaphoreInv
  <2>3. CASE i > n /\ k > n
    <3>1. g + (i - n) \in 1 .. m /\ g + (k - n) \in 1 .. m /\ js[g + (i - n)] = js[g + (k - n)]
      BY <1>1, <1>12, <1>13, <2>3
    <3>2. g + (i - n) = g + (k - n)
      BY <1>5, <3>1
    <3> QED BY <1>1, <2>1, <3>2
  <2>4. CASE i <= n /\ k > n
    <3>1. job[queue'[i]] = "waiting" /\ job[queue'[k]] = "none"
      BY <1>12, <2>4
    <3> QED BY <1>13, <3>1
  <2>5. CASE i > n /\ k <= n
    BY <1>12, <1>13, <2>5
  <2> QED BY <1>5, <2>1, <2>2, <2>3, <2>4, <2>5
<1>14. ASSUME NEW i \in Job, job'[i] = "waiting" PROVE \E k \in 1 .. Len(queue') : queue'[k] = i
  <2>1. CASE \A k \in 1 .. m : js[k] # i
    <3>1. job[i] = "waiting"
      BY <1>7, <1>14, <2>1
    <3>2. PICK k \in 1 .. n : queue[k] = i
      BY <1>5, <3>1 DEF SemaphoreInv
    <3>3. k \in 1 .. Len(queue') /\ queue'[k] = i
      BY <1>1, <1>5, <1>6, <3>2
    <3> QED BY <3>3
  <2>2. CASE \E k \in 1 .. m : js[k] = i
    <3>1. PICK k \in 1 .. m : js[k] = i
      BY <2>2
    <3>2. k \in g + 1 .. m
      BY <1>1, <1>7, <1>14, <3>1
    <3>3. PICK q \in n + 1 .. n + (m - g) : g + (q - n) = k
      <4>1. n + (k - g) \in n + 1 .. n + (m - g) /\ g + ((n + (k - g)) - n) = k
        BY <1>1, <1>5, <3>2
      <4> QED BY <4>1
    <3>4. queue'[q] = js[k]
      BY <1>6, <3>3, Zenon
    <3>5. q \in 1 .. Len(queue')
      BY <1>1, <1>5, <1>6
    <3> QED BY <3>1, <3>4, <3>5
  <2> QED BY <2>1, <2>2
<1>15. queue' # <<>> => current' = MaxInFlight
  <2>1. CASE n > 0
    <3>1. queue # <<>>
      BY <1>5, <2>1
    <3>2. current = MaxInFlight
      BY <3>1 DEF SemaphoreInv
    <3> QED BY <1>0, <1>1, <1>2, <3>2
  <2>2. CASE n = 0 /\ g < m
    BY <1>0, <1>1, <1>2, <1>5, <2>2
  <2>3. CASE n = 0 /\ g = m
    <3>1. Len(queue') = 0
      BY <1>6, <2>3
    <3> QED BY <1>4, <3>1
  <2> QED BY <1>1, <1>5, <2>1, <2>2, <2>3
<1>16. current' \in Nat /\ current' <= MaxInFlight /\ current' = current + g
  BY <1>0, <1>1, <1>2
<1>17. SemaphoreInv'
  BY <1>4, <1>7, <1>11, <1>12, <1>13, <1>14, <1>15, <1>16 DEF SemaphoreInv, JobsType
<1> QED BY <1>5, <1>7, <1>8, <1>17

-----------------------------------------------------------------------------
(* The fan-out: who owns an event, and what has become of each delivery.   *)

Early == {"smembers", "mget", "incr"}
Live(x) == task[x].pc \in Early \cup {"batch"}

\* An event that nobody claimed has left no trace.
EventOk(e) ==
  /\ sequences[e] <= 1
  /\ e \notin claimed => sequences[e] = 0 /\ \A h \in Webhook : <<h, e>> \notin delivered

ClaimOk(x) ==
  /\ Live(x) => task[x].event \in claimed
  /\ task[x].pc \in Early => sequences[task[x].event] = 0
  /\ task[x].pc = "new" => owed[x] = {}

\* One dispatch at a time works on an event.
Apart == \A x, y \in Dispatch : Live(x) /\ Live(y) /\ task[x].event = task[y].event => x = y

KeyOk(k) == created[k] <= 1 /\ (k \notin delivered => created[k] = 0)

\* A delivery's key is free until its job claims it, and its record is written once
\* by the job that did.
PairOk(x, h) ==
  /\ job[<<x, h>>] # "none" => task[x].pc = "batch" /\ h \notin task[x].targets
  /\ \/ task[x].pc \in Early
     \/ task[x].pc = "batch" /\ (h \in task[x].targets \/ job[<<x, h>>] \in {"waiting", "claim"})
     => <<h, task[x].event>> \notin delivered
  /\ job[<<x, h>>] \in {"find", "create"} =>
       <<h, task[x].event>> \in delivered /\ created[<<h, task[x].event>>] = 0
  /\ job[<<x, h>>] = "attempt" => created[<<h, task[x].event>>] = 1

\* A webhook that is owed the event is still subscribed, and on its way to it.
OwedOk(x, h) ==
  /\ h \in eventIndex /\ webhook[h].exists /\ webhook[h].active /\ webhook[h].sub = "event"
  /\ task[x].pc = "mget" => h \in task[x].ids
  /\ task[x].pc = "incr" => h \in task[x].targets
  /\ task[x].pc = "batch" => \/ h \in task[x].targets
                             \/ job[<<x, h>>] \in {"waiting", "claim", "find", "create"}
                             \/ created[<<h, task[x].event>>] = 1
  /\ task[x].pc = "done" => created[<<h, task[x].event>>] = 1

FanOutInv ==
  /\ RegistryType /\ FanOutType /\ PromisesType /\ SemaphoreInv
  /\ \A e \in EventId : EventOk(e)
  /\ \A x \in Dispatch : ClaimOk(x)
  /\ Apart
  /\ \A k \in Webhook \X EventId : KeyOk(k)
  /\ \A x \in Dispatch, h \in Webhook : PairOk(x, h)
  /\ \A x \in Dispatch, h \in Webhook : h \in owed[x] => OwedOk(x, h)

LEMMA FanOutNow ==
  ASSUME FanOutInv
  PROVE  /\ RegistryType /\ FanOutType /\ PromisesType /\ SemaphoreInv /\ Apart
         /\ \A e \in EventId : EventOk(e)
         /\ \A x \in Dispatch : ClaimOk(x) /\ task[x] \in TaskState /\ TaskHasEvent(x)
         /\ \A k \in Webhook \X EventId : KeyOk(k)
         /\ \A x \in Dispatch, h \in Webhook : PairOk(x, h) /\ (h \in owed[x] => OwedOk(x, h))
         /\ \A x \in Dispatch, h \in Webhook : <<x, h>> \in Job
         /\ job \in [Job -> JobPlaces]
BY DEF FanOutInv, FanOutType, Job, SemaphoreInv, JobsType

\* What a step of the registry has to see to: whom the event is still owed to.
LEMMA RegistryKeeps ==
  ASSUME FanOutInv, RegistryType', PromisesType', UNCHANGED <<claimed, delivered, task, job, current, queue,
                                                              sequences, created>>,
         \A x \in Dispatch : owed'[x] \subseteq owed[x],
         \A x \in Dispatch, h \in Webhook :
           h \in owed'[x] => /\ h \in eventIndex' /\ webhook'[h].exists /\ webhook'[h].active
                             /\ webhook'[h].sub = "event"
  PROVE  FanOutInv'
<1>1. FanOutType' /\ SemaphoreInv' /\ Apart'
  BY FanOutNow DEF FanOutType, TaskHasEvent, SemaphoreInv, JobsType, Holding, Apart, Live
<1>2. ASSUME NEW e \in EventId PROVE EventOk(e)'
  BY FanOutNow DEF EventOk
<1>3. ASSUME NEW x \in Dispatch PROVE ClaimOk(x)'
  <2>1. ClaimOk(x) /\ owed'[x] \subseteq owed[x]
    BY FanOutNow
  <2> QED BY <2>1 DEF ClaimOk, Live
<1>4. ASSUME NEW k \in Webhook \X EventId PROVE KeyOk(k)'
  BY FanOutNow DEF KeyOk
<1>5. ASSUME NEW x \in Dispatch, NEW h \in Webhook PROVE PairOk(x, h)'
  <2>1. PairOk(x, h)
    BY FanOutNow
  <2> QED BY <2>1 DEF PairOk
<1>6. ASSUME NEW x \in Dispatch, NEW h \in Webhook, h \in owed'[x] PROVE OwedOk(x, h)'
  <2>1. OwedOk(x, h)
    BY <1>6, FanOutNow
  <2> QED BY <1>6, <2>1 DEF OwedOk
<1> QED BY <1>1, <1>2, <1>3, <1>4, <1>5, <1>6 DEF FanOutInv

\* A change of h, or a fault: nothing is owed to h any more.
LEMMA OwedShrinks ==
  ASSUME PromisesType, NEW h, (Disowe(h) /\ UNCHANGED dispatchFaults) \/ Fault
  PROVE  PromisesType' /\ \A x \in Dispatch : owed'[x] \subseteq owed[x] /\ h \notin owed'[x]
BY DEF PromisesType, Disowe, Fault

LEMMA FaultShrinks == ASSUME PromisesType, Fault PROVE PromisesType' /\ \A x \in Dispatch : owed'[x] = {}
BY DEF PromisesType, Fault

\* A request moves, to new.
LEMMA RequestMoves ==
  ASSUME RegistryType, NEW r \in Request, NEW new \in RequestState, request' = [request EXCEPT ![r] = new],
         new.pc \in {"srem", "sadd", "set", "zrange", "exec"} => new.id \in Webhook
  PROVE  request' \in [Request -> RequestState] /\ \A q \in Request : RequestOk(q)'
BY DEF RegistryType, RequestOk

LEMMA CloseIs ==
  ASSUME RegistryType, NEW r \in Request, Close(r)
  PROVE  request' \in [Request -> RequestState] /\ \A q \in Request : RequestOk(q)'
<1> DEFINE new == [NewRequest EXCEPT !.pc = "done"]
<1>1. new \in RequestState /\ new.pc = "done"
  BY DEF NewRequest, RequestState, RequestPlaces, WebhookState, Absent
<1>2. request' = [request EXCEPT ![r] = new]
  BY DEF Close
<1> HIDE DEF new
<1> QED BY <1>1, <1>2, RequestMoves

LEMMA RequestIs ==
  ASSUME RegistryType, NEW r \in Request
  PROVE  /\ request[r] \in RequestState /\ RequestOk(r)
         /\ request[r].next \in WebhookState /\ request[r].read \in WebhookState
BY DEF RegistryType, RequestState

\* The next command of a request that is at work.
LEMMA RequestGoes ==
  ASSUME RegistryType, NEW r \in Request, NEW pc \in {"sadd", "set"}, request[r].pc \in {"srem", "sadd"},
         request' = [request EXCEPT ![r].pc = pc]
  PROVE  request' \in [Request -> RequestState] /\ \A q \in Request : RequestOk(q)'
<1> DEFINE new == [request[r] EXCEPT !.pc = pc]
<1>1. request[r] \in RequestState /\ request[r].id \in Webhook
  BY RequestIs DEF RequestOk
<1>2. new \in RequestState /\ new.id = request[r].id
  BY <1>1 DEF RequestState, RequestPlaces
<1>3. request' = [request EXCEPT ![r] = new]
  OBVIOUS
<1> HIDE DEF new
<1> QED BY <1>1, <1>2, <1>3, RequestMoves

\* Steps of a request that change nothing but its own place.
LEMMA RequestOnly ==
  ASSUME FanOutInv, request' \in [Request -> RequestState], \A q \in Request : RequestOk(q)',
         UNCHANGED <<webhook, eventIndex, keys, records, task, job, semaphore, fanOut>>,
         UNCHANGED <<owed, dispatchFaults>> \/ Fault
  PROVE  FanOutInv'
<1>1. RegistryType'
  BY FanOutNow DEF RegistryType, records
<1>2. PromisesType' /\ \A x \in Dispatch : owed'[x] \subseteq owed[x]
  <2>1. CASE UNCHANGED <<owed, dispatchFaults>>
    BY <2>1, FanOutNow DEF PromisesType
  <2>2. CASE Fault
    BY <2>2, FanOutNow, FaultShrinks
  <2> QED BY <2>1, <2>2
<1>3. ASSUME NEW x \in Dispatch, NEW h \in Webhook, h \in owed'[x]
      PROVE  h \in eventIndex' /\ webhook'[h].exists /\ webhook'[h].active /\ webhook'[h].sub = "event"
  <2>1. OwedOk(x, h)
    BY <1>2, <1>3, FanOutNow
  <2> QED BY <2>1 DEF OwedOk
<1> QED BY <1>1, <1>2, <1>3, RegistryKeeps DEF keys, semaphore, fanOut

\* Steps that change the registry at h, and at h alone.
LEMMA RegistryAt ==
  ASSUME FanOutInv, NEW h \in Webhook, request' \in [Request -> RequestState], \A q \in Request : RequestOk(q)',
         webhook' \in [Webhook -> WebhookState], \A g \in Webhook : g # h => webhook'[g] = webhook[g],
         eventIndex' \in SUBSET Webhook, \A g \in Webhook : g # h => (g \in eventIndex' <=> g \in eventIndex),
         stored' \in SUBSET (Webhook \X EventId), listed' \in SUBSET (Webhook \X EventId),
         UNCHANGED <<keys, task, job, semaphore, fanOut>>,
         (Disowe(h) /\ UNCHANGED dispatchFaults) \/ Fault
  PROVE  FanOutInv'
<1>1. RegistryType'
  BY DEF RegistryType
<1>2. PromisesType' /\ \A x \in Dispatch : owed'[x] \subseteq owed[x] /\ h \notin owed'[x]
  BY FanOutNow, OwedShrinks
<1>3. ASSUME NEW x \in Dispatch, NEW g \in Webhook, g \in owed'[x]
      PROVE  g \in eventIndex' /\ webhook'[g].exists /\ webhook'[g].active /\ webhook'[g].sub = "event"
  <2>1. OwedOk(x, g) /\ g # h
    BY <1>2, <1>3, FanOutNow
  <2> QED BY <2>1 DEF OwedOk
<1> QED BY <1>1, <1>2, <1>3, RegistryKeeps DEF keys, semaphore, fanOut

LEMMA CreateWebhookKeeps ==
  ASSUME FanOutInv, NEW r \in Request, NEW h \in Webhook, NEW sub \in Subscription, CreateWebhook(r, h, sub)
  PROVE  FanOutInv'
<1> DEFINE new == [exists |-> TRUE, sub |-> sub, active |-> TRUE]
<1>0. RegistryType /\ ~webhook[h].exists
  BY FanOutNow DEF CreateWebhook, Absent
<1>1. new \in WebhookState
  BY DispatchConfig DEF WebhookState
<1>2. webhook' = [webhook EXCEPT ![h] = new]
  BY DEF CreateWebhook
<1> HIDE DEF new
<1>3. /\ webhook' \in [Webhook -> WebhookState] /\ \A g \in Webhook : g # h => webhook'[g] = webhook[g]
      /\ eventIndex' \in SUBSET Webhook /\ \A g \in Webhook : g \in eventIndex => g \in eventIndex'
      /\ UNCHANGED <<stored, listed, claimed, delivered, task, job, current, queue, sequences, created, owed,
                     dispatchFaults>>
  BY <1>0, <1>1, <1>2 DEF CreateWebhook, RegistryType, keys, records, semaphore, fanOut
<1>4. request' \in [Request -> RequestState] /\ \A q \in Request : RequestOk(q)'
  BY <1>0, CloseIs DEF CreateWebhook
<1>5. RegistryType' /\ PromisesType'
  BY <1>0, <1>3, <1>4, FanOutNow DEF RegistryType, PromisesType
<1>6. ASSUME NEW x \in Dispatch, NEW g \in Webhook, g \in owed'[x]
      PROVE  g \in eventIndex' /\ webhook'[g].exists /\ webhook'[g].active /\ webhook'[g].sub = "event"
  <2>1. OwedOk(x, g)
    BY <1>3, <1>6, FanOutNow
  <2>2. g # h
    BY <1>0, <2>1 DEF OwedOk
  <2> QED BY <1>3, <2>1, <2>2 DEF OwedOk
<1> QED BY <1>3, <1>5, <1>6, RegistryKeeps

LEMMA UpdateGetKeeps ==
  ASSUME FanOutInv, NEW r \in Request, NEW h \in Webhook, NEW sub \in Subscription \cup {Unset},
         NEW active \in BOOLEAN \cup {Unset}, UpdateGet(r, h, sub, active)
  PROVE  FanOutInv'
<1>0. RegistryType /\ UNCHANGED <<webhook, eventIndex, keys, records, task, job, semaphore, fanOut, owed, dispatchFaults>>
  BY FanOutNow DEF UpdateGet
<1>1. CASE ~webhook[h].exists
  BY <1>0, <1>1, CloseIs, RequestOnly DEF UpdateGet
<1>2. CASE webhook[h].exists
  <2> DEFINE next == [webhook[h] EXCEPT !.sub = IF sub = Unset THEN @ ELSE sub,
                                        !.active = IF active = Unset THEN @ ELSE active]
             new == [NewRequest EXCEPT !.pc = IF sub = Unset THEN "set" ELSE "srem", !.id = h,
                                       !.read = webhook[h], !.next = next]
  <2>1. webhook[h] \in WebhookState
    BY <1>0 DEF RegistryType
  <2>2. next \in WebhookState
    <3>1. webhook[h].sub \in {"event", "other", "*", "unused", "removed"} /\ webhook[h].active \in BOOLEAN
      BY <2>1 DEF WebhookState
    <3>2. (IF sub = Unset THEN webhook[h].sub ELSE sub) \in {"event", "other", "*", "unused", "removed"}
      BY <3>1, DispatchConfig
    <3>3. (IF active = Unset THEN webhook[h].active ELSE active) \in BOOLEAN
      BY <3>1, Zenon
    <3> QED BY <2>1, <3>2, <3>3 DEF WebhookState
  <2>3. request' = [request EXCEPT ![r] = new]
    BY <1>2 DEF UpdateGet
  <2> HIDE DEF next
  <2>4. new \in RequestState /\ new.id = h
    BY <2>1, <2>2 DEF NewRequest, RequestState, RequestPlaces
  <2> HIDE DEF new
  <2> QED BY <1>0, <2>3, <2>4, RequestMoves, RequestOnly
<1> QED BY <1>1, <1>2

LEMMA UpdateIndexKeeps == ASSUME FanOutInv, NEW r \in Request, UpdateSrem(r) \/ UpdateSadd(r) PROVE FanOutInv'
<1>0. /\ RegistryType /\ UNCHANGED <<webhook, keys, records, task, job, semaphore, fanOut>>
      /\ request[r].pc \in {"srem", "sadd"}
  BY FanOutNow DEF UpdateSrem, UpdateSadd
<1>1. PICK h \in Webhook : h = request[r].id
  BY <1>0, RequestIs DEF RequestOk
<1>2. request' \in [Request -> RequestState] /\ \A q \in Request : RequestOk(q)'
  BY <1>0, RequestGoes DEF UpdateSrem, UpdateSadd
<1>3. eventIndex' \in {eventIndex, eventIndex \cup {h}, eventIndex \ {h}}
  BY <1>1 DEF UpdateSrem, UpdateSadd
<1>4. (Disowe(h) /\ UNCHANGED dispatchFaults) \/ Fault
  BY <1>1 DEF UpdateSrem, UpdateSadd
<1>5. /\ webhook' \in [Webhook -> WebhookState] /\ \A g \in Webhook : g # h => webhook'[g] = webhook[g]
      /\ eventIndex' \in SUBSET Webhook /\ \A g \in Webhook : g # h => (g \in eventIndex' <=> g \in eventIndex)
      /\ stored' \in SUBSET (Webhook \X EventId) /\ listed' \in SUBSET (Webhook \X EventId)
  BY <1>0, <1>3 DEF RegistryType, records
<1> QED BY <1>0, <1>2, <1>4, <1>5, RegistryAt

LEMMA UpdateSetKeeps == ASSUME FanOutInv, NEW r \in Request, UpdateSet(r) PROVE FanOutInv'
<1>0. /\ RegistryType /\ UNCHANGED <<eventIndex, keys, records, task, job, semaphore, fanOut>>
      /\ request[r].pc = "set"
  BY FanOutNow DEF UpdateSet
<1>1. PICK h \in Webhook, next \in WebhookState : h = request[r].id /\ next = request[r].next
  BY <1>0, RequestIs DEF RequestOk
<1>2. request' \in [Request -> RequestState] /\ \A q \in Request : RequestOk(q)'
  BY <1>0, CloseIs DEF UpdateSet
<1>3. webhook' \in {webhook, [webhook EXCEPT ![h] = next]}
  BY <1>1 DEF UpdateSet
<1>4. (Disowe(h) /\ UNCHANGED dispatchFaults) \/ Fault
  BY <1>1 DEF UpdateSet
<1>5. /\ webhook' \in [Webhook -> WebhookState] /\ \A g \in Webhook : g # h => webhook'[g] = webhook[g]
      /\ eventIndex' \in SUBSET Webhook
      /\ stored' \in SUBSET (Webhook \X EventId) /\ listed' \in SUBSET (Webhook \X EventId)
  BY <1>0, <1>1, <1>3 DEF RegistryType, records
<1> QED BY <1>0, <1>2, <1>4, <1>5, RegistryAt

LEMMA RemoveReadsKeep ==
  ASSUME FanOutInv, NEW r \in Request, (\E h \in Webhook : RemoveGet(r, h)) \/ RemoveZrange(r)
  PROVE  FanOutInv'
<1>0. RegistryType /\ UNCHANGED <<webhook, eventIndex, keys, records, task, job, semaphore, fanOut>>
  BY FanOutNow DEF RemoveGet, RemoveZrange
<1>1. ASSUME NEW h \in Webhook, RemoveGet(r, h) PROVE FanOutInv'
  <2>0. UNCHANGED <<owed, dispatchFaults>>
    BY <1>1 DEF RemoveGet
  <2>1. CASE ~webhook[h].exists
    BY <1>0, <1>1, <2>0, <2>1, CloseIs, RequestOnly DEF RemoveGet
  <2>2. CASE webhook[h].exists
    <3> DEFINE new == [NewRequest EXCEPT !.pc = "zrange", !.id = h, !.read = webhook[h]]
    <3>1. new \in RequestState /\ new.id = h
      BY <1>0 DEF RegistryType, NewRequest, RequestState, RequestPlaces, WebhookState, Absent
    <3>2. request' = [request EXCEPT ![r] = new]
      BY <1>1, <2>2 DEF RemoveGet
    <3> HIDE DEF new
    <3> QED BY <1>0, <2>0, <3>1, <3>2, RequestMoves, RequestOnly
  <2> QED BY <2>1, <2>2
<1>2. CASE RemoveZrange(r) /\ Close(r) /\ Fault
  BY <1>0, <1>2, CloseIs, RequestOnly
<1>3. CASE RemoveZrange(r) /\ ~(Close(r) /\ Fault)
  <2> DEFINE mine == {k \in listed : k[1] = request[r].id}
             new == [request[r] EXCEPT !.pc = "exec", !.listed = mine]
  <2>1. request[r] \in RequestState /\ request[r].id \in Webhook /\ mine \in SUBSET (Webhook \X EventId)
    BY <1>0, <1>3, RequestIs DEF RemoveZrange, RequestOk, RegistryType
  <2>2. request' = [request EXCEPT ![r] = new] /\ UNCHANGED <<owed, dispatchFaults>>
    BY <1>3 DEF RemoveZrange, NoFault
  <2> HIDE DEF mine
  <2>3. new \in RequestState /\ new.id = request[r].id
    BY <2>1 DEF RequestState, RequestPlaces
  <2> HIDE DEF new
  <2> QED BY <1>0, <2>1, <2>2, <2>3, RequestMoves, RequestOnly
<1> QED BY <1>1, <1>2, <1>3

LEMMA RemoveExecKeeps == ASSUME FanOutInv, NEW r \in Request, RemoveExec(r) PROVE FanOutInv'
<1>0. /\ RegistryType /\ UNCHANGED <<keys, task, job, semaphore, fanOut>> /\ request[r].pc = "exec"
  BY FanOutNow DEF RemoveExec
<1>1. PICK h \in Webhook : h = request[r].id
  BY <1>0, RequestIs DEF RequestOk
<1>2. request' \in [Request -> RequestState] /\ \A q \in Request : RequestOk(q)'
  BY <1>0, CloseIs DEF RemoveExec
<1>3. webhook' \in {webhook, [webhook EXCEPT ![h] = Removed]} /\ eventIndex' \in {eventIndex, eventIndex \ {h}}
  BY <1>1 DEF RemoveExec
<1>4. (Disowe(h) /\ UNCHANGED dispatchFaults) \/ Fault
  BY <1>1 DEF RemoveExec
<1>5. stored' \subseteq stored /\ listed' \subseteq listed
  BY DEF RemoveExec, records
<1>6. Removed \in WebhookState
  BY DEF Removed, WebhookState
<1>7. /\ webhook' \in [Webhook -> WebhookState] /\ \A g \in Webhook : g # h => webhook'[g] = webhook[g]
      /\ eventIndex' \in SUBSET Webhook /\ \A g \in Webhook : g # h => (g \in eventIndex' <=> g \in eventIndex)
      /\ stored' \in SUBSET (Webhook \X EventId) /\ listed' \in SUBSET (Webhook \X EventId)
  <2> HIDE DEF Removed
  <2> QED BY <1>0, <1>3, <1>5, <1>6 DEF RegistryType
<1> QED BY <1>0, <1>2, <1>4, <1>7, RegistryAt

LEMMA RequestKeeps == ASSUME FanOutInv, NEW r \in Request, RequestStep(r) PROVE FanOutInv'
BY CreateWebhookKeeps, UpdateGetKeeps, UpdateIndexKeeps, UpdateSetKeeps, RemoveReadsKeep, RemoveExecKeeps
   DEF RequestStep

-----------------------------------------------------------------------------
(* dispatch(): a task moves, to new. *)

\* What a task that has no jobs has to see to.
LEMMA TaskKeeps ==
  ASSUME FanOutInv, NEW x \in Dispatch, NEW new \in TaskState, task' = [task EXCEPT ![x] = new],
         UNCHANGED <<webhook, eventIndex, request, delivered, stored, listed, job, current, queue, created>>,
         PromisesType', \A y \in Dispatch : y # x => owed'[y] \subseteq owed[y],
         claimed' \in SUBSET EventId, claimed \subseteq claimed', sequences' \in [EventId -> Nat],
         new.pc # "new", new.event \in EventId, \A h \in Webhook : job[<<x, h>>] = "none",
         \A e \in EventId : sequences'[e] <= 1 /\ (e \notin claimed' => sequences'[e] = 0),
         \A y \in Dispatch : y # x /\ Live(y) => sequences'[task[y].event] = sequences[task[y].event],
         new.pc \in Early \cup {"batch"} =>
           /\ new.event \in claimed' /\ \A h \in Webhook : <<h, new.event>> \notin delivered
           /\ \A y \in Dispatch : y # x /\ Live(y) => task[y].event # new.event,
         new.pc \in Early => sequences'[new.event] = 0,
         \A h \in Webhook : h \in owed'[x] =>
           /\ h \in eventIndex /\ webhook[h].exists /\ webhook[h].active /\ webhook[h].sub = "event"
           /\ new.pc = "mget" => h \in new.ids
           /\ new.pc \in {"incr", "batch"} => h \in new.targets
           /\ new.pc = "done" => created[<<h, new.event>>] = 1
  PROVE  FanOutInv'
<1>1. /\ task' \in [Dispatch -> TaskState] /\ task'[x] = new
      /\ \A y \in Dispatch : y # x => task'[y] = task[y]
  BY FanOutNow DEF FanOutType
<1>2. FanOutType'
  <2>1. \A y \in Dispatch : TaskHasEvent(y)'
    BY <1>1, FanOutNow DEF TaskHasEvent
  <2> QED BY <1>1, <2>1, FanOutNow DEF FanOutType
<1>3. RegistryType' /\ SemaphoreInv'
  BY FanOutNow DEF RegistryType, RequestOk, SemaphoreInv, JobsType, Holding
<1>4. ASSUME NEW e \in EventId PROVE EventOk(e)'
  BY FanOutNow DEF EventOk
<1>5. ASSUME NEW y \in Dispatch PROVE ClaimOk(y)'
  <2>1. CASE y = x
    BY <1>1, <2>1 DEF ClaimOk, Live
  <2>2. CASE y # x
    <3>1. ClaimOk(y) /\ owed'[y] \subseteq owed[y] /\ task'[y] = task[y]
      BY <1>1, <2>2, FanOutNow
    <3> QED BY <2>2, <3>1 DEF ClaimOk, Live
  <2> QED BY <2>1, <2>2
<1>6. Apart'
  <2> SUFFICES ASSUME NEW y \in Dispatch, NEW z \in Dispatch, Live(y)', Live(z)', task'[y].event = task'[z].event,
                      y # z
               PROVE  FALSE
    BY DEF Apart
  <2>1. CASE y # x /\ z # x
    BY <1>1, <2>1, FanOutNow DEF Apart, Live
  <2>2. CASE y = x
    BY <1>1, <2>2 DEF Live
  <2>3. CASE z = x
    BY <1>1, <2>3 DEF Live
  <2> QED BY <2>1, <2>2, <2>3
<1>7. ASSUME NEW k \in Webhook \X EventId PROVE KeyOk(k)'
  BY FanOutNow DEF KeyOk
<1>8. ASSUME NEW y \in Dispatch, NEW h \in Webhook PROVE PairOk(y, h)'
  <2>1. CASE y = x
    <3>1. job'[<<x, h>>] = "none" /\ task'[x] = new
      BY <1>1
    <3> QED BY <2>1, <3>1 DEF PairOk
  <2>2. CASE y # x
    <3>1. PairOk(y, h) /\ task'[y] = task[y]
      BY <1>1, <2>2, FanOutNow
    <3> QED BY <3>1 DEF PairOk
  <2> QED BY <2>1, <2>2
<1>9. ASSUME NEW y \in Dispatch, NEW h \in Webhook, h \in owed'[y] PROVE OwedOk(y, h)'
  <2>1. CASE y = x
    BY <1>1, <1>9, <2>1 DEF OwedOk
  <2>2. CASE y # x
    <3>1. OwedOk(y, h) /\ task'[y] = task[y]
      BY <1>1, <1>9, <2>2, FanOutNow
    <3> QED BY <3>1 DEF OwedOk
  <2> QED BY <2>1, <2>2
<1> QED BY <1>2, <1>3, <1>4, <1>5, <1>6, <1>7, <1>8, <1>9 DEF FanOutInv

\* A task ends, with its event: by a fault, or with nothing left to do.
LEMMA EndKeeps ==
  ASSUME FanOutInv, NEW x \in Dispatch, NEW e \in EventId,
         task' = [task EXCEPT ![x] = [NewTask EXCEPT !.pc = "done", !.event = e]],
         UNCHANGED <<registry, delivered, records, job, semaphore, created>>,
         claimed' \in SUBSET EventId, claimed \subseteq claimed', sequences' \in [EventId -> Nat],
         \A h \in Webhook : job[<<x, h>>] = "none",
         \A f \in EventId : sequences'[f] <= 1 /\ (f \notin claimed' => sequences'[f] = 0),
         \A y \in Dispatch : y # x /\ Live(y) => sequences'[task[y].event] = sequences[task[y].event],
         \/ Fault
         \/ NoFault /\ \A h \in Webhook : h \in owed[x] => created[<<h, e>>] = 1
  PROVE  FanOutInv'
<1> DEFINE new == [NewTask EXCEPT !.pc = "done", !.event = e]
<1>1. new \in TaskState /\ new.pc = "done" /\ new.event = e
  BY DEF NewTask, TaskState, TaskPlaces
<1>2. task' = [task EXCEPT ![x] = new]
  OBVIOUS
<1> HIDE DEF new
<1>3. PromisesType' /\ \A y \in Dispatch : owed'[y] \subseteq owed[y]
  <2>1. CASE Fault
    BY <2>1, FanOutNow, FaultShrinks
  <2>2. CASE NoFault
    BY <2>2, FanOutNow DEF NoFault, PromisesType
  <2> QED BY <2>1, <2>2
<1>4. ASSUME NEW h \in Webhook, h \in owed'[x]
      PROVE  /\ h \in eventIndex /\ webhook[h].exists /\ webhook[h].active /\ webhook[h].sub = "event"
             /\ created[<<h, e>>] = 1
  <2>1. OwedOk(x, h) /\ h \in owed[x]
    BY <1>3, <1>4, FanOutNow
  <2>2. ~Fault
    BY <1>4, FanOutNow, FaultShrinks
  <2> QED BY <2>1, <2>2 DEF OwedOk
<1> QED BY <1>1, <1>2, <1>3, <1>4, TaskKeeps DEF registry, records, semaphore, Early

\* A task before its batches has no jobs, and its event to itself.
LEMMA EarlyTask ==
  ASSUME FanOutInv, NEW x \in Dispatch, task[x].pc \in Early \cup {"new"}
  PROVE  /\ task[x] \in TaskState /\ \A h \in Webhook : job[<<x, h>>] = "none"
         /\ task[x].pc \in Early =>
              /\ task[x].event \in EventId /\ task[x].event \in claimed /\ sequences[task[x].event] = 0
              /\ \A h \in Webhook : <<h, task[x].event>> \notin delivered
              /\ \A y \in Dispatch : y # x /\ Live(y) => task[y].event # task[x].event
         /\ \A h \in Webhook : h \in owed[x] => OwedOk(x, h)
<1>1. ClaimOk(x) /\ TaskHasEvent(x) /\ Apart /\ task[x] \in TaskState
  BY FanOutNow
<1>2. \A h \in Webhook : PairOk(x, h) /\ (h \in owed[x] => OwedOk(x, h))
  BY FanOutNow
<1>3. ASSUME NEW h \in Webhook PROVE job[<<x, h>>] = "none"
  BY <1>2 DEF PairOk, Early
<1>4. ASSUME task[x].pc \in Early
      PROVE  /\ task[x].event \in EventId /\ task[x].event \in claimed /\ sequences[task[x].event] = 0
             /\ \A h \in Webhook : <<h, task[x].event>> \notin delivered
             /\ \A y \in Dispatch : y # x /\ Live(y) => task[y].event # task[x].event
  <2>1. task[x].event \in EventId
    BY <1>1, <1>4 DEF TaskHasEvent, Early
  <2>2. Live(x) /\ task[x].event \in claimed /\ sequences[task[x].event] = 0
    BY <1>1, <1>4 DEF ClaimOk, Live
  <2>3. \A h \in Webhook : <<h, task[x].event>> \notin delivered
    BY <1>2, <1>4 DEF PairOk
  <2>4. \A y \in Dispatch : y # x /\ Live(y) => task[y].event # task[x].event
    BY <1>1, <2>2 DEF Apart
  <2> QED BY <2>1, <2>2, <2>3, <2>4
<1> QED BY <1>1, <1>2, <1>3, <1>4

\* Sequence numbers, when none is drawn.
LEMMA SequencesNow ==
  ASSUME FanOutInv
  PROVE  /\ claimed \in SUBSET EventId /\ sequences \in [EventId -> Nat]
         /\ \A e \in EventId : sequences[e] <= 1 /\ (e \notin claimed => sequences[e] = 0)
         /\ \A e \in EventId : e \notin claimed => \A h \in Webhook : <<h, e>> \notin delivered
         /\ \A y \in Dispatch : Live(y) => task[y].event \in claimed
BY FanOutNow DEF FanOutType, EventOk, ClaimOk

LEMMA ClaimEventKeeps == ASSUME FanOutInv, NEW x \in Dispatch, NEW e \in EventId, ClaimEvent(x, e) PROVE FanOutInv'
<1>0. /\ task[x].pc = "new" /\ UNCHANGED <<registry, delivered, records, job, semaphore, sequences, created>>
      /\ owed[x] = {}
  BY FanOutNow DEF ClaimEvent, fanOut, ClaimOk
<1>1. \A h \in Webhook : job[<<x, h>>] = "none"
  BY <1>0, EarlyTask
<1>2. CASE /\ task' = [task EXCEPT ![x] = [NewTask EXCEPT !.pc = "done", !.event = e]]
           /\ claimed' \in {claimed, claimed \cup {e}} /\ (Fault \/ NoFault)
  <2>1. claimed' \in SUBSET EventId /\ claimed \subseteq claimed'
    BY <1>2, SequencesNow
  <2> QED BY <1>0, <1>1, <1>2, <2>1, SequencesNow, EndKeeps
<1>3. CASE /\ e \notin claimed /\ claimed' = claimed \cup {e} /\ UNCHANGED dispatchFaults
           /\ task' = [task EXCEPT ![x] = [NewTask EXCEPT !.pc = "smembers", !.event = e]]
           /\ owed' = [owed EXCEPT ![x] = Subscribed]
  <2> DEFINE new == [NewTask EXCEPT !.pc = "smembers", !.event = e]
  <2>1. new \in TaskState /\ new.pc = "smembers" /\ new.event = e
    BY DEF NewTask, TaskState, TaskPlaces
  <2>2. task' = [task EXCEPT ![x] = new]
    BY <1>3
  <2> HIDE DEF new
  <2>3. Subscribed \in SUBSET Webhook
    BY FanOutNow DEF Subscribed, RegistryType
  <2>4. PromisesType' /\ owed'[x] = Subscribed /\ \A y \in Dispatch : y # x => owed'[y] = owed[y]
    BY <1>3, <2>3, FanOutNow DEF PromisesType
  <2>5. \A h \in Webhook : h \in owed'[x] =>
          h \in eventIndex /\ webhook[h].exists /\ webhook[h].active /\ webhook[h].sub = "event"
    BY <2>4 DEF Subscribed
  <2>6. /\ claimed' \in SUBSET EventId /\ claimed \subseteq claimed' /\ e \in claimed' /\ sequences[e] = 0
        /\ \A h \in Webhook : <<h, e>> \notin delivered
        /\ \A y \in Dispatch : y # x /\ Live(y) => task[y].event # e
        /\ \A f \in EventId : sequences[f] <= 1 /\ (f \notin claimed' => sequences[f] = 0)
    BY <1>3, SequencesNow
  <2>7. /\ new.pc # "new" /\ new.event \in EventId
        /\ (new.pc \in Early => sequences'[new.event] = 0)
    BY <1>0, <2>1, <2>6 DEF Early
  <2>8. /\ new.event \in claimed' /\ \A h \in Webhook : <<h, new.event>> \notin delivered
        /\ \A y \in Dispatch : y # x /\ Live(y) => task[y].event # new.event
    BY <2>1, <2>6
  <2>9. ASSUME NEW h \in Webhook, h \in owed'[x]
        PROVE  /\ h \in eventIndex /\ webhook[h].exists /\ webhook[h].active /\ webhook[h].sub = "event"
               /\ (new.pc = "mget" => h \in new.ids)
               /\ (new.pc \in {"incr", "batch"} => h \in new.targets)
               /\ (new.pc = "done" => created[<<h, new.event>>] = 1)
    BY <2>1, <2>5, <2>9
  <2>10. UNCHANGED <<webhook, eventIndex, request, delivered, stored, listed, job, current, queue, created>>
    BY <1>0 DEF registry, records, semaphore
  <2>11. \A y \in Dispatch : y # x => owed'[y] \subseteq owed[y]
    BY <2>4
  <2>12. sequences' = sequences /\ sequences \in [EventId -> Nat]
    BY <1>0, SequencesNow
  <2> QED BY <1>1, <2>1, <2>2, <2>4, <2>6, <2>7, <2>8, <2>9, <2>10, <2>11, <2>12, TaskKeeps
<1> QED BY <1>2, <1>3 DEF ClaimEvent

LEMMA ListIndexKeeps == ASSUME FanOutInv, NEW x \in Dispatch, ListIndex(x) PROVE FanOutInv'
<1>0. /\ task[x].pc = "smembers" /\ task[x].pc \in Early
      /\ UNCHANGED <<registry, keys, records, job, semaphore, fanOut, claimed, delivered, sequences, created>>
  BY DEF ListIndex, keys, fanOut, Early
<1>1. PICK e \in EventId : e = task[x].event
  BY <1>0, EarlyTask
<1>2. CASE End(x) /\ (Fault \/ (NoFault /\ eventIndex = {}))
  <2>1. \A h \in Webhook : h \in owed[x] => h \in eventIndex
    BY <1>0, EarlyTask DEF OwedOk
  <2> QED BY <1>0, <1>1, <1>2, <2>1, EarlyTask, SequencesNow, EndKeeps DEF End
<1>3. CASE task' = [task EXCEPT ![x].pc = "mget", ![x].ids = eventIndex] /\ NoFault
  <2> DEFINE new == [task[x] EXCEPT !.pc = "mget", !.ids = eventIndex]
  <2>1. eventIndex \in SUBSET Webhook /\ task[x] \in TaskState
    BY FanOutNow DEF RegistryType
  <2>2. new \in TaskState /\ new.pc = "mget" /\ new.event = e /\ new.ids = eventIndex
    BY <1>1, <2>1 DEF TaskState, TaskPlaces
  <2>3. task' = [task EXCEPT ![x] = new]
    BY <1>3
  <2> HIDE DEF new
  <2>4. PromisesType' /\ UNCHANGED owed
    BY <1>3, FanOutNow DEF NoFault, PromisesType
  <2>5. \A h \in Webhook : h \in owed'[x] =>
          h \in eventIndex /\ webhook[h].exists /\ webhook[h].active /\ webhook[h].sub = "event"
    BY <1>0, <2>4, EarlyTask DEF OwedOk
  <2>7. /\ new.pc # "new" /\ new.event \in EventId
        /\ (new.pc \in Early => sequences'[new.event] = 0)
    BY <1>0, <1>1, <2>2, <2>3, EarlyTask DEF Early
  <2>8. /\ new.event \in claimed' /\ \A h \in Webhook : <<h, new.event>> \notin delivered
        /\ \A y \in Dispatch : y # x /\ Live(y) => task[y].event # new.event
    BY <1>0, <1>1, <2>2, <2>3, EarlyTask
  <2>9. ASSUME NEW h \in Webhook, h \in owed'[x]
        PROVE  /\ h \in eventIndex /\ webhook[h].exists /\ webhook[h].active /\ webhook[h].sub = "event"
               /\ (new.pc = "mget" => h \in new.ids)
               /\ (new.pc \in {"incr", "batch"} => h \in new.targets)
               /\ (new.pc = "done" => created[<<h, new.event>>] = 1)
    BY <2>2, <2>3, <2>5, <2>9
  <2>10. UNCHANGED <<webhook, eventIndex, request, delivered, stored, listed, job, current, queue, created>>
    BY <1>0 DEF registry, records, semaphore
  <2>11. /\ sequences' = sequences /\ sequences \in [EventId -> Nat] /\ claimed' = claimed /\ claimed \in SUBSET EventId
         /\ \A f \in EventId : sequences[f] <= 1 /\ (f \notin claimed => sequences[f] = 0)
    BY <1>0, SequencesNow
  <2>12. \A h \in Webhook : job[<<x, h>>] = "none"
    BY <1>0, EarlyTask
  <2> QED BY <2>2, <2>3, <2>4, <2>7, <2>8, <2>9, <2>10, <2>11, <2>12, TaskKeeps
<1> QED BY <1>2, <1>3 DEF ListIndex

LEMMA LoadTargetsKeeps == ASSUME FanOutInv, NEW x \in Dispatch, LoadTargets(x) PROVE FanOutInv'
<1>0. /\ task[x].pc = "mget" /\ task[x].pc \in Early
      /\ UNCHANGED <<registry, keys, records, job, semaphore, fanOut, claimed, delivered, sequences, created>>
  BY DEF LoadTargets, keys, fanOut, Early
<1>1. PICK e \in EventId : e = task[x].event
  BY <1>0, EarlyTask
<1> DEFINE found == Matching(task[x].ids)
<1>2. found \in SUBSET Webhook /\ \A h \in Webhook : h \in owed[x] => h \in found
  <2>1. task[x].ids \in SUBSET Webhook
    BY FanOutNow DEF TaskState
  <2>2. ASSUME NEW h \in Webhook, h \in owed[x] PROVE h \in found
    <3>1. OwedOk(x, h)
      BY <2>2, FanOutNow
    <3> QED BY <1>0, <3>1 DEF OwedOk, Matching, matchesSubscription
  <2> QED BY <2>1, <2>2 DEF Matching
<1>3. CASE End(x) /\ (Fault \/ (NoFault /\ found = {}))
  BY <1>0, <1>1, <1>2, <1>3, EarlyTask, SequencesNow, EndKeeps DEF End
<1>4. CASE task' = [task EXCEPT ![x].pc = "incr", ![x].ids = {}, ![x].targets = found] /\ NoFault
  <2> DEFINE new == [task[x] EXCEPT !.pc = "incr", !.ids = {}, !.targets = found]
  <2>1. task[x] \in TaskState
    BY FanOutNow
  <2>2. task' = [task EXCEPT ![x] = new]
    BY <1>4
  <2> HIDE DEF found
  <2>3. new \in TaskState /\ new.pc = "incr" /\ new.event = e /\ new.targets = found
    BY <1>1, <1>2, <2>1 DEF TaskState, TaskPlaces
  <2> HIDE DEF new
  <2>4. PromisesType' /\ UNCHANGED owed
    BY <1>4, FanOutNow DEF NoFault, PromisesType
  <2>5. \A h \in Webhook : h \in owed'[x] =>
          /\ h \in eventIndex /\ webhook[h].exists /\ webhook[h].active /\ webhook[h].sub = "event"
          /\ h \in new.targets
    BY <1>0, <1>2, <2>3, <2>4, EarlyTask DEF OwedOk
  <2>7. /\ new.pc # "new" /\ new.event \in EventId
        /\ (new.pc \in Early => sequences'[new.event] = 0)
    BY <1>0, <1>1, <2>2, <2>3, EarlyTask DEF Early
  <2>8. /\ new.event \in claimed' /\ \A h \in Webhook : <<h, new.event>> \notin delivered
        /\ \A y \in Dispatch : y # x /\ Live(y) => task[y].event # new.event
    BY <1>0, <1>1, <2>2, <2>3, EarlyTask
  <2>9. ASSUME NEW h \in Webhook, h \in owed'[x]
        PROVE  /\ h \in eventIndex /\ webhook[h].exists /\ webhook[h].active /\ webhook[h].sub = "event"
               /\ (new.pc = "mget" => h \in new.ids)
               /\ (new.pc \in {"incr", "batch"} => h \in new.targets)
               /\ (new.pc = "done" => created[<<h, new.event>>] = 1)
    BY <2>2, <2>3, <2>5, <2>9
  <2>10. UNCHANGED <<webhook, eventIndex, request, delivered, stored, listed, job, current, queue, created>>
    BY <1>0 DEF registry, records, semaphore
  <2>11. /\ sequences' = sequences /\ sequences \in [EventId -> Nat] /\ claimed' = claimed /\ claimed \in SUBSET EventId
         /\ \A f \in EventId : sequences[f] <= 1 /\ (f \notin claimed => sequences[f] = 0)
    BY <1>0, SequencesNow
  <2>12. \A h \in Webhook : job[<<x, h>>] = "none"
    BY <1>0, EarlyTask
  <2> QED BY <2>2, <2>3, <2>4, <2>7, <2>8, <2>9, <2>10, <2>11, <2>12, TaskKeeps
<1> QED BY <1>3, <1>4 DEF LoadTargets

LEMMA DrawSequenceKeeps == ASSUME FanOutInv, NEW x \in Dispatch, DrawSequence(x) PROVE FanOutInv'
<1>0. /\ task[x].pc = "incr" /\ task[x].pc \in Early
      /\ UNCHANGED <<registry, keys, records, job, semaphore, claimed, delivered, created>>
  BY DEF DrawSequence, keys, Early
<1>1. PICK e \in EventId : e = task[x].event
  BY <1>0, EarlyTask
<1>2. PICK n \in 0 .. 1 : sequences' = [sequences EXCEPT ![e] = @ + n]
  BY <1>1 DEF DrawSequence
<1>3. /\ sequences' \in [EventId -> Nat] /\ sequences'[e] \in 0 .. 1 /\ e \in claimed
      /\ \A f \in EventId : f # e => sequences'[f] = sequences[f]
  BY <1>0, <1>1, <1>2, EarlyTask, SequencesNow
<1>4. /\ \A f \in EventId : sequences'[f] <= 1 /\ (f \notin claimed => sequences'[f] = 0)
      /\ \A y \in Dispatch : y # x /\ Live(y) => sequences'[task[y].event] = sequences[task[y].event]
  BY <1>0, <1>1, <1>3, EarlyTask, SequencesNow
<1>5. CASE End(x) /\ Fault
  BY <1>0, <1>1, <1>3, <1>4, <1>5, EarlyTask, SequencesNow, EndKeeps DEF End
<1>6. CASE task' = [task EXCEPT ![x].pc = "batch"] /\ NoFault
  <2> DEFINE new == [task[x] EXCEPT !.pc = "batch"]
  <2>1. task[x] \in TaskState
    BY FanOutNow
  <2>2. task' = [task EXCEPT ![x] = new]
    BY <1>6
  <2>3. new \in TaskState /\ new.pc = "batch" /\ new.event = e /\ new.targets = task[x].targets
    BY <1>1, <2>1 DEF TaskState, TaskPlaces
  <2> HIDE DEF new
  <2>4. PromisesType' /\ UNCHANGED owed
    BY <1>6, FanOutNow DEF NoFault, PromisesType
  <2>5. \A h \in Webhook : h \in owed'[x] =>
          /\ h \in eventIndex /\ webhook[h].exists /\ webhook[h].active /\ webhook[h].sub = "event"
          /\ h \in new.targets
    BY <1>0, <2>3, <2>4, EarlyTask DEF OwedOk
  <2>7. /\ new.pc # "new" /\ new.event \in EventId
        /\ (new.pc \in Early => sequences'[new.event] = 0)
    BY <1>0, <1>1, <2>3, EarlyTask DEF Early
  <2>8. /\ new.event \in claimed' /\ \A h \in Webhook : <<h, new.event>> \notin delivered
        /\ \A y \in Dispatch : y # x /\ Live(y) => task[y].event # new.event
    BY <1>0, <1>1, <2>3, EarlyTask
  <2>9. ASSUME NEW h \in Webhook, h \in owed'[x]
        PROVE  /\ h \in eventIndex /\ webhook[h].exists /\ webhook[h].active /\ webhook[h].sub = "event"
               /\ (new.pc = "mget" => h \in new.ids)
               /\ (new.pc \in {"incr", "batch"} => h \in new.targets)
               /\ (new.pc = "done" => created[<<h, new.event>>] = 1)
    BY <2>3, <2>5, <2>9
  <2>10. UNCHANGED <<webhook, eventIndex, request, delivered, stored, listed, job, current, queue, created>>
    BY <1>0 DEF registry, records, semaphore
  <2>11. claimed' = claimed /\ claimed \in SUBSET EventId
    BY <1>0, SequencesNow
  <2>12. \A h \in Webhook : job[<<x, h>>] = "none"
    BY <1>0, EarlyTask
  <2> QED BY <1>3, <1>4, <2>2, <2>3, <2>4, <2>7, <2>8, <2>9, <2>10, <2>11, <2>12, TaskKeeps
<1> QED BY <1>5, <1>6 DEF DrawSequence

-----------------------------------------------------------------------------
(* deliverWithLimit(): a job moves, to p. *)

\* A job that is past acquire() belongs to a dispatch in its batches.
LEMMA JobNow ==
  ASSUME FanOutInv, NEW x \in Dispatch, NEW h \in Webhook, job[<<x, h>>] # "none"
  PROVE  /\ task[x].pc = "batch" /\ task[x].event \in EventId /\ task[x].event \in claimed
         /\ h \notin task[x].targets /\ <<h, task[x].event>> \in Webhook \X EventId
         /\ \A y \in Dispatch : y # x /\ Live(y) => task[y].event # task[x].event
<1>1. PairOk(x, h) /\ ClaimOk(x) /\ TaskHasEvent(x) /\ Apart
  BY FanOutNow
<1>2. task[x].pc = "batch" /\ h \notin task[x].targets
  BY <1>1 DEF PairOk
<1>3. Live(x) /\ task[x].event \in EventId /\ task[x].event \in claimed
  BY <1>1, <1>2 DEF Live, ClaimOk, TaskHasEvent
<1> QED BY <1>1, <1>2, <1>3 DEF Apart

LEMMA JobKeeps ==
  ASSUME FanOutInv, NEW x \in Dispatch, NEW h \in Webhook, NEW e, e = task[x].event, job[<<x, h>>] \in Held,
         SemaphoreInv', NEW p \in {"none", "find", "create", "attempt"}, job'[<<x, h>>] = p,
         \A i \in Job : i # <<x, h>> => job'[i] = job[i] \/ (job[i] = "waiting" /\ job'[i] = "claim"),
         UNCHANGED <<webhook, eventIndex, request, claimed, task, sequences>>,
         stored' \in SUBSET (Webhook \X EventId), listed' \in SUBSET (Webhook \X EventId), PromisesType',
         delivered' \in {delivered, delivered \cup {<<h, e>>}}, created' \in [Webhook \X EventId -> Nat],
         \A k \in Webhook \X EventId : k # <<h, e>> => created'[k] = created[k],
         created[<<h, e>>] <= created'[<<h, e>>], created'[<<h, e>>] <= 1,
         created'[<<h, e>>] # 0 => <<h, e>> \in delivered',
         p \in {"find", "create"} => <<h, e>> \in delivered' /\ created'[<<h, e>>] = 0,
         p = "attempt" => created'[<<h, e>>] = 1,
         \A y \in Dispatch : owed'[y] \subseteq owed[y],
         h \in owed'[x] => p \in {"find", "create"} \/ created'[<<h, e>>] = 1
  PROVE  FanOutInv'
<1>0. /\ task[x].pc = "batch" /\ e \in EventId /\ e \in claimed /\ h \notin task[x].targets
      /\ <<h, e>> \in Webhook \X EventId
      /\ \A y \in Dispatch : y # x /\ Live(y) => task[y].event # e
  BY JobNow DEF Held
<1>1. FanOutType' /\ RegistryType' /\ Apart'
  BY <1>0, FanOutNow DEF FanOutType, TaskHasEvent, RegistryType, RequestOk, Apart, Live
<1>2. ASSUME NEW f \in EventId PROVE EventOk(f)'
  <2>1. EventOk(f) /\ (f # e => \A g \in Webhook : <<g, f>> # <<h, e>>)
    BY FanOutNow
  <2> QED BY <1>0, <2>1 DEF EventOk
<1>3. ASSUME NEW y \in Dispatch PROVE ClaimOk(y)'
  <2>1. ClaimOk(y) /\ owed'[y] \subseteq owed[y]
    BY FanOutNow
  <2> QED BY <2>1 DEF ClaimOk, Live
<1>4. ASSUME NEW k \in Webhook \X EventId PROVE KeyOk(k)'
  <2>1. KeyOk(k)
    BY FanOutNow
  <2>2. CASE k = <<h, e>>
    BY <2>2 DEF KeyOk
  <2>3. CASE k # <<h, e>>
    BY <2>1, <2>3 DEF KeyOk
  <2> QED BY <2>2, <2>3
<1>5. ASSUME NEW y \in Dispatch, NEW g \in Webhook, <<y, g>> # <<x, h>>, job[<<y, g>>] # "none" \/ Live(y)
      PROVE  <<g, task[y].event>> # <<h, e>> /\ <<g, task[y].event>> \in Webhook \X EventId
  <2>1. Live(y)
    BY <1>5, JobNow DEF Live
  <2>2. task[y].event \in EventId
    BY <2>1, FanOutNow DEF TaskHasEvent, Live, Early
  <2>3. CASE y = x
    BY <1>5, <2>2, <2>3
  <2>4. CASE y # x
    BY <1>0, <2>1, <2>2, <2>4
  <2> QED BY <2>3, <2>4
<1>6. ASSUME NEW y \in Dispatch, NEW g \in Webhook PROVE PairOk(y, g)'
  <2>1. CASE <<y, g>> = <<x, h>>
    <3>1. y = x /\ g = h
      BY <2>1
    <3> QED BY <1>0, <3>1 DEF PairOk, Early
  <2>2. CASE <<y, g>> # <<x, h>> /\ (job[<<y, g>>] # "none" \/ Live(y))
    <3>1. PairOk(y, g) /\ <<y, g>> \in Job
      BY FanOutNow
    <3>2. job'[<<y, g>>] = job[<<y, g>>] \/ (job[<<y, g>>] = "waiting" /\ job'[<<y, g>>] = "claim")
      BY <2>2, <3>1
    <3>3. /\ created'[<<g, task[y].event>>] = created[<<g, task[y].event>>]
          /\ <<g, task[y].event>> \in delivered' <=> <<g, task[y].event>> \in delivered
      BY <1>5, <2>2
    <3> QED BY <3>1, <3>2, <3>3 DEF PairOk
  <2>3. CASE <<y, g>> # <<x, h>> /\ job[<<y, g>>] = "none" /\ ~Live(y)
    <3>1. job'[<<y, g>>] = "none"
      BY <2>3, FanOutNow
    <3> QED BY <2>3, <3>1 DEF PairOk, Live
  <2> QED BY <2>1, <2>2, <2>3
<1>7. ASSUME NEW y \in Dispatch, NEW g \in Webhook, g \in owed'[y] PROVE OwedOk(y, g)'
  <2>0. OwedOk(y, g)
    BY <1>7, FanOutNow
  <2>1. CASE <<y, g>> = <<x, h>>
    <3>1. y = x /\ g = h
      BY <2>1
    <3> QED BY <1>0, <1>7, <2>0, <3>1 DEF OwedOk
  <2>2. CASE <<y, g>> # <<x, h>> /\ Live(y)
    <3>1. created'[<<g, task[y].event>>] = created[<<g, task[y].event>>]
      BY <1>5, <2>2
    <3>2. job'[<<y, g>>] = job[<<y, g>>] \/ (job[<<y, g>>] = "waiting" /\ job'[<<y, g>>] = "claim")
      BY <2>2, FanOutNow
    <3> QED BY <2>0, <3>1, <3>2 DEF OwedOk
  <2>3. CASE ~Live(y)
    <3>1. task[y].pc = "done" => created'[<<g, task[y].event>>] = 1
      <4> SUFFICES ASSUME task[y].pc = "done" PROVE created'[<<g, task[y].event>>] = 1
        OBVIOUS
      <4>1. created[<<g, task[y].event>>] = 1 /\ <<g, task[y].event>> \in Webhook \X EventId
        BY <2>0, FanOutNow DEF OwedOk, TaskHasEvent
      <4>2. CASE <<g, task[y].event>> = <<h, e>>
        <5>1. created[<<h, e>>] = 1 /\ created'[<<h, e>>] \in Nat
          BY <1>0, <4>1, <4>2
        <5>2. created'[<<h, e>>] = 1
          BY <5>1
        <5> QED BY <4>2, <5>2
      <4>3. CASE <<g, task[y].event>> # <<h, e>>
        BY <4>1, <4>3
      <4> QED BY <4>2, <4>3
    <3> QED BY <2>0, <2>3, <3>1 DEF OwedOk, Live, Early
  <2> QED BY <2>1, <2>2, <2>3
<1> QED BY <1>1, <1>2, <1>3, <1>4, <1>6, <1>7 DEF FanOutInv

\* The two ways a job moves: on with its permit, or out.
LEMMA JobMoves ==
  ASSUME FanOutInv, NEW j \in Job, job[j] \in Held, Release(j) \/ \E pc \in Held : JobGoes(j, pc)
  PROVE  /\ SemaphoreInv' /\ (Release(j) => job'[j] = "none") /\ (\A pc \in Held : JobGoes(j, pc) => job'[j] = pc)
         /\ \A i \in Job : i # j => job'[i] = job[i] \/ (job[i] = "waiting" /\ job'[i] = "claim")
BY FanOutNow, ReleaseSemaphore, JobGoesSemaphore

\* A job leaves that owes nothing, or because of a fault.
LEMMA JobLeaves ==
  ASSUME FanOutInv, NEW x \in Dispatch, NEW h \in Webhook, NEW e, e = task[x].event, job[<<x, h>>] \in Held,
         Release(<<x, h>>), UNCHANGED <<registry, claimed, task, sequences>>,
         delivered' \in {delivered, delivered \cup {<<h, e>>}},
         \/ UNCHANGED <<records, created>>
         \/ /\ stored' = stored \cup {<<h, e>>} /\ listed' = listed \cup {<<h, e>>} /\ job[<<x, h>>] = "create"
            /\ created' = [created EXCEPT ![<<h, e>>] = @ + 1],
         \/ Fault
         \/ UNCHANGED <<owed, dispatchFaults>> /\ (h \in owed[x] => created[<<h, e>>] = 1)
  PROVE  FanOutInv'
<1>0. e \in EventId /\ <<h, e>> \in Webhook \X EventId /\ <<x, h>> \in Job
  BY JobNow, FanOutNow DEF Held
<1>1. /\ SemaphoreInv' /\ job'[<<x, h>>] = "none"
      /\ \A i \in Job : i # <<x, h>> => job'[i] = job[i] \/ (job[i] = "waiting" /\ job'[i] = "claim")
  BY <1>0, JobMoves
<1>2. /\ RegistryType /\ created \in [Webhook \X EventId -> Nat] /\ KeyOk(<<h, e>>)
  BY <1>0, FanOutNow DEF FanOutType
<1>3. /\ stored' \in SUBSET (Webhook \X EventId) /\ listed' \in SUBSET (Webhook \X EventId)
  BY <1>0, <1>2 DEF RegistryType, records
<1>4. PromisesType' /\ \A y \in Dispatch : owed'[y] \subseteq owed[y]
  <2>1. CASE Fault
    BY <2>1, FanOutNow, FaultShrinks
  <2>2. CASE UNCHANGED <<owed, dispatchFaults>>
    BY <2>2, FanOutNow DEF PromisesType
  <2> QED BY <2>1, <2>2
<1>5. /\ created' \in [Webhook \X EventId -> Nat]
      /\ \A k \in Webhook \X EventId : k # <<h, e>> => created'[k] = created[k]
      /\ created[<<h, e>>] <= created'[<<h, e>>] /\ created'[<<h, e>>] <= 1
      /\ (created'[<<h, e>>] # 0 => <<h, e>> \in delivered')
  <2>1. CASE created' = created
    BY <1>0, <1>2, <2>1 DEF KeyOk
  <2>2. CASE job[<<x, h>>] = "create" /\ created' = [created EXCEPT ![<<h, e>>] = @ + 1]
    <3>1. created[<<h, e>>] = 0 /\ <<h, e>> \in delivered
      BY <2>2, FanOutNow DEF PairOk
    <3> QED BY <1>0, <1>2, <2>2, <3>1
  <2> QED BY <2>1, <2>2
<1>6. h \in owed'[x] => created'[<<h, e>>] = 1
  <2> SUFFICES ASSUME h \in owed'[x] PROVE created'[<<h, e>>] = 1
    OBVIOUS
  <2>1. created[<<h, e>>] = 1
    BY FanOutNow, FaultShrinks
  <2> QED BY <1>0, <1>5, <2>1
<1>7. UNCHANGED <<webhook, eventIndex, request, claimed, task, sequences>>
  BY DEF registry
<1> QED BY <1>1, <1>3, <1>4, <1>5, <1>6, <1>7, JobKeeps

\* A job goes on, while nothing fails.
LEMMA JobGoesOn ==
  ASSUME FanOutInv, NEW x \in Dispatch, NEW h \in Webhook, NEW e, e = task[x].event, job[<<x, h>>] \in Held,
         NEW p \in {"find", "create", "attempt"}, JobGoes(<<x, h>>, p),
         UNCHANGED <<webhook, eventIndex, request, claimed, task, sequences, owed, dispatchFaults>>,
         stored' \in SUBSET (Webhook \X EventId), listed' \in SUBSET (Webhook \X EventId),
         delivered' \in {delivered, delivered \cup {<<h, e>>}}, created' \in [Webhook \X EventId -> Nat],
         \A k \in Webhook \X EventId : k # <<h, e>> => created'[k] = created[k],
         <<h, e>> \in delivered', created[<<h, e>>] = 0, created'[<<h, e>>] = IF p = "attempt" THEN 1 ELSE 0
  PROVE  FanOutInv'
<1>0. <<x, h>> \in Job /\ p \in Held
  BY FanOutNow DEF Held
<1>1. /\ SemaphoreInv' /\ job'[<<x, h>>] = p
      /\ \A i \in Job : i # <<x, h>> => job'[i] = job[i] \/ (job[i] = "waiting" /\ job'[i] = "claim")
  BY <1>0, JobMoves
<1>2. PromisesType' /\ \A y \in Dispatch : owed'[y] \subseteq owed[y]
  BY FanOutNow DEF PromisesType
<1> QED BY <1>1, <1>2, JobKeeps

LEMMA ClaimDeliveryKeeps ==
  ASSUME FanOutInv, NEW x \in Dispatch, NEW h \in Webhook, ClaimDelivery(<<x, h>>) PROVE FanOutInv'
<1>0. /\ job[<<x, h>>] = "claim" /\ job[<<x, h>>] \in Held
      /\ UNCHANGED <<registry, claimed, records, task, fanOut, sequences, created>>
  BY DEF ClaimDelivery, Held, fanOut
<1>1. PICK e \in EventId : /\ e = task[x].event /\ task[x].pc = "batch" /\ <<h, e>> \in Webhook \X EventId
                           /\ Key(<<x, h>>) = <<h, e>>
  BY <1>0, JobNow DEF Key
<1>2. <<h, e>> \notin delivered /\ created[<<h, e>>] = 0
  BY <1>0, <1>1, FanOutNow DEF PairOk, KeyOk
<1>3. CASE Release(<<x, h>>) /\ Fault /\ delivered' \in {delivered, delivered \cup {<<h, e>>}}
  BY <1>0, <1>1, <1>3, JobLeaves
<1>4. CASE delivered' = delivered \cup {<<h, e>>} /\ JobGoes(<<x, h>>, "find") /\ NoFault
  <2>1. /\ created' \in [Webhook \X EventId -> Nat] /\ stored' \in SUBSET (Webhook \X EventId)
        /\ listed' \in SUBSET (Webhook \X EventId)
    BY <1>0, FanOutNow DEF FanOutType, RegistryType, records
  <2>2. UNCHANGED <<webhook, eventIndex, request, claimed, task, sequences, owed, dispatchFaults>>
    BY <1>0, <1>4 DEF registry, NoFault
  <2> QED BY <1>0, <1>1, <1>2, <1>4, <2>1, <2>2, JobGoesOn
<1> QED BY <1>1, <1>2, <1>3, <1>4 DEF ClaimDelivery

LEMMA FindWebhookKeeps ==
  ASSUME FanOutInv, NEW x \in Dispatch, NEW h \in Webhook, FindWebhook(<<x, h>>) PROVE FanOutInv'
<1>0. /\ job[<<x, h>>] = "find" /\ job[<<x, h>>] \in Held
      /\ UNCHANGED <<registry, claimed, delivered, records, task, fanOut, sequences, created>>
  BY DEF FindWebhook, Held, fanOut, keys
<1>1. PICK e \in EventId : e = task[x].event /\ task[x].pc = "batch" /\ <<h, e>> \in Webhook \X EventId
  BY <1>0, JobNow
<1>2. <<h, e>> \in delivered /\ created[<<h, e>>] = 0
  BY <1>0, <1>1, FanOutNow DEF PairOk
<1>3. CASE Release(<<x, h>>) /\ (Fault \/ (NoFault /\ ~webhook[h].exists))
  <2>1. h \in owed[x] => webhook[h].exists
    BY FanOutNow DEF OwedOk
  <2> QED BY <1>0, <1>1, <1>3, <2>1, JobLeaves DEF NoFault
<1>4. CASE JobGoes(<<x, h>>, "create") /\ NoFault
  <2>1. /\ created' \in [Webhook \X EventId -> Nat] /\ stored' \in SUBSET (Webhook \X EventId)
        /\ listed' \in SUBSET (Webhook \X EventId)
    BY <1>0, FanOutNow DEF FanOutType, RegistryType, records
  <2>2. UNCHANGED <<webhook, eventIndex, request, claimed, task, sequences, owed, dispatchFaults>>
    BY <1>0, <1>4 DEF registry, NoFault
  <2> QED BY <1>0, <1>1, <1>2, <1>4, <2>1, <2>2, JobGoesOn
<1> QED BY <1>3, <1>4 DEF FindWebhook

LEMMA CreateDeliveryKeeps ==
  ASSUME FanOutInv, NEW x \in Dispatch, NEW h \in Webhook, CreateDelivery(<<x, h>>) PROVE FanOutInv'
<1>0. /\ job[<<x, h>>] = "create" /\ job[<<x, h>>] \in Held
      /\ UNCHANGED <<registry, claimed, delivered, task, sequences>>
  BY DEF CreateDelivery, Held, keys
<1>1. PICK e \in EventId : /\ e = task[x].event /\ task[x].pc = "batch" /\ <<h, e>> \in Webhook \X EventId
                           /\ Key(<<x, h>>) = <<h, e>>
  BY <1>0, JobNow DEF Key
<1>2. <<h, e>> \in delivered /\ created[<<h, e>>] = 0
  BY <1>0, <1>1, FanOutNow DEF PairOk
<1>3. CASE Release(<<x, h>>) /\ Fault
  BY <1>0, <1>1, <1>3, JobLeaves DEF CreateDelivery
<1>4. CASE /\ JobGoes(<<x, h>>, "attempt") /\ NoFault /\ stored' = stored \cup {<<h, e>>}
           /\ listed' = listed \cup {<<h, e>>} /\ created' = [created EXCEPT ![<<h, e>>] = @ + 1]
  <2>1. /\ created' \in [Webhook \X EventId -> Nat] /\ created'[<<h, e>>] = 1
        /\ \A k \in Webhook \X EventId : k # <<h, e>> => created'[k] = created[k]
    BY <1>1, <1>2, <1>4, FanOutNow DEF FanOutType
  <2>2. stored' \in SUBSET (Webhook \X EventId) /\ listed' \in SUBSET (Webhook \X EventId)
    BY <1>1, <1>4, FanOutNow DEF RegistryType
  <2>3. UNCHANGED <<webhook, eventIndex, request, claimed, task, sequences, owed, dispatchFaults>>
    BY <1>0, <1>4 DEF registry, NoFault
  <2> QED BY <1>0, <1>1, <1>2, <1>4, <2>1, <2>2, <2>3, JobGoesOn
<1> QED BY <1>1, <1>3, <1>4 DEF CreateDelivery

LEMMA AttemptKeeps ==
  ASSUME FanOutInv, NEW x \in Dispatch, NEW h \in Webhook, Attempt(<<x, h>>) PROVE FanOutInv'
<1>0. /\ job[<<x, h>>] = "attempt" /\ job[<<x, h>>] \in Held /\ Release(<<x, h>>)
      /\ UNCHANGED <<registry, claimed, delivered, records, task, sequences, created, owed, dispatchFaults>>
  BY DEF Attempt, Held, fanOut, keys
<1>1. created[<<h, task[x].event>>] = 1
  BY <1>0, FanOutNow DEF PairOk
<1> QED BY <1>0, <1>1, JobLeaves

-----------------------------------------------------------------------------
(* processBatch, the death of the process, and the theorems. *)

\* The beginning of a set written as a sequence holds its elements once each.
LEMMA BatchIs ==
  ASSUME NEW T, IsFiniteSet(T), NEW hs \in SetToSeqs(T), NEW m \in Nat, m <= Cardinality(T)
  PROVE  \E b \in Seq(T) : /\ b = SubSeq(hs, 1, m) /\ Len(b) = m
                           /\ \A i, k \in 1 .. m : b[i] = b[k] => i = k
<1>1. PICK n \in Nat : n = Cardinality(T)
  BY FS_CardinalityType
<1>2. hs \in [1 .. n -> T] /\ \A i, j \in 1 .. n : i # j => hs[i] # hs[j]
  BY <1>1 DEF SetToSeqs
<1>3. PICK b : b = SubSeq(hs, 1, m)
  OBVIOUS
<1>4. /\ b \in Seq(T) /\ Len(b) = m /\ \A i \in 1 .. m : b[i] = hs[i]
  <2>1. \A i \in 1 .. m : hs[i] \in T
    BY <1>1, <1>2
  <2>2. /\ SubSeq(hs, 1, m) \in Seq(T) /\ Len(SubSeq(hs, 1, m)) = IF 1 <= m THEN m - 1 + 1 ELSE 0
        /\ \A i \in 1 .. m - 1 + 1 : SubSeq(hs, 1, m)[i] = hs[1 + i - 1]
    BY <2>1, SubSeqProperties
  <2>3. /\ b \in Seq(T) /\ Len(b) = IF 1 <= m THEN m - 1 + 1 ELSE 0
        /\ \A i \in 1 .. m - 1 + 1 : b[i] = hs[1 + i - 1]
    BY <1>3, <2>2
  <2> QED BY <2>3
<1>5. \A i, k \in 1 .. m : b[i] = b[k] => i = k
  BY <1>1, <1>2, <1>4
<1> QED BY <1>3, <1>4, <1>5, Zenon

LEMMA SecondOfPair == \A u, v, w : <<u, v>> = <<u, w>> => v = w
OBVIOUS

LEMMA NextBatchKeeps == ASSUME FanOutInv, NEW x \in Dispatch, NextBatch(x) PROVE FanOutInv'
<1>0. /\ task[x].pc = "batch" /\ \A h \in Webhook : job[<<x, h>>] = "none"
      /\ UNCHANGED <<registry, keys, records, claimed, delivered, sequences, created, owed, dispatchFaults>>
  BY DEF NextBatch, keys, fanOut
<1>1. PICK e \in EventId : e = task[x].event
  BY <1>0, FanOutNow DEF TaskHasEvent
<1>2. CASE task[x].targets = {} /\ End(x) /\ UNCHANGED <<job, semaphore>>
  <2>1. \A h \in Webhook : h \in owed[x] => created[<<h, e>>] = 1
    BY <1>0, <1>1, <1>2, FanOutNow DEF OwedOk
  <2>2. NoFault
    BY <1>0 DEF NoFault
  <2> QED BY <1>0, <1>1, <1>2, <2>1, <2>2, SequencesNow, EndKeeps DEF End
<1>3. ASSUME NEW hs \in SetToSeqs(task[x].targets), NEW slice, slice = SubSeq(hs, 1, Size(x)),
             NEW js, js = [k \in 1 .. Len(slice) |-> <<x, slice[k]>>], Acquire(js),
             task' = [task EXCEPT ![x].targets = @ \ ToSet(slice)]
      PROVE  FanOutInv'
  <2>1. /\ ToSet(slice) \in SUBSET task[x].targets
        /\ js \in Seq(Job) /\ \A i, k \in 1 .. Len(js) : js[i] = js[k] => i = k
        /\ \A k \in 1 .. Len(js) : \E h \in ToSet(slice) : js[k] = <<x, h>>
        /\ \A h \in ToSet(slice) : \E k \in 1 .. Len(js) : js[k] = <<x, h>>
    <3>1. PICK T \in SUBSET Webhook : T = task[x].targets
      BY FanOutNow DEF TaskState
    <3>2. IsFiniteSet(T)
      BY DispatchConfig, FS_Subset
    <3>3. PICK m \in Nat : m = Size(x) /\ m <= Cardinality(T)
      BY <3>1, <3>2, DispatchConfig, FS_CardinalityType DEF Size
    <3>4. hs \in SetToSeqs(T)
      BY <3>1
    <3>5. PICK b \in Seq(T) : /\ b = SubSeq(hs, 1, m) /\ Len(b) = m
                              /\ \A i, k \in 1 .. m : b[i] = b[k] => i = k
      BY <3>2, <3>3, <3>4, BatchIs
    <3>6. b = slice
      BY <1>3, <3>3, <3>5
    <3>7. js = [k \in 1 .. m |-> <<x, b[k]>>]
      BY <1>3, <3>5, <3>6
    <3>8. \A k \in 1 .. m : js[k] = <<x, b[k]>>
      BY <3>7
    <3>9. js \in [1 .. m -> Job]
      <4>1. DOMAIN js = 1 .. m /\ js = [k \in 1 .. m |-> js[k]]
        BY <3>7
      <4>2. ASSUME NEW k \in 1 .. m PROVE js[k] \in Job
        <5>1. b[k] \in Webhook
          BY <3>5, ElementOfSeq
        <5>2. <<x, b[k]>> \in Job
          BY <5>1 DEF Job
        <5> QED BY <3>8, <5>2
      <4> QED BY <4>1, <4>2, Zenon
    <3>10. /\ ToSet(b) \in SUBSET T
           /\ js \in Seq(Job) /\ Len(js) = m /\ \A i, k \in 1 .. m : js[i] = js[k] => i = k
           /\ \A k \in 1 .. m : \E h \in ToSet(b) : js[k] = <<x, h>>
           /\ \A h \in ToSet(b) : \E k \in 1 .. m : js[k] = <<x, h>>
      <4>1. DOMAIN b = 1 .. m /\ \A i \in 1 .. m : b[i] \in T
        BY <3>5, LenProperties, ElementOfSeq
      <4>2. js \in Seq(Job)
        <5>1. Seq(Job) = UNION {[1 .. k -> Job] : k \in Nat}
          BY SeqDef
        <5> QED BY <3>9, <5>1, Zenon
      <4>3. Len(js) \in Nat /\ DOMAIN js = 1 .. Len(js)
        BY <4>2, LenProperties, Zenon
      <4>4. Len(js) = m
        BY <3>9, <4>3
      <4>5. \A h : h \in ToSet(b) <=> \E k \in 1 .. m : h = b[k]
        BY <4>1 DEF ToSet
      <4>6. ToSet(b) \in SUBSET T
        BY <4>1, <4>5
      <4>7. ASSUME NEW i \in 1 .. m, NEW k \in 1 .. m, js[i] = js[k] PROVE i = k
        <5>1. <<x, b[i]>> = <<x, b[k]>>
          BY <3>8, <4>7, Zenon
        <5>2. b[i] = b[k]
          BY <5>1, SecondOfPair, Zenon
        <5> QED BY <3>5, <5>2
      <4>8. \A k \in 1 .. m : \E h \in ToSet(b) : js[k] = <<x, h>>
        BY <3>8, <4>5
      <4>9. \A h \in ToSet(b) : \E k \in 1 .. m : js[k] = <<x, h>>
        BY <3>8, <4>5
      <4>10. \A i, k \in 1 .. m : js[i] = js[k] => i = k
        BY <4>7
      <4> QED BY <4>2, <4>4, <4>6, <4>8, <4>9, <4>10, Zenon
    <3>11. ToSet(slice) \in SUBSET task[x].targets
      BY <3>1, <3>6, <3>10, Zenon
    <3>12. js \in Seq(Job) /\ \A i, k \in 1 .. Len(js) : js[i] = js[k] => i = k
      BY <3>10, Zenon
    <3>13. \A k \in 1 .. Len(js) : \E h \in ToSet(slice) : js[k] = <<x, h>>
      BY <3>6, <3>10, Zenon
    <3>14. \A h \in ToSet(slice) : \E k \in 1 .. Len(js) : js[k] = <<x, h>>
      BY <3>6, <3>10, Zenon
    <3> QED BY <3>11, <3>12, <3>13, <3>14, Zenon
  <2>2. PICK B : B = ToSet(slice) /\ B \in SUBSET task[x].targets /\ B \in SUBSET Webhook
    BY <2>1, FanOutNow DEF TaskState
  <2>3. \A k \in 1 .. Len(js) : job[js[k]] = "none"
    BY <1>0, <2>1, <2>2
  <2>4. /\ SemaphoreInv'
        /\ \A k \in 1 .. Len(js) : job'[js[k]] \in {"claim", "waiting"}
        /\ \A i \in Job : (\A k \in 1 .. Len(js) : js[k] # i) => job'[i] = job[i]
    BY <1>3, <2>1, <2>3, FanOutNow, AcquireSemaphore
  <2>5. \A h \in B : job'[<<x, h>>] \in {"claim", "waiting"}
    BY <2>1, <2>2, <2>4
  <2>6. ASSUME NEW y \in Dispatch, NEW h \in Webhook, y # x \/ h \notin B
        PROVE  job'[<<y, h>>] = job[<<y, h>>]
    <3>1. \A k \in 1 .. Len(js) : js[k] # <<y, h>>
      BY <2>1, <2>2, <2>6
    <3> QED BY <2>4, <3>1, FanOutNow
  <2> DEFINE new == [task[x] EXCEPT !.targets = task[x].targets \ B]
  <2>7. task' = [task EXCEPT ![x] = new]
    BY <1>3, <2>2
  <2>8. /\ new \in TaskState /\ new.pc = "batch" /\ new.event = e /\ new.targets = task[x].targets \ B
    BY <1>0, <1>1, FanOutNow DEF TaskState
  <2> HIDE DEF new
  <2>9. /\ task' \in [Dispatch -> TaskState] /\ task'[x] = new
        /\ \A y \in Dispatch : y # x => task'[y] = task[y]
    BY <2>7, <2>8, FanOutNow DEF FanOutType
  <2>10. \A y \in Dispatch : /\ task'[y].pc = task[y].pc /\ task'[y].event = task[y].event
                             /\ (Live(y)' <=> Live(y))
    BY <1>0, <1>1, <2>8, <2>9 DEF Live
  <2>11. RegistryType' /\ PromisesType' /\ FanOutType' /\ Apart'
    <3>1. RegistryType' /\ PromisesType'
      BY <1>0, FanOutNow DEF RegistryType, PromisesType, RequestOk, registry, records
    <3>2. \A y \in Dispatch : TaskHasEvent(y)'
      BY <2>10, FanOutNow DEF TaskHasEvent
    <3>3. FanOutType'
      BY <1>0, <2>9, <3>2, FanOutNow DEF FanOutType
    <3> QED BY <2>10, <3>1, <3>3, FanOutNow DEF Apart
  <2>12. /\ \A f \in EventId : EventOk(f)'
         /\ \A y \in Dispatch : ClaimOk(y)'
         /\ \A k \in Webhook \X EventId : KeyOk(k)'
    BY <1>0, <2>10, FanOutNow DEF EventOk, ClaimOk, KeyOk
  <2>13. ASSUME NEW y \in Dispatch, NEW h \in Webhook PROVE PairOk(y, h)'
    <3>0. PairOk(y, h)
      BY FanOutNow
    <3>1. CASE y # x
      BY <1>0, <2>6, <2>9, <3>0, <3>1 DEF PairOk
    <3>2. CASE y = x /\ h \in B
      BY <1>0, <1>1, <2>2, <2>5, <2>8, <2>9, <3>0, <3>2 DEF PairOk, Early
    <3>3. CASE y = x /\ h \notin B
      <4>1. job'[<<x, h>>] = "none"
        BY <1>0, <2>6, <3>3
      <4> QED BY <1>0, <1>1, <2>8, <2>9, <3>0, <3>3, <4>1 DEF PairOk, Early
    <3> QED BY <3>1, <3>2, <3>3
  <2>14. ASSUME NEW y \in Dispatch, NEW h \in Webhook, h \in owed'[y] PROVE OwedOk(y, h)'
    <3>0. OwedOk(y, h) /\ UNCHANGED <<webhook, eventIndex, created>>
      BY <1>0, <2>14, FanOutNow DEF registry
    <3>1. CASE y # x
      BY <2>6, <2>9, <3>0, <3>1 DEF OwedOk
    <3>2. CASE y = x /\ h \in B
      BY <2>5, <2>8, <2>9, <3>0, <3>2 DEF OwedOk
    <3>3. CASE y = x /\ h \notin B
      <4>1. job'[<<x, h>>] = "none" /\ job[<<x, h>>] = "none"
        BY <1>0, <2>6, <3>3
      <4> QED BY <1>0, <1>1, <2>8, <2>9, <3>0, <3>3, <4>1 DEF OwedOk
    <3> QED BY <3>1, <3>2, <3>3
  <2> QED BY <2>4, <2>11, <2>12, <2>13, <2>14 DEF FanOutInv
<1> QED BY <1>2, <1>3 DEF NextBatch

LEMMA NoneHeld ==
  ASSUME job' = [j \in Job |-> "none"], current' = 0, queue' = <<>>
  PROVE  SemaphoreInv'
<1>1. JobsType' /\ \A j \in Job : job'[j] = "none"
  BY DEF JobsType, JobPlaces
<1>2. Holding' = {}
  BY <1>1 DEF Holding
<1>3. IsFiniteSet(Holding') /\ Cardinality(Holding') = 0
  BY <1>2, FS_EmptySet
<1> QED BY <1>1, <1>3, DispatchConfig DEF SemaphoreInv

LEMMA ProcessDiesKeeps == ASSUME FanOutInv, ProcessDies PROVE FanOutInv'
<1>0. /\ UNCHANGED <<registry, keys, records, claimed, delivered, sequences, created>>
      /\ Fault /\ \A j \in Job : job'[j] = "none"
  BY DEF ProcessDies, keys, fanOut
<1>1. SemaphoreInv'
  BY NoneHeld DEF ProcessDies
<1>2. PromisesType' /\ \A x \in Dispatch : owed'[x] = {}
  BY <1>0, FanOutNow, FaultShrinks
<1>3. RegistryType'
  BY <1>0, FanOutNow DEF RegistryType, RequestOk, registry, records
<1>4. ASSUME NEW x \in Dispatch
      PROVE  /\ task'[x] \in TaskState /\ task'[x].pc \in {"new", "done"} /\ TaskHasEvent(x)'
  <2>1. CASE task[x].pc = "new"
    <3>1. task'[x] = task[x]
      BY <2>1 DEF ProcessDies
    <3> QED BY <2>1, <3>1, FanOutNow DEF TaskHasEvent
  <2>2. CASE task[x].pc # "new"
    <3>1. PICK e \in EventId : e = task[x].event
      BY <2>2, FanOutNow DEF TaskHasEvent
    <3>2. task'[x] = [NewTask EXCEPT !.pc = "done", !.event = e]
      BY <2>2, <3>1 DEF ProcessDies
    <3> QED BY <3>1, <3>2 DEF NewTask, TaskState, TaskPlaces, TaskHasEvent
  <2> QED BY <2>1, <2>2
<1>5. task' \in [Dispatch -> TaskState]
  <2>1. task' = [x \in Dispatch |-> task'[x]]
    BY DEF ProcessDies
  <2> QED BY <1>4, <2>1
<1>6. FanOutType'
  BY <1>0, <1>4, <1>5, FanOutNow DEF FanOutType
<1>7. Apart' /\ \A x \in Dispatch : ClaimOk(x)'
  BY <1>2, <1>4 DEF Apart, ClaimOk, Live, Early
<1>8. (\A e \in EventId : EventOk(e)') /\ \A k \in Webhook \X EventId : KeyOk(k)'
  BY <1>0, FanOutNow DEF EventOk, KeyOk
<1>9. ASSUME NEW x \in Dispatch, NEW h \in Webhook PROVE PairOk(x, h)'
  <2>1. job'[<<x, h>>] = "none" /\ task'[x].pc \in {"new", "done"}
    BY <1>0, <1>4, FanOutNow
  <2> QED BY <2>1 DEF PairOk, Early
<1> QED BY <1>1, <1>2, <1>3, <1>6, <1>7, <1>8, <1>9 DEF FanOutInv

LEMMA FanOutInitInv == DispatchInit => FanOutInv
<1> SUFFICES ASSUME DispatchInit PROVE FanOutInv
  OBVIOUS
<1>1. /\ NewTask \in TaskState /\ NewTask.pc = "new" /\ NewRequest \in RequestState /\ NewRequest.pc = "new"
      /\ Absent \in WebhookState
  BY DEF NewTask, TaskState, TaskPlaces, NewRequest, RequestState, RequestPlaces, WebhookState, Absent
<1>2. [exists : {TRUE}, sub : Subscription, active : {TRUE}] \subseteq WebhookState
  BY DispatchConfig DEF WebhookState
<1>3. /\ \A x \in Dispatch : task[x] = NewTask /\ owed[x] = {}
      /\ \A r \in Request : request[r] = NewRequest
      /\ \A j \in Job : job[j] = "none"
      /\ claimed = {} /\ delivered = {} /\ (\A e \in EventId : sequences[e] = 0)
      /\ \A k \in Webhook \X EventId : created[k] = 0
  BY DEF DispatchInit
<1>4. RegistryType
  <2>1. webhook \in [Webhook -> WebhookState]
    <3> HIDE DEF Absent
    <3> QED BY <1>1, <1>2 DEF DispatchInit
  <2>2. request \in [Request -> RequestState] /\ \A r \in Request : RequestOk(r)
    <3> HIDE DEF NewRequest
    <3> QED BY <1>1, <1>3 DEF DispatchInit, RequestOk
  <2> QED BY <2>1, <2>2 DEF DispatchInit, RegistryType
<1>5. FanOutType
  <2>1. task \in [Dispatch -> TaskState] /\ \A x \in Dispatch : TaskHasEvent(x)
    <3> HIDE DEF NewTask
    <3> QED BY <1>1, <1>3 DEF DispatchInit, TaskHasEvent
  <2> QED BY <2>1 DEF DispatchInit, FanOutType
<1>6. PromisesType
  BY DEF DispatchInit, PromisesType
<1>7. SemaphoreInv
  <2>1. JobsType
    BY DEF DispatchInit, JobsType, JobPlaces
  <2>2. Holding = {}
    BY <1>3 DEF Holding
  <2>3. IsFiniteSet(Holding) /\ Cardinality(Holding) = 0
    BY <2>2, FS_EmptySet
  <2> QED BY <1>3, <2>1, <2>3, DispatchConfig DEF DispatchInit, SemaphoreInv
<1>8. /\ \A e \in EventId : EventOk(e)
      /\ \A k \in Webhook \X EventId : KeyOk(k)
  BY <1>3 DEF EventOk, KeyOk
<1>9. Apart /\ \A x \in Dispatch : ClaimOk(x)
  BY <1>1, <1>3 DEF Apart, ClaimOk, Live, Early
<1>10. ASSUME NEW x \in Dispatch, NEW h \in Webhook PROVE PairOk(x, h)
  <2>1. job[<<x, h>>] = "none" /\ task[x].pc = "new"
    BY <1>1, <1>3 DEF Job
  <2> QED BY <2>1 DEF PairOk, Early
<1> QED BY <1>3, <1>4, <1>5, <1>6, <1>7, <1>8, <1>9, <1>10 DEF FanOutInv

LEMMA FanOutStepInv == ASSUME FanOutInv, [DispatchNext]_dispatchVars PROVE FanOutInv'
<1>1. CASE UNCHANGED dispatchVars
  <2>1. PromisesType' /\ request' \in [Request -> RequestState] /\ \A q \in Request : RequestOk(q)'
    BY <1>1, FanOutNow DEF dispatchVars, registry, PromisesType, RegistryType, RequestOk
  <2> QED BY <1>1, <2>1, RequestOnly DEF dispatchVars, registry, records
<1>2. ASSUME NEW x \in Dispatch, TaskStep(x) PROVE FanOutInv'
  BY <1>2, ListIndexKeeps, LoadTargetsKeeps, DrawSequenceKeeps, NextBatchKeeps DEF TaskStep
<1>3. ASSUME NEW j \in Job, JobStep(j) PROVE FanOutInv'
  <2>1. PICK x \in Dispatch, h \in Webhook : j = <<x, h>>
    BY DEF Job
  <2> QED BY <1>3, <2>1, ClaimDeliveryKeeps, FindWebhookKeeps, CreateDeliveryKeeps, AttemptKeeps DEF JobStep
<1> QED BY <1>1, <1>2, <1>3, RequestKeeps, ClaimEventKeeps, ProcessDiesKeeps DEF DispatchNext

\* However many dispatches, webhooks and requests there are: an event draws one
\* sequence number, no webhook gets two deliveries of it, and a webhook that was
\* subscribed throughout has its delivery when the dispatch ends, unless a command
\* or the process failed.
THEOREM FanOutsExact == DispatchSpec => []FanOutExact
<1>1. FanOutInv => FanOutExact
  <2> SUFFICES ASSUME FanOutInv PROVE FanOutExact
    OBVIOUS
  <2>1. EventFannedOutOnce
    BY FanOutNow DEF EventOk, KeyOk, EventFannedOutOnce
  <2>2. SubscribersServed
    <3> SUFFICES ASSUME NEW x \in Dispatch, task[x].pc = "done", NEW h \in owed[x]
                 PROVE  created[<<h, task[x].event>>] = 1
      BY DEF SubscribersServed
    <3>1. h \in Webhook
      BY FanOutNow DEF PromisesType
    <3> QED BY <3>1, FanOutNow DEF OwedOk
  <2> QED BY <2>1, <2>2 DEF FanOutExact
<1>2. FanOutInv /\ [DispatchNext]_dispatchVars => FanOutInv'
  BY FanOutStepInv
<1> QED BY FanOutInitInv, <1>1, <1>2, PTL DEF DispatchSpec

\* The semaphore counts exactly the jobs that hold a permit, its queue is the
\* waiting jobs, each once, and nobody waits while a permit is free, through jobs
\* that fail, hand-offs and the death of the process.
THEOREM PermitsConserved == DispatchSpec => []SemaphoreExact
<1>1. FanOutInv => SemaphoreExact
  <2> SUFFICES ASSUME FanOutInv PROVE SemaphoreExact
    OBVIOUS
  <2>1. queue \in Seq(Job) /\ SemaphoreInv
    BY FanOutNow DEF SemaphoreInv, JobsType
  <2>2. \A j : j \in ToSet(queue) <=> j \in Waiting
    BY <2>1 DEF SemaphoreInv, ToSet, Waiting
  <2>3. IsInjective(queue)
    BY <2>1 DEF SemaphoreInv, IsInjective
  <2>4. ToSet(queue) = Waiting
    <3> HIDE DEF Waiting
    <3> QED BY <2>2
  <2> QED BY <2>1, <2>3, <2>4 DEF SemaphoreInv, SemaphoreExact
<1>2. FanOutInv /\ [DispatchNext]_dispatchVars => FanOutInv'
  BY FanOutStepInv
<1> QED BY FanOutInitInv, <1>1, <1>2, PTL DEF DispatchSpec

\* Permits are conserved, and no dispatch waits for ever: it can go on, or one of its
\* jobs can, or one of them waits for a permit that somebody holds.
THEOREM DispatchesGoOn == DispatchSpec => []DispatchesFlow
<1>1. ASSUME FanOutInv, SemaphoreExact PROVE NobodyStuck
  <2> SUFFICES ASSUME NEW x \in Dispatch, task[x].pc \notin {"new", "done"}, ~TaskReady(x),
                      \A h \in Webhook : <<x, h>> \notin Holding
               PROVE  Holding # {} /\ \E h \in Webhook : <<x, h>> \in Waiting
    BY DEF NobodyStuck
  <2>1. task[x].pc = "batch"
    BY <1>1, FanOutNow DEF TaskReady, TaskState, TaskPlaces
  <2>2. PICK h \in Webhook : job[<<x, h>>] # "none"
    BY <2>1 DEF TaskReady
  <2>3. <<x, h>> \in Job /\ job[<<x, h>>] \in JobPlaces
    BY <1>1, FanOutNow
  <2>4. <<x, h>> \in Waiting
    BY <2>2, <2>3 DEF Holding, Waiting, JobPlaces
  <2>5. PICK i \in 1 .. Len(queue) : queue[i] = <<x, h>>
    BY <1>1, <2>3, <2>4, FanOutNow DEF SemaphoreInv, Waiting
  <2>6. queue \in Seq(Job) /\ queue # <<>>
    BY <1>1, <2>5, FanOutNow DEF SemaphoreInv, JobsType
  <2>7. Cardinality(Holding) = MaxInFlight /\ MaxInFlight # 0
    BY <1>1, <2>6, DispatchConfig DEF SemaphoreExact
  <2>8. Holding # {}
    BY <2>7, FS_EmptySet
  <2> QED BY <2>4, <2>8
<1>2. FanOutInv /\ [DispatchNext]_dispatchVars => FanOutInv'
  BY FanOutStepInv
<1>3. FanOutInv /\ SemaphoreExact => DispatchesFlow
  BY <1>1 DEF DispatchesFlow
<1> QED BY FanOutInitInv, PermitsConserved, <1>2, <1>3, PTL DEF DispatchSpec

=============================================================================
