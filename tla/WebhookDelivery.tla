-------------------------- MODULE WebhookDelivery --------------------------
(***************************************************************************)
(* The life of a webhook delivery from its record's creation to a terminal *)
(* status: attempt() of services/webhookDispatcher.js, the delivery        *)
(* repository (repositories/deliveryRepository.js) and the retry worker    *)
(* (jobs/webhookRetryWorker.js), on several replicas sharing one Redis.    *)
(*                                                                         *)
(* Every await of attempt() and of update() is a step boundary: replicas,  *)
(* dispatches and retries interleave there, a Redis command may fail       *)
(* there, and the process may die there.  Delivery ids are numbered in the *)
(* order of their index entries (created_at, then id), which need not be   *)
(* the order their records are stored in; a record is its status and its   *)
(* attempts.  Which webhook a delivery is for matters to its index, and to *)
(* the lookup, which finds the webhook active or not.                      *)
(*                                                                         *)
(* Timing assumption: a retry comes due only after the attempt that        *)
(* scheduled it has finished recording itself.  The shortest delay is      *)
(* retryBaseMs / 2 = 15 s; what is left of the attempt is two Redis        *)
(* commands of at most 3 s (cache.js COMMAND_TIMEOUT_MS), the first behind *)
(* at most 5 s of waiting for a slot of cache.js's semaphore.              *)
(***************************************************************************)
EXTENDS Naturals, FiniteSets

CONSTANTS
  Instance,        \* replicas; each runs one retry worker
  Delivery,        \* delivery ids (dlv_...), numbered oldest first
  WebhookOf,       \* the webhook each delivery is for
  None,            \* no replica, no delivery
  MaxAttempts,     \* config.webhooks.maxAttempts
  RetryBatchSize,  \* config.webhooks.retryBatchSize
  RecentDeliveries,  \* RECENT_DELIVERIES_LIMIT
  MaxCrashes,      \* bound on process deaths
  MaxRedisErrors   \* bound on failed Redis commands

ASSUME DeliveryConfig ==
  /\ Instance \cap Delivery = {}
  /\ None \notin Instance \cup Delivery
  /\ Delivery \subseteq Nat
  /\ MaxAttempts \in Nat \ {0}
  /\ RetryBatchSize \in Nat \ {0}
  /\ RecentDeliveries \in Nat \ {0}
  /\ MaxCrashes \in Nat
  /\ MaxRedisErrors \in Nat

\* Who runs attempt(): the retry worker of a replica, or the dispatch that
\* created the delivery (one task per delivery).
Agent == Instance \cup Delivery

VARIABLES
  record,      \* webhook_delivery:<id>, status "none" before create()
  index,       \* the per-status indexes that list each delivery
  retries,     \* ZSET webhooks:retries
  deadLetter,  \* entries of each delivery in webhook:dead_letter
  owner,       \* the replica running each delivery's dispatch task
  batch,       \* ids a worker's tick has popped and not begun
  at,          \* each agent's place in attempt()
  posts,       \* history: HTTP requests made for each delivery
  accepted,    \* history: how many of them were answered 2xx
  crashes, redisErrors

vars == <<record, index, retries, deadLetter, owner, batch, at, posts, accepted,
          crashes, redisErrors>>

history == <<posts, accepted>>
faults == <<crashes, redisErrors>>

Statuses == {"none", "pending", "success", "failed"}

Steps == {"idle", "payload", "find", "webhook", "post", "schedule", "deadLetter",
          "read", "write"}

\* pc: the await the agent stands at.  snapshot: the attempts findById read.
\* status, attempts: the patch for update(), attempts 0 when the patch leaves
\* them out.  existing: what update() read before writing.
NoRecord == [status |-> "none", attempts |-> 0]

Idle == [pc |-> "idle", id |-> None, snapshot |-> 0, status |-> "none",
         attempts |-> 0, existing |-> NoRecord]

Begin(d, pc) == [Idle EXCEPT !.pc = pc, !.id = d]

\* Agent a is inside attempt() (or its dispatch) for delivery d.
Busy(a, d) == at[a].id = d

Init ==
  /\ record = [d \in Delivery |-> NoRecord]
  /\ index = [d \in Delivery |-> {}]
  /\ retries = {}
  /\ deadLetter = [d \in Delivery |-> 0]
  /\ owner = [d \in Delivery |-> None]
  /\ batch = [i \in Instance |-> {}]
  /\ at = [a \in Agent |-> Idle]
  /\ posts = [d \in Delivery |-> 0]
  /\ accepted = [d \in Delivery |-> 0]
  /\ crashes = 0
  /\ redisErrors = 0

\* A Redis command rejects: the attempt throws and its caller only logs.
RedisError ==
  /\ redisErrors < MaxRedisErrors
  /\ redisErrors' = redisErrors + 1
  /\ UNCHANGED crashes

Goto(a, pc) == at' = [at EXCEPT ![a].pc = pc]

Return(a) == at' = [at EXCEPT ![a] = Idle]

\* Leaves attempt() with a patch to hand to update().
Patch(a, status, attempts) ==
  at' = [at EXCEPT ![a].pc = "read", ![a].status = status, ![a].attempts = attempts]

-----------------------------------------------------------------------------
(* queueIndexWrite *)

AtLeast(n, S) == \E T \in SUBSET S : IsFiniteSet(T) /\ Cardinality(T) = n

SameWebhook(d, e) == WebhookOf[d] = WebhookOf[e]

\* ZADD to the webhook's index of that status, then ZREMRANGEBYRANK, which
\* keeps the newest RECENT_DELIVERIES_LIMIT members: d itself may be too old.
queueIndexWrite(listed, d, status) ==
  LET members == {e \in Delivery : SameWebhook(d, e) /\ (e = d \/ status \in listed[e])}
      evicted == {e \in members : AtLeast(RecentDeliveries, {f \in members : f > e})}
  IN [e \in Delivery |-> IF e \in evicted THEN listed[e] \ {status}
                         ELSE IF e = d THEN listed[e] \cup {status} ELSE listed[e]]

-----------------------------------------------------------------------------
(* dispatch: create(), the payload update(), then attempt() *)

\* A MULTI that rejects may still have been executed.
Create(d, i) ==
  /\ record[d].status = "none"
  /\ record' = [record EXCEPT ![d] = [status |-> "pending", attempts |-> 0]]
  /\ index' = queueIndexWrite(index, d, "pending")
  /\ owner' = [owner EXCEPT ![d] = i]
  /\ \/ at' = [at EXCEPT ![d] = Begin(d, "payload")] /\ UNCHANGED faults
     \/ RedisError /\ UNCHANGED at
  /\ UNCHANGED <<retries, deadLetter, batch, history>>

SavePayload_NoAttempt(d) ==
  /\ at[d].pc = "payload"
  /\ Return(d)
  /\ UNCHANGED <<record, index, retries, deadLetter, owner, batch, history, faults>>

\* update(id, {payload, sequence}) changes neither status nor attempts.
SavePayload(d) ==
  /\ at[d].pc = "payload"
  /\ \/ Goto(d, "find") /\ UNCHANGED faults
     \/ Return(d) /\ RedisError
  /\ UNCHANGED <<record, index, retries, deadLetter, owner, batch, history>>

-----------------------------------------------------------------------------
(* webhookRetryWorker.tick() *)

\* A scheduled retry whose time may have come (see the timing assumption).
Due(d) == d \in retries /\ \A a \in Agent : ~Busy(a, d)

\* popDueRetries: one atomic ZRANGEBYSCORE + ZREM, by a worker whose previous
\* tick has ended (`running`).  The reply may be lost after Redis popped.
PopDueRetries_NotRemoved(i, ids) ==
  /\ at[i].pc = "idle" /\ batch[i] = {}
  /\ ids # {} /\ Cardinality(ids) <= RetryBatchSize
  /\ \A d \in ids : Due(d)
  /\ batch' = [batch EXCEPT ![i] = ids]
  /\ UNCHANGED <<record, index, retries, deadLetter, owner, at, history, faults>>

PopDueRetries(i, ids) ==
  /\ at[i].pc = "idle" /\ batch[i] = {}
  /\ ids # {} /\ Cardinality(ids) <= RetryBatchSize
  /\ \A d \in ids : Due(d)
  /\ retries' = retries \ ids
  /\ \/ batch' = [batch EXCEPT ![i] = ids] /\ UNCHANGED faults
     \/ RedisError /\ UNCHANGED batch
  /\ UNCHANGED <<record, index, deadLetter, owner, at, history>>

\* The tick's loop: attempts run one after another, whatever they throw.
NextOfBatch(i, d) ==
  /\ at[i].pc = "idle" /\ d \in batch[i]
  /\ batch' = [batch EXCEPT ![i] = @ \ {d}]
  /\ at' = [at EXCEPT ![i] = Begin(d, "find")]
  /\ UNCHANGED <<record, index, retries, deadLetter, owner, history, faults>>

-----------------------------------------------------------------------------
(* attempt(), one action per await *)

\* findById: a Redis error reads as "missing" and drops the attempt.  The
\* trace id backfilled for a record that lacks one is not modelled.
FindById(a) ==
  /\ at[a].pc = "find"
  /\ \/ /\ IF record[at[a].id].status = "success" THEN Return(a)
           ELSE at' = [at EXCEPT ![a].pc = "webhook",
                                 ![a].snapshot = record[at[a].id].attempts]
        /\ UNCHANGED faults
     \/ Return(a) /\ RedisError
  /\ UNCHANGED <<record, index, retries, deadLetter, owner, batch, history>>

\* getWebhookForAttempt: active, or missing / inactive.  A Redis error reads
\* as "missing" here too.  The last case is an attempt that throws before its
\* POST, as when the stored secret does not decrypt and cannot sign.
GetWebhook(a) ==
  /\ at[a].pc = "webhook"
  /\ \/ Goto(a, "post") /\ UNCHANGED faults
     \/ Patch(a, "failed", 0) /\ UNCHANGED faults
     \/ Return(a) /\ RedisError
  /\ UNCHANGED <<record, index, retries, deadLetter, owner, batch, history>>

Outcome == {"2xx", "retryable", "permanent"}

\* postOnce() and the branch on its result (shouldRetry, hasAttemptsLeft).
Post_OffByOne(a, outcome) ==
  LET attempts == at[a].snapshot + 1 IN
  /\ at[a].pc = "post"
  /\ posts' = [posts EXCEPT ![at[a].id] = @ + 1]
  /\ accepted' = [accepted EXCEPT ![at[a].id] = IF outcome = "2xx" THEN @ + 1 ELSE @]
  /\ IF outcome = "2xx" THEN Patch(a, "success", attempts)
     ELSE at' = [at EXCEPT ![a].attempts = attempts,
            ![a].pc = IF outcome = "retryable" /\ attempts <= MaxAttempts
                        THEN "schedule" ELSE "deadLetter"]
  /\ UNCHANGED <<record, index, retries, deadLetter, owner, batch, faults>>

Post_IgnoresSuccess(a, outcome) ==
  LET attempts == at[a].snapshot + 1 IN
  /\ at[a].pc = "post"
  /\ posts' = [posts EXCEPT ![at[a].id] = @ + 1]
  /\ accepted' = [accepted EXCEPT ![at[a].id] = IF outcome = "2xx" THEN @ + 1 ELSE @]
  /\ at' = [at EXCEPT ![a].attempts = attempts,
       ![a].pc = IF outcome # "permanent" /\ attempts < MaxAttempts
                   THEN "schedule" ELSE "deadLetter"]
  /\ UNCHANGED <<record, index, retries, deadLetter, owner, batch, faults>>

Post_PermanentIsSuccess(a, outcome) ==
  LET attempts == at[a].snapshot + 1 IN
  /\ at[a].pc = "post"
  /\ posts' = [posts EXCEPT ![at[a].id] = @ + 1]
  /\ accepted' = [accepted EXCEPT ![at[a].id] = IF outcome = "2xx" THEN @ + 1 ELSE @]
  /\ IF outcome # "retryable" THEN Patch(a, "success", attempts)
     ELSE at' = [at EXCEPT ![a].attempts = attempts,
            ![a].pc = IF attempts < MaxAttempts THEN "schedule" ELSE "deadLetter"]
  /\ UNCHANGED <<record, index, retries, deadLetter, owner, batch, faults>>

Post(a, outcome) ==
  LET attempts == at[a].snapshot + 1 IN
  /\ at[a].pc = "post"
  /\ posts' = [posts EXCEPT ![at[a].id] = @ + 1]
  /\ accepted' = [accepted EXCEPT ![at[a].id] = IF outcome = "2xx" THEN @ + 1 ELSE @]
  /\ IF outcome = "2xx" THEN Patch(a, "success", attempts)
     ELSE at' = [at EXCEPT ![a].attempts = attempts,
            ![a].pc = IF outcome = "retryable" /\ attempts < MaxAttempts
                        THEN "schedule" ELSE "deadLetter"]
  /\ UNCHANGED <<record, index, retries, deadLetter, owner, batch, faults>>

\* scheduleRetry comes before the record is updated.  A ZADD that rejects may
\* still have been executed.
ScheduleRetry(a) ==
  /\ at[a].pc = "schedule"
  /\ \/ /\ retries' = retries \cup {at[a].id}
        /\ Patch(a, "pending", at[a].attempts)
        /\ UNCHANGED faults
     \/ /\ retries' \in {retries, retries \cup {at[a].id}}
        /\ Return(a)
        /\ RedisError
  /\ UNCHANGED <<record, index, deadLetter, owner, batch, history>>

\* LPUSH + LTRIM; an error is caught and the attempt goes on.
DeadLetter(a) ==
  /\ at[a].pc = "deadLetter"
  /\ \/ /\ deadLetter' = [deadLetter EXCEPT ![at[a].id] = @ + 1]
        /\ (UNCHANGED faults \/ RedisError)
     \/ RedisError /\ UNCHANGED deadLetter
  /\ Patch(a, "failed", at[a].attempts)
  /\ UNCHANGED <<record, index, retries, owner, batch, history>>

\* update(), first half: cache.get.
UpdateRead(a) ==
  /\ at[a].pc = "read"
  /\ \/ /\ at' = [at EXCEPT ![a].pc = "write", ![a].existing = record[at[a].id]]
        /\ UNCHANGED faults
     \/ Return(a) /\ RedisError
  /\ UNCHANGED <<record, index, retries, deadLetter, owner, batch, history>>

\* update(), second half: one MULTI sets the record and moves the id between
\* status indexes when the patch changes the status that was read.
Merged(a) ==
  [status |-> at[a].status,
   attempts |-> IF at[a].attempts = 0 THEN at[a].existing.attempts ELSE at[a].attempts]

MoveIndex_KeepOld(a) == queueIndexWrite(index, at[a].id, at[a].status)

MoveIndex(a) ==
  LET d == at[a].id
      old == at[a].existing.status
      new == at[a].status
  IN IF new = old THEN index
     ELSE queueIndexWrite([index EXCEPT ![d] = @ \ {old}], d, new)

UpdateWrite_Requeues(a) ==
  LET d == at[a].id IN
  /\ at[a].pc = "write"
  /\ record' = [record EXCEPT ![d] = Merged(a)]
  /\ index' = MoveIndex(a)
  /\ retries' = IF at[a].status = "failed" THEN retries \cup {d} ELSE retries
  /\ Return(a)
  /\ UNCHANGED <<deadLetter, owner, batch, history, faults>>

UpdateWrite(a) ==
  LET d == at[a].id IN
  /\ at[a].pc = "write"
  /\ \/ /\ record' = [record EXCEPT ![d] = Merged(a)]
        /\ index' = MoveIndex(a)
        /\ (UNCHANGED faults \/ RedisError)
     \/ RedisError /\ UNCHANGED <<record, index>>
  /\ Return(a)
  /\ UNCHANGED <<retries, deadLetter, owner, batch, history>>

-----------------------------------------------------------------------------

\* A replica dies: its worker's batch, its worker's attempt and the dispatch
\* tasks it runs are gone; Redis keeps what they had written.  It restarts
\* with an idle worker.
Crash(i) ==
  /\ crashes < MaxCrashes
  /\ crashes' = crashes + 1
  /\ batch' = [batch EXCEPT ![i] = {}]
  /\ at' = [a \in Agent |-> IF a = i \/ (a \in Delivery /\ owner[a] = i)
                              THEN Idle ELSE at[a]]
  /\ UNCHANGED <<record, index, retries, deadLetter, owner, history, redisErrors>>

AgentStep(a) ==
  \/ FindById(a) \/ GetWebhook(a) \/ ScheduleRetry(a) \/ DeadLetter(a)
  \/ UpdateRead(a) \/ UpdateWrite(a)
  \/ \E outcome \in Outcome : Post(a, outcome)

Next ==
  \/ \E d \in Delivery, i \in Instance : Create(d, i)
  \/ \E d \in Delivery : SavePayload(d)
  \/ \E i \in Instance, ids \in SUBSET Delivery : PopDueRetries(i, ids)
  \/ \E i \in Instance, d \in Delivery : NextOfBatch(i, d)
  \/ \E a \in Agent : AgentStep(a)
  \/ \E i \in Instance : Crash(i)

Spec == Init /\ [][Next]_vars

\* Promises settle (every Redis command and POST has a timeout) and the
\* worker's interval keeps firing on some replica.
FairSpec ==
  /\ Spec
  /\ \A d \in Delivery : WF_vars(SavePayload(d))
  /\ \A a \in Agent : WF_vars(AgentStep(a))
  /\ \A i \in Instance : WF_vars(\E ids \in SUBSET Delivery : PopDueRetries(i, ids))
  /\ \A i \in Instance, d \in Delivery : WF_vars(NextOfBatch(i, d))

-----------------------------------------------------------------------------

RecordType == [status : Statuses, attempts : Nat]

AgentType == [pc : Steps, id : Delivery \cup {None}, snapshot : Nat, status : Statuses,
              attempts : Nat, existing : RecordType]

TypeOK ==
  /\ record \in [Delivery -> RecordType]
  /\ index \in [Delivery -> SUBSET Statuses]
  /\ retries \subseteq Delivery
  /\ deadLetter \in [Delivery -> Nat]
  /\ owner \in [Delivery -> Instance \cup {None}]
  /\ batch \in [Instance -> SUBSET Delivery]
  /\ at \in [Agent -> AgentType]
  /\ \A a \in Agent : (at[a].id = None) <=> (at[a].pc = "idle")
  /\ posts \in [Delivery -> Nat]
  /\ accepted \in [Delivery -> Nat]
  /\ crashes \in 0..MaxCrashes
  /\ redisErrors \in 0..MaxRedisErrors

\* The right to send a delivery exists at most once: in the retry queue, in
\* one worker's batch, or with one agent inside attempt().  The only overlap
\* is the attempt that put the id back and is still recording itself.  So a
\* delivery is never sent by two replicas at the same time.
ExclusiveAttempt ==
  \A d \in Delivery :
    /\ \A a, b \in Agent : Busy(a, d) /\ Busy(b, d) => a = b
    /\ \A i, j \in Instance : d \in batch[i] /\ d \in batch[j] => i = j
    /\ \A i \in Instance, a \in Agent : ~(d \in batch[i] /\ Busy(a, d))
    /\ d \in retries =>
         /\ \A i \in Instance : d \notin batch[i]
         /\ \A a \in Agent : Busy(a, d) =>
              at[a].pc \in {"read", "write"} /\ at[a].status = "pending"

\* Once a POST has come back 2xx the delivery is never sent again, not even
\* when the process dies or Redis fails before "success" is recorded.  (A 2xx
\* that arrives after the request timeout is a network error to the code.)
AcceptedOnce == \A d \in Delivery : accepted[d] <= 1

\* A delivery is POSTed at most maxAttempts times, plus once for each crash
\* or Redis error that kept an attempt from being counted.
AttemptsBounded ==
  \A d \in Delivery : posts[d] <= MaxAttempts + crashes + redisErrors

\* The per-status indexes never list a delivery under a status that is not its
\* stored one, and list each of a webhook's newest RECENT_DELIVERIES_LIMIT
\* deliveries under the stored one, at every instant, whatever moves, evictions
\* and late index writes of older deliveries came before.
StatusIndexExact ==
  \A d \in Delivery :
    /\ index[d] \subseteq {record[d].status} \ {"none"}
    /\ record[d].status # "none" /\ index[d] = {} =>
         AtLeast(RecentDeliveries,
                 {e \in Delivery : SameWebhook(d, e) /\ e > d /\ record[e].status # "none"})

\* Terminal statuses are final: no late write of a slow attempt, on this
\* replica or another, turns success or failed back into something else.
TerminalIsFinal ==
  [][\A d \in Delivery : record[d].status \in {"success", "failed"} =>
       record'[d] = record[d]]_vars

\* A pending delivery that has been attempted still has its retry: queued,
\* claimed by a worker, or under way.
RetrySurvives ==
  \A d \in Delivery : record[d].status = "pending" /\ record[d].attempts > 0 =>
    \/ d \in retries
    \/ \E i \in Instance : d \in batch[i]
    \/ \E a \in Agent : Busy(a, d)

Undisturbed == crashes + redisErrors = 0

\* Every delivery created reaches success or failed, unless a crash or a
\* failed Redis command strands it.
EventuallyTerminal ==
  \A d \in Delivery : record[d].status = "pending" ~>
                      record[d].status \in {"success", "failed"} \/ ~Undisturbed

\* The refinement mapping: who is attempting each delivery, and whether its
\* receiver has accepted it.
Promise == INSTANCE DeliveryPromise WITH
  status <- [d \in Delivery |-> record[d].status],
  sending <- [d \in Delivery |-> {a \in Agent : Busy(a, d)}],
  taken <- [d \in Delivery |-> accepted[d] > 0]

\* Queues, round trips, crashes and failed commands forgotten, attempt() and the
\* retry worker do what DeliveryPromise says: one sender at a time, never another
\* once accepted, and a final status that tells what really happened.
ImplementsPromise == Promise!Spec

=============================================================================
