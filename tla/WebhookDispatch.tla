--------------------------- MODULE WebhookDispatch ---------------------------
(***************************************************************************)
(* The fan-out of one event type to its subscribers: dispatch() and the    *)
(* in-flight semaphore of services/webhookDispatcher.js, over the webhook  *)
(* registry (repositories/webhookRepository.js), whose records and         *)
(* per-event index other replicas change at the same time.                 *)
(*                                                                         *)
(* The semaphore is one process's, so the dispatches are; the keys that    *)
(* make dispatching idempotent are in Redis and outlive the process.  A    *)
(* job is deliverWithLimit() for one dispatch and one webhook.  attempt()  *)
(* is one step here; WebhookDelivery is about what happens inside it.      *)
(* URLs, secrets, filters and descriptions are left out: a filter only     *)
(* takes a webhook out of the targets for good.  The keys' TTLs (90 days   *)
(* and one day) are longer than anything that happens here.                *)
(***************************************************************************)
EXTENDS Naturals, Sequences, FiniteSets, SequencesExt

CONSTANTS
  Webhook,       \* webhook ids
  Dispatch,      \* calls of dispatch()
  EventId,       \* event ids; two calls may carry the same one
  Request,       \* PATCH and DELETE requests
  Subscription,  \* a webhook's events, seen from this event type (see below)
  MaxInFlight,   \* WEBHOOK_MAX_IN_FLIGHT
  BatchSize,     \* WEBHOOK_DISPATCH_CONCURRENCY
  Unset,         \* a field the PATCH body leaves out, no event
  MaxFaults      \* bound: failed Redis commands and process deaths

\* "event": the list names this event type.  "other": it does not.  "*": the
\* wildcard, stored as the list ["*"].
ASSUME DispatchConfig ==
  /\ IsFiniteSet(Webhook)
  /\ Subscription \subseteq {"event", "other", "*"}
  /\ MaxInFlight \in Nat \ {0}
  /\ BatchSize \in Nat \ {0}
  /\ MaxFaults \in Nat
  /\ Unset \notin EventId

Job == Dispatch \X Webhook

VARIABLES
  webhook,    \* webhook:<id>
  eventIndex, \* the set webhooks:event:<this event type>
  request,    \* each request's place in update() or remove()
  claimed,    \* keys webhook:dispatched:<event>
  delivered,  \* keys webhook:delivered:<webhook>:<event>
  stored,     \* keys webhook_delivery:<delivery>, by webhook and event
  listed,     \* the entries of webhook:<id>:deliveries
  task,       \* each dispatch()'s place
  job,        \* each job's place
  current,    \* Semaphore.current
  queue,      \* Semaphore.queue
  ordered,    \* WEBHOOK_ORDERED_DELIVERY, read once
  sequences,  \* history: sequence numbers drawn for each event
  created,    \* history: deliveries created for each webhook and event
  owed,       \* history: webhooks subscribed throughout each dispatch
  dispatchFaults

registry == <<webhook, eventIndex, request>>
keys == <<claimed, delivered>>
records == <<stored, listed>>
semaphore == <<current, queue>>
fanOut == <<sequences, created>>
dispatchVars == <<registry, keys, records, task, job, semaphore, ordered, fanOut, owed, dispatchFaults>>

\* No record: the id is yet to be generated, or its webhook was removed.
Absent == [exists |-> FALSE, sub |-> "unused", active |-> FALSE]
Removed == [exists |-> FALSE, sub |-> "removed", active |-> FALSE]
Records == [exists : {TRUE}, sub : Subscription, active : BOOLEAN]

NewRequest == [pc |-> "new", id |-> Unset, read |-> Absent, next |-> Absent,
               listed |-> {}]
NewTask == [pc |-> "new", event |-> Unset, ids |-> {}, targets |-> {}]

\* The webhooks that this event type's index lists after create().
DispatchInit ==
  /\ webhook \in [Webhook -> {Absent} \cup [exists : {TRUE}, sub : Subscription,
                                            active : {TRUE}]]
  /\ eventIndex = {h \in Webhook : webhook[h].exists /\ webhook[h].sub = "event"}
  /\ request = [r \in Request |-> NewRequest]
  /\ claimed = {} /\ delivered = {} /\ stored = {} /\ listed = {}
  /\ task = [x \in Dispatch |-> NewTask]
  /\ job = [j \in Job |-> "none"]
  /\ current = 0 /\ queue = <<>>
  /\ ordered \in BOOLEAN
  /\ sequences = [e \in EventId |-> 0]
  /\ created = [k \in Webhook \X EventId |-> 0]
  /\ owed = [x \in Dispatch |-> {}]
  /\ dispatchFaults = 0

\* A command rejects; Redis may have executed it or not.  Nothing is
\* promised to anybody any more.
Fault ==
  /\ dispatchFaults < MaxFaults
  /\ dispatchFaults' = dispatchFaults + 1
  /\ owed' = [x \in Dispatch |-> {}]

NoFault == UNCHANGED <<dispatchFaults, owed>>

\* A change to h ends the claim "subscribed throughout" of every dispatch.
Disowe(h) == owed' = [x \in Dispatch |-> owed[x] \ {h}]

-----------------------------------------------------------------------------
(* webhookRepository, on any replica *)

Close(r) == request' = [request EXCEPT ![r] = [NewRequest EXCEPT !.pc = "done"]]

\* create(): one MULTI, under an id generated for it.
CreateWebhook(r, h, sub) ==
  /\ request[r].pc = "new"
  /\ webhook[h] = Absent
  /\ webhook' = [webhook EXCEPT ![h] = [exists |-> TRUE, sub |-> sub, active |-> TRUE]]
  /\ eventIndex' = IF sub = "event" THEN eventIndex \cup {h} ELSE eventIndex
  /\ Close(r)
  /\ UNCHANGED <<keys, records, task, job, semaphore, ordered, fanOut, owed, dispatchFaults>>

\* update(): cache.get, and the record to write.
UpdateGet(r, h, sub, active) ==
  /\ request[r].pc = "new"
  /\ IF ~webhook[h].exists THEN Close(r)
     ELSE request' = [request EXCEPT ![r] =
            [NewRequest EXCEPT
               !.pc = IF sub = Unset THEN "set" ELSE "srem", !.id = h, !.read = webhook[h],
               !.next = [webhook[h] EXCEPT !.sub = IF sub = Unset THEN @ ELSE sub,
                                           !.active = IF active = Unset THEN @ ELSE active]]]
  /\ UNCHANGED <<webhook, eventIndex, keys, records, task, job, semaphore, ordered, fanOut,
                 owed, dispatchFaults>>

\* removeEventIndexes, then addEventIndexes: sent without await, executed one
\* by one.  One that rejects goes unnoticed by update() itself (the rejection
\* is unhandled, which begins a shutdown that may end in ProcessDies).
UpdateSrem(r) ==
  LET h == request[r].id IN
  /\ request[r].pc = "srem"
  /\ \/ /\ eventIndex' = IF request[r].read.sub = "event" THEN eventIndex \ {h} ELSE eventIndex
        /\ ((Disowe(h) /\ UNCHANGED dispatchFaults) \/ Fault)
     \/ Fault /\ UNCHANGED eventIndex
  /\ request' = [request EXCEPT ![r].pc = "sadd"]
  /\ UNCHANGED <<webhook, keys, records, task, job, semaphore, ordered, fanOut>>

UpdateSadd(r) ==
  LET h == request[r].id IN
  /\ request[r].pc = "sadd"
  /\ \/ /\ eventIndex' = IF request[r].next.sub = "event" THEN eventIndex \cup {h} ELSE eventIndex
        /\ ((Disowe(h) /\ UNCHANGED dispatchFaults) \/ Fault)
     \/ Fault /\ UNCHANGED eventIndex
  /\ request' = [request EXCEPT ![r].pc = "set"]
  /\ UNCHANGED <<webhook, keys, records, task, job, semaphore, ordered, fanOut>>

UpdateSet(r) ==
  /\ request[r].pc = "set"
  /\ \/ /\ webhook' = [webhook EXCEPT ![request[r].id] = request[r].next]
        /\ ((Disowe(request[r].id) /\ UNCHANGED dispatchFaults) \/ Fault)
     \/ Fault /\ UNCHANGED webhook
  /\ Close(r)
  /\ UNCHANGED <<eventIndex, keys, records, task, job, semaphore, ordered, fanOut>>

\* remove(): cache.get, ZRANGE of the deliveries, one MULTI.
RemoveGet(r, h) ==
  /\ request[r].pc = "new"
  /\ IF ~webhook[h].exists THEN Close(r)
     ELSE request' = [request EXCEPT ![r] =
            [NewRequest EXCEPT !.pc = "zrange", !.id = h, !.read = webhook[h]]]
  /\ UNCHANGED <<webhook, eventIndex, keys, records, task, job, semaphore, ordered, fanOut,
                 owed, dispatchFaults>>

RemoveZrange(r) ==
  /\ request[r].pc = "zrange"
  /\ \/ /\ request' = [request EXCEPT ![r].pc = "exec",
                         ![r].listed = {k \in listed : k[1] = request[r].id}]
        /\ NoFault
     \/ Close(r) /\ Fault
  /\ UNCHANGED <<webhook, eventIndex, keys, records, task, job, semaphore, ordered, fanOut>>

RemoveExec(r) ==
  LET h == request[r].id IN
  /\ request[r].pc = "exec"
  /\ \/ /\ webhook' = [webhook EXCEPT ![h] = Removed]
        /\ eventIndex' = IF request[r].read.sub = "event" THEN eventIndex \ {h} ELSE eventIndex
        /\ stored' = stored \ request[r].listed
        /\ listed' = {k \in listed : k[1] # h}
        /\ ((Disowe(h) /\ UNCHANGED dispatchFaults) \/ Fault)
     \/ Fault /\ UNCHANGED <<webhook, eventIndex, records>>
  /\ Close(r)
  /\ UNCHANGED <<keys, task, job, semaphore, ordered, fanOut>>

-----------------------------------------------------------------------------
(* dispatch() *)

End(x) == task' = [task EXCEPT ![x] = [NewTask EXCEPT !.pc = "done", !.event = task[x].event]]

\* Active, subscribed by name, and not being changed.
Subscribed ==
  {h \in eventIndex : /\ webhook[h].exists /\ webhook[h].active /\ webhook[h].sub = "event"
                 /\ \A r \in Request : request[r].id # h}

ClaimEvent_CheckThenSet(x, e) ==
  /\ task[x].pc = "new"
  /\ claimed' = claimed \cup {e}
  /\ task' = [task EXCEPT ![x] = [NewTask EXCEPT !.pc = "smembers", !.event = e]]
  /\ UNCHANGED <<registry, delivered, records, job, semaphore, ordered, fanOut, owed, dispatchFaults>>

\* SET webhook:dispatched:<event> NX, before anything else.
ClaimEvent(x, e) ==
  /\ task[x].pc = "new"
  /\ \/ /\ e \in claimed
        /\ task' = [task EXCEPT ![x] = [NewTask EXCEPT !.pc = "done", !.event = e]]
        /\ NoFault /\ UNCHANGED claimed
     \/ /\ e \notin claimed
        /\ claimed' = claimed \cup {e}
        /\ task' = [task EXCEPT ![x] = [NewTask EXCEPT !.pc = "smembers", !.event = e]]
        /\ owed' = [owed EXCEPT ![x] = Subscribed]
        /\ UNCHANGED dispatchFaults
     \/ /\ claimed' \in {claimed, claimed \cup {e}}
        /\ task' = [task EXCEPT ![x] = [NewTask EXCEPT !.pc = "done", !.event = e]]
        /\ Fault
  /\ UNCHANGED <<registry, delivered, records, job, semaphore, ordered, fanOut>>

\* listActiveForEvent: SMEMBERS, then MGET; an error reads as "no webhooks".
ListIndex(x) ==
  /\ task[x].pc = "smembers"
  /\ \/ /\ IF eventIndex = {} THEN End(x)
           ELSE task' = [task EXCEPT ![x].pc = "mget", ![x].ids = eventIndex]
        /\ NoFault
     \/ End(x) /\ Fault
  /\ UNCHANGED <<registry, keys, records, job, semaphore, ordered, fanOut>>

matchesSubscription(sub) == sub \in {"event", "*"}

Matching_FirstOnly(ids) ==
  LET ok == {h \in ids : webhook[h].exists /\ webhook[h].active /\ matchesSubscription(webhook[h].sub)}
  IN  IF ok = {} THEN {} ELSE {CHOOSE h \in ok : TRUE}

Matching(ids) ==
  {h \in ids : webhook[h].exists /\ webhook[h].active /\ matchesSubscription(webhook[h].sub)}

\* The records, then INCR seq:<resource> unless nobody is left.
LoadTargets(x) ==
  /\ task[x].pc = "mget"
  /\ \/ /\ IF Matching(task[x].ids) = {} THEN End(x)
           ELSE task' = [task EXCEPT ![x].pc = "incr", ![x].ids = {},
                                     ![x].targets = Matching(task[x].ids)]
        /\ NoFault
     \/ End(x) /\ Fault
  /\ UNCHANGED <<registry, keys, records, job, semaphore, ordered, fanOut>>

DrawSequence(x) ==
  /\ task[x].pc = "incr"
  /\ \/ /\ sequences' = [sequences EXCEPT ![task[x].event] = @ + 1]
        /\ task' = [task EXCEPT ![x].pc = "batch"]
        /\ NoFault
     \/ /\ End(x) /\ Fault
        /\ \E n \in 0..1 : sequences' = [sequences EXCEPT ![task[x].event] = @ + n]
  /\ UNCHANGED <<registry, keys, records, job, semaphore, ordered, created>>

-----------------------------------------------------------------------------
(* Semaphore *)

\* acquire() for every job of js, in order: permits while there are some,
\* then a place in the queue.
Acquire(js) ==
  LET free == MaxInFlight - current
      granted == IF Len(js) <= free THEN Len(js) ELSE free
  IN  /\ current' = current + granted
      /\ queue' = queue \o SubSeq(js, granted + 1, Len(js))
      /\ job' = [j \in Job |-> IF \E k \in 1..granted : js[k] = j THEN "claim"
                               ELSE IF \E k \in DOMAIN js : js[k] = j THEN "waiting"
                               ELSE job[j]]

\* release() as j leaves: the first waiter gets the permit, and goes on.
Release_GrantsTwice(j) ==
  IF queue = <<>> THEN /\ current' = current - 1
                       /\ job' = [job EXCEPT ![j] = "none"]
                       /\ UNCHANGED queue
  ELSE /\ current' = current - 1
       /\ queue' = Tail(queue)
       /\ job' = [job EXCEPT ![j] = "none", ![Head(queue)] = "claim"]

Release(j) ==
  IF queue = <<>> THEN /\ current' = current - 1
                       /\ job' = [job EXCEPT ![j] = "none"]
                       /\ UNCHANGED queue
  ELSE /\ queue' = Tail(queue)
       /\ job' = [job EXCEPT ![j] = "none", ![Head(queue)] = "claim"]
       /\ UNCHANGED current

-----------------------------------------------------------------------------
(* processBatch and deliverWithLimit *)

Size(x) ==
  LET most == IF ordered THEN 1 ELSE BatchSize
      left == Cardinality(task[x].targets)
  IN  IF left < most THEN left ELSE most

NextBatch(x) ==
  /\ task[x].pc = "batch"
  /\ \A h \in Webhook : job[<<x, h>>] = "none"
  /\ \/ /\ task[x].targets = {}
        /\ End(x)
        /\ UNCHANGED <<job, semaphore>>
     \/ \E hs \in SetToSeqs(task[x].targets) :
          LET batch == SubSeq(hs, 1, Size(x)) IN
          /\ hs # <<>>
          /\ Acquire([k \in 1..Len(batch) |-> <<x, batch[k]>>])
          /\ task' = [task EXCEPT ![x].targets = @ \ ToSet(batch)]
  /\ UNCHANGED <<registry, keys, records, ordered, fanOut, owed, dispatchFaults>>

Key(j) == <<j[2], task[j[1]].event>>

JobGoes(j, pc) == job' = [job EXCEPT ![j] = pc] /\ UNCHANGED semaphore

\* deliverToWebhook: SET webhook:delivered:<webhook>:<event> NX.
ClaimDelivery(j) ==
  /\ job[j] = "claim"
  /\ \/ /\ delivered' = delivered \cup {Key(j)}
        /\ IF Key(j) \in delivered THEN Release(j) ELSE JobGoes(j, "find")
        /\ NoFault
     \/ Release(j) /\ Fault /\ delivered' \in {delivered, delivered \cup {Key(j)}}
  /\ UNCHANGED <<registry, claimed, records, task, ordered, fanOut>>

\* deliveryRepository.create: the webhook must still exist ...
FindWebhook(j) ==
  /\ job[j] = "find"
  /\ \/ /\ IF webhook[j[2]].exists THEN JobGoes(j, "create") ELSE Release(j)
        /\ NoFault
     \/ Release(j) /\ Fault
  /\ UNCHANGED <<registry, keys, records, task, ordered, fanOut>>

\* ... when its record is written.
CreateDelivery(j) ==
  /\ job[j] = "create"
  /\ \/ /\ stored' = stored \cup {Key(j)}
        /\ listed' = listed \cup {Key(j)}
        /\ created' = [created EXCEPT ![Key(j)] = @ + 1]
        /\ ((JobGoes(j, "attempt") /\ NoFault) \/ (Release(j) /\ Fault))
     \/ Release(j) /\ Fault /\ UNCHANGED <<records, created>>
  /\ UNCHANGED <<registry, keys, task, ordered, sequences>>

\* The payload is saved and attempt() runs to its end, or throws.
Attempt(j) ==
  /\ job[j] = "attempt"
  /\ Release(j)
  /\ UNCHANGED <<registry, keys, records, task, ordered, fanOut, owed, dispatchFaults>>

\* The process dies: its dispatches and its semaphore are gone.
ProcessDies ==
  /\ \E x \in Dispatch : task[x].pc \notin {"new", "done"}
  /\ Fault
  /\ task' = [x \in Dispatch |-> IF task[x].pc = "new" THEN task[x]
                                 ELSE [NewTask EXCEPT !.pc = "done", !.event = task[x].event]]
  /\ job' = [j \in Job |-> "none"]
  /\ current' = 0 /\ queue' = <<>>
  /\ UNCHANGED <<registry, keys, records, ordered, fanOut>>

RequestStep(r) ==
  \/ \E h \in Webhook, sub \in Subscription : CreateWebhook(r, h, sub)
  \/ \E h \in Webhook, sub \in Subscription \cup {Unset}, active \in BOOLEAN \cup {Unset} :
       UpdateGet(r, h, sub, active)
  \/ UpdateSrem(r) \/ UpdateSadd(r) \/ UpdateSet(r)
  \/ \E h \in Webhook : RemoveGet(r, h)
  \/ RemoveZrange(r) \/ RemoveExec(r)

TaskStep(x) == ListIndex(x) \/ LoadTargets(x) \/ DrawSequence(x) \/ NextBatch(x)

JobStep(j) == ClaimDelivery(j) \/ FindWebhook(j) \/ CreateDelivery(j) \/ Attempt(j)

DispatchNext ==
  \/ \E r \in Request : RequestStep(r)
  \/ \E x \in Dispatch, e \in EventId : ClaimEvent(x, e)
  \/ \E x \in Dispatch : TaskStep(x)
  \/ \E j \in Job : JobStep(j)
  \/ ProcessDies

DispatchSpec == DispatchInit /\ [][DispatchNext]_dispatchVars

-----------------------------------------------------------------------------

Holding == {j \in Job : job[j] \in {"claim", "find", "create", "attempt"}}
Waiting == {j \in Job : job[j] = "waiting"}

\* The semaphore counts exactly the jobs past acquire() that have not left,
\* through jobs that fail and hand-offs; its queue is the waiting jobs, each
\* once; and nobody waits while a permit is free.
SemaphoreExact ==
  /\ current = Cardinality(Holding)
  /\ ToSet(queue) = Waiting /\ IsInjective(queue)
  /\ queue # <<>> => current = MaxInFlight

\* However many callers dispatch an event, it is fanned out once: it draws
\* one sequence number, and no webhook gets two deliveries of it.
EventFannedOutOnce ==
  /\ \A e \in EventId : sequences[e] <= 1
  /\ \A k \in Webhook \X EventId : created[k] <= 1

\* A webhook that was active and subscribed by name when the event was
\* claimed, and that nobody changed since, has its delivery when the dispatch
\* ends, whatever happens to the other webhooks and dispatches, unless a
\* command or the process failed meanwhile.
SubscribersServed ==
  \A x \in Dispatch : task[x].pc = "done" =>
    \A h \in owed[x] : created[<<h, task[x].event>>] = 1

\* The fan-out is exact: every subscriber is served, and no event twice.
FanOutExact == EventFannedOutOnce /\ SubscribersServed

\* What a dispatch that waits for nobody looks like: it is at a command of its
\* own, or all jobs of its batch have returned.
TaskReady(x) ==
  \/ task[x].pc \in {"smembers", "mget", "incr"}
  \/ task[x].pc = "batch" /\ \A h \in Webhook : job[<<x, h>>] = "none"

\* A dispatch under way can go on, or has a job that can, or a job that waits
\* for a permit somebody holds: a job with a permit always has its next step.
\* So nobody waits for ever; a dispatch takes finitely many steps, and ends.
NobodyStuck ==
  \A x \in Dispatch : task[x].pc \notin {"new", "done"} =>
    \/ TaskReady(x)
    \/ \E h \in Webhook : <<x, h>> \in Holding
    \/ Holding # {} /\ \E h \in Webhook : <<x, h>> \in Waiting

\* Permits are never lost or handed out twice, and no dispatch waits for ever.
DispatchesFlow == SemaphoreExact /\ NobodyStuck

\* What the README says of ["*"]: a subscriber to every event gets this one.
WildcardServed ==
  \A x \in Dispatch, h \in Webhook :
    task[x].pc = "done" /\ dispatchFaults = 0 /\ webhook[h].exists /\ webhook[h].active
      /\ webhook[h].sub = "*" => created[<<h, task[x].event>>] = 1

=============================================================================
