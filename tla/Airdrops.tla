------------------------------ MODULE Airdrops ------------------------------
(***************************************************************************)
(* The off-chain airdrop record: services/airdrops.js under the requests   *)
(* of routes/airdrops.js and the ticks of jobs/airdropExpiry.js, all       *)
(* sharing one Redis.  Airdrops share no key but the id set, so one        *)
(* airdrop is modelled.  Each Redis round trip is a step: update() and     *)
(* cancel() are a GET and a SET, addRecipients() a MULTI of SADDs and an   *)
(* RPUSH, and only markExpired() is a single script.                       *)
(*                                                                         *)
(* Amounts, names and CSV parsing are left out: no stored field they touch *)
(* is read by another operation.  Of the recipients list, how often it     *)
(* holds each address: nothing depends on its order.                       *)
(***************************************************************************)
EXTENDS Naturals, Sequences, FiniteSets

CONSTANTS
  Request,         \* API requests, each running one operation
  Worker,          \* ticks of the expiry job that may overlap
  Address,         \* recipient addresses
  None,            \* no expiry_ledger in a PATCH body
  MaxLedger,       \* bound: Horizon's ledger sequence
  LedgerStaleness, \* how old a ledger getCurrentLedger() may return
  CacheDeclared,   \* whether getCurrentLedger() can read its cache variables
  IntervalSeconds, \* AIRDROP_EXPIRY_CHECK_INTERVAL_SECONDS
  MaxFaults        \* bound: failed Redis commands, process deaths, lost leases

ASSUME AirdropsConfig ==
  /\ Request \cap Worker = {} /\ IsFiniteSet(Worker)
  /\ {MaxLedger, LedgerStaleness, IntervalSeconds, MaxFaults} \subseteq Nat
  /\ CacheDeclared \in BOOLEAN
  /\ None \notin Nat

VARIABLES
  record,      \* airdrop:<id>, status "absent" when there is no such key
  listed,      \* the id is in airdrops:ids
  addresses,   \* airdrop:<id>:addresses, a set
  recipients,  \* airdrop:<id>:recipients: how often each address is in the list
  ledger,      \* Horizon's latest ledger
  request,     \* each request's place in its operation
  scheduled,   \* the expiry job's cron task exists
  tick,        \* each tick's place in tick()
  dispatched,  \* history: the ledgers in the event ids dispatched
  expiries,    \* history: transitions to expired
  removed,     \* history: remove() has committed
  faults

vars == <<record, listed, addresses, recipients, ledger, request, scheduled, tick,
          dispatched, expiries, removed, faults>>

rest == <<scheduled, dispatched, expiries, faults>>
lists == <<addresses, recipients>>

Terminal == {"completed", "failed", "cancelled", "expired"}

Absent == [status |-> "absent", expiry |-> 0]

\* pc: the next round trip.  read: the record the operation has read.
\* expiry: the PATCH body's.  batch: the addresses to append.
NewRequest == [pc |-> "new", read |-> Absent, expiry |-> None, batch |-> {}]

NoTick == [pc |-> "idle", ledger |-> 0]

\* RPUSH of a batch onto a list.
NoRecipients == [x \in Address |-> 0]
Push(list, batch) == [x \in Address |-> IF x \in batch THEN list[x] + 1 ELSE list[x]]

\* Redis may already hold a draft when this process starts.
Init ==
  /\ record \in {Absent} \cup [status : {"draft"}, expiry : 1..MaxLedger]
  /\ listed = (record # Absent)
  /\ addresses = {}
  /\ recipients = NoRecipients
  /\ ledger = 0
  /\ request = [r \in Request |-> NewRequest]
  /\ scheduled = FALSE
  /\ tick = [w \in Worker |-> NoTick]
  /\ dispatched = <<>>
  /\ expiries = 0
  /\ removed = FALSE
  /\ faults = 0

Close(r) == request' = [request EXCEPT ![r] = [NewRequest EXCEPT !.pc = "done"]]

\* getCurrentLedger(): a cached or fresh Horizon ledger.  It reads
\* cachedLedger, which no module of this commit declares, so it throws.
LedgerRead(l) ==
  /\ CacheDeclared
  /\ l \in 0..ledger /\ ledger <= l + LedgerStaleness

-----------------------------------------------------------------------------
(* Requests *)

\* POST /airdrops: one MULTI, under an id generated for it.
Create(l, expiry, batch) ==
  /\ record = Absent /\ ~removed /\ expiries = 0
  /\ LedgerRead(l) /\ expiry > l
  /\ record' = [status |-> "draft", expiry |-> expiry]
  /\ listed' = TRUE
  /\ addresses' = batch
  /\ recipients' = Push(NoRecipients, batch)
  /\ UNCHANGED <<ledger, request, tick, removed, rest>>

\* PATCH /airdrops/:id: the body is checked against the current ledger, then
\* update() reads the record and leaves a terminal one alone.
UpdateGet(r, l, expiry) ==
  /\ request[r].pc = "new"
  /\ LedgerRead(l)
  /\ IF expiry = None THEN TRUE ELSE expiry > l
  /\ IF record = Absent \/ record.status \in Terminal THEN Close(r)
     ELSE request' = [request EXCEPT ![r].pc = "updateSet", ![r].read = record,
                                     ![r].expiry = expiry]
  /\ UNCHANGED <<record, listed, lists, ledger, tick, removed, rest>>

\* ... and writes the whole record back.
UpdateSet(r) ==
  /\ request[r].pc = "updateSet"
  /\ record' = [status |-> request[r].read.status,
                expiry |-> IF request[r].expiry = None THEN request[r].read.expiry
                           ELSE request[r].expiry]
  /\ Close(r)
  /\ UNCHANGED <<listed, lists, ledger, tick, removed, rest>>

\* POST /airdrops/:id/cancel
CancelGet(r) ==
  /\ request[r].pc = "new"
  /\ IF record = Absent \/ record.status \in Terminal THEN Close(r)
     ELSE request' = [request EXCEPT ![r].pc = "cancelSet", ![r].read = record]
  /\ UNCHANGED <<record, listed, lists, ledger, tick, removed, rest>>

CancelSet(r) ==
  /\ request[r].pc = "cancelSet"
  /\ record' = [request[r].read EXCEPT !.status = "cancelled"]
  /\ Close(r)
  /\ UNCHANGED <<listed, lists, ledger, tick, removed, rest>>

\* DELETE /airdrops/:id
RemoveGet(r) ==
  /\ request[r].pc = "new"
  /\ IF record = Absent THEN Close(r)
     ELSE request' = [request EXCEPT ![r].pc = "removeExec"]
  /\ UNCHANGED <<record, listed, lists, ledger, tick, removed, rest>>

RemoveExec(r) ==
  /\ request[r].pc = "removeExec"
  /\ record' = Absent
  /\ listed' = FALSE
  /\ addresses' = {}
  /\ recipients' = NoRecipients
  /\ removed' = TRUE
  /\ Close(r)
  /\ UNCHANGED <<ledger, tick, rest>>

\* POST /airdrops/:id/recipients: the route checks that the airdrop exists
\* and that the body repeats no address.
AddGet(r, batch) ==
  /\ request[r].pc = "new"
  /\ IF record = Absent THEN Close(r)
     ELSE request' = [request EXCEPT ![r].pc = "addSadd", ![r].batch = batch]
  /\ UNCHANGED <<record, listed, lists, ledger, tick, removed, rest>>

\* Mutant: every address is taken for new, as separate SADDs once allowed.
AddSadd_NotAtomic(r) ==
  /\ request[r].pc = "addSadd"
  /\ addresses' = addresses \cup request[r].batch
  /\ request' = [request EXCEPT ![r].pc = "addPush"]
  /\ UNCHANGED <<record, listed, recipients, ledger, tick, removed, rest>>

\* addRecipients: one MULTI of SADDs tells the new addresses from the known.
AddSadd(r) ==
  LET fresh == request[r].batch \ addresses IN
  /\ request[r].pc = "addSadd"
  /\ addresses' = addresses \cup request[r].batch
  /\ request' = [request EXCEPT ![r].pc = IF fresh = {} THEN "done" ELSE "addPush",
                                ![r].batch = fresh]
  /\ UNCHANGED <<record, listed, recipients, ledger, tick, removed, rest>>

AddPush(r) ==
  /\ request[r].pc = "addPush"
  /\ recipients' = Push(recipients, request[r].batch)
  /\ Close(r)
  /\ UNCHANGED <<record, listed, addresses, ledger, tick, removed, rest>>

-----------------------------------------------------------------------------
(* airdropExpiry.tick() *)

\* start() refuses an interval that is no cron step; the leadership poll
\* calls it again after it has thrown.
StartJob ==
  /\ ~scheduled
  /\ IntervalSeconds \in 1..59 /\ 60 % IntervalSeconds = 0
  /\ scheduled' = TRUE
  /\ UNCHANGED <<record, listed, lists, ledger, request, tick, dispatched, expiries,
                 removed, faults>>

\* stop(), on losing leadership.  A tick under way goes on.
StopJob ==
  /\ scheduled
  /\ scheduled' = FALSE
  /\ faults < MaxFaults /\ faults' = faults + 1
  /\ UNCHANGED <<record, listed, lists, ledger, request, tick, dispatched, expiries,
                 removed>>

\* The current ledger, then ZSCAN over airdrops:ids.
TickStart(w, l) ==
  /\ scheduled
  /\ tick[w].pc = "idle"
  /\ LedgerRead(l)
  /\ listed
  /\ tick' = [tick EXCEPT ![w] = [pc |-> "get", ledger |-> l]]
  /\ UNCHANGED <<record, listed, lists, ledger, request, removed, rest>>

\* Mutant: an airdrop is due only after its expiry ledger.
Due_Strict(l) == record # Absent /\ record.status \notin Terminal /\ record.expiry < l

Due(l) == record # Absent /\ record.status \notin Terminal /\ record.expiry <= l

\* The cheap pre-filter.
TickGet(w) ==
  /\ tick[w].pc = "get"
  /\ tick' = [tick EXCEPT ![w] = IF Due(tick[w].ledger) THEN [@ EXCEPT !.pc = "mark"]
                                 ELSE NoTick]
  /\ UNCHANGED <<record, listed, lists, ledger, request, removed, rest>>

\* Mutant: the script relies on the pre-filter's read.
MarkExpired_TrustsFilter(w) ==
  /\ tick[w].pc = "mark"
  /\ record # Absent
  /\ record' = [record EXCEPT !.status = "expired"]
  /\ expiries' = IF record.status \in Terminal THEN expiries ELSE expiries + 1
  /\ tick' = [tick EXCEPT ![w].pc = "dispatch"]
  /\ UNCHANGED <<listed, lists, ledger, request, scheduled, dispatched, removed,
                 faults>>

\* Mutant: the webhook is dispatched whether or not the script transitioned.
MarkExpired_AlwaysReports(w) ==
  /\ tick[w].pc = "mark"
  /\ record' = IF Due(tick[w].ledger) THEN [record EXCEPT !.status = "expired"] ELSE record
  /\ expiries' = IF Due(tick[w].ledger) THEN expiries + 1 ELSE expiries
  /\ tick' = [tick EXCEPT ![w].pc = "dispatch"]
  /\ UNCHANGED <<listed, lists, ledger, request, scheduled, dispatched, removed, faults>>

\* MARK_EXPIRED_SCRIPT re-checks both conditions and writes, atomically.  Its
\* reply may be lost, in which case the tick goes on to the next airdrop.
MarkExpired(w) ==
  /\ tick[w].pc = "mark"
  /\ \/ /\ Due(tick[w].ledger)
        /\ record' = [record EXCEPT !.status = "expired"]
        /\ expiries' = expiries + 1
        /\ \/ tick' = [tick EXCEPT ![w].pc = "dispatch"] /\ UNCHANGED faults
           \/ /\ tick' = [tick EXCEPT ![w] = NoTick]
              /\ faults < MaxFaults /\ faults' = faults + 1
     \/ /\ ~Due(tick[w].ledger)
        /\ tick' = [tick EXCEPT ![w] = NoTick]
        /\ UNCHANGED <<record, expiries, faults>>
  /\ UNCHANGED <<listed, lists, ledger, request, scheduled, dispatched, removed>>

\* dispatch({event_id: evt_airdrop_expired_<id>_<currentLedger>}) claims the
\* event id first, so a second dispatch of the same id does nothing.
DispatchExpired(w) ==
  LET seen == \E k \in DOMAIN dispatched : dispatched[k] = tick[w].ledger IN
  /\ tick[w].pc = "dispatch"
  /\ dispatched' = IF seen THEN dispatched ELSE Append(dispatched, tick[w].ledger)
  /\ tick' = [tick EXCEPT ![w] = NoTick]
  /\ UNCHANGED <<record, listed, lists, ledger, request, scheduled, expiries,
                 removed, faults>>

-----------------------------------------------------------------------------
(* Environment *)

LedgerCloses ==
  /\ ledger < MaxLedger
  /\ ledger' = ledger + 1
  /\ UNCHANGED <<record, listed, lists, request, tick, removed, rest>>

\* A Redis command rejects, or the process dies: the operation goes no
\* further and what it has written stays.
AbortRequest(r) ==
  /\ request[r].pc \notin {"new", "done"}
  /\ faults < MaxFaults /\ faults' = faults + 1
  /\ Close(r)
  /\ UNCHANGED <<record, listed, lists, ledger, scheduled, tick, dispatched,
                 expiries, removed>>

AbortTick(w) ==
  /\ tick[w].pc # "idle"
  /\ faults < MaxFaults /\ faults' = faults + 1
  /\ tick' = [tick EXCEPT ![w] = NoTick]
  /\ UNCHANGED <<record, listed, lists, ledger, request, scheduled, dispatched,
                 expiries, removed>>

\* Bodies of recipients: validated, so free of repetitions.
Bodies == SUBSET Address
Ledgers == 0..MaxLedger

RequestStep(r) ==
  \/ \E l \in Ledgers, expiry \in Ledgers \cup {None} : UpdateGet(r, l, expiry)
  \/ UpdateSet(r)
  \/ CancelGet(r) \/ CancelSet(r)
  \/ RemoveGet(r) \/ RemoveExec(r)
  \/ \E batch \in Bodies \ {{}} : AddGet(r, batch)
  \/ AddSadd(r) \/ AddPush(r)
  \/ AbortRequest(r)

TickStep(w) ==
  \/ \E l \in Ledgers : TickStart(w, l)
  \/ TickGet(w) \/ MarkExpired(w) \/ DispatchExpired(w)

Next ==
  \/ \E l, expiry \in Ledgers, batch \in Bodies : Create(l, expiry, batch)
  \/ \E r \in Request : RequestStep(r)
  \/ \E w \in Worker : TickStep(w) \/ AbortTick(w)
  \/ StartJob \/ StopJob
  \/ LedgerCloses

Spec == Init /\ [][Next]_vars

\* The cron schedule keeps firing, every await of a tick settles, and a cached
\* ledger is refetched once it is older than ledgerCacheTtlMs, so ticks that
\* keep starting do not read a stale ledger for ever.
FairSpec ==
  /\ Spec
  /\ WF_vars(StartJob)
  /\ \A w \in Worker : WF_vars(TickStep(w)) /\ SF_vars(TickStart(w, ledger))

-----------------------------------------------------------------------------

\* A tick that read the airdrop before its expiry was extended, or before
\* it was cancelled, does not expire it.
ExpiresOnlyWhenDue ==
  [][record'.status = "expired" /\ record.status # "expired" =>
       record.status \notin Terminal /\ record.expiry <= ledger]_vars

\* Nothing is done twice.  However requests for the same address overlap, it is
\* in the recipients list once, as long as the airdrop is not removed; and
\* overlapping ticks never announce one expiry twice.
PaidAndAnnouncedOnce ==
  /\ ~removed => \A x \in Address : recipients[x] <= 1
  /\ Len(dispatched) <= expiries

\* An airdrop past its expiry ledger eventually leaves draft.
ExpiresEventually ==
  (listed /\ record.status = "draft" /\ record.expiry <= ledger)
    ~> ~(listed /\ record.status = "draft" /\ record.expiry <= ledger)

=============================================================================
