---------------------------- MODULE EventIndexer ----------------------------
(***************************************************************************)
(* The Soroban event indexer: pollOnce() of indexer/eventPoller.js and the *)
(* projections of indexer/eventStore.js.  The poller is not behind leader  *)
(* election, so every replica runs one against the same Redis keys.        *)
(*                                                                         *)
(* The contract's events are a growing sequence; an event's id is its      *)
(* place in it.  One recipient is enough, since recipients never share a   *)
(* key.  Each read and each write of a projection is a step of its own,    *)
(* as the code awaits between them.  Left out: the adaptive interval, lag  *)
(* alerting and counters, which no stored value depends on.                *)
(***************************************************************************)
EXTENDS Naturals, Sequences, FiniteSets, FiniteSetsExt

CONSTANTS
  Poller,      \* replicas running the indexer
  Airdrop,     \* on-chain airdrop ids
  EventNames,  \* EVENT_FIELDS of eventParser.js, or "other" (dropped)
  PollLimit,   \* config.indexer.pollLimit
  None,        \* the cursor before the first poll
  MaxLedger,   \* bound: ledgers closed
  LedgerCap,   \* bound: contract events per ledger
  MaxLag,      \* bound: how far behind the tip an RPC node may answer
  MaxFaults    \* bound: failed polls, raw writes that fail, process deaths

ASSUME IndexerConfig ==
  /\ EventNames \subseteq {"airdrop_created", "recipient_added", "token_claimed",
                           "airdrop_expired", "other"}
  /\ PollLimit \in Nat \ {0}
  /\ None \notin Nat
  /\ {MaxLedger, LedgerCap, MaxLag, MaxFaults} \subseteq Nat

VARIABLES
  chain,     \* the contract's events, in order
  tip,       \* latest closed ledger
  cursor,    \* indexer:last_ledger
  saved,     \* ids in indexer:contract_events:ids, each with its record
  airdrop,   \* indexer:airdrop:<id>, its status
  recipient, \* the recipient's status in indexer:airdrop:<id>:recipients
  claims,    \* indexer:recipient:<address>:claims, a list of event ids
  poll,      \* each poller's place in pollOnce()
  overlapped,\* history: two polls have been under way at once
  dropped,   \* history: ids whose raw write failed in a poll that went on
  faults

vars == <<chain, tip, cursor, saved, airdrop, recipient, claims, poll, overlapped, dropped,
          faults>>

ledgers == <<chain, tip>>
store == <<saved, airdrop, recipient, claims>>
history == <<overlapped, dropped, faults>>

Steps == {"idle", "rpc", "save", "getAirdrop", "setAirdrop", "getRecipient",
          "setRecipient", "getClaims", "setClaims", "advance"}

\* previous: the cursor read at the start.  todo: the parsed events still to
\* save or to project.  next: the cursor to store.  read: what the last
\* projection read returned.
Idle == [pc |-> "idle", previous |-> None, todo |-> {}, next |-> 0, read |-> "none"]

Init ==
  /\ chain = <<>>
  /\ tip = 0
  /\ cursor = None
  /\ saved = {}
  /\ airdrop = [a \in Airdrop |-> "none"]
  /\ recipient = [a \in Airdrop |-> "none"]
  /\ claims = <<>>
  /\ poll = [p \in Poller |-> Idle]
  /\ overlapped = FALSE
  /\ dropped = {}
  /\ faults = 0

-----------------------------------------------------------------------------
(* The network (external): the contract emits events into the ledger being *)
(* built, in an order its own life cycle allows.                           *)

Emitted(name, a) == \E k \in DOMAIN chain : chain[k].name = name /\ chain[k].airdrop = a

Legal(name, a) ==
  CASE name = "airdrop_created" -> ~Emitted(name, a)
    [] name = "recipient_added" ->
         /\ Emitted("airdrop_created", a) /\ ~Emitted(name, a)
         /\ ~Emitted("airdrop_expired", a)
    [] name = "token_claimed" ->
         /\ Emitted("recipient_added", a) /\ ~Emitted(name, a)
         /\ ~Emitted("airdrop_expired", a)
    [] name = "airdrop_expired" -> Emitted("airdrop_created", a) /\ ~Emitted(name, a)
    [] name = "other" -> TRUE

EmitEvent(name, a) ==
  /\ tip < MaxLedger
  /\ Cardinality({k \in DOMAIN chain : chain[k].ledger = tip + 1}) < LedgerCap
  /\ Legal(name, a)
  /\ chain' = Append(chain, [ledger |-> tip + 1, name |-> name, airdrop |-> a])
  /\ UNCHANGED <<tip, cursor, store, poll, history>>

CloseLedger ==
  /\ tip < MaxLedger
  /\ tip' = tip + 1
  /\ UNCHANGED <<chain, cursor, store, poll, history>>

-----------------------------------------------------------------------------
(* pollOnce() *)

OrZero(ledger) == IF ledger = None THEN 0 ELSE ledger

\* getLastLedger(null); cycles of one poller never overlap.
StartPoll(p) ==
  /\ poll[p].pc = "idle"
  /\ poll' = [poll EXCEPT ![p] = [Idle EXCEPT !.pc = "rpc", !.previous = cursor]]
  /\ overlapped' = (overlapped \/ \E q \in Poller : poll[q].pc # "idle")
  /\ UNCHANGED <<ledgers, cursor, store, dropped, faults>>

\* getEvents({startLedger, limit}) of a node whose latest ledger is view
\* (external): the first pollLimit events from startLedger on, in order.
Batch(previous, view) ==
  LET startLedger == IF previous = None THEN 0 ELSE previous + 1
      matching == {k \in DOMAIN chain : chain[k].ledger \in startLedger..view}
  IN  {k \in matching : Cardinality({j \in matching : j < k}) < PollLimit}

Parsed(batch) == {k \in batch : chain[k].name # "other"}

\* How far this poll may move the cursor: to the node's tip, unless the
\* batch is full; then only past the events it holds.
NextCursor_ToTip(previous, view, batch) ==
  Max({OrZero(previous), view} \cup {chain[k].ledger : k \in Parsed(batch)})

NextCursor_OnlyEvents(previous, view, batch) ==
  Max({OrZero(previous)} \cup {chain[k].ledger : k \in Parsed(batch)})

NextCursor(previous, view, batch) ==
  LET truncated == Cardinality(batch) >= PollLimit
      base == IF truncated \/ view = 0 THEN OrZero(previous) ELSE view
  IN  Max({base} \cup {chain[k].ledger : k \in Parsed(batch)})

\* The RPC answers, at once or on its second or third try.
FetchEvents(p, view) ==
  LET batch == Batch(poll[p].previous, view) IN
  /\ poll[p].pc = "rpc"
  /\ view <= tip /\ tip <= view + MaxLag
  /\ poll' = [poll EXCEPT ![p].pc = IF Parsed(batch) = {} THEN "advance" ELSE "save",
                          ![p].todo = Parsed(batch),
                          ![p].next = NextCursor(poll[p].previous, view, batch)]
  /\ UNCHANGED <<ledgers, cursor, store, history>>

\* The RPC or a Redis command fails: the poll throws and run() logs it.  Or
\* the process dies and restarts.  What has been written stays written.
Abort(p) ==
  /\ poll[p].pc # "idle"
  /\ faults < MaxFaults
  /\ faults' = faults + 1
  /\ poll' = [poll EXCEPT ![p] = Idle]
  /\ UNCHANGED <<ledgers, cursor, store, overlapped, dropped>>

\* saveEvents: one pipeline writes every raw event of the batch.
SaveAll(p) ==
  /\ saved' = saved \cup poll[p].todo
  /\ UNCHANGED history

\* exec() resolves with each command's own error, and nothing reads them: when
\* some or all of the writes fail the poll goes on as if all had landed.
SaveSome(p) ==
  /\ faults < MaxFaults
  /\ faults' = faults + 1
  /\ \E landed \in SUBSET poll[p].todo :
       /\ saved' = saved \cup landed
       /\ dropped' = dropped \cup (poll[p].todo \ landed)
  /\ UNCHANGED overlapped

SaveRaw(p) ==
  /\ poll[p].pc = "save"
  /\ SaveAll(p) \/ SaveSome(p)
  /\ poll' = [poll EXCEPT ![p].pc = "getAirdrop"]
  /\ UNCHANGED <<ledgers, cursor, airdrop, recipient, claims>>

\* Then the projections, one event after another in chain order.
Current(p) == Min(poll[p].todo)
Event(p) == chain[Current(p)]

Read(p, pc, value) == poll' = [poll EXCEPT ![p].pc = pc, ![p].read = value]

EventDone(p) ==
  LET rest == poll[p].todo \ {Current(p)} IN
  poll' = [poll EXCEPT ![p].todo = rest, ![p].read = "none",
                       ![p].pc = IF rest = {} THEN "advance" ELSE "getAirdrop"]

GetAirdrop(p) ==
  /\ poll[p].pc = "getAirdrop"
  /\ Read(p, "setAirdrop", airdrop[Event(p).airdrop])
  /\ UNCHANGED <<ledgers, cursor, store, history>>

\* upsertAirdrop's new status, given the event and the record it read.
AirdropStatus_ExpiredIgnored(name, existing) ==
  CASE name = "airdrop_created" -> "created"
    [] name = "token_claimed" -> IF existing = "expired" THEN "expired" ELSE "active"
    [] OTHER -> existing

AirdropStatus(name, existing) ==
  CASE name = "airdrop_created" -> "created"
    [] name = "recipient_added" -> existing
    [] name = "token_claimed" -> IF existing = "expired" THEN "expired" ELSE "active"
    [] name = "airdrop_expired" -> "expired"

\* upsertRecipient and appendClaim return at once for the other events.
SetAirdrop(p) ==
  /\ poll[p].pc = "setAirdrop"
  /\ airdrop' = [airdrop EXCEPT ![Event(p).airdrop] =
                   AirdropStatus(Event(p).name, poll[p].read)]
  /\ IF Event(p).name \in {"recipient_added", "token_claimed"}
       THEN poll' = [poll EXCEPT ![p].pc = "getRecipient"]
       ELSE EventDone(p)
  /\ UNCHANGED <<ledgers, cursor, saved, recipient, claims, history>>

GetRecipient(p) ==
  /\ poll[p].pc = "getRecipient"
  /\ Read(p, "setRecipient", recipient[Event(p).airdrop])
  /\ UNCHANGED <<ledgers, cursor, store, history>>

RecipientStatus(name, existing) ==
  CASE name = "recipient_added" -> IF existing = "none" THEN "pending" ELSE existing
    [] name = "token_claimed" -> "claimed"

SetRecipient(p) ==
  /\ poll[p].pc = "setRecipient"
  /\ recipient' = [recipient EXCEPT ![Event(p).airdrop] =
                     RecipientStatus(Event(p).name, poll[p].read)]
  /\ IF Event(p).name = "token_claimed"
       THEN poll' = [poll EXCEPT ![p].pc = "getClaims"]
       ELSE EventDone(p)
  /\ UNCHANGED <<ledgers, cursor, saved, airdrop, claims, history>>

GetClaims(p) ==
  /\ poll[p].pc = "getClaims"
  /\ Read(p, "setClaims", claims)
  /\ UNCHANGED <<ledgers, cursor, store, history>>

\* appendClaim: the whole list is written back, unless it has the claim.
AppendClaim(list, id) ==
  IF \E k \in DOMAIN list : list[k] = id THEN list ELSE Append(list, id)

SetClaims(p) ==
  /\ poll[p].pc = "setClaims"
  /\ claims' = IF AppendClaim(poll[p].read, Current(p)) = poll[p].read THEN claims
               ELSE AppendClaim(poll[p].read, Current(p))
  /\ EventDone(p)
  /\ UNCHANGED <<ledgers, cursor, saved, airdrop, recipient, history>>

\* ADVANCE_LAST_LEDGER_LUA: compare with the cursor read, never move back.
Advances(previous, next) == cursor = previous /\ OrZero(cursor) <= next

AdvanceLastLedger(p) ==
  /\ poll[p].pc = "advance"
  /\ cursor' = IF Advances(poll[p].previous, poll[p].next) THEN poll[p].next ELSE cursor
  /\ poll' = [poll EXCEPT ![p] = Idle]
  /\ UNCHANGED <<ledgers, store, history>>

-----------------------------------------------------------------------------

PollStep(p) ==
  \/ StartPoll(p)
  \/ \E view \in 0..MaxLedger : FetchEvents(p, view)
  \/ SaveRaw(p)
  \/ GetAirdrop(p) \/ SetAirdrop(p)
  \/ GetRecipient(p) \/ SetRecipient(p)
  \/ GetClaims(p) \/ SetClaims(p)
  \/ AdvanceLastLedger(p)

Next ==
  \/ \E name \in EventNames, a \in Airdrop : EmitEvent(name, a)
  \/ CloseLedger
  \/ \E p \in Poller : PollStep(p) \/ Abort(p)

Spec == Init /\ [][Next]_vars

\* run() reschedules itself after every poll, whatever its result, and every
\* await settles: a poller never stops polling.
FairSpec == Spec /\ \A p \in Poller : WF_vars(PollStep(p))

-----------------------------------------------------------------------------

\* Ids of the parsable events in the ledgers the cursor has passed.
Passed == {k \in DOMAIN chain : chain[k].name # "other" /\ chain[k].ledger <= OrZero(cursor)}

\* No batch an RPC node may answer with ends inside a ledger.
WholeLedgers ==
  \A previous \in 0..MaxLedger \cup {None}, view \in 0..MaxLedger :
    \A k \in DOMAIN chain, m \in Batch(previous, view) :
      chain[k].ledger = chain[m].ledger => k \in Batch(previous, view)

\* The cursor passes no event but one that has been saved, or whose raw write
\* failed in a poll that processed it: an event it passed otherwise would have
\* been seen by no poll, and nothing would ever fetch it again.
NoEventSkipped == Passed \subseteq saved \cup dropped

\* The events the cursor has passed "are already saved" (eventPoller.js).
EventsSaved == Passed \subseteq saved

\* Every event the cursor has passed is reflected in the projections the API
\* serves, and stays so when a batch is replayed after a crash: as long as
\* polls of two replicas never overlap.  A failed raw write leaves none out.
\* Even when polls overlap, a replayed token_claimed is listed once in the
\* recipient's claim history.
ProjectionsReflectCursor ==
  /\ \A i, j \in DOMAIN claims : claims[i] = claims[j] => i = j
  /\ ~overlapped => \A k \in Passed :
       LET a == chain[k].airdrop IN
       CASE chain[k].name = "airdrop_created" -> airdrop[a] # "none"
         [] chain[k].name = "recipient_added" -> recipient[a] # "none"
         [] chain[k].name = "token_claimed" ->
              /\ airdrop[a] \in {"active", "expired"}
              /\ recipient[a] = "claimed"
              /\ \E i \in DOMAIN claims : claims[i] = k
         [] chain[k].name = "airdrop_expired" -> airdrop[a] = "expired"

\* A full batch right after the cursor that holds nothing the parser keeps.
Stalled ==
  /\ Cardinality(Batch(cursor, tip)) >= PollLimit
  /\ Parsed(Batch(cursor, tip)) = {}

\* Again and again the indexer has caught up with what its nodes have seen,
\* except where pollLimit events in a row are unknown to the parser.
CatchesUp == []<>(OrZero(cursor) + MaxLag >= tip \/ Stalled)

=============================================================================
