---------------------------- MODULE AirdropsProofs ----------------------------
(* Machine-checked proofs about Airdrops, for any number of requests, ticks *)
(* and addresses, every ledger bound and staleness, and any faults.         *)
EXTENDS Airdrops, FiniteSetTheorems, SequenceTheorems, TLAPS

-----------------------------------------------------------------------------
(* The inductive invariant: what is under way at each place of a request   *)
(* and of a tick, and what it says of the keys it is about to write.       *)

Live == {"draft", "cancelled", "expired"}
Stored == [status : Live, expiry : Nat]

RequestRecord ==
  [pc : {"new", "done", "updateSet", "cancelSet", "removeExec", "addSadd", "addPush"},
   read : Stored \cup {Absent}, expiry : Nat \cup {None}, batch : SUBSET Address]

TickRecord == [pc : {"idle", "get", "mark", "dispatch"}, ledger : Nat]

AirdropTypes ==
  /\ record \in Stored \cup {Absent}
  /\ addresses \in SUBSET Address /\ recipients \in [Address -> Nat]
  /\ ledger \in Nat
  /\ request \in [Request -> RequestRecord]
  /\ tick \in [Worker -> TickRecord]
  /\ dispatched \in Seq(Nat) /\ expiries \in Nat
  /\ removed \in BOOLEAN

\* update() and cancel() write back a record that was not terminal.
ReadsLive(r) ==
  request[r].pc \in {"updateSet", "cancelSet"} =>
    request[r].read \in Stored /\ request[r].read.status \notin Terminal

\* A tick never runs ahead of Horizon.
TickBehind(w) == tick[w].ledger <= ledger

Pushing(r) == request[r].pc = "addPush"

\* Until the airdrop is removed: the list repeats no address and is covered by
\* the set; what a request is about to push is in the set, not yet in the list,
\* and nobody else's; and before the airdrop exists no request is under way.
PaidOnce ==
  /\ \A x \in Address : recipients[x] <= 1 /\ (recipients[x] = 1 => x \in addresses)
  /\ \A r \in Request : Pushing(r) =>
       \A x \in request[r].batch : x \in addresses /\ recipients[x] = 0
  /\ \A r, q \in Request : Pushing(r) /\ Pushing(q) /\ r # q
                             => request[r].batch \cap request[q].batch = {}
  /\ record = Absent => \A r \in Request : request[r].pc \in {"new", "done"}

\* Each tick that is about to dispatch stands for an expiry of its own.
Dispatchers == {w \in Worker : tick[w].pc = "dispatch"}

AnnouncedOnce == Len(dispatched) + Cardinality(Dispatchers) <= expiries

Inv ==
  /\ AirdropTypes
  /\ \A r \in Request : ReadsLive(r)
  /\ \A w \in Worker : TickBehind(w)
  /\ ~removed => PaidOnce
  /\ AnnouncedOnce

-----------------------------------------------------------------------------

LEMMA Values ==
  /\ Absent \notin Stored /\ Absent.status = "absent"
  /\ NewRequest \in RequestRecord /\ NewRequest.pc = "new"
  /\ NoTick \in TickRecord /\ NoTick.pc = "idle" /\ NoTick.ledger = 0
  /\ NoRecipients \in [Address -> Nat] /\ \A x \in Address : NoRecipients[x] = 0
<1>1. Absent.status = "absent" /\ \A s \in Stored : s.status # "absent"
  BY DEF Absent, Stored, Live
<1>2. NewRequest \in RequestRecord /\ NewRequest.pc = "new"
  <2>1. {} \in SUBSET Address
    OBVIOUS
  <2> QED BY <2>1 DEF NewRequest, RequestRecord
<1> QED BY <1>1, <1>2 DEF NoTick, TickRecord, NoRecipients

LEMMA DispatchersFinite == IsFiniteSet(Dispatchers) /\ Cardinality(Dispatchers) \in Nat
<1>1. IsFiniteSet(Dispatchers)
  BY AirdropsConfig, FS_Subset DEF Dispatchers
<1> QED BY <1>1, FS_CardinalityType

LEMMA InitInv == Init => Inv
<1> SUFFICES ASSUME Init PROVE Inv
  OBVIOUS
<1>1. AirdropTypes
  <2>1. record \in Stored \cup {Absent}
    BY AirdropsConfig DEF Init, Stored, Live
  <2>2. request \in [Request -> RequestRecord] /\ tick \in [Worker -> TickRecord]
    BY Values DEF Init
  <2>3. dispatched \in Seq(Nat) /\ expiries \in Nat /\ ledger \in Nat
    BY DEF Init
  <2>4. removed \in BOOLEAN
    BY DEF Init
  <2>5. addresses \in SUBSET Address /\ recipients \in [Address -> Nat]
    BY Values DEF Init
  <2> QED BY <2>1, <2>2, <2>3, <2>4, <2>5 DEF AirdropTypes
<1>2. /\ \A r \in Request : request[r].pc = "new"
      /\ \A w \in Worker : tick[w].pc = "idle" /\ tick[w].ledger = 0
  BY Values DEF Init
<1>3. \A r \in Request : ReadsLive(r)
  BY <1>2 DEF ReadsLive
<1>4. \A w \in Worker : TickBehind(w)
  BY <1>2 DEF TickBehind, Init
<1>5. PaidOnce
  <2>1. \A x \in Address : recipients[x] = 0
    BY Values DEF Init
  <2> QED BY <1>2, <2>1 DEF PaidOnce, Pushing
<1>6. AnnouncedOnce
  <2>1. Dispatchers = {} /\ Len(dispatched) = 0 /\ expiries = 0
    BY <1>2 DEF Dispatchers, Init
  <2> QED BY <2>1, FS_EmptySet DEF AnnouncedOnce
<1> QED BY <1>1, <1>3, <1>4, <1>5, <1>6 DEF Inv

\* One request moves on, to new.
RequestTo(r, new) == new \in RequestRecord /\ request' = [request EXCEPT ![r] = new]

LEMMA RequestMoves ==
  ASSUME AirdropTypes, NEW r \in Request, NEW new, RequestTo(r, new)
  PROVE  /\ request' \in [Request -> RequestRecord] /\ request'[r] = new
         /\ \A q \in Request \ {r} : request'[q] = request[q]
BY DEF AirdropTypes, RequestTo

\* The operation ends.
Closed == [NewRequest EXCEPT !.pc = "done"]

LEMMA ClosedIs == Closed \in RequestRecord /\ Closed.pc = "done"
BY Values DEF Closed, RequestRecord

LEMMA CloseMoves == ASSUME NEW r \in Request, Close(r) PROVE RequestTo(r, Closed)
BY ClosedIs DEF Close, RequestTo, Closed

\* A step of the expiry job's part alone, or of nobody, keeps what requests
\* rely on.
LEMMA TicksRest ==
  ASSUME Inv, UNCHANGED <<tick, ledger, dispatched, expiries>>
  PROVE  (\A w \in Worker : TickBehind(w)') /\ AnnouncedOnce'
<1>1. Dispatchers' = Dispatchers
  BY DEF Dispatchers
<1> QED BY <1>1 DEF Inv, TickBehind, AnnouncedOnce

\* A request that is not pushing moves to where it pushes nothing, and neither
\* list changes.
LEMMA QuietRequest ==
  ASSUME Inv, NEW r \in Request, NEW new, RequestTo(r, new), new.pc # "addPush",
         new.pc \in {"updateSet", "cancelSet"} =>
           new.read \in Stored /\ new.read.status \notin Terminal,
         record' \in Stored \cup {Absent},
         record' = Absent => record = Absent /\ (removed \/ new.pc \in {"new", "done"}),
         UNCHANGED <<addresses, recipients, ledger, tick, dispatched, expiries, removed>>
  PROVE  Inv'
<1>1. /\ request' \in [Request -> RequestRecord] /\ request'[r] = new
      /\ \A q \in Request \ {r} : request'[q] = request[q]
  BY RequestMoves DEF Inv
<1>2. AirdropTypes'
  BY <1>1 DEF Inv, AirdropTypes
<1>3. \A q \in Request : ReadsLive(q)'
  BY <1>1 DEF Inv, ReadsLive
<1>4. ~removed => PaidOnce'
  <2> SUFFICES ASSUME ~removed PROVE PaidOnce'
    OBVIOUS
  <2>1. \A q \in Request : Pushing(q)' => Pushing(q) /\ request'[q] = request[q]
    BY <1>1 DEF Pushing
  <2>2. record' = Absent => \A q \in Request : request'[q].pc \in {"new", "done"}
    BY <1>1 DEF Inv, PaidOnce
  <2> QED BY <2>1, <2>2 DEF Inv, PaidOnce
<1> QED BY <1>2, <1>3, <1>4, TicksRest DEF Inv

LEMMA CreateKeeps ==
  ASSUME Inv, NEW l \in Ledgers, NEW expiry \in Ledgers, NEW batch \in Bodies, Create(l, expiry, batch)
  PROVE  Inv'
<1>1. /\ record = Absent /\ ~removed /\ record' = [status |-> "draft", expiry |-> expiry]
      /\ addresses' = batch /\ recipients' = Push(NoRecipients, batch)
      /\ UNCHANGED <<ledger, request, tick, removed, dispatched, expiries>>
  BY DEF Create, rest
<1>2. record' \in Stored
  <2>1. expiry \in Nat
    BY AirdropsConfig DEF Ledgers
  <2> QED BY <1>1, <2>1 DEF Stored, Live
<1>3. /\ recipients' \in [Address -> Nat]
      /\ \A x \in Address : recipients'[x] = IF x \in batch THEN 1 ELSE 0
  BY <1>1, Values DEF Push
<1>4. AirdropTypes'
  BY <1>1, <1>2, <1>3 DEF Inv, AirdropTypes, Bodies
<1>5. \A r \in Request : request[r].pc \in {"new", "done"}
  BY <1>1 DEF Inv, PaidOnce
<1>6. PaidOnce'
  BY <1>1, <1>2, <1>3, <1>5, Values DEF PaidOnce, Pushing
<1>7. \A r \in Request : ReadsLive(r)'
  BY <1>1 DEF Inv, ReadsLive
<1> QED BY <1>1, <1>4, <1>6, <1>7, TicksRest DEF Inv

LEMMA UpdateGetKeeps ==
  ASSUME Inv, NEW r \in Request, NEW l \in Ledgers, NEW expiry \in Ledgers \cup {None},
         UpdateGet(r, l, expiry)
  PROVE  Inv'
<1>0. /\ UNCHANGED <<record, addresses, recipients, ledger, tick, dispatched, expiries, removed>>
      /\ record \in Stored \cup {Absent} /\ request[r] \in RequestRecord
  BY DEF UpdateGet, lists, rest, Inv, AirdropTypes
<1>1. CASE Close(r)
  BY <1>0, <1>1, CloseMoves, ClosedIs, QuietRequest
<1>2. CASE /\ record # Absent /\ record.status \notin Terminal
           /\ request' = [request EXCEPT ![r].pc = "updateSet", ![r].read = record, ![r].expiry = expiry]
  <2> DEFINE new == [request[r] EXCEPT !.pc = "updateSet", !.read = record, !.expiry = expiry]
  <2>1. expiry \in Nat \cup {None}
    BY AirdropsConfig DEF Ledgers
  <2>2. new \in RequestRecord /\ new.pc = "updateSet" /\ new.read = record
    BY <1>0, <2>1 DEF RequestRecord
  <2>3. RequestTo(r, new)
    BY <1>2, <2>2 DEF RequestTo, Inv, AirdropTypes
  <2> HIDE DEF new
  <2> QED BY <1>0, <1>2, <2>2, <2>3, QuietRequest
<1> QED BY <1>1, <1>2 DEF UpdateGet

LEMMA CancelGetKeeps == ASSUME Inv, NEW r \in Request, CancelGet(r) PROVE Inv'
<1>0. /\ UNCHANGED <<record, addresses, recipients, ledger, tick, dispatched, expiries, removed>>
      /\ record \in Stored \cup {Absent} /\ request[r] \in RequestRecord
  BY DEF CancelGet, lists, rest, Inv, AirdropTypes
<1>1. CASE Close(r)
  BY <1>0, <1>1, CloseMoves, ClosedIs, QuietRequest
<1>2. CASE /\ record # Absent /\ record.status \notin Terminal
           /\ request' = [request EXCEPT ![r].pc = "cancelSet", ![r].read = record]
  <2> DEFINE new == [request[r] EXCEPT !.pc = "cancelSet", !.read = record]
  <2>1. new \in RequestRecord /\ new.pc = "cancelSet" /\ new.read = record
    BY <1>0 DEF RequestRecord
  <2>2. RequestTo(r, new)
    BY <1>2, <2>1 DEF RequestTo, Inv, AirdropTypes
  <2> HIDE DEF new
  <2> QED BY <1>0, <1>2, <2>1, <2>2, QuietRequest
<1> QED BY <1>1, <1>2 DEF CancelGet

LEMMA SetKeeps ==
  ASSUME Inv, NEW r \in Request, UpdateSet(r) \/ CancelSet(r)
  PROVE  Inv' /\ (UpdateSet(r) => record'.status \notin Terminal)
              /\ (CancelSet(r) => record'.status = "cancelled")
<1>0. /\ UNCHANGED <<addresses, recipients, ledger, tick, dispatched, expiries, removed>>
      /\ Close(r) /\ request[r] \in RequestRecord
      /\ request[r].read \in Stored /\ request[r].read.status \notin Terminal
  BY DEF UpdateSet, CancelSet, lists, rest, Inv, AirdropTypes, ReadsLive
<1>1. request[r].expiry \in Nat \cup {None}
  BY <1>0 DEF RequestRecord
<1>2. UpdateSet(r) => record' \in Stored /\ record'.status \notin Terminal
  BY <1>0, <1>1 DEF UpdateSet, Stored
<1>3. CancelSet(r) => record' \in Stored /\ record'.status = "cancelled"
  BY <1>0 DEF CancelSet, Stored, Live
<1>4. record' \in Stored /\ record' # Absent
  BY <1>2, <1>3, Values
<1> QED BY <1>0, <1>2, <1>3, <1>4, CloseMoves, ClosedIs, QuietRequest

LEMMA RemoveGetKeeps == ASSUME Inv, NEW r \in Request, RemoveGet(r) PROVE Inv'
<1>0. /\ UNCHANGED <<record, addresses, recipients, ledger, tick, dispatched, expiries, removed>>
      /\ record \in Stored \cup {Absent} /\ request[r] \in RequestRecord
  BY DEF RemoveGet, lists, rest, Inv, AirdropTypes
<1>1. CASE Close(r)
  BY <1>0, <1>1, CloseMoves, ClosedIs, QuietRequest
<1>2. CASE record # Absent /\ request' = [request EXCEPT ![r].pc = "removeExec"]
  <2> DEFINE new == [request[r] EXCEPT !.pc = "removeExec"]
  <2>1. new \in RequestRecord /\ new.pc = "removeExec"
    BY <1>0 DEF RequestRecord
  <2>2. RequestTo(r, new)
    BY <1>2, <2>1 DEF RequestTo, Inv, AirdropTypes
  <2> HIDE DEF new
  <2> QED BY <1>0, <1>2, <2>1, <2>2, QuietRequest
<1> QED BY <1>1, <1>2 DEF RemoveGet

LEMMA RemoveExecKeeps == ASSUME Inv, NEW r \in Request, RemoveExec(r) PROVE Inv'
<1>0. /\ record' = Absent /\ addresses' = {} /\ recipients' = NoRecipients /\ removed' = TRUE
      /\ UNCHANGED <<ledger, tick, dispatched, expiries>> /\ Close(r)
  BY DEF RemoveExec, rest
<1>1. /\ request' \in [Request -> RequestRecord] /\ request'[r] = Closed
      /\ \A q \in Request \ {r} : request'[q] = request[q]
  BY <1>0, CloseMoves, RequestMoves DEF Inv
<1>2. AirdropTypes'
  BY <1>0, <1>1, Values DEF Inv, AirdropTypes
<1>3. \A q \in Request : ReadsLive(q)'
  BY <1>1, ClosedIs DEF Inv, ReadsLive
<1> QED BY <1>0, <1>2, <1>3, TicksRest DEF Inv

LEMMA AddGetKeeps ==
  ASSUME Inv, NEW r \in Request, NEW batch \in Bodies, AddGet(r, batch) PROVE Inv'
<1>0. /\ UNCHANGED <<record, addresses, recipients, ledger, tick, dispatched, expiries, removed>>
      /\ record \in Stored \cup {Absent} /\ request[r] \in RequestRecord
  BY DEF AddGet, lists, rest, Inv, AirdropTypes
<1>1. CASE Close(r)
  BY <1>0, <1>1, CloseMoves, ClosedIs, QuietRequest
<1>2. CASE record # Absent /\ request' = [request EXCEPT ![r].pc = "addSadd", ![r].batch = batch]
  <2> DEFINE new == [request[r] EXCEPT !.pc = "addSadd", !.batch = batch]
  <2>1. new \in RequestRecord /\ new.pc = "addSadd"
    BY <1>0 DEF RequestRecord, Bodies
  <2>2. RequestTo(r, new)
    BY <1>2, <2>1 DEF RequestTo, Inv, AirdropTypes
  <2> HIDE DEF new
  <2> QED BY <1>0, <1>2, <2>1, <2>2, QuietRequest
<1> QED BY <1>1, <1>2 DEF AddGet

\* SADD tells each new address to one request only.
LEMMA AddSaddKeeps == ASSUME Inv, NEW r \in Request, AddSadd(r) PROVE Inv'
<1>0. /\ UNCHANGED <<record, recipients, ledger, tick, dispatched, expiries, removed>>
      /\ request[r] \in RequestRecord /\ request[r].pc = "addSadd" /\ request[r].batch \in SUBSET Address
      /\ addresses \in SUBSET Address
  BY DEF AddSadd, rest, Inv, AirdropTypes, RequestRecord
<1>1. PICK batch \in SUBSET Address, fresh \in SUBSET Address, p \in {"done", "addPush"} :
        /\ batch = request[r].batch /\ fresh = batch \ addresses /\ addresses' = addresses \cup batch
        /\ request' = [request EXCEPT ![r].pc = p, ![r].batch = fresh]
  <2>1. request[r].batch \ addresses \in SUBSET Address
    BY <1>0
  <2> QED BY <1>0, <2>1 DEF AddSadd
<1> DEFINE new == [request[r] EXCEPT !.pc = p, !.batch = fresh]
<1>2. new \in RequestRecord /\ new.pc = p /\ new.batch = fresh
  BY <1>0 DEF RequestRecord
<1>3. RequestTo(r, new)
  BY <1>1, <1>2 DEF RequestTo, Inv, AirdropTypes
<1> HIDE DEF new
<1>4. /\ request' \in [Request -> RequestRecord] /\ request'[r] = new
      /\ \A q \in Request \ {r} : request'[q] = request[q]
  BY <1>3, RequestMoves DEF Inv
<1>5. AirdropTypes'
  BY <1>0, <1>1, <1>4 DEF Inv, AirdropTypes
<1>6. \A q \in Request : ReadsLive(q)'
  BY <1>2, <1>4 DEF Inv, ReadsLive
<1>7. ~removed => PaidOnce'
  <2> SUFFICES ASSUME ~removed PROVE PaidOnce'
    OBVIOUS
  <2>0. PaidOnce /\ recipients \in [Address -> Nat]
    BY DEF Inv, AirdropTypes
  <2>1. \A q \in Request \ {r} : Pushing(q)' => Pushing(q) /\ request'[q] = request[q]
    BY <1>4 DEF Pushing
  <2>2. \A x \in fresh : x \in addresses' /\ recipients[x] = 0
    <3> SUFFICES ASSUME NEW x \in fresh PROVE x \in addresses' /\ recipients[x] = 0
      OBVIOUS
    <3>1. x \in Address /\ x \notin addresses /\ x \in addresses' /\ recipients[x] \in Nat
      BY <1>1, <2>0
    <3>2. recipients[x] <= 1 /\ recipients[x] # 1
      BY <2>0, <3>1 DEF PaidOnce
    <3> QED BY <3>1, <3>2
  <2>3. \A q \in Request \ {r} : Pushing(q) => request[q].batch \subseteq addresses
    BY <2>0 DEF PaidOnce
  <2>4. \A q \in Request \ {r} : Pushing(q) => request[q].batch \cap fresh = {}
    BY <1>1, <2>3
  <2>5. /\ \A x \in Address : recipients[x] <= 1 /\ (recipients[x] = 1 => x \in addresses')
        /\ record # Absent
    BY <1>0, <1>1, <2>0 DEF PaidOnce
  <2>6. \A q \in Request : Pushing(q)' => \A x \in request'[q].batch : x \in addresses' /\ recipients[x] = 0
    BY <1>1, <1>2, <1>4, <2>0, <2>1, <2>2 DEF PaidOnce
  <2>7. \A q, s \in Request : Pushing(q)' /\ Pushing(s)' /\ q # s
                                => request'[q].batch \cap request'[s].batch = {}
    BY <1>2, <1>4, <2>0, <2>1, <2>4 DEF PaidOnce
  <2> QED BY <1>0, <2>5, <2>6, <2>7 DEF PaidOnce
<1> QED BY <1>0, <1>5, <1>6, <1>7, TicksRest DEF Inv

LEMMA AddPushKeeps == ASSUME Inv, NEW r \in Request, AddPush(r) PROVE Inv'
<1>0. /\ UNCHANGED <<record, addresses, ledger, tick, dispatched, expiries, removed>>
      /\ request[r].pc = "addPush" /\ request[r].batch \in SUBSET Address
      /\ recipients' = Push(recipients, request[r].batch) /\ Close(r)
      /\ recipients \in [Address -> Nat]
  BY DEF AddPush, rest, Inv, AirdropTypes, RequestRecord
<1>1. /\ request' \in [Request -> RequestRecord] /\ request'[r] = Closed
      /\ \A q \in Request \ {r} : request'[q] = request[q]
  BY <1>0, CloseMoves, RequestMoves DEF Inv
<1>2. /\ recipients' \in [Address -> Nat]
      /\ \A x \in request[r].batch : recipients'[x] = recipients[x] + 1
      /\ \A x \in Address \ request[r].batch : recipients'[x] = recipients[x]
  BY <1>0 DEF Push
<1>3. AirdropTypes'
  BY <1>0, <1>1, <1>2 DEF Inv, AirdropTypes
<1>4. \A q \in Request : ReadsLive(q)'
  BY <1>1, ClosedIs DEF Inv, ReadsLive
<1>5. ~removed => PaidOnce'
  <2> SUFFICES ASSUME ~removed PROVE PaidOnce'
    OBVIOUS
  <2>0. PaidOnce
    BY DEF Inv
  <2>1. \A q \in Request : Pushing(q)' => Pushing(q) /\ q # r /\ request'[q] = request[q]
    BY <1>1, ClosedIs DEF Pushing
  <2>2. Pushing(r)
    BY <1>0 DEF Pushing
  <2>3. \A x \in request[r].batch : recipients'[x] = 1 /\ x \in addresses
    BY <1>2, <2>0, <2>2 DEF PaidOnce
  <2>4. \A x \in Address : recipients'[x] <= 1 /\ (recipients'[x] = 1 => x \in addresses)
    BY <1>2, <2>0, <2>3 DEF PaidOnce
  <2>5. \A q \in Request : Pushing(q)' => \A x \in request'[q].batch : x \in addresses /\ recipients'[x] = 0
    <3> SUFFICES ASSUME NEW q \in Request, Pushing(q)', NEW x \in request[q].batch
                 PROVE  x \in addresses /\ recipients'[x] = 0
      BY <2>1
    <3>1. x \in addresses /\ recipients[x] = 0 /\ x \notin request[r].batch
      BY <2>0, <2>1, <2>2 DEF PaidOnce
    <3>2. x \in Address
      BY <3>1 DEF Inv, AirdropTypes
    <3> QED BY <1>2, <3>1, <3>2
  <2>6. \A q, s \in Request : Pushing(q)' /\ Pushing(s)' /\ q # s
                                => request'[q].batch \cap request'[s].batch = {}
    BY <2>0, <2>1 DEF PaidOnce
  <2>7. record # Absent
    BY <1>0, <2>0 DEF PaidOnce
  <2> QED BY <1>0, <2>4, <2>5, <2>6, <2>7 DEF PaidOnce
<1> QED BY <1>0, <1>3, <1>4, <1>5, TicksRest DEF Inv

LEMMA AbortKeeps == ASSUME Inv, NEW r \in Request, AbortRequest(r) PROVE Inv'
<1>0. /\ UNCHANGED <<record, addresses, recipients, ledger, tick, dispatched, expiries, removed>>
      /\ record \in Stored \cup {Absent} /\ Close(r)
  BY DEF AbortRequest, lists, Inv, AirdropTypes
<1> QED BY <1>0, CloseMoves, ClosedIs, QuietRequest

LEMMA RequestStepKeeps == ASSUME Inv, NEW r \in Request, RequestStep(r) PROVE Inv'
BY UpdateGetKeeps, SetKeeps, CancelGetKeeps, RemoveGetKeeps, RemoveExecKeeps, AddGetKeeps,
   AddSaddKeeps, AddPushKeeps, AbortKeeps DEF RequestStep

-----------------------------------------------------------------------------
(* The expiry job. *)

\* One tick moves on, to new.
TickTo(w, new) == new \in TickRecord /\ tick' = [tick EXCEPT ![w] = new]

LEMMA TickMoves ==
  ASSUME AirdropTypes, NEW w \in Worker, NEW new, TickTo(w, new)
  PROVE  /\ tick' \in [Worker -> TickRecord] /\ tick'[w] = new
         /\ \A v \in Worker \ {w} : tick'[v] = tick[v]
         /\ new.pc = "dispatch" => Dispatchers' = Dispatchers \cup {w}
         /\ new.pc # "dispatch" => Dispatchers' = Dispatchers \ {w}
<1>1. /\ tick' \in [Worker -> TickRecord] /\ tick'[w] = new
      /\ \A v \in Worker \ {w} : tick'[v] = tick[v]
  BY DEF AirdropTypes, TickTo
<1>2. new.pc = "dispatch" => Dispatchers' = Dispatchers \cup {w}
  BY <1>1 DEF Dispatchers
<1>3. new.pc # "dispatch" => Dispatchers' = Dispatchers \ {w}
  BY <1>1 DEF Dispatchers
<1> QED BY <1>1, <1>2, <1>3

\* Ending a tick is always allowed.
LEMMA TickEnds ==
  ASSUME NEW w \in Worker, tick' = [tick EXCEPT ![w] = NoTick]
  PROVE  TickTo(w, NoTick)
BY Values DEF TickTo

\* A tick that does not go on to dispatch: fewer dispatchers, and no fewer
\* expiries.
LEMMA TickKeeps ==
  ASSUME Inv, NEW w \in Worker, NEW new, TickTo(w, new), new.ledger <= ledger,
         record' \in Stored \cup {Absent}, record' = Absent => record = Absent,
         UNCHANGED <<addresses, recipients, ledger, request, removed>>,
         dispatched' \in Seq(Nat), expiries' \in Nat,
         Len(dispatched') + Cardinality(Dispatchers') <= expiries'
  PROVE  Inv'
<1>1. tick' \in [Worker -> TickRecord] /\ tick'[w] = new /\ \A v \in Worker \ {w} : tick'[v] = tick[v]
  BY TickMoves DEF Inv
<1>2. AirdropTypes'
  BY <1>1 DEF Inv, AirdropTypes
<1>3. \A r \in Request : ReadsLive(r)'
  BY DEF Inv, ReadsLive
<1>4. \A v \in Worker : TickBehind(v)'
  BY <1>1 DEF Inv, TickBehind
<1>5. ~removed => PaidOnce'
  BY DEF Inv, PaidOnce, Pushing
<1>6. AnnouncedOnce'
  BY DEF AnnouncedOnce
<1> QED BY <1>2, <1>3, <1>4, <1>5, <1>6 DEF Inv

\* The counts, before a step.
LEMMA Counts ==
  ASSUME Inv
  PROVE  /\ expiries \in Nat /\ Len(dispatched) \in Nat /\ Cardinality(Dispatchers) \in Nat
         /\ IsFiniteSet(Dispatchers) /\ Len(dispatched) + Cardinality(Dispatchers) <= expiries
BY DispatchersFinite, LenProperties DEF Inv, AirdropTypes, AnnouncedOnce

\* A tick that was not about to dispatch and is not now.
LEMMA QuietTick ==
  ASSUME Inv, NEW w \in Worker, NEW new, TickTo(w, new), new.ledger <= ledger, new.pc # "dispatch",
         UNCHANGED <<record, addresses, recipients, ledger, request, removed, dispatched>>,
         expiries' \in Nat, expiries' >= expiries
  PROVE  Inv'
<1>1. Dispatchers' = Dispatchers \ {w}
  BY TickMoves DEF Inv
<1>2. Cardinality(Dispatchers') <= Cardinality(Dispatchers) /\ Cardinality(Dispatchers') \in Nat
  BY <1>1, Counts, FS_Subset, FS_CardinalityType
<1>3. Len(dispatched) + Cardinality(Dispatchers') <= expiries'
  BY <1>2, Counts
<1>4. record \in Stored \cup {Absent} /\ dispatched \in Seq(Nat)
  BY DEF Inv, AirdropTypes
<1> QED BY <1>3, <1>4, TickKeeps

LEMMA TickStartKeeps == ASSUME Inv, NEW w \in Worker, NEW l \in Ledgers, TickStart(w, l) PROVE Inv'
<1> DEFINE new == [pc |-> "get", ledger |-> l]
<1>1. l \in Nat /\ l <= ledger
  BY AirdropsConfig DEF Ledgers, TickStart, LedgerRead, Inv, AirdropTypes
<1>2. new \in TickRecord /\ new.pc = "get" /\ new.ledger = l
  BY <1>1 DEF TickRecord
<1>3. TickTo(w, new)
  BY <1>2 DEF TickTo, TickStart
<1> HIDE DEF new
<1>4. /\ UNCHANGED <<record, addresses, recipients, ledger, request, removed, dispatched>>
      /\ expiries' = expiries
  BY DEF TickStart, lists, rest
<1> QED BY <1>1, <1>2, <1>3, <1>4, Counts, QuietTick

LEMMA TickGetKeeps == ASSUME Inv, NEW w \in Worker, TickGet(w) PROVE Inv'
<1>0. /\ UNCHANGED <<record, addresses, recipients, ledger, request, removed, dispatched>>
      /\ expiries' = expiries /\ tick[w] \in TickRecord /\ tick[w].ledger <= ledger /\ ledger \in Nat
  BY DEF TickGet, lists, rest, Inv, AirdropTypes, TickBehind
<1>1. CASE tick' = [tick EXCEPT ![w] = NoTick]
  <2>1. TickTo(w, NoTick) /\ NoTick.pc # "dispatch" /\ NoTick.ledger <= ledger
    <3>1. TickTo(w, NoTick)
      BY <1>1, TickEnds
    <3>2. NoTick.pc # "dispatch" /\ NoTick.ledger = 0
      BY Values
    <3>3. 0 <= ledger
      BY <1>0
    <3> QED BY <3>1, <3>2, <3>3
  <2>2. expiries' \in Nat /\ expiries' >= expiries
    BY <1>0, Counts
  <2> QED BY <1>0, <2>1, <2>2, QuietTick
<1>2. CASE tick' = [tick EXCEPT ![w] = [tick[w] EXCEPT !.pc = "mark"]]
  <2> DEFINE new == [tick[w] EXCEPT !.pc = "mark"]
  <2>1. new \in TickRecord /\ new.pc = "mark" /\ new.ledger = tick[w].ledger
    BY <1>0 DEF TickRecord
  <2>2. TickTo(w, new)
    BY <1>2, <2>1 DEF TickTo
  <2> HIDE DEF new
  <2> QED BY <1>0, <2>1, <2>2, Counts, QuietTick
<1>3. tick' = [tick EXCEPT ![w] = NoTick] \/ tick' = [tick EXCEPT ![w] = [tick[w] EXCEPT !.pc = "mark"]]
  BY DEF TickGet, Inv, AirdropTypes
<1> QED BY <1>1, <1>2, <1>3

\* The script's re-check: what it expires was due.
LEMMA MarkKeeps ==
  ASSUME Inv, NEW w \in Worker, MarkExpired(w)
  PROVE  /\ Inv'
         /\ record' # record => record.status \notin Terminal /\ record.expiry <= ledger
<1>0. /\ UNCHANGED <<addresses, recipients, ledger, request, removed, dispatched>>
      /\ tick[w] \in TickRecord /\ tick[w].ledger \in Nat /\ tick[w].ledger <= ledger /\ ledger \in Nat
      /\ tick[w].pc = "mark"
      /\ dispatched \in Seq(Nat) /\ record \in Stored \cup {Absent}
  BY DEF MarkExpired, lists, Inv, AirdropTypes, TickBehind, TickRecord
<1>1. CASE ~Due(tick[w].ledger)
  BY <1>0, <1>1, TickEnds, Values, Counts, QuietTick DEF MarkExpired
<1>2. CASE Due(tick[w].ledger)
  <2>1. /\ record \in Stored /\ record.status \notin Terminal /\ record.expiry <= ledger
    <3>1. record \in Stored /\ record.status \notin Terminal /\ record.expiry <= tick[w].ledger
      BY <1>0, <1>2 DEF Due
    <3>2. record.expiry \in Nat
      BY <3>1 DEF Stored
    <3> QED BY <1>0, <3>1, <3>2
  <2>2. /\ record' = [record EXCEPT !.status = "expired"] /\ expiries' = expiries + 1
        /\ tick' = [tick EXCEPT ![w].pc = "dispatch"] \/ tick' = [tick EXCEPT ![w] = NoTick]
    BY <1>2 DEF MarkExpired
  <2>3. record' \in Stored /\ record' # Absent
    BY <2>1, <2>2, Values DEF Stored, Live
  <2> DEFINE next == [tick[w] EXCEPT !.pc = "dispatch"]
  <2>4. next \in TickRecord /\ next.pc = "dispatch" /\ next.ledger = tick[w].ledger
    BY <1>0 DEF TickRecord
  <2>5. PICK new \in {next, NoTick} : TickTo(w, new)
    BY <2>2, <2>4, TickEnds DEF TickTo, Inv, AirdropTypes
  <2> HIDE DEF next
  <2>6. Dispatchers' \subseteq Dispatchers \cup {w} /\ w \notin Dispatchers
    BY <1>0, <2>5, TickMoves DEF Inv, Dispatchers
  <2>7. Cardinality(Dispatchers') <= Cardinality(Dispatchers) + 1 /\ Cardinality(Dispatchers') \in Nat
    <3>1. /\ IsFiniteSet(Dispatchers \cup {w})
          /\ Cardinality(Dispatchers \cup {w}) = Cardinality(Dispatchers) + 1
      BY <2>6, Counts, FS_AddElement
    <3>2. Cardinality(Dispatchers') <= Cardinality(Dispatchers \cup {w}) /\ IsFiniteSet(Dispatchers')
      BY <2>6, <3>1, FS_Subset
    <3> QED BY <3>1, <3>2, FS_CardinalityType
  <2>8. expiries' \in Nat /\ Len(dispatched) + Cardinality(Dispatchers') <= expiries'
    BY <2>2, <2>7, Counts
  <2>9. new.ledger <= ledger
    BY <1>0, <2>4, <2>5, Values
  <2> QED BY <1>0, <2>1, <2>3, <2>5, <2>8, <2>9, TickKeeps
<1> QED BY <1>1, <1>2

LEMMA DispatchKeeps == ASSUME Inv, NEW w \in Worker, DispatchExpired(w) PROVE Inv'
<1>0. /\ UNCHANGED <<record, addresses, recipients, ledger, request, removed, expiries>>
      /\ tick[w] \in TickRecord /\ tick[w].ledger \in Nat /\ ledger \in Nat /\ tick[w].pc = "dispatch"
      /\ dispatched \in Seq(Nat) /\ record \in Stored \cup {Absent} /\ TickTo(w, NoTick)
  BY TickEnds DEF DispatchExpired, lists, Inv, AirdropTypes, TickRecord
<1>1. /\ dispatched' \in Seq(Nat) /\ Len(dispatched') \in Nat /\ Len(dispatched') <= Len(dispatched) + 1
  <2>1. CASE dispatched' = dispatched
    BY <1>0, <2>1, Counts
  <2>2. CASE dispatched' = Append(dispatched, tick[w].ledger)
    <3>1. PICK l \in Nat : l = tick[w].ledger
      BY <1>0
    <3>2. Append(dispatched, l) \in Seq(Nat) /\ Len(Append(dispatched, l)) = Len(dispatched) + 1
      BY <1>0, AppendProperties
    <3> QED BY <2>2, <3>1, <3>2, Counts
  <2> QED BY <2>1, <2>2 DEF DispatchExpired
<1>2. Dispatchers' = Dispatchers \ {w} /\ w \in Dispatchers
  BY <1>0, TickMoves, Values DEF Inv, Dispatchers
<1>3. Cardinality(Dispatchers') = Cardinality(Dispatchers) - 1
  BY <1>2, Counts, FS_RemoveElement
<1>4. Len(dispatched') + Cardinality(Dispatchers') <= expiries'
  BY <1>0, <1>1, <1>3, Counts
<1>5. expiries' \in Nat /\ NoTick.ledger <= ledger
  BY <1>0, Values, Counts
<1> QED BY <1>0, <1>1, <1>4, <1>5, TickKeeps

LEMMA AbortTickKeeps == ASSUME Inv, NEW w \in Worker, AbortTick(w) PROVE Inv'
<1>1. /\ UNCHANGED <<record, addresses, recipients, ledger, request, removed, dispatched>>
      /\ expiries' = expiries /\ TickTo(w, NoTick) /\ ledger \in Nat
  BY TickEnds DEF AbortTick, lists, Inv, AirdropTypes
<1> QED BY <1>1, Values, Counts, QuietTick

\* Steps that move neither a request nor a tick.
LEMMA RestKeeps ==
  ASSUME Inv, ledger' \in Nat, ledger' >= ledger,
         UNCHANGED <<record, addresses, recipients, request, tick, dispatched, expiries, removed>>
  PROVE  Inv'
<1>1. AirdropTypes'
  BY DEF Inv, AirdropTypes
<1>2. \A w \in Worker : TickBehind(w)'
  <2> SUFFICES ASSUME NEW w \in Worker PROVE tick[w].ledger <= ledger'
    BY DEF TickBehind
  <2>1. tick[w].ledger \in Nat /\ tick[w].ledger <= ledger /\ ledger \in Nat
    BY DEF Inv, AirdropTypes, TickRecord, TickBehind
  <2> QED BY <2>1
<1>3. (~removed => PaidOnce') /\ (\A r \in Request : ReadsLive(r)')
  BY DEF Inv, PaidOnce, Pushing, ReadsLive
<1>4. AnnouncedOnce'
  BY DEF Inv, AnnouncedOnce, Dispatchers
<1> QED BY <1>1, <1>2, <1>3, <1>4 DEF Inv

LEMMA StepInv == ASSUME Inv, [Next]_vars PROVE Inv'
<1>1. ASSUME NEW w \in Worker, TickStep(w) \/ AbortTick(w) PROVE Inv'
  BY <1>1, TickStartKeeps, TickGetKeeps, MarkKeeps, DispatchKeeps, AbortTickKeeps DEF TickStep
<1>2. CASE StartJob \/ StopJob \/ LedgerCloses \/ UNCHANGED vars
  <2>1. /\ ledger \in Nat /\ ledger' \in {ledger, ledger + 1}
        /\ UNCHANGED <<record, addresses, recipients, request, tick, dispatched, expiries, removed>>
    BY <1>2 DEF StartJob, StopJob, LedgerCloses, vars, lists, rest, Inv, AirdropTypes
  <2> QED BY <2>1, RestKeeps
<1> QED BY <1>1, <1>2, CreateKeeps, RequestStepKeeps DEF Next

-----------------------------------------------------------------------------
(* The theorems. *)

\* However requests for the same addresses overlap, addRecipients() appends an
\* address once while the airdrop exists, and however ticks overlap, an expiry
\* is announced once.
THEOREM NothingTwice == Spec => []PaidAndAnnouncedOnce
<1>1. Init => Inv
  BY InitInv
<1>2. Inv /\ [Next]_vars => Inv'
  BY StepInv
<1>3. Inv => PaidAndAnnouncedOnce
  <2> SUFFICES ASSUME Inv PROVE PaidAndAnnouncedOnce
    OBVIOUS
  <2>1. ~removed => \A x \in Address : recipients[x] <= 1
    BY DEF Inv, PaidOnce
  <2>2. Len(dispatched) <= expiries
    BY Counts
  <2> QED BY <2>1, <2>2 DEF PaidAndAnnouncedOnce
<1> QED BY <1>1, <1>2, <1>3, PTL DEF Spec

\* Only MARK_EXPIRED_SCRIPT turns a record into an expired one, and only one
\* that is not terminal and whose expiry ledger has been reached: neither a
\* stale tick nor a late whole-record write of update() or cancel() does.
THEOREM ExpiryIsDue == Spec => ExpiresOnlyWhenDue
<1> DEFINE Fine == record'.status = "expired" /\ record.status # "expired" =>
                     record.status \notin Terminal /\ record.expiry <= ledger
<1>1. ASSUME Inv, [Next]_vars PROVE Fine
  <2>1. ASSUME NEW r \in Request, RequestStep(r) PROVE Fine
    <3>1. CASE UpdateSet(r) \/ CancelSet(r)
      BY <1>1, <3>1, SetKeeps DEF Terminal
    <3>2. CASE RemoveExec(r)
      BY <3>2, Values DEF RemoveExec
    <3>3. CASE ~(UpdateSet(r) \/ CancelSet(r) \/ RemoveExec(r))
      <4>1. record' = record
        BY <2>1, <3>3 DEF RequestStep, UpdateGet, CancelGet, RemoveGet, AddGet, AddSadd, AddPush, AbortRequest
      <4> QED BY <4>1
    <3> QED BY <3>1, <3>2, <3>3
  <2>2. ASSUME NEW w \in Worker, TickStep(w) \/ AbortTick(w) PROVE Fine
    <3>1. CASE MarkExpired(w)
      BY <1>1, <3>1, MarkKeeps
    <3>2. CASE ~MarkExpired(w)
      <4>1. record' = record
        BY <2>2, <3>2 DEF TickStep, TickStart, TickGet, DispatchExpired, AbortTick
      <4> QED BY <4>1
    <3> QED BY <3>1, <3>2
  <2>3. ASSUME NEW l \in Ledgers, NEW expiry \in Ledgers, NEW batch \in Bodies, Create(l, expiry, batch)
        PROVE  Fine
    BY <2>3 DEF Create
  <2>4. CASE StartJob \/ StopJob \/ LedgerCloses \/ UNCHANGED vars
    BY <2>4 DEF StartJob, StopJob, LedgerCloses, vars
  <2> QED BY <1>1, <2>1, <2>2, <2>3, <2>4 DEF Next
<1>2. Inv /\ [Next]_vars => [Fine]_vars
  BY <1>1
<1>3. Init => Inv
  BY InitInv
<1>4. Inv /\ [Next]_vars => Inv'
  BY StepInv
<1> QED BY <1>2, <1>3, <1>4, PTL DEF Spec, ExpiresOnlyWhenDue

-----------------------------------------------------------------------------
(* When an ended airdrop stays ended.  update() and cancel() can bring one *)
(* back, by writing the whole record they read before it ended; nothing    *)
(* else can.                                                               *)

\* A request between the GET and the SET of update() or cancel().
Writing(r) == request[r].pc \in {"updateSet", "cancelSet"}

\* The airdrop is terminal or removed, and no request is about to write it back.
Ended ==
  /\ record.status \in Terminal \/ (record = Absent /\ removed)
  /\ \A r \in Request : ~Writing(r)

LEMMA EndedRequests ==
  ASSUME Inv, Ended, NEW r \in Request, RequestStep(r)
  PROVE  Ended' /\ record' \in {record, Absent}
<1>1. request \in [Request -> RequestRecord] /\ ~Writing(r)
  BY DEF Inv, AirdropTypes, Ended
<1>2. ~UpdateSet(r) /\ ~CancelSet(r)
  BY <1>1 DEF UpdateSet, CancelSet, Writing
<1>3. record = Absent \/ record.status \in Terminal
  BY DEF Ended
<1>4. request'[r].pc \in {"done", "removeExec", "addSadd", "addPush"}
  <2>1. ASSUME Close(r) PROVE request'[r].pc = "done"
    BY <1>1, <2>1 DEF Close
  <2>2. CASE (\E l \in Ledgers, expiry \in Ledgers \cup {None} : UpdateGet(r, l, expiry)) \/ CancelGet(r)
    BY <1>3, <2>1, <2>2 DEF UpdateGet, CancelGet
  <2>3. CASE RemoveGet(r) \/ \E batch \in Bodies \ {{}} : AddGet(r, batch)
    BY <1>1, <2>1, <2>3 DEF RemoveGet, AddGet, RequestRecord
  <2>4. CASE AddSadd(r)
    BY <1>1, <2>4 DEF AddSadd, RequestRecord
  <2>5. CASE RemoveExec(r) \/ AddPush(r) \/ AbortRequest(r)
    BY <2>1, <2>5 DEF RemoveExec, AddPush, AbortRequest
  <2> QED BY <1>2, <2>2, <2>3, <2>4, <2>5 DEF RequestStep
<1>5. \A q \in Request : q # r => request'[q] = request[q]
  <2>1. \/ \E n : request' = [request EXCEPT ![r] = n]
        \/ \E n, s : request' = [request EXCEPT ![r].pc = n, ![r].batch = s]
        \/ \E n : request' = [request EXCEPT ![r].pc = n]
        \/ \E n, s, e : request' = [request EXCEPT ![r].pc = n, ![r].read = s, ![r].expiry = e]
        \/ \E n, s : request' = [request EXCEPT ![r].pc = n, ![r].read = s]
    BY <1>2 DEF RequestStep, UpdateGet, CancelGet, RemoveGet, RemoveExec, AddGet, AddSadd, AddPush,
       AbortRequest, Close
  <2> QED BY <1>1, <2>1
<1>6. \A q \in Request : ~Writing(q)'
  BY <1>4, <1>5 DEF Writing, Ended
<1>7. CASE RemoveExec(r)
  BY <1>6, <1>7 DEF RemoveExec, Ended
<1>8. CASE ~RemoveExec(r)
  <2>1. record' = record /\ removed' = removed
    BY <1>2, <1>8 DEF RequestStep, UpdateGet, CancelGet, RemoveGet, AddGet, AddSadd, AddPush, AbortRequest
  <2> QED BY <1>6, <2>1 DEF Ended
<1> QED BY <1>7, <1>8

LEMMA EndedStep == ASSUME Inv, Ended, [Next]_vars PROVE Ended' /\ record' \in {record, Absent}
<1>1. record = Absent \/ record.status \in Terminal
  BY DEF Ended
<1>2. ASSUME NEW l \in Ledgers, NEW expiry \in Ledgers, NEW batch \in Bodies PROVE ~Create(l, expiry, batch)
  BY Values DEF Create, Ended, Terminal
<1>3. ASSUME NEW w \in Worker, TickStep(w) \/ AbortTick(w) PROVE UNCHANGED <<record, request, removed>>
  <2>1. CASE MarkExpired(w)
    <3>1. ~Due(tick[w].ledger)
      BY <1>1 DEF Due
    <3> QED BY <2>1, <3>1 DEF MarkExpired
  <2>2. CASE ~MarkExpired(w)
    BY <1>3, <2>2 DEF TickStep, TickStart, TickGet, DispatchExpired, AbortTick
  <2> QED BY <2>1, <2>2
<1>4. CASE UNCHANGED <<record, request, removed>>
  BY <1>4 DEF Ended, Writing
<1>5. CASE StartJob \/ StopJob \/ LedgerCloses \/ UNCHANGED vars
  BY <1>4, <1>5 DEF StartJob, StopJob, LedgerCloses, vars
<1> QED BY <1>2, <1>3, <1>4, <1>5, EndedRequests DEF Next

\* Once an airdrop is terminal or removed and no update() or cancel() stands between
\* its read and its write, it stays so for ever: no later request and no tick, however
\* stale, brings it back; it can only still be removed.
THEOREM EndedForGood == Spec => [](Ended => [][record' \in {record, Absent}]_record /\ []Ended)
<1>1. Inv /\ Ended /\ [Next]_vars => Ended' /\ [record' \in {record, Absent}]_record
  BY EndedStep
<1>2. Init => Inv
  BY InitInv
<1>3. Inv /\ [Next]_vars => Inv'
  BY StepInv
<1> QED BY <1>1, <1>2, <1>3, PTL DEF Spec

=============================================================================
