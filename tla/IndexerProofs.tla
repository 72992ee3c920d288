---------------------------- MODULE IndexerProofs ----------------------------
(* Machine-checked proofs about EventIndexer, for any number of replicas,  *)
(* airdrops, ledgers, lagging nodes and faults and every poll limit: first *)
(* that the cursor passes only what a poll has processed (SkipInv), then   *)
(* passes only what is projected (Alone).  Both hold as long as no answer  *)
(* of the RPC ends inside a ledger (WholeLedgers).                         *)
EXTENDS EventIndexer, FiniteSetTheorems, SequenceTheorems, WellFoundedInduction, TLAPS

-----------------------------------------------------------------------------
(* The least and the greatest number of a set *)

LEMMA LeastIs == ASSUME NEW S \in SUBSET Nat, S # {} PROVE \E x \in S : \A y \in S : x <= y
<1>1. PICK x \in S : \A y \in S : ~ (<<y, x>> \in OpToRel(<, Nat))
  BY WFMin, NatLessThanWellFounded, Zenon
<1>2. \A y \in S : ~(y < x)
  BY <1>1, Zenon DEF OpToRel
<1> QED BY <1>2

LEMMA MinIs ==
  ASSUME NEW S \in SUBSET Nat, S # {}
  PROVE  Min(S) \in S /\ \A y \in S : Min(S) <= y
<1>1. \E x \in S : \A y \in S : x <= y
  BY LeastIs
<1> QED BY <1>1 DEF Min

LEMMA MaxIs ==
  ASSUME NEW S \in SUBSET Nat, S # {}, NEW B \in Nat, \A x \in S : x <= B
  PROVE  Max(S) \in S /\ \A y \in S : y <= Max(S)
<1> DEFINE T == {b \in Nat : \A x \in S : x <= b}
<1>1. T \in SUBSET Nat /\ T # {}
  OBVIOUS
<1> HIDE DEF T
<1>2. PICK b \in T : \A c \in T : b <= c
  BY <1>1, LeastIs
<1>2a. b \in Nat /\ \A x \in S : x <= b
  BY <1>2 DEF T
<1>3. b \in S
  <2> SUFFICES ASSUME b \notin S PROVE FALSE
    OBVIOUS
  <2>1. PICK s \in S : TRUE
    OBVIOUS
  <2>2. s \in Nat /\ s < b
    BY <1>2a
  <2>3. \A x \in S : x <= b - 1
    BY <1>2a
  <2>4. b - 1 \in T
    BY <2>2, <2>3, <1>2a DEF T
  <2> QED BY <1>2, <1>2a, <2>4
<1>4. \E x \in S : \A y \in S : x >= y
  BY <1>2a, <1>3
<1> QED BY <1>4 DEF Max

-----------------------------------------------------------------------------
(* The inductive invariant *)

EventRecord == [ledger : Nat, name : EventNames, airdrop : Airdrop]
AirdropStates == {"none", "created", "active", "expired"}
RecipientStates == {"none", "pending", "claimed"}
Reads == AirdropStates \cup RecipientStates \cup Seq(Nat)
PollRecord == [pc : Steps, previous : Nat \cup {None}, todo : SUBSET Nat, next : Nat, read : Reads]

IndexerTypes ==
  /\ chain \in Seq(EventRecord) /\ tip \in 0 .. MaxLedger /\ cursor \in Nat \cup {None}
  /\ airdrop \in [Airdrop -> AirdropStates] /\ recipient \in [Airdrop -> RecipientStates]
  /\ claims \in Seq(Nat) /\ poll \in [Poller -> PollRecord] /\ overlapped \in BOOLEAN

Parsable(x) == x \in DOMAIN chain /\ chain[x].name # "other"
Named(x, names) == chain[x].name \in names

\* Events come in the order of their ledgers, none of them past the open one.
ChainOrdered ==
  /\ \A i, j \in DOMAIN chain : i <= j => chain[i].ledger <= chain[j].ledger
  /\ \A i \in DOMAIN chain : 1 <= chain[i].ledger /\ chain[i].ledger <= tip + 1

\* The first event of an airdrop, and only that one, creates it.
ChainLawful ==
  /\ \A j \in DOMAIN chain : Parsable(j) =>
       \E i \in DOMAIN chain : /\ i <= j /\ chain[i].name = "airdrop_created"
                               /\ chain[i].airdrop = chain[j].airdrop
  /\ \A i, j \in DOMAIN chain :
       chain[i].name = "airdrop_created" /\ Parsable(j) /\ chain[i].airdrop = chain[j].airdrop => i <= j

OneEach(list) == \A i, j \in DOMAIN list : list[i] = list[j] => i = j

Projecting == {"getAirdrop", "setAirdrop", "getRecipient", "setRecipient", "getClaims", "setClaims"}
Working == Projecting \cup {"save", "advance"}

\* What a poll carries is of the type its place calls for.
PollOk(k) ==
  /\ OrZero(k.previous) <= tip /\ k.next <= tip
  /\ \A x \in k.todo : Parsable(x)
  /\ k.pc \in Projecting \cup {"save"} => k.todo # {}
  /\ k.pc = "setAirdrop" => k.read \in AirdropStates
  /\ k.pc = "setRecipient" => k.read \in RecipientStates
  /\ k.pc = "setClaims" => k.read \in Seq(Nat) /\ OneEach(k.read)
  /\ k.pc \in {"getRecipient", "setRecipient"} => Named(Min(k.todo), {"recipient_added", "token_claimed"})
  /\ k.pc \in {"getClaims", "setClaims"} => Named(Min(k.todo), {"token_claimed"})

\* Every event a poll may pass is saved, or about to be, or its raw write failed.
SavesAll(k) ==
  k.pc \in Working => \A x \in DOMAIN chain :
    Parsable(x) /\ OrZero(k.previous) < chain[x].ledger /\ chain[x].ledger <= k.next
      => x \in saved \cup dropped \/ (k.pc = "save" /\ x \in k.todo)

SkipInv ==
  /\ IndexerTypes /\ ChainOrdered /\ ChainLawful
  /\ OrZero(cursor) <= tip
  /\ \A p \in Poller : PollOk(poll[p]) /\ SavesAll(poll[p])
  /\ NoEventSkipped /\ OneEach(claims)

-----------------------------------------------------------------------------
(* What an answer of the RPC holds *)

LEMMA OrZeroIs == \A l \in Nat \cup {None} : OrZero(l) \in Nat
BY IndexerConfig DEF OrZero

LEMMA ChainFinite ==
  ASSUME chain \in Seq(EventRecord), NEW S \in SUBSET DOMAIN chain
  PROVE  IsFiniteSet(S) /\ Cardinality(S) \in Nat /\ S \in SUBSET Nat
<1>1. DOMAIN chain = 1 .. Len(chain) /\ Len(chain) \in Nat
  OBVIOUS
<1>2. IsFiniteSet(DOMAIN chain)
  BY <1>1, FS_Interval
<1> QED BY <1>1, <1>2, FS_Subset, FS_CardinalityType

LEMMA ChainIs ==
  ASSUME chain \in Seq(EventRecord), NEW k \in DOMAIN chain
  PROVE  k \in Nat /\ chain[k].ledger \in Nat /\ chain[k].name \in EventNames /\ chain[k].airdrop \in Airdrop
<1>1. DOMAIN chain = 1 .. Len(chain) /\ Len(chain) \in Nat
  OBVIOUS
<1>2. k \in Nat
  BY <1>1
<1>3. chain[k] \in EventRecord
  BY <1>1, ElementOfSeq
<1> QED BY <1>2, <1>3 DEF EventRecord

\* A batch that is not full holds every event of its range; one that is full, and
\* does not end inside a ledger, every event up to the last ledger it holds.
LEMMA BatchIs ==
  ASSUME SkipInv, WholeLedgers, NEW previous \in 0..MaxLedger \cup {None}, NEW view \in 0..MaxLedger,
         NEW x \in DOMAIN chain, OrZero(previous) < chain[x].ledger,
         NEW b, b = Batch(previous, view)
  PROVE  /\ b \in SUBSET DOMAIN chain /\ Cardinality(b) \in Nat
         /\ \A m \in b : OrZero(previous) < chain[m].ledger /\ chain[m].ledger <= view
         /\ Cardinality(b) < PollLimit /\ chain[x].ledger <= view => x \in b
         /\ \A m \in b : chain[x].ledger <= chain[m].ledger => x \in b
<1> DEFINE start == IF previous = None THEN 0 ELSE previous + 1
           matching == {k \in DOMAIN chain : chain[k].ledger \in start..view}
           Below(k) == {j \in matching : j < k}
<1>0. /\ chain \in Seq(EventRecord) /\ \A k \in DOMAIN chain : k \in Nat /\ chain[k].ledger \in Nat
      /\ start \in Nat /\ PollLimit \in Nat
  <2>1. chain \in Seq(EventRecord) /\ \A k \in DOMAIN chain : k \in Nat /\ chain[k].ledger \in Nat
    BY ChainIs DEF SkipInv, IndexerTypes
  <2>2. start \in Nat /\ PollLimit \in Nat
    BY IndexerConfig
  <2> QED BY <2>1, <2>2
<1>1. b = {k \in matching : Cardinality(Below(k)) < PollLimit}
  BY DEF Batch
<1>2. \A k \in DOMAIN chain : OrZero(previous) < chain[k].ledger <=> start <= chain[k].ledger
  BY <1>0, IndexerConfig DEF OrZero, SkipInv, ChainOrdered
<1>3. \A k : k \in matching <=> k \in DOMAIN chain /\ start <= chain[k].ledger /\ chain[k].ledger <= view
  BY <1>0
<1>4. \A k : Below(k) \in SUBSET DOMAIN chain
  OBVIOUS
<1>5. \A k, l \in DOMAIN chain : k <= l => Cardinality(Below(k)) <= Cardinality(Below(l))
  <2> SUFFICES ASSUME NEW k \in DOMAIN chain, NEW l \in DOMAIN chain, k <= l
               PROVE  Cardinality(Below(k)) <= Cardinality(Below(l))
    OBVIOUS
  <2>1. Below(k) \subseteq Below(l)
    BY <1>0
  <2>2. IsFiniteSet(Below(l))
    BY <1>0, <1>4, ChainFinite
  <2> HIDE DEF Below
  <2> QED BY <2>1, <2>2, FS_Subset
<1> HIDE DEF matching, Below, start
<1>6. b \in SUBSET DOMAIN chain /\ IsFiniteSet(b) /\ Cardinality(b) \in Nat
  <2>1. b \in SUBSET DOMAIN chain
    BY <1>1, <1>3
  <2> QED BY <1>0, <2>1, ChainFinite
<1>7. \A m \in b : OrZero(previous) < chain[m].ledger /\ chain[m].ledger <= view
  BY <1>1, <1>2, <1>3
<1>8. ASSUME Cardinality(b) < PollLimit, chain[x].ledger <= view PROVE x \in b
  <2> SUFFICES ASSUME x \notin b PROVE FALSE
    OBVIOUS
  <2> DEFINE missing == matching \ b
  <2>1. x \in missing /\ missing \in SUBSET DOMAIN chain
    BY <1>2, <1>3, <1>8
  <2> HIDE DEF missing
  <2>2. missing \in SUBSET Nat /\ missing # {}
    BY <1>0, <2>1
  <2>3. PICK k \in missing : \A y \in missing : k <= y
    BY <2>2, LeastIs
  <2>4. Below(k) \subseteq b
    BY <1>0, <1>3, <2>1, <2>3 DEF missing, Below
  <2>5. Cardinality(Below(k)) <= Cardinality(b) /\ Cardinality(Below(k)) \in Nat
    BY <1>6, <2>4, FS_Subset, FS_CardinalityType
  <2>6. ~(Cardinality(Below(k)) < PollLimit)
    BY <1>1, <2>3 DEF missing
  <2> QED BY <1>0, <1>6, <1>8, <2>5, <2>6
<1>9. ASSUME NEW m \in b, chain[x].ledger <= chain[m].ledger PROVE x \in b
  <2>1. m \in DOMAIN chain /\ Cardinality(Below(m)) < PollLimit /\ chain[m].ledger <= view
    BY <1>1, <1>3
  <2>2. CASE chain[x].ledger = chain[m].ledger
    BY <2>2 DEF WholeLedgers
  <2>3. CASE chain[x].ledger < chain[m].ledger
    <3>1. x < m
      <4>1. m <= x => chain[m].ledger <= chain[x].ledger
        BY <2>1 DEF SkipInv, ChainOrdered
      <4> QED BY <1>0, <2>1, <2>3, <4>1
    <3>2. Cardinality(Below(x)) <= Cardinality(Below(m))
      BY <1>0, <1>5, <2>1, <3>1
    <3>3. Cardinality(Below(x)) \in Nat /\ Cardinality(Below(m)) \in Nat
      BY <1>0, <1>4, ChainFinite
    <3>4. x \in matching
      BY <1>0, <1>2, <1>3, <2>1, <2>3
    <3> QED BY <1>0, <1>1, <2>1, <3>2, <3>3, <3>4
  <2> QED BY <1>0, <1>9, <2>1, <2>2, <2>3
<1> QED BY <1>6, <1>7, <1>8, <1>9

\* A poll alone moves, to new.
PollTo(p, new) == new \in PollRecord /\ poll' = [poll EXCEPT ![p] = new]

LEMMA PollMoves ==
  ASSUME poll \in [Poller -> PollRecord], NEW p \in Poller, NEW new, PollTo(p, new)
  PROVE  poll' \in [Poller -> PollRecord] /\ poll'[p] = new /\ \A q \in Poller : q # p => poll'[q] = poll[q]
BY DEF PollTo

LEMMA PollIs ==
  ASSUME poll \in [Poller -> PollRecord], NEW p \in Poller
  PROVE  /\ poll[p] \in PollRecord /\ poll[p].pc \in Steps /\ poll[p].previous \in Nat \cup {None}
         /\ poll[p].todo \in SUBSET Nat /\ poll[p].next \in Nat /\ poll[p].read \in Reads
BY DEF PollRecord

LEMMA IdleIs ==
  /\ Idle \in PollRecord /\ Idle.pc = "idle" /\ Idle.previous = None /\ Idle.todo = {} /\ Idle.next = 0
  /\ Idle.read = "none"
BY DEF Idle, PollRecord, Steps, Reads, AirdropStates

\* The cursor a poll computes: every event up to it is behind the old one or in
\* the batch.
LEMMA NextCursorIs ==
  ASSUME SkipInv, WholeLedgers, NEW previous \in 0..MaxLedger \cup {None}, OrZero(previous) <= tip,
         NEW view \in 0..MaxLedger, view <= tip,
         NEW b, b = Batch(previous, view), NEW next, next = NextCursor(previous, view, b)
  PROVE  /\ next \in Nat /\ next <= tip
         /\ \A x \in Parsed(b) : x \in DOMAIN chain /\ Parsable(x) /\ OrZero(previous) < chain[x].ledger
         /\ \A x \in DOMAIN chain :
              Parsable(x) /\ OrZero(previous) < chain[x].ledger /\ chain[x].ledger <= next => x \in Parsed(b)
<1> DEFINE base == IF Cardinality(b) >= PollLimit \/ view = 0 THEN OrZero(previous) ELSE view
           L == {chain[k].ledger : k \in Parsed(b)}
           S == {base} \cup L
<1>0. /\ \A k \in DOMAIN chain : k \in Nat /\ chain[k].ledger \in Nat
      /\ tip \in Nat /\ view \in Nat /\ OrZero(previous) \in Nat /\ PollLimit \in Nat
  <2>1. \A k \in DOMAIN chain : k \in Nat /\ chain[k].ledger \in Nat
    BY ChainIs DEF SkipInv, IndexerTypes
  <2>2. tip \in Nat /\ view \in Nat /\ PollLimit \in Nat /\ previous \in Nat \cup {None}
    BY IndexerConfig DEF SkipInv, IndexerTypes
  <2> QED BY <2>1, <2>2, OrZeroIs
<1>1. /\ b \in SUBSET DOMAIN chain
      /\ \A m \in b : OrZero(previous) < chain[m].ledger /\ chain[m].ledger <= view
  <2>1. CASE b = {}
    BY <2>1
  <2>2. CASE b # {}
    <3>1. PICK m \in b : TRUE
      BY <2>2
    <3>2. m \in DOMAIN chain /\ OrZero(previous) < chain[m].ledger
      <4>1. /\ m \in DOMAIN chain
            /\ chain[m].ledger \in (IF previous = None THEN 0 ELSE previous + 1) .. view
        BY <3>1 DEF Batch
      <4>2. 1 <= chain[m].ledger
        BY <4>1 DEF SkipInv, ChainOrdered
      <4>3. CASE previous = None
        BY <1>0, <4>1, <4>2, <4>3 DEF OrZero
      <4>4. CASE previous # None
        <5>1. previous \in Nat
          BY <4>4, IndexerConfig
        <5> QED BY <1>0, <4>1, <4>4, <5>1 DEF OrZero
      <4> QED BY <4>1, <4>3, <4>4
    <3> QED BY <3>2, BatchIs
  <2> QED BY <2>1, <2>2
<1>2. next = Max(S)
  BY DEF NextCursor
<1>3. Parsed(b) \subseteq b /\ \A x \in Parsed(b) : Parsable(x)
  BY <1>1 DEF Parsed, Parsable
<1>4. base \in Nat /\ base <= tip
  BY <1>0
<1>5. \A l \in L : l \in Nat /\ l <= view
  BY <1>0, <1>1, <1>3
<1> HIDE DEF base, L
<1>6. S \in SUBSET Nat /\ S # {} /\ \A l \in S : l <= tip
  BY <1>0, <1>4, <1>5
<1> HIDE DEF S
<1>7. next \in S /\ \A y \in S : y <= next
  BY <1>0, <1>2, <1>6, MaxIs
<1>8. next \in Nat /\ next <= tip
  BY <1>6, <1>7
<1>9. ASSUME NEW x \in DOMAIN chain, Parsable(x), OrZero(previous) < chain[x].ledger, chain[x].ledger <= next
      PROVE  x \in Parsed(b)
  <2>1. /\ Cardinality(b) \in Nat
        /\ Cardinality(b) < PollLimit /\ chain[x].ledger <= view => x \in b
        /\ \A m \in b : chain[x].ledger <= chain[m].ledger => x \in b
    BY <1>9, BatchIs
  <2>2. x \in b
    <3>1. CASE next \in L
      <4>1. PICK m \in Parsed(b) : next = chain[m].ledger
        BY <3>1 DEF L
      <4> QED BY <1>3, <1>9, <2>1, <4>1
    <3>2. CASE next = base
      <4>1. base # OrZero(previous)
        BY <1>0, <1>9, <3>2
      <4>2. base = view /\ ~(Cardinality(b) >= PollLimit)
        BY <4>1 DEF base
      <4> QED BY <1>0, <1>9, <2>1, <3>2, <4>2
    <3> QED BY <1>7, <3>1, <3>2 DEF S
  <2> QED BY <1>9, <2>2 DEF Parsed, Parsable
<1>10. \A x \in Parsed(b) : x \in DOMAIN chain /\ Parsable(x) /\ OrZero(previous) < chain[x].ledger
  BY <1>1, <1>3
<1> HIDE DEF S
<1> QED BY <1>8, <1>9, <1>10

-----------------------------------------------------------------------------
(* Every step keeps it *)

LEMMA SkipInit == Init => SkipInv
<1> SUFFICES ASSUME Init PROVE SkipInv
  OBVIOUS
<1>1. DOMAIN chain = {} /\ chain \in Seq(EventRecord) /\ claims \in Seq(Nat) /\ DOMAIN claims = {}
  BY DEF Init
<1>2. IndexerTypes
  <2>1. tip \in 0 .. MaxLedger
    BY IndexerConfig DEF Init
  <2> QED BY <1>1, <2>1, IdleIs DEF Init, IndexerTypes, AirdropStates, RecipientStates
<1>3. \A p \in Poller : poll[p] = Idle
  BY DEF Init
<1>4. OrZero(cursor) <= tip /\ PollOk(Idle) /\ SavesAll(Idle)
  BY IdleIs DEF Init, OrZero, PollOk, SavesAll, Working, Projecting
<1> QED BY <1>1, <1>2, <1>3, <1>4 DEF SkipInv, ChainOrdered, ChainLawful, NoEventSkipped, Passed, OneEach

\* The event in hand.
LEMMA CurrentIs ==
  ASSUME SkipInv, NEW p \in Poller, poll[p].todo # {}
  PROVE  /\ Current(p) \in poll[p].todo /\ Current(p) = Min(poll[p].todo) /\ Current(p) \in DOMAIN chain
         /\ Parsable(Current(p)) /\ \A y \in poll[p].todo : Current(p) <= y
         /\ Event(p).name \in {"airdrop_created", "recipient_added", "token_claimed", "airdrop_expired"}
         /\ Event(p).airdrop \in Airdrop
<1>1. poll[p].todo \in SUBSET Nat
  BY PollIs DEF SkipInv, IndexerTypes
<1>2. Current(p) \in poll[p].todo /\ \A y \in poll[p].todo : Current(p) <= y
  BY <1>1, MinIs DEF Current
<1>3. Parsable(Current(p))
  BY <1>2 DEF SkipInv, PollOk
<1>4. Current(p) \in DOMAIN chain /\ chain[Current(p)].name # "other"
  BY <1>3 DEF Parsable
<1>5. chain[Current(p)].name \in EventNames /\ chain[Current(p)].airdrop \in Airdrop
  BY <1>4, ChainIs DEF SkipInv, IndexerTypes
<1> QED BY <1>2, <1>3, <1>4, <1>5, IndexerConfig DEF Current, Event

\* A poll moves to new, on the chain as it is.
LEMMA PollStepKeeps ==
  ASSUME SkipInv, NEW p \in Poller, NEW new, PollTo(p, new), UNCHANGED <<chain, tip>>,
         saved \cup dropped \subseteq (saved \cup dropped)', cursor' \in Nat \cup {None}, OrZero(cursor') <= tip,
         airdrop' \in [Airdrop -> AirdropStates], recipient' \in [Airdrop -> RecipientStates],
         claims' \in Seq(Nat), overlapped' \in BOOLEAN, OneEach(claims'),
         PollOk(new), SavesAll(new)', NoEventSkipped'
  PROVE  SkipInv'
<1>1. /\ poll' \in [Poller -> PollRecord] /\ poll'[p] = new
      /\ \A q \in Poller : q # p => poll'[q] = poll[q]
  BY PollMoves DEF SkipInv, IndexerTypes
<1>2. IndexerTypes'
  BY <1>1 DEF SkipInv, IndexerTypes
<1>3. ChainOrdered' /\ ChainLawful'
  BY DEF SkipInv, ChainOrdered, ChainLawful, Parsable
<1>4. ASSUME NEW q \in Poller PROVE PollOk(poll[q])' /\ SavesAll(poll[q])'
  <2>1. CASE q = p
    BY <1>1, <2>1 DEF PollOk, SavesAll, Parsable, Named
  <2>2. CASE q # p
    <3>1. PollOk(poll[q]) /\ SavesAll(poll[q])
      BY DEF SkipInv
    <3>2. PollOk(poll[q])'
      BY <1>1, <2>2, <3>1 DEF PollOk, Parsable, Named
    <3>3. SavesAll(poll[q])'
      BY <1>1, <2>2, <3>1 DEF SavesAll, Parsable
    <3> QED BY <3>2, <3>3
  <2> QED BY <2>1, <2>2
<1>5. (OrZero(cursor) <= tip)' /\ OneEach(claims)'
  BY DEF OrZero, OneEach
<1> QED BY <1>2, <1>3, <1>4, <1>5 DEF SkipInv

LEMMA EmitKeeps ==
  ASSUME SkipInv, NEW name \in EventNames, NEW a \in Airdrop, EmitEvent(name, a)
  PROVE  SkipInv'
<1> DEFINE e == [ledger |-> tip + 1, name |-> name, airdrop |-> a]
           n == Len(chain) + 1
<1>1. /\ chain \in Seq(EventRecord) /\ tip \in Nat /\ e \in EventRecord
      /\ e.ledger = tip + 1 /\ e.name = name /\ e.airdrop = a
  <2>1. MaxLedger \in Nat
    BY IndexerConfig
  <2>2. tip \in Nat /\ chain \in Seq(EventRecord)
    BY <2>1 DEF SkipInv, IndexerTypes
  <2> QED BY <2>2 DEF EventRecord
<1>2. chain' = Append(chain, e) /\ UNCHANGED <<tip, cursor, saved, dropped, airdrop, recipient, claims, poll, overlapped>>
  BY DEF EmitEvent, store, history
<1> HIDE DEF e
<1>3. /\ DOMAIN chain' = DOMAIN chain \cup {n} /\ n \notin DOMAIN chain /\ n \in Nat
      /\ \A i \in DOMAIN chain : chain'[i] = chain[i] /\ i < n /\ i \in Nat
      /\ chain'[n] = e /\ chain' \in Seq(EventRecord)
  <2>1. DOMAIN chain = 1 .. Len(chain) /\ Len(chain) \in Nat
    BY <1>1
  <2>2. Len(chain') = Len(chain) + 1 /\ DOMAIN chain' = 1 .. Len(chain) + 1 /\ chain' \in Seq(EventRecord)
    BY <1>1, <1>2
  <2>3. chain'[n] = e /\ \A i \in 1 .. Len(chain) : chain'[i] = chain[i]
    BY <1>1, <1>2
  <2> QED BY <2>1, <2>2, <2>3
<1> HIDE DEF n
<1>4. IndexerTypes'
  BY <1>2, <1>3 DEF SkipInv, IndexerTypes
<1>5. ChainOrdered'
  <2>1. \A i \in DOMAIN chain : 1 <= chain[i].ledger /\ chain[i].ledger <= tip + 1
    BY DEF SkipInv, ChainOrdered
  <2>2. \A i \in DOMAIN chain' : 1 <= chain'[i].ledger /\ chain'[i].ledger <= tip + 1
    BY <1>1, <1>3, <2>1
  <2>3. ASSUME NEW i \in DOMAIN chain', NEW j \in DOMAIN chain', i <= j
        PROVE  chain'[i].ledger <= chain'[j].ledger
    <3>1. CASE j = n
      BY <1>1, <1>3, <2>2, <3>1
    <3>2. CASE j # n
      <4>1. i \in DOMAIN chain /\ j \in DOMAIN chain
        BY <1>3, <2>3, <3>2
      <4>2. chain[i].ledger <= chain[j].ledger
        BY <2>3, <4>1 DEF SkipInv, ChainOrdered
      <4> QED BY <1>3, <4>1, <4>2
    <3> QED BY <3>1, <3>2
  <2> QED BY <1>2, <2>2, <2>3 DEF ChainOrdered
<1>6. \A x \in DOMAIN chain : Parsable(x)' <=> Parsable(x)
  BY <1>3 DEF Parsable
<1>7. ChainLawful'
  <2>1. name # "airdrop_created" /\ name # "other" =>
          \E i \in DOMAIN chain : chain[i].name = "airdrop_created" /\ chain[i].airdrop = a
    <3>1. CASE name \in {"recipient_added", "airdrop_expired"}
      BY <3>1 DEF EmitEvent, Legal, Emitted
    <3>2. CASE name = "token_claimed"
      <4>1. PICK k \in DOMAIN chain : chain[k].name = "recipient_added" /\ chain[k].airdrop = a
        BY <3>2 DEF EmitEvent, Legal, Emitted
      <4>2. Parsable(k)
        BY <4>1 DEF Parsable
      <4> QED BY <4>1, <4>2 DEF SkipInv, ChainLawful
    <3> QED BY <3>1, <3>2, IndexerConfig
  <2>2. name = "airdrop_created" => ~\E i \in DOMAIN chain : Parsable(i) /\ chain[i].airdrop = a
    <3>1. name = "airdrop_created" =>
            ~\E i \in DOMAIN chain : chain[i].name = "airdrop_created" /\ chain[i].airdrop = a
      BY DEF EmitEvent, Legal, Emitted
    <3> QED BY <3>1 DEF SkipInv, ChainLawful
  <2>3. ASSUME NEW j \in DOMAIN chain', Parsable(j)'
        PROVE  \E i \in DOMAIN chain' : /\ i <= j /\ chain'[i].name = "airdrop_created"
                                        /\ chain'[i].airdrop = chain'[j].airdrop
    <3>1. CASE j = n
      <4>1. chain'[j].name = name /\ chain'[j].airdrop = a /\ name # "other"
        BY <1>1, <1>3, <2>3, <3>1 DEF Parsable
      <4>2. CASE name = "airdrop_created"
        BY <1>3, <3>1, <4>1, <4>2
      <4>3. CASE name # "airdrop_created"
        <5>1. PICK i \in DOMAIN chain : chain[i].name = "airdrop_created" /\ chain[i].airdrop = a
          BY <2>1, <4>1, <4>3
        <5> QED BY <1>3, <3>1, <4>1, <5>1
      <4> QED BY <4>2, <4>3
    <3>2. CASE j # n
      <4>1. j \in DOMAIN chain /\ Parsable(j)
        BY <1>3, <1>6, <2>3, <3>2
      <4>2. PICK i \in DOMAIN chain : i <= j /\ chain[i].name = "airdrop_created"
                                      /\ chain[i].airdrop = chain[j].airdrop
        BY <4>1 DEF SkipInv, ChainLawful
      <4> QED BY <1>3, <4>1, <4>2
    <3> QED BY <3>1, <3>2
  <2>4. ASSUME NEW i \in DOMAIN chain', NEW j \in DOMAIN chain', chain'[i].name = "airdrop_created",
               Parsable(j)', chain'[i].airdrop = chain'[j].airdrop
        PROVE  i <= j
    <3>1. CASE j = n
      BY <1>3, <3>1
    <3>2. CASE j # n
      <4>1. j \in DOMAIN chain /\ Parsable(j) /\ chain'[j] = chain[j]
        BY <1>3, <1>6, <2>4, <3>2
      <4>2. CASE i = n
        BY <1>1, <1>3, <2>2, <2>4, <4>1, <4>2
      <4>3. CASE i # n
        <5>1. i \in DOMAIN chain /\ chain'[i] = chain[i]
          BY <1>3, <4>3
        <5> QED BY <2>4, <4>1, <5>1 DEF SkipInv, ChainLawful
      <4> QED BY <4>2, <4>3
    <3> QED BY <3>1, <3>2
  <2> QED BY <2>3, <2>4 DEF ChainLawful
<1>8. ASSUME NEW p \in Poller PROVE PollOk(poll[p])' /\ SavesAll(poll[p])'
  <2>1. PollOk(poll[p]) /\ SavesAll(poll[p]) /\ poll'[p] = poll[p] /\ poll[p].next \in Nat
    BY <1>2, PollIs DEF SkipInv, IndexerTypes
  <2>2. \A x \in poll[p].todo : x \in DOMAIN chain /\ Parsable(x)'
    BY <1>6, <2>1 DEF PollOk, Parsable
  <2>3. poll[p].todo # {} => chain'[Min(poll[p].todo)] = chain[Min(poll[p].todo)]
    BY <1>3, <2>2, CurrentIs DEF Current
  <2>4. PollOk(poll[p])'
    BY <1>2, <2>1, <2>2, <2>3 DEF PollOk, Named, Projecting
  <2>5. SavesAll(poll[p])'
    <3> SUFFICES ASSUME poll[p].pc \in Working, NEW x \in DOMAIN chain', Parsable(x)',
                        OrZero(poll[p].previous) < chain'[x].ledger, chain'[x].ledger <= poll[p].next
                 PROVE  x \in saved \cup dropped \/ (poll[p].pc = "save" /\ x \in poll[p].todo)
      BY <1>2, <2>1 DEF SavesAll
    <3>1. x # n
      BY <1>1, <1>3, <2>1 DEF PollOk
    <3> QED BY <1>3, <1>6, <2>1, <3>1 DEF SavesAll
  <2> QED BY <2>4, <2>5
<1>9. NoEventSkipped'
  <2>1. OrZero(cursor) \in Nat /\ OrZero(cursor) <= tip /\ OrZero(cursor)' = OrZero(cursor)
    BY <1>2, OrZeroIs DEF SkipInv, IndexerTypes, OrZero
  <2>2. Passed' \subseteq Passed
    BY <1>1, <1>3, <2>1 DEF Passed
  <2> QED BY <1>2, <2>2 DEF SkipInv, NoEventSkipped
<1>10. (OrZero(cursor) <= tip)' /\ OneEach(claims)'
  BY <1>2 DEF SkipInv, OneEach, OrZero
<1> QED BY <1>2, <1>4, <1>5, <1>7, <1>8, <1>9, <1>10 DEF SkipInv

LEMMA CloseKeeps == ASSUME SkipInv, CloseLedger PROVE SkipInv'
<1>1. tip' = tip + 1 /\ tip < MaxLedger /\ tip \in Nat /\ MaxLedger \in Nat
  BY IndexerConfig DEF SkipInv, IndexerTypes, CloseLedger
<1>2. UNCHANGED <<chain, cursor, saved, dropped, airdrop, recipient, claims, poll, overlapped>>
  BY DEF CloseLedger, store, history
<1>3. IndexerTypes'
  BY <1>1, <1>2 DEF SkipInv, IndexerTypes
<1>4. ChainOrdered' /\ ChainLawful'
  <2>1. \A k \in DOMAIN chain : chain[k].ledger \in Nat
    BY ChainIs DEF SkipInv, IndexerTypes
  <2> QED BY <1>1, <1>2, <2>1 DEF SkipInv, ChainOrdered, ChainLawful, Parsable
<1>5. ASSUME NEW p \in Poller PROVE PollOk(poll[p])' /\ SavesAll(poll[p])'
  <2>1. poll[p].next \in Nat /\ OrZero(poll[p].previous) \in Nat
    BY PollIs, OrZeroIs DEF SkipInv, IndexerTypes
  <2> QED BY <1>1, <1>2, <2>1 DEF SkipInv, PollOk, SavesAll, Parsable, Named, OrZero
<1>6. OrZero(cursor)' <= tip' /\ NoEventSkipped' /\ OneEach(claims)'
  <2>1. OrZero(cursor) \in Nat
    BY OrZeroIs DEF SkipInv, IndexerTypes
  <2>2. OrZero(cursor)' = OrZero(cursor) /\ OrZero(cursor) <= tip
    BY <1>2 DEF SkipInv, OrZero
  <2>3. NoEventSkipped'
    BY <1>2, <2>2 DEF SkipInv, NoEventSkipped, Passed
  <2> QED BY <1>1, <1>2, <2>1, <2>2, <2>3 DEF SkipInv, OneEach
<1> QED BY <1>3, <1>4, <1>5, <1>6 DEF SkipInv

-----------------------------------------------------------------------------
(* The steps of a poll *)

\* The kinds of step a projection makes of its poll: on to pc, with a value read, or
\* on to the next event.
Goes(p, new, pc) ==
  /\ PollTo(p, new) /\ new.pc = pc
  /\ new.previous = poll[p].previous /\ new.next = poll[p].next

LEMMA PcGoes ==
  ASSUME poll \in [Poller -> PollRecord], NEW p \in Poller, NEW pc \in Steps,
         poll' = [poll EXCEPT ![p].pc = pc]
  PROVE  \E new : Goes(p, new, pc) /\ new.todo = poll[p].todo /\ new.read = poll[p].read
<1> DEFINE new == [poll[p] EXCEPT !.pc = pc]
<1>1. poll[p] \in PollRecord
  BY PollIs
<1>2. /\ new \in PollRecord /\ new.pc = pc /\ new.previous = poll[p].previous
      /\ new.todo = poll[p].todo /\ new.next = poll[p].next /\ new.read = poll[p].read
  BY <1>1 DEF PollRecord
<1>3. poll' = [poll EXCEPT ![p] = new]
  OBVIOUS
<1> HIDE DEF new
<1> QED BY <1>2, <1>3 DEF Goes, PollTo

LEMMA ReadGoes ==
  ASSUME poll \in [Poller -> PollRecord], NEW p \in Poller, NEW pc \in Steps, NEW value \in Reads,
         Read(p, pc, value)
  PROVE  \E new : Goes(p, new, pc) /\ new.todo = poll[p].todo /\ new.read = value
<1> DEFINE new == [poll[p] EXCEPT !.pc = pc, !.read = value]
<1>1. poll[p] \in PollRecord
  BY PollIs
<1>2. /\ new \in PollRecord /\ new.pc = pc /\ new.previous = poll[p].previous
      /\ new.todo = poll[p].todo /\ new.next = poll[p].next /\ new.read = value
  BY <1>1 DEF PollRecord
<1>3. poll' = [poll EXCEPT ![p] = new]
  BY DEF Read
<1> HIDE DEF new
<1> QED BY <1>2, <1>3 DEF Goes, PollTo

LEMMA DoneGoes ==
  ASSUME poll \in [Poller -> PollRecord], NEW p \in Poller, EventDone(p)
  PROVE  \E new : /\ Goes(p, new, IF poll[p].todo \ {Current(p)} = {} THEN "advance" ELSE "getAirdrop")
                  /\ new.todo = poll[p].todo \ {Current(p)} /\ new.read = "none"
<1> DEFINE rest == poll[p].todo \ {Current(p)}
           pc == IF rest = {} THEN "advance" ELSE "getAirdrop"
           new == [poll[p] EXCEPT !.todo = rest, !.read = "none", !.pc = pc]
<1>1. poll' = [poll EXCEPT ![p].todo = rest, ![p].read = "none", ![p].pc = pc]
  BY DEF EventDone
<1>2. rest \in SUBSET Nat /\ pc \in Steps /\ "none" \in Reads /\ poll[p] \in PollRecord
  BY PollIs DEF Steps, Reads, AirdropStates
<1> HIDE DEF rest, pc
<1>3. /\ new \in PollRecord /\ new.pc = pc /\ new.previous = poll[p].previous /\ new.todo = rest
      /\ new.next = poll[p].next /\ new.read = "none"
  BY <1>2 DEF PollRecord
<1>4. poll' = [poll EXCEPT ![p] = new]
  BY <1>1
<1> HIDE DEF new
<1>5. Goes(p, new, pc) /\ new.todo = rest /\ new.read = "none"
  BY <1>3, <1>4 DEF Goes, PollTo
<1> QED BY <1>5 DEF rest, pc

LEMMA ProjectKeeps ==
  ASSUME SkipInv, NEW p \in Poller, poll[p].pc \in Projecting, NEW pc \in Projecting \cup {"advance"},
         NEW new, Goes(p, new, pc), PollOk(new),
         UNCHANGED <<chain, tip, cursor, saved, dropped, overlapped>>,
         airdrop' \in [Airdrop -> AirdropStates], recipient' \in [Airdrop -> RecipientStates],
         claims' \in Seq(Nat), OneEach(claims')
  PROVE  SkipInv'
<1>1. PollTo(p, new) /\ new.pc # "save" /\ new.previous = poll[p].previous /\ new.next = poll[p].next
  BY DEF Goes, Projecting
<1>2. SavesAll(new)'
  <2>1. SavesAll(poll[p]) /\ poll[p].pc \in Working /\ poll[p].pc # "save"
    BY DEF SkipInv, Working, Projecting
  <2> QED BY <1>1, <2>1 DEF SavesAll, Parsable
<1>3. NoEventSkipped' /\ cursor' \in Nat \cup {None} /\ OrZero(cursor') <= tip /\ overlapped' \in BOOLEAN
  BY DEF SkipInv, IndexerTypes, NoEventSkipped, Passed, OrZero
<1> QED BY <1>1, <1>2, <1>3, PollStepKeeps

\* The next event in hand is of the kind its place calls for.
LEMMA DoneKeeps ==
  ASSUME SkipInv, NEW p \in Poller, poll[p].pc \in Projecting, EventDone(p),
         UNCHANGED <<chain, tip, cursor, saved, dropped, overlapped>>,
         airdrop' \in [Airdrop -> AirdropStates], recipient' \in [Airdrop -> RecipientStates],
         claims' \in Seq(Nat), OneEach(claims')
  PROVE  SkipInv'
<1> DEFINE pc == IF poll[p].todo \ {Current(p)} = {} THEN "advance" ELSE "getAirdrop"
<1>1. PICK new : Goes(p, new, pc) /\ new.todo = poll[p].todo \ {Current(p)} /\ new.read = "none"
  BY DoneGoes DEF SkipInv, IndexerTypes
<1>2. pc \in Projecting \cup {"advance"}
  BY DEF Projecting
<1>3. PollOk(new)
  BY <1>1 DEF Goes, SkipInv, PollOk, Projecting
<1> HIDE DEF pc
<1> QED BY <1>1, <1>2, <1>3, ProjectKeeps

LEMMA TypesKept ==
  ASSUME SkipInv
  PROVE  /\ poll \in [Poller -> PollRecord] /\ airdrop \in [Airdrop -> AirdropStates]
         /\ recipient \in [Airdrop -> RecipientStates] /\ claims \in Seq(Nat) /\ OneEach(claims)
BY DEF SkipInv, IndexerTypes

LEMMA GetKeeps ==
  ASSUME SkipInv, NEW p \in Poller, GetAirdrop(p) \/ GetRecipient(p) \/ GetClaims(p)
  PROVE  SkipInv'
<1>0. /\ UNCHANGED <<chain, tip, cursor, saved, dropped, overlapped, airdrop, recipient, claims>>
      /\ poll[p].pc \in Projecting /\ PollOk(poll[p]) /\ poll[p].todo # {}
  BY DEF GetAirdrop, GetRecipient, GetClaims, ledgers, store, history, Projecting, SkipInv, PollOk
<1>1. PICK pc \in Projecting, value \in Reads :
        /\ Read(p, pc, value)
        /\ \/ pc = "setAirdrop" /\ value \in AirdropStates
           \/ pc = "setRecipient" /\ value \in RecipientStates /\ poll[p].pc = "getRecipient"
           \/ pc = "setClaims" /\ value \in Seq(Nat) /\ OneEach(value) /\ poll[p].pc = "getClaims"
  <2>1. CASE GetAirdrop(p)
    <3>1. airdrop[Event(p).airdrop] \in AirdropStates
      BY <1>0, CurrentIs, TypesKept
    <3> QED BY <2>1, <3>1 DEF GetAirdrop, Reads, Projecting
  <2>2. CASE GetRecipient(p)
    <3>1. recipient[Event(p).airdrop] \in RecipientStates
      BY <1>0, CurrentIs, TypesKept
    <3> QED BY <2>2, <3>1 DEF GetRecipient, Reads, Projecting
  <2>3. CASE GetClaims(p)
    BY <2>3, TypesKept DEF GetClaims, Reads, Projecting
  <2> QED BY <2>1, <2>2, <2>3
<1>2. pc \in Steps
  BY DEF Projecting, Steps
<1>3. PICK new : Goes(p, new, pc) /\ new.todo = poll[p].todo /\ new.read = value
  BY <1>1, <1>2, ReadGoes, TypesKept
<1>4. PollOk(new)
  BY <1>0, <1>1, <1>3 DEF Goes, PollOk
<1> QED BY <1>0, <1>3, <1>4, TypesKept, ProjectKeeps

LEMMA SetAirdropKeeps == ASSUME SkipInv, NEW p \in Poller, SetAirdrop(p) PROVE SkipInv'
<1>0. /\ UNCHANGED <<chain, tip, cursor, saved, dropped, overlapped, recipient, claims>>
      /\ poll[p].pc = "setAirdrop" /\ poll[p].pc \in Projecting /\ PollOk(poll[p]) /\ poll[p].todo # {}
      /\ poll[p].read \in AirdropStates
  BY DEF SetAirdrop, ledgers, history, Projecting, SkipInv, PollOk
<1>1. AirdropStatus(Event(p).name, poll[p].read) \in AirdropStates
  BY <1>0, CurrentIs DEF AirdropStatus, AirdropStates
<1>2. airdrop' \in [Airdrop -> AirdropStates]
  BY <1>1, TypesKept DEF SetAirdrop
<1>3. CASE EventDone(p)
  BY <1>0, <1>2, <1>3, TypesKept, DoneKeeps
<1>4. CASE Event(p).name \in {"recipient_added", "token_claimed"} /\ poll' = [poll EXCEPT ![p].pc = "getRecipient"]
  <2>1. PICK new : Goes(p, new, "getRecipient") /\ new.todo = poll[p].todo /\ new.read = poll[p].read
    BY <1>4, PcGoes, TypesKept DEF Steps
  <2>2. PollOk(new)
    BY <1>0, <1>4, <2>1, CurrentIs DEF Goes, PollOk, Named, Event
  <2> QED BY <1>0, <1>2, <2>1, <2>2, TypesKept, ProjectKeeps DEF Projecting
<1> QED BY <1>3, <1>4 DEF SetAirdrop

LEMMA SetRecipientKeeps == ASSUME SkipInv, NEW p \in Poller, SetRecipient(p) PROVE SkipInv'
<1>0. /\ UNCHANGED <<chain, tip, cursor, saved, dropped, overlapped, airdrop, claims>>
      /\ poll[p].pc = "setRecipient" /\ poll[p].pc \in Projecting /\ PollOk(poll[p]) /\ poll[p].todo # {}
      /\ poll[p].read \in RecipientStates /\ Event(p).name \in {"recipient_added", "token_claimed"}
  BY DEF SetRecipient, ledgers, history, Projecting, SkipInv, PollOk, Named, Event, Current
<1>1. RecipientStatus(Event(p).name, poll[p].read) \in RecipientStates
  BY <1>0 DEF RecipientStatus, RecipientStates
<1>2. recipient' \in [Airdrop -> RecipientStates]
  BY <1>1, TypesKept DEF SetRecipient
<1>3. CASE EventDone(p)
  BY <1>0, <1>2, <1>3, TypesKept, DoneKeeps
<1>4. CASE Event(p).name = "token_claimed" /\ poll' = [poll EXCEPT ![p].pc = "getClaims"]
  <2>1. PICK new : Goes(p, new, "getClaims") /\ new.todo = poll[p].todo /\ new.read = poll[p].read
    BY <1>4, PcGoes, TypesKept DEF Steps
  <2>2. PollOk(new)
    BY <1>0, <1>4, <2>1, CurrentIs DEF Goes, PollOk, Named, Event
  <2> QED BY <1>0, <1>2, <2>1, <2>2, TypesKept, ProjectKeeps DEF Projecting
<1> QED BY <1>3, <1>4 DEF SetRecipient

LEMMA AppendClaimIs ==
  ASSUME NEW list \in Seq(Nat), OneEach(list), NEW id \in Nat
  PROVE  /\ AppendClaim(list, id) \in Seq(Nat) /\ OneEach(AppendClaim(list, id))
         /\ \E k \in DOMAIN AppendClaim(list, id) : AppendClaim(list, id)[k] = id
         /\ \A k \in DOMAIN list : k \in DOMAIN AppendClaim(list, id) /\ AppendClaim(list, id)[k] = list[k]
<1>1. CASE \E k \in DOMAIN list : list[k] = id
  BY <1>1 DEF AppendClaim
<1>2. CASE ~\E k \in DOMAIN list : list[k] = id
  <2> DEFINE new == Append(list, id)
  <2>1. AppendClaim(list, id) = new
    BY <1>2 DEF AppendClaim
  <2>2. new \in Seq(Nat) /\ DOMAIN list = 1 .. Len(list) /\ DOMAIN new = 1 .. Len(list) + 1 /\ Len(list) \in Nat
    OBVIOUS
  <2>3. new[Len(list) + 1] = id /\ \A k \in 1 .. Len(list) : new[k] = list[k]
    OBVIOUS
  <2> HIDE DEF new
  <2>4. OneEach(new)
    BY <1>2, <2>2, <2>3 DEF OneEach
  <2> QED BY <2>1, <2>2, <2>3, <2>4
<1> QED BY <1>1, <1>2

LEMMA SetClaimsKeeps == ASSUME SkipInv, NEW p \in Poller, SetClaims(p) PROVE SkipInv'
<1>0. /\ UNCHANGED <<chain, tip, cursor, saved, dropped, overlapped, airdrop, recipient>>
      /\ poll[p].pc \in Projecting /\ poll[p].todo # {}
      /\ poll[p].read \in Seq(Nat) /\ OneEach(poll[p].read) /\ EventDone(p)
  BY DEF SetClaims, ledgers, history, Projecting, SkipInv, PollOk
<1>1. Current(p) \in Nat
  BY <1>0, CurrentIs, PollIs, TypesKept
<1>2. claims' \in Seq(Nat) /\ OneEach(claims')
  BY <1>0, <1>1, AppendClaimIs, TypesKept DEF SetClaims
<1> QED BY <1>0, <1>2, TypesKept, DoneKeeps

LEMMA BeginOrEndKeeps ==
  ASSUME SkipInv, NEW p \in Poller, StartPoll(p) \/ Abort(p)
  PROVE  SkipInv'
<1>1. PICK new : /\ PollTo(p, new) /\ new.pc \in {"idle", "rpc"} /\ new.previous \in {None, cursor}
                 /\ new.todo = {} /\ new.next = 0
  <2>1. CASE StartPoll(p)
    <3> DEFINE new == [Idle EXCEPT !.pc = "rpc", !.previous = cursor]
    <3>1. /\ new \in PollRecord /\ new.pc = "rpc" /\ new.previous = cursor /\ new.todo = {} /\ new.next = 0
      BY IdleIs DEF SkipInv, IndexerTypes, PollRecord, Steps
    <3>2. poll' = [poll EXCEPT ![p] = new]
      BY <2>1 DEF StartPoll
    <3> HIDE DEF new
    <3> QED BY <3>1, <3>2 DEF PollTo
  <2>2. CASE Abort(p)
    BY <2>2, IdleIs DEF Abort, PollTo
  <2> QED BY <2>1, <2>2
<1>2. UNCHANGED <<chain, tip, cursor, saved, dropped, airdrop, recipient, claims>> /\ overlapped' \in BOOLEAN
  BY DEF StartPoll, Abort, ledgers, store, SkipInv, IndexerTypes
<1>3. PollOk(new)
  <2>1. OrZero(None) = 0 /\ OrZero(cursor) <= tip /\ tip \in Nat
    BY IndexerConfig DEF OrZero, SkipInv, IndexerTypes
  <2> QED BY <1>1, <2>1 DEF PollOk, Projecting
<1>4. SavesAll(new)'
  BY <1>1 DEF SavesAll, Working, Projecting
<1>5. NoEventSkipped' /\ cursor' \in Nat \cup {None} /\ OrZero(cursor') <= tip
  BY <1>2 DEF SkipInv, IndexerTypes, NoEventSkipped, Passed, OrZero
<1> QED BY <1>1, <1>2, <1>3, <1>4, <1>5, TypesKept, PollStepKeeps

\* What an answer leaves its poll with.
LEMMA FetchGoes ==
  ASSUME SkipInv, WholeLedgers, NEW p \in Poller, NEW view \in 0..MaxLedger, FetchEvents(p, view)
  PROVE  \E new : /\ PollTo(p, new) /\ new.previous = poll[p].previous /\ new.next <= tip
                  /\ new.pc = (IF new.todo = {} THEN "advance" ELSE "save")
                  /\ \A x \in new.todo : /\ x \in DOMAIN chain /\ Parsable(x)
                                         /\ OrZero(new.previous) < chain[x].ledger
                  /\ \A x \in DOMAIN chain :
                       Parsable(x) /\ OrZero(new.previous) < chain[x].ledger /\ chain[x].ledger <= new.next
                         => x \in new.todo
<1> DEFINE previous == poll[p].previous
           b == Batch(previous, view)
           todo == Parsed(b)
           next == NextCursor(previous, view, b)
           pc == IF todo = {} THEN "advance" ELSE "save"
           new == [poll[p] EXCEPT !.pc = pc, !.todo = todo, !.next = next]
<1>1. view <= tip /\ poll' = [poll EXCEPT ![p].pc = pc, ![p].todo = todo, ![p].next = next]
  BY DEF FetchEvents
<1>2. previous \in 0..MaxLedger \cup {None} /\ OrZero(previous) <= tip
  <2>1. previous \in Nat \cup {None} /\ OrZero(previous) <= tip /\ tip \in 0..MaxLedger /\ MaxLedger \in Nat
    BY IndexerConfig, PollIs, TypesKept DEF SkipInv, IndexerTypes, PollOk
  <2> QED BY <2>1 DEF OrZero
<1>3. poll[p] \in PollRecord /\ pc \in Steps
  BY PollIs, TypesKept DEF Steps
<1> HIDE DEF previous, b, next
<1>4. /\ next \in Nat /\ next <= tip
      /\ \A x \in todo : x \in DOMAIN chain /\ Parsable(x) /\ OrZero(previous) < chain[x].ledger
      /\ \A x \in DOMAIN chain :
           Parsable(x) /\ OrZero(previous) < chain[x].ledger /\ chain[x].ledger <= next => x \in todo
  BY <1>1, <1>2, NextCursorIs DEF b, next
<1>5. todo \in SUBSET Nat
  BY <1>4, ChainIs DEF SkipInv, IndexerTypes
<1> HIDE DEF todo, pc
<1>6. new \in PollRecord /\ new.pc = pc /\ new.previous = previous /\ new.todo = todo /\ new.next = next
  BY <1>3, <1>4, <1>5 DEF PollRecord, previous
<1>7. poll' = [poll EXCEPT ![p] = new]
  BY <1>1
<1> HIDE DEF new
<1>8. PollTo(p, new)
  BY <1>6, <1>7 DEF PollTo
<1> QED BY <1>4, <1>6, <1>8 DEF pc, previous

LEMMA FetchKeeps ==
  ASSUME SkipInv, WholeLedgers, NEW p \in Poller, NEW view \in 0..MaxLedger, FetchEvents(p, view)
  PROVE  SkipInv'
<1>1. PICK new : /\ PollTo(p, new) /\ new.previous = poll[p].previous /\ new.next <= tip
                 /\ new.pc = (IF new.todo = {} THEN "advance" ELSE "save")
                 /\ \A x \in new.todo : x \in DOMAIN chain /\ Parsable(x)
                 /\ \A x \in DOMAIN chain :
                      Parsable(x) /\ OrZero(new.previous) < chain[x].ledger /\ chain[x].ledger <= new.next
                        => x \in new.todo
  BY FetchGoes
<1>2. UNCHANGED <<chain, tip, cursor, saved, dropped, airdrop, recipient, claims, overlapped>>
  BY DEF FetchEvents, ledgers, store, history
<1>3. PollOk(new)
  BY <1>1 DEF SkipInv, PollOk, Projecting
<1>4. SavesAll(new)'
  BY <1>1, <1>2 DEF SavesAll, Parsable
<1>5. NoEventSkipped' /\ cursor' \in Nat \cup {None} /\ OrZero(cursor') <= tip /\ overlapped' \in BOOLEAN
  BY <1>2 DEF SkipInv, IndexerTypes, NoEventSkipped, Passed, OrZero
<1> QED BY <1>1, <1>2, <1>3, <1>4, <1>5, TypesKept, PollStepKeeps

LEMMA SaveRawKeeps == ASSUME SkipInv, NEW p \in Poller, SaveRaw(p) PROVE SkipInv'
<1>1. PICK new : Goes(p, new, "getAirdrop") /\ new.todo = poll[p].todo
  BY PcGoes, TypesKept DEF SaveRaw, Steps
<1>2. /\ UNCHANGED <<chain, tip, cursor, airdrop, recipient, claims, overlapped>>
      /\ poll[p].pc = "save" /\ saved' \cup dropped' = saved \cup dropped \cup poll[p].todo
  BY DEF SaveRaw, SaveAll, SaveSome, ledgers, history
<1>3. PollOk(new)
  BY <1>1, <1>2 DEF Goes, SkipInv, PollOk
<1>4. SavesAll(new)'
  <2>1. SavesAll(poll[p]) /\ poll[p].pc \in Working
    BY <1>2 DEF SkipInv, Working
  <2> QED BY <1>1, <1>2, <2>1 DEF Goes, SavesAll, Parsable
<1>5. NoEventSkipped' /\ cursor' \in Nat \cup {None} /\ OrZero(cursor') <= tip /\ overlapped' \in BOOLEAN
  BY <1>2 DEF SkipInv, IndexerTypes, NoEventSkipped, Passed, OrZero
<1> QED BY <1>1, <1>2, <1>3, <1>4, <1>5, TypesKept, PollStepKeeps DEF Goes

LEMMA AdvanceKeeps == ASSUME SkipInv, NEW p \in Poller, AdvanceLastLedger(p) PROVE SkipInv'
<1>1. /\ UNCHANGED <<chain, tip, saved, dropped, airdrop, recipient, claims, overlapped>>
      /\ poll[p].pc = "advance" /\ PollTo(p, Idle)
  BY IdleIs DEF AdvanceLastLedger, ledgers, store, history, PollTo
<1>2. PollOk(Idle) /\ SavesAll(Idle)'
  <2>1. OrZero(None) = 0 /\ tip \in Nat
    BY IndexerConfig DEF OrZero, SkipInv, IndexerTypes
  <2> QED BY <2>1, IdleIs DEF PollOk, SavesAll, Projecting, Working
<1>3. poll[p].next \in Nat /\ poll[p].next <= tip /\ SavesAll(poll[p])
  BY PollIs, TypesKept DEF SkipInv, PollOk
<1>4. cursor' \in Nat \cup {None} /\ OrZero(cursor') <= tip /\ NoEventSkipped'
  <2>1. CASE cursor' = cursor
    BY <1>1, <2>1 DEF SkipInv, IndexerTypes, NoEventSkipped, Passed, OrZero
  <2>2. CASE cursor = poll[p].previous /\ cursor' = poll[p].next
    <3>1. OrZero(cursor') = poll[p].next /\ OrZero(cursor)' = poll[p].next
      BY <1>3, <2>2, IndexerConfig DEF OrZero
    <3>2. \A x \in DOMAIN chain : chain[x].ledger \in Nat
      BY ChainIs DEF SkipInv, IndexerTypes
    <3>3. OrZero(cursor) \in Nat
      BY OrZeroIs DEF SkipInv, IndexerTypes
    <3>4. ASSUME NEW x \in Passed' PROVE x \in saved \cup dropped
      <4>1. x \in DOMAIN chain /\ chain[x].name # "other" /\ chain[x].ledger <= poll[p].next
        BY <1>1, <3>1 DEF Passed
      <4>2. CASE chain[x].ledger <= OrZero(cursor)
        BY <4>1, <4>2 DEF SkipInv, NoEventSkipped, Passed
      <4>3. CASE OrZero(cursor) < chain[x].ledger
        BY <1>1, <1>3, <2>2, <4>1, <4>3 DEF SavesAll, Working, Parsable
      <4> QED BY <3>2, <3>3, <4>1, <4>2, <4>3
    <3> QED BY <1>1, <1>3, <2>2, <3>1, <3>4 DEF NoEventSkipped
  <2> QED BY <2>1, <2>2 DEF AdvanceLastLedger, Advances
<1> QED BY <1>1, <1>2, <1>4, TypesKept, PollStepKeeps DEF SkipInv, IndexerTypes

LEMMA SkipStep == ASSUME SkipInv, WholeLedgers, [Next]_vars PROVE SkipInv'
<1>1. ASSUME NEW p \in Poller, PollStep(p) \/ Abort(p) PROVE SkipInv'
  BY <1>1, BeginOrEndKeeps, FetchKeeps, SaveRawKeeps, GetKeeps, SetAirdropKeeps, SetRecipientKeeps,
     SetClaimsKeeps, AdvanceKeeps DEF PollStep
<1>2. CASE UNCHANGED vars
  BY <1>2 DEF vars, SkipInv, IndexerTypes, ChainOrdered, ChainLawful, Parsable, PollOk, Named, SavesAll,
     NoEventSkipped, Passed, OrZero, OneEach
<1> QED BY <1>1, <1>2, EmitKeeps, CloseKeeps DEF Next

\* The cursor passes no event that is not saved, but those whose raw write failed
\* unread in a poll that processed them, for any number of replicas, faults and
\* lagging nodes, as long as no answer of the RPC ends inside a ledger.
THEOREM NothingSkipped == Spec /\ []WholeLedgers => []NoEventSkipped
<1>1. SkipInv /\ WholeLedgers /\ [Next]_vars => SkipInv'
  BY SkipStep
<1>2. SkipInv => NoEventSkipped
  BY DEF SkipInv
<1> QED BY SkipInit, <1>1, <1>2, PTL DEF Spec

-----------------------------------------------------------------------------
(* At most one event in a ledger: an answer cannot end inside one          *)

OneToALedger ==
  /\ chain \in Seq(EventRecord) /\ tip \in Nat
  /\ \A i, j \in DOMAIN chain : chain[i].ledger = chain[j].ledger => i = j

LEMMA OneToALedgerStep == ASSUME LedgerCap = 1, OneToALedger, [Next]_vars PROVE OneToALedger'
<1>1. CASE \E name \in EventNames, a \in Airdrop : EmitEvent(name, a)
  <2>1. PICK name \in EventNames, a \in Airdrop : EmitEvent(name, a)
    BY <1>1
  <2> DEFINE e == [ledger |-> tip + 1, name |-> name, airdrop |-> a]
             S == {k \in DOMAIN chain : chain[k].ledger = tip + 1}
             n == Len(chain) + 1
  <2>2. chain \in Seq(EventRecord) /\ tip \in Nat /\ e \in EventRecord /\ e.ledger = tip + 1
    BY DEF OneToALedger, EventRecord
  <2>3. chain' = Append(chain, e) /\ tip' = tip /\ Cardinality(S) < LedgerCap
    BY <2>1 DEF EmitEvent
  <2>4. S \in SUBSET DOMAIN chain
    OBVIOUS
  <2> HIDE DEF e
  <2>5. S = {}
    <3> HIDE DEF S
    <3>1. IsFiniteSet(S) /\ Cardinality(S) \in Nat
      BY <2>2, <2>4, ChainFinite
    <3>2. Cardinality(S) = 0
      BY <2>3, <3>1
    <3> QED BY <3>1, <3>2, FS_EmptySet
  <2>6. \A i \in DOMAIN chain : chain[i].ledger # tip + 1
    BY <2>5
  <2>7. DOMAIN chain = 1 .. Len(chain) /\ Len(chain) \in Nat
    BY <2>2
  <2>8. DOMAIN chain' = 1 .. Len(chain) + 1 /\ chain' \in Seq(EventRecord)
    BY <2>2, <2>3
  <2>9. chain'[n] = e /\ \A i \in 1 .. Len(chain) : chain'[i] = chain[i]
    BY <2>2, <2>3
  <2> HIDE DEF S
  <2>10. DOMAIN chain' = DOMAIN chain \cup {n}
    BY <2>7, <2>8
  <2> HIDE DEF n
  <2> QED BY <2>2, <2>3, <2>6, <2>7, <2>8, <2>9, <2>10 DEF OneToALedger
<1>2. CASE CloseLedger
  BY <1>2 DEF CloseLedger, OneToALedger
<1>3. CASE UNCHANGED <<chain, tip>>
  BY <1>3 DEF OneToALedger
<1>4. ASSUME NEW p \in Poller, PollStep(p) \/ Abort(p) PROVE UNCHANGED <<chain, tip>>
  BY <1>4 DEF PollStep, StartPoll, FetchEvents, SaveRaw, GetAirdrop, SetAirdrop, GetRecipient, SetRecipient,
     GetClaims, SetClaims, AdvanceLastLedger, Abort, ledgers
<1> QED BY <1>1, <1>2, <1>3, <1>4 DEF Next, vars

LEMMA LedgersWhole == ASSUME LedgerCap = 1 PROVE Spec => []WholeLedgers
<1>1. Init => OneToALedger
  BY DEF Init, OneToALedger
<1>2. OneToALedger /\ [Next]_vars => OneToALedger'
  BY OneToALedgerStep
<1>3. OneToALedger => WholeLedgers
  <2> SUFFICES ASSUME OneToALedger,
                      NEW previous \in 0..MaxLedger \cup {None}, NEW view \in 0..MaxLedger,
                      NEW k \in DOMAIN chain, NEW m \in Batch(previous, view),
                      chain[k].ledger = chain[m].ledger
               PROVE  k \in Batch(previous, view)
    BY DEF WholeLedgers
  <2>1. m \in DOMAIN chain
    BY DEF Batch
  <2> QED BY <2>1 DEF OneToALedger
<1> QED BY <1>1, <1>2, <1>3, PTL DEF Spec

\* In particular it is so when a ledger holds at most one event of the contract.
THEOREM NothingSkippedOneByOne == ASSUME LedgerCap = 1 PROVE Spec => []NoEventSkipped
BY NothingSkipped, LedgersWhole, PTL

-----------------------------------------------------------------------------
(* The projections, while no two polls overlap                             *)

\* What ProjectionsReflectCursor says of one event.
Reflected(x) ==
  LET a == chain[x].airdrop IN
  /\ chain[x].name = "airdrop_created" => airdrop[a] # "none"
  /\ chain[x].name = "recipient_added" => recipient[a] # "none"
  /\ chain[x].name = "token_claimed" =>
       airdrop[a] \in {"active", "expired"} /\ recipient[a] = "claimed" /\ \E i \in DOMAIN claims : claims[i] = x
  /\ chain[x].name = "airdrop_expired" => airdrop[a] = "expired"

\* A poll between the steps of one event: what it read is what is stored, and the
\* steps before have left what they wrote.
HalfDone(k) ==
  LET e == chain[Min(k.todo)] IN
  /\ k.pc = "setAirdrop" => k.read = airdrop[e.airdrop]
  /\ k.pc = "setRecipient" => k.read = recipient[e.airdrop]
  /\ k.pc = "setClaims" => k.read = claims
  /\ k.pc \in {"getRecipient", "setRecipient", "getClaims", "setClaims"} /\ e.name = "token_claimed"
       => airdrop[e.airdrop] \in {"active", "expired"}
  /\ k.pc \in {"getClaims", "setClaims"} => recipient[e.airdrop] = "claimed"

\* A poll that has Redis to itself: what it has to project lies past the cursor and
\* goes up to its next one without a gap, and what it has projected is reflected.
LoneOk(k) ==
  /\ k.previous = cursor
  /\ k.pc = "advance" => k.todo = {}
  /\ \A x \in k.todo : OrZero(cursor) < chain[x].ledger
  /\ \A y \in k.todo, x \in DOMAIN chain :
       Parsable(x) /\ y <= x /\ chain[x].ledger <= k.next => x \in k.todo
  /\ k.pc \in Working => \A x \in DOMAIN chain :
       Parsable(x) /\ OrZero(cursor) < chain[x].ledger /\ chain[x].ledger <= k.next
         => x \in k.todo \/ Reflected(x)
  /\ HalfDone(k)

Alone ==
  ~overlapped =>
    /\ \A p, q \in Poller : poll[p].pc # "idle" /\ poll[q].pc # "idle" => p = q
    /\ \A p \in Poller : poll[p].pc # "idle" => LoneOk(poll[p])
    /\ \A x \in Passed : Reflected(x)

\* A poll steps, no other being under way.
LEMMA LoneMoves ==
  ASSUME SkipInv, Alone, NEW p \in Poller, NEW new, PollTo(p, new), poll[p].pc # "idle",
         overlapped' = overlapped,
         ~overlapped => /\ new.pc # "idle" => LoneOk(new)'
                        /\ \A x \in Passed' : Reflected(x)'
  PROVE  Alone'
<1> SUFFICES ASSUME ~overlapped' PROVE Alone'
  BY DEF Alone
<1>0. ~overlapped
  OBVIOUS
<1>1. /\ poll' \in [Poller -> PollRecord] /\ poll'[p] = new
      /\ \A q \in Poller : q # p => poll'[q] = poll[q]
  BY PollMoves DEF SkipInv, IndexerTypes
<1>2. \A q \in Poller : q # p => poll'[q].pc = "idle"
  BY <1>0, <1>1 DEF Alone
<1>3. ASSUME NEW q \in Poller, poll'[q].pc # "idle" PROVE LoneOk(poll[q])'
  <2>1. q = p
    BY <1>2, <1>3
  <2>2. LoneOk(new)'
    BY <1>0, <1>1, <1>3, <2>1
  <2> QED BY <1>1, <2>1, <2>2 DEF LoneOk, HalfDone
<1>4. \A x \in Passed' : Reflected(x)'
  BY <1>0
<1> QED BY <1>2, <1>3, <1>4 DEF Alone

\* What counts as reflected lies before the event in hand.
LEMMA Behind ==
  ASSUME SkipInv, NEW p \in Poller, LoneOk(poll[p]), poll[p].todo # {}, NEW x \in DOMAIN chain, Parsable(x),
         \/ chain[x].ledger <= OrZero(cursor)
         \/ chain[x].ledger <= poll[p].next /\ x \notin poll[p].todo
  PROVE  x < Current(p)
<1>1. Current(p) \in poll[p].todo /\ Current(p) \in DOMAIN chain
  BY CurrentIs
<1>2. \A k \in DOMAIN chain : k \in Nat /\ chain[k].ledger \in Nat
  BY ChainIs DEF SkipInv, IndexerTypes
<1>3. OrZero(cursor) \in Nat
  BY OrZeroIs DEF SkipInv, IndexerTypes
<1>4. CASE chain[x].ledger <= OrZero(cursor)
  <2>1. OrZero(cursor) < chain[Current(p)].ledger
    BY <1>1 DEF LoneOk
  <2>2. Current(p) <= x => chain[Current(p)].ledger <= chain[x].ledger
    BY <1>1 DEF SkipInv, ChainOrdered
  <2> QED BY <1>1, <1>2, <1>3, <1>4, <2>1, <2>2
<1>5. CASE chain[x].ledger <= poll[p].next /\ x \notin poll[p].todo
  <2>1. ~(Current(p) <= x)
    BY <1>1, <1>5 DEF LoneOk
  <2> QED BY <1>1, <1>2, <2>1
<1> QED BY <1>4, <1>5

\* A step of a projection: it leaves what lies before its event reflected, and, when
\* it is the last one, the event itself.
LEMMA LoneProjects ==
  ASSUME SkipInv, Alone, NEW p \in Poller, poll[p].pc \in Projecting,
         NEW pc \in Projecting \cup {"advance"}, NEW new, Goes(p, new, pc),
         UNCHANGED <<chain, cursor, overlapped>>, NEW c, c = Current(p),
         LoneOk(poll[p]) =>
           /\ HalfDone(new)'
           /\ \A x \in DOMAIN chain : Parsable(x) /\ x < c /\ Reflected(x) => Reflected(x)'
           /\ \/ new.todo = poll[p].todo /\ pc # "advance"
              \/ /\ new.todo = poll[p].todo \ {c} /\ Reflected(c)'
                 /\ pc = "advance" => new.todo = {}
  PROVE  Alone'
<1>1. poll[p].pc # "idle" /\ PollTo(p, new) /\ new.pc # "idle" /\ poll[p].todo # {} /\ poll[p].pc \in Working
  BY DEF Projecting, Working, Goes, SkipInv, PollOk
<1>2. ASSUME ~overlapped PROVE LoneOk(new)' /\ \A x \in Passed' : Reflected(x)'
  <2>0. LoneOk(poll[p]) /\ \A x \in Passed : Reflected(x)
    BY <1>1, <1>2 DEF Alone
  <2>1. /\ new.previous = poll[p].previous /\ new.next = poll[p].next /\ new.pc = pc
        /\ new.todo \subseteq poll[p].todo
        /\ \A x \in poll[p].todo : x \in new.todo \/ (x = c /\ Reflected(x)')
        /\ pc = "advance" => new.todo = {}
    BY <2>0 DEF Goes
  <2>2. OrZero(cursor)' = OrZero(cursor) /\ \A x : Parsable(x)' <=> Parsable(x)
    BY DEF OrZero, Parsable
  <2>3. \A x \in Passed' : Reflected(x)'
    <3> SUFFICES ASSUME NEW x \in Passed' PROVE Reflected(x)'
      OBVIOUS
    <3>1. x \in Passed /\ x \in DOMAIN chain /\ Parsable(x) /\ chain[x].ledger <= OrZero(cursor)
      BY <2>2 DEF Passed, Parsable
    <3>2. x < Current(p)
      BY <1>1, <2>0, <3>1, Behind
    <3> QED BY <2>0, <3>1, <3>2
  <2>4. ASSUME NEW x \in DOMAIN chain, Parsable(x), OrZero(cursor) < chain[x].ledger,
               chain[x].ledger <= new.next, x \notin new.todo
        PROVE  Reflected(x)'
    <3>1. CASE x \in poll[p].todo
      BY <2>1, <2>4, <3>1
    <3>2. CASE x \notin poll[p].todo
      <4>1. Reflected(x)
        BY <1>1, <2>0, <2>1, <2>4, <3>2 DEF LoneOk
      <4>2. x < Current(p)
        BY <1>1, <2>0, <2>1, <2>4, <3>2, Behind
      <4> QED BY <2>0, <2>4, <4>1, <4>2
    <3> QED BY <3>1, <3>2
  <2>5. ASSUME NEW y \in new.todo, NEW x \in DOMAIN chain, Parsable(x), y <= x, chain[x].ledger <= new.next
        PROVE  x \in new.todo
    <3>1. x \in poll[p].todo
      BY <2>0, <2>1, <2>5 DEF LoneOk
    <3>2. CASE new.todo = poll[p].todo
      BY <3>1, <3>2
    <3>3. CASE new.todo = poll[p].todo \ {Current(p)}
      <4>1. Current(p) <= y /\ y # Current(p) /\ Current(p) \in DOMAIN chain /\ y \in DOMAIN chain
        BY <1>1, <2>1, <2>5, <3>3, CurrentIs DEF SkipInv, PollOk, Parsable
      <4>2. \A k \in DOMAIN chain : k \in Nat
        BY ChainIs DEF SkipInv, IndexerTypes
      <4> QED BY <2>5, <3>1, <3>3, <4>1, <4>2
    <3> QED BY <2>0, <3>2, <3>3
  <2>6. \A x \in new.todo : OrZero(cursor) < chain[x].ledger
    BY <2>0, <2>1 DEF LoneOk
  <2>7. new.previous = cursor
    BY <2>0, <2>1 DEF LoneOk
  <2>8. HalfDone(new)'
    BY <2>0
  <2> HIDE DEF HalfDone
  <2>9. LoneOk(new)'
    BY <2>1, <2>2, <2>4, <2>5, <2>6, <2>7, <2>8 DEF LoneOk
  <2> QED BY <2>3, <2>9
<1> QED BY <1>1, <1>2, LoneMoves

\* The reads leave everything stored as it is.
LEMMA LoneGets ==
  ASSUME SkipInv, Alone, NEW p \in Poller, GetAirdrop(p) \/ GetRecipient(p) \/ GetClaims(p)
  PROVE  Alone'
<1>0. /\ UNCHANGED <<chain, cursor, overlapped, airdrop, recipient, claims>>
      /\ poll[p].pc \in Projecting /\ poll[p].todo # {}
  BY DEF GetAirdrop, GetRecipient, GetClaims, ledgers, store, history, Projecting, SkipInv, PollOk
<1>1. PICK pc \in Projecting, value \in Reads :
        /\ Read(p, pc, value)
        /\ \/ pc = "setAirdrop" /\ value = airdrop[Event(p).airdrop]
           \/ pc = "setRecipient" /\ value = recipient[Event(p).airdrop] /\ poll[p].pc = "getRecipient"
           \/ pc = "setClaims" /\ value = claims /\ poll[p].pc = "getClaims"
  <2>1. CASE GetAirdrop(p)
    <3>1. airdrop[Event(p).airdrop] \in AirdropStates
      BY <1>0, CurrentIs, TypesKept
    <3> QED BY <2>1, <3>1 DEF GetAirdrop, Reads, Projecting
  <2>2. CASE GetRecipient(p)
    <3>1. recipient[Event(p).airdrop] \in RecipientStates
      BY <1>0, CurrentIs, TypesKept
    <3> QED BY <2>2, <3>1 DEF GetRecipient, Reads, Projecting
  <2>3. CASE GetClaims(p)
    BY <2>3, TypesKept DEF GetClaims, Reads, Projecting
  <2> QED BY <2>1, <2>2, <2>3
<1>2. pc \in Steps /\ pc # "advance"
  BY DEF Projecting, Steps
<1>3. PICK new : Goes(p, new, pc) /\ new.todo = poll[p].todo /\ new.read = value
  BY <1>1, <1>2, ReadGoes, TypesKept
<1>4. PICK c : c = Current(p)
  OBVIOUS
<1>5. LoneOk(poll[p]) => HalfDone(new)'
  BY <1>0, <1>1, <1>3 DEF LoneOk, HalfDone, Goes, Event, Current
<1>6. \A x \in DOMAIN chain : Reflected(x) => Reflected(x)'
  BY <1>0 DEF Reflected
<1> QED BY <1>0, <1>2, <1>3, <1>4, <1>5, <1>6, LoneProjects

LEMMA LoneSetsAirdrop == ASSUME SkipInv, Alone, NEW p \in Poller, SetAirdrop(p) PROVE Alone'
<1>0. /\ UNCHANGED <<chain, cursor, overlapped, recipient, claims>>
      /\ poll[p].pc = "setAirdrop" /\ poll[p].pc \in Projecting /\ poll[p].todo # {}
  BY DEF SetAirdrop, ledgers, history, Projecting, SkipInv, PollOk
<1>1. PICK c : c = Current(p)
  OBVIOUS
<1>2. /\ c \in DOMAIN chain /\ c = Min(poll[p].todo) /\ chain[c].airdrop \in Airdrop /\ Event(p) = chain[c]
      /\ chain[c].name \in {"airdrop_created", "recipient_added", "token_claimed", "airdrop_expired"}
      /\ Parsable(c)
  BY <1>0, <1>1, CurrentIs DEF Event
<1>3. LoneOk(poll[p]) => airdrop' = [airdrop EXCEPT ![chain[c].airdrop] =
                                       AirdropStatus(chain[c].name, airdrop[chain[c].airdrop])]
  BY <1>0, <1>2 DEF SetAirdrop, LoneOk, HalfDone
<1>4. ASSUME LoneOk(poll[p]), NEW x \in DOMAIN chain, Parsable(x), x < c, Reflected(x) PROVE Reflected(x)'
  <2>1. CASE chain[x].airdrop # chain[c].airdrop
    <3>1. chain[x].airdrop \in Airdrop
      BY ChainIs DEF SkipInv, IndexerTypes
    <3>2. airdrop'[chain[x].airdrop] = airdrop[chain[x].airdrop]
      BY <1>3, <1>4, <2>1, <3>1, TypesKept
    <3> QED BY <1>0, <1>4, <3>2 DEF Reflected
  <2>2. CASE chain[x].airdrop = chain[c].airdrop
    <3>1. chain[c].name # "airdrop_created"
      <4>1. chain[c].name = "airdrop_created" => c <= x
        BY <1>2, <1>4, <2>2 DEF SkipInv, ChainLawful
      <4>2. x \in Nat /\ c \in Nat
        BY <1>2, ChainIs DEF SkipInv, IndexerTypes
      <4> QED BY <1>4, <4>1, <4>2
    <3>2. airdrop'[chain[c].airdrop] = AirdropStatus(chain[c].name, airdrop[chain[c].airdrop])
      BY <1>2, <1>3, <1>4, TypesKept
    <3> QED BY <1>0, <1>2, <1>4, <2>2, <3>1, <3>2 DEF Reflected, AirdropStatus
  <2> QED BY <2>1, <2>2
<1>5. LoneOk(poll[p]) => /\ chain[c].name = "token_claimed" => airdrop'[chain[c].airdrop] \in {"active", "expired"}
                         /\ chain[c].name = "airdrop_created" => airdrop'[chain[c].airdrop] # "none"
                         /\ chain[c].name = "airdrop_expired" => airdrop'[chain[c].airdrop] = "expired"
  <2>1. LoneOk(poll[p]) =>
          airdrop'[chain[c].airdrop] = AirdropStatus(chain[c].name, airdrop[chain[c].airdrop])
    BY <1>2, <1>3, TypesKept
  <2> QED BY <2>1 DEF AirdropStatus
<1>6. CASE chain[c].name \notin {"recipient_added", "token_claimed"} /\ EventDone(p)
  <2> DEFINE pc == IF poll[p].todo \ {Current(p)} = {} THEN "advance" ELSE "getAirdrop"
  <2>1. PICK new : Goes(p, new, pc) /\ new.todo = poll[p].todo \ {Current(p)} /\ new.read = "none"
    BY <1>6, DoneGoes, TypesKept
  <2>2. pc \in Projecting \cup {"advance"} /\ (pc = "advance" => new.todo = {}) /\ new.pc \in {"advance", "getAirdrop"}
    BY <2>1 DEF Projecting, Goes
  <2>3. HalfDone(new)'
    BY <2>2 DEF HalfDone
  <2>4. LoneOk(poll[p]) => Reflected(c)'
    BY <1>0, <1>2, <1>5, <1>6 DEF Reflected
  <2> HIDE DEF pc
  <2> QED BY <1>0, <1>1, <1>4, <2>1, <2>2, <2>3, <2>4, LoneProjects
<1>7. CASE chain[c].name \in {"recipient_added", "token_claimed"} /\ poll' = [poll EXCEPT ![p].pc = "getRecipient"]
  <2>1. PICK new : Goes(p, new, "getRecipient") /\ new.todo = poll[p].todo /\ new.read = poll[p].read
    BY <1>7, PcGoes, TypesKept DEF Steps
  <2>2. LoneOk(poll[p]) => HalfDone(new)'
    BY <1>0, <1>2, <1>5, <2>1 DEF Goes, HalfDone
  <2> QED BY <1>0, <1>1, <1>4, <2>1, <2>2, LoneProjects DEF Projecting
<1> QED BY <1>2, <1>6, <1>7 DEF SetAirdrop

LEMMA LoneSetsRecipient == ASSUME SkipInv, Alone, NEW p \in Poller, SetRecipient(p) PROVE Alone'
<1>0. /\ UNCHANGED <<chain, cursor, overlapped, airdrop, claims>>
      /\ poll[p].pc = "setRecipient" /\ poll[p].pc \in Projecting /\ poll[p].todo # {}
      /\ Event(p).name \in {"recipient_added", "token_claimed"}
  BY DEF SetRecipient, ledgers, history, Projecting, SkipInv, PollOk, Named, Event, Current
<1>1. PICK c : c = Current(p)
  OBVIOUS
<1>2. c \in DOMAIN chain /\ c = Min(poll[p].todo) /\ chain[c].airdrop \in Airdrop /\ Event(p) = chain[c]
  BY <1>0, <1>1, CurrentIs DEF Event
<1>3. LoneOk(poll[p]) => /\ recipient'[chain[c].airdrop] = RecipientStatus(chain[c].name, recipient[chain[c].airdrop])
                         /\ \A a \in Airdrop : a # chain[c].airdrop => recipient'[a] = recipient[a]
  BY <1>0, <1>2, TypesKept DEF SetRecipient, LoneOk, HalfDone
<1>4. ASSUME LoneOk(poll[p]), NEW x \in DOMAIN chain, Parsable(x), x < c, Reflected(x) PROVE Reflected(x)'
  <2>1. CASE chain[x].airdrop # chain[c].airdrop
    BY <1>0, <1>2, <1>3, <1>4, <2>1, TypesKept, ChainIs DEF Reflected, SkipInv, IndexerTypes
  <2>2. CASE chain[x].airdrop = chain[c].airdrop
    BY <1>0, <1>2, <1>3, <1>4, <2>2 DEF Reflected, RecipientStatus
  <2> QED BY <2>1, <2>2
<1>5. LoneOk(poll[p]) => /\ chain[c].name = "token_claimed" => recipient'[chain[c].airdrop] = "claimed"
                         /\ chain[c].name = "recipient_added" => recipient'[chain[c].airdrop] # "none"
  BY <1>3 DEF RecipientStatus
<1>6. CASE chain[c].name = "recipient_added" /\ EventDone(p)
  <2> DEFINE pc == IF poll[p].todo \ {Current(p)} = {} THEN "advance" ELSE "getAirdrop"
  <2>1. PICK new : Goes(p, new, pc) /\ new.todo = poll[p].todo \ {Current(p)} /\ new.read = "none"
    BY <1>6, DoneGoes, TypesKept
  <2>2. pc \in Projecting \cup {"advance"} /\ (pc = "advance" => new.todo = {}) /\ new.pc \in {"advance", "getAirdrop"}
    BY <2>1 DEF Projecting, Goes
  <2>3. HalfDone(new)'
    BY <2>2 DEF HalfDone
  <2>4. LoneOk(poll[p]) => Reflected(c)'
    BY <1>0, <1>2, <1>5, <1>6 DEF Reflected
  <2> HIDE DEF pc
  <2> QED BY <1>0, <1>1, <1>4, <2>1, <2>2, <2>3, <2>4, LoneProjects
<1>7. CASE chain[c].name = "token_claimed" /\ poll' = [poll EXCEPT ![p].pc = "getClaims"]
  <2>1. PICK new : Goes(p, new, "getClaims") /\ new.todo = poll[p].todo /\ new.read = poll[p].read
    BY <1>7, PcGoes, TypesKept DEF Steps
  <2>2. LoneOk(poll[p]) => HalfDone(new)'
    BY <1>0, <1>2, <1>5, <1>7, <2>1 DEF Goes, LoneOk, HalfDone
  <2> QED BY <1>0, <1>1, <1>4, <2>1, <2>2, LoneProjects DEF Projecting
<1> QED BY <1>0, <1>2, <1>6, <1>7 DEF SetRecipient

LEMMA LoneSetsClaims == ASSUME SkipInv, Alone, NEW p \in Poller, SetClaims(p) PROVE Alone'
<1>0. /\ UNCHANGED <<chain, cursor, overlapped, airdrop, recipient>> /\ EventDone(p)
      /\ poll[p].pc = "setClaims" /\ poll[p].pc \in Projecting /\ poll[p].todo # {}
      /\ Event(p).name = "token_claimed"
  BY DEF SetClaims, ledgers, history, Projecting, SkipInv, PollOk, Named, Event, Current
<1>1. PICK c : c = Current(p)
  OBVIOUS
<1>2. c \in DOMAIN chain /\ c = Min(poll[p].todo) /\ Event(p) = chain[c] /\ c \in Nat
  BY <1>0, <1>1, CurrentIs, ChainIs DEF Event, SkipInv, IndexerTypes
<1>3. LoneOk(poll[p]) => claims' = AppendClaim(claims, c)
  BY <1>0, <1>1 DEF SetClaims, LoneOk, HalfDone
<1>4. LoneOk(poll[p]) => /\ \E i \in DOMAIN claims' : claims'[i] = c
                         /\ \A i \in DOMAIN claims : i \in DOMAIN claims' /\ claims'[i] = claims[i]
  <2> DEFINE list == AppendClaim(claims, c)
  <2>1. /\ \E i \in DOMAIN list : list[i] = c
        /\ \A i \in DOMAIN claims : i \in DOMAIN list /\ list[i] = claims[i]
    BY <1>2, TypesKept, AppendClaimIs
  <2> HIDE DEF list
  <2>2. LoneOk(poll[p]) => claims' = list
    BY <1>3 DEF list
  <2> QED BY <2>1, <2>2
<1>5. ASSUME LoneOk(poll[p]), NEW x \in DOMAIN chain, Parsable(x), x < c, Reflected(x) PROVE Reflected(x)'
  BY <1>0, <1>4, <1>5 DEF Reflected
<1>6. LoneOk(poll[p]) => Reflected(c)'
  BY <1>0, <1>2, <1>4 DEF Reflected, LoneOk, HalfDone
<1> DEFINE pc == IF poll[p].todo \ {Current(p)} = {} THEN "advance" ELSE "getAirdrop"
<1>7. PICK new : Goes(p, new, pc) /\ new.todo = poll[p].todo \ {Current(p)} /\ new.read = "none"
  BY <1>0, DoneGoes, TypesKept
<1>8. pc \in Projecting \cup {"advance"} /\ (pc = "advance" => new.todo = {}) /\ new.pc \in {"advance", "getAirdrop"}
  BY <1>7 DEF Projecting, Goes
<1>9. HalfDone(new)'
  BY <1>8 DEF HalfDone
<1> HIDE DEF pc
<1> QED BY <1>0, <1>1, <1>5, <1>6, <1>7, <1>8, <1>9, LoneProjects

\* A batch begins past the cursor and goes up to the next one.
LEMMA LoneFetches ==
  ASSUME SkipInv, WholeLedgers, Alone, NEW p \in Poller, NEW view \in 0..MaxLedger, FetchEvents(p, view)
  PROVE  Alone'
<1>1. PICK new : /\ PollTo(p, new) /\ new.previous = poll[p].previous /\ new.next <= tip
                 /\ new.pc = (IF new.todo = {} THEN "advance" ELSE "save")
                 /\ \A x \in new.todo : /\ x \in DOMAIN chain /\ Parsable(x)
                                        /\ OrZero(new.previous) < chain[x].ledger
                 /\ \A x \in DOMAIN chain :
                      Parsable(x) /\ OrZero(new.previous) < chain[x].ledger /\ chain[x].ledger <= new.next
                        => x \in new.todo
  BY FetchGoes
<1>2. UNCHANGED <<chain, cursor, airdrop, recipient, claims, overlapped>> /\ poll[p].pc = "rpc"
  BY DEF FetchEvents, ledgers, store, history
<1>3. ASSUME ~overlapped PROVE LoneOk(new)' /\ \A x \in Passed' : Reflected(x)'
  <2>1. poll[p].previous = cursor /\ \A x \in Passed : Reflected(x)
    BY <1>2, <1>3 DEF Alone, LoneOk
  <2>2. \A k \in DOMAIN chain : k \in Nat /\ chain[k].ledger \in Nat
    BY ChainIs DEF SkipInv, IndexerTypes
  <2>3. OrZero(cursor) \in Nat
    BY OrZeroIs DEF SkipInv, IndexerTypes
  <2>4. ASSUME NEW y \in new.todo, NEW x \in DOMAIN chain, Parsable(x), y <= x, chain[x].ledger <= new.next
        PROVE  x \in new.todo
    <3>1. chain[y].ledger <= chain[x].ledger /\ OrZero(cursor) < chain[y].ledger /\ y \in DOMAIN chain
      BY <1>1, <2>1, <2>4 DEF SkipInv, ChainOrdered
    <3>2. OrZero(cursor) < chain[x].ledger
      BY <2>2, <2>3, <3>1
    <3> QED BY <1>1, <2>1, <2>4, <3>2
  <2>5. HalfDone(new)'
    BY <1>1 DEF HalfDone
  <2>6. LoneOk(new)'
    BY <1>1, <1>2, <2>1, <2>4, <2>5 DEF LoneOk, Parsable, OrZero
  <2>7. \A x \in Passed' : Reflected(x)'
    BY <1>2, <2>1 DEF Passed, Reflected, OrZero
  <2> QED BY <2>6, <2>7
<1> QED BY <1>1, <1>2, <1>3, LoneMoves

LEMMA LoneSaves == ASSUME SkipInv, Alone, NEW p \in Poller, SaveRaw(p) PROVE Alone'
<1>1. PICK new : Goes(p, new, "getAirdrop") /\ new.todo = poll[p].todo
  BY PcGoes, TypesKept DEF SaveRaw, Steps
<1>2. UNCHANGED <<chain, cursor, airdrop, recipient, claims, overlapped>> /\ poll[p].pc = "save"
  BY DEF SaveRaw, SaveAll, SaveSome, ledgers, history
<1>3. ASSUME ~overlapped PROVE LoneOk(new)' /\ \A x \in Passed' : Reflected(x)'
  <2>1. LoneOk(poll[p]) /\ \A x \in Passed : Reflected(x)
    BY <1>2, <1>3 DEF Alone
  <2>2. HalfDone(new)'
    BY <1>1 DEF HalfDone, Goes
  <2>3. LoneOk(new)'
    BY <1>1, <1>2, <2>1, <2>2 DEF LoneOk, Goes, Working, Projecting, Parsable, Reflected, OrZero
  <2>4. \A x \in Passed' : Reflected(x)'
    BY <1>2, <2>1 DEF Passed, Reflected, OrZero
  <2> QED BY <2>3, <2>4
<1> QED BY <1>1, <1>2, <1>3, LoneMoves DEF Goes

\* The cursor passes what its poll has projected.
LEMMA LoneAdvances == ASSUME SkipInv, Alone, NEW p \in Poller, AdvanceLastLedger(p) PROVE Alone'
<1>1. /\ UNCHANGED <<chain, airdrop, recipient, claims, overlapped>>
      /\ poll[p].pc = "advance" /\ PollTo(p, Idle) /\ cursor' \in {cursor, poll[p].next}
  BY IdleIs DEF AdvanceLastLedger, ledgers, store, history, PollTo
<1>2. ASSUME ~overlapped, NEW x \in Passed' PROVE Reflected(x)
  <2>1. LoneOk(poll[p]) /\ (\A y \in Passed : Reflected(y)) /\ poll[p].pc \in Working
    BY <1>1, <1>2 DEF Alone, Working
  <2>2. poll[p].next \in Nat /\ OrZero(cursor) \in Nat
    BY PollIs, OrZeroIs, TypesKept DEF SkipInv, IndexerTypes
  <2>3. x \in DOMAIN chain /\ Parsable(x) /\ chain[x].ledger <= OrZero(cursor') /\ chain[x].ledger \in Nat
    BY <1>1, <1>2, ChainIs DEF Passed, Parsable, SkipInv, IndexerTypes, OrZero
  <2>4. CASE chain[x].ledger <= OrZero(cursor)
    BY <2>1, <2>3, <2>4 DEF Passed, Parsable
  <2>5. CASE OrZero(cursor) < chain[x].ledger
    <3>1. chain[x].ledger <= poll[p].next
      <4>1. cursor' # cursor
        BY <2>2, <2>3, <2>5
      <4> QED BY <1>1, <2>2, <2>3, <4>1, IndexerConfig DEF OrZero
    <3> QED BY <1>1, <2>1, <2>3, <2>5, <3>1 DEF LoneOk
  <2> QED BY <2>2, <2>3, <2>4, <2>5
<1>3. ~overlapped => \A x \in Passed' : Reflected(x)'
  BY <1>1, <1>2 DEF Reflected
<1> QED BY <1>1, <1>3, IdleIs, LoneMoves

LEMMA LoneEnds == ASSUME SkipInv, Alone, NEW p \in Poller, Abort(p) PROVE Alone'
<1>1. /\ UNCHANGED <<chain, cursor, airdrop, recipient, claims, overlapped>>
      /\ poll[p].pc # "idle" /\ PollTo(p, Idle)
  BY IdleIs DEF Abort, ledgers, store, PollTo
<1>2. ~overlapped => \A x \in Passed' : Reflected(x)'
  BY <1>1 DEF Alone, Passed, Reflected, OrZero
<1> QED BY <1>1, <1>2, IdleIs, LoneMoves

LEMMA LoneBegins == ASSUME SkipInv, Alone, NEW p \in Poller, StartPoll(p) PROVE Alone'
<1> SUFFICES ASSUME ~overlapped' PROVE Alone'
  BY DEF Alone
<1> DEFINE new == [Idle EXCEPT !.pc = "rpc", !.previous = cursor]
<1>1. new \in PollRecord /\ new.pc = "rpc" /\ new.previous = cursor /\ new.todo = {}
  BY IdleIs DEF SkipInv, IndexerTypes, PollRecord, Steps
<1>2. poll' = [poll EXCEPT ![p] = new] /\ UNCHANGED <<chain, cursor, airdrop, recipient, claims>>
  BY DEF StartPoll, ledgers, store
<1>3. ~overlapped /\ \A q \in Poller : poll[q].pc = "idle"
  BY DEF StartPoll
<1> HIDE DEF new
<1>4. poll'[p] = new /\ \A q \in Poller : q # p => poll'[q].pc = "idle"
  BY <1>1, <1>2, <1>3, PollMoves, TypesKept DEF PollTo
<1>5. LoneOk(poll[p])'
  BY <1>1, <1>2, <1>4 DEF LoneOk, HalfDone, Working, Projecting
<1>6. \A x \in Passed' : Reflected(x)'
  BY <1>2, <1>3 DEF Alone, Passed, Reflected, OrZero
<1> QED BY <1>4, <1>5, <1>6 DEF Alone

\* The network emits past every cursor.
LEMMA LoneEmits ==
  ASSUME SkipInv, Alone, NEW name \in EventNames, NEW a \in Airdrop, EmitEvent(name, a)
  PROVE  Alone'
<1> SUFFICES ASSUME ~overlapped' PROVE Alone'
  BY DEF Alone
<1> DEFINE e == [ledger |-> tip + 1, name |-> name, airdrop |-> a]
           n == Len(chain) + 1
<1>1. chain' = Append(chain, e) /\ UNCHANGED <<tip, cursor, airdrop, recipient, claims, poll, overlapped>>
  BY DEF EmitEvent, store, history
<1>2. chain \in Seq(EventRecord) /\ tip \in Nat /\ e.ledger = tip + 1
  <2>1. MaxLedger \in Nat
    BY IndexerConfig
  <2> QED BY <2>1 DEF SkipInv, IndexerTypes
<1> HIDE DEF e
<1>3. /\ DOMAIN chain' = DOMAIN chain \cup {n} /\ n \notin DOMAIN chain
      /\ chain'[n].ledger = tip + 1 /\ \A i \in DOMAIN chain : chain'[i] = chain[i]
  <2>1. DOMAIN chain = 1 .. Len(chain) /\ Len(chain) \in Nat
    BY <1>2
  <2>2. DOMAIN chain' = 1 .. Len(chain) + 1
    BY <1>1, <1>2
  <2>3. chain'[n] = e /\ \A i \in 1 .. Len(chain) : chain'[i] = chain[i]
    BY <1>1, <1>2
  <2> QED BY <1>2, <2>1, <2>2, <2>3
<1> HIDE DEF n
<1>4. OrZero(cursor) \in Nat /\ OrZero(cursor) <= tip /\ OrZero(cursor)' = OrZero(cursor)
  BY <1>1, OrZeroIs DEF SkipInv, IndexerTypes, OrZero
<1>5. \A x \in DOMAIN chain : (Parsable(x)' <=> Parsable(x)) /\ (Reflected(x) => Reflected(x)')
  BY <1>1, <1>3 DEF Parsable, Reflected
<1>6. \A x \in Passed' : Reflected(x)'
  <2>1. Passed' \subseteq Passed
    BY <1>2, <1>3, <1>4 DEF Passed
  <2> QED BY <1>1, <1>5, <2>1 DEF Alone, Passed
<1>7. ASSUME NEW p \in Poller, poll[p].pc # "idle" PROVE LoneOk(poll[p])'
  <2>1. LoneOk(poll[p]) /\ PollOk(poll[p]) /\ poll[p].next \in Nat /\ poll[p].next <= tip
    BY <1>1, <1>7, PollIs, TypesKept DEF Alone, SkipInv, PollOk
  <2>2. \A x \in DOMAIN chain' : chain'[x].ledger <= poll[p].next => x \in DOMAIN chain
    BY <1>2, <1>3, <2>1
  <2>3. \A x \in poll[p].todo : x \in DOMAIN chain
    BY <2>1 DEF PollOk, Parsable
  <2>4. HalfDone(poll[p])'
    <3>1. poll[p].pc \in Projecting => Min(poll[p].todo) \in DOMAIN chain
      BY <2>1, CurrentIs DEF PollOk, Current
    <3>2. poll[p].pc \in Projecting => chain'[Min(poll[p].todo)] = chain[Min(poll[p].todo)]
      BY <1>3, <3>1
    <3>3. CASE poll[p].pc \in Projecting
      BY <1>1, <2>1, <3>2, <3>3 DEF LoneOk, HalfDone
    <3>4. CASE poll[p].pc \notin Projecting
      BY <1>1, <3>4 DEF HalfDone, Projecting
    <3> QED BY <3>3, <3>4
  <2>5. \A x \in poll[p].todo : OrZero(cursor) < chain'[x].ledger
    BY <1>3, <2>1, <2>3 DEF LoneOk
  <2>6. \A y \in poll[p].todo, x \in DOMAIN chain' :
          Parsable(x)' /\ y <= x /\ chain'[x].ledger <= poll[p].next => x \in poll[p].todo
    BY <1>3, <1>5, <2>1, <2>2 DEF LoneOk
  <2>7. poll[p].pc \in Working => \A x \in DOMAIN chain' :
          Parsable(x)' /\ OrZero(cursor) < chain'[x].ledger /\ chain'[x].ledger <= poll[p].next
            => x \in poll[p].todo \/ Reflected(x)'
    BY <1>3, <1>5, <2>1, <2>2 DEF LoneOk
  <2>8. poll[p].previous = cursor /\ (poll[p].pc = "advance" => poll[p].todo = {})
    BY <2>1 DEF LoneOk
  <2> QED BY <1>1, <1>4, <2>4, <2>5, <2>6, <2>7, <2>8 DEF LoneOk
<1> QED BY <1>1, <1>6, <1>7 DEF Alone

LEMMA AloneStep == ASSUME SkipInv, WholeLedgers, Alone, [Next]_vars PROVE Alone'
<1>1. ASSUME NEW p \in Poller, PollStep(p) \/ Abort(p) PROVE Alone'
  BY <1>1, LoneBegins, LoneEnds, LoneFetches, LoneSaves, LoneGets, LoneSetsAirdrop, LoneSetsRecipient,
     LoneSetsClaims, LoneAdvances DEF PollStep
<1>2. CASE CloseLedger \/ UNCHANGED vars
  <2>1. UNCHANGED <<chain, cursor, airdrop, recipient, claims, poll, overlapped>>
    BY <1>2 DEF CloseLedger, store, history, vars
  <2> QED BY <2>1 DEF Alone, LoneOk, HalfDone, Reflected, Passed, Parsable, OrZero
<1> QED BY <1>1, <1>2, LoneEmits DEF Next

\* Every event the cursor has passed is reflected in the projections while no two
\* polls overlap, and a claim is listed once even when they do.
THEOREM ProjectionsFollow == Spec /\ []WholeLedgers => []ProjectionsReflectCursor
<1>1. Init => Alone
  BY IdleIs DEF Init, Alone, Passed
<1>2. SkipInv /\ WholeLedgers /\ [Next]_vars => SkipInv'
  BY SkipStep
<1>3. SkipInv /\ WholeLedgers /\ Alone /\ [Next]_vars => Alone'
  BY AloneStep
<1>4. SkipInv /\ Alone => ProjectionsReflectCursor
  <2> SUFFICES ASSUME SkipInv, Alone PROVE ProjectionsReflectCursor
    OBVIOUS
  <2>1. \A i, j \in DOMAIN claims : claims[i] = claims[j] => i = j
    BY DEF SkipInv, OneEach
  <2>2. ASSUME ~overlapped, NEW x \in Passed
        PROVE  /\ Reflected(x)
               /\ chain[x].name \in {"airdrop_created", "recipient_added", "token_claimed", "airdrop_expired"}
    <3>1. x \in DOMAIN chain /\ chain[x].name # "other"
      BY DEF Passed
    <3>2. chain[x].name \in EventNames
      BY <3>1, ChainIs DEF SkipInv, IndexerTypes
    <3> QED BY <2>2, <3>1, <3>2, IndexerConfig DEF Alone
  <2> QED BY <2>1, <2>2 DEF ProjectionsReflectCursor, Reflected
<1> QED BY SkipInit, <1>1, <1>2, <1>3, <1>4, PTL DEF Spec

\* In particular when a ledger holds at most one event of the contract.
THEOREM ProjectionsFollowOneByOne == ASSUME LedgerCap = 1 PROVE Spec => []ProjectionsReflectCursor
BY ProjectionsFollow, LedgersWhole, PTL

=============================================================================
