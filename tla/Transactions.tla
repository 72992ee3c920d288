---------------------------- MODULE Transactions ----------------------------
(***************************************************************************)
(* Transactions (database/transaction.js): withTransaction, its rollback   *)
(* and its retries, over rows locked by lockRows; and an entity edited     *)
(* under a version (middleware/optimistic-locking.ts).                     *)
(*                                                                         *)
(* PostgreSQL is external: row locks are exclusive and held to the end of  *)
(* the transaction, and a statement or a commit may fail with a            *)
(* serialization failure, with another error, or without an answer.        *)
(***************************************************************************)
EXTENDS Naturals, FiniteSets

CONSTANTS
  Row,           \* rows, in the order of their ids
  Session,       \* transactions in flight
  Free,          \* the holder of a free row
  TrxRetries,    \* options.maxRetries
  Editor,        \* requests with an If-Match header
  MaxVersion,    \* bound: versions of the edited entity
  MaxDbFaults    \* bound: errors

ASSUME TransactionConfig ==
  /\ Row \subseteq Nat /\ Free \notin Session
  /\ TrxRetries \in Nat /\ MaxVersion \in Nat \ {0} /\ MaxDbFaults \in Nat

VARIABLES
  holder,       \* the transaction that locks each row
  trx,          \* the calls of withTransaction
  applied,      \* history: commits of each call
  ambiguous,    \* history: calls whose commit went through without an answer
  version,      \* the entity's version, 0 when it was deleted
  editor,       \* requests that read the version and then update or delete
  won,          \* history: accepted edits of each version
  dbFaults

trxVars == <<holder, trx, applied, ambiguous, version, editor, won, dbFaults>>

NoTrx == [pc |-> "idle", want |-> {}, attempt |-> 0]
NoEdit == [pc |-> "idle", seen |-> 0]

TrxInit ==
  /\ holder = [r \in Row |-> Free]
  /\ trx = [c \in Session |-> NoTrx]
  /\ applied = [c \in Session |-> 0]
  /\ ambiguous = {}
  /\ version = 1
  /\ editor = [e \in Editor |-> NoEdit]
  /\ won = [v \in 1 .. MaxVersion |-> 0]
  /\ dbFaults = 0

DbWorks == UNCHANGED dbFaults
DbFails == dbFaults < MaxDbFaults /\ dbFaults' = dbFaults + 1
Mine(c) == {r \in Row : holder[r] = c}
Released(c) == [r \in Row |-> IF holder[r] = c THEN Free ELSE holder[r]]

\* withTransaction: a new transaction, whose callback locks these rows.
BeginTrx(c, rows) ==
  /\ trx[c].pc = "idle"
  /\ trx' = [trx EXCEPT ![c] = [pc |-> "locking", want |-> rows, attempt |-> 0]]
  /\ UNCHANGED <<holder, applied, ambiguous, version, editor, won, dbFaults>>

\* The row the ordered SELECT ... FOR UPDATE is at: the least of those not yet locked.
NextRow_AnyOrder(c) == trx[c].want \ Mine(c)

NextRow(c) == {r \in trx[c].want \ Mine(c) : \A q \in trx[c].want \ Mine(c) : r <= q}

\* lockRows: sortIds, then the rows are locked in ascending order; whoever
\* finds a row locked waits for it.
LockRow(c) ==
  /\ trx[c].pc = "locking"
  /\ \E r \in NextRow(c) : holder[r] = Free /\ holder' = [holder EXCEPT ![r] = c]
  /\ UNCHANGED <<trx, applied, ambiguous, version, editor, won, dbFaults>>

\* The rest of the callback; then commit.
Callback(c) ==
  /\ trx[c].pc = "locking" /\ NextRow(c) = {}
  /\ trx' = [trx EXCEPT ![c].pc = "commit"]
  /\ UNCHANGED <<holder, applied, ambiguous, version, editor, won, dbFaults>>

CommitTrx(c) ==
  /\ trx[c].pc = "commit"
  /\ holder' = Released(c)
  /\ \/ DbWorks /\ trx' = [trx EXCEPT ![c].pc = "ok"] /\ applied' = [applied EXCEPT ![c] = @ + 1]
        /\ UNCHANGED ambiguous
     \/ DbFails /\ trx' = [trx EXCEPT ![c].pc = "error"] /\ applied' = [applied EXCEPT ![c] = @ + 1]
        /\ ambiguous' = ambiguous \cup {c}
  /\ UNCHANGED <<version, editor, won>>

\* A statement or the commit fails: rollback releases the rows, and the original
\* error is kept.  A serialization failure or deadlock is retried after a delay,
\* up to maxRetries; any other error is thrown.
TrxFails(c) ==
  /\ trx[c].pc \in {"locking", "commit"} /\ DbFails
  /\ holder' = Released(c)
  /\ \E serialization \in BOOLEAN :
       trx' = [trx EXCEPT ![c].pc = IF serialization /\ trx[c].attempt < TrxRetries
                                    THEN "backoff" ELSE "error"]
  /\ UNCHANGED <<applied, ambiguous, version, editor, won>>

RetryTrx(c) ==
  /\ trx[c].pc = "backoff"
  /\ trx' = [trx EXCEPT ![c].pc = "locking", ![c].attempt = @ + 1]
  /\ UNCHANGED <<holder, applied, ambiguous, version, editor, won, dbFaults>>

-----------------------------------------------------------------------------

\* The client's GET (getWithVersion); it then sends If-Match.
ReadVersion(e) ==
  /\ editor[e].pc = "idle" /\ version > 0
  /\ editor' = [editor EXCEPT ![e] = [pc |-> "read", seen |-> version]]
  /\ UNCHANGED <<holder, trx, applied, ambiguous, version, won, dbFaults>>

UpdateWithLock_CheckedBefore(e) ==
  /\ editor[e].pc = "read" /\ version > 0 /\ version < MaxVersion
  /\ version' = editor[e].seen + 1
  /\ won' = [won EXCEPT ![editor[e].seen] = @ + 1]
  /\ editor' = [editor EXCEPT ![e] = NoEdit]
  /\ UNCHANGED <<holder, trx, applied, ambiguous, dbFaults>>

\* updateWithLock / deleteWithLock: one statement under WHERE version = seen; no
\* row changed is answered 409, or 404 when the entity is gone.
UpdateWithLock(e) ==
  /\ editor[e].pc = "read" /\ version = editor[e].seen /\ version < MaxVersion
  /\ version' = version + 1
  /\ won' = [won EXCEPT ![version] = @ + 1]
  /\ editor' = [editor EXCEPT ![e] = NoEdit]
  /\ UNCHANGED <<holder, trx, applied, ambiguous, dbFaults>>

DeleteWithLock(e) ==
  /\ editor[e].pc = "read" /\ version = editor[e].seen
  /\ version' = 0
  /\ won' = [won EXCEPT ![version] = @ + 1]
  /\ editor' = [editor EXCEPT ![e] = NoEdit]
  /\ UNCHANGED <<holder, trx, applied, ambiguous, dbFaults>>

EditRefused(e) ==
  /\ editor[e].pc = "read" /\ version # editor[e].seen
  /\ editor' = [editor EXCEPT ![e] = NoEdit]
  /\ UNCHANGED <<holder, trx, applied, ambiguous, version, won, dbFaults>>

TrxNext ==
  \/ \E c \in Session :
       \/ \E rows \in SUBSET Row : BeginTrx(c, rows)
       \/ LockRow(c) \/ Callback(c) \/ CommitTrx(c) \/ TrxFails(c) \/ RetryTrx(c)
  \/ \E e \in Editor : ReadVersion(e) \/ UpdateWithLock(e) \/ DeleteWithLock(e) \/ EditRefused(e)

-----------------------------------------------------------------------------

\* c waits for a row d holds.
WaitsFor(c, d) == trx[c].pc = "locking" /\ c # d /\ \E r \in NextRow(c) : holder[r] = d

\* Transactions that lock their rows through lockRows never wait for one another
\* in a circle.
NoLockCycle ==
  ~ \E c, d \in Session : WaitsFor(c, d) /\ WaitsFor(d, c)

\* However often it is retried, a transaction takes effect at most once, exactly
\* once when it is answered, and leaves no row locked; an error means no effect
\* unless the commit's own answer was lost.
EffectOnce ==
  \A c \in Session :
    /\ applied[c] <= 1
    /\ trx[c].pc = "ok" => applied[c] = 1
    /\ trx[c].pc = "error" /\ c \notin ambiguous => applied[c] = 0
    /\ trx[c].pc \in {"ok", "error", "backoff"} => Mine(c) = {}

\* Of all edits made against one version, one is accepted.
EditsNotLost == \A v \in DOMAIN won : won[v] <= 1

TransactionsSafe == NoLockCycle /\ EffectOnce /\ EditsNotLost

=============================================================================
