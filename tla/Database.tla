------------------------------ MODULE Database ------------------------------
(***************************************************************************)
(* Access to the database: transactions and versioned edits, the two retry *)
(* loops around failing work, and the pool the connections come from.  The *)
(* three share no variable, so their composition is the conjunction of     *)
(* their specifications: each moves as it likes beside the others.         *)
(***************************************************************************)
EXTENDS Transactions, Retries, ConnectionPool

TrxSpec == TrxInit /\ [][TrxNext]_trxVars
RetriesSpec == RetriesInit /\ [][RetriesNext]_retryVars
PoolSpec == PoolInit /\ [][PoolNext]_poolVars

DatabaseSpec == TrxSpec /\ RetriesSpec /\ PoolSpec

\* Work in the database is safe under contention and faults: transactions keep
\* their promises, what is retried is not done twice, and connections go back to
\* the pool they came from and are counted there.
DatabaseSafe == TransactionsSafe /\ RetriesSafe /\ PoolAccounted

=============================================================================
