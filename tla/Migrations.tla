------------------------------ MODULE Migrations ------------------------------
(***************************************************************************)
(* The migration command line (db/migrate.js) with its safety rails        *)
(* (db/migrationSafety.js): the production gate, the preflight check, the  *)
(* advisory lock, knex's own run, and the audit rows.                      *)
(*                                                                         *)
(* The migrations are numbered in the order of their files, and knex keeps *)
(* a prefix of them applied.  Of the audit table, the last row about each  *)
(* migration.  The command "status" changes nothing and is left out.       *)
(***************************************************************************)
EXTENDS Naturals, Sequences

CONSTANTS
  MaxMigration,      \* migration files
  Destructive,       \* those in which DESTRUCTIVE_PATTERNS find something
  Runner,            \* command lines, on as many machines
  NoRunner,
  MaxMigrationFaults \* bound: failed statements, lost connections, deaths

ASSUME MigrationsConfig ==
  /\ MaxMigration \in Nat /\ Destructive \subseteq 1..MaxMigration
  /\ NoRunner \notin Runner /\ MaxMigrationFaults \in Nat

VARIABLES
  appliedUpTo,  \* knex_migrations: the migrations 1..appliedUpTo
  lastRow,      \* the direction in the last audit row of each migration
  advisory,     \* whose session holds pg_advisory_lock
  knexLock,     \* who is inside knex's batch
  migrating,    \* each command line: where it is, direction, names to audit
  unreliable,   \* history: a lock not held, a row not written, or a batch that
                \* took effect in a knex call that failed
  migrationFaults

migrationVars == <<appliedUpTo, lastRow, advisory, knexLock, migrating, unreliable, migrationFaults>>

NotMigrating == [pc |-> "idle", direction |-> "none", names |-> <<>>]

MigrationsInit ==
  /\ appliedUpTo = 0
  /\ lastRow = [m \in 1..MaxMigration |-> "none"]
  /\ advisory = NoRunner /\ knexLock = NoRunner
  /\ migrating = [c \in Runner |-> NotMigrating]
  /\ unreliable = FALSE /\ migrationFaults = 0

MigrationFault == migrationFaults < MaxMigrationFaults /\ migrationFaults' = migrationFaults + 1

MovesTo(c, pc) == migrating' = [migrating EXCEPT ![c].pc = pc]
RunEnds(c) == migrating' = [migrating EXCEPT ![c] = NotMigrating]

\* assertMigrationAllowed: every file counts, applied or not.
assertMigrationAllowed(production, allowDestructive) ==
  Destructive = {} \/ ~production \/ allowDestructive

\* A run that the gate lets through; a dry run then only lists what is pending.
Run(c, direction, production, allowDestructive) ==
  /\ migrating[c].pc = "idle"
  /\ assertMigrationAllowed(production, allowDestructive)
  /\ migrating' = [migrating EXCEPT ![c] =
                     [pc |-> "preflight", direction |-> direction, names |-> <<>>]]
  /\ UNCHANGED <<appliedUpTo, lastRow, advisory, knexLock, unreliable, migrationFaults>>

DryRun(c) ==
  /\ migrating[c].pc = "preflight"
  /\ RunEnds(c)
  /\ UNCHANGED <<appliedUpTo, lastRow, advisory, knexLock, unreliable, migrationFaults>>

\* preflightCheck: an unreachable database ends the run, with no audit row.
PreflightCheck(c) ==
  /\ migrating[c].pc = "preflight"
  /\ \/ MovesTo(c, "lock") /\ UNCHANGED migrationFaults
     \/ RunEnds(c) /\ MigrationFault
  /\ UNCHANGED <<appliedUpTo, lastRow, advisory, knexLock, unreliable>>

\* pg_advisory_lock waits; when it fails the run goes on with knex's lock alone.
AdvisoryLock(c) ==
  /\ migrating[c].pc = "lock"
  /\ \/ /\ advisory = NoRunner /\ advisory' = c
        /\ UNCHANGED <<unreliable, migrationFaults>>
     \/ MigrationFault /\ unreliable' = TRUE /\ UNCHANGED advisory
  /\ MovesTo(c, "migrate")
  /\ UNCHANGED <<appliedUpTo, lastRow, knexLock>>

\* The session that holds the lock loses its connection; the run does not notice.
LockLost(c) ==
  /\ advisory = c /\ advisory' = NoRunner
  /\ MigrationFault /\ unreliable' = TRUE
  /\ UNCHANGED <<appliedUpTo, lastRow, knexLock, migrating>>

\* knex.migrate.latest and down (external): one batch at a time, the migrations of
\* latest or the one of down in a transaction.
BatchNames(c) ==
  IF migrating[c].direction = "up" THEN [i \in 1..(MaxMigration - appliedUpTo) |-> appliedUpTo + i]
  ELSE IF appliedUpTo = 0 THEN <<>> ELSE <<appliedUpTo>>

AppliedAfter(c) ==
  IF migrating[c].direction = "up" THEN MaxMigration ELSE appliedUpTo - Len(BatchNames(c))

KnexBegins(c) ==
  /\ migrating[c].pc = "migrate" /\ knexLock = NoRunner
  /\ knexLock' = c
  /\ MovesTo(c, "batch")
  /\ UNCHANGED <<appliedUpTo, lastRow, advisory, unreliable, migrationFaults>>

KnexCommits(c) ==
  /\ migrating[c].pc = "batch"
  /\ appliedUpTo' = AppliedAfter(c)
  /\ knexLock' = NoRunner
  /\ migrating' = [migrating EXCEPT ![c].pc = "audit", ![c].names = BatchNames(c)]
  /\ UNCHANGED <<lastRow, advisory, unreliable, migrationFaults>>

\* A batch cut short, by a failure or a death, has taken effect or not: what fails
\* may be the answer to its COMMIT, or what comes after.  latest takes and frees
\* knex's lock in the same transaction, down outside of it, so there it may stay.
CutShort(c) ==
  IF migrating[c].pc = "batch"
    THEN /\ appliedUpTo' \in {appliedUpTo, AppliedAfter(c)}
         /\ knexLock' \in IF migrating[c].direction = "up" THEN {NoRunner} ELSE {NoRunner, c}
    ELSE UNCHANGED <<appliedUpTo, knexLock>>

\* knex rejects, or its lock is taken: an audit row of the failure, which names no
\* migration, and on to the finally block, whatever the batch has changed.
KnexFails(c) ==
  /\ \/ migrating[c].pc = "batch" /\ MigrationFault
     \/ migrating[c].pc = "migrate" /\ knexLock # NoRunner /\ UNCHANGED migrationFaults
  /\ CutShort(c)
  /\ unreliable' = (unreliable \/ appliedUpTo' # appliedUpTo)
  /\ MovesTo(c, "unlock")
  /\ UNCHANGED <<lastRow, advisory>>

\* recordMigrationRun, once for each name; a row that cannot be written is given up.
RecordMigrationRun(c) ==
  LET m == Head(migrating[c].names) IN
  /\ migrating[c].pc = "audit" /\ migrating[c].names # <<>>
  /\ \/ /\ lastRow' = [lastRow EXCEPT ![m] = migrating[c].direction]
        /\ UNCHANGED <<unreliable, migrationFaults>>
     \/ MigrationFault /\ unreliable' = TRUE /\ UNCHANGED lastRow
  /\ migrating' = [migrating EXCEPT ![c].names = Tail(@)]
  /\ UNCHANGED <<appliedUpTo, advisory, knexLock>>

Audited_RowsSkipped(c) == migrating[c].pc = "audit"

Audited(c) == migrating[c].pc = "audit" /\ migrating[c].names = <<>>

\* The finally block: pg_advisory_unlock, which frees the lock only if the pool
\* hands out the connection that took it; knex.destroy closes them all.
AdvisoryUnlock(c) ==
  /\ Audited(c) \/ migrating[c].pc = "unlock"
  /\ advisory' \in IF advisory = c THEN {NoRunner, c} ELSE {advisory}
  /\ MovesTo(c, "destroy")
  /\ UNCHANGED <<appliedUpTo, lastRow, knexLock, unreliable, migrationFaults>>

Destroy(c) ==
  /\ migrating[c].pc = "destroy"
  /\ advisory' = IF advisory = c THEN NoRunner ELSE advisory
  /\ RunEnds(c)
  /\ UNCHANGED <<appliedUpTo, lastRow, knexLock, unreliable, migrationFaults>>

\* The command line dies and its sessions end, in the middle of a batch or not.
RunnerDies(c) ==
  /\ migrating[c].pc # "idle"
  /\ MigrationFault
  /\ advisory' = IF advisory = c THEN NoRunner ELSE advisory
  /\ CutShort(c)
  /\ unreliable' = (unreliable \/ migrating[c].names # <<>> \/ appliedUpTo' # appliedUpTo)
  /\ RunEnds(c)
  /\ UNCHANGED lastRow

MigrationsNext ==
  \E c \in Runner :
    \/ \E direction \in {"up", "down"}, production, allow \in BOOLEAN :
         Run(c, direction, production, allow)
    \/ DryRun(c) \/ PreflightCheck(c) \/ AdvisoryLock(c) \/ LockLost(c)
    \/ KnexBegins(c) \/ KnexCommits(c) \/ KnexFails(c)
    \/ RecordMigrationRun(c) \/ AdvisoryUnlock(c) \/ Destroy(c) \/ RunnerDies(c)

-----------------------------------------------------------------------------

\* The audit table tells the truth: once no run is between its batch and its
\* rows, the last row about a migration says "up" exactly when it is applied,
\* however runs up and down follow, overlap and fail.  Only a lock that was not
\* held, a row that was not written, or a batch that took effect in a call of knex
\* that failed, may falsify it.
AuditTruthful ==
  (~unreliable /\ \A c \in Runner : migrating[c].names = <<>>) =>
    \A m \in 1..MaxMigration : lastRow[m] = "up" <=> m <= appliedUpTo

=============================================================================
