----------------------------- MODULE LoginGuard -----------------------------
(***************************************************************************)
(* Logging in (auth/authService.js, auth/accountLockout.js): the lockout   *)
(* of one account after failed attempts, the lazy upgrade of a password    *)
(* kept in a legacy format, and changing the password.                     *)
(*                                                                         *)
(* The lockout is synchronous; a login awaits the user store and the       *)
(* password check between asking the lockout and reporting to it.          *)
(***************************************************************************)
EXTENDS Naturals, FiniteSets

CONSTANTS
  Attempt,             \* logins and password changes in flight
  MaxFailedAttempts,   \* maxFailedAttempts
  LockoutDuration,     \* lockoutDurationMs
  Window,              \* windowMs
  LoginHorizon         \* bound: the clock

ASSUME LoginConfig ==
  /\ IsFiniteSet(Attempt)
  /\ MaxFailedAttempts \in Nat \ {0} /\ LockoutDuration \in Nat \ {0}
  /\ Window \in Nat \ {0} /\ LoginHorizon \in Nat

VARIABLES
  record,      \* the account's entry of AccountLockout.attempts
  password,    \* the user store: the secret its hash is of, and the format
  attempt,     \* logins and changes in flight
  loginClock,
  changed      \* history: the password was changed, with an upgrade under way or not

loginVars == <<record, password, attempt, loginClock, changed>>

Clean == [failed |-> 0, until |-> 0, first |-> 0]
NoAttempt == [pc |-> "idle", secret |-> "none", read |-> "none", legacy |-> FALSE]

\* No entry is failed = 0; lockedUntil null is until = 0.
LoginInit ==
  /\ record = Clean
  /\ password = [secret |-> "old", legacy |-> TRUE]
  /\ attempt = [a \in Attempt |-> NoAttempt]
  /\ loginClock = 1
  /\ changed = "no"

Locked == record.until > loginClock

\* recordFailure: prune an old window, count, lock at the threshold.
Failed_LocksLate(rec) ==
  LET base == IF rec.failed = 0 \/ loginClock - rec.first > Window
              THEN [failed |-> 0, until |-> 0, first |-> loginClock] ELSE rec
  IN  [base EXCEPT !.failed = @ + 1,
                   !.until = IF base.failed + 1 > MaxFailedAttempts
                             THEN loginClock + LockoutDuration ELSE @]

RecordFailure(rec) ==
  LET base == IF rec.failed = 0 \/ loginClock - rec.first > Window
              THEN [failed |-> 0, until |-> 0, first |-> loginClock] ELSE rec
  IN  [base EXCEPT !.failed = @ + 1,
                   !.until = IF base.failed + 1 >= MaxFailedAttempts
                             THEN loginClock + LockoutDuration ELSE @]

\* loginUser up to the user store: isLocked refuses, or forgets a lock that ran out.
LoginBegins(a, secret) ==
  /\ attempt[a].pc = "idle" /\ ~Locked
  /\ record' = IF record.until > 0 THEN Clean ELSE record
  /\ attempt' = [attempt EXCEPT ![a] = [NoAttempt EXCEPT !.pc = "lookup", !.secret = secret]]
  /\ UNCHANGED <<password, loginClock, changed>>

\* The store answers, for a login or a password change.
LookUp(a) ==
  /\ attempt[a].pc \in {"lookup", "changeLookup"}
  /\ attempt' = [attempt EXCEPT ![a].read = password.secret, ![a].legacy = password.legacy,
                                ![a].pc = IF @ = "lookup" THEN "verify" ELSE "change"]
  /\ UNCHANGED <<record, password, loginClock, changed>>

\* verifyPassword against the hash that was read, then the lockout is told.
Verify(a) ==
  LET ok == attempt[a].secret = attempt[a].read IN
  /\ attempt[a].pc = "verify"
  /\ record' = IF ok THEN Clean ELSE RecordFailure(record)
  /\ attempt' = [attempt EXCEPT ![a] = IF ok /\ attempt[a].legacy
                                       THEN [attempt[a] EXCEPT !.pc = "upgrade"] ELSE NoAttempt]
  /\ UNCHANGED <<password, loginClock, changed>>

\* The hash of the password just verified replaces the stored one; a failed
\* update is only logged.
Upgrade(a) ==
  /\ attempt[a].pc = "upgrade"
  /\ password' \in {password, [secret |-> attempt[a].secret, legacy |-> FALSE]}
  /\ attempt' = [attempt EXCEPT ![a] = NoAttempt]
  /\ UNCHANGED <<record, loginClock, changed>>

\* changePassword: verify the current password, store the new hash.
ChangeBegins(a) ==
  /\ attempt[a].pc = "idle"
  /\ attempt' = [attempt EXCEPT ![a] = [NoAttempt EXCEPT !.pc = "changeLookup", !.secret = "old"]]
  /\ UNCHANGED <<record, password, loginClock, changed>>

ChangeStores(a) ==
  /\ attempt[a].pc = "change"
  /\ attempt' = [attempt EXCEPT ![a] = NoAttempt]
  /\ IF attempt[a].read = attempt[a].secret
     THEN /\ password' = [secret |-> "new", legacy |-> FALSE]
          /\ changed' = IF \/ changed = "raced"
                           \/ \E b \in Attempt : /\ attempt[b].pc \in {"verify", "upgrade"}
                                                 /\ attempt[b].legacy
                        THEN "raced" ELSE "clean"
     ELSE UNCHANGED <<password, changed>>
  /\ UNCHANGED <<record, loginClock>>

\* An administrator's unlock.
Unlock ==
  /\ record' = Clean
  /\ UNCHANGED <<password, attempt, loginClock, changed>>

LoginTick ==
  /\ loginClock < LoginHorizon /\ loginClock' = loginClock + 1
  /\ UNCHANGED <<record, password, attempt, changed>>

LoginNext ==
  \/ \E a \in Attempt :
       \/ \E s \in {"old", "new", "wrong"} : LoginBegins(a, s)
       \/ LookUp(a) \/ Verify(a) \/ Upgrade(a) \/ ChangeBegins(a) \/ ChangeStores(a)
  \/ Unlock \/ LoginTick

-----------------------------------------------------------------------------

\* However many logins overlap, an account takes no more failures than the
\* threshold and the attempts that were let in before it was reached.
FailuresBounded ==
  /\ record.failed <= MaxFailedAttempts - 1 + Cardinality(Attempt)
  /\ record.failed >= MaxFailedAttempts => record.until > 0

\* A changed password stays changed: the old one comes back only by the upgrade
\* of a login that had read it before the change.
PasswordStaysChanged == changed = "clean" => password.secret = "new"

\* Failed logins lock the account in time, and only a login's upgrade of the hash
\* it read can undo a password change (auth/authService.js, auth/accountLockout.js).
LoginsContained == FailuresBounded /\ PasswordStaysChanged

=============================================================================
