----------------------------- MODULE AuthProofs -----------------------------
(* Machine-checked proofs about authentication, for every value of the     *)
(* constants: the lockout of logins, the life of sessions, and the         *)
(* rotation of refresh tokens.                                             *)
EXTENDS LoginGuard, Sessions, TokenRefresh, FiniteSetTheorems, TLAPS

-----------------------------------------------------------------------------
(* LoginGuard (login, lockout, password change)                            *)

LoginSpec == LoginInit /\ [][LoginNext]_loginVars

Secret == {"none", "old", "new", "wrong"}
AttemptPlaces == {"idle", "lookup", "verify", "upgrade", "changeLookup", "change"}
AttemptRecord == [pc : AttemptPlaces, secret : Secret, read : Secret, legacy : BOOLEAN]

LoginType ==
  /\ record \in [failed : Nat, until : Nat, first : Nat]
  /\ password \in [secret : Secret, legacy : BOOLEAN]
  /\ attempt \in [Attempt -> AttemptRecord]
  /\ loginClock \in Nat \ {0}
  /\ changed \in {"no", "clean", "raced"}

\* Logins the lockout has let in and not yet heard of.
LetIn == {a \in Attempt : attempt[a].pc \in {"lookup", "verify"}}

\* A record past the threshold is locked, and leaves room for every login let in.
LockInv ==
  record.failed >= MaxFailedAttempts =>
    /\ record.until > 0
    /\ record.failed + Cardinality(LetIn) <= MaxFailedAttempts - 1 + Cardinality(Attempt)

\* After a change no login raced with, no login holds a hash in the legacy format.
ChangeInv ==
  /\ \A a \in Attempt : attempt[a].pc = "upgrade" => attempt[a].legacy
  /\ changed = "clean" =>
       /\ password.secret = "new" /\ ~password.legacy
       /\ \A a \in Attempt : attempt[a].pc \in {"verify", "upgrade"} => ~attempt[a].legacy

LoginInv == LoginType /\ LockInv /\ ChangeInv

LEMMA LetInFinite ==
  /\ IsFiniteSet(LetIn) /\ Cardinality(LetIn) \in Nat
  /\ Cardinality(Attempt) \in Nat /\ Cardinality(LetIn) <= Cardinality(Attempt)
<1>1. LetIn \subseteq Attempt
  BY DEF LetIn
<1> QED BY <1>1, LoginConfig, FS_Subset, FS_CardinalityType

LEMMA LoginInitInv == LoginInit => LoginInv
<1> SUFFICES ASSUME LoginInit PROVE LoginInv
  OBVIOUS
<1>1. \A a \in Attempt : attempt[a] = NoAttempt
  BY DEF LoginInit
<1>2. NoAttempt \in AttemptRecord /\ NoAttempt.pc = "idle"
  BY DEF NoAttempt, AttemptRecord, AttemptPlaces, Secret
<1>3. LoginType
  BY <1>1, <1>2, LoginConfig DEF LoginInit, LoginType, Clean, Secret
<1>4. LockInv
  BY LoginConfig DEF LoginInit, LockInv, Clean
<1>5. ChangeInv
  BY <1>1, <1>2 DEF LoginInit, ChangeInv
<1> QED BY <1>3, <1>4, <1>5 DEF LoginInv

\* A step of one attempt, with what the invariant tells apart.
AttemptTo(a, new) == new \in AttemptRecord /\ attempt' = [attempt EXCEPT ![a] = new]

LEMMA AttemptsMove ==
  ASSUME LoginType, NEW a \in Attempt, NEW new, AttemptTo(a, new)
  PROVE  /\ attempt' \in [Attempt -> AttemptRecord] /\ attempt'[a] = new
         /\ \A b \in Attempt \ {a} : attempt'[b] = attempt[b]
BY DEF LoginType, AttemptTo

LEMMA NoAttemptType == NoAttempt \in AttemptRecord /\ NoAttempt.pc = "idle" /\ NoAttempt.legacy = FALSE
BY DEF NoAttempt, AttemptRecord, AttemptPlaces, Secret

LEMMA BeginsKeeps ==
  ASSUME LoginInv, NEW a \in Attempt, NEW s \in {"old", "new", "wrong"}, LoginBegins(a, s)
  PROVE  LoginInv'
<1> DEFINE new == [NoAttempt EXCEPT !.pc = "lookup", !.secret = s]
<1>0. "lookup" \in AttemptPlaces /\ s \in Secret
  BY DEF AttemptPlaces, Secret
<1>1. AttemptTo(a, new) /\ new.pc = "lookup"
  BY <1>0, NoAttemptType DEF LoginBegins, AttemptTo, AttemptRecord
<1> HIDE DEF new
<1>2. /\ attempt' \in [Attempt -> AttemptRecord] /\ attempt'[a] = new
      /\ \A b \in Attempt \ {a} : attempt'[b] = attempt[b]
  BY <1>1, AttemptsMove DEF LoginInv
<1>3. /\ record' \in [failed : Nat, until : Nat, first : Nat]
      /\ record'.failed < MaxFailedAttempts
  BY LoginConfig DEF LoginBegins, LoginInv, LoginType, LockInv, Clean, Locked
<1>4. LoginType'
  BY <1>2, <1>3 DEF LoginInv, LoginType, LoginBegins
<1>5. LockInv'
  BY <1>3, LoginConfig DEF LockInv
<1>6. ChangeInv'
  BY <1>1, <1>2 DEF LoginInv, ChangeInv, LoginBegins
<1> QED BY <1>4, <1>5, <1>6 DEF LoginInv

\* An attempt that goes on without the lockout hearing of it.
LEMMA LetInSame ==
  ASSUME LoginInv, NEW a \in Attempt, NEW new, AttemptTo(a, new),
         new.pc \in {"lookup", "verify"} => attempt[a].pc \in {"lookup", "verify"},
         record' = record
  PROVE  LockInv'
<1>1. LetIn' \subseteq LetIn
  BY AttemptsMove DEF LetIn, LoginInv
<1>2. Cardinality(LetIn') <= Cardinality(LetIn) /\ Cardinality(LetIn') \in Nat
  BY <1>1, LetInFinite, FS_Subset, FS_CardinalityType
<1> QED BY <1>2, LetInFinite, LoginConfig DEF LoginInv, LoginType, LockInv

LEMMA LookUpKeeps ==
  ASSUME LoginInv, NEW a \in Attempt, LookUp(a)
  PROVE  LoginInv'
<1> DEFINE to == IF attempt[a].pc = "lookup" THEN "verify" ELSE "change"
           new == attempt'[a]
<1>1. /\ attempt \in [Attempt -> [pc : AttemptPlaces, secret : Secret, read : Secret, legacy : BOOLEAN]]
      /\ password.secret \in Secret /\ password.legacy \in BOOLEAN
  BY DEF LoginInv, LoginType, AttemptRecord
<1>2. attempt' = [attempt EXCEPT ![a].read = password.secret, ![a].legacy = password.legacy,
                                 ![a].pc = to]
  BY DEF LookUp
<1>3. to \in AttemptPlaces
  BY DEF AttemptPlaces
<1> HIDE DEF to
<1>4. /\ attempt' \in [Attempt -> AttemptRecord]
      /\ \A b \in Attempt \ {a} : attempt'[b] = attempt[b]
      /\ attempt'[a].pc = to /\ attempt'[a].legacy = password.legacy
  BY <1>1, <1>2, <1>3 DEF AttemptRecord
<1>5. AttemptTo(a, new) /\ new.legacy = password.legacy
  BY <1>1, <1>4 DEF AttemptTo, AttemptRecord
<1>a. new.pc \in {"verify", "change"} /\ (new.pc = "verify" => attempt[a].pc = "lookup")
  BY <1>4 DEF to
<1> HIDE DEF new
<1>6. /\ attempt' \in [Attempt -> AttemptRecord] /\ attempt'[a] = new
      /\ \A b \in Attempt \ {a} : attempt'[b] = attempt[b]
  BY <1>5, AttemptsMove DEF LoginInv
<1>7. LoginType'
  BY <1>6 DEF LoginInv, LoginType, LookUp
<1>8. LockInv'
  BY <1>5, <1>a, LetInSame DEF LookUp
<1>9. ChangeInv'
  BY <1>5, <1>6, <1>a DEF LoginInv, ChangeInv, LookUp
<1> QED BY <1>7, <1>8, <1>9 DEF LoginInv

LEMMA FailureRecorded ==
  ASSUME LoginInv
  PROVE  /\ RecordFailure(record) \in [failed : Nat, until : Nat, first : Nat]
         /\ RecordFailure(record).failed <= record.failed + 1
         /\ RecordFailure(record).failed >= MaxFailedAttempts => RecordFailure(record).until > 0
<1>1. record \in [failed : Nat, until : Nat, first : Nat] /\ loginClock \in Nat \ {0}
  BY DEF LoginInv, LoginType
<1> DEFINE base == IF record.failed = 0 \/ loginClock - record.first > Window
                   THEN [failed |-> 0, until |-> 0, first |-> loginClock] ELSE record
<1>2. base \in [failed : Nat, until : Nat, first : Nat] /\ base.failed <= record.failed
  BY <1>1
<1>3. RecordFailure(record) =
        [base EXCEPT !.failed = @ + 1,
                     !.until = IF base.failed + 1 >= MaxFailedAttempts
                               THEN loginClock + LockoutDuration ELSE @]
  BY DEF RecordFailure
<1> HIDE DEF base
<1>4. RecordFailure(record) =
        [failed |-> base.failed + 1, first |-> base.first,
         until |-> IF base.failed + 1 >= MaxFailedAttempts
                   THEN loginClock + LockoutDuration ELSE base.until]
  BY <1>2, <1>3
<1> QED BY <1>1, <1>2, <1>4, LoginConfig

LEMMA VerifyKeeps ==
  ASSUME LoginInv, NEW a \in Attempt, Verify(a)
  PROVE  LoginInv'
<1> DEFINE ok == attempt[a].secret = attempt[a].read
           upgraded == [pc |-> "upgrade", secret |-> attempt[a].secret, read |-> attempt[a].read,
                        legacy |-> attempt[a].legacy]
<1>1. attempt \in [Attempt -> [pc : AttemptPlaces, secret : Secret, read : Secret, legacy : BOOLEAN]]
  BY DEF LoginInv, LoginType, AttemptRecord
<1>2. [attempt[a] EXCEPT !.pc = "upgrade"] = upgraded
  BY <1>1
<1>3. upgraded \in AttemptRecord
  BY <1>1 DEF AttemptRecord, AttemptPlaces
<1>4. PICK new : /\ AttemptTo(a, new)
                 /\ \/ new = NoAttempt
                    \/ new = upgraded /\ ok /\ attempt[a].legacy
  <2>1. CASE ok /\ attempt[a].legacy
    BY <1>2, <1>3, <2>1 DEF Verify, AttemptTo
  <2>2. CASE ~(ok /\ attempt[a].legacy)
    BY <2>2, NoAttemptType DEF Verify, AttemptTo
  <2> QED BY <2>1, <2>2
<1>5. new.pc \in {"idle", "upgrade"} /\ (new.pc = "upgrade" => new.legacy /\ attempt[a].legacy)
  BY <1>4, NoAttemptType
<1>6. /\ attempt' \in [Attempt -> AttemptRecord] /\ attempt'[a] = new
      /\ \A b \in Attempt \ {a} : attempt'[b] = attempt[b]
  BY <1>4, AttemptsMove DEF LoginInv
<1>7. /\ attempt[a].pc = "verify" /\ UNCHANGED <<password, loginClock, changed>>
      /\ record' = Clean \/ record' = RecordFailure(record)
  BY DEF Verify
<1>8. LoginType'
  BY <1>6, <1>7, FailureRecorded DEF LoginInv, LoginType, Clean
<1>9. LockInv'
  <2>1. CASE record' = Clean
    BY <2>1, LoginConfig DEF LockInv, Clean
  <2>2. CASE record' = RecordFailure(record)
    <3>1. a \in LetIn /\ LetIn' = LetIn \ {a}
      BY <1>5, <1>6, <1>7 DEF LetIn
    <3>2. Cardinality(LetIn') = Cardinality(LetIn) - 1
      BY <3>1, LetInFinite, FS_RemoveElement
    <3> QED BY <2>2, <3>2, LetInFinite, FailureRecorded, LoginConfig DEF LoginInv, LoginType, LockInv
  <2> QED BY <1>7, <2>1, <2>2
<1>10. ChangeInv'
  BY <1>5, <1>6, <1>7 DEF LoginInv, ChangeInv
<1> QED BY <1>8, <1>9, <1>10 DEF LoginInv

LEMMA UpgradeKeeps ==
  ASSUME LoginInv, NEW a \in Attempt, Upgrade(a)
  PROVE  LoginInv'
<1>1. AttemptTo(a, NoAttempt)
  BY NoAttemptType DEF AttemptTo, Upgrade
<1>2. /\ attempt' \in [Attempt -> AttemptRecord] /\ attempt'[a] = NoAttempt
      /\ \A b \in Attempt \ {a} : attempt'[b] = attempt[b]
  BY <1>1, AttemptsMove DEF LoginInv
<1>3. changed # "clean"
  BY DEF LoginInv, ChangeInv, Upgrade
<1>4. password' \in [secret : Secret, legacy : BOOLEAN]
  <2>1. attempt[a] \in [pc : AttemptPlaces, secret : Secret, read : Secret, legacy : BOOLEAN]
    BY DEF LoginInv, LoginType, AttemptRecord
  <2>2. [secret |-> attempt[a].secret, legacy |-> FALSE] \in [secret : Secret, legacy : BOOLEAN]
    BY <2>1
  <2>3. \/ password' = password
        \/ password' = [secret |-> attempt[a].secret, legacy |-> FALSE]
    BY DEF Upgrade
  <2> QED BY <2>2, <2>3 DEF LoginInv, LoginType
<1>5. LoginType'
  BY <1>2, <1>4 DEF LoginInv, LoginType, Upgrade
<1>6. LockInv'
  BY <1>1, NoAttemptType, LetInSame DEF Upgrade
<1>7. ChangeInv'
  BY <1>2, <1>3, NoAttemptType DEF LoginInv, ChangeInv, Upgrade
<1> QED BY <1>5, <1>6, <1>7 DEF LoginInv

LEMMA ChangeBeginsKeeps ==
  ASSUME LoginInv, NEW a \in Attempt, ChangeBegins(a)
  PROVE  LoginInv'
<1> DEFINE new == [NoAttempt EXCEPT !.pc = "changeLookup", !.secret = "old"]
<1>0. "changeLookup" \in AttemptPlaces /\ "old" \in Secret
  BY DEF AttemptPlaces, Secret
<1>1. AttemptTo(a, new) /\ new.pc = "changeLookup"
  BY <1>0, NoAttemptType DEF ChangeBegins, AttemptTo, AttemptRecord
<1> HIDE DEF new
<1>2. /\ attempt' \in [Attempt -> AttemptRecord] /\ attempt'[a] = new
      /\ \A b \in Attempt \ {a} : attempt'[b] = attempt[b]
  BY <1>1, AttemptsMove DEF LoginInv
<1>3. LoginType'
  BY <1>2 DEF LoginInv, LoginType, ChangeBegins
<1>4. LockInv'
  BY <1>1, LetInSame DEF ChangeBegins
<1>5. ChangeInv'
  BY <1>1, <1>2 DEF LoginInv, ChangeInv, ChangeBegins
<1> QED BY <1>3, <1>4, <1>5 DEF LoginInv

LEMMA ChangeStoresKeeps ==
  ASSUME LoginInv, NEW a \in Attempt, ChangeStores(a)
  PROVE  LoginInv'
<1>1. AttemptTo(a, NoAttempt)
  BY NoAttemptType DEF AttemptTo, ChangeStores
<1>2. /\ attempt' \in [Attempt -> AttemptRecord] /\ attempt'[a] = NoAttempt
      /\ \A b \in Attempt \ {a} : attempt'[b] = attempt[b]
  BY <1>1, AttemptsMove DEF LoginInv
<1>3. LockInv'
  BY <1>1, NoAttemptType, LetInSame DEF ChangeStores
<1>4. CASE attempt[a].read = attempt[a].secret
  <2>1. /\ password' = [secret |-> "new", legacy |-> FALSE] /\ UNCHANGED <<record, loginClock>>
        /\ changed' \in {"clean", "raced"}
    BY <1>4 DEF ChangeStores
  <2>2. changed' = "clean" =>
          \A b \in Attempt : attempt[b].pc \in {"verify", "upgrade"} => ~attempt[b].legacy
    BY <1>4 DEF ChangeStores
  <2>3. LoginType'
    BY <1>2, <2>1 DEF LoginInv, LoginType, Secret
  <2>4. ChangeInv'
    BY <1>2, <2>1, <2>2, NoAttemptType DEF LoginInv, ChangeInv
  <2> QED BY <1>3, <2>3, <2>4 DEF LoginInv
<1>5. CASE attempt[a].read # attempt[a].secret
  <2>1. UNCHANGED <<password, changed, record, loginClock>>
    BY <1>5 DEF ChangeStores
  <2>2. LoginType'
    BY <1>2, <2>1 DEF LoginInv, LoginType
  <2>3. ChangeInv'
    BY <1>2, <2>1, NoAttemptType DEF LoginInv, ChangeInv
  <2> QED BY <1>3, <2>2, <2>3 DEF LoginInv
<1> QED BY <1>4, <1>5

LEMMA LoginStep == LoginInv /\ [LoginNext]_loginVars => LoginInv'
<1> SUFFICES ASSUME LoginInv, [LoginNext]_loginVars PROVE LoginInv'
  OBVIOUS
<1>1. CASE Unlock
  <2>1. record' \in [failed : Nat, until : Nat, first : Nat] /\ record'.failed < MaxFailedAttempts
    BY <1>1, LoginConfig DEF Unlock, Clean
  <2>2. UNCHANGED <<password, attempt, loginClock, changed>>
    BY <1>1 DEF Unlock
  <2> QED BY <2>1, <2>2, LoginConfig DEF LoginInv, LoginType, LockInv, ChangeInv
<1>2. CASE LoginTick
  BY <1>2 DEF LoginTick, LoginInv, LoginType, LockInv, ChangeInv, LetIn
<1>3. CASE UNCHANGED loginVars
  BY <1>3 DEF loginVars, LoginInv, LoginType, LockInv, ChangeInv, LetIn
<1> QED BY <1>1, <1>2, <1>3, BeginsKeeps, LookUpKeeps, VerifyKeeps, UpgradeKeeps,
           ChangeBeginsKeeps, ChangeStoresKeeps DEF LoginNext

\* Logins of auth/authService.js against auth/accountLockout.js, for any number of
\* overlapping attempts: failures beyond the threshold are at most those let in
\* before it was reached, the account is locked from then on, and a changed password
\* stays changed unless a login's hash upgrade raced with the change.
THEOREM LoginsSafe == LoginSpec => []LoginsContained
<1>1. LoginInv => LoginsContained
  BY LetInFinite, LoginConfig DEF LoginInv, LoginType, LockInv, ChangeInv, LoginsContained,
     FailuresBounded, PasswordStaysChanged
<1> QED BY LoginInitInv, LoginStep, <1>1, PTL DEF LoginSpec

-----------------------------------------------------------------------------
(* Sessions (create, validate, touch, invalidate)                          *)

SessionsSpec == SessionsInit /\ [][SessionsNext]_sessionVars

StoredRecord == [absolute : Int, idle : Int, last : Int, dies : Int]
CallOps == {"none", "create", "request", "touch", "logout", "drop", "change", "cleanup"}
CallPlaces == {"idle", "set", "zadd", "sadd", "get", "handling", "write", "del", "zrem", "srem",
               "members", "multi"}
CallRecord == [op : CallOps, pc : CallPlaces, sid : Sid \cup {NoSession}, now : Int,
               rec : StoredRecord \cup {NoSession}, ids : SUBSET Sid]

SessionsType ==
  /\ session \in [Sid -> StoredRecord \cup {NoSession}]
  /\ ranked \subseteq [sid : Sid, score : Int] /\ ofUser \subseteq Sid
  /\ caller \in [Caller -> CallRecord]
  /\ clock \in Nat /\ born \in [Sid -> Int]
  /\ ended \subseteq Sid /\ slipped \subseteq Sid \cup {NoSession}
  /\ sessionFaults \in Nat

Creating(s) == \E d \in Caller : caller[d].op = "create" /\ caller[d].sid = s

\* Nothing of s is stored, and no call is about to store it.
Dead(s) == session[s] = NoSession /\ ~Creating(s) /\ ~TouchUnderWay(s)

Within(rec, s) == rec \in StoredRecord /\ rec.absolute <= born[s] + AbsoluteLifetime

\* What a call in flight may rely on.
CreateOk(k) == k.op = "create" => k.sid \in Sid /\ born[k.sid] >= 0 /\ k.now = born[k.sid]
NamedOk(k) ==
  k.op \in {"request", "touch", "logout", "drop"} =>
    k.sid \in Sid /\ born[k.sid] >= 0 /\ ~Creating(k.sid)
LetInOk(k) ==
  /\ k.pc = "handling" => k.op = "request" /\ k.now <= born[k.sid] + AbsoluteLifetime + ClockSkew
  /\ k.op = "touch" /\ k.pc \in {"write", "zadd"} => Within(k.rec, k.sid)
DropOk(k) ==
  k.op \in {"logout", "drop"} /\ k.pc \in {"zrem", "srem"} => k.sid \in slipped \/ Dead(k.sid)
ChangeOk(k) ==
  k.op = "change" => /\ \A s \in k.ids : s \in Sid /\ born[s] >= 0 /\ ~Creating(s)
                     /\ k.pc = "multi" => \A s \in k.ids : s \in slipped \/ Dead(s)
IdleOk(k) == k.pc = "idle" => k.op = "none"
CallOk(k) == IdleOk(k) /\ CreateOk(k) /\ NamedOk(k) /\ LetInOk(k) /\ DropOk(k) /\ ChangeOk(k)

\* Every stored session is listed, unless its call is still to list it or it slipped.
ListedInv ==
  /\ \A s \in ofUser : born[s] >= 0 /\ ~Creating(s)
  /\ \A s \in Sid : born[s] >= 0 /\ s \notin ofUser /\ ~Creating(s) => s \in slipped \/ Dead(s)
StoredInv == \A s \in Sid : session[s] # NoSession => born[s] >= 0 /\ Within(session[s], s)
EndedInv == \A s \in ended : born[s] >= 0 /\ (s \in slipped \/ Dead(s))
OneCreator == \A c, d \in Caller : caller[c].op = "create" /\ caller[d].op = "create"
                                    /\ caller[c].sid = caller[d].sid => c = d

SessInv == SessionsType /\ (\A c \in Caller : CallOk(caller[c])) /\ ListedInv /\ StoredInv
           /\ EndedInv /\ OneCreator

LEMMA NoCallType ==
  /\ NoCall \in CallRecord /\ NoCall.op = "none" /\ NoCall.pc = "idle" /\ NoCall.ids = {}
BY DEF NoCall, CallRecord, CallOps, CallPlaces

LEMMA NoCallOk == CallOk(NoCall)
BY NoCallType DEF CallOk, IdleOk, CreateOk, NamedOk, LetInOk, DropOk, ChangeOk

LEMMA SessInit == SessionsInit => SessInv
<1> SUFFICES ASSUME SessionsInit PROVE SessInv
  OBVIOUS
<1>1. \A c \in Caller : caller[c] = NoCall
  BY DEF SessionsInit
<1>2. \A s \in Sid : session[s] = NoSession /\ born[s] = -1
  BY DEF SessionsInit
<1>3. SessionsType
  BY NoCallType, SessionConfig DEF SessionsInit, SessionsType
<1>4. ofUser = {} /\ ended = {}
  BY DEF SessionsInit
<1>5. OneCreator
  BY <1>1, NoCallType DEF OneCreator
<1> QED BY <1>1, <1>2, <1>3, <1>4, <1>5, NoCallOk DEF SessInv, ListedInv, StoredInv, EndedInv

\* The calls a step does not touch keep what they rely on.
Calm ==
  /\ \A s \in Sid : born[s] >= 0 /\ Dead(s) => Dead(s)'
  /\ \A s \in Sid : born[s] >= 0 => born'[s] = born[s] /\ (Creating(s)' => Creating(s))
  /\ slipped \subseteq slipped'

LEMMA OthersKeep ==
  ASSUME SessInv, Calm, NEW d \in Caller, caller'[d] = caller[d]
  PROVE  CallOk(caller[d])'
<1> DEFINE k == caller[d]
<1>1. CallOk(k) /\ k' = k /\ k \in CallRecord
  BY DEF SessInv, SessionsType
<1> HIDE DEF k
<1>2. CreateOk(k)'
  BY <1>1 DEF CallOk, IdleOk, CreateOk, Calm
<1>3. NamedOk(k)'
  BY <1>1 DEF CallOk, NamedOk, Calm
<1>4. LetInOk(k)'
  <2>1. k.pc = "handling" => k.sid \in Sid /\ born[k.sid] >= 0 /\ born'[k.sid] = born[k.sid]
    BY <1>1 DEF CallOk, LetInOk, NamedOk, Calm
  <2>2. k.op = "touch" => k.sid \in Sid /\ born[k.sid] >= 0 /\ born'[k.sid] = born[k.sid]
    BY <1>1 DEF CallOk, NamedOk, Calm
  <2> QED BY <1>1, <2>1, <2>2 DEF CallOk, LetInOk, Within
<1>5. DropOk(k)'
  <2>1. k.op \in {"logout", "drop"} => k.sid \in Sid /\ born[k.sid] >= 0
    BY <1>1 DEF CallOk, NamedOk
  <2> QED BY <1>1, <2>1 DEF CallOk, DropOk, Calm
<1>6. ChangeOk(k)'
  BY <1>1 DEF CallOk, ChangeOk, Calm
<1>7. IdleOk(k)'
  BY <1>1 DEF CallOk, IdleOk
<1> QED BY <1>1, <1>2, <1>3, <1>4, <1>5, <1>6, <1>7 DEF CallOk, k

\* A step of one call, and what it must show.
CallTo(c, new) == new \in CallRecord /\ caller' = [caller EXCEPT ![c] = new]

LEMMA CallersMove ==
  ASSUME SessionsType, NEW c \in Caller, NEW new, CallTo(c, new)
  PROVE  /\ caller' \in [Caller -> CallRecord] /\ caller'[c] = new
         /\ \A d \in Caller \ {c} : caller'[d] = caller[d]
BY DEF SessionsType, CallTo

LEMMA CallsKeep ==
  ASSUME SessInv, Calm, NEW c \in Caller, NEW new, CallTo(c, new), CallOk(caller[c])'
  PROVE  \A d \in Caller : CallOk(caller[d])'
<1>1. \A d \in Caller \ {c} : caller'[d] = caller[d]
  BY CallersMove DEF SessInv
<1>2. \A d \in Caller \ {c} : CallOk(caller[d])'
  BY <1>1, OthersKeep
<1> QED BY <1>2

\* A call that stores nothing and is not a creation goes on.
LEMMA QuietMove ==
  ASSUME SessInv, NEW c \in Caller, NEW new, CallTo(c, new),
         UNCHANGED <<session, born>>,
         new.op # "create", caller[c].op # "create",
         new.op = "touch" /\ new.pc = "write" => session[new.sid] # NoSession
  PROVE  /\ \A s : Creating(s)' <=> Creating(s)
         /\ \A s \in Sid : Dead(s) => Dead(s)'
         /\ OneCreator'
<1>1. /\ caller'[c] = new /\ \A d \in Caller \ {c} : caller'[d] = caller[d]
  BY CallersMove DEF SessInv
<1>2. \A s : Creating(s)' <=> Creating(s)
  BY <1>1 DEF Creating
<1>3. \A s \in Sid : session[s] = NoSession /\ ~TouchUnderWay(s) => ~TouchUnderWay(s)'
  BY <1>1 DEF TouchUnderWay
<1>4. OneCreator'
  BY <1>1 DEF SessInv, OneCreator
<1> QED BY <1>2, <1>3, <1>4 DEF Dead

\* The same, with the lists unchanged: the invariant is left to the call itself.
LEMMA QuietKeeps ==
  ASSUME SessInv, NEW c \in Caller, NEW new, CallTo(c, new), SessionsType',
         UNCHANGED <<session, ofUser, born, ended, slipped>>,
         new.op # "create", caller[c].op # "create",
         new.op = "touch" /\ new.pc = "write" => session[new.sid] # NoSession,
         CallOk(new)
  PROVE  SessInv'
<1>1. /\ \A s : Creating(s)' <=> Creating(s)
      /\ \A s \in Sid : Dead(s) => Dead(s)'
      /\ OneCreator'
  BY QuietMove
<1>2. Calm
  BY <1>1 DEF Calm
<1>3. caller'[c] = new
  BY CallersMove DEF SessInv
<1>4. CallOk(caller[c])'
  <2>1. CreateOk(caller[c])'
    BY <1>3 DEF CreateOk
  <2>2. NamedOk(caller[c])'
    BY <1>1, <1>3 DEF CallOk, NamedOk
  <2>3. LetInOk(caller[c])'
    BY <1>3 DEF CallOk, LetInOk, Within
  <2>4. DropOk(caller[c])'
    BY <1>1, <1>3 DEF CallOk, DropOk, NamedOk
  <2>5. ChangeOk(caller[c])'
    BY <1>1, <1>3 DEF CallOk, ChangeOk
  <2>6. IdleOk(caller[c])'
    BY <1>3 DEF CallOk, IdleOk
  <2> QED BY <2>1, <2>2, <2>3, <2>4, <2>5, <2>6 DEF CallOk
<1>5. \A d \in Caller : CallOk(caller[d])'
  BY <1>2, <1>4, CallsKeep
<1>6. ListedInv'
  BY <1>1 DEF SessInv, SessionsType, ListedInv
<1>7. StoredInv'
  BY DEF SessInv, StoredInv, Within
<1>8. EndedInv'
  BY <1>1 DEF SessInv, SessionsType, EndedInv
<1> QED BY <1>1, <1>5, <1>6, <1>7, <1>8 DEF SessInv

\* A call that ends without having stored anything.
LEMMA ReturnKeeps ==
  ASSUME SessInv, NEW c \in Caller, Returns(c), SessionsType', caller[c].op # "create",
         UNCHANGED <<session, ofUser, born, ended, slipped>>
  PROVE  SessInv'
<1>1. CallTo(c, NoCall)
  BY NoCallType DEF Returns, CallTo
<1> QED BY <1>1, NoCallType, NoCallOk, QuietKeeps

-----------------------------------------------------------------------------

\* The calls that begin, and the steps that store nothing.
LEMMA IdleIsNot ==
  ASSUME SessInv, NEW c \in Caller
  PROVE  /\ caller[c] \in CallRecord /\ CallOk(caller[c])
         /\ caller[c].sid \in Sid \cup {NoSession} /\ caller[c].now \in Int /\ caller[c].ids \subseteq Sid
         /\ caller[c].rec \in StoredRecord \cup {NoSession}
<1>1. caller[c] \in CallRecord
  BY DEF SessInv, SessionsType
<1> QED BY <1>1 DEF SessInv, CallRecord

LEMMA RequestKeeps ==
  ASSUME SessInv, NEW c \in Caller, NEW s \in Sid, Request(c, s)
  PROVE  SessInv'
<1> DEFINE new == [NoCall EXCEPT !.op = "request", !.pc = "get", !.sid = s, !.now = clock]
<1>0. /\ "request" \in CallOps /\ "get" \in CallPlaces /\ s \in Sid \cup {NoSession} /\ clock \in Int
  BY DEF CallOps, CallPlaces, SessInv, SessionsType
<1>1. new \in CallRecord /\ new.op = "request" /\ new.pc = "get" /\ new.sid = s
  BY <1>0, NoCallType DEF CallRecord
<1>2. CallTo(c, new)
  BY <1>1 DEF Request, CallTo
<1> HIDE DEF new
<1>3. CallOk(new)
  BY <1>1 DEF Request, CallOk, IdleOk, CreateOk, NamedOk, LetInOk, DropOk, ChangeOk, Creating
<1>4. SessionsType'
  BY <1>2, CallersMove DEF SessInv, SessionsType, Request
<1>5. caller[c].op # "create"
  BY IdleIsNot DEF CallOk, IdleOk, Request
<1>6. UNCHANGED <<session, ofUser, born, ended, slipped>>
  BY DEF Request
<1> QED BY <1>1, <1>2, <1>3, <1>4, <1>5, <1>6, QuietKeeps

LEMMA LogoutKeeps ==
  ASSUME SessInv, NEW c \in Caller, NEW s \in Sid, Logout(c, s)
  PROVE  SessInv'
<1> DEFINE new == [NoCall EXCEPT !.op = "logout", !.pc = "get", !.sid = s]
<1>0. /\ "logout" \in CallOps /\ "get" \in CallPlaces /\ s \in Sid \cup {NoSession}
  BY DEF CallOps, CallPlaces
<1>1. new \in CallRecord /\ new.op = "logout" /\ new.pc = "get" /\ new.sid = s
  BY <1>0, NoCallType DEF CallRecord
<1>2. CallTo(c, new)
  BY <1>1 DEF Logout, CallTo
<1> HIDE DEF new
<1>3. CallOk(new)
  BY <1>1 DEF Logout, CallOk, IdleOk, CreateOk, NamedOk, LetInOk, DropOk, ChangeOk, Creating
<1>4. SessionsType'
  BY <1>2, CallersMove DEF SessInv, SessionsType, Logout
<1>5. caller[c].op # "create"
  BY IdleIsNot DEF CallOk, IdleOk, Logout
<1>6. UNCHANGED <<session, ofUser, born, ended, slipped>>
  BY DEF Logout
<1> QED BY <1>1, <1>2, <1>3, <1>4, <1>5, <1>6, QuietKeeps

LEMMA ChangePasswordKeeps ==
  ASSUME SessInv, NEW c \in Caller, ChangePassword(c)
  PROVE  SessInv'
<1> DEFINE new == [NoCall EXCEPT !.op = "change", !.pc = "members"]
<1>0. "change" \in CallOps /\ "members" \in CallPlaces
  BY DEF CallOps, CallPlaces
<1>1. new \in CallRecord /\ new.op = "change" /\ new.pc = "members" /\ new.ids = {}
  BY <1>0, NoCallType DEF CallRecord
<1>2. CallTo(c, new)
  BY <1>1 DEF ChangePassword, CallTo
<1> HIDE DEF new
<1>3. CallOk(new)
  BY <1>1 DEF CallOk, IdleOk, CreateOk, NamedOk, LetInOk, DropOk, ChangeOk
<1>4. SessionsType'
  BY <1>2, CallersMove DEF SessInv, SessionsType, ChangePassword
<1>5. caller[c].op # "create"
  BY IdleIsNot DEF CallOk, IdleOk, ChangePassword
<1>6. UNCHANGED <<session, ofUser, born, ended, slipped>>
  BY DEF ChangePassword
<1> QED BY <1>1, <1>2, <1>3, <1>4, <1>5, <1>6, QuietKeeps

LEMMA CleanupKeeps ==
  ASSUME SessInv, NEW c \in Caller, Cleanup(c)
  PROVE  SessInv'
<1> DEFINE due == {r.sid : r \in {q \in ranked : q.score <= clock}}
           new == [NoCall EXCEPT !.op = "cleanup", !.pc = "zrem", !.ids = due]
<1>0. "cleanup" \in CallOps /\ "zrem" \in CallPlaces /\ due \in SUBSET Sid
  BY DEF CallOps, CallPlaces, SessInv, SessionsType
<1>2. caller' = [caller EXCEPT ![c] = new]
  BY DEF Cleanup
<1> HIDE DEF due
<1>1. new \in CallRecord /\ new.op = "cleanup" /\ new.pc = "zrem"
  BY <1>0, NoCallType DEF CallRecord
<1> HIDE DEF new
<1>3. CallTo(c, new) /\ CallOk(new)
  BY <1>1, <1>2 DEF CallTo, CallOk, IdleOk, CreateOk, NamedOk, LetInOk, DropOk, ChangeOk
<1>4. SessionsType'
  BY <1>3, CallersMove DEF SessInv, SessionsType, Cleanup
<1>5. caller[c].op # "create"
  BY IdleIsNot DEF CallOk, IdleOk, Cleanup
<1>6. UNCHANGED <<session, ofUser, born, ended, slipped>>
  BY DEF Cleanup
<1> QED BY <1>1, <1>3, <1>4, <1>5, <1>6, QuietKeeps

LEMMA ReadSessionKeeps ==
  ASSUME SessInv, NEW c \in Caller, ReadSession(c)
  PROVE  SessInv'
<1> DEFINE k == caller[c]
           rec == session[k.sid]
<1>1. /\ k \in CallRecord /\ CallOk(k) /\ k.op \in {"request", "touch"} /\ k.pc = "get"
      /\ k.sid \in Sid /\ rec \in StoredRecord \cup {NoSession} /\ k.now \in Int
      /\ born \in [Sid -> Int]
  BY IdleIsNot DEF ReadSession, CallOk, NamedOk, SessInv, SessionsType
<1>2. /\ UNCHANGED <<session, ofUser, born, ended, slipped, ranked, clock, sessionFaults>>
      /\ caller' = [caller EXCEPT ![c] =
           CASE rec = NoSession -> NoCall
             [] rec # NoSession /\ IsSessionExpired(rec, k.now) -> [k EXCEPT !.op = "drop", !.pc = "get"]
             [] rec # NoSession /\ ~IsSessionExpired(rec, k.now) /\ k.op = "request" ->
                  [k EXCEPT !.pc = "handling"]
             [] OTHER -> IF k.now - rec.last < Throttle THEN NoCall
                         ELSE [k EXCEPT !.pc = "write", !.rec = rec]]
  BY DEF ReadSession
<1>3. \A new : CallTo(c, new) => SessionsType'
  BY <1>2, CallersMove DEF SessInv, SessionsType
<1> HIDE DEF k, rec
<1>4. k.op # "create" /\ "drop" \in CallOps /\ {"get", "handling", "write"} \subseteq CallPlaces
  BY <1>1 DEF CallOps, CallPlaces
<1>5. CASE Returns(c)
  BY <1>2, <1>3, <1>4, <1>5, NoCallType, ReturnKeeps DEF CallTo, Returns, k
<1>6. CASE rec # NoSession /\ IsSessionExpired(rec, k.now)
  <2> DEFINE new == [k EXCEPT !.op = "drop", !.pc = "get"]
  <2>1. new \in CallRecord /\ new.op = "drop" /\ new.pc = "get" /\ new.sid = k.sid
    BY <1>1, <1>4 DEF CallRecord
  <2>2. caller' = [caller EXCEPT ![c] = new]
    BY <1>2, <1>6
  <2> HIDE DEF new
  <2>3. CallTo(c, new) /\ CallOk(new)
    BY <1>1, <2>1, <2>2 DEF CallTo, CallOk, IdleOk, CreateOk, NamedOk, LetInOk, DropOk, ChangeOk
  <2> QED BY <1>2, <1>3, <1>4, <2>1, <2>3, QuietKeeps DEF k
<1>7. CASE rec # NoSession /\ ~IsSessionExpired(rec, k.now)
  <2>0. rec \in StoredRecord /\ Within(rec, k.sid)
    BY <1>1, <1>7 DEF SessInv, StoredInv, rec
  <2>1. k.now <= born[k.sid] + AbsoluteLifetime + ClockSkew
    <3>1. k.now <= rec.absolute + ClockSkew /\ rec.absolute \in Int /\ born[k.sid] \in Int
      BY <1>1, <1>7, <2>0, SessionConfig DEF IsSessionExpired, StoredRecord
    <3> QED BY <1>1, <2>0, <3>1, SessionConfig DEF Within
  <2>2. CASE k.op = "request"
    <3> DEFINE new == [k EXCEPT !.pc = "handling"]
    <3>1. new \in CallRecord /\ new.op = "request" /\ new.pc = "handling" /\ new.sid = k.sid /\ new.now = k.now
      BY <1>1, <1>4, <2>2 DEF CallRecord
    <3>2. caller' = [caller EXCEPT ![c] = new]
      BY <1>2, <1>7, <2>2
    <3> HIDE DEF new
    <3>3. CallTo(c, new) /\ CallOk(new)
      BY <1>1, <2>1, <3>1, <3>2 DEF CallTo, CallOk, IdleOk, CreateOk, NamedOk, LetInOk, DropOk, ChangeOk
    <3> QED BY <1>2, <1>3, <1>4, <3>1, <3>3, QuietKeeps DEF k
  <2>3. CASE k.op = "touch" /\ k.now - rec.last < Throttle
    BY <1>2, <1>5, <1>7, <2>3 DEF Returns
  <2>4. CASE k.op = "touch" /\ ~(k.now - rec.last < Throttle)
    <3> DEFINE new == [k EXCEPT !.pc = "write", !.rec = rec]
    <3>1. /\ new \in CallRecord /\ new.op = "touch" /\ new.pc = "write" /\ new.sid = k.sid
          /\ new.rec = rec
      BY <1>1, <1>4, <2>4 DEF CallRecord
    <3>2. caller' = [caller EXCEPT ![c] = new]
      BY <1>2, <1>7, <2>4
    <3> HIDE DEF new
    <3>3. CallTo(c, new) /\ CallOk(new)
      BY <1>1, <2>0, <3>1, <3>2 DEF CallTo, CallOk, IdleOk, CreateOk, NamedOk, LetInOk, DropOk, ChangeOk
    <3>4. session[new.sid] # NoSession
      BY <1>7, <3>1 DEF rec
    <3> QED BY <1>2, <1>3, <1>4, <3>1, <3>3, <3>4, QuietKeeps DEF k
  <2> QED BY <1>1, <2>2, <2>3, <2>4
<1>8. rec = NoSession => Returns(c)
  BY <1>2 DEF Returns
<1> QED BY <1>5, <1>6, <1>7, <1>8

LEMMA FinishKeeps ==
  ASSUME SessInv, NEW c \in Caller, Finish(c)
  PROVE  SessInv'
<1> DEFINE k == caller[c]
<1>1. /\ k \in CallRecord /\ CallOk(k) /\ k.pc = "handling" /\ k.op = "request" /\ clock \in Int
  BY IdleIsNot DEF Finish, CallOk, LetInOk, SessInv, SessionsType
<1>2. UNCHANGED <<session, ofUser, born, ended, slipped, ranked, clock, sessionFaults>>
  BY DEF Finish
<1>3. \A new : CallTo(c, new) => SessionsType'
  BY <1>2, CallersMove DEF SessInv, SessionsType
<1>4. CASE Returns(c)
  BY <1>1, <1>2, <1>3, <1>4, NoCallType, ReturnKeeps DEF CallTo, Returns
<1>5. CASE caller' = [caller EXCEPT ![c].op = "touch", ![c].pc = "get", ![c].now = clock]
  <2> DEFINE new == [k EXCEPT !.op = "touch", !.pc = "get", !.now = clock]
  <2>1. "touch" \in CallOps /\ "get" \in CallPlaces
    BY DEF CallOps, CallPlaces
  <2>2. new \in CallRecord /\ new.op = "touch" /\ new.pc = "get" /\ new.sid = k.sid
    BY <1>1, <2>1 DEF CallRecord
  <2>3. caller' = [caller EXCEPT ![c] = new]
    BY <1>5 DEF SessInv, SessionsType
  <2> HIDE DEF new
  <2>4. CallTo(c, new) /\ CallOk(new)
    BY <1>1, <2>2, <2>3 DEF CallTo, CallOk, IdleOk, CreateOk, NamedOk, LetInOk, DropOk, ChangeOk
  <2> QED BY <1>1, <1>2, <1>3, <2>2, <2>4, QuietKeeps
<1> QED BY <1>4, <1>5 DEF Finish

LEMMA InvalidateGetKeeps ==
  ASSUME SessInv, NEW c \in Caller, InvalidateGet(c)
  PROVE  SessInv'
<1> DEFINE k == caller[c]
           new == [k EXCEPT !.pc = "del", !.rec = session[k.sid]]
<1>1. /\ k \in CallRecord /\ CallOk(k) /\ k.op \in {"logout", "drop"} /\ k.pc = "get"
      /\ session[k.sid] \in StoredRecord \cup {NoSession} /\ "del" \in CallPlaces
  BY IdleIsNot DEF InvalidateGet, CallOk, NamedOk, SessInv, SessionsType, CallPlaces
<1>2. caller' = [caller EXCEPT ![c] = new]
  BY DEF InvalidateGet, SessInv, SessionsType
<1>3. new \in CallRecord /\ new.op = k.op /\ new.pc = "del" /\ new.sid = k.sid
  BY <1>1 DEF CallRecord
<1> HIDE DEF new
<1>4. CallTo(c, new) /\ CallOk(new)
  BY <1>1, <1>2, <1>3 DEF CallTo, CallOk, IdleOk, CreateOk, NamedOk, LetInOk, DropOk, ChangeOk
<1>5. UNCHANGED <<session, ofUser, born, ended, slipped, ranked, clock, sessionFaults>>
  BY DEF InvalidateGet
<1>6. SessionsType'
  BY <1>4, <1>5, CallersMove DEF SessInv, SessionsType
<1> QED BY <1>1, <1>3, <1>4, <1>5, <1>6, QuietKeeps

-----------------------------------------------------------------------------

\* A call that is no creation and deletes sessions or unlists them.
LEMMA FadeMove ==
  ASSUME SessInv, NEW c \in Caller, NEW new, CallTo(c, new),
         \A s \in Sid : session'[s] \in {session[s], NoSession},
         new.op # "create", caller[c].op # "create",
         ~(new.op = "touch" /\ new.pc = "write")
  PROVE  /\ \A s : Creating(s)' <=> Creating(s)
         /\ \A s : TouchUnderWay(s)' => TouchUnderWay(s)
         /\ \A s \in Sid : Dead(s) => Dead(s)'
         /\ OneCreator'
<1>1. /\ caller'[c] = new /\ \A d \in Caller \ {c} : caller'[d] = caller[d]
  BY CallersMove DEF SessInv
<1>2. \A s : Creating(s)' <=> Creating(s)
  BY <1>1 DEF Creating
<1>3. \A s : TouchUnderWay(s)' => TouchUnderWay(s)
  BY <1>1 DEF TouchUnderWay
<1>4. OneCreator'
  BY <1>1 DEF SessInv, OneCreator
<1> QED BY <1>2, <1>3, <1>4 DEF Dead

LEMMA FadeKeeps ==
  ASSUME SessInv, NEW c \in Caller, NEW new, CallTo(c, new), SessionsType',
         \A s \in Sid : session'[s] \in {session[s], NoSession},
         UNCHANGED born, slipped \subseteq slipped', ofUser' \subseteq ofUser,
         new.op # "create", caller[c].op # "create",
         ~(new.op = "touch" /\ new.pc = "write"),
         CallOk(caller[c])',
         \A s \in ofUser \ ofUser' : s \in slipped' \/ Dead(s)',
         \A s \in ended' \ ended : born[s] >= 0 /\ (s \in slipped' \/ Dead(s)')
  PROVE  SessInv'
<1>1. /\ \A s : Creating(s)' <=> Creating(s)
      /\ \A s \in Sid : Dead(s) => Dead(s)'
      /\ OneCreator'
  BY FadeMove
<1>2. Calm
  BY <1>1 DEF Calm
<1>3. \A d \in Caller : CallOk(caller[d])'
  BY <1>2, CallsKeep
<1>4. ListedInv'
  BY <1>1 DEF SessInv, SessionsType, ListedInv
<1>5. StoredInv'
  BY DEF SessInv, StoredInv, Within
<1>6. EndedInv'
  BY <1>1 DEF SessInv, SessionsType, EndedInv
<1> QED BY <1>1, <1>3, <1>4, <1>5, <1>6 DEF SessInv

\* A call that goes on in place.
LEMMA GoesType ==
  ASSUME SessInv, NEW c \in Caller, NEW p \in CallPlaces, CallGoes(c, p)
  PROVE  /\ CallTo(c, caller'[c])
         /\ caller'[c].op = caller[c].op /\ caller'[c].pc = p /\ caller'[c].sid = caller[c].sid
         /\ caller'[c].ids = caller[c].ids /\ caller'[c].now = caller[c].now /\ caller'[c].rec = caller[c].rec
<1> DEFINE new == [caller[c] EXCEPT !.pc = p]
<1>1. caller[c] \in CallRecord
  BY IdleIsNot
<1>2. /\ new \in CallRecord /\ new.op = caller[c].op /\ new.pc = p /\ new.sid = caller[c].sid
      /\ new.ids = caller[c].ids /\ new.now = caller[c].now /\ new.rec = caller[c].rec
  BY <1>1 DEF CallRecord
<1>3. caller' = [caller EXCEPT ![c] = new]
  BY DEF CallGoes, SessInv, SessionsType
<1> HIDE DEF new
<1>4. CallTo(c, new) /\ caller'[c] = new
  BY <1>2, <1>3 DEF CallTo, SessInv, SessionsType
<1> QED BY <1>2, <1>4

LEMMA RankActivityKeeps ==
  ASSUME SessInv, NEW c \in Caller, RankActivity(c)
  PROVE  SessInv'
<1> DEFINE k == caller[c]
<1>1. CallTo(c, NoCall) /\ k.op = "touch" /\ k.pc = "zadd" /\ Returns(c)
  BY NoCallType DEF RankActivity, Returns, CallTo
<1>2. UNCHANGED <<session, ofUser, born, ended, slipped, clock, sessionFaults>>
  BY DEF RankActivity
<1>3. k.sid \in Sid /\ k.rec \in StoredRecord
  BY <1>1, IdleIsNot DEF CallOk, NamedOk, LetInOk, Within
<1>4. [sid |-> k.sid, score |-> k.rec.idle] \in [sid : Sid, score : Int]
  BY <1>3 DEF StoredRecord
<1>5. ranked' \subseteq [sid : Sid, score : Int]
  BY <1>4 DEF RankActivity, SessInv, SessionsType
<1>6. SessionsType'
  BY <1>1, <1>2, <1>5, CallersMove DEF SessInv, SessionsType
<1> QED BY <1>1, <1>2, <1>6, ReturnKeeps

LEMMA InvalidateDelKeeps ==
  ASSUME SessInv, NEW c \in Caller, InvalidateDel(c)
  PROVE  SessInv'
<1> DEFINE k == caller[c]
<1>1. /\ k \in CallRecord /\ CallOk(k) /\ k.op \in {"logout", "drop"}
      /\ k.sid \in Sid /\ born[k.sid] >= 0 /\ ~Creating(k.sid) /\ "zrem" \in CallPlaces
  BY IdleIsNot DEF InvalidateDel, CallOk, NamedOk, CallPlaces
<1>2. PICK s \in Sid : s = k.sid
  BY <1>1
<1>3. /\ session' = [session EXCEPT ![s] = NoSession] /\ CallGoes(c, "zrem")
      /\ ended' \subseteq ended \cup {s}
      /\ slipped' = IF TouchUnderWay(s) THEN slipped \cup {s} ELSE slipped
      /\ UNCHANGED <<ofUser, born, ranked, clock, sessionFaults>>
  BY <1>2 DEF InvalidateDel
<1>4. PICK new : /\ CallTo(c, new) /\ caller'[c] = new
                 /\ new.op = k.op /\ new.pc = "zrem" /\ new.sid = s
  BY <1>1, <1>2, <1>3, GoesType
<1>5. SessionsType'
  BY <1>3, <1>4, CallersMove DEF SessInv, SessionsType
<1>6. \A r \in Sid : session'[r] \in {session[r], NoSession}
  BY <1>3 DEF SessInv, SessionsType
<1>7. /\ \A r : Creating(r)' <=> Creating(r)
      /\ \A r : TouchUnderWay(r)' => TouchUnderWay(r)
  BY <1>1, <1>4, <1>6, FadeMove
<1>8. s \in slipped' \/ Dead(s)'
  BY <1>1, <1>2, <1>3, <1>7 DEF Dead, SessInv, SessionsType
<1>9. CallOk(caller[c])'
  BY <1>1, <1>2, <1>3, <1>4, <1>7, <1>8 DEF CallOk, IdleOk, CreateOk, NamedOk, LetInOk, DropOk, ChangeOk
<1>10. slipped \subseteq slipped' /\ \A r \in ended' \ ended : r = s
  BY <1>3
<1> QED BY <1>1, <1>2, <1>3, <1>4, <1>5, <1>6, <1>8, <1>9, <1>10, FadeKeeps

LEMMA UnlistKeeps ==
  ASSUME SessInv, NEW c \in Caller, InvalidateUnlist(c)
  PROVE  SessInv'
<1> DEFINE k == caller[c]
<1>1. /\ k \in CallRecord /\ CallOk(k) /\ k.op \in {"logout", "drop"} /\ k.pc \in {"zrem", "srem"}
      /\ k.sid \in Sid /\ (k.sid \in slipped \/ Dead(k.sid)) /\ "srem" \in CallPlaces
  BY IdleIsNot DEF InvalidateUnlist, CallOk, NamedOk, DropOk, CallPlaces
<1>2. UNCHANGED <<session, clock, born, ended, slipped, sessionFaults>>
  BY DEF InvalidateUnlist
<1>3. ranked' \subseteq [sid : Sid, score : Int] /\ ofUser' \subseteq ofUser /\ ofUser \ ofUser' \subseteq {k.sid}
  BY DEF InvalidateUnlist, SessInv, SessionsType
<1>4. \A new : CallTo(c, new) => SessionsType'
  BY <1>2, <1>3, CallersMove DEF SessInv, SessionsType
<1>5. CASE Returns(c)
  <2>1. CallTo(c, NoCall)
    BY <1>5, NoCallType DEF CallTo, Returns
  <2>2. CallOk(caller[c])'
    <3>1. caller'[c] = NoCall
      BY <2>1, CallersMove DEF SessInv
    <3> QED BY <3>1, NoCallType DEF CallOk, IdleOk, CreateOk, NamedOk, LetInOk, DropOk, ChangeOk
  <2>3. \A s \in Sid : Dead(s) => Dead(s)'
    BY <1>1, <1>2, <2>1, NoCallType, FadeMove
  <2>4. \A s \in ofUser \ ofUser' : s \in slipped' \/ Dead(s)'
    BY <1>1, <1>2, <1>3, <2>3
  <2> QED BY <1>1, <1>2, <1>3, <1>4, <2>1, <2>2, <2>4, NoCallType, FadeKeeps
<1>6. CASE CallGoes(c, "srem") /\ ofUser' = ofUser
  <2>1. PICK new : /\ CallTo(c, new) /\ caller'[c] = new
                   /\ new.op = k.op /\ new.pc = "srem" /\ new.sid = k.sid
    BY <1>1, <1>6, GoesType
  <2>2. CallOk(new)
    BY <1>1, <2>1 DEF CallOk, IdleOk, CreateOk, NamedOk, LetInOk, DropOk, ChangeOk
  <2> QED BY <1>1, <1>2, <1>4, <1>6, <2>1, <2>2, QuietKeeps
<1> QED BY <1>5, <1>6 DEF InvalidateUnlist

LEMMA ReadMembersKeeps ==
  ASSUME SessInv, NEW c \in Caller, ReadMembers(c)
  PROVE  SessInv'
<1> DEFINE k == caller[c]
<1>1. /\ k \in CallRecord /\ CallOk(k) /\ k.op = "change" /\ k.pc = "members" /\ "del" \in CallPlaces
      /\ ofUser \subseteq Sid
  BY IdleIsNot DEF ReadMembers, CallPlaces, SessInv, SessionsType
<1>2. /\ ended' = ended \cup (Begun \ ofUser)
      /\ slipped' = slipped \cup {d \in Sid : Creating(d)}
      /\ UNCHANGED <<session, ranked, ofUser, clock, born, sessionFaults>>
  BY DEF ReadMembers, Creating
<1>3. PICK new : /\ CallTo(c, new) /\ \/ new = NoCall
                                      \/ new.op = "change" /\ new.pc = "del" /\ new.ids = ofUser
  <2>1. CASE Returns(c)
    BY <2>1, NoCallType DEF Returns, CallTo
  <2>2. CASE caller' = [caller EXCEPT ![c].pc = "del", ![c].ids = ofUser]
    <3> DEFINE new == [k EXCEPT !.pc = "del", !.ids = ofUser]
    <3>1. new \in CallRecord /\ new.op = "change" /\ new.pc = "del" /\ new.ids = ofUser
      BY <1>1 DEF CallRecord
    <3>2. caller' = [caller EXCEPT ![c] = new]
      BY <2>2 DEF SessInv, SessionsType
    <3> QED BY <3>1, <3>2 DEF CallTo
  <2> QED BY <2>1, <2>2 DEF ReadMembers
<1>4. caller'[c] = new /\ new.op \notin {"create", "touch"}
  BY <1>3, CallersMove, NoCallType DEF SessInv
<1>5. /\ \A s : Creating(s)' <=> Creating(s)
      /\ \A s \in Sid : Dead(s) => Dead(s)'
  BY <1>1, <1>2, <1>3, <1>4, FadeMove
<1>6. CallOk(caller[c])'
  <2>1. \A s \in ofUser : s \in Sid /\ born'[s] >= 0 /\ ~Creating(s)'
    BY <1>1, <1>2, <1>5 DEF SessInv, ListedInv
  <2> QED BY <1>3, <1>4, <2>1, NoCallType DEF CallOk, IdleOk, CreateOk, NamedOk, LetInOk, DropOk, ChangeOk
<1>7. SessionsType'
  BY <1>2, <1>3, CallersMove DEF SessInv, SessionsType, Begun
<1>8. \A s \in ended' \ ended : born[s] >= 0 /\ (s \in slipped' \/ Dead(s)')
  BY <1>2, <1>5 DEF Begun, SessInv, ListedInv
<1> QED BY <1>1, <1>2, <1>3, <1>4, <1>6, <1>7, <1>8, FadeKeeps

LEMMA DeleteMembersKeeps ==
  ASSUME SessInv, NEW c \in Caller, DeleteMembers(c)
  PROVE  SessInv'
<1> DEFINE k == caller[c]
<1>1. /\ k \in CallRecord /\ CallOk(k) /\ k.op = "change" /\ "multi" \in CallPlaces
      /\ \A s \in k.ids : s \in Sid /\ born[s] >= 0 /\ ~Creating(s)
  BY IdleIsNot DEF DeleteMembers, CallPlaces, CallOk, ChangeOk
<1>2. PICK ids \in SUBSET Sid : ids = k.ids
  BY <1>1
<1>3. /\ session' = [s \in Sid |-> IF s \in ids THEN NoSession ELSE session[s]]
      /\ ended' = ended \cup ids /\ slipped' = slipped \cup {s \in ids : TouchUnderWay(s)}
      /\ CallGoes(c, "multi")
      /\ UNCHANGED <<ranked, ofUser, clock, born, sessionFaults>>
  BY <1>2 DEF DeleteMembers
<1>4. PICK new : /\ CallTo(c, new) /\ caller'[c] = new
                 /\ new.op = "change" /\ new.pc = "multi" /\ new.ids = ids
  BY <1>1, <1>2, <1>3, GoesType
<1>5. \A r \in Sid : session'[r] \in {session[r], NoSession}
  BY <1>3
<1>6. /\ \A r : Creating(r)' <=> Creating(r)
      /\ \A r : TouchUnderWay(r)' => TouchUnderWay(r)
  BY <1>1, <1>4, <1>5, FadeMove
<1>7. \A s \in ids : born'[s] >= 0 /\ ~Creating(s)' /\ (s \in slipped' \/ Dead(s)')
  BY <1>1, <1>2, <1>3, <1>6 DEF Dead
<1>8. CallOk(caller[c])'
  BY <1>4, <1>7 DEF CallOk, IdleOk, CreateOk, NamedOk, LetInOk, DropOk, ChangeOk
<1>9. SessionsType'
  <2>1. session' \in [Sid -> StoredRecord \cup {NoSession}]
    BY <1>3 DEF SessInv, SessionsType
  <2> QED BY <1>3, <1>4, <2>1, CallersMove DEF SessInv, SessionsType
<1>10. \A s \in ended' \ ended : born[s] >= 0 /\ (s \in slipped' \/ Dead(s)')
  BY <1>1, <1>2, <1>3, <1>7
<1> QED BY <1>1, <1>3, <1>4, <1>5, <1>8, <1>9, <1>10, FadeKeeps

LEMMA ForgetMembersKeeps ==
  ASSUME SessInv, NEW c \in Caller, ForgetMembers(c)
  PROVE  SessInv'
<1> DEFINE k == caller[c]
<1>1. /\ k \in CallRecord /\ CallOk(k) /\ k.op = "change"
      /\ \A s \in k.ids : s \in Sid /\ (s \in slipped \/ Dead(s))
  BY IdleIsNot DEF ForgetMembers, CallOk, ChangeOk
<1>2. /\ ofUser' = {} /\ slipped' = slipped \cup (ofUser \ k.ids) /\ Returns(c)
      /\ UNCHANGED <<session, clock, born, ended, sessionFaults>>
      /\ ranked' \subseteq ranked
  BY DEF ForgetMembers
<1>3. CallTo(c, NoCall) /\ caller'[c] = NoCall
  BY <1>2, NoCallType, CallersMove DEF CallTo, Returns, SessInv
<1>4. CallOk(caller[c])'
  BY <1>3, NoCallType DEF CallOk, IdleOk, CreateOk, NamedOk, LetInOk, DropOk, ChangeOk
<1>5. \A s \in Sid : Dead(s) => Dead(s)'
  BY <1>1, <1>2, <1>3, NoCallType, FadeMove
<1>6. SessionsType'
  BY <1>2, <1>3, CallersMove DEF SessInv, SessionsType
<1>7. \A s \in ofUser \ ofUser' : s \in slipped' \/ Dead(s)'
  BY <1>1, <1>2, <1>5
<1> QED BY <1>1, <1>2, <1>3, <1>4, <1>6, <1>7, NoCallType, FadeKeeps

LEMMA CleanupStepKeeps ==
  ASSUME SessInv, NEW c \in Caller, CleanupStep(c)
  PROVE  SessInv'
<1> DEFINE k == caller[c]
<1>1. k \in CallRecord /\ CallOk(k) /\ k.op = "cleanup" /\ "del" \in CallPlaces
  BY IdleIsNot DEF CleanupStep, CallPlaces
<1>2. /\ \A s \in Sid : session'[s] \in {session[s], NoSession}
      /\ session' \in [Sid -> StoredRecord \cup {NoSession}]
      /\ UNCHANGED <<ofUser, clock, born, ended, slipped, sessionFaults>>
      /\ ranked' \subseteq ranked
  BY DEF CleanupStep, SessInv, SessionsType
<1>3. PICK new : CallTo(c, new) /\ caller'[c] = new /\ (new = NoCall \/ (new.op = "cleanup" /\ new.pc = "del"))
  <2>1. CASE Returns(c)
    BY <2>1, NoCallType, CallersMove DEF CallTo, Returns, SessInv
  <2>2. CASE CallGoes(c, "del")
    BY <1>1, <2>2, GoesType
  <2> QED BY <2>1, <2>2 DEF CleanupStep
<1>4. CallOk(caller[c])'
  BY <1>3, NoCallType DEF CallOk, IdleOk, CreateOk, NamedOk, LetInOk, DropOk, ChangeOk
<1>5. SessionsType'
  BY <1>2, <1>3, CallersMove DEF SessInv, SessionsType
<1> QED BY <1>1, <1>2, <1>3, <1>4, <1>5, NoCallType, FadeKeeps

LEMMA WriteActivityKeeps ==
  ASSUME SessInv, NEW c \in Caller, WriteActivity(c)
  PROVE  SessInv'
<1> DEFINE k == caller[c]
<1>1. /\ k \in CallRecord /\ CallOk(k) /\ k.op = "touch" /\ k.pc = "write" /\ k.sid \in Sid
      /\ Within(k.rec, k.sid) /\ born[k.sid] >= 0 /\ ~Creating(k.sid) /\ k.now \in Int
      /\ "zadd" \in CallPlaces /\ k.rec \in StoredRecord /\ clock \in Int
  BY IdleIsNot DEF WriteActivity, CallOk, NamedOk, LetInOk, Within, CallPlaces, SessInv, SessionsType
<1>2. PICK s \in Sid : s = k.sid
  BY <1>1
<1>3. PICK up : up = Touched(k.rec, k.now)
  OBVIOUS
<1>4. up \in StoredRecord /\ up.absolute = k.rec.absolute
  <2>1. k.rec \in [absolute : Int, idle : Int, last : Int, dies : Int]
    BY <1>1 DEF StoredRecord
  <2>2. PICK i \in Int : i = Earlier(k.now + IdleTimeout, k.rec.absolute)
    BY <1>1, <2>1, SessionConfig DEF Earlier
  <2>3. up = [k.rec EXCEPT !.last = k.now, !.idle = i]
    BY <1>3, <2>2 DEF Touched
  <2> QED BY <1>1, <2>1, <2>2, <2>3 DEF StoredRecord
<1>5. PICK w \in StoredRecord : w.absolute = up.absolute /\ session' = [session EXCEPT ![s] = w]
  <2>1. PICK d \in Int : d = clock + (IF up.idle - k.now < 1 THEN 1 ELSE up.idle - k.now)
    BY <1>1, <1>4 DEF StoredRecord
  <2>2. session' = [session EXCEPT ![s] = [up EXCEPT !.dies = d]]
    BY <1>2, <1>3, <2>1 DEF WriteActivity
  <2>3. [up EXCEPT !.dies = d] \in StoredRecord /\ [up EXCEPT !.dies = d].absolute = up.absolute
    BY <1>4 DEF StoredRecord
  <2> QED BY <2>2, <2>3
<1>6. PICK new : /\ CallTo(c, new) /\ caller'[c] = new /\ new.op = "touch" /\ new.pc = "zadd"
                 /\ new.sid = s /\ new.rec = up
  <2> DEFINE new == [k EXCEPT !.pc = "zadd", !.rec = up]
  <2>1. new \in CallRecord /\ new.op = "touch" /\ new.pc = "zadd" /\ new.sid = s /\ new.rec = up
    BY <1>1, <1>2, <1>4 DEF CallRecord
  <2>2. caller' = [caller EXCEPT ![c] = new]
    BY <1>3 DEF WriteActivity, SessInv, SessionsType
  <2> HIDE DEF new
  <2>3. CallTo(c, new)
    BY <2>1, <2>2 DEF CallTo
  <2> QED BY <2>1, <2>3, CallersMove DEF SessInv
<1>7. UNCHANGED <<ranked, ofUser, clock, born, ended, slipped, sessionFaults>>
  BY DEF WriteActivity
<1>8. \A d \in Caller \ {c} : caller'[d] = caller[d]
  BY <1>6, CallersMove DEF SessInv
<1>9. \A r : Creating(r)' <=> Creating(r)
  BY <1>1, <1>6, <1>8 DEF Creating
<1>10. \A r \in Sid : Dead(r) => Dead(r)'
  <2>1. TouchUnderWay(s)
    BY <1>1, <1>2 DEF TouchUnderWay
  <2>2. \A r \in Sid : ~TouchUnderWay(r) => r # s /\ ~TouchUnderWay(r)' /\ session'[r] = session[r]
    BY <1>5, <1>6, <1>8, <2>1 DEF TouchUnderWay, SessInv, SessionsType
  <2> QED BY <1>9, <2>2 DEF Dead
<1>11. Within(up, s)' /\ Within(w, s)'
  BY <1>1, <1>2, <1>4, <1>5, <1>7 DEF Within
<1>12. CallOk(caller[c])'
  BY <1>1, <1>2, <1>6, <1>7, <1>9, <1>11 DEF CallOk, IdleOk, CreateOk, NamedOk, LetInOk, DropOk, ChangeOk
<1>13. \A d \in Caller : CallOk(caller[d])'
  <2>1. Calm
    BY <1>7, <1>9, <1>10 DEF Calm
  <2> QED BY <1>6, <1>12, <2>1, CallsKeep
<1>14. SessionsType'
  BY <1>5, <1>6, <1>7, CallersMove DEF SessInv, SessionsType
<1>15. ListedInv' /\ EndedInv'
  BY <1>7, <1>9, <1>10 DEF SessInv, SessionsType, ListedInv, EndedInv
<1>16. StoredInv'
  <2> SUFFICES ASSUME NEW r \in Sid, session'[r] # NoSession
               PROVE  born'[r] >= 0 /\ Within(session[r], r)'
    BY DEF StoredInv
  <2>1. CASE r = s
    BY <1>1, <1>2, <1>5, <1>7, <1>11, <2>1 DEF SessInv, SessionsType, Within
  <2>2. CASE r # s
    BY <1>5, <1>7, <2>2 DEF SessInv, SessionsType, StoredInv, Within
  <2> QED BY <2>1, <2>2
<1>17. OneCreator'
  BY <1>1, <1>6, <1>8 DEF SessInv, OneCreator
<1> QED BY <1>13, <1>14, <1>15, <1>16, <1>17 DEF SessInv

LEMMA CreateKeeps ==
  ASSUME SessInv, NEW c \in Caller, NEW s \in Sid, CreateSession(c, s)
  PROVE  SessInv'
<1> DEFINE fresh == [NoCall EXCEPT !.op = "create", !.pc = "set", !.sid = s, !.now = clock]
<1>0. /\ "create" \in CallOps /\ "set" \in CallPlaces /\ s \in Sid \cup {NoSession} /\ clock \in Nat /\ clock \in Int
      /\ caller[c].op = "none" /\ born[s] = -1
  BY IdleIsNot DEF CallOps, CallPlaces, SessInv, SessionsType, CreateSession, CallOk, IdleOk
<1>1. PICK new : CallTo(c, new) /\ new.op = "create" /\ new.pc = "set" /\ new.sid = s /\ new.now = clock
  <2>1. /\ fresh \in CallRecord /\ fresh.op = "create" /\ fresh.pc = "set"
        /\ fresh.sid = s /\ fresh.now = clock
    BY <1>0, NoCallType DEF CallRecord
  <2>2. caller' = [caller EXCEPT ![c] = fresh]
    BY DEF CreateSession
  <2> QED BY <2>1, <2>2 DEF CallTo
<1>2. caller'[c] = new /\ \A d \in Caller \ {c} : caller'[d] = caller[d]
  BY <1>1, CallersMove DEF SessInv
<1>3. /\ born' = [born EXCEPT ![s] = clock]
      /\ UNCHANGED <<session, ranked, ofUser, clock, ended, slipped, sessionFaults>>
  BY DEF CreateSession
<1>4. \A r \in Sid : born'[r] = (IF r = s THEN clock ELSE born[r])
  BY <1>3 DEF SessInv, SessionsType
<1>5. /\ \A r \in Sid \ {s} : (Creating(r)' <=> Creating(r)) /\ (Dead(r) => Dead(r)')
      /\ Creating(s)'
  BY <1>0, <1>1, <1>2, <1>3 DEF Creating, Dead, TouchUnderWay
<1>6. \A d \in Caller : caller[d].op = "create" => caller[d].sid # s
  BY <1>0 DEF SessInv, CallOk, CreateOk
<1>7. Calm
  BY <1>0, <1>3, <1>4, <1>5 DEF Calm
<1>8. CallOk(caller[c])'
  BY <1>0, <1>1, <1>2, <1>4 DEF CallOk, IdleOk, CreateOk, NamedOk, LetInOk, DropOk, ChangeOk
<1>9. \A d \in Caller : CallOk(caller[d])'
  BY <1>1, <1>7, <1>8, CallsKeep
<1>10. SessionsType'
  BY <1>0, <1>1, <1>3, CallersMove DEF SessInv, SessionsType
<1>11. ListedInv' /\ EndedInv'
  BY <1>0, <1>3, <1>4, <1>5 DEF SessInv, SessionsType, ListedInv, EndedInv
<1>12. StoredInv'
  BY <1>0, <1>3, <1>4 DEF SessInv, StoredInv, Within
<1>13. OneCreator'
  BY <1>1, <1>2, <1>6 DEF SessInv, OneCreator
<1> QED BY <1>9, <1>10, <1>11, <1>12, <1>13 DEF SessInv

\* A creation goes on: it stores at most its own session.
LEMMA CreationGoes ==
  ASSUME SessInv, NEW c \in Caller, caller[c].op = "create", NEW s \in Sid, s = caller[c].sid,
         NEW p \in CallPlaces \ {"idle", "handling"}, CallGoes(c, p), SessionsType',
         \A r \in Sid \ {s} : session'[r] = session[r],
         session'[s] # NoSession => Within(session'[s], s),
         UNCHANGED <<ofUser, born, ended, slipped>>
  PROVE  SessInv'
<1>1. /\ CallTo(c, caller'[c]) /\ caller'[c].op = "create" /\ caller'[c].pc = p
      /\ caller'[c].sid = s /\ caller'[c].now = caller[c].now
  BY GoesType
<1>2. \A d \in Caller \ {c} : caller'[d] = caller[d]
  BY <1>1, CallersMove DEF SessInv
<1>3. \A r : Creating(r)' <=> Creating(r)
  BY <1>1, <1>2 DEF Creating
<1>4. Creating(s) /\ born[s] >= 0
  BY DEF Creating, SessInv, CallOk, CreateOk
<1>5. \A r \in Sid : Dead(r) => Dead(r)'
  BY <1>1, <1>2, <1>3, <1>4 DEF Dead, TouchUnderWay
<1>6. Calm
  BY <1>3, <1>5 DEF Calm
<1>7. CallOk(caller[c])'
  BY <1>1 DEF SessInv, CallOk, IdleOk, CreateOk, NamedOk, LetInOk, DropOk, ChangeOk
<1>8. \A d \in Caller : CallOk(caller[d])'
  BY <1>1, <1>6, <1>7, CallsKeep
<1>9. ListedInv' /\ EndedInv'
  BY <1>3, <1>5 DEF SessInv, SessionsType, ListedInv, EndedInv
<1>10. StoredInv'
  BY <1>4 DEF SessInv, StoredInv, Within
<1>11. OneCreator'
  BY <1>1, <1>2 DEF SessInv, OneCreator
<1> QED BY <1>8, <1>9, <1>10, <1>11 DEF SessInv

LEMMA StoreNewKeeps ==
  ASSUME SessInv, NEW c \in Caller, StoreNewSession(c)
  PROVE  SessInv'
<1> DEFINE k == caller[c]
<1>1. /\ k.op = "create" /\ k.sid \in Sid /\ k.now = born[k.sid] /\ k.now \in Int /\ clock \in Int
      /\ "zadd" \in CallPlaces
  BY IdleIsNot DEF StoreNewSession, CallOk, CreateOk, CallPlaces, SessInv, SessionsType
<1>2. PICK s \in Sid : s = k.sid
  BY <1>1
<1> DEFINE rec == [absolute |-> k.now + AbsoluteLifetime, idle |-> k.now + IdleTimeout,
                   last |-> k.now, dies |-> clock + AbsoluteLifetime]
<1>3. /\ session' = [session EXCEPT ![s] = rec] /\ CallGoes(c, "zadd")
      /\ UNCHANGED <<ranked, ofUser, clock, born, ended, slipped, sessionFaults>>
  BY <1>2 DEF StoreNewSession
<1>4. rec \in StoredRecord /\ rec.absolute = born[s] + AbsoluteLifetime
  BY <1>1, <1>2, SessionConfig DEF StoredRecord
<1> HIDE DEF rec
<1>5. /\ session' \in [Sid -> StoredRecord \cup {NoSession}] /\ session'[s] = rec
      /\ \A r \in Sid \ {s} : session'[r] = session[r]
  BY <1>3, <1>4 DEF SessInv, SessionsType
<1>6. CallTo(c, caller'[c])
  BY <1>1, <1>3, GoesType
<1>7. SessionsType'
  BY <1>3, <1>5, <1>6, CallersMove DEF SessInv, SessionsType
<1>8. Within(session'[s], s)
  BY <1>1, <1>2, <1>4, <1>5, SessionConfig DEF Within
<1> QED BY <1>1, <1>2, <1>3, <1>5, <1>7, <1>8, CreationGoes

LEMMA RankNewKeeps ==
  ASSUME SessInv, NEW c \in Caller, RankNewSession(c)
  PROVE  SessInv'
<1> DEFINE k == caller[c]
<1>1. k.op = "create" /\ k.sid \in Sid /\ k.now \in Int /\ "sadd" \in CallPlaces
  BY IdleIsNot DEF RankNewSession, CallOk, CreateOk, CallPlaces
<1>2. PICK s \in Sid : s = k.sid
  BY <1>1
<1>3. CallGoes(c, "sadd") /\ UNCHANGED <<session, ofUser, clock, born, ended, slipped, sessionFaults>>
  BY DEF RankNewSession
<1>4. ranked' \subseteq [sid : Sid, score : Int]
  BY <1>1, SessionConfig DEF RankNewSession, SessInv, SessionsType, Earlier
<1>5. CallTo(c, caller'[c])
  BY <1>1, <1>3, GoesType
<1>6. SessionsType'
  BY <1>3, <1>4, <1>5, CallersMove DEF SessInv, SessionsType
<1>7. session[s] # NoSession => Within(session[s], s)
  BY DEF SessInv, StoredInv
<1> QED BY <1>1, <1>2, <1>3, <1>6, <1>7, CreationGoes

\* A creation ends: its session is listed, or has slipped.
LEMMA CreationEnds ==
  ASSUME SessInv, NEW c \in Caller, caller[c].op = "create", NEW s \in Sid, s = caller[c].sid,
         Returns(c), SessionsType', UNCHANGED <<session, born, ended>>,
         \/ ofUser' = ofUser \cup {s} /\ slipped' = slipped
         \/ ofUser' = ofUser /\ slipped' = slipped \cup {s}
  PROVE  SessInv'
<1>1. CallTo(c, NoCall)
  BY NoCallType DEF CallTo, Returns
<1>2. caller'[c] = NoCall /\ \A d \in Caller \ {c} : caller'[d] = caller[d]
  BY <1>1, CallersMove DEF SessInv
<1>3. /\ ~Creating(s)' /\ Creating(s) /\ born[s] >= 0
      /\ \A r : r # s => (Creating(r)' <=> Creating(r))
  BY <1>2, NoCallType DEF Creating, SessInv, OneCreator, CallOk, CreateOk
<1>4. \A r \in Sid : Dead(r) => Dead(r)'
  BY <1>2, <1>3, NoCallType DEF Dead, TouchUnderWay
<1>5. Calm
  BY <1>3, <1>4 DEF Calm
<1>6. CallOk(caller[c])'
  BY <1>2, NoCallType DEF CallOk, IdleOk, CreateOk, NamedOk, LetInOk, DropOk, ChangeOk
<1>7. \A d \in Caller : CallOk(caller[d])'
  BY <1>1, <1>5, <1>6, CallsKeep
<1>8. ListedInv'
  BY <1>3, <1>4 DEF SessInv, SessionsType, ListedInv
<1>9. EndedInv'
  BY <1>4 DEF SessInv, SessionsType, EndedInv
<1>10. StoredInv'
  BY DEF SessInv, StoredInv, Within
<1>11. OneCreator'
  BY <1>2, NoCallType DEF SessInv, OneCreator
<1> QED BY <1>7, <1>8, <1>9, <1>10, <1>11 DEF SessInv

LEMMA ListNewKeeps ==
  ASSUME SessInv, NEW c \in Caller, ListNewSession(c)
  PROVE  SessInv'
<1>1. caller[c].op = "create" /\ caller[c].sid \in Sid
  BY IdleIsNot DEF ListNewSession, CallOk, CreateOk
<1>2. /\ Returns(c) /\ UNCHANGED <<session, ranked, clock, born, ended, slipped, sessionFaults>>
      /\ ofUser' = ofUser \cup {caller[c].sid}
  BY DEF ListNewSession
<1>3. CallTo(c, NoCall)
  BY <1>2, NoCallType DEF CallTo, Returns
<1>4. SessionsType'
  BY <1>1, <1>2, <1>3, CallersMove DEF SessInv, SessionsType
<1> QED BY <1>1, <1>2, <1>4, CreationEnds

LEMMA CommandFailsKeeps ==
  ASSUME SessInv, NEW c \in Caller, CommandFails(c)
  PROVE  SessInv'
<1>1. /\ Returns(c) /\ UNCHANGED <<session, ranked, ofUser, clock, born, ended>>
      /\ sessionFaults' = sessionFaults + 1
      /\ slipped' = slipped \cup (IF caller[c].op = "create" THEN {caller[c].sid} ELSE {})
  BY DEF CommandFails
<1>2. CallTo(c, NoCall)
  BY <1>1, NoCallType DEF CallTo, Returns
<1>3. CASE caller[c].op = "create"
  <2>1. caller[c].sid \in Sid /\ slipped' = slipped \cup {caller[c].sid}
    BY <1>1, <1>3, IdleIsNot DEF CallOk, CreateOk
  <2>2. SessionsType'
    BY <1>1, <1>2, <2>1, CallersMove DEF SessInv, SessionsType
  <2> QED BY <1>1, <1>3, <2>1, <2>2, CreationEnds
<1>4. CASE caller[c].op # "create"
  <2>1. slipped' = slipped
    BY <1>1, <1>4
  <2>2. SessionsType'
    BY <1>1, <1>2, <2>1, CallersMove DEF SessInv, SessionsType
  <2> QED BY <1>1, <1>4, <2>1, <2>2, ReturnKeeps
<1> QED BY <1>3, <1>4

LEMMA SessionTickKeeps == SessInv /\ SessionTick => SessInv'
<1> SUFFICES ASSUME SessInv, SessionTick PROVE SessInv'
  OBVIOUS
<1>1. /\ UNCHANGED <<ranked, ofUser, caller, born, ended, slipped, sessionFaults>>
      /\ clock' = clock + 1
      /\ session' = [s \in Sid |-> IF session[s] # NoSession /\ session[s].dies <= clock' THEN NoSession
                                   ELSE session[s]]
  BY DEF SessionTick
<1>2. /\ \A s \in Sid : session'[s] \in {session[s], NoSession}
      /\ session' \in [Sid -> StoredRecord \cup {NoSession}]
  BY <1>1 DEF SessInv, SessionsType
<1>3. SessionsType'
  BY <1>1, <1>2 DEF SessInv, SessionsType
<1>4. /\ \A s : Creating(s)' <=> Creating(s)
      /\ \A s \in Sid : Dead(s) => Dead(s)'
  BY <1>1, <1>2 DEF Creating, Dead, TouchUnderWay
<1>5. Calm
  BY <1>1, <1>4 DEF Calm
<1>6. \A d \in Caller : CallOk(caller[d])'
  BY <1>1, <1>5, OthersKeep
<1>7. ListedInv' /\ EndedInv'
  BY <1>1, <1>4 DEF SessInv, SessionsType, ListedInv, EndedInv
<1>8. StoredInv' /\ OneCreator'
  BY <1>1, <1>2 DEF SessInv, StoredInv, OneCreator, Within
<1> QED BY <1>3, <1>6, <1>7, <1>8 DEF SessInv

LEMMA SessStep == SessInv /\ [SessionsNext]_sessionVars => SessInv'
<1> SUFFICES ASSUME SessInv, [SessionsNext]_sessionVars PROVE SessInv'
  OBVIOUS
<1>1. CASE UNCHANGED sessionVars
  BY <1>1 DEF sessionVars, SessInv, SessionsType, CallOk, IdleOk, CreateOk, NamedOk, LetInOk,
     DropOk, ChangeOk, Dead, Creating, TouchUnderWay, ListedInv, StoredInv, EndedInv, OneCreator, Within
<1>2. ASSUME NEW c \in Caller, NEW s \in Sid, CreateSession(c, s) \/ Request(c, s) \/ Logout(c, s)
      PROVE  SessInv'
  BY <1>2, CreateKeeps, RequestKeeps, LogoutKeeps
<1>3. ASSUME NEW c \in Caller,
             \/ StoreNewSession(c) \/ RankNewSession(c) \/ ListNewSession(c)
             \/ ReadSession(c) \/ Finish(c) \/ WriteActivity(c) \/ RankActivity(c)
      PROVE  SessInv'
  BY <1>3, StoreNewKeeps, RankNewKeeps, ListNewKeeps, ReadSessionKeeps, FinishKeeps,
     WriteActivityKeeps, RankActivityKeeps
<1>4. ASSUME NEW c \in Caller,
             \/ InvalidateGet(c) \/ InvalidateDel(c) \/ InvalidateUnlist(c)
             \/ ChangePassword(c) \/ ReadMembers(c) \/ DeleteMembers(c) \/ ForgetMembers(c)
             \/ Cleanup(c) \/ CleanupStep(c) \/ CommandFails(c)
      PROVE  SessInv'
  BY <1>4, InvalidateGetKeeps, InvalidateDelKeeps, UnlistKeeps, ChangePasswordKeeps, ReadMembersKeeps,
     DeleteMembersKeeps, ForgetMembersKeeps, CleanupKeeps, CleanupStepKeeps, CommandFailsKeeps
<1> QED BY <1>1, <1>2, <1>3, <1>4, SessionTickKeeps DEF SessionsNext

\* Sessions of auth/session.js, for any number of sessions and interleaved calls, and
\* whichever Redis commands fail: no request is let in past the absolute lifetime,
\* however often its session was touched, and an ended session is gone from the store
\* but for the cases the code cannot hold.
THEOREM SessionsSafe == SessionsSpec => []SessionsEnd
<1>1. SessInv => SessionsEnd
  BY DEF SessInv, CallOk, LetInOk, EndedInv, Dead, SessionsEnd, LifetimeNotExtended, EndedStaysEnded
<1> QED BY SessInit, SessStep, <1>1, PTL DEF SessionsSpec

-----------------------------------------------------------------------------
(* TokenRefresh (rotation and reuse)                                       *)

TokensSpec == TokensInit /\ [][TokensNext]_tokenVars

ClientPlaces == {"idle", "refresh", "revoke", "markSet", "markSadd", "markExpire", "rotate", "newSet",
                 "newSadd", "newExpire", "answer", "members", "delMembers", "delete", "refused"}
ClientRecord == [pc : ClientPlaces, tok : 0 .. MaxTokens, new : 0 .. MaxTokens, ids : SUBSET Token]
TokenStates == {"none", "fresh", "used"}

\* Places of a call that holds a generated token, of one that holds a presented
\* token, and of one on the way from its read to the exchange.
Creates == {"newSet", "newSadd", "newExpire", "answer"}
Holds == {"refresh", "revoke", "markSet", "markSadd", "markExpire", "rotate", "members", "delMembers",
          "delete", "refused"}
Marked == {"markSadd", "markExpire", "rotate", "newSet", "newSadd", "newExpire", "answer"}

Placed(k) == (k.pc \in Creates => k.new # 0) /\ (k.pc \in Holds => k.tok # 0)

TokensType ==
  /\ stored \in [Token -> TokenStates] /\ inMemory \in [Token -> TokenStates]
  /\ family \in [members : SUBSET Token, ttl : {"none", "short", "lasting"}]
  /\ memFamily \subseteq Token
  /\ client \in [Client -> ClientRecord] /\ \A c \in Client : Placed(client[c])
  /\ issued \subseteq Token /\ overdue \in Nat /\ presented \in Nat
  /\ exchanged \in [Token -> Nat]
  /\ overlapping \subseteq Token /\ condemned \subseteq Token /\ orphaned \subseteq Token
  /\ tokenFaults \in Nat

\* Tokens are new when generated, and presented when issued.
ClientOk(k) ==
  /\ k.pc = "idle" => k.tok = 0
  /\ k.pc \in Creates <=> k.new # 0
  /\ k.new # 0 => k.new \notin issued
  /\ k.tok # 0 => k.tok \in issued
  /\ k.pc \in Holds => k.tok # 0
Distinct == \A c, d \in Client : client[c].new # 0 /\ client[c].new = client[d].new => c = d
Numbered == Generated \ {0} = 1 .. Cardinality(Generated \ {0})

\* A token that no two calls read at once is exchanged by one call, which leaves
\* it marked.
OnceExchanged(t) ==
  /\ \A c, d \in Client : /\ client[c].tok = t /\ client[c].pc \in Marked \cup {"markSet"}
                          /\ client[d].tok = t /\ client[d].pc \in Marked \cup {"markSet"}
                          => c = d
  /\ \A c \in Client : client[c].tok = t /\ client[c].pc \in Marked \cup {"markSet"} => exchanged[t] = 0
  /\ \A c \in Client : client[c].tok = t /\ client[c].pc \in Marked => stored[t] # "fresh"
  /\ exchanged[t] <= 1
  /\ exchanged[t] = 1 => t \in issued /\ stored[t] # "fresh"

\* A call that is about to delete t, or to list it.
Doomed(t) == \E d \in Client : client[d].pc = "delMembers" /\ t \in client[d].ids
Joining(t) == \E c \in Client : client[c].pc = "newSadd" /\ client[c].new = t

\* A stored token is found by whoever reads the family.
Listed(t) == stored[t] = "fresh" => t \in family.members \/ t \in orphaned \/ Joining(t) \/ Doomed(t)
Reached(t) == t \in condemned /\ stored[t] = "fresh" => t \in orphaned \/ Doomed(t)
FamilyLasts ==
  family.ttl = "short" =>
    \E c \in Client : client[c].pc \in {"rotate", "newSet", "newSadd", "newExpire"}

\* What holds as long as Redis answers.
RedisInv ==
  /\ \A c \in Client : ClientOk(client[c])
  /\ Distinct /\ Numbered
  /\ \A t \in Token : t \notin overlapping => OnceExchanged(t)
  /\ \A t \in Token : Listed(t) /\ Reached(t) /\ inMemory[t] = "none"
  /\ condemned \subseteq issued
  /\ FamilyLasts

TokInv == TokensType /\ (tokenFaults = 0 => RedisInv)

LEMMA NoRefreshType ==
  /\ NoRefresh \in ClientRecord /\ NoRefresh.pc = "idle" /\ NoRefresh.tok = 0 /\ NoRefresh.new = 0
  /\ NoRefresh.ids = {}
BY TokenConfig DEF NoRefresh, ClientRecord, ClientPlaces, NoToken

LEMMA TokensInitInv == TokensInit => TokInv
<1> SUFFICES ASSUME TokensInit PROVE TokInv
  OBVIOUS
<1>1. \A c \in Client : client[c] = NoRefresh
  BY DEF TokensInit
<1>2. NoFamily \in [members : SUBSET Token, ttl : {"none", "short", "lasting"}] /\ NoFamily.ttl = "none"
  BY DEF NoFamily
<1>3. TokensType
  BY <1>1, <1>2, NoRefreshType DEF TokensInit, TokensType, TokenStates, Placed, Creates, Holds
<1>4. Generated \ {0} = {}
  BY <1>1, NoRefreshType DEF Generated, TokensInit
<1>5. Cardinality(Generated \ {0}) = 0
  BY <1>4, FS_EmptySet
<1>6. Numbered
  BY <1>4, <1>5 DEF Numbered
<1>7. \A c \in Client : ClientOk(client[c])
  BY <1>1, NoRefreshType DEF ClientOk, Creates, Holds
<1>8. Distinct
  BY <1>1, NoRefreshType DEF Distinct
<1>9. \A t \in Token : OnceExchanged(t)
  BY <1>1, NoRefreshType DEF OnceExchanged, Marked, TokensInit
<1>10. \A t \in Token : stored[t] = "none" /\ inMemory[t] = "none"
  BY DEF TokensInit
<1>11. FamilyLasts /\ condemned \subseteq issued
  BY <1>2 DEF TokensInit, FamilyLasts
<1> QED BY <1>3, <1>6, <1>7, <1>8, <1>9, <1>10, <1>11 DEF TokInv, RedisInv, Listed, Reached

-----------------------------------------------------------------------------

\* The steps of a call, by the fields they change.
ClientTo(c, new) == new \in ClientRecord /\ client' = [client EXCEPT ![c] = new]

LEMMA ClientsMove ==
  ASSUME TokensType, NEW c \in Client, NEW new, ClientTo(c, new)
  PROVE  /\ client' \in [Client -> ClientRecord] /\ client'[c] = new
         /\ \A d \in Client \ {c} : client'[d] = client[d]
BY DEF TokensType, ClientTo

LEMMA ClientIs ==
  ASSUME TokensType, NEW c \in Client
  PROVE  /\ client[c] \in ClientRecord /\ client[c].pc \in ClientPlaces
         /\ client[c].tok \in 0 .. MaxTokens /\ client[c].new \in 0 .. MaxTokens
         /\ client[c].ids \in SUBSET Token
<1>1. client[c] \in ClientRecord
  BY DEF TokensType
<1> QED BY <1>1 DEF ClientRecord

\* c alone moves, to place p.
Moves(c, p) ==
  /\ client' \in [Client -> ClientRecord]
  /\ \A d \in Client \ {c} : client'[d] = client[d]
  /\ client'[c].pc = p

LEMMA ProceedsTo ==
  ASSUME TokensType, NEW c \in Client, NEW p \in ClientPlaces, Proceeds(c, p)
  PROVE  /\ Moves(c, p)
         /\ client'[c].tok = client[c].tok /\ client'[c].new = client[c].new /\ client'[c].ids = client[c].ids
<1> DEFINE new == [client[c] EXCEPT !.pc = p]
<1>1. client[c] \in ClientRecord
  BY ClientIs
<1>2. /\ new \in ClientRecord /\ new.pc = p /\ new.tok = client[c].tok /\ new.new = client[c].new
      /\ new.ids = client[c].ids
  BY <1>1 DEF ClientRecord
<1>3. client' = [client EXCEPT ![c] = new]
  BY DEF Proceeds, TokensType
<1> HIDE DEF new
<1>4. ClientTo(c, new)
  BY <1>2, <1>3 DEF ClientTo
<1> QED BY <1>2, <1>4, ClientsMove DEF Moves

LEMMA AnswersTo ==
  ASSUME TokensType, NEW c \in Client, Answers(c)
  PROVE  Moves(c, "idle") /\ client'[c].tok = 0 /\ client'[c].new = 0 /\ client'[c].ids = {}
BY NoRefreshType DEF Answers, Moves, TokensType

LEMMA GeneratedBounded == ASSUME TokensType PROVE
  /\ IsFiniteSet(Generated \ {0}) /\ Cardinality(Generated \ {0}) \in Nat
<1>1. Generated \ {0} \subseteq 1 .. MaxTokens
  <2> SUFFICES ASSUME NEW x \in Generated, x # 0 PROVE x \in 1 .. MaxTokens
    OBVIOUS
  <2>1. CASE x \in issued
    BY <2>1 DEF TokensType, Token
  <2>2. CASE \E c \in Client : x = client[c].new
    BY <2>2, ClientIs, TokenConfig
  <2> QED BY <2>1, <2>2 DEF Generated
<1>2. IsFiniteSet(1 .. MaxTokens)
  BY TokenConfig, FS_Interval
<1> QED BY <1>1, <1>2, FS_Subset, FS_CardinalityType

LEMMA GenerateTo ==
  ASSUME TokensType, NEW c \in Client, NEW n \in Token, Generate(c, n)
  PROVE  /\ Moves(c, "newSet")
         /\ client'[c].tok = client[c].tok /\ client'[c].new = n /\ client'[c].ids = client[c].ids
         /\ n = Cardinality(Generated \ {0}) + 1
<1> DEFINE new == [client[c] EXCEPT !.new = n, !.pc = "newSet"]
<1>1. client[c] \in ClientRecord /\ "newSet" \in ClientPlaces /\ n \in 0 .. MaxTokens
  BY ClientIs DEF ClientPlaces, Token
<1>2. /\ new \in ClientRecord /\ new.pc = "newSet" /\ new.tok = client[c].tok /\ new.new = n
      /\ new.ids = client[c].ids
  BY <1>1 DEF ClientRecord
<1>3. client' = [client EXCEPT ![c] = new]
  BY DEF Generate, TokensType
<1> HIDE DEF new
<1>4. ClientTo(c, new)
  BY <1>2, <1>3 DEF ClientTo
<1>5. n = Cardinality(Generated \ {0}) + 1
  BY DEF Generate, NoToken
<1> QED BY <1>2, <1>4, <1>5, ClientsMove DEF Moves

-----------------------------------------------------------------------------

\* What a step of c keeps, part by part.
LEMMA NumbersKeep ==
  ASSUME RedisInv, NEW c \in Client, NEW p, Moves(c, p), client'[c].new = client[c].new,
         UNCHANGED issued
  PROVE  Distinct' /\ Numbered'
<1>1. \A d \in Client : client'[d].new = client[d].new
  BY DEF Moves
<1>2. Generated' = Generated
  BY <1>1 DEF Generated
<1> QED BY <1>1, <1>2 DEF RedisInv, Distinct, Numbered

LEMMA ClientsKeep ==
  ASSUME RedisInv, NEW c \in Client, NEW p, Moves(c, p), UNCHANGED issued, ClientOk(client'[c])
  PROVE  \A d \in Client : ClientOk(client[d])'
BY DEF RedisInv, Moves, ClientOk

LEMMA OnceKeeps ==
  ASSUME RedisInv, NEW c \in Client, NEW p, Moves(c, p), NEW t \in Token, t \notin overlapping,
         UNCHANGED <<issued, exchanged>>,
         stored'[t] = "fresh" => stored[t] = "fresh" \/ t \notin issued,
         client'[c].tok = t /\ p \in Marked \cup {"markSet"} =>
           client[c].tok = t /\ client[c].pc \in Marked \cup {"markSet"},
         client'[c].tok = t /\ p \in Marked => client[c].pc \in Marked \/ stored'[t] # "fresh"
  PROVE  OnceExchanged(t)'
<1>1. OnceExchanged(t)
  BY DEF RedisInv
<1>2. \A d \in Client : client[d].tok = t => t \in issued
  BY DEF RedisInv, ClientOk, Token
<1>3. \A d \in Client : client'[d].tok = t /\ client'[d].pc \in Marked \cup {"markSet"} =>
        client[d].tok = t /\ client[d].pc \in Marked \cup {"markSet"}
  BY DEF Moves
<1>4. \A d \in Client : client'[d].tok = t /\ client'[d].pc \in Marked =>
        client[d].tok = t /\ (client[d].pc \in Marked \/ stored'[t] # "fresh")
  BY DEF Moves
<1>5. \A d, e \in Client : /\ client'[d].tok = t /\ client'[d].pc \in Marked \cup {"markSet"}
                           /\ client'[e].tok = t /\ client'[e].pc \in Marked \cup {"markSet"}
                           => d = e
  BY <1>1, <1>3 DEF OnceExchanged
<1>6. \A d \in Client : client'[d].tok = t /\ client'[d].pc \in Marked \cup {"markSet"} => exchanged'[t] = 0
  BY <1>1, <1>3 DEF OnceExchanged
<1>7. \A d \in Client : client'[d].tok = t /\ client'[d].pc \in Marked => stored'[t] # "fresh"
  BY <1>1, <1>2, <1>4 DEF OnceExchanged
<1>8. exchanged'[t] <= 1 /\ (exchanged'[t] = 1 => t \in issued' /\ stored'[t] # "fresh")
  BY <1>1 DEF OnceExchanged
<1> QED BY <1>5, <1>6, <1>7, <1>8 DEF OnceExchanged

\* The family is found as before: nothing leaves it, and no call that deletes or
\* joins gives up.
LEMMA FoundKeep ==
  ASSUME RedisInv, NEW c \in Client, NEW p, Moves(c, p), NEW t \in Token,
         stored'[t] = "fresh" => stored[t] = "fresh",
         family.members \subseteq family'.members, orphaned \subseteq orphaned',
         UNCHANGED condemned,
         client[c].pc = "newSadd" => client[c].new \in family'.members,
         client[c].pc = "delMembers" /\ t \in client[c].ids => stored'[t] # "fresh" \/ (p = "delMembers" /\ t \in client'[c].ids)
  PROVE  Listed(t)' /\ Reached(t)'
<1>1. Listed(t) /\ Reached(t)
  BY DEF RedisInv
<1>2. stored'[t] = "fresh" /\ Doomed(t) => Doomed(t)'
  BY DEF Doomed, Moves
<1>3. Joining(t) => Joining(t)' \/ t \in family'.members
  BY DEF Joining, Moves
<1> QED BY <1>1, <1>2, <1>3 DEF Listed, Reached

LEMMA LastsKeep ==
  ASSUME RedisInv, NEW c \in Client, NEW p, Moves(c, p), family'.ttl = "short" => family.ttl = "short",
         client[c].pc \in {"rotate", "newSet", "newSadd", "newExpire"} =>
           p \in {"rotate", "newSet", "newSadd", "newExpire"}
  PROVE  FamilyLasts'
<1>1. SUFFICES ASSUME family'.ttl = "short"
               PROVE  \E d \in Client : client'[d].pc \in {"rotate", "newSet", "newSadd", "newExpire"}
  BY DEF FamilyLasts
<1>2. PICK d \in Client : client[d].pc \in {"rotate", "newSet", "newSadd", "newExpire"}
  BY <1>1 DEF RedisInv, FamilyLasts
<1> QED BY <1>2 DEF Moves

\* A call that moves on between two places of the same kind and writes nothing.
LEMMA QuietTokens ==
  ASSUME RedisInv, NEW c \in Client, NEW p, Moves(c, p),
         UNCHANGED <<issued, exchanged, stored, family, orphaned, condemned, inMemory>>,
         overlapping \subseteq overlapping',
         client'[c].new = client[c].new, ClientOk(client'[c]),
         client[c].pc \notin {"newSadd", "delMembers", "rotate", "newSet", "newExpire"},
         p \notin Marked \cup {"markSet"}
  PROVE  RedisInv'
<1>1. \A d \in Client : ClientOk(client[d])'
  BY ClientsKeep
<1>2. Distinct' /\ Numbered'
  BY NumbersKeep
<1>3. \A t \in Token : t \notin overlapping' => OnceExchanged(t)'
  BY OnceKeeps
<1>4. \A t \in Token : Listed(t)' /\ Reached(t)' /\ inMemory'[t] = "none"
  BY FoundKeep DEF RedisInv
<1>5. FamilyLasts' /\ condemned' \subseteq issued'
  BY LastsKeep DEF RedisInv
<1> QED BY <1>1, <1>2, <1>3, <1>4, <1>5 DEF RedisInv

-----------------------------------------------------------------------------

LEMMA PresentKeeps ==
  ASSUME TokInv, NEW c \in Client, NEW t \in Token, NEW what \in {"refresh", "revoke"},
         Present(c, t, what)
  PROVE  TokInv'
<1> DEFINE new == [client[c] EXCEPT !.pc = what, !.tok = t]
<1>1. /\ client[c] \in ClientRecord /\ what \in ClientPlaces /\ t \in 0 .. MaxTokens /\ t # 0
  BY ClientIs DEF TokInv, ClientPlaces, Token
<1>2. /\ new \in ClientRecord /\ new.pc = what /\ new.tok = t /\ new.new = client[c].new
      /\ new.ids = client[c].ids
  BY <1>1 DEF ClientRecord
<1>3. client' = [client EXCEPT ![c] = new]
  BY DEF Present, TokInv, TokensType
<1> HIDE DEF new
<1>4. ClientTo(c, new)
  BY <1>2, <1>3 DEF ClientTo
<1>5. /\ Moves(c, what) /\ client'[c] = new
  BY <1>2, <1>4, ClientsMove DEF Moves, TokInv
<1>6. TokensType'
  <2>1. Placed(client'[c])
    BY <1>1, <1>2, <1>5 DEF Placed, Creates
  <2> QED BY <1>5, <2>1 DEF Present, TokInv, TokensType, Moves
<1>7. ASSUME tokenFaults = 0 PROVE RedisInv'
  <2>1. RedisInv
    BY <1>7 DEF TokInv
  <2>2. /\ client[c].pc = "idle" /\ t \in issued /\ overlapping' = overlapping
        /\ UNCHANGED <<issued, exchanged, stored, family, orphaned, condemned, inMemory>>
    BY DEF Present
  <2>3. ClientOk(client'[c])
    BY <1>1, <1>2, <1>5, <2>1, <2>2 DEF RedisInv, ClientOk, Creates, Holds
  <2> QED BY <1>2, <1>5, <2>1, <2>2, <2>3, QuietTokens DEF Marked
<1> QED BY <1>6, <1>7 DEF TokInv, Present

\* A token is generated: it is none that was generated before.
LEMMA GenerateKeeps ==
  ASSUME TokInv, NEW c \in Client, client[c].pc \in {"idle", "rotate"}, NEW n \in Token, Generate(c, n),
         UNCHANGED <<stored, family, inMemory, memFamily, issued, overdue, presented,
                     exchanged, overlapping, condemned, orphaned, tokenFaults>>
  PROVE  TokInv'
<1>1. /\ Moves(c, "newSet")
      /\ client'[c].tok = client[c].tok /\ client'[c].new = n /\ client'[c].ids = client[c].ids
      /\ n = Cardinality(Generated \ {0}) + 1
  BY GenerateTo DEF TokInv
<1>2. TokensType'
  <2>1. n # 0
    BY DEF Token
  <2>2. Placed(client'[c])
    BY <1>1, <2>1 DEF Placed, Holds, Moves
  <2> QED BY <1>1, <2>2 DEF TokInv, TokensType, Moves
<1>3. ASSUME tokenFaults = 0 PROVE RedisInv'
  <2>1. RedisInv
    BY <1>3 DEF TokInv
  <2>2. client[c].new = 0 /\ n # 0
    BY <2>1 DEF RedisInv, ClientOk, Creates, Token
  <2>3. n \notin Generated
    <3>1. Generated \ {0} = 1 .. (n - 1)
      <4>1. PICK k \in Nat : k = Cardinality(Generated \ {0})
        BY GeneratedBounded DEF TokInv
      <4>2. n = k + 1 /\ Generated \ {0} = 1 .. k
        BY <1>1, <2>1, <4>1 DEF RedisInv, Numbered
      <4>3. n - 1 = k
        BY <4>2
      <4> QED BY <4>2, <4>3
    <3>2. n \notin 1 .. (n - 1)
      BY DEF Token
    <3> QED BY <2>2, <3>1, <3>2
  <2>4. n \notin issued /\ \A d \in Client : client[d].new # n
    BY <2>3 DEF Generated
  <2>5. Generated' \ {0} = (Generated \ {0}) \cup {n}
    <3>1. issued' = issued /\ \A d \in Client : d # c => client'[d].new = client[d].new
      BY <1>1 DEF Moves
    <3>2. \A x : x # 0 => (x \in Generated <=> x \in issued \/ \E d \in Client : d # c /\ client[d].new = x)
      BY <2>2 DEF Generated
    <3>3. \A x : x \in Generated' <=> x \in issued \/ x = n \/ \E d \in Client : d # c /\ client[d].new = x
      BY <1>1, <3>1 DEF Generated
    <3> QED BY <2>2, <3>2, <3>3
  <2>6. Numbered'
    <3>1. Cardinality(Generated' \ {0}) = n
      BY <1>1, <2>3, <2>5, GeneratedBounded, FS_AddElement DEF TokInv
    <3>2. Generated' \ {0} = 1 .. n
      BY <1>1, <2>1, <2>5, GeneratedBounded DEF RedisInv, Numbered, TokInv
    <3> QED BY <3>1, <3>2 DEF Numbered
  <2>7. Distinct'
    BY <1>1, <2>1, <2>4 DEF RedisInv, Distinct, Moves
  <2>8. ClientOk(client'[c])
    <3>1. ClientOk(client[c])
      BY <2>1 DEF RedisInv
    <3>2. client'[c].tok # 0 => client'[c].tok \in issued
      BY <1>1, <3>1 DEF ClientOk
    <3> QED BY <1>1, <2>2, <2>4, <3>2 DEF ClientOk, Creates, Holds, Moves
  <2>9. \A d \in Client : ClientOk(client[d])'
    BY <1>1, <2>1, <2>8, ClientsKeep
  <2>10. \A t \in Token : t \notin overlapping' => OnceExchanged(t)'
    <3>1. client[c].pc = "idle" => client'[c].tok = 0
      BY <1>1, <2>1 DEF RedisInv, ClientOk
    <3>2. \A t \in Token : t # 0
      BY DEF Token
    <3> QED BY <1>1, <2>1, <3>1, <3>2, OnceKeeps DEF Marked
  <2>11. \A t \in Token : Listed(t)' /\ Reached(t)' /\ inMemory'[t] = "none"
    BY <1>1, <2>1, FoundKeep DEF RedisInv
  <2>12. FamilyLasts' /\ condemned' \subseteq issued'
    BY <1>1, <2>1, LastsKeep DEF RedisInv
  <2> QED BY <2>6, <2>7, <2>9, <2>10, <2>11, <2>12 DEF RedisInv
<1> QED BY <1>2, <1>3 DEF TokInv

\* The steps a fault belongs to promise nothing more.
LEMMA FaultKeeps == ASSUME TokInv, TokensType', UsesMemory PROVE TokInv'
BY DEF TokInv, TokensType, UsesMemory

\* The typing of a step, but for the place it leads to.
LEMMA TypeKeeps ==
  ASSUME TokensType, NEW c \in Client, NEW p, Moves(c, p), Placed(client'[c]),
         stored' \in [Token -> TokenStates], inMemory' \in [Token -> TokenStates],
         family' \in [members : SUBSET Token, ttl : {"none", "short", "lasting"}],
         memFamily' \subseteq Token, issued' \subseteq Token, overdue' \in Nat, presented' \in Nat,
         exchanged' \in [Token -> Nat], overlapping' \subseteq Token, condemned' \subseteq Token,
         orphaned' \subseteq Token, tokenFaults' \in Nat
  PROVE  TokensType'
BY DEF TokensType, Moves

LEMMA RefreshReadsKeeps ==
  ASSUME TokInv, NEW c \in Client, RefreshReads(c)
  PROVE  TokInv'
<1>0. /\ client[c].pc = "refresh" /\ client[c].tok \in Token
      /\ UNCHANGED <<stored, family, memFamily, issued, overdue, presented, exchanged, condemned, orphaned>>
  BY ClientIs DEF RefreshReads, TokInv, TokensType, Placed, Holds, Token
<1>1. PICK t \in Token : t = client[c].tok
  BY <1>0
<1>2. PICK mem \in BOOLEAN, rec \in TokenStates :
       /\ rec = IF mem THEN inMemory[t] ELSE stored[t]
       /\ IF mem THEN UsesMemory ELSE UsesRedis
       /\ CASE rec = "none" -> Answers(c)
            [] rec = "used" -> Proceeds(c, "members")
            [] rec = "fresh" -> Proceeds(c, IF t <= overdue THEN "delete" ELSE "markSet")
       /\ inMemory' = IF mem /\ rec = "fresh" /\ t > overdue THEN [inMemory EXCEPT ![t] = "used"] ELSE inMemory
       /\ overlapping' = IF rec = "fresh" /\ t > overdue /\ Marking(t) # {} THEN overlapping \cup {t} ELSE overlapping
  <2>1. \A m \in BOOLEAN : (IF m THEN inMemory[t] ELSE stored[t]) \in TokenStates
    BY DEF TokInv, TokensType
  <2> QED BY <1>1, <2>1 DEF RefreshReads
<1>3. rec \in TokenStates
  BY <1>2
<1>4. PICK p \in ClientPlaces :
        /\ Moves(c, p) /\ Placed(client'[c])
        /\ \/ p = "idle" /\ client'[c].tok = 0 /\ client'[c].new = 0
           \/ p \in {"members", "delete"} /\ client'[c].tok = t /\ client'[c].new = client[c].new
           \/ /\ p = "markSet" /\ client'[c].tok = t /\ client'[c].new = client[c].new
              /\ rec = "fresh" /\ t > overdue
  <2>0. {"idle", "members", "delete", "markSet"} \subseteq ClientPlaces /\ t # 0 /\ t \in Nat /\ overdue \in Nat
    BY DEF ClientPlaces, Token, TokInv, TokensType
  <2>1. CASE rec = "none"
    <3>1. Moves(c, "idle") /\ client'[c].tok = 0 /\ client'[c].new = 0
      BY <1>2, <2>1, AnswersTo DEF TokInv
    <3>2. Placed(client'[c])
      BY <3>1 DEF Moves, Placed, Creates, Holds
    <3> QED BY <2>0, <3>1, <3>2
  <2>2. ASSUME NEW p \in {"members", "delete", "markSet"}, Proceeds(c, p)
        PROVE  Moves(c, p) /\ Placed(client'[c]) /\ client'[c].tok = t /\ client'[c].new = client[c].new
    <3>1. Moves(c, p) /\ client'[c].tok = t /\ client'[c].new = client[c].new
      BY <1>1, <2>0, <2>2, ProceedsTo DEF TokInv
    <3> QED BY <2>0, <3>1 DEF Moves, Placed, Creates
  <2>3. CASE rec = "used"
    <3>1. Proceeds(c, "members")
      BY <1>2, <2>3
    <3> QED BY <2>0, <2>2, <3>1
  <2>4. CASE rec = "fresh" /\ t <= overdue
    <3>1. Proceeds(c, "delete")
      BY <1>2, <2>4
    <3> QED BY <2>0, <2>2, <3>1
  <2>5. CASE rec = "fresh" /\ ~(t <= overdue)
    <3>1. Proceeds(c, "markSet")
      BY <1>2, <2>5
    <3>2. t > overdue
      BY <2>0, <2>5
    <3> QED BY <2>0, <2>2, <2>5, <3>1, <3>2
  <2> QED BY <1>3, <2>1, <2>3, <2>4, <2>5 DEF TokenStates
<1>5. TokensType'
  <2>1. inMemory' \in [Token -> TokenStates] /\ overlapping' \subseteq Token
    BY <1>2 DEF TokInv, TokensType, TokenStates
  <2>2. tokenFaults' \in Nat
    BY <1>2 DEF TokInv, TokensType, UsesMemory, UsesRedis
  <2> QED BY <1>0, <1>4, <2>1, <2>2, TypeKeeps DEF TokInv, TokensType
<1>6. CASE mem
  BY <1>2, <1>5, <1>6, FaultKeeps
<1>7. CASE ~mem
  <2> SUFFICES ASSUME tokenFaults = 0 PROVE RedisInv'
    BY <1>2, <1>5, <1>7 DEF TokInv, UsesRedis
  <2>1. RedisInv /\ ClientOk(client[c]) /\ t \in issued /\ t # 0
    BY <1>0, <1>1 DEF TokInv, RedisInv, ClientOk, Token
  <2>2. client[c].new = 0 /\ client'[c].pc = p
    BY <1>0, <1>4, <2>1 DEF ClientOk, Creates, Moves
  <2>3. inMemory' = inMemory /\ overlapping \subseteq overlapping'
    BY <1>2, <1>7
  <2>4. ClientOk(client'[c])
    BY <1>4, <2>1, <2>2 DEF ClientOk, Creates, Holds
  <2>5. CASE p # "markSet"
    <3>1. p \notin Marked \cup {"markSet"}
      BY <1>4, <2>5 DEF Marked
    <3> QED BY <1>0, <1>4, <2>1, <2>2, <2>3, <2>4, <3>1, QuietTokens
  <2>6. CASE p = "markSet"
    <3>1. stored[t] = "fresh" /\ client'[c].tok = t
      BY <1>2, <1>4, <1>7, <2>6
    <3>2. ASSUME NEW u \in Token, u \notin overlapping' PROVE OnceExchanged(u)'
      <4>0. u \notin overlapping
        BY <2>3, <3>2
      <4>1. CASE u # t
        BY <1>0, <1>4, <2>1, <2>6, <3>1, <4>0, <4>1, OnceKeeps DEF Marked
      <4>2. CASE u = t
        <5>1. Marking(t) = {} /\ OnceExchanged(t)
          BY <1>2, <1>4, <2>1, <2>6, <3>2, <4>0, <4>2 DEF RedisInv
        <5>2. \A d \in Client : client[d].tok = t => client[d].pc \notin Marked \cup {"markSet"}
          BY <3>1, <5>1 DEF Marking, OnceExchanged
        <5>3. exchanged[t] = 0
          BY <3>1, <5>1 DEF OnceExchanged, TokInv, TokensType
        <5>4. \A d \in Client : client'[d].tok = t /\ client'[d].pc \in Marked \cup {"markSet"} => d = c
          BY <1>4, <5>2 DEF Moves
        <5>5. \A d \in Client : client'[d].tok = t => client'[d].pc \notin Marked
          BY <1>4, <2>6, <5>2 DEF Moves, Marked
        <5> QED BY <1>0, <4>2, <5>3, <5>4, <5>5 DEF OnceExchanged
      <4> QED BY <4>1, <4>2
    <3>3. \A d \in Client : ClientOk(client[d])'
      BY <1>0, <1>4, <2>1, <2>4, ClientsKeep
    <3>4. Distinct' /\ Numbered'
      BY <1>0, <1>4, <2>1, <2>2, <2>6, NumbersKeep
    <3>5. \A u \in Token : Listed(u)' /\ Reached(u)' /\ inMemory'[u] = "none"
      BY <1>0, <1>4, <2>1, <2>3, FoundKeep DEF RedisInv
    <3>6. FamilyLasts' /\ condemned' \subseteq issued'
      BY <1>0, <1>4, <2>1, LastsKeep DEF RedisInv
    <3> QED BY <3>2, <3>3, <3>4, <3>5, <3>6 DEF RedisInv
  <2> QED BY <2>5, <2>6
<1> QED BY <1>6, <1>7

\* A call goes on with its token, and the record it read is marked or a new one
\* stored; the tokens it lists stay listed.
LEMMA WritesKeep ==
  ASSUME RedisInv, NEW c \in Client, NEW p, Moves(c, p),
         UNCHANGED <<issued, exchanged, orphaned, condemned, inMemory, overlapping>>,
         client'[c].new = client[c].new, client'[c].tok = client[c].tok, ClientOk(client'[c]),
         \A t \in Token : stored'[t] = "fresh" => stored[t] = "fresh",
         family.members \subseteq family'.members,
         client[c].pc = "newSadd" => client[c].new \in family'.members,
         client[c].pc # "delMembers",
         p \in Marked \cup {"markSet"} => client[c].pc \in Marked \cup {"markSet"},
         p \in Marked => client[c].pc \in Marked \/ stored'[client[c].tok] # "fresh",
         FamilyLasts'
  PROVE  RedisInv'
<1>1. \A d \in Client : ClientOk(client[d])'
  BY ClientsKeep
<1>2. Distinct' /\ Numbered'
  BY NumbersKeep
<1>3. \A t \in Token : t \notin overlapping' => OnceExchanged(t)'
  BY OnceKeeps
<1>4. \A t \in Token : Listed(t)' /\ Reached(t)' /\ inMemory'[t] = "none"
  BY FoundKeep DEF RedisInv
<1> QED BY <1>1, <1>2, <1>3, <1>4 DEF RedisInv

LEMMA MarkSetKeeps ==
  ASSUME TokInv, NEW c \in Client, MarkSet(c)
  PROVE  TokInv'
<1>0. /\ client[c].pc = "markSet" /\ client[c].tok \in Token /\ Proceeds(c, "markSadd")
      /\ stored' = [stored EXCEPT ![client[c].tok] = "used"]
      /\ UNCHANGED <<family, inMemory, memFamily, issued, overdue, presented, exchanged, overlapping,
                     condemned, orphaned, tokenFaults>>
  BY ClientIs DEF MarkSet, UsesRedis, TokInv, TokensType, Placed, Holds, Token
<1>1. "markSadd" \in ClientPlaces
  BY DEF ClientPlaces
<1>2. /\ Moves(c, "markSadd")
      /\ client'[c].tok = client[c].tok /\ client'[c].new = client[c].new
  BY <1>0, <1>1, ProceedsTo DEF TokInv
<1>3. stored' \in [Token -> TokenStates] /\ stored'[client[c].tok] = "used"
      /\ \A t \in Token : stored'[t] = "fresh" => stored[t] = "fresh"
  BY <1>0 DEF TokInv, TokensType, TokenStates
<1>4. client[c].tok # 0
  BY <1>0 DEF Token
<1>5. Placed(client'[c])
  BY <1>2, <1>4 DEF Placed, Creates, Moves
<1>6. TokensType'
  BY <1>0, <1>2, <1>3, <1>5, TypeKeeps DEF TokInv, TokensType
<1>7. ASSUME tokenFaults = 0 PROVE RedisInv'
  <2>1. RedisInv /\ ClientOk(client[c])
    BY <1>7 DEF TokInv, RedisInv
  <2>2. ClientOk(client'[c])
    BY <1>0, <1>2, <2>1 DEF ClientOk, Creates, Holds, Moves
  <2>3. FamilyLasts'
    BY <1>0, <1>2, <2>1, LastsKeep
  <2> QED BY <1>0, <1>2, <1>3, <2>1, <2>2, <2>3, WritesKeep DEF Marked
<1> QED BY <1>0, <1>6, <1>7 DEF TokInv

LEMMA FamilyAddKeeps ==
  ASSUME TokInv, NEW c \in Client, FamilyAdd(c)
  PROVE  TokInv'
<1> DEFINE k == client[c]
           mark == k.pc \in {"markSadd", "markExpire"}
<1>0. /\ k.pc \in {"markSadd", "markExpire", "newSadd", "newExpire"}
      /\ UNCHANGED <<stored, inMemory, memFamily, issued, overdue, presented, exchanged, overlapping,
                     condemned, orphaned, tokenFaults>>
  BY DEF FamilyAdd, UsesRedis
<1>1. /\ k.tok \in 0 .. MaxTokens /\ k.new \in 0 .. MaxTokens
      /\ mark => k.tok \in Token
      /\ ~mark => k.new \in Token
  BY <1>0, ClientIs DEF TokInv, TokensType, Placed, Holds, Creates, Token
<1>2. PICK p \in ClientPlaces :
        /\ Proceeds(c, p)
        /\ p = CASE k.pc = "markSadd" -> "markExpire" [] k.pc = "newSadd" -> "newExpire"
                 [] k.pc = "markExpire" -> "rotate" [] k.pc = "newExpire" -> "answer"
  <2>1. {"markExpire", "newExpire", "rotate", "answer"} \subseteq ClientPlaces
    BY DEF ClientPlaces
  <2>2. CASE k.pc = "markSadd"
    BY <2>1, <2>2 DEF FamilyAdd
  <2>3. CASE k.pc = "newSadd"
    BY <2>1, <2>3 DEF FamilyAdd
  <2>4. CASE k.pc = "markExpire"
    BY <2>1, <2>4 DEF FamilyAdd
  <2>5. CASE k.pc = "newExpire"
    BY <2>1, <2>5 DEF FamilyAdd
  <2> QED BY <1>0, <2>2, <2>3, <2>4, <2>5
<1>3. /\ Moves(c, p) /\ client'[c].tok = k.tok /\ client'[c].new = k.new
  BY <1>2, ProceedsTo DEF TokInv
<1>4. /\ family' \in [members : SUBSET Token, ttl : {"none", "short", "lasting"}]
      /\ family.members \subseteq family'.members
      /\ k.pc = "newSadd" => k.new \in family'.members
      /\ family'.ttl = "short" => family.ttl = "short" \/ p = "rotate"
      /\ k.pc = "newExpire" => family'.ttl # "short"
  <2>1. family \in [members : SUBSET Token, ttl : {"none", "short", "lasting"}]
    BY DEF TokInv, TokensType
  <2>2. CASE k.pc \in {"markSadd", "newSadd"}
    <3>1. family' = [members |-> family.members \cup {IF mark THEN k.tok ELSE k.new},
                     ttl |-> IF family.ttl = "none" THEN "lasting" ELSE family.ttl]
      BY <2>2 DEF FamilyAdd
    <3>2. family.members \cup {IF mark THEN k.tok ELSE k.new} \in SUBSET Token
      BY <1>1, <2>1
    <3> QED BY <2>1, <2>2, <3>1, <3>2
  <2>3. CASE k.pc \in {"markExpire", "newExpire"}
    <3>1. PICK x : /\ x = CASE family.ttl = "none" -> family.ttl
                            [] family.ttl # "none" /\ mark -> "short"
                            [] OTHER -> "lasting"
                   /\ family' = [family EXCEPT !.ttl = x]
      BY <2>3 DEF FamilyAdd
    <3>2. x \in {"none", "short", "lasting"} /\ (x = "short" => mark)
      BY <3>1
    <3>3. /\ family' \in [members : SUBSET Token, ttl : {"none", "short", "lasting"}]
          /\ family'.members = family.members /\ family'.ttl = x
      BY <2>1, <3>1, <3>2
    <3> QED BY <1>2, <2>3, <3>2, <3>3
  <2> QED BY <1>0, <2>2, <2>3
<1>5. Placed(client'[c])
  BY <1>0, <1>1, <1>2, <1>3 DEF Placed, Creates, Holds, Moves, Token
<1>6. TokensType'
  BY <1>0, <1>3, <1>4, <1>5, TypeKeeps DEF TokInv, TokensType
<1>7. ASSUME tokenFaults = 0 PROVE RedisInv'
  <2>1. RedisInv /\ ClientOk(client[c])
    BY <1>7 DEF TokInv, RedisInv
  <2>2. ClientOk(client'[c])
    BY <1>0, <1>2, <1>3, <2>1 DEF ClientOk, Creates, Holds, Moves
  <2>3. FamilyLasts'
    <3>1. CASE k.pc = "newExpire"
      BY <1>4, <3>1 DEF FamilyLasts
    <3>2. CASE p = "rotate"
      BY <1>3, <3>2 DEF FamilyLasts, Moves
    <3>3. CASE k.pc \in {"markSadd", "newSadd"}
      <4>1. p \in {"markExpire", "newExpire"} /\ (k.pc = "newSadd" => p = "newExpire")
        BY <1>2, <3>3
      <4> QED BY <1>3, <1>4, <2>1, <3>3, <4>1, LastsKeep
    <3> QED BY <1>0, <1>2, <3>1, <3>2, <3>3
  <2>4. p \in Marked /\ k.pc \in Marked
    BY <1>0, <1>2 DEF Marked
  <2> QED BY <1>0, <1>3, <1>4, <2>1, <2>2, <2>3, <2>4, WritesKeep
<1> QED BY <1>0, <1>6, <1>7 DEF TokInv

LEMMA NewSetKeeps ==
  ASSUME TokInv, NEW c \in Client, NewSet(c)
  PROVE  TokInv'
<1>0. /\ client[c].pc = "newSet" /\ client[c].new \in Token /\ Proceeds(c, "newSadd")
      /\ UNCHANGED <<family, inMemory, memFamily, issued, overdue, presented, exchanged, overlapping,
                     condemned, orphaned, tokenFaults>>
  BY ClientIs DEF NewSet, UsesRedis, TokInv, TokensType, Placed, Creates, Token
<1>1. PICK n \in Token : n = client[c].new /\ stored' = [stored EXCEPT ![n] = "fresh"]
  BY <1>0 DEF NewSet
<1>2. "newSadd" \in ClientPlaces /\ n # 0
  BY DEF ClientPlaces, Token
<1>3. /\ Moves(c, "newSadd") /\ client'[c].tok = client[c].tok /\ client'[c].new = n
  BY <1>0, <1>1, <1>2, ProceedsTo DEF TokInv
<1>4. stored' \in [Token -> TokenStates] /\ \A t \in Token \ {n} : stored'[t] = stored[t]
  BY <1>1 DEF TokInv, TokensType, TokenStates
<1>5. Placed(client'[c])
  BY <1>2, <1>3 DEF Placed, Holds, Moves
<1>6. TokensType'
  BY <1>0, <1>3, <1>4, <1>5, TypeKeeps DEF TokInv, TokensType
<1>7. ASSUME tokenFaults = 0 PROVE RedisInv'
  <2>1. RedisInv /\ ClientOk(client[c]) /\ n \notin issued
    BY <1>1, <1>2, <1>7 DEF TokInv, RedisInv, ClientOk
  <2>2. ClientOk(client'[c])
    BY <1>0, <1>1, <1>2, <1>3, <2>1 DEF ClientOk, Creates, Holds, Moves
  <2>3. FamilyLasts' /\ condemned' \subseteq issued'
    BY <1>0, <1>3, <2>1, LastsKeep DEF RedisInv
  <2>4. \A d \in Client : ClientOk(client[d])'
    BY <1>0, <1>3, <2>1, <2>2, ClientsKeep
  <2>5. Distinct' /\ Numbered'
    BY <1>0, <1>1, <1>3, <2>1, NumbersKeep
  <2>6. \A t \in Token : t \notin overlapping' => OnceExchanged(t)'
    <3>1. \A t \in Token : stored'[t] = "fresh" => stored[t] = "fresh" \/ t \notin issued
      BY <1>4, <2>1
    <3> QED BY <1>0, <1>3, <2>1, <3>1, OnceKeeps DEF Marked
  <2>7. \A t \in Token : inMemory'[t] = "none"
    BY <1>0, <2>1 DEF RedisInv
  <2>8. \A t \in Token \ {n} : Listed(t)' /\ Reached(t)'
    BY <1>0, <1>3, <1>4, <2>1, FoundKeep
  <2>9. Listed(n)' /\ Reached(n)'
    <3>1. Joining(n)'
      BY <1>3 DEF Joining, Moves
    <3>2. n \notin condemned'
      BY <1>0, <2>1 DEF RedisInv
    <3> QED BY <3>1, <3>2 DEF Listed, Reached
  <2> QED BY <2>3, <2>4, <2>5, <2>6, <2>7, <2>8, <2>9 DEF RedisInv
<1> QED BY <1>0, <1>6, <1>7 DEF TokInv

LEMMA StoreInMemoryKeeps ==
  ASSUME TokInv, NEW c \in Client, StoreInMemory(c)
  PROVE  TokInv'
<1> DEFINE k == client[c]
           mark == k.pc \in {"markSet", "markSadd", "markExpire"}
           p == IF mark THEN "rotate" ELSE "answer"
<1>0. /\ k.pc \in {"markSet", "markSadd", "markExpire", "newSet", "newSadd", "newExpire"}
      /\ UsesMemory /\ Proceeds(c, p)
      /\ UNCHANGED <<stored, family, issued, overdue, presented, exchanged, overlapping, condemned, orphaned>>
  BY DEF StoreInMemory
<1>1. (mark => k.tok \in Token) /\ (~mark => k.new \in Token)
  BY <1>0, ClientIs DEF TokInv, TokensType, Placed, Holds, Creates, Token
<1>2. inMemory' \in [Token -> TokenStates] /\ memFamily' \subseteq Token
  BY <1>1 DEF StoreInMemory, TokInv, TokensType, TokenStates
<1>3. p \in ClientPlaces
  BY DEF ClientPlaces
<1> HIDE DEF p
<1>4. /\ Moves(c, p) /\ client'[c].tok = client[c].tok /\ client'[c].new = client[c].new
  BY <1>0, <1>3, ProceedsTo DEF TokInv
<1>5. Placed(client'[c])
  BY <1>1, <1>4 DEF Placed, Holds, Creates, Moves, Token, p
<1>6. tokenFaults' \in Nat
  BY <1>0 DEF UsesMemory, TokInv, TokensType
<1>7. TokensType'
  BY <1>0, <1>2, <1>4, <1>5, <1>6, TypeKeeps DEF TokInv, TokensType
<1> QED BY <1>0, <1>7, FaultKeeps

LEMMA HandOutKeeps ==
  ASSUME TokInv, NEW c \in Client, HandOut(c)
  PROVE  TokInv'
<1>0. /\ client[c].pc = "answer" /\ client[c].new \in Token /\ client[c].tok \in 0 .. MaxTokens
      /\ Answers(c)
      /\ UNCHANGED <<stored, family, inMemory, memFamily, overdue, presented, overlapping, condemned,
                     orphaned, tokenFaults>>
  BY ClientIs DEF HandOut, TokInv, TokensType, Placed, Creates, Token
<1>1. PICK n \in Token, t \in 0 .. MaxTokens :
        /\ n = client[c].new /\ t = client[c].tok
        /\ issued' = issued \cup {n}
        /\ exchanged' = IF t = 0 THEN exchanged ELSE [exchanged EXCEPT ![t] = @ + 1]
  BY <1>0 DEF HandOut, NoToken
<1>2. /\ Moves(c, "idle") /\ client'[c].tok = 0 /\ client'[c].new = 0
  BY <1>0, AnswersTo DEF TokInv
<1>3. Placed(client'[c])
  BY <1>2 DEF Placed, Holds, Creates, Moves
<1>4. exchanged' \in [Token -> Nat]
      /\ \A u \in Token : exchanged'[u] = (IF u = t THEN exchanged[u] + 1 ELSE exchanged[u])
  BY <1>1 DEF TokInv, TokensType, Token
<1>5. TokensType'
  BY <1>0, <1>1, <1>2, <1>3, <1>4, TypeKeeps DEF TokInv, TokensType
<1>6. ASSUME tokenFaults = 0 PROVE RedisInv'
  <2>1. RedisInv /\ ClientOk(client[c]) /\ n # 0
    BY <1>6 DEF TokInv, RedisInv, Token
  <2>2. \A d \in Client \ {c} : client[d].new # n
    BY <1>1, <2>1 DEF RedisInv, Distinct
  <2>3. \A d \in Client : ClientOk(client[d])'
    <3>1. ASSUME NEW d \in Client \ {c} PROVE ClientOk(client[d])'
      <4>1. ClientOk(client[d]) /\ client'[d] = client[d] /\ client[d].new # n
        BY <1>2, <2>1, <2>2 DEF RedisInv, Moves
      <4> QED BY <1>1, <4>1 DEF ClientOk
    <3>2. ClientOk(client[c])'
      BY <1>2 DEF ClientOk, Creates, Holds, Moves
    <3> QED BY <3>1, <3>2
  <2>4. Generated' \ {0} = Generated \ {0}
    BY <1>1, <1>2, <2>1 DEF Generated, Moves
  <2>5. Distinct' /\ Numbered'
    <3>1. Distinct'
      BY <1>2, <2>1 DEF RedisInv, Distinct, Moves
    <3>2. Numbered'
      BY <2>1, <2>4 DEF RedisInv, Numbered
    <3> QED BY <3>1, <3>2
  <2>6. ASSUME NEW u \in Token, u \notin overlapping' PROVE OnceExchanged(u)'
    <3>1. OnceExchanged(u)
      BY <1>0, <2>1, <2>6 DEF RedisInv
    <3>2. \A d \in Client : client'[d].tok = u => d # c /\ client[d].tok = u /\ client'[d].pc = client[d].pc
      BY <1>2 DEF Moves, Token
    <3>3. CASE u # t
      BY <1>0, <1>1, <1>4, <3>1, <3>2, <3>3 DEF OnceExchanged
    <3>4. CASE u = t
      <4>1. "answer" \in Marked
        BY DEF Marked
      <4>2. exchanged[u] = 0 /\ stored[u] # "fresh" /\ u \in issued
        BY <1>0, <1>1, <2>1, <3>1, <3>4, <4>1 DEF OnceExchanged, ClientOk, Token
      <4>3. \A d \in Client : client'[d].tok = u => client'[d].pc \notin Marked \cup {"markSet"}
        BY <1>0, <1>1, <3>1, <3>2, <3>4, <4>1 DEF OnceExchanged
      <4> QED BY <1>0, <1>1, <1>4, <3>4, <4>2, <4>3 DEF OnceExchanged
    <3> QED BY <3>3, <3>4
  <2>7. \A u \in Token : Listed(u)' /\ Reached(u)' /\ inMemory'[u] = "none"
    BY <1>0, <1>2, <2>1, FoundKeep DEF RedisInv
  <2>8. FamilyLasts' /\ condemned' \subseteq issued'
    BY <1>0, <1>1, <1>2, <2>1, LastsKeep DEF RedisInv
  <2> QED BY <2>3, <2>5, <2>6, <2>7, <2>8 DEF RedisInv
<1> QED BY <1>0, <1>5, <1>6 DEF TokInv

LEMMA ReadFamilyKeeps ==
  ASSUME TokInv, NEW c \in Client, ReadFamily(c)
  PROVE  TokInv'
<1> DEFINE new == [client[c] EXCEPT !.pc = "delMembers", !.ids = family.members]
<1>0. /\ client[c] \in ClientRecord /\ client[c].pc = "members" /\ client[c].tok # 0
      /\ condemned' = condemned \cup issued
      /\ UNCHANGED <<stored, family, inMemory, memFamily, issued, overdue, presented, exchanged,
                     overlapping, orphaned, tokenFaults>>
      /\ family.members \in SUBSET Token /\ "delMembers" \in ClientPlaces
  BY ClientIs DEF ReadFamily, UsesRedis, TokInv, TokensType, Placed, Holds, ClientPlaces
<1>1. /\ new \in ClientRecord /\ new.pc = "delMembers" /\ new.tok = client[c].tok
      /\ new.new = client[c].new /\ new.ids = family.members
  BY <1>0 DEF ClientRecord
<1>2. client' = [client EXCEPT ![c] = new]
  BY DEF ReadFamily, TokInv, TokensType
<1> HIDE DEF new
<1>3. ClientTo(c, new)
  BY <1>1, <1>2 DEF ClientTo
<1>4. Moves(c, "delMembers") /\ client'[c] = new
  BY <1>1, <1>3, ClientsMove DEF Moves, TokInv
<1>5. Placed(client'[c])
  BY <1>0, <1>1, <1>4 DEF Placed, Creates
<1>6. TokensType'
  BY <1>0, <1>4, <1>5, TypeKeeps DEF TokInv, TokensType
<1>7. ASSUME tokenFaults = 0 PROVE RedisInv'
  <2>1. RedisInv /\ ClientOk(client[c])
    BY <1>7 DEF TokInv, RedisInv
  <2>2. ClientOk(client'[c])
    BY <1>0, <1>1, <1>4, <2>1 DEF ClientOk, Creates, Holds
  <2>3. \A d \in Client : ClientOk(client[d])'
    BY <1>0, <1>4, <2>1, <2>2, ClientsKeep
  <2>4. Distinct' /\ Numbered'
    BY <1>0, <1>1, <1>4, <2>1, NumbersKeep
  <2>5. \A t \in Token : t \notin overlapping' => OnceExchanged(t)'
    BY <1>0, <1>4, <2>1, OnceKeeps DEF Marked
  <2>6. FamilyLasts' /\ condemned' \subseteq issued'
    BY <1>0, <1>4, <2>1, LastsKeep DEF RedisInv
  <2>7. ASSUME NEW t \in Token PROVE Listed(t)' /\ Reached(t)' /\ inMemory'[t] = "none"
    <3>1. Listed(t) /\ Reached(t) /\ inMemory'[t] = "none"
      BY <1>0, <2>1 DEF RedisInv
    <3>2. (Doomed(t) => Doomed(t)') /\ (Joining(t) => Joining(t)')
      BY <1>0, <1>4 DEF Doomed, Joining, Moves
    <3>3. t \in family.members => Doomed(t)'
      BY <1>1, <1>4 DEF Doomed
    <3>4. t \in issued => ~Joining(t)
      BY <2>1 DEF RedisInv, ClientOk, Joining, Creates
    <3>5. Listed(t)'
      BY <1>0, <3>1, <3>2 DEF Listed
    <3>6. Reached(t)'
      BY <1>0, <3>1, <3>2, <3>3, <3>4 DEF Listed, Reached
    <3> QED BY <3>1, <3>5, <3>6
  <2> QED BY <2>3, <2>4, <2>5, <2>6, <2>7 DEF RedisInv
<1> QED BY <1>0, <1>6, <1>7 DEF TokInv

\* A member is deleted, or none is left and the family is dropped: what joined it
\* since it was read is orphaned.
LEMMA DeleteFamilyKeeps ==
  ASSUME TokInv, NEW c \in Client, DeleteFamily(c)
  PROVE  TokInv'
<1>0. /\ client[c] \in ClientRecord /\ client[c].ids \in SUBSET Token /\ client[c].pc = "delMembers"
      /\ client[c].tok # 0
      /\ UNCHANGED <<issued, overdue, presented, exchanged, overlapping, condemned, tokenFaults>>
  BY ClientIs DEF DeleteFamily, UsesRedis, TokInv, TokensType, Placed, Holds
<1>1. CASE client[c].ids # {}
  <2>0. UNCHANGED <<family, inMemory, memFamily, orphaned>>
    BY <1>1 DEF DeleteFamily
  <2>1. PICK t \in Token : /\ t \in client[c].ids
                           /\ stored' = [stored EXCEPT ![t] = "none"]
                           /\ client' = [client EXCEPT ![c].ids = @ \ {t}]
    BY <1>0, <1>1 DEF DeleteFamily
  <2> DEFINE new == [client[c] EXCEPT !.ids = client[c].ids \ {t}]
  <2>2. /\ new \in ClientRecord /\ new.pc = "delMembers" /\ new.tok = client[c].tok
        /\ new.new = client[c].new /\ new.ids = client[c].ids \ {t}
    <3>1. client[c].ids \ {t} \in SUBSET Token
      BY <1>0
    <3> QED BY <1>0, <3>1 DEF ClientRecord
  <2>3. client' = [client EXCEPT ![c] = new]
    BY <2>1 DEF TokInv, TokensType
  <2> HIDE DEF new
  <2>4. ClientTo(c, new)
    BY <2>2, <2>3 DEF ClientTo
  <2>5. Moves(c, "delMembers") /\ client'[c] = new
    BY <2>2, <2>4, ClientsMove DEF Moves, TokInv
  <2>6. Placed(client'[c])
    BY <1>0, <2>2, <2>5 DEF Placed, Creates
  <2>7. stored' \in [Token -> TokenStates] /\ stored'[t] = "none"
        /\ \A u \in Token \ {t} : stored'[u] = stored[u]
    BY <2>1 DEF TokInv, TokensType, TokenStates
  <2>8. TokensType'
    BY <1>0, <2>0, <2>5, <2>6, <2>7, TypeKeeps DEF TokInv, TokensType
  <2>9. ASSUME tokenFaults = 0 PROVE RedisInv'
    <3>1. RedisInv /\ ClientOk(client[c])
      BY <2>9 DEF TokInv, RedisInv
    <3>2. ClientOk(client'[c])
      BY <1>0, <2>2, <2>5, <3>1 DEF ClientOk, Creates, Holds
    <3>3. \A d \in Client : ClientOk(client[d])'
      BY <1>0, <2>5, <3>1, <3>2, ClientsKeep
    <3>4. Distinct' /\ Numbered'
      BY <1>0, <2>2, <2>5, <3>1, NumbersKeep
    <3>5. \A u \in Token : u \notin overlapping' => OnceExchanged(u)'
      BY <1>0, <2>5, <2>7, <3>1, OnceKeeps DEF Marked
    <3>6. \A u \in Token : Listed(u)' /\ Reached(u)' /\ inMemory'[u] = "none"
      <4>1. ASSUME NEW u \in Token \ {t} PROVE Listed(u)' /\ Reached(u)'
        BY <1>0, <2>0, <2>2, <2>5, <2>7, <3>1, FoundKeep
      <4>2. Listed(t)' /\ Reached(t)'
        BY <2>7 DEF Listed, Reached
      <4> QED BY <2>0, <3>1, <4>1, <4>2 DEF RedisInv
    <3>7. FamilyLasts' /\ condemned' \subseteq issued'
      BY <1>0, <2>0, <2>5, <3>1, LastsKeep DEF RedisInv
    <3> QED BY <3>3, <3>4, <3>5, <3>6, <3>7 DEF RedisInv
  <2> QED BY <1>0, <2>8, <2>9 DEF TokInv
<1>2. CASE client[c].ids = {}
  <2>0. /\ family' = NoFamily /\ ForgetInMemory /\ Answers(c) /\ UNCHANGED stored
        /\ orphaned' = orphaned \cup {t \in family.members \ condemned : stored[t] = "fresh"}
    BY <1>2 DEF DeleteFamily
  <2>1. /\ Moves(c, "idle") /\ client'[c].tok = 0 /\ client'[c].new = 0
    BY <2>0, AnswersTo DEF TokInv
  <2>2. Placed(client'[c])
    BY <2>1 DEF Placed, Holds, Creates, Moves
  <2>3. /\ NoFamily \in [members : SUBSET Token, ttl : {"none", "short", "lasting"}]
        /\ NoFamily.ttl = "none" /\ NoFamily.members = {}
    BY DEF NoFamily
  <2>4. /\ inMemory' \in [Token -> TokenStates] /\ memFamily' \subseteq Token
        /\ \A t \in Token : inMemory[t] = "none" => inMemory'[t] = "none"
    BY <2>0 DEF ForgetInMemory, TokInv, TokensType, TokenStates
  <2>5. orphaned' \subseteq Token
    BY <2>0 DEF TokInv, TokensType
  <2>6. TokensType'
    BY <1>0, <2>0, <2>1, <2>2, <2>3, <2>4, <2>5, TypeKeeps DEF TokInv, TokensType
  <2>7. ASSUME tokenFaults = 0 PROVE RedisInv'
    <3>1. RedisInv /\ ClientOk(client[c])
      BY <2>7 DEF TokInv, RedisInv
    <3>2. ClientOk(client'[c]) /\ client[c].new = 0
      BY <1>0, <2>1, <3>1 DEF ClientOk, Creates, Holds, Moves
    <3>3. \A d \in Client : ClientOk(client[d])'
      BY <1>0, <2>1, <3>1, <3>2, ClientsKeep
    <3>4. Distinct' /\ Numbered'
      BY <1>0, <2>1, <3>1, <3>2, NumbersKeep
    <3>5. \A u \in Token : u \notin overlapping' => OnceExchanged(u)'
      BY <1>0, <2>0, <2>1, <3>1, OnceKeeps DEF Marked
    <3>6. ASSUME NEW u \in Token PROVE Listed(u)' /\ Reached(u)' /\ inMemory'[u] = "none"
      <4>1. Listed(u) /\ Reached(u) /\ inMemory'[u] = "none"
        BY <2>4, <3>1 DEF RedisInv
      <4>2. (Doomed(u) => Doomed(u)') /\ (Joining(u) => Joining(u)')
        BY <1>0, <1>2, <2>1 DEF Doomed, Joining, Moves
      <4>3. u \in family.members /\ u \notin condemned /\ stored[u] = "fresh" => u \in orphaned'
        BY <2>0
      <4>4. orphaned \subseteq orphaned' /\ stored' = stored /\ condemned' = condemned
        BY <1>0, <2>0
      <4>5. Reached(u)'
        BY <4>1, <4>2, <4>4 DEF Reached
      <4>6. Listed(u)'
        BY <4>1, <4>2, <4>3, <4>4 DEF Listed, Reached
      <4> QED BY <4>1, <4>5, <4>6
    <3>7. FamilyLasts' /\ condemned' \subseteq issued'
      BY <1>0, <2>0, <2>3, <3>1 DEF RedisInv, FamilyLasts
    <3> QED BY <3>3, <3>4, <3>5, <3>6, <3>7 DEF RedisInv
  <2> QED BY <1>0, <2>6, <2>7 DEF TokInv
<1> QED BY <1>1, <1>2

LEMMA RevokeInMemoryKeeps ==
  ASSUME TokInv, NEW c \in Client, RevokeInMemory(c)
  PROVE  TokInv'
<1>0. /\ UsesMemory /\ ForgetInMemory /\ Answers(c)
      /\ UNCHANGED <<stored, family, issued, overdue, presented, exchanged, overlapping, condemned, orphaned>>
  BY DEF RevokeInMemory
<1>1. /\ Moves(c, "idle") /\ client'[c].tok = 0 /\ client'[c].new = 0
  BY <1>0, AnswersTo DEF TokInv
<1>2. Placed(client'[c])
  BY <1>1 DEF Placed, Holds, Creates, Moves
<1>3. inMemory' \in [Token -> TokenStates] /\ memFamily' \subseteq Token
  BY <1>0 DEF ForgetInMemory, TokInv, TokensType, TokenStates
<1>4. tokenFaults' \in Nat
  BY <1>0 DEF UsesMemory, TokInv, TokensType
<1>5. TokensType'
  BY <1>0, <1>1, <1>2, <1>3, <1>4, TypeKeeps DEF TokInv, TokensType
<1> QED BY <1>0, <1>5, FaultKeeps

LEMMA RevokeReadsKeeps ==
  ASSUME TokInv, NEW c \in Client, RevokeReads(c)
  PROVE  TokInv'
<1>0. /\ client[c].pc = "revoke" /\ client[c].tok # 0
      /\ UNCHANGED <<stored, family, inMemory, memFamily, issued, overdue, presented,
                     exchanged, overlapping, condemned, orphaned>>
  BY DEF RevokeReads, TokInv, TokensType, Placed, Holds
<1>1. PICK p \in {"refused", "delete"} : Proceeds(c, p) /\ (UsesRedis \/ UsesMemory)
  BY DEF RevokeReads
<1>2. p \in ClientPlaces
  BY DEF ClientPlaces
<1>3. /\ Moves(c, p) /\ client'[c].tok = client[c].tok /\ client'[c].new = client[c].new
  BY <1>1, <1>2, ProceedsTo DEF TokInv
<1>4. Placed(client'[c])
  BY <1>0, <1>3 DEF Placed, Creates, Moves
<1>5. tokenFaults' \in Nat
  BY <1>1 DEF UsesMemory, UsesRedis, TokInv, TokensType
<1>6. TokensType'
  BY <1>0, <1>3, <1>4, <1>5, TypeKeeps DEF TokInv, TokensType
<1>7. CASE UsesMemory
  BY <1>6, <1>7, FaultKeeps
<1>8. CASE UsesRedis
  <2> SUFFICES ASSUME tokenFaults = 0 PROVE RedisInv'
    BY <1>6, <1>8 DEF TokInv, UsesRedis
  <2>1. RedisInv /\ ClientOk(client[c])
    BY DEF TokInv, RedisInv
  <2>2. ClientOk(client'[c])
    BY <1>0, <1>3, <2>1 DEF ClientOk, Creates, Holds, Moves
  <2>3. p \notin Marked \cup {"markSet"} /\ overlapping \subseteq overlapping'
    BY <1>0 DEF Marked
  <2> QED BY <1>0, <1>3, <2>1, <2>2, <2>3, QuietTokens
<1> QED BY <1>1, <1>7, <1>8

LEMMA DeleteTokenKeeps ==
  ASSUME TokInv, NEW c \in Client, DeleteToken(c)
  PROVE  TokInv'
<1>0. /\ client[c].pc \in {"delete", "refused"} /\ client[c].tok \in Token /\ Answers(c)
      /\ UNCHANGED <<family, memFamily, issued, overdue, presented, exchanged, overlapping, condemned, orphaned>>
  BY ClientIs DEF DeleteToken, TokInv, TokensType, Placed, Holds, Token
<1>1. /\ stored' \in [Token -> TokenStates] /\ inMemory' \in [Token -> TokenStates]
      /\ \A t \in Token : stored'[t] = "fresh" => stored[t] = "fresh"
      /\ \A t \in Token : inMemory[t] = "none" => inMemory'[t] = "none"
      /\ UsesMemory \/ UsesRedis
  BY <1>0 DEF DeleteToken, TokInv, TokensType, TokenStates, UsesRedis
<1>2. /\ Moves(c, "idle") /\ client'[c].tok = 0 /\ client'[c].new = 0
  BY <1>0, AnswersTo DEF TokInv
<1>3. Placed(client'[c])
  BY <1>2 DEF Placed, Holds, Creates, Moves
<1>4. tokenFaults' \in Nat
  BY <1>1 DEF UsesMemory, UsesRedis, TokInv, TokensType
<1>5. TokensType'
  BY <1>0, <1>1, <1>2, <1>3, <1>4, TypeKeeps DEF TokInv, TokensType
<1>6. CASE UsesMemory
  BY <1>5, <1>6, FaultKeeps
<1>7. CASE UsesRedis
  <2> SUFFICES ASSUME tokenFaults = 0 PROVE RedisInv'
    BY <1>5, <1>7 DEF TokInv, UsesRedis
  <2>1. RedisInv /\ ClientOk(client[c])
    BY DEF TokInv, RedisInv
  <2>2. ClientOk(client'[c]) /\ client[c].new = 0
    BY <1>0, <1>2, <2>1 DEF ClientOk, Creates, Holds, Moves
  <2>3. \A d \in Client : ClientOk(client[d])'
    BY <1>0, <1>2, <2>1, <2>2, ClientsKeep
  <2>4. Distinct' /\ Numbered'
    BY <1>0, <1>2, <2>1, <2>2, NumbersKeep
  <2>5. \A u \in Token : u \notin overlapping' => OnceExchanged(u)'
    BY <1>0, <1>1, <1>2, <2>1, OnceKeeps DEF Marked
  <2>6. \A u \in Token : Listed(u)' /\ Reached(u)' /\ inMemory'[u] = "none"
    BY <1>0, <1>1, <1>2, <2>1, FoundKeep DEF RedisInv
  <2>7. FamilyLasts' /\ condemned' \subseteq issued'
    BY <1>0, <1>2, <2>1, LastsKeep DEF RedisInv
  <2> QED BY <2>3, <2>4, <2>5, <2>6, <2>7 DEF RedisInv
<1> QED BY <1>1, <1>6, <1>7

\* Time: no fresh token appears, and no family is dropped that is still needed.
LEMMA TimeKeeps ==
  ASSUME TokInv, TokenAges \/ KeyExpires
  PROVE  TokInv'
<1>0. /\ UNCHANGED <<inMemory, memFamily, client, issued, presented,
                     exchanged, overlapping, condemned, orphaned, tokenFaults>>
      /\ overdue' \in Nat
  BY DEF TokenAges, KeyExpires, TokInv, TokensType
<1>1. /\ stored' \in [Token -> TokenStates]
      /\ \A t \in Token : stored'[t] = "fresh" => stored[t] = "fresh"
      /\ family' \in [members : SUBSET Token, ttl : {"none", "short", "lasting"}]
      /\ family' = family \/ family.ttl = "short"
      /\ family' # family => \A c \in Client : client[c].pc \notin {"rotate", "newSet", "newSadd", "newExpire"}
  BY DEF TokenAges, KeyExpires, TokInv, TokensType, TokenStates, NoFamily
<1>2. TokensType'
  BY <1>0, <1>1 DEF TokInv, TokensType
<1>3. ASSUME tokenFaults = 0 PROVE RedisInv'
  <2>1. RedisInv
    BY <1>3 DEF TokInv
  <2>2. family' = family
    BY <1>1, <2>1 DEF RedisInv, FamilyLasts
  <2>3. (\A c \in Client : ClientOk(client[c])') /\ Distinct' /\ FamilyLasts' /\ condemned' \subseteq issued'
    BY <1>0, <2>1, <2>2 DEF RedisInv, ClientOk, Distinct, FamilyLasts
  <2>4. Generated' = Generated
    BY <1>0 DEF Generated
  <2>5. Numbered'
    BY <2>1, <2>4 DEF RedisInv, Numbered
  <2>6. \A t \in Token : t \notin overlapping' => OnceExchanged(t)'
    BY <1>0, <1>1, <2>1 DEF RedisInv, OnceExchanged
  <2>7. ASSUME NEW t \in Token PROVE Listed(t)' /\ Reached(t)' /\ inMemory'[t] = "none"
    <3>1. (Doomed(t)' <=> Doomed(t)) /\ (Joining(t)' <=> Joining(t))
      BY <1>0 DEF Doomed, Joining
    <3> QED BY <1>0, <1>1, <2>1, <2>2, <3>1 DEF RedisInv, Listed, Reached
  <2> QED BY <2>3, <2>5, <2>6, <2>7 DEF RedisInv
<1> QED BY <1>0, <1>2, <1>3 DEF TokInv

\* Nothing moves.
LEMMA TokensStutter == ASSUME TokInv, UNCHANGED tokenVars PROVE TokInv'
<1> USE DEF tokenVars
<1>1. TokensType'
  BY DEF TokInv, TokensType
<1>2. ASSUME RedisInv PROVE RedisInv'
  <2>1. Generated' = Generated
    BY DEF Generated
  <2>2. ASSUME NEW t \in Token PROVE Listed(t)' /\ Reached(t)' /\ inMemory'[t] = "none"
    <3>1. (Doomed(t)' <=> Doomed(t)) /\ (Joining(t)' <=> Joining(t))
      BY DEF Doomed, Joining
    <3> QED BY <1>2, <3>1 DEF RedisInv, Listed, Reached
  <2>3. \A t \in Token : t \notin overlapping' => OnceExchanged(t)'
    BY <1>2 DEF RedisInv, OnceExchanged
  <2>4. (\A c \in Client : ClientOk(client[c])') /\ Distinct' /\ FamilyLasts' /\ condemned' \subseteq issued'
    BY <1>2 DEF RedisInv, ClientOk, Distinct, FamilyLasts
  <2> QED BY <1>2, <2>1, <2>2, <2>3, <2>4 DEF RedisInv, Numbered
<1> QED BY <1>1, <1>2 DEF TokInv

LEMMA TokensStep == TokInv /\ [TokensNext]_tokenVars => TokInv'
<1> SUFFICES ASSUME TokInv, [TokensNext]_tokenVars PROVE TokInv'
  OBVIOUS
<1>1. ASSUME NEW c \in Client, Login(c) \/ Rotate(c) PROVE TokInv'
  <2>1. PICK n \in Token : /\ client[c].pc \in {"idle", "rotate"} /\ Generate(c, n)
                           /\ UNCHANGED <<stored, family, inMemory, memFamily, issued, overdue, presented,
                                 exchanged, overlapping, condemned, orphaned, tokenFaults>>
    BY <1>1 DEF Login, Rotate
  <2> QED BY <2>1, GenerateKeeps
<1>2. ASSUME NEW c \in Client, NEW t \in Token, NEW what \in {"refresh", "revoke"}, Present(c, t, what)
      PROVE  TokInv'
  BY <1>2, PresentKeeps
<1>3. ASSUME NEW c \in Client, RefreshReads(c) \/ MarkSet(c) \/ FamilyAdd(c) \/ NewSet(c) \/ StoreInMemory(c)
      PROVE  TokInv'
  BY <1>3, RefreshReadsKeeps, MarkSetKeeps, FamilyAddKeeps, NewSetKeeps, StoreInMemoryKeeps
<1>4. ASSUME NEW c \in Client, HandOut(c) \/ ReadFamily(c) \/ DeleteFamily(c) \/ RevokeInMemory(c)
      PROVE  TokInv'
  BY <1>4, HandOutKeeps, ReadFamilyKeeps, DeleteFamilyKeeps, RevokeInMemoryKeeps
<1>5. ASSUME NEW c \in Client, RevokeReads(c) \/ DeleteToken(c) PROVE TokInv'
  BY <1>5, RevokeReadsKeeps, DeleteTokenKeeps
<1>6. CASE TokenAges \/ KeyExpires
  BY <1>6, TimeKeeps
<1>7. CASE UNCHANGED tokenVars
  BY <1>7, TokensStutter
<1> QED BY <1>1, <1>2, <1>3, <1>4, <1>5, <1>6, <1>7 DEF TokensNext

LEMMA TokensRotateFollows == TokInv => TokensRotate
<1> SUFFICES ASSUME TokInv PROVE TokensRotate
  OBVIOUS
<1>1. ExchangedOnce
  <2> SUFFICES ASSUME tokenFaults = 0, NEW t \in Token, exchanged[t] > 1, t \notin overlapping PROVE FALSE
    BY DEF ExchangedOnce
  <2>1. exchanged[t] \in Nat /\ exchanged[t] <= 1
    BY DEF TokInv, TokensType, RedisInv, OnceExchanged
  <2> QED BY <2>1
<1>2. RevocationReachesFamily
  <2> SUFFICES ASSUME tokenFaults = 0, \A c \in Client : client[c].pc # "delMembers",
                      NEW t \in condemned \ orphaned
               PROVE  stored[t] # "fresh" /\ inMemory[t] # "fresh"
    BY DEF RevocationReachesFamily
  <2>1. t \in Token /\ Reached(t) /\ inMemory[t] = "none"
    BY DEF TokInv, TokensType, RedisInv
  <2>2. ~Doomed(t)
    BY DEF Doomed
  <2> QED BY <2>1, <2>2 DEF Reached
<1> QED BY <1>1, <1>2 DEF TokensRotate

\* Rotation of auth/tokenRefresh.js, for any number of tokens, calls and requests:
\* while Redis answers, a refresh token that no two calls read at once buys one
\* successor, and a detected reuse leaves no token of the family that can still
\* be exchanged, but for those that joined a family being dropped.
THEOREM TokensSafe == TokensSpec => []TokensRotate
<1>1. TokensSpec => []TokInv
  BY TokensInitInv, TokensStep, PTL DEF TokensSpec
<1> QED BY <1>1, TokensRotateFollows, PTL

=============================================================================
