------------------------------ MODULE Sessions ------------------------------
(***************************************************************************)
(* Server-side sessions of one user (auth/session.js): creation, the       *)
(* validation of a request and its touch after the response, logout, the   *)
(* invalidation of all sessions after a password change                    *)
(* (auth/authService.js), and the periodic cleanup.                        *)
(*                                                                         *)
(* A caller is one asynchronous chain of calls; a step is one Redis        *)
(* command and the code up to the next.                                    *)
(***************************************************************************)
EXTENDS Integers, FiniteSets

CONSTANTS
  Sid,               \* session ids
  Caller,            \* chains of calls in flight
  AbsoluteLifetime,  \* SESSION_ABSOLUTE_LIFETIME_SECONDS
  IdleTimeout,       \* SESSION_IDLE_TIMEOUT_SECONDS
  Throttle,          \* SESSION_ACTIVITY_THROTTLE_SECONDS
  ClockSkew,         \* SESSION_CLOCK_SKEW_SECONDS
  NoSession,         \* no record, no id
  SessionHorizon,    \* bound: the clock
  MaxSessionFaults   \* bound: failed Redis commands

ASSUME SessionConfig ==
  /\ AbsoluteLifetime \in Nat \ {0} /\ IdleTimeout \in Nat \ {0}
  /\ Throttle \in Nat \ {0} /\ ClockSkew \in Nat \ {0}
  /\ NoSession \notin Sid
  /\ SessionHorizon \in Nat /\ MaxSessionFaults \in Nat

VARIABLES
  session,        \* session:<id>: the record, with the instant its TTL ends
  ranked,         \* sessions:active: the scored ids
  ofUser,         \* user:<id>:sessions
  caller,         \* the chains of calls
  clock,
  born,           \* history: when each session was created (-1 before)
  ended,          \* history: sessions a logout or a password change has ended
  slipped,        \* history: sessions such a call could not hold
  sessionFaults

sessionVars == <<session, ranked, ofUser, caller, clock, born, ended, slipped, sessionFaults>>

NoCall == [op |-> "none", pc |-> "idle", sid |-> NoSession, now |-> 0, rec |-> NoSession, ids |-> {}]

SessionsInit ==
  /\ session = [s \in Sid |-> NoSession]
  /\ ranked = {} /\ ofUser = {}
  /\ caller = [c \in Caller |-> NoCall]
  /\ clock = 0
  /\ born = [s \in Sid |-> -1]
  /\ ended = {} /\ slipped = {}
  /\ sessionFaults = 0

Earlier(a, b) == IF a < b THEN a ELSE b

\* isSessionExpired
IsSessionExpired(rec, now) ==
  now > rec.absolute + ClockSkew \/ now > rec.idle + ClockSkew

\* The record of validateSession's activity update.
Touched_NewLifetime(rec, now) ==
  [rec EXCEPT !.last = now, !.idle = now + IdleTimeout, !.absolute = now + AbsoluteLifetime]

Touched(rec, now) ==
  [rec EXCEPT !.last = now, !.idle = Earlier(now + IdleTimeout, rec.absolute)]

Returns(c) == caller' = [caller EXCEPT ![c] = NoCall]
CallGoes(c, pc) == caller' = [caller EXCEPT ![c].pc = pc]

\* A command that fails, and the branch the error takes: it was not executed,
\* and every caller here ends its chain on it.
CommandFails(c) ==
  /\ caller[c].pc \notin {"idle", "handling"}
  /\ sessionFaults < MaxSessionFaults /\ sessionFaults' = sessionFaults + 1
  /\ slipped' = slipped \cup (IF caller[c].op = "create" THEN {caller[c].sid} ELSE {})
  /\ Returns(c)
  /\ UNCHANGED <<session, ranked, ofUser, clock, born, ended>>

-----------------------------------------------------------------------------

\* createSession: SET with the absolute lifetime, ZADD, SADD.
CreateSession(c, s) ==
  /\ caller[c].pc = "idle" /\ born[s] = -1
  /\ born' = [born EXCEPT ![s] = clock]
  /\ caller' = [caller EXCEPT ![c] = [NoCall EXCEPT !.op = "create", !.pc = "set",
                                                    !.sid = s, !.now = clock]]
  /\ UNCHANGED <<session, ranked, ofUser, clock, ended, slipped, sessionFaults>>

StoreNewSession(c) ==
  LET s == caller[c].sid now == caller[c].now IN
  /\ caller[c].op = "create" /\ caller[c].pc = "set"
  /\ session' = [session EXCEPT ![s] =
       [absolute |-> now + AbsoluteLifetime, idle |-> now + IdleTimeout, last |-> now,
        dies |-> clock + AbsoluteLifetime]]
  /\ CallGoes(c, "zadd")
  /\ UNCHANGED <<ranked, ofUser, clock, born, ended, slipped, sessionFaults>>

RankNewSession(c) ==
  LET s == caller[c].sid now == caller[c].now IN
  /\ caller[c].op = "create" /\ caller[c].pc = "zadd"
  /\ ranked' = {r \in ranked : r.sid # s} \cup
       {[sid |-> s, score |-> now + Earlier(AbsoluteLifetime, IdleTimeout)]}
  /\ CallGoes(c, "sadd")
  /\ UNCHANGED <<session, ofUser, clock, born, ended, slipped, sessionFaults>>

ListNewSession(c) ==
  /\ caller[c].op = "create" /\ caller[c].pc = "sadd"
  /\ ofUser' = ofUser \cup {caller[c].sid}
  /\ Returns(c)
  /\ UNCHANGED <<session, ranked, clock, born, ended, slipped, sessionFaults>>

-----------------------------------------------------------------------------

\* sessionAuth: the request names a session whose creation was answered.
Request(c, s) ==
  /\ caller[c].pc = "idle" /\ born[s] >= 0
  /\ \A d \in Caller : ~(caller[d].op = "create" /\ caller[d].sid = s)
  /\ caller' = [caller EXCEPT ![c] = [NoCall EXCEPT !.op = "request", !.pc = "get",
                                                    !.sid = s, !.now = clock]]
  /\ UNCHANGED <<session, ranked, ofUser, clock, born, ended, slipped, sessionFaults>>

\* validateSession up to its first write: no record, expired (invalidate it),
\* valid (without touch), throttled, or due for an activity update.
ReadSession(c) ==
  LET k == caller[c] rec == session[k.sid] IN
  /\ k.op \in {"request", "touch"} /\ k.pc = "get"
  /\ caller' = [caller EXCEPT ![c] =
       CASE rec = NoSession -> NoCall
         [] rec # NoSession /\ IsSessionExpired(rec, k.now) ->
              [k EXCEPT !.op = "drop", !.pc = "get"]
         [] rec # NoSession /\ ~IsSessionExpired(rec, k.now) /\ k.op = "request" ->
              [k EXCEPT !.pc = "handling"]
         [] OTHER -> IF k.now - rec.last < Throttle THEN NoCall
                     ELSE [k EXCEPT !.pc = "write", !.rec = rec]]
  /\ UNCHANGED <<session, ranked, ofUser, clock, born, ended, slipped, sessionFaults>>

\* The response: a failed request does not touch the session.
Finish(c) ==
  /\ caller[c].pc = "handling"
  /\ \/ Returns(c)
     \/ caller' = [caller EXCEPT ![c].op = "touch", ![c].pc = "get", ![c].now = clock]
  /\ UNCHANGED <<session, ranked, ofUser, clock, born, ended, slipped, sessionFaults>>

\* The activity update: SET with the remaining idle time, ZADD.
WriteActivity(c) ==
  LET k == caller[c] new == Touched(k.rec, k.now) left == new.idle - k.now IN
  /\ k.op = "touch" /\ k.pc = "write"
  /\ session' = [session EXCEPT ![k.sid] =
       [new EXCEPT !.dies = clock + (IF left < 1 THEN 1 ELSE left)]]
  /\ caller' = [caller EXCEPT ![c].pc = "zadd", ![c].rec = new]
  /\ UNCHANGED <<ranked, ofUser, clock, born, ended, slipped, sessionFaults>>

RankActivity(c) ==
  LET k == caller[c] IN
  /\ k.op = "touch" /\ k.pc = "zadd"
  /\ ranked' = {r \in ranked : r.sid # k.sid} \cup {[sid |-> k.sid, score |-> k.rec.idle]}
  /\ Returns(c)
  /\ UNCHANGED <<session, ofUser, clock, born, ended, slipped, sessionFaults>>

-----------------------------------------------------------------------------

\* Touches of s that have read the record and not yet written it.
TouchUnderWay(s) == \E d \in Caller : caller[d].op = "touch" /\ caller[d].pc = "write" /\ caller[d].sid = s

\* invalidateSession, called by logout, or by validateSession on an expired
\* session (op "drop"): GET, DEL, ZREM, SREM if there was a record.
Logout(c, s) ==
  /\ caller[c].pc = "idle" /\ born[s] >= 0
  /\ \A d \in Caller : ~(caller[d].op = "create" /\ caller[d].sid = s)
  /\ caller' = [caller EXCEPT ![c] = [NoCall EXCEPT !.op = "logout", !.pc = "get", !.sid = s]]
  /\ UNCHANGED <<session, ranked, ofUser, clock, born, ended, slipped, sessionFaults>>

InvalidateGet(c) ==
  /\ caller[c].op \in {"logout", "drop"} /\ caller[c].pc = "get"
  /\ caller' = [caller EXCEPT ![c].pc = "del", ![c].rec = session[caller[c].sid]]
  /\ UNCHANGED <<session, ranked, ofUser, clock, born, ended, slipped, sessionFaults>>

InvalidateDel(c) ==
  LET s == caller[c].sid IN
  /\ caller[c].op \in {"logout", "drop"} /\ caller[c].pc = "del"
  /\ session' = [session EXCEPT ![s] = NoSession]
  /\ ended' = IF caller[c].op = "logout" THEN ended \cup {s} ELSE ended
  /\ slipped' = IF TouchUnderWay(s) THEN slipped \cup {s} ELSE slipped
  /\ CallGoes(c, "zrem")
  /\ UNCHANGED <<ranked, ofUser, clock, born, sessionFaults>>

InvalidateUnlist(c) ==
  LET k == caller[c] IN
  /\ k.op \in {"logout", "drop"}
  /\ \/ /\ k.pc = "zrem"
        /\ ranked' = {r \in ranked : r.sid # k.sid}
        /\ IF k.rec = NoSession THEN Returns(c) ELSE CallGoes(c, "srem")
        /\ UNCHANGED ofUser
     \/ /\ k.pc = "srem"
        /\ ofUser' = ofUser \ {k.sid}
        /\ Returns(c)
        /\ UNCHANGED ranked
  /\ UNCHANGED <<session, clock, born, ended, slipped, sessionFaults>>

-----------------------------------------------------------------------------

\* Sessions whose creation has begun: the ones a password change is to end.
Begun == {s \in Sid : born[s] >= 0}

\* changePassword has stored the new hash; invalidateAllUserSessions: SMEMBERS,
\* a DEL each, then MULTI of the ZREMs and of the DEL of the whole set.
ChangePassword(c) ==
  /\ caller[c].pc = "idle"
  /\ caller' = [caller EXCEPT ![c] = [NoCall EXCEPT !.op = "change", !.pc = "members"]]
  /\ UNCHANGED <<session, ranked, ofUser, clock, born, ended, slipped, sessionFaults>>

ReadMembers(c) ==
  /\ caller[c].op = "change" /\ caller[c].pc = "members"
  /\ IF ofUser = {} THEN Returns(c)
     ELSE caller' = [caller EXCEPT ![c].pc = "del", ![c].ids = ofUser]
  /\ ended' = ended \cup (Begun \ ofUser)
  /\ slipped' = slipped \cup {d \in Sid : \E e \in Caller : caller[e].op = "create" /\ caller[e].sid = d}
  /\ UNCHANGED <<session, ranked, ofUser, clock, born, sessionFaults>>

DeleteMembers_IndexOnly(c) ==
  /\ caller[c].op = "change" /\ caller[c].pc = "del"
  /\ ended' = ended \cup caller[c].ids
  /\ slipped' = slipped \cup {s \in caller[c].ids : TouchUnderWay(s)}
  /\ CallGoes(c, "multi")
  /\ UNCHANGED <<session, ranked, ofUser, clock, born, sessionFaults>>

DeleteMembers(c) ==
  /\ caller[c].op = "change" /\ caller[c].pc = "del"
  /\ session' = [s \in Sid |-> IF s \in caller[c].ids THEN NoSession ELSE session[s]]
  /\ ended' = ended \cup caller[c].ids
  /\ slipped' = slipped \cup {s \in caller[c].ids : TouchUnderWay(s)}
  /\ CallGoes(c, "multi")
  /\ UNCHANGED <<ranked, ofUser, clock, born, sessionFaults>>

\* A session listed since SMEMBERS is unlisted here without having been deleted.
ForgetMembers(c) ==
  /\ caller[c].op = "change" /\ caller[c].pc = "multi"
  /\ ranked' = {r \in ranked : r.sid \notin caller[c].ids}
  /\ ofUser' = {}
  /\ slipped' = slipped \cup (ofUser \ caller[c].ids)
  /\ Returns(c)
  /\ UNCHANGED <<session, clock, born, ended, sessionFaults>>

-----------------------------------------------------------------------------

\* cleanupExpiredSessions: ZRANGEBYSCORE up to now, the ZREMs, the DELs.
Cleanup(c) ==
  LET due == {r.sid : r \in {q \in ranked : q.score <= clock}} IN
  /\ caller[c].pc = "idle" /\ due # {}
  /\ caller' = [caller EXCEPT ![c] = [NoCall EXCEPT !.op = "cleanup", !.pc = "zrem", !.ids = due]]
  /\ UNCHANGED <<session, ranked, ofUser, clock, born, ended, slipped, sessionFaults>>

CleanupStep(c) ==
  LET k == caller[c] IN
  /\ k.op = "cleanup"
  /\ \/ /\ k.pc = "zrem"
        /\ ranked' = {r \in ranked : r.sid \notin k.ids}
        /\ CallGoes(c, "del") /\ UNCHANGED session
     \/ /\ k.pc = "del"
        /\ session' = [s \in Sid |-> IF s \in k.ids THEN NoSession ELSE session[s]]
        /\ Returns(c) /\ UNCHANGED ranked
  /\ UNCHANGED <<ofUser, clock, born, ended, slipped, sessionFaults>>

\* Time passes, and keys whose TTL is over are gone.
SessionTick ==
  /\ clock < SessionHorizon /\ clock' = clock + 1
  /\ session' = [s \in Sid |-> IF session[s] # NoSession /\ session[s].dies <= clock' THEN NoSession
                               ELSE session[s]]
  /\ UNCHANGED <<ranked, ofUser, caller, born, ended, slipped, sessionFaults>>

SessionsNext ==
  \/ \E c \in Caller :
       \/ \E s \in Sid : CreateSession(c, s) \/ Request(c, s) \/ Logout(c, s)
       \/ StoreNewSession(c) \/ RankNewSession(c) \/ ListNewSession(c)
       \/ ReadSession(c) \/ Finish(c) \/ WriteActivity(c) \/ RankActivity(c)
       \/ InvalidateGet(c) \/ InvalidateDel(c) \/ InvalidateUnlist(c)
       \/ ChangePassword(c) \/ ReadMembers(c) \/ DeleteMembers(c) \/ ForgetMembers(c)
       \/ Cleanup(c) \/ CleanupStep(c) \/ CommandFails(c)
  \/ SessionTick

-----------------------------------------------------------------------------

\* Activity never extends the absolute lifetime: whatever touches, logouts and
\* expiries overlap, no request is let in later than the lifetime (and the skew
\* allowed) after its session's creation.
LifetimeNotExtended ==
  \A c \in Caller : LET k == caller[c] IN
    k.pc = "handling" => k.now <= born[k.sid] + AbsoluteLifetime + ClockSkew

\* A session ended by a logout or a password change is gone from the store, save
\* for those the code cannot hold: one whose touch had read the record, one that
\* was still being created (or whose creation could not index it), and one that
\* was listed while an earlier password change was about to drop the user's list.
EndedStaysEnded == \A s \in ended \ slipped : session[s] = NoSession

\* A session of auth/session.js ends when it must: by its lifetime, however often
\* it is touched, and for good once it was invalidated.
SessionsEnd == LifetimeNotExtended /\ EndedStaysEnded

=============================================================================
