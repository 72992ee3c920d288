---------------------------- MODULE TokenRefresh ----------------------------
(***************************************************************************)
(* Refresh tokens (auth/tokenRefresh.js): one family of tokens, their      *)
(* rotation, the detection of a token used twice, revocation, and the      *)
(* in-memory store that takes over while Redis is away.                    *)
(*                                                                         *)
(* A client is one asynchronous call; a step is one Redis command and the  *)
(* code up to the next.                                                    *)
(***************************************************************************)
EXTENDS Naturals, FiniteSets

CONSTANTS
  MaxTokens,        \* bound: refresh tokens of the family, numbered as generated
  Client,           \* calls in flight
  MaxPresented,     \* bound: requests with a token
  MaxTokenFaults    \* bound: calls that find no connection, or whose command fails

ASSUME TokenConfig == MaxTokens \in Nat \ {0} /\ MaxPresented \in Nat /\ MaxTokenFaults \in Nat

Token == 1 .. MaxTokens
NoToken == 0

VARIABLES
  stored,        \* rt:<hash> in Redis: "none", "fresh" or "used"
  family,        \* rt_fam:<id> in Redis: the members and the TTL last given
  inMemory,      \* memoryStore
  memFamily,     \* memoryFamilyStore
  client,        \* the calls
  issued,        \* tokens handed out
  overdue,       \* how many tokens, the oldest, are past their expiresAt
  presented,     \* requests so far
  exchanged,     \* history: how often each token was exchanged
  overlapping,   \* history: tokens two exchanges had read as fresh at once
  condemned,     \* history: tokens of the family when it was revoked
  orphaned,      \* history: tokens that joined a family about to be dropped
  tokenFaults

tokenVars == <<stored, family, inMemory, memFamily, client, issued, overdue, presented,
               exchanged, overlapping, condemned, orphaned, tokenFaults>>

NoRefresh == [pc |-> "idle", tok |-> NoToken, new |-> NoToken, ids |-> {}]
NoFamily == [members |-> {}, ttl |-> "none"]

TokensInit ==
  /\ stored = [t \in Token |-> "none"] /\ inMemory = stored
  /\ family = NoFamily /\ memFamily = {}
  /\ client = [c \in Client |-> NoRefresh]
  /\ issued = {} /\ overdue = 0 /\ presented = 0
  /\ exchanged = [t \in Token |-> 0]
  /\ overlapping = {} /\ condemned = {} /\ orphaned = {}
  /\ tokenFaults = 0

\* Redis executes the step; or there is no connection, or the command fails,
\* and the in-memory branch runs.
UsesRedis == UNCHANGED tokenFaults
UsesMemory == tokenFaults < MaxTokenFaults /\ tokenFaults' = tokenFaults + 1

Answers(c) == client' = [client EXCEPT ![c] = NoRefresh]
Proceeds(c, pc) == client' = [client EXCEPT ![c].pc = pc]

\* Tokens some call has generated, or is to hand out.
Generated == issued \cup {client[c].new : c \in Client}

\* createTokenPair: a random token, then its record is stored.
Generate(c, n) ==
  /\ n = Cardinality(Generated \ {NoToken}) + 1
  /\ client' = [client EXCEPT ![c].new = n, ![c].pc = "newSet"]

Login(c) ==
  /\ client[c].pc = "idle" /\ Generated \subseteq {NoToken}
  /\ \E n \in Token : Generate(c, n)
  /\ UNCHANGED <<stored, family, inMemory, memFamily, issued, overdue, presented,
                 exchanged, overlapping, condemned, orphaned, tokenFaults>>

\* POST /auth/refresh and /auth/revoke with any token that was handed out.
Present(c, t, what) ==
  /\ client[c].pc = "idle" /\ t \in issued
  /\ presented < MaxPresented /\ presented' = presented + 1
  /\ client' = [client EXCEPT ![c].pc = what, ![c].tok = t]
  /\ UNCHANGED <<stored, family, inMemory, memFamily, issued, overdue,
                 exchanged, overlapping, condemned, orphaned, tokenFaults>>


\* Calls between their read of t and their mark.
Marking(t) == {d \in Client : client[d].tok = t /\ client[d].pc = "markSet"}

\* refreshTokens up to its first write; a record read from memory is the stored
\* object itself, and marking it used is at once visible there.
RefreshReads(c) ==
  LET t == client[c].tok IN
  /\ client[c].pc = "refresh"
  /\ \E mem \in BOOLEAN : LET rec == IF mem THEN inMemory[t] ELSE stored[t] IN
       /\ IF mem THEN UsesMemory ELSE UsesRedis
       /\ CASE rec = "none" -> Answers(c)
            [] rec = "used" -> Proceeds(c, "members")
            [] rec = "fresh" -> Proceeds(c, IF t <= overdue THEN "delete" ELSE "markSet")
       /\ LET takes == rec = "fresh" /\ t > overdue IN
          /\ inMemory' = IF mem /\ takes THEN [inMemory EXCEPT ![t] = "used"] ELSE inMemory
          /\ overlapping' = IF takes /\ Marking(t) # {} THEN overlapping \cup {t} ELSE overlapping
  /\ UNCHANGED <<stored, family, memFamily, issued, overdue, presented, exchanged, condemned, orphaned>>

-----------------------------------------------------------------------------

\* storeRefreshToken of the used record, to expire after the grace window.
MarkSet(c) ==
  /\ client[c].pc = "markSet" /\ UsesRedis
  /\ stored' = [stored EXCEPT ![client[c].tok] = "used"]
  /\ Proceeds(c, "markSadd")
  /\ UNCHANGED <<family, inMemory, memFamily, issued, overdue, presented, exchanged, overlapping,
                 condemned, orphaned>>

\* SADD and EXPIRE of the family: for 60 seconds after the mark, for the
\* token's lifetime after the new token.
FamilyAdd(c) ==
  LET k == client[c] mark == k.pc \in {"markSadd", "markExpire"} IN
  /\ k.pc \in {"markSadd", "markExpire", "newSadd", "newExpire"} /\ UsesRedis
  /\ IF k.pc \in {"markSadd", "newSadd"}
     THEN /\ family' = [members |-> family.members \cup {IF mark THEN k.tok ELSE k.new},
                        ttl |-> IF family.ttl = "none" THEN "lasting" ELSE family.ttl]
          /\ Proceeds(c, IF mark THEN "markExpire" ELSE "newExpire")
     ELSE /\ family' = [family EXCEPT !.ttl = CASE @ = "none" -> @
                                                [] @ # "none" /\ mark -> "short"
                                                [] OTHER -> "lasting"]
          /\ Proceeds(c, IF mark THEN "rotate" ELSE "answer")
  /\ UNCHANGED <<stored, inMemory, memFamily, issued, overdue, presented, exchanged, overlapping,
                 condemned, orphaned>>

NewSet(c) ==
  /\ client[c].pc = "newSet" /\ UsesRedis
  /\ stored' = [stored EXCEPT ![client[c].new] = "fresh"]
  /\ Proceeds(c, "newSadd")
  /\ UNCHANGED <<family, inMemory, memFamily, issued, overdue, presented, exchanged, overlapping,
                 condemned, orphaned>>

\* The memory fallback of storeRefreshToken, from whichever command failed.
StoreInMemory(c) ==
  LET k == client[c] mark == k.pc \in {"markSet", "markSadd", "markExpire"}
      t == IF mark THEN k.tok ELSE k.new IN
  /\ k.pc \in {"markSet", "markSadd", "markExpire", "newSet", "newSadd", "newExpire"}
  /\ UsesMemory
  /\ inMemory' = [inMemory EXCEPT ![t] = IF mark THEN "used" ELSE "fresh"]
  /\ memFamily' = memFamily \cup {t}
  /\ Proceeds(c, IF mark THEN "rotate" ELSE "answer")
  /\ UNCHANGED <<stored, family, issued, overdue, presented, exchanged, overlapping, condemned, orphaned>>

Rotate(c) ==
  /\ client[c].pc = "rotate"
  /\ \E n \in Token : Generate(c, n)
  /\ UNCHANGED <<stored, family, inMemory, memFamily, issued, overdue, presented,
                 exchanged, overlapping, condemned, orphaned, tokenFaults>>

HandOut(c) ==
  LET t == client[c].tok IN
  /\ client[c].pc = "answer"
  /\ issued' = issued \cup {client[c].new}
  /\ exchanged' = IF t = NoToken THEN exchanged ELSE [exchanged EXCEPT ![t] = @ + 1]
  /\ Answers(c)
  /\ UNCHANGED <<stored, family, inMemory, memFamily, overdue, presented, overlapping, condemned,
                 orphaned, tokenFaults>>

-----------------------------------------------------------------------------

\* revokeFamily: SMEMBERS, a DEL each, DEL of the family; then the same in memory.
ForgetInMemory ==
  /\ inMemory' = [t \in Token |-> IF t \in memFamily THEN "none" ELSE inMemory[t]]
  /\ memFamily' = {}

ReadFamily_OnlyPresented(c) ==
  /\ client[c].pc = "members" /\ UsesRedis
  /\ client' = [client EXCEPT ![c].pc = "delMembers", ![c].ids = {client[c].tok}]
  /\ condemned' = condemned \cup issued
  /\ UNCHANGED <<stored, family, inMemory, memFamily, issued, overdue, presented, exchanged,
                 overlapping, orphaned>>

ReadFamily(c) ==
  /\ client[c].pc = "members" /\ UsesRedis
  /\ client' = [client EXCEPT ![c].pc = "delMembers", ![c].ids = family.members]
  /\ condemned' = condemned \cup issued
  /\ UNCHANGED <<stored, family, inMemory, memFamily, issued, overdue, presented, exchanged,
                 overlapping, orphaned>>

DeleteFamily(c) ==
  /\ client[c].pc = "delMembers" /\ UsesRedis
  /\ IF client[c].ids # {}
     THEN /\ \E t \in client[c].ids :
               /\ stored' = [stored EXCEPT ![t] = "none"]
               /\ client' = [client EXCEPT ![c].ids = @ \ {t}]
          /\ UNCHANGED <<family, inMemory, memFamily, orphaned>>
     ELSE /\ family' = NoFamily /\ ForgetInMemory /\ Answers(c) /\ UNCHANGED stored
          /\ orphaned' = orphaned \cup {t \in family.members \ condemned : stored[t] = "fresh"}
  /\ UNCHANGED <<issued, overdue, presented, exchanged, overlapping, condemned>>

RevokeInMemory(c) ==
  /\ client[c].pc \in {"members", "delMembers"} /\ UsesMemory
  /\ ForgetInMemory /\ Answers(c)
  /\ UNCHANGED <<stored, family, issued, overdue, presented, exchanged, overlapping, condemned, orphaned>>

\* revokeRefreshToken: read, then delete.
RevokeReads(c) ==
  LET t == client[c].tok IN
  /\ client[c].pc = "revoke"
  /\ \/ UsesRedis /\ Proceeds(c, IF stored[t] = "none" THEN "refused" ELSE "delete")
     \/ UsesMemory /\ Proceeds(c, IF inMemory[t] = "none" THEN "refused" ELSE "delete")
  /\ UNCHANGED <<stored, family, inMemory, memFamily, issued, overdue, presented,
                 exchanged, overlapping, condemned, orphaned>>

\* deleteRefreshToken: in Redis when it can, in memory always.
DeleteToken(c) ==
  LET t == client[c].tok IN
  /\ \/ /\ client[c].pc = "delete"
        /\ \/ UsesRedis /\ stored' = [stored EXCEPT ![t] = "none"]
           \/ UsesMemory /\ UNCHANGED stored
        /\ inMemory' = [inMemory EXCEPT ![t] = "none"]
     \/ client[c].pc = "refused" /\ UNCHANGED <<stored, inMemory, tokenFaults>>
  /\ Answers(c)
  /\ UNCHANGED <<family, memFamily, issued, overdue, presented, exchanged, overlapping, condemned, orphaned>>

-----------------------------------------------------------------------------

\* Time: a token passes its expiresAt; Redis drops keys whose TTL is over.  The
\* 60 seconds given to a family outlast a call that is about to renew them.
TokenAges ==
  /\ overdue + 1 \in issued /\ overdue' = overdue + 1
  /\ UNCHANGED <<stored, family, inMemory, memFamily, client, issued, presented,
                 exchanged, overlapping, condemned, orphaned, tokenFaults>>

KeyExpires ==
  /\ \/ /\ \E t \in Token : /\ stored[t] = "used" \/ (stored[t] = "fresh" /\ t <= overdue)
                            /\ stored' = [stored EXCEPT ![t] = "none"]
        /\ UNCHANGED family
     \/ /\ family.ttl = "short"
        /\ \A c \in Client : client[c].pc \notin {"rotate", "newSet", "newSadd", "newExpire"}
        /\ family' = NoFamily /\ UNCHANGED stored
  /\ UNCHANGED <<inMemory, memFamily, client, issued, overdue, presented,
                 exchanged, overlapping, condemned, orphaned, tokenFaults>>

TokensNext ==
  \/ \E c \in Client :
       \/ Login(c) \/ \E t \in Token, what \in {"refresh", "revoke"} : Present(c, t, what)
       \/ RefreshReads(c) \/ MarkSet(c) \/ FamilyAdd(c) \/ NewSet(c) \/ StoreInMemory(c)
       \/ Rotate(c) \/ HandOut(c) \/ ReadFamily(c) \/ DeleteFamily(c) \/ RevokeInMemory(c)
       \/ RevokeReads(c) \/ DeleteToken(c)
  \/ TokenAges \/ KeyExpires

-----------------------------------------------------------------------------

\* A refresh token buys one successor, in all orders of refreshes, revocations
\* and expiries: two only if two calls had read it before the first marked it,
\* or Redis failed in between.
ExchangedOnce ==
  tokenFaults = 0 => \A t \in Token : exchanged[t] > 1 => t \in overlapping

\* Once a reuse has been answered, no token handed out before the family was
\* read can be exchanged any more, if Redis was there all along and the token
\* did not join a family that an earlier revocation was about to drop.
RevocationReachesFamily ==
  tokenFaults = 0 /\ (\A c \in Client : client[c].pc # "delMembers")
    => \A t \in condemned \ orphaned : stored[t] # "fresh" /\ inMemory[t] # "fresh"

\* Rotation of auth/tokenRefresh.js: a refresh token is exchanged once, and a
\* detected reuse revokes every token of the family.
TokensRotate == ExchangedOnce /\ RevocationReachesFamily

=============================================================================
