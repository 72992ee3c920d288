---------------------------- MODULE RequestGuards ----------------------------
(***************************************************************************)
(* What a request with an Idempotency-Key passes before its handler: the   *)
(* fixed-window rate limit (middleware/rateLimit.js) and the replay of a   *)
(* stored response (services/idempotency.js).                              *)
(*                                                                         *)
(* One client (an address or an API key, with the maximum of its tier) and *)
(* one idempotency key; a step is one Redis command and the code up to the *)
(* next, or the handler's run.                                             *)
(***************************************************************************)
EXTENDS Naturals, FiniteSets

CONSTANTS
  Req,             \* requests
  LimitMax,        \* max
  MaxBucket,       \* bound: windows of the limiter
  MaxGuardFaults   \* bound: failed Redis commands

ASSUME GuardConfig == LimitMax \in Nat \ {0} /\ MaxBucket \in Nat /\ MaxGuardFaults \in Nat

Bucket == 0 .. MaxBucket

VARIABLES
  bucket,       \* Math.floor(now / window)
  counter,      \* ratelimit:<client>:<bucket>
  untimed,      \* buckets whose counter got no EXPIRE
  response,     \* idempotency:<key>: "none" or "stored"
  req,          \* the requests
  admitted,     \* history: requests each counter let pass
  opened,       \* history: requests let pass because Redis failed
  done,         \* history: successful runs of the handler since the key was free
  unseen,       \* history: a check was made while another request ran or was storing
  guardFaults

guardVars == <<bucket, counter, untimed, response, req, admitted, opened, done, unseen, guardFaults>>

NewReq == [pc |-> "new", bucket |-> 0]

GuardsInit ==
  /\ bucket = 0
  /\ counter = [b \in Bucket |-> 0] /\ admitted = counter
  /\ untimed = {}
  /\ response = "none"
  /\ req = [r \in Req |-> NewReq]
  /\ opened = 0 /\ done = 0 /\ unseen = FALSE
  /\ guardFaults = 0

Works == UNCHANGED guardFaults
Breaks == guardFaults < MaxGuardFaults /\ guardFaults' = guardFaults + 1

\* rateLimit / apiKeyRateLimit: the bucket is computed, then INCR.
Arrive(r) ==
  /\ req[r].pc = "new"
  /\ req' = [req EXCEPT ![r] = [pc |-> "incr", bucket |-> bucket]]
  /\ UNCHANGED <<bucket, counter, untimed, response, admitted, opened, done, unseen, guardFaults>>

\* After the count: 429 past the maximum, else on to the idempotency check.
Verdict(r, count) ==
  IF count > LimitMax
  THEN /\ req' = [req EXCEPT ![r].pc = "refused"]
       /\ UNCHANGED admitted
  ELSE /\ req' = [req EXCEPT ![r].pc = "check"]
       /\ admitted' = [admitted EXCEPT ![req[r].bucket] = @ + 1]

Incr(r) ==
  LET b == req[r].bucket IN
  /\ req[r].pc = "incr" /\ Works
  /\ counter' = [counter EXCEPT ![b] = @ + 1]
  /\ IF counter[b] = 0
     THEN req' = [req EXCEPT ![r].pc = "expire"] /\ UNCHANGED admitted
     ELSE Verdict(r, counter[b] + 1)
  /\ UNCHANGED <<bucket, untimed, response, opened, done, unseen>>

SetWindow(r) ==
  /\ req[r].pc = "expire" /\ Works
  /\ Verdict(r, 1)
  /\ UNCHANGED <<bucket, counter, untimed, response, opened, done, unseen>>

\* A failing command opens the gate; without EXPIRE the counter stays for ever.
FailOpen(r) ==
  /\ req[r].pc \in {"incr", "expire"} /\ Breaks
  /\ req' = [req EXCEPT ![r].pc = "check"]
  /\ untimed' = IF req[r].pc = "expire" THEN untimed \cup {req[r].bucket} ELSE untimed
  /\ opened' = opened + 1
  /\ UNCHANGED <<bucket, counter, response, admitted, done, unseen>>

-----------------------------------------------------------------------------

\* idempotencyMiddleware: replay what is stored; else, or when the read fails,
\* the handler runs.
CheckKey(r) ==
  /\ req[r].pc = "check"
  /\ \/ Works /\ req' = [req EXCEPT ![r].pc = IF response = "stored" THEN "replayed" ELSE "run"]
     \/ Breaks /\ req' = [req EXCEPT ![r].pc = "run"]
  /\ unseen' = (unseen \/ \E q \in Req \ {r} : req[q].pc \in {"run", "store"})
  /\ UNCHANGED <<bucket, counter, untimed, response, admitted, opened, done>>

\* The handler answers; only a 2xx is stored, and nobody waits for it.
Handle(r) ==
  /\ req[r].pc = "run"
  /\ \/ req' = [req EXCEPT ![r].pc = "store"] /\ done' = done + 1
     \/ req' = [req EXCEPT ![r].pc = "failed"] /\ UNCHANGED done
  /\ UNCHANGED <<bucket, counter, untimed, response, admitted, opened, unseen, guardFaults>>

StoreResponse_NeverWritten(r) ==
  /\ req[r].pc = "store" /\ Works
  /\ req' = [req EXCEPT ![r].pc = "answered"]
  /\ UNCHANGED <<bucket, counter, untimed, response, admitted, opened, done, unseen>>

StoreResponse(r) ==
  /\ req[r].pc = "store"
  /\ req' = [req EXCEPT ![r].pc = "answered"]
  /\ \/ Works /\ response' = "stored"
     \/ Breaks /\ UNCHANGED response
  /\ UNCHANGED <<bucket, counter, untimed, admitted, opened, done, unseen>>

\* The next window; and the 24 hours of a stored response are over.
GuardTick ==
  /\ \/ bucket < MaxBucket /\ bucket' = bucket + 1 /\ UNCHANGED <<response, done>>
     \/ response = "stored" /\ response' = "none" /\ done' = 0 /\ UNCHANGED bucket
  /\ UNCHANGED <<counter, untimed, req, admitted, opened, unseen, guardFaults>>

GuardsNext ==
  \/ \E r \in Req : \/ Arrive(r) \/ Incr(r) \/ SetWindow(r) \/ FailOpen(r)
                    \/ CheckKey(r) \/ Handle(r) \/ StoreResponse(r)
  \/ GuardTick

-----------------------------------------------------------------------------

\* Counted in whatever order, no window lets more than the maximum pass, and it
\* refuses nobody before that; requests let pass by failures come on top.
LimitKept ==
  /\ \A b \in Bucket : admitted[b] <= LimitMax
  /\ \A r \in Req : req[r].pc = "refused" => counter[req[r].bucket] > LimitMax
  /\ opened <= guardFaults

\* A handler that succeeded is run again only for a request that checked while
\* the first was running or its answer was not yet stored, or after a failure.
RunOnce == done > 1 => unseen \/ guardFaults > 0

\* A request passes its two guards as their middleware promises: the limit of its
\* window is kept, and its idempotency key runs the handler once.
RequestsGuarded == LimitKept /\ RunOnce

=============================================================================
