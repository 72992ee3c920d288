-------------------------- MODULE DeliveryPromise --------------------------
(***************************************************************************)
(* What a webhook delivery promises, without queues, replicas' workers or  *)
(* round trips to Redis: a delivery is created once, sent by one agent at  *)
(* a time, never sent again once its receiver has accepted it, and its     *)
(* recorded status ends as success exactly when an attempt was accepted,   *)
(* and as failed only when none was.  WebhookDelivery implements it.       *)
(***************************************************************************)
CONSTANTS
  Delivery,   \* delivery ids
  Agent       \* whoever may attempt a delivery

VARIABLES
  status,     \* what the API reports of each delivery
  sending,    \* the agents attempting each delivery
  taken       \* whether its receiver has answered 2xx

promiseVars == <<status, sending, taken>>

Init ==
  /\ status = [d \in Delivery |-> "none"]
  /\ sending = [d \in Delivery |-> {}]
  /\ taken = [d \in Delivery |-> FALSE]

\* The delivery exists; its creator goes on to attempt it, or has failed.
Register(d) ==
  /\ status[d] = "none"
  /\ status' = [status EXCEPT ![d] = "pending"]
  /\ \/ UNCHANGED sending
     \/ \E a \in Agent : sending' = [sending EXCEPT ![d] = {a}]
  /\ UNCHANGED taken

\* An attempt begins: nobody else is at it, nothing is settled yet.
Take(d, a) ==
  /\ status[d] = "pending" /\ sending[d] = {} /\ ~taken[d]
  /\ sending' = [sending EXCEPT ![d] = {a}]
  /\ UNCHANGED <<status, taken>>

\* The receiver accepts the event, the first and only time.
Accept(d) ==
  /\ status[d] = "pending" /\ sending[d] # {} /\ ~taken[d]
  /\ taken' = [taken EXCEPT ![d] = TRUE]
  /\ UNCHANGED <<status, sending>>

\* Attempts end without a verdict: a retry will follow, or the process died
\* (then all of its attempts at once).
Leave(S) ==
  /\ sending' = [d \in Delivery |-> IF d \in S THEN {} ELSE sending[d]]
  /\ UNCHANGED <<status, taken>>

\* An attempt ends with the verdict that what happened calls for.
Settle(d, verdict) ==
  /\ status[d] = "pending" /\ sending[d] # {}
  /\ verdict = IF taken[d] THEN "success" ELSE "failed"
  /\ status' = [status EXCEPT ![d] = verdict]
  /\ sending' = [sending EXCEPT ![d] = {}]
  /\ UNCHANGED taken

Next ==
  \/ \E d \in Delivery : Register(d) \/ Accept(d)
  \/ \E d \in Delivery, a \in Agent : Take(d, a)
  \/ \E S \in SUBSET Delivery : Leave(S)
  \/ \E d \in Delivery, verdict \in {"success", "failed"} : Settle(d, verdict)

Spec == Init /\ [][Next]_promiseVars

=============================================================================
