------------------------- MODULE MCWebhookDispatch -------------------------
(* Model checking WebhookDispatch.                                         *)
EXTENDS WebhookDispatch, TLC

\* Webhooks are interchangeable, and so are dispatches and event ids.
Symmetry == Permutations(Webhook) \cup Permutations(Dispatch) \cup Permutations(EventId)
=============================================================================
