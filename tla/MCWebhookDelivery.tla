------------------------- MODULE MCWebhookDelivery -------------------------
(* Model checking WebhookDelivery: all deliveries go to one webhook, the case *)
(* in which they share its indexes.                                           *)
EXTENDS WebhookDelivery

OneWebhook == [d \in Delivery |-> "webhook"]
=============================================================================
