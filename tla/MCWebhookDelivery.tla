------------------------- MODULE MCWebhookDelivery --------------------------
(* Instances of WebhookDelivery for TLC. *)
EXTENDS WebhookDelivery, TLC

CONSTANTS d1, d2

WorkerSymmetry == Permutations(Workers)
=============================================================================
