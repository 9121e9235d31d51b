------------------------- MODULE MCWebhookDelivery -------------------------
(* Instances of WebhookDelivery for TLC: every delivery is for one webhook. *)
EXTENDS WebhookDelivery, TLC

CONSTANTS w1

OneTarget == [d \in Delivery |-> w1]

Symmetry == Permutations(Proc) \cup Permutations(Delivery)
              \cup Permutations(Attempt)
=============================================================================
