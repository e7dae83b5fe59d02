-------------------------- MODULE MCWebhookDelivery --------------------------
(* WebhookDelivery for TLC: everything but the clock is interchangeable.   *)
EXTENDS WebhookDelivery, TLC

Symmetry == Permutations(Tasks) \cup Permutations(Materializers)
                \cup Permutations(Subscriptions) \cup Permutations(Events)
=============================================================================
