-------------------------- MODULE MCWebhookPipeline --------------------------
(* WebhookPipeline for TLC: everything but clock and row positions is      *)
(* interchangeable.                                                        *)
EXTENDS WebhookPipeline, TLC

Symmetry == Permutations(Tasks) \cup Permutations(Materializers)
                \cup Permutations(Subscriptions) \cup Permutations(Events)
=============================================================================
