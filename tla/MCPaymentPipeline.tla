-------------------------- MODULE MCPaymentPipeline --------------------------
(* PaymentPipeline for TLC: workers and dispatchers are interchangeable.   *)
EXTENDS PaymentPipeline, TLC

Symmetry == Permutations(Tasks) \cup Permutations(Dispatchers)
=============================================================================
