------------------------- MODULE MCPaymentProcessing -------------------------
(* PaymentProcessing for TLC: tasks and payments are interchangeable.      *)
EXTENDS PaymentProcessing, TLC

Symmetry == Permutations(Payments) \cup Permutations(Tasks)
=============================================================================
