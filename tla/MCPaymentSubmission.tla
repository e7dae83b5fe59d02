------------------------- MODULE MCPaymentSubmission -------------------------
(* PaymentSubmission for TLC: handlers, customers, contents and payments   *)
(* are interchangeable.                                                    *)
EXTENDS PaymentSubmission, TLC

Symmetry == Permutations(Handlers) \cup Permutations(Customers)
                \cup Permutations(Contents) \cup Permutations(PaymentIds)
=============================================================================
