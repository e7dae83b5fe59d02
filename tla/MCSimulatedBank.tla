--------------------------- MODULE MCSimulatedBank ---------------------------
(* SimulatedBank for TLC: workers and dispatchers are interchangeable.     *)
EXTENDS SimulatedBank, TLC

Symmetry == Permutations(Tasks) \cup Permutations(Dispatchers)
=============================================================================
