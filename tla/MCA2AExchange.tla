---- MODULE MCA2AExchange ----
\* Finite instances of A2AExchange for TLC.
EXTENDS A2AExchange, TLC

Symmetry == Permutations(Threads) \cup Permutations(Trackers)
====
