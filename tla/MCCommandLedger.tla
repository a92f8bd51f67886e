---- MODULE MCCommandLedger ----
\* Finite instances of CommandLedger for TLC.
EXTENDS CommandLedger, TLC

Symmetry == Permutations(Workers) \cup Permutations(Aggregates) \cup Permutations(Payloads)
====
