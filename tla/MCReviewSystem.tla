---- MODULE MCReviewSystem ----
\* Finite instances of ReviewSystem for TLC.
EXTENDS ReviewSystem, TLC

Symmetry == Permutations(Runs) \cup Permutations(Deciders)
            \cup Permutations(Mergers) \cup Permutations(Approvers)
====
