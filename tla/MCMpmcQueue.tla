----------------------------- MODULE MCMpmcQueue -----------------------------
(* Model values and symmetry for checking MpmcQueue with TLC.              *)
EXTENDS MpmcQueue, TLC

Symmetry == Permutations(Producers) \cup Permutations(Consumers)
            \cup Permutations(Payload)

=============================================================================
