------------------------- MODULE MCConfigLifecycle -------------------------
(* A small instance of ConfigLifecycle for TLC.                            *)
EXTENDS ConfigLifecycle, TLC

Symmetry == Permutations(Uses) \cup Permutations(Callers)
              \cup Permutations(Requests)

=============================================================================
