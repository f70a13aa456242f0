-------------------------- MODULE MCRolloutResults --------------------------
(* SerialResults on small instances.  Two devices, of which one can decide    *)
(* the other's rollout, and two workers, which give every pair of overlapping *)
(* transactions; two windows, before and after a resume.                      *)
EXTENDS SerialResults, TLC

CONSTANTS d1, d2, w1, w2

TwoDevices == {d1, d2}
TwoWorkers == {w1, w2}

\* devices are interchangeable, and so are workers
Symmetry == Permutations(Devices) \cup Permutations(Workers)
=============================================================================
