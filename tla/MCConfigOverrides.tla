-------------------------- MODULE MCConfigOverrides --------------------------
(* SerialOverrides on small instances.  Two rollouts of different groups, of  *)
(* which one carries values, and two requests give every pair of steps that   *)
(* can overlap; three rows give one that is replaced and two that are not.    *)
EXTENDS SerialOverrides, TLC

CONSTANTS plain, valued, r1, r2

ValuedOnly == {valued}
PlainAndValued == {plain, valued}
TwoRequests == {r1, r2}

Symmetry == Permutations(Handlers)
=============================================================================
