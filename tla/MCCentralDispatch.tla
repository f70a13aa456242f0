-------------------------- MODULE MCCentralDispatch --------------------------
(* CentralDispatch and its history on small instances: two targets, so that   *)
(* one can pause the rollout while the other waits, and two attempts, the     *)
(* first and the last.                                                        *)
EXTENDS DispatchHistory, TLC

CONSTANTS d1, d2, l1, l2

TwoDevices == {d1, d2}
TwoLoops == {l1, l2}

\* one of the targets is sent at most once and its command is heard of, and there
\* is either a restart or a switch of autoRetry; a first target that two loops have
\* taken on together is excused and followed no further
OneIsPlain == /\ target[d2].sets = 0
              /\ \A n \in DOMAIN central[d2] :
                   n = 1 /\ central[d2][n] \in {"open", "success"}
              /\ unheard[d2] = {}
              /\ crashes + switches <= 1
              /\ d1 \notin shared

Symmetry == Permutations(Loops)
=============================================================================
