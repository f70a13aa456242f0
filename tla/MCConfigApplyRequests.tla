------------------------ MODULE MCConfigApplyRequests ------------------------
(***************************************************************************)
(* Two requests, two tasks of one device and two technicians.              *)
(***************************************************************************)
EXTENDS ConfigApplyRequests, TLC

CONSTANTS q1, q2, t1, t2, u1, u2, k1, k2

OneRequest == {q1}
TwoRequests == {q1, q2}
OneTask == {t1}
TwoTasks == {t1, t2}
OneUser == {u1}
TwoUsers == {u1, u2}
OneCall == {k1}
TwoCalls == {k1, k2}

Symmetry == Permutations(Requests) \cup Permutations(Tasks) \cup Permutations(Users)
            \cup Permutations(Calls)
=============================================================================
