---------------------------- MODULE MCOfflineSync ----------------------------
(* OfflineSync on small instances: one task that two technicians can have, so *)
(* that a change is followed, refused and sent again, and one phone for both. *)
EXTENDS OfflineSync, TLC

CONSTANTS u1, u2, t1

TwoUsers == {u1, u2}
OneTask == {t1}

Symmetry == Permutations(Technicians)

\* What the comments of stop() say: once the local data is wiped, no answer to
\* the flush that was running fills it again (sync_queue_service.dart: stop)
LateAnswersAreDropped == past.excuses \subseteq {"again"} => OnlyOwnData
=============================================================================
