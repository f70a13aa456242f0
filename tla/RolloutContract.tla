--------------------------- MODULE RolloutContract ---------------------------
(***************************************************************************)
(* What a released rollout promises to its Campaign, whoever reports and   *)
(* in whatever order: every target is decided at most once, and the        *)
(* rollout ends, for good, only when all of them are.                      *)
(***************************************************************************)
EXTENDS FiniteSets

CONSTANT Devices   \* the targets of the rollout

VARIABLES
  status,   \* the status of the rollout
  decided   \* the targets that no longer wait for a result

contractVars == <<status, decided>>

Going == {"active", "paused"}
Ended == {"completed", "cancelled"}

Start == status = "active" /\ decided = {}

\* the rollout keeps going, or ends if nobody is left
GoesOn == status' \in Going \/ (status' = "completed" /\ decided' = Devices)

\* one target gets its result, or is skipped
Decide(d) ==
  /\ status \in Going /\ d \notin decided
  /\ decided' = decided \cup {d}
  /\ GoesOn

\* a resume, or the late result of a target that was already decided
Update == status \in Going /\ UNCHANGED decided /\ GoesOn

\* a rollback decides whatever still waits
Cancel == status \in Going /\ status' = "cancelled" /\ decided' = Devices

Advance == (\E d \in Devices : Decide(d)) \/ Update \/ Cancel

Contract == Start /\ [][Advance]_contractVars
=============================================================================
