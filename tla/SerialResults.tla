---------------------------- MODULE SerialResults ----------------------------
(* RolloutResults with whether requests ever overlapped.  What the comments   *)
(* promise of counters, completion and rollback holds as long as they did     *)
(* not, so that interleaving alone breaks it.                                 *)
EXTENDS RolloutResults

\* a rollout is created for at least one device
ASSUME HasDevices == Devices # {}

VARIABLE overlapped

Busy == {w \in Workers : worker[w].pc # "idle"}
RollingBack == rollback.pc \notin {"idle", "done"}

\* two requests are being served
Overlap == (\E v, w \in Busy : v # w) \/ (Busy # {} /\ RollingBack)

\* the rollout was resumed while one was
ResumeBetween == Busy # {} /\ rollout.window' # rollout.window

SerialInit == Init /\ overlapped = FALSE
SerialNext == Next /\ overlapped' = (overlapped \/ Overlap' \/ ResumeBetween)
serialVars == <<vars, overlapped>>
SerialSpec == SerialInit /\ [][SerialNext]_serialVars

-----------------------------------------------------------------------------
\* When every device is done the rollout is closed, the counters are exact after
\* each recording, and a paused rollout still has somebody to wait for
SerialPromises == overlapped \/ (AllDecidedCloses /\ CountersExact /\ PausedStillWaits)

\* A result that leaves the failures over the threshold pauses the rollout, and a
\* rollback goes to every device that fetched the payload and succeeded or did not
\* answer yet
SerialSteps == [][overlapped' \/ (LeavesWithinThreshold /\ ListsHolders)]_serialVars

\* ... and to one that was skipped, came back for its job and may be using it,
\* which it does not
SerialReturned == [][overlapped' \/ ListsReturned]_serialVars
=============================================================================
