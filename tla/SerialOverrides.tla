--------------------------- MODULE SerialOverrides ---------------------------
(* ConfigOverrides with whether requests ever overlapped.  The rules for the  *)
(* rows of one device and Config (one pending request, which no rollout puts  *)
(* its values over) hold as long as they did not: no lock and no unique key   *)
(* keeps them.                                                                *)
EXTENDS ConfigOverrides

VARIABLE overlapped

Busy == {r \in Handlers : ~IsIdle(r)}

\* two requests are being served
Overlap == \E r, s \in Busy : r # s

\* something else happened while one was
StepBetween == Busy # {} /\ handling' = handling

SerialInit == OverridesInit /\ overlapped = FALSE
SerialNext == OverridesNext /\ overlapped' = (overlapped \/ Overlap' \/ StepBetween)
serialVars == <<overrideVars, overlapped>>
SerialSpec == SerialInit /\ [][SerialNext]_serialVars

-----------------------------------------------------------------------------
\* At most one request of a technician waits for its decision, a rollout never
\* puts its values over it, and a row that was replaced by one that was used is
\* not sent any more
SerialPrecedence ==
  overlapped \/ (OnePending /\ RequestsComeFirst /\ ReplacedStaysAway)

\* What is marked as used was given, with rollouts too.  It is not: the row of a
\* rollout is as old as its approval, so that a report of a job which was fetched
\* before the release marks it
SerialUsedWasGiven == overlapped \/ UsedWasGiven
=============================================================================
