--------------------------- MODULE FirmwareHistory ---------------------------
(* FirmwareInstalls with what happened to the partitions before: how often a *)
(* target has led to a write of its device, what the device ran until then,  *)
(* and what has crossed it.                                                  *)
EXTENDS FirmwareInstalls

VARIABLES
  install,   \* the writes that each target has led to
  stale,     \* callers that have read a device which was written since
  together   \* rollouts that two loops have worked on at the same time

history == <<install, stale, together>>

Writes(w) == SwitchPartition(w) \/ FlipPartition(w)

At(w, d) == /\ call[w].op \in {"confirm", "poll", "loop", "back"}
            /\ d = call[w].device \/ d \in DOMAIN call[w].left

\* "before" ran before the first write; "mixed": another call wrote the device
\* since it was read for that write, or any other but a rollback of it later.
Written(w) ==
  [r \in Rollouts |-> [d \in Devices |->
     LET i == install[r][d]
         by == call[w].rollout
     IN
     IF d # call[w].device THEN i
     ELSE IF r # by
     THEN [i EXCEPT !.mixed = @ \/ by = None \/ rollout[by].undoes # r]
     ELSE IF i.times = 0 THEN [times |-> 1, before |-> Runs(d),
                               mixed |-> <<w, d>> \in stale]
     ELSE [i EXCEPT !.times = 2]]]

Loops(w, r) == call[w].op \in {"loop", "back"} /\ call[w].rollout = r

Install == [times : 0..2, before : Firmware \cup {None}, mixed : BOOLEAN]

HistoryTypeOK ==
  /\ install \in [Rollouts -> [Devices -> Install]]
  /\ stale \subseteq Callers \X (Devices \cup {None})
  /\ together \subseteq Rollouts

\* The history begins, and goes on with each step of the system.
HistoryInit ==
  /\ install = [r \in Rollouts |-> [d \in Devices |->
                  [times |-> 0, before |-> None, mixed |-> FALSE]]]
  /\ stale = {}
  /\ together = {}

Remember ==
  /\ IF \E w \in Callers : Writes(w)
     THEN LET w == CHOOSE v \in Callers : Writes(v)
              d == call[w].device
          IN /\ install' = Written(w)
             /\ stale' = (stale \cup {<<v, d>> : v \in {x \in Callers : At(x, d)}})
                           \ {<<w, d>>}
     ELSE /\ install' = install
          /\ stale' = {s \in stale : call'[s[1]] # Idle}
  /\ together' = together \cup
       {r \in Rollouts : \E v, w \in Callers :
                           v # w /\ Loops(v, r)' /\ Loops(w, r)'}

RememberedSpec == Init /\ HistoryInit /\ [][Next /\ Remember]_<<vars, history>>

-----------------------------------------------------------------------------
(* Properties.                                                             *)

\* A device changes partitions once for a target, unless the result of the
\* change was lost or two loops were at work (the known limit at
\* campaign-rollout.service.ts:1914).
OncePerTarget ==
  \A r \in Rollouts, d \in Devices :
    install[r][d].times = 2 => losses > 0 \/ r \in together

\* The first write of a rollback brings a device back to what it ran before the
\* rollout it undoes, if on every device of the rollback that rollout was the
\* only one to write until now, and wrote once, and they all ran the same
\* (rollback() asks only the first device which firmware is to come back).
Undoes(r, u, d) ==
  /\ install[u][d].times = 1 /\ ~install[u][d].mixed
  /\ \A q \in Rollouts \ {r} : rollout[q].undoes = u => install[q][d].times = 0

RollbackRestores ==
  [][\A r \in Rollouts, d \in Devices :
       LET u == rollout[r].undoes
           D == {e \in Devices : target[r][e].status # "none"}
       IN
       /\ install[r][d].times = 0 /\ install'[r][d].times = 1
       /\ ~install'[r][d].mixed
       /\ u # None /\ install[u][d].before # None
       /\ \A e \in D : /\ Undoes(r, u, e)
                       /\ install[u][e].before = install[u][d].before
       => Runs(d)' = install[u][d].before]_<<vars, history>>

=============================================================================
