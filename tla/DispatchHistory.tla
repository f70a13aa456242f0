--------------------------- MODULE DispatchHistory ---------------------------
(* CentralDispatch with what can go wrong about a target before: two loops of *)
(* the rollout took it on, because the rollout was resumed while the loop     *)
(* from before its pause still had it, or the central server accepted a       *)
(* command whose number was lost, with its answer or in a restart.  Nothing   *)
(* else does harm, for any number of loops, lost answers and restarts.        *)
EXTENDS CentralDispatch

VARIABLES
  shared,   \* the targets that two loops had before them at the same time
  unheard   \* the commands of each device whose numbers no row will name

history == <<shared, unheard>>

OnList(c, d) == c.seen[d] # 0

Saves(c, d, n) == c.pc = "save" /\ c.at = d /\ c.command = n

\* somebody is about to write the number of the command into its row
ToBeSaved(d, n) == \E w \in Workers : Saves(loop[w], d, n)

HistoryTypeOK ==
  /\ shared \subseteq Devices
  /\ unheard \in [Devices -> SUBSET Nat]

HistoryInit ==
  /\ Init
  /\ shared = {}
  /\ unheard = [d \in Devices |-> {}]

\* commands that are new or were to be saved, and are neither saved nor to be
\* saved after the step
Given(d) ==
  {n \in DOMAIN central'[d] :
     /\ n \in DOMAIN central[d] => ToBeSaved(d, n)
     /\ target'[d].command # n
     /\ ~ToBeSaved(d, n)'}

Remember ==
  /\ shared' = shared \cup
       {d \in Devices : \E l, m \in Loops :
                          l # m /\ OnList(loop'[l], d) /\ OnList(loop'[m], d)}
  /\ unheard' = [d \in Devices |-> unheard[d] \cup Given(d)]

\* the steps of Next, each with what is remembered of it
HistoryNext ==
  \/ \E l \in Loops : \/ Release(l) /\ Remember
                      \/ Resume(l) /\ Remember
  \/ \E w \in Workers : LoopStep(w) /\ Remember
  \/ PollStep /\ Remember
  \/ Cancel /\ Remember
  \/ Switch /\ Remember
  \/ Crash /\ Remember
  \/ \E d \in Devices : \/ TimePasses(d) /\ Remember
                        \/ CommandEnds(d) /\ Remember

historyVars == <<vars, history>>

HistorySpec == HistoryInit /\ [][HistoryNext]_historyVars

HistoryFairSpec == HistorySpec /\ Fairness

-----------------------------------------------------------------------------
(* Properties *)

\* A target that no two loops took on together is in the hands of at most one
\* request or poll at a time: it is handed over through its row only
\* (centralCommandId and nextRetryAt null for the loops, one of them set for the
\* poll).
OneHolderInTurn == \A d \in Devices \ shared : HasOneHolder(d)

\* Such a target leads to no more commands than it has attempts, but for one
\* per restart of the backend.
SentOnceInTurn == \A d \in Devices \ shared : IsSentOncePerAttempt(d)

\* Such a target, when it is recorded as failed or skipped, has no command that
\* the device applied or may yet apply, but for commands whose number was lost
\* with the answer of the central server or by a restart before it was saved; a
\* cancelled rollout is another matter.
AppliedOnlyUnheard ==
  rollout # "cancelled" =>
    \A d \in Devices \ shared : target[d].status \in {"failed", "skipped"} =>
      \A n \in DOMAIN central[d] : central[d][n] \in {"open", "success"} => n \in unheard[d]

\* What befalls a target has its cause: it is forgotten only after a restart, and
\* what was recorded as failed is applied only by a command that nobody heard of
\* or after two loops took the target on together.
HarmHasItsCause == (crashes = 0 => NobodyForgotten) /\ AppliedOnlyUnheard
=============================================================================
