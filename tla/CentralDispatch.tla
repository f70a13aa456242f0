--------------------------- MODULE CentralDispatch ---------------------------
(***************************************************************************)
(* One rollout whose devices are reached through the central server        *)
(* (applyMode central): who sends, who asks for the outcome, who sends     *)
(* again.                                                                  *)
(*                                                                         *)
(* A release or a resume starts a loop that sends the Config to the        *)
(* targets one after the other (autoApplyConfig).  A poll, of which one    *)
(* runs at a time, asks the central server for the outcome of the commands *)
(* it is told of by the target rows, and then sends the targets whose      *)
(* retry is due again, in a loop of its own.  Loops and poll share nothing *)
(* but the rows; each of their steps up to an await is one action.         *)
(*                                                                         *)
(* A result is recorded in one step here: what overlaps inside it is the   *)
(* subject of RolloutResults.  Neither is the failure rate kept: a failure *)
(* with other targets pending may pause the rollout or not.                *)
(***************************************************************************)
EXTENDS Integers, Sequences, FiniteSets

CONSTANTS
  Devices,      \* the targets of the rollout
  Loops,        \* requests that release or resume it, served at the same time
  Poll,         \* the loop of the poll
  MaxAttempts,  \* settings.maxAttempts
  MaxCrashes,   \* bound on restarts of the backend
  MaxSwitches,  \* bound on how often autoRetry is switched
  Lossy,        \* whether an answer of the central server can be lost
  NoDevice      \* stands for no device

ASSUME PollIsNoRequest == Poll \notin Loops
ASSUME AttemptsArePositive == MaxAttempts \in Nat \ {0}
ASSUME BoundsAreNumbers == MaxCrashes \in Nat /\ MaxSwitches \in Nat
ASSUME NoDeviceIsNone == NoDevice \notin Devices
ASSUME LossyIsBoolean == Lossy \in BOOLEAN

VARIABLES
  rollout,    \* status of the rollout
  autoRetry,  \* the switch of its campaign
  target,     \* the target rows
  attempt,    \* the attempt rows of each target
  central,    \* the commands the central server accepted for each device
  loop,       \* the loops that send
  poll,       \* the poll
  listed,     \* the devices of the rollback of this rollout
  crashes, switches

vars == <<rollout, autoRetry, target, attempt, central, loop, poll, listed,
          crashes, switches>>

-----------------------------------------------------------------------------
(* State *)

\* a command that is not over yet, or how it ended; what is sent again makes no
\* difference to "refused" (a failure) and "superseded" (a skip)
Outcomes == {"open", "success", "failed", "skipped", "refused", "superseded"}

\* "resent" has its finishedAt and was marked sent afterwards
Finished == {"succeeded", "failed", "skipped", "resent"}
AttemptStatus == {"none", "sent"} \cup Finished

Workers == Loops \cup {Poll}

\* command is centralCommandId, 0 for null; retry is nextRetryAt: 0 for null, else
\* the number of the value among all it has had (sets), whose time is due or not
Target == [status : {"pending", "success", "failed", "skipped"},
           command : Nat, attempts : 1..MaxAttempts,
           retry : Nat, sets : Nat, due : BOOLEAN]

\* seen is attemptCount of the targets that the loop has read and not yet
\* served, 0 for the others; only is the target of a retry
Loop == [pc : {"idle", "read", "next", "push", "save", "decide", "record"},
         only : Devices \cup {NoDevice}, at : Devices \cup {NoDevice},
         seen : [Devices -> 0..MaxAttempts], retrying : BOOLEAN,
         failure : {"unavailable", "rejected"}, command : Nat]

\* value is the centralCommandId to ask about or the nextRetryAt to claim
Polling == [pc : {"idle", "ask", "decide", "due", "push", "record"},
            at : Devices \cup {NoDevice},
            seen : [Devices -> 0..MaxAttempts], value : [Devices -> Nat],
            claiming : BOOLEAN, retrying : BOOLEAN, outcome : Outcomes]

Nobody == [d \in Devices |-> 0]

IdleLoop == [pc |-> "idle", only |-> NoDevice, at |-> NoDevice, seen |-> Nobody,
             retrying |-> FALSE, failure |-> "rejected", command |-> 0]

IdlePoll == [pc |-> "idle", at |-> NoDevice, seen |-> Nobody, value |-> Nobody,
             claiming |-> FALSE, retrying |-> FALSE, outcome |-> "open"]

TypeOK ==
  /\ rollout \in {"approved", "active", "paused", "completed", "cancelled"}
  /\ autoRetry \in BOOLEAN
  /\ target \in [Devices -> Target]
  /\ attempt \in [Devices -> [1..MaxAttempts -> AttemptStatus]]
  /\ central \in [Devices -> Seq(Outcomes)]
  /\ loop \in [Workers -> Loop]
  /\ poll \in Polling
  /\ listed \subseteq Devices
  /\ crashes \in 0..MaxCrashes
  /\ switches \in 0..MaxSwitches

Init ==
  /\ rollout = "approved"
  /\ autoRetry \in BOOLEAN
  /\ target = [d \in Devices |-> [status |-> "pending", command |-> 0,
                                  attempts |-> 1, retry |-> 0, sets |-> 0, due |-> FALSE]]
  /\ attempt = [d \in Devices |-> [n \in 1..MaxAttempts |-> "none"]]
  /\ central = [d \in Devices |-> <<>>]
  /\ loop = [w \in Workers |-> IdleLoop]
  /\ poll = IdlePoll
  /\ listed = {}
  /\ crashes = 0
  /\ switches = 0

Pending == {d \in Devices : target[d].status = "pending"}

\* Wrong on purpose: does not look at nextRetryAt
UnsentOrLeased(only) ==
  {d \in Pending : target[d].command = 0 /\ (only = NoDevice \/ d = only)}

\* Wrong on purpose: does not look at centralCommandId
UnsentOrSent(only) ==
  {d \in Pending : IF only = NoDevice THEN target[d].retry = 0 ELSE d = only}

\* what findMany of a loop returns: targets that no command was saved for
\* and that wait for no retry, or the one target of a retry
Unsent(only) ==
  {d \in Pending : /\ target[d].command = 0
                   /\ IF only = NoDevice THEN target[d].retry = 0 ELSE d = only}

Seen(devices) == [d \in Devices |-> IF d \in devices THEN target[d].attempts ELSE 0]
Listed(worker) == {d \in Devices : worker.seen[d] # 0}

\* the highest attemptNo of a target, 0 if it has no attempt
Latest(d) ==
  LET made == {n \in 1..MaxAttempts : attempt[d][n] # "none"}
  IN  IF made = {} THEN 0 ELSE CHOOSE n \in made : \A k \in made : k <= n

Unfinished(d) == \E n \in 1..MaxAttempts : attempt[d][n] = "sent"

BeginAttempt(d, n) ==
  attempt' = IF attempt[d][n] = "none" THEN [attempt EXCEPT ![d][n] = "sent"] ELSE attempt

MarkSent(d, n) ==
  attempt' = IF attempt[d][n] \in Finished
             THEN [attempt EXCEPT ![d][n] = "resent"] ELSE attempt

CloseAttempt(d, n, status) == attempt' = [attempt EXCEPT ![d][n] = status]

\* a new nextRetryAt
WithRetry(row) == [row EXCEPT !.retry = row.sets + 1, !.sets = row.sets + 1, !.due = FALSE]
NoRetry(row) == [row EXCEPT !.retry = 0, !.due = FALSE]

\* Wrong on purpose: a claim that clears nextRetryAt
LeaseCleared(row) == NoRetry(row)

\* a claim sets nextRetryAt, in case nobody hears of it again
Lease(row) == WithRetry(row)

\* recordTargetResult: the first result of a target of an open rollout counts;
\* the last one completes the rollout, a failure before may pause it
Record(d, result) ==
  IF d \in Pending /\ rollout \in {"active", "paused"}
  THEN /\ target' = [target EXCEPT ![d].status = result]
       /\ rollout' \in IF Pending = {d} THEN {"completed"}
                       ELSE IF result = "failed" /\ rollout = "active"
                       THEN {"active", "paused"} ELSE {rollout}
  ELSE UNCHANGED <<target, rollout>>

\* markTargetSkippedOffline
Skip(d) ==
  IF d \in Pending
  THEN /\ target' = [target EXCEPT ![d].status = "skipped"]
       /\ rollout' = IF Pending = {d} /\ rollout = "active" THEN "completed" ELSE rollout
  ELSE UNCHANGED <<target, rollout>>

\* decideAfterFailure sends again what is worth it, as long as the rollout is
\* active and the attempt is the last one and not the last allowed
SendsAgain(d, seen, retryable) ==
  /\ retryable
  /\ rollout = "active"
  /\ seen < MaxAttempts
  /\ d \in Pending
  /\ target[d].attempts = seen

Schedule(d) == target' = [target EXCEPT ![d] = [WithRetry(@) EXCEPT !.command = 0]]

-----------------------------------------------------------------------------
(* The loop that sends: release, resume, autoApplyConfig, pushToCentral *)

Start(l, only) == loop' = [loop EXCEPT ![l] = [IdleLoop EXCEPT !.pc = "read", !.only = only]]
Goto(l, pc) == loop' = [loop EXCEPT ![l].pc = pc]

\* on to the next target
Continue(l) ==
  loop' = [loop EXCEPT ![l] = [@ EXCEPT !.pc = "next", !.seen[@.at] = 0, !.at = NoDevice]]

Release(l) ==
  /\ loop[l].pc = "idle"
  /\ rollout = "approved"
  /\ rollout' = "active"
  /\ Start(l, NoDevice)
  /\ UNCHANGED <<autoRetry, target, attempt, central, poll, listed, crashes, switches>>

Resume(l) ==
  /\ loop[l].pc = "idle"
  /\ rollout = "paused"
  /\ rollout' = "active"
  /\ Start(l, NoDevice)
  /\ UNCHANGED <<autoRetry, target, attempt, central, poll, listed, crashes, switches>>

ReadTargets(l) ==
  /\ loop[l].pc = "read"
  /\ loop' = [loop EXCEPT ![l].pc = "next", ![l].seen = Seen(Unsent(loop[l].only)),
                          ![l].retrying = autoRetry]
  /\ UNCHANGED <<rollout, autoRetry, target, attempt, central, poll, listed, crashes, switches>>

\* the loop goes on as long as the rollout is active
NextTarget(l) ==
  /\ loop[l].pc = "next"
  /\ IF rollout = "active" /\ Listed(loop[l]) # {}
     THEN \E d \in Listed(loop[l]) :
            loop' = [loop EXCEPT ![l].pc = "push", ![l].at = d]
     ELSE loop' = [loop EXCEPT ![l] = IdleLoop]
  /\ UNCHANGED <<rollout, autoRetry, target, attempt, central, poll, listed, crashes, switches>>

\* the Config or the device is not fit any more: no command, no retry
Refuse(l) ==
  /\ loop[l].pc = "push"
  /\ Record(loop[l].at, "failed")
  /\ Continue(l)
  /\ UNCHANGED <<autoRetry, attempt, central, poll, listed, crashes, switches>>

\* the attempt is noted and the central server accepts a command
Send(l) ==
  LET d == loop[l].at IN
  /\ loop[l].pc = "push"
  /\ IF loop[l].retrying THEN BeginAttempt(d, loop[l].seen[d]) ELSE UNCHANGED attempt
  /\ central' = [central EXCEPT ![d] = Append(@, "open")]
  /\ \/ loop' = [loop EXCEPT ![l].pc = "save", ![l].command = Len(central[d]) + 1]
     \/ /\ Lossy
        /\ loop' = [loop EXCEPT ![l].pc = "decide", ![l].failure = "unavailable"]
  /\ UNCHANGED <<rollout, autoRetry, target, poll, listed, crashes, switches>>

\* ... or does not
SendInVain(l) ==
  LET d == loop[l].at IN
  /\ loop[l].pc = "push"
  /\ IF loop[l].retrying THEN BeginAttempt(d, loop[l].seen[d]) ELSE UNCHANGED attempt
  /\ \E failure \in {"unavailable", "rejected"} :
       loop' = [loop EXCEPT ![l].pc = "decide", ![l].failure = failure]
  /\ UNCHANGED <<rollout, autoRetry, target, central, poll, listed, crashes, switches>>

\* the row gets the command, whatever it holds by now, and the lease of a retry ends
SaveCommand(l) ==
  LET d == loop[l].at IN
  /\ loop[l].pc = "save"
  /\ target' = [target EXCEPT ![d] = [NoRetry(@) EXCEPT !.command = loop[l].command]]
  /\ IF loop[l].retrying THEN MarkSent(d, loop[l].seen[d]) ELSE UNCHANGED attempt
  /\ loop' = [loop EXCEPT ![l] = [@ EXCEPT !.pc = "next", !.command = 0,
                                           !.seen[d] = 0, !.at = NoDevice]]
  /\ UNCHANGED <<rollout, autoRetry, central, poll, listed, crashes, switches>>

\* failCentralPush
DecideAfterPush(l) ==
  LET d == loop[l].at IN
  /\ loop[l].pc = "decide"
  /\ IF loop[l].retrying THEN CloseAttempt(d, loop[l].seen[d], "failed") ELSE UNCHANGED attempt
  /\ IF loop[l].retrying /\ SendsAgain(d, loop[l].seen[d], loop[l].failure = "unavailable")
     THEN Schedule(d) /\ Continue(l)
     ELSE Goto(l, "record") /\ UNCHANGED target
  /\ UNCHANGED <<rollout, autoRetry, central, poll, listed, crashes, switches>>

RecordAfterPush(l) ==
  /\ loop[l].pc = "record"
  /\ Record(loop[l].at, "failed")
  /\ Continue(l)
  /\ UNCHANGED <<autoRetry, attempt, central, poll, listed, crashes, switches>>

-----------------------------------------------------------------------------
(* The poll: CentralRolloutPollService.poll, then processDueRetries *)

Drop(d) == [poll EXCEPT !.seen[d] = 0, !.at = NoDevice]

PollStart ==
  /\ poll.pc = "idle"
  /\ LET sent == IF rollout \in {"active", "paused"}
                 THEN {d \in Pending : target[d].command # 0} ELSE {}
     IN  poll' = [poll EXCEPT !.pc = "ask", !.seen = Seen(sent), !.retrying = autoRetry,
                              !.value = [d \in Devices |-> IF d \in sent THEN target[d].command ELSE 0]]
  /\ UNCHANGED <<rollout, autoRetry, target, attempt, central, loop, listed, crashes, switches>>

\* the central server does not answer or the command is not over
PollLearnsNothing(d) ==
  /\ poll.pc = "ask"
  /\ d \in Listed(poll)
  /\ poll' = Drop(d)
  /\ UNCHANGED <<rollout, autoRetry, target, attempt, central, loop, listed, crashes, switches>>

\* Wrong on purpose: takes a command that is not over for a failure
PollLearnsOpen(d) ==
  LET outcome == central[d][poll.value[d]] IN
  /\ poll.pc = "ask"
  /\ d \in Listed(poll)
  /\ poll' = [poll EXCEPT !.at = d, !.outcome = outcome,
                          !.pc = IF outcome # "success" /\ poll.retrying
                                 THEN "decide" ELSE "record"]
  /\ UNCHANGED <<rollout, autoRetry, target, attempt, central, loop, listed, crashes, switches>>

PollLearns(d) ==
  LET outcome == central[d][poll.value[d]] IN
  /\ poll.pc = "ask"
  /\ d \in Listed(poll)
  /\ outcome # "open"
  /\ poll' = [poll EXCEPT !.at = d, !.outcome = outcome,
                          !.pc = IF outcome # "success" /\ poll.retrying
                                 THEN "decide" ELSE "record"]
  /\ UNCHANGED <<rollout, autoRetry, target, attempt, central, loop, listed, crashes, switches>>

Skipping == poll.outcome \in {"skipped", "superseded"}

DecideAfterOutcome ==
  LET d == poll.at IN
  /\ poll.pc = "decide"
  /\ CloseAttempt(d, poll.seen[d], IF Skipping THEN "skipped" ELSE "failed")
  /\ IF SendsAgain(d, poll.seen[d], poll.outcome \in {"failed", "skipped"})
     THEN Schedule(d) /\ poll' = [Drop(d) EXCEPT !.pc = "ask"]
     ELSE UNCHANGED target /\ poll' = [poll EXCEPT !.pc = "record"]
  /\ UNCHANGED <<rollout, autoRetry, central, loop, listed, crashes, switches>>

\* the result of an answer (value is a command) or of a claim that sends no more
RecordOutcome ==
  LET d == poll.at IN
  /\ poll.pc = "record"
  /\ IF poll.outcome = "success" /\ poll.retrying /\ Latest(d) # 0
         /\ attempt[d][Latest(d)] = "sent"
     THEN CloseAttempt(d, Latest(d), "succeeded") ELSE UNCHANGED attempt
  /\ IF Skipping THEN Skip(d)
     ELSE Record(d, IF poll.outcome = "success" THEN "success" ELSE "failed")
  /\ poll' = [Drop(d) EXCEPT !.pc = IF poll.claiming THEN "due" ELSE "ask"]
  /\ UNCHANGED <<autoRetry, central, loop, listed, crashes, switches>>

\* Wrong on purpose: only those of a campaign that retries no more
DueWhenOff(d) ==
  /\ target[d].command = 0
  /\ target[d].retry # 0
  /\ ~autoRetry /\ ~Unfinished(d)

\* retries whose time has come, and those of a campaign that retries no more
Due(d) ==
  /\ target[d].command = 0
  /\ target[d].retry # 0
  /\ \/ target[d].due
     \/ ~autoRetry /\ ~Unfinished(d)

FindDue ==
  /\ poll.pc = "ask"
  /\ Listed(poll) = {}
  /\ LET due == {d \in Pending : rollout = "active" /\ Due(d)}
     IN  poll' = [poll EXCEPT !.pc = "due", !.claiming = TRUE, !.seen = Seen(due), !.retrying = autoRetry,
                              !.value = [d \in Devices |-> IF d \in due THEN target[d].retry ELSE 0]]
  /\ UNCHANGED <<rollout, autoRetry, target, attempt, central, loop, listed, crashes, switches>>

\* the row is still the one that was read, and the rollout active
Claimable(d) ==
  /\ d \in Pending
  /\ target[d].command = 0
  /\ target[d].attempts = poll.seen[d]
  /\ target[d].retry = poll.value[d]
  /\ rollout = "active"

\* an attempt that was never finished is closed as failed
CloseStuck(d, n) ==
  IF Latest(d) # 0 /\ attempt[d][Latest(d)] = "sent"
  THEN [attempt EXCEPT ![d][n] = "failed"] ELSE attempt

\* claimOne: the attempts are used up or the campaign retries no more
ClaimToFinish(d) ==
  /\ poll.pc = "due"
  /\ d \in Listed(poll)
  /\ Claimable(d)
  /\ poll.seen[d] = MaxAttempts \/ ~poll.retrying
  /\ target' = [target EXCEPT ![d] = Lease(@)]
  /\ attempt' = CloseStuck(d, poll.seen[d])
  /\ poll' = [poll EXCEPT !.pc = "record", !.at = d,
                          !.outcome = IF Latest(d) # 0 /\ attempt[d][Latest(d)] = "skipped"
                                      THEN "skipped" ELSE "failed"]
  /\ UNCHANGED <<rollout, autoRetry, central, loop, listed, crashes, switches>>

\* claimOne: one more attempt
ClaimToSend(d) ==
  LET n == poll.seen[d] + 1 IN
  /\ poll.pc = "due"
  /\ d \in Listed(poll)
  /\ Claimable(d)
  /\ n <= MaxAttempts /\ poll.retrying
  /\ target' = [target EXCEPT ![d] = [Lease(@) EXCEPT !.attempts = n]]
  /\ attempt' = LET closed == CloseStuck(d, poll.seen[d])
                IN  IF closed[d][n] = "none" THEN [closed EXCEPT ![d][n] = "sent"] ELSE closed
  /\ poll' = [Drop(d) EXCEPT !.pc = "push"]
  /\ Start(Poll, d)
  /\ UNCHANGED <<rollout, autoRetry, central, listed, crashes, switches>>

ClaimNothing(d) ==
  /\ poll.pc = "due"
  /\ d \in Listed(poll)
  /\ ~Claimable(d)
  /\ poll' = Drop(d)
  /\ UNCHANGED <<rollout, autoRetry, target, attempt, central, loop, listed, crashes, switches>>

\* the loop of the retry is over
PollGoesOn ==
  /\ poll.pc = "push"
  /\ loop[Poll].pc = "idle"
  /\ poll' = [poll EXCEPT !.pc = "due"]
  /\ UNCHANGED <<rollout, autoRetry, target, attempt, central, loop, listed, crashes, switches>>

PollEnd ==
  /\ poll.pc = "due"
  /\ Listed(poll) = {}
  /\ poll' = IdlePoll
  /\ UNCHANGED <<rollout, autoRetry, target, attempt, central, loop, listed, crashes, switches>>

-----------------------------------------------------------------------------
(* The others *)

\* rollback, as far as it closes this rollout: the devices it lists for the
\* rollback have succeeded or fetched a job (pulledAt), which none has here
Cancel ==
  LET affected == {d \in Devices : target[d].status = "success"} IN
  /\ rollout \in {"active", "paused"}
  /\ affected # {}
  /\ listed' = affected
  /\ rollout' = "cancelled"
  /\ target' = [d \in Devices |-> IF d \in Pending
                                  THEN [target[d] EXCEPT !.status = "failed"] ELSE target[d]]
  /\ UNCHANGED <<autoRetry, attempt, central, loop, poll, crashes, switches>>

Switch ==
  /\ switches < MaxSwitches
  /\ switches' = switches + 1
  /\ autoRetry' = ~autoRetry
  /\ UNCHANGED <<rollout, target, attempt, central, loop, poll, listed, crashes>>

\* nextRetryAt comes
TimePasses(d) ==
  /\ target[d].retry # 0
  /\ ~target[d].due
  /\ target' = [target EXCEPT ![d].due = TRUE]
  /\ UNCHANGED <<rollout, autoRetry, attempt, central, loop, poll, listed, crashes, switches>>

\* the central server tells how a command ended
CommandEnds(d) ==
  /\ \E c \in DOMAIN central[d], outcome \in Outcomes \ {"open"} :
       /\ central[d][c] = "open"
       /\ central' = [central EXCEPT ![d][c] = outcome]
  /\ UNCHANGED <<rollout, autoRetry, target, attempt, loop, poll, listed, crashes, switches>>

\* only the database outlives the backend
Crash ==
  /\ crashes < MaxCrashes
  /\ crashes' = crashes + 1
  /\ loop' = [w \in Workers |-> IdleLoop]
  /\ poll' = IdlePoll
  /\ UNCHANGED <<rollout, autoRetry, target, attempt, central, listed, switches>>

LoopStep(l) ==
  ReadTargets(l) \/ NextTarget(l) \/ Refuse(l) \/ Send(l) \/ SendInVain(l)
    \/ SaveCommand(l) \/ DecideAfterPush(l) \/ RecordAfterPush(l)

PollStep ==
  \/ PollStart \/ DecideAfterOutcome \/ RecordOutcome \/ FindDue \/ PollGoesOn \/ PollEnd
  \/ \E d \in Devices : PollLearnsNothing(d) \/ PollLearns(d) \/ ClaimToFinish(d)
                          \/ ClaimToSend(d) \/ ClaimNothing(d)

Next ==
  \/ \E l \in Loops : Release(l) \/ Resume(l)
  \/ \E w \in Workers : LoopStep(w)
  \/ PollStep
  \/ Cancel \/ Switch \/ Crash
  \/ \E d \in Devices : TimePasses(d) \/ CommandEnds(d)

Spec == Init /\ [][Next]_vars

-----------------------------------------------------------------------------
(* Properties *)

HasOneHolder(d) ==
  Cardinality({w \in Workers : loop[w].at = d}) + (IF poll.at = d THEN 1 ELSE 0) <= 1

IsSentOncePerAttempt(d) == Len(central[d]) <= target[d].attempts + crashes

\* A target is in the hands of at most one request or poll at a time.  It is not:
\* two loops may serve it after a resume (DispatchHistory has what holds).
OneHolder == \A d \in Devices : HasOneHolder(d)

\* A device gets no more commands than its target has attempts, but for one per
\* restart of the backend.  With two loops it does.
SentOncePerAttempt == \A d \in Devices : IsSentOncePerAttempt(d)

\* The lease: whatever happens to the backend, a target that was sent again is
\* asked about or comes back to the poll until it has its result.
RetryNeverLost ==
  \A d \in Pending : target[d].attempts > 1 => target[d].command # 0 \/ target[d].retry # 0

\* A target of an active rollout has somebody who will send it, a command whose
\* outcome the poll asks for, or a retry.
NobodyForgotten ==
  rollout = "active" =>
    \A d \in Pending :
      \/ target[d].command # 0 \/ target[d].retry # 0
      \/ \E l \in Loops : loop[l].pc = "read" \/ loop[l].seen[d] # 0

\* A result other than success means that the device has no command of this rollout
\* left that it applied or may yet apply; a cancelled rollout is another matter.
\* Not so after a lost answer, a restart or with two loops (DispatchHistory).
FailedIsNotApplied ==
  rollout # "cancelled" =>
    \A d \in Devices : target[d].status \in {"failed", "skipped"} =>
      \A c \in DOMAIN central[d] : central[d][c] \notin {"open", "success"}

\* The rollback of a cancelled rollout lists every device that applied its
\* Config or may yet apply it.
RollbackListsCommanded ==
  rollout = "cancelled" =>
    \A d \in Devices : (\E c \in DOMAIN central[d] : central[d][c] \in {"open", "success"})
                         => d \in listed

\* Time, the box, the poll and the loops go on.  The central server answers now
\* and then (SF): otherwise nothing is ever known of a command.
Fairness ==
  /\ WF_vars(PollStep)
  /\ \A w \in Workers : WF_vars(LoopStep(w))
  /\ \A d \in Devices : /\ WF_vars(TimePasses(d))
                        /\ WF_vars(CommandEnds(d))
                        /\ SF_vars(PollLearns(d))

\* An active rollout does not wait for a target for ever: the target gets its
\* result, or the rollout is paused or cancelled.
Waits(d) == rollout = "active" /\ d \in Pending
TargetsGetResults == \A d \in Devices : Waits(d) ~> ~Waits(d)
=============================================================================
