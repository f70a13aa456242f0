------------------------- MODULE ConfigApplyRequests -------------------------
(***************************************************************************)
(* The requests of technicians to send a Config to one device, with the    *)
(* tasks of the device they belong to, the override a request may carry    *)
(* and the rollout of the system campaign that sends it.                   *)
(*                                                                         *)
(* A request is asked for in a task, approved by Operation (or born        *)
(* approved when it is direct), released by whoever holds the task into a  *)
(* rollout of one target, and ended by the result of that target, which    *)
(* reaches it as an event in memory.  Transactions are READ COMMITTED and  *)
(* are kept apart by three things: an advisory lock of the device (ask,    *)
(* release), the row lock of the task (approve, release, task updates) and *)
(* updates on the condition of the expected status.                        *)
(*                                                                         *)
(* What the code checks besides (role and separation of duty, Config still *)
(* applicable and of the approved version, task still for this device and  *)
(* Config, device online, no open target of an ordinary rollout, the       *)
(* database failing) can refuse a call at any of its steps: Refuse.        *)
(***************************************************************************)
EXTENDS Naturals

CONSTANTS
  Requests,    \* rows of ConfigApplyRequest, unused at first
  Tasks,       \* tasks of the device
  Users,       \* technicians
  Calls,       \* calls of the API served at the same time
  NoRequest, NoTask, NoUser,
  MaxUpdates,  \* bound on the updates of tasks
  MaxLosses    \* bound on restarts and lost events

ASSUME NoRequestIsFresh == NoRequest \notin Requests
ASSUME NoTaskIsFresh == NoTask \notin Tasks
ASSUME NoUserIsFresh == NoUser \notin Users
ASSUME BoundsAreNumbers == MaxUpdates \in Nat /\ MaxLosses \in Nat

VARIABLES
  task,      \* status and assignedTo of each task
  request,   \* the rows, each with the status of its override and of its target
  campaign,  \* whether the system campaign exists
  events,    \* FIELD_APPLY_RESULT_EVENT emitted and not handled yet
  call,      \* what each call is doing and what it has read
  updates, losses

vars == <<task, request, campaign, events, call, updates, losses>>
rows == <<task, request, campaign, events>>
counters == <<updates, losses>>

TaskStatus == {"pending", "in_progress", "completed", "cancelled"}
FinalForTechnicians == {"completed", "cancelled"}
Outcomes == {"succeeded", "failed"}  \* skipped_offline is a failure here
Cancellable == {"pending", "approved"}
Open == Cancellable \cup {"sending"}
Ended == Outcomes \cup {"rejected", "cancelled", "expired"}
Hows == {"plain", "direct", "override"}

\* decided: decidedBy is not null; target: of the rollout it was released into
Request == [status : {"none"} \cup Open \cup Ended,
            task : Tasks \cup {NoTask},
            requestedBy : Users \cup {NoUser},
            releasedBy : Users \cup {NoUser},
            decided : BOOLEAN,
            override : {"none", "pending", "approved", "rejected"},
            target : {"none", "pending"} \cup Outcomes]

Unused == [status |-> "none", task |-> NoTask, requestedBy |-> NoUser,
           releasedBy |-> NoUser, decided |-> FALSE, override |-> "none",
           target |-> "none"]

\* how: the status a task update sets
Call == [op : {"none", "ask", "approve", "release", "start", "report", "operate"},
         pc : {"idle", "begun", "device", "locked", "closing"},
         request : Requests \cup {NoRequest},
         task : Tasks \cup {NoTask},
         user : Users \cup {NoUser},
         how : {"none"} \cup TaskStatus,
         closes : SUBSET Requests]

Idle == [op |-> "none", pc |-> "idle", request |-> NoRequest, task |-> NoTask,
         user |-> NoUser, how |-> "none", closes |-> {}]

TypeOK ==
  /\ task \in [Tasks -> [status : TaskStatus, assignedTo : Users]]
  /\ request \in [Requests -> Request]
  /\ campaign \in BOOLEAN
  /\ events \subseteq Requests
  /\ call \in [Calls -> Call]
  /\ updates \in 0 .. MaxUpdates
  /\ losses \in 0 .. MaxLosses

Init ==
  /\ task \in [Tasks -> [status : {"pending"}, assignedTo : Users]]
  /\ request = [q \in Requests |-> Unused]
  /\ campaign = FALSE
  /\ events = {}
  /\ call = [c \in Calls |-> Idle]
  /\ updates = 0
  /\ losses = 0

(* Locks *)

HasDevice(c) == call[c].op \in {"ask", "release"} /\ call[c].pc \in {"device", "locked"}
HasTask(c, t) == call[c].task = t /\ call[c].pc \in {"locked", "closing"}

DeviceFree == \A c \in Calls : ~HasDevice(c)
TaskFree(t) == \A c \in Calls : ~HasTask(c, t)

\* A task update that closed the row in its transaction locks it
RowFree(q) == \A c \in Calls : q \notin call[c].closes

(* What the handlers check and do *)

NoOpenTarget == \A q \in Requests : request[q].target # "pending"

NoOpenRequest == \A q \in Requests : request[q].status \notin Open

WithOverrideClosed(r) ==
  IF r.override = "pending" THEN [r EXCEPT !.override = "rejected"] ELSE r

IsHeld(t, u) == task[t] = [status |-> "in_progress", assignedTo |-> u]

IsAt(c, op, pc) == call[c].op = op /\ call[c].pc = pc

Goes(c, pc) == call' = [call EXCEPT ![c].pc = pc]

Ends(c) == call' = [call EXCEPT ![c] = Idle]

Begins(c, op, pc, q, t, u, how) ==
  /\ call[c] = Idle
  /\ call' = [call EXCEPT ![c] = [op |-> op, pc |-> pc, request |-> q, task |-> t,
                                  user |-> u, how |-> how, closes |-> {}]]

(* Asking: the task is read before the transaction *)

BeginAsk(c, t, u) ==
  /\ IsHeld(t, u)
  /\ Begins(c, "ask", "begun", NoRequest, t, u, "none")
  /\ UNCHANGED <<rows, counters>>

\* Wrong on purpose: without the lock of the device
AskUnlocked(c) ==
  /\ IsAt(c, "ask", "begun")
  /\ NoOpenRequest
  /\ NoOpenTarget
  /\ Goes(c, "device")
  /\ UNCHANGED <<rows, counters>>

LockForAsk(c) ==
  /\ IsAt(c, "ask", "begun")
  /\ DeviceFree
  /\ NoOpenRequest
  /\ NoOpenTarget
  /\ Goes(c, "device")
  /\ UNCHANGED <<rows, counters>>

\* how: what was asked for
Asked(c, how) == [Unused EXCEPT !.status = IF how = "direct" THEN "approved" ELSE "pending",
                                !.task = call[c].task,
                                !.requestedBy = call[c].user,
                                !.override = IF how = "override" THEN "pending" ELSE "none"]

CommitAsk(c, q, how) ==
  /\ IsAt(c, "ask", "device")
  /\ request[q] = Unused
  /\ request' = [request EXCEPT ![q] = Asked(c, how)]
  /\ Ends(c)
  /\ UNCHANGED <<task, campaign, events, counters>>

(* Operation decides *)

\* assertStillApplicable: the task is in progress with the one who asked
LockForApprove(c, q) ==
  LET t == request[q].task IN
  /\ request[q].status = "pending"
  /\ TaskFree(t)
  /\ IsHeld(t, request[q].requestedBy)
  /\ NoOpenTarget
  /\ Begins(c, "approve", "locked", q, t, NoUser, "none")
  /\ UNCHANGED <<rows, counters>>

CommitApprove(c) ==
  LET q == call[c].request IN
  /\ IsAt(c, "approve", "locked")
  /\ RowFree(q)
  /\ request[q].status = "pending"
  /\ request[q].override \in {"none", "pending"}
  /\ request' = [request EXCEPT ![q].status = "approved",
                                ![q].decided = TRUE,
                                ![q].override = IF @ = "pending" THEN "approved" ELSE @]
  /\ Ends(c)
  /\ UNCHANGED <<task, campaign, events, counters>>

Reject(q) ==
  /\ request[q].status = "pending"
  /\ RowFree(q)
  /\ request' = [request EXCEPT ![q] = WithOverrideClosed([@ EXCEPT !.status = "rejected",
                                                                   !.decided = TRUE])]
  /\ UNCHANGED <<task, campaign, events, call, counters>>

(* Whoever holds the task releases or cancels *)

LockDeviceForRelease(c, q, u) ==
  /\ request[q].status = "approved"
  /\ task[request[q].task].assignedTo = u
  /\ DeviceFree
  /\ Begins(c, "release", "device", q, request[q].task, u, "none")
  /\ UNCHANGED <<rows, counters>>

\* Wrong on purpose: reads the task without locking it
ReleaseUnlocked(c) ==
  /\ IsAt(c, "release", "device")
  /\ IsHeld(call[c].task, call[c].user)
  /\ NoOpenTarget
  /\ Goes(c, "locked")
  /\ UNCHANGED <<rows, counters>>

\* assertReleasable: the task is in progress with the one who releases
LockTaskForRelease(c) ==
  /\ IsAt(c, "release", "device")
  /\ TaskFree(call[c].task)
  /\ IsHeld(call[c].task, call[c].user)
  /\ NoOpenTarget
  /\ Goes(c, "locked")
  /\ UNCHANGED <<rows, counters>>

\* The approver becomes createdBy of the system campaign when there is none yet;
\* that column is not nullable, and nobody approved a direct request
HasCampaignCreator(q) == campaign \/ request[q].decided

CommitRelease(c) ==
  LET q == call[c].request IN
  /\ IsAt(c, "release", "locked")
  /\ RowFree(q)
  /\ request[q].status = "approved"
  /\ HasCampaignCreator(q)
  /\ request' = [request EXCEPT ![q].status = "sending",
                                ![q].releasedBy = call[c].user,
                                ![q].target = "pending"]
  /\ campaign' = TRUE
  /\ Ends(c)
  /\ UNCHANGED <<task, events, counters>>

\* cancel: the override was approved with the request, so that what was read of the
\* request before the transaction does not matter
Cancel(q) ==
  /\ request[q].status \in Cancellable
  /\ RowFree(q)
  /\ request' = [request EXCEPT ![q] = WithOverrideClosed([@ EXCEPT !.status = "cancelled"])]
  /\ UNCHANGED <<task, campaign, events, call, counters>>

\* closeIfPayloadChanged, when a release finds the Config changed
CloseChanged(q) ==
  /\ request[q].status = "approved"
  /\ RowFree(q)
  /\ request' = [request EXCEPT ![q].status = "cancelled"]
  /\ UNCHANGED <<task, campaign, events, call, counters>>

\* Wrong on purpose: leaves the override behind
ExpireAlone(q) ==
  /\ request[q].status \in Cancellable
  /\ RowFree(q)
  /\ request' = [request EXCEPT ![q].status = "expired"]
  /\ UNCHANGED <<task, campaign, events, call, counters>>

\* expireOne, by the job or by a release that comes too late; how long a request waits
\* is not modelled
Expire(q) ==
  /\ request[q].status \in Cancellable
  /\ RowFree(q)
  /\ request' = [request EXCEPT ![q] = WithOverrideClosed([@ EXCEPT !.status = "expired"])]
  /\ UNCHANGED <<task, campaign, events, call, counters>>

(* The rollout of the request gets its result, and the request hears of it *)

\* Wrong on purpose: a result that is a failure is not announced
GetResultQuietly(q, outcome) ==
  /\ request[q].target = "pending"
  /\ request' = [request EXCEPT ![q].target = outcome]
  /\ events' = IF outcome = "succeeded" THEN events \cup {q} ELSE events
  /\ UNCHANGED <<task, campaign, call, counters>>

GetResult(q, outcome) ==
  /\ request[q].target = "pending"
  /\ request' = [request EXCEPT ![q].target = outcome]
  /\ events' = events \cup {q}
  /\ UNCHANGED <<task, campaign, call, counters>>

HearResult(q) ==
  /\ q \in events
  /\ events' = events \ {q}
  /\ request' = [request EXCEPT ![q].status = IF @ = "sending" THEN request[q].target ELSE @]
  /\ UNCHANGED <<task, campaign, call, counters>>

\* recordRolloutOutcome never throws: an update that fails is logged and that is all
FailToHear(q) ==
  /\ q \in events
  /\ losses < MaxLosses
  /\ events' = events \ {q}
  /\ losses' = losses + 1
  /\ UNCHANGED <<task, request, campaign, call, updates>>

(* Tasks *)

\* start by the technician who holds a task of the device that is not begun; the
\* status is read under a lock that the updates of the task do not take
BeginStart(c, t, u) ==
  /\ task[t] = [status |-> "pending", assignedTo |-> u]
  /\ Begins(c, "start", "begun", NoRequest, t, u, "in_progress")
  /\ UNCHANGED <<rows, counters>>

CommitStart(c) ==
  /\ IsAt(c, "start", "begun")
  /\ TaskFree(call[c].task)
  /\ task' = [task EXCEPT ![call[c].task].status = "in_progress"]
  /\ Ends(c)
  /\ UNCHANGED <<request, campaign, events, counters>>

\* update: a technician reports the status of a task that is not over, Operation sets any
\* status (and the job that closes idle tasks completes them)
MayUpdate(op, t, u, status) ==
  \/ /\ op = "report"
     /\ status \in {"in_progress", "completed"}
     /\ task[t].assignedTo = u
     /\ task[t].status \notin FinalForTechnicians
  \/ op = "operate" /\ u = NoUser

EndsTask(t, status) == status \in FinalForTechnicians /\ task[t].status # status

IsSending(t) == \E q \in Requests : request[q].task = t /\ request[q].status = "sending"

WaitingIn(t) == {q \in Requests : request[q].task = t /\ request[q].status \in Cancellable}

\* lockTask, assertNoSendingRequest when the task is completed, and the first statement
\* of cancelPendingConfigApplyRequests, which closes its requests
LockForUpdate(c, t, op, u, status) ==
  /\ updates < MaxUpdates
  /\ MayUpdate(op, t, u, status)
  /\ TaskFree(t)
  /\ status = "completed" /\ EndsTask(t, status) => ~IsSending(t)
  /\ call[c] = Idle
  /\ call' = [call EXCEPT ![c] = [op |-> op, pc |-> "closing", request |-> NoRequest,
                                  task |-> t, user |-> u, how |-> status,
                                  closes |-> IF EndsTask(t, status) THEN WaitingIn(t) ELSE {}]]
  /\ updates' = updates + 1
  /\ UNCHANGED <<rows, losses>>

\* The second statement closes the overrides of all requests of the task
ClosedByTask(c, q) ==
  LET row == IF q \in call[c].closes THEN [request[q] EXCEPT !.status = "cancelled"]
             ELSE request[q]
  IN IF row.task = call[c].task /\ EndsTask(row.task, call[c].how)
     THEN WithOverrideClosed(row) ELSE row

CommitUpdate(c) ==
  /\ call[c].pc = "closing"
  /\ task' = [task EXCEPT ![call[c].task].status = call[c].how]
  /\ request' = [q \in Requests |-> ClosedByTask(c, q)]
  /\ Ends(c)
  /\ UNCHANGED <<campaign, events, counters>>

\* update by Operation that only hands the task to somebody else
Reassign(t, u) ==
  /\ updates < MaxUpdates
  /\ TaskFree(t)
  /\ u # task[t].assignedTo
  /\ task' = [task EXCEPT ![t].assignedTo = u]
  /\ updates' = updates + 1
  /\ UNCHANGED <<request, campaign, events, call, losses>>

(* Calls that end without effect, and restarts *)

Refuse(c) ==
  /\ call[c] # Idle
  /\ Ends(c)
  /\ UNCHANGED <<rows, counters>>

\* Transactions are rolled back, events are forgotten
Restart ==
  /\ losses < MaxLosses
  /\ losses' = losses + 1
  /\ events' = {}
  /\ call' = [c \in Calls |-> Idle]
  /\ UNCHANGED <<task, request, campaign, updates>>

Ask(c) ==
  \/ \E t \in Tasks, u \in Users : BeginAsk(c, t, u)
  \/ LockForAsk(c)
  \/ \E q \in Requests, how \in Hows : CommitAsk(c, q, how)

Approve(c) ==
  \/ \E q \in Requests : LockForApprove(c, q)
  \/ CommitApprove(c)

Release(c) ==
  \/ \E q \in Requests, u \in Users : LockDeviceForRelease(c, q, u)
  \/ LockTaskForRelease(c)
  \/ CommitRelease(c)

UpdateTask(c) ==
  \/ \E t \in Tasks, u \in Users : BeginStart(c, t, u)
  \/ CommitStart(c)
  \/ \E t \in Tasks, op \in {"report", "operate"}, u \in Users \cup {NoUser},
        status \in TaskStatus : LockForUpdate(c, t, op, u, status)
  \/ CommitUpdate(c)

Close(q) == Reject(q) \/ Cancel(q) \/ CloseChanged(q) \/ Expire(q)

Result(q) == HearResult(q) \/ \E outcome \in Outcomes : GetResult(q, outcome)

Next ==
  \/ \E c \in Calls : Ask(c) \/ Approve(c) \/ Release(c) \/ UpdateTask(c) \/ Refuse(c)
  \/ \E q \in Requests : Close(q) \/ Result(q) \/ FailToHear(q)
  \/ \E t \in Tasks, u \in Users : Reassign(t, u)
  \/ Restart

Spec == Init /\ [][Next]_vars

\* The job expires what waits too long, every rollout gives its target a result, events
\* are handled and calls end
Fairness ==
  /\ \A q \in Requests : WF_vars(Expire(q)) /\ WF_vars(Result(q))
  /\ \A c \in Calls : WF_vars(Refuse(c))

FairSpec == Spec /\ Fairness

(* What must hold *)

\* One request of a device is open at a time, whatever tasks the requests are made in
OneOpenRequest ==
  \A p, q \in Requests : request[p].status \in Open /\ request[q].status \in Open => p = q

\* A task is not completed while a request of it is being sent: its result would come
\* back to a task nobody looks at
CompletedWaitsForNone ==
  \A q \in Requests :
    request[q].status = "sending" => task[request[q].task].status # "completed"

\* The override of a request waits only while the request does, and what is ready to be
\* sent, or was sent, carries no override that was not approved
OverrideFollowsRequest ==
  \A q \in Requests :
    /\ request[q].override = "pending" => request[q].status = "pending"
    /\ request[q].status \in {"approved", "sending"} \cup Outcomes =>
         request[q].override \in {"none", "approved"}

\* The request tells what became of its rollout: a result it shows is that of its
\* target, and one that is there is on its way to a request that is still being sent,
\* unless a restart or a failed update took the event
ResultComesBack ==
  \A q \in Requests :
    /\ request[q].status \in Outcomes => request[q].status = request[q].target
    /\ losses = 0 /\ request[q].status = "sending" /\ request[q].target \in Outcomes
         => q \in events

\* At the moment a request is approved its task is in progress with whoever asked, and at
\* the moment it is released with whoever releases it, although both were checked before
CheckedAtCommit ==
  [][\A q \in Requests :
       LET before == request[q].status
           after == request'[q].status
           t == request[q].task IN
       /\ before = "pending" /\ after = "approved" => IsHeld(t, request[q].requestedBy)
       /\ before = "approved" /\ after = "sending" => IsHeld(t, request'[q].releasedBy)]_vars

(* What is said of the code and does not hold *)

\* A request that is being sent gets the result of its rollout
SendingEnds ==
  \A q \in Requests : request[q].status = "sending" ~> request[q].status # "sending"

\* A release that passed all its checks goes through
CheckedReleaseCommits ==
  \A c \in Calls :
    IsAt(c, "release", "locked") /\ request[call[c].request].status = "approved" =>
      ENABLED CommitRelease(c)

\* Whoever completes or cancels a task closes its requests that are not being sent
EndedTaskHasNoneWaiting ==
  \A q \in Requests :
    request[q].status \in Cancellable =>
      task[request[q].task].status \notin FinalForTechnicians

\* A technician does not bring a task back that was completed or cancelled
EndedForTechnicians ==
  [][\A t \in Tasks :
       task[t].status \in FinalForTechnicians /\ task'[t].status # task[t].status =>
         \E c \in Calls : call[c].op = "operate" /\ call[c].task = t]_vars
=============================================================================
