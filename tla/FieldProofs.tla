----------------------------- MODULE FieldProofs -----------------------------
(* Proofs about what technicians do in the field: ConfigApplyRequests (the      *)
(* server's side, for any requests, tasks, users and calls) and OfflineSync     *)
(* (the phone's side, for any technicians, tasks, changes and mishaps).         *)
EXTENDS ConfigApplyRequests, OfflineSync, SequenceTheorems, TLAPS

-----------------------------------------------------------------------------
(* Field apply requests: the inductive invariant *)

DeviceOp(k) == k.op \in {"ask", "release"} /\ k.pc \in {"device", "locked"}
TaskOp(k, t) == k.task = t /\ k.pc \in {"locked", "closing"}

\* what is locked once
LocksExclude ==
  \A c, d \in Calls : c # d =>
    /\ DeviceOp(call[c]) => ~DeviceOp(call[d])
    /\ \A t \in Tasks : TaskOp(call[c], t) => ~TaskOp(call[d], t)

\* a request that was made belongs to a task and to a technician, and has no target
\* before it is sent
RowOK(row) ==
  /\ row.status # "none" => row.task \in Tasks /\ row.requestedBy \in Users
  /\ row.status \in {"none"} \cup Cancellable => row.target = "none"

RowsOK ==
  /\ \A q \in Requests : RowOK(request[q])
  /\ \A q \in events : request[q].target \in Outcomes

\* a call is where its operation can be, and about something that exists
CallOK(k) ==
  /\ k.pc = "begun" => k.op \in {"ask", "start"}
  /\ k.pc = "device" => k.op \in {"ask", "release"}
  /\ k.pc = "locked" => k.op \in {"approve", "release"}
  /\ k.pc = "closing" => k.op \in {"report", "operate"} /\ k.how \in TaskStatus
  /\ k.pc # "idle" => k.task \in Tasks
  /\ k.op \in {"ask", "release"} => k.user \in Users
  /\ k.op \in {"approve", "release"} =>
       /\ k.pc \in {"device", "locked"}
       /\ k.request \in Requests
       /\ request[k.request].status # "none"
       /\ request[k.request].task = k.task

\* what the locks of a call keep true
KnowsOK(k) ==
  /\ k.op = "ask" /\ k.pc = "device" => NoOpenRequest
  /\ k.op = "approve" => IsHeld(k.task, request[k.request].requestedBy)
  /\ k.op = "release" /\ k.pc = "locked" => IsHeld(k.task, k.user)
  /\ k.pc = "closing" /\ k.how = "completed" => ~IsSending(k.task)

\* what a call has cancelled and not committed
ClosesOK(k) ==
  /\ k.closes # {} => k.pc = "closing" /\ EndsTask(k.task, k.how)
  /\ \A q \in k.closes : request[q].task = k.task /\ request[q].status \in Cancellable

CallsOK == \A c \in Calls : CallOK(call[c]) /\ KnowsOK(call[c]) /\ ClosesOK(call[c])

IInv ==
  /\ TypeOK
  /\ LocksExclude
  /\ RowsOK
  /\ CallsOK
  /\ OneOpenRequest
  /\ CompletedWaitsForNone
  /\ OverrideFollowsRequest

LEMMA IdleIsFine ==
  /\ Idle \in Call
  /\ Idle.op = "none" /\ Idle.pc = "idle" /\ Idle.closes = {}
  /\ CallOK(Idle) /\ KnowsOK(Idle) /\ ClosesOK(Idle)
<1>1. /\ Idle \in Call
      /\ Idle.op = "none" /\ Idle.pc = "idle" /\ Idle.closes = {}
  BY DEF Idle, Call
<1> QED
  BY <1>1 DEF CallOK, KnowsOK, ClosesOK

LEMMA UnusedIsFine ==
  /\ Unused \in Request
  /\ Unused.status = "none" /\ Unused.override = "none" /\ Unused.target = "none"
BY DEF Unused, Request, Open, Cancellable

LEMMA InitInv == Init => IInv
<1> SUFFICES ASSUME Init PROVE IInv
  OBVIOUS
<1>1. \A q \in Requests : request[q] = Unused
  BY DEF Init
<1>2. \A c \in Calls : call[c] = Idle
  BY DEF Init
<1>3. TypeOK
  <2>1. [status : {"pending"}, assignedTo : Users] \subseteq [status : TaskStatus, assignedTo : Users]
    BY DEF TaskStatus
  <2>2. task \in [Tasks -> [status : TaskStatus, assignedTo : Users]]
    BY <2>1 DEF Init
  <2>3. 0 \in 0 .. MaxUpdates /\ 0 \in 0 .. MaxLosses
    BY BoundsAreNumbers
  <2> QED
    BY <2>2, <2>3, IdleIsFine, UnusedIsFine DEF Init, TypeOK
<1>4. LocksExclude /\ CallsOK
  BY <1>2, IdleIsFine DEF LocksExclude, DeviceOp, TaskOp, CallsOK
<1>5. RowsOK /\ OneOpenRequest /\ CompletedWaitsForNone /\ OverrideFollowsRequest
  BY <1>1, UnusedIsFine
  DEF Init, RowsOK, RowOK, OneOpenRequest, CompletedWaitsForNone, OverrideFollowsRequest, Open, Cancellable,
      Outcomes
<1> QED
  BY <1>3, <1>4, <1>5 DEF IInv

-----------------------------------------------------------------------------
(* Steps that only change the record of one call *)

\* They keep the invariant if what the new record says is right and its locks are free
LEMMA CallStep ==
  ASSUME IInv, NEW c \in Calls, NEW new \in Call,
         call' = [call EXCEPT ![c] = new], UNCHANGED rows,
         updates' \in 0 .. MaxUpdates, losses' \in 0 .. MaxLosses,
         CallOK(new), KnowsOK(new), ClosesOK(new),
         DeviceOp(new) => \A d \in Calls \ {c} : ~DeviceOp(call[d]),
         \A t \in Tasks : TaskOp(new, t) => \A d \in Calls \ {c} : ~TaskOp(call[d], t)
  PROVE  IInv'
<1>1. \A d \in Calls : call'[d] = IF d = c THEN new ELSE call[d]
  BY DEF IInv, TypeOK
<1>2. TypeOK'
  BY DEF IInv, TypeOK, rows
<1>3. LocksExclude'
  BY <1>1 DEF IInv, LocksExclude
<1>4. RowsOK' /\ OneOpenRequest' /\ CompletedWaitsForNone' /\ OverrideFollowsRequest'
  BY DEF IInv, rows, RowsOK, RowOK, OneOpenRequest, CompletedWaitsForNone, OverrideFollowsRequest
<1>5. CallsOK'
  <2> SUFFICES ASSUME NEW d \in Calls
               PROVE  (CallOK(call[d]) /\ KnowsOK(call[d]) /\ ClosesOK(call[d]))'
    BY DEF CallsOK
  <2>1. CallOK(call'[d]) /\ KnowsOK(call'[d]) /\ ClosesOK(call'[d])
    BY <1>1 DEF IInv, CallsOK
  <2> QED
    BY <2>1
    DEF rows, CallOK, KnowsOK, ClosesOK, NoOpenRequest, IsHeld, IsSending, EndsTask
<1> QED
  BY <1>2, <1>3, <1>4, <1>5 DEF IInv

\* A call that ends leaves the invariant alone
LEMMA EndStep ==
  ASSUME IInv, NEW c \in Calls, Ends(c), UNCHANGED rows, UNCHANGED counters
  PROVE  IInv'
<1>1. call' = [call EXCEPT ![c] = Idle]
  BY DEF Ends
<1>2. updates' \in 0 .. MaxUpdates /\ losses' \in 0 .. MaxLosses
  BY DEF IInv, TypeOK, counters
<1>3. ~DeviceOp(Idle) /\ \A t \in Tasks : ~TaskOp(Idle, t)
  BY IdleIsFine DEF DeviceOp, TaskOp
<1> QED
  BY <1>1, <1>2, <1>3, IdleIsFine, CallStep

LEMMA BeginAskInv ==
  ASSUME IInv, NEW c \in Calls, NEW t \in Tasks, NEW u \in Users, BeginAsk(c, t, u)
  PROVE  IInv'
<1> DEFINE new == [op |-> "ask", pc |-> "begun", request |-> NoRequest, task |-> t,
                   user |-> u, how |-> "none", closes |-> {}]
<1>1. new \in Call /\ call' = [call EXCEPT ![c] = new]
  BY DEF Call, BeginAsk, Begins
<1>2. CallOK(new) /\ KnowsOK(new) /\ ClosesOK(new)
  BY DEF CallOK, KnowsOK, ClosesOK
<1>3. ~DeviceOp(new) /\ \A s \in Tasks : ~TaskOp(new, s)
  BY DEF DeviceOp, TaskOp
<1>4. UNCHANGED rows /\ updates' \in 0 .. MaxUpdates /\ losses' \in 0 .. MaxLosses
  BY DEF IInv, TypeOK, BeginAsk, rows, counters
<1> QED
  BY <1>1, <1>2, <1>3, <1>4, CallStep

LEMMA BeginStartInv ==
  ASSUME IInv, NEW c \in Calls, NEW t \in Tasks, NEW u \in Users, BeginStart(c, t, u)
  PROVE  IInv'
<1> DEFINE new == [op |-> "start", pc |-> "begun", request |-> NoRequest, task |-> t,
                   user |-> u, how |-> "in_progress", closes |-> {}]
<1>1. new \in Call /\ call' = [call EXCEPT ![c] = new]
  BY DEF Call, BeginStart, Begins, TaskStatus
<1>2. CallOK(new) /\ KnowsOK(new) /\ ClosesOK(new)
  BY DEF CallOK, KnowsOK, ClosesOK
<1>3. ~DeviceOp(new) /\ \A s \in Tasks : ~TaskOp(new, s)
  BY DEF DeviceOp, TaskOp
<1>4. UNCHANGED rows /\ updates' \in 0 .. MaxUpdates /\ losses' \in 0 .. MaxLosses
  BY DEF IInv, TypeOK, BeginStart, rows, counters
<1> QED
  BY <1>1, <1>2, <1>3, <1>4, CallStep

LEMMA LockForAskInv ==
  ASSUME IInv, NEW c \in Calls, LockForAsk(c)
  PROVE  IInv'
<1> DEFINE new == [call[c] EXCEPT !.pc = "device"]
<1>1. /\ call[c] \in Call /\ call[c].op = "ask" /\ call[c].pc = "begun"
      /\ CallOK(call[c]) /\ ClosesOK(call[c])
  BY DEF IInv, TypeOK, CallsOK, LockForAsk, IsAt
<1>2. /\ new \in Call /\ new.op = "ask" /\ new.pc = "device" /\ new.task = call[c].task
      /\ new.user = call[c].user /\ new.closes = call[c].closes
  BY <1>1 DEF Call
<1>3. call' = [call EXCEPT ![c] = new]
  BY <1>1 DEF LockForAsk, Goes, IInv, TypeOK
<1>4. CallOK(new) /\ KnowsOK(new) /\ ClosesOK(new)
  BY <1>1, <1>2 DEF CallOK, KnowsOK, ClosesOK, LockForAsk
<1>5. /\ \A d \in Calls \ {c} : ~DeviceOp(call[d])
      /\ \A s \in Tasks : ~TaskOp(new, s)
  BY <1>2 DEF DeviceOp, TaskOp, LockForAsk, DeviceFree, HasDevice
<1>6. UNCHANGED rows /\ updates' \in 0 .. MaxUpdates /\ losses' \in 0 .. MaxLosses
  BY DEF IInv, TypeOK, LockForAsk, rows, counters
<1> HIDE DEF new
<1> QED
  BY <1>2, <1>3, <1>4, <1>5, <1>6, CallStep

LEMMA LockForApproveInv ==
  ASSUME IInv, NEW c \in Calls, NEW q \in Requests, LockForApprove(c, q)
  PROVE  IInv'
<1> DEFINE t == request[q].task
           new == [op |-> "approve", pc |-> "locked", request |-> q, task |-> t,
                   user |-> NoUser, how |-> "none", closes |-> {}]
<1>1. t \in Tasks /\ request[q].status = "pending"
  BY DEF IInv, RowsOK, RowOK, LockForApprove
<1>2. new \in Call /\ call' = [call EXCEPT ![c] = new]
  BY <1>1 DEF Call, LockForApprove, Begins
<1>3. CallOK(new) /\ KnowsOK(new) /\ ClosesOK(new)
  BY <1>1 DEF CallOK, KnowsOK, ClosesOK, LockForApprove
<1>4. /\ ~DeviceOp(new)
      /\ \A s \in Tasks : TaskOp(new, s) => \A d \in Calls \ {c} : ~TaskOp(call[d], s)
  BY DEF DeviceOp, TaskOp, LockForApprove, TaskFree, HasTask
<1>5. UNCHANGED rows /\ updates' \in 0 .. MaxUpdates /\ losses' \in 0 .. MaxLosses
  BY DEF IInv, TypeOK, LockForApprove, rows, counters
<1> HIDE DEF new
<1> QED
  BY <1>2, <1>3, <1>4, <1>5, CallStep

LEMMA LockDeviceForReleaseInv ==
  ASSUME IInv, NEW c \in Calls, NEW q \in Requests, NEW u \in Users,
         LockDeviceForRelease(c, q, u)
  PROVE  IInv'
<1> DEFINE t == request[q].task
           new == [op |-> "release", pc |-> "device", request |-> q, task |-> t,
                   user |-> u, how |-> "none", closes |-> {}]
<1>1. t \in Tasks /\ request[q].status = "approved"
  BY DEF IInv, RowsOK, RowOK, LockDeviceForRelease
<1>2. new \in Call /\ call' = [call EXCEPT ![c] = new]
  BY <1>1 DEF Call, LockDeviceForRelease, Begins
<1>3. CallOK(new) /\ KnowsOK(new) /\ ClosesOK(new)
  BY <1>1 DEF CallOK, KnowsOK, ClosesOK
<1>4. /\ \A d \in Calls \ {c} : ~DeviceOp(call[d])
      /\ \A s \in Tasks : ~TaskOp(new, s)
  BY DEF DeviceOp, TaskOp, LockDeviceForRelease, DeviceFree, HasDevice
<1>5. UNCHANGED rows /\ updates' \in 0 .. MaxUpdates /\ losses' \in 0 .. MaxLosses
  BY DEF IInv, TypeOK, LockDeviceForRelease, rows, counters
<1> HIDE DEF new
<1> QED
  BY <1>2, <1>3, <1>4, <1>5, CallStep

LEMMA LockTaskForReleaseInv ==
  ASSUME IInv, NEW c \in Calls, LockTaskForRelease(c)
  PROVE  IInv'
<1> DEFINE new == [call[c] EXCEPT !.pc = "locked"]
<1>1. /\ call[c] \in Call /\ call[c].op = "release" /\ call[c].pc = "device"
      /\ CallOK(call[c]) /\ ClosesOK(call[c])
  BY DEF IInv, TypeOK, CallsOK, LockTaskForRelease, IsAt
<1>2. /\ new \in Call /\ new.op = "release" /\ new.pc = "locked" /\ new.task = call[c].task
      /\ new.user = call[c].user /\ new.closes = call[c].closes /\ new.request = call[c].request
  BY <1>1 DEF Call
<1>3. call' = [call EXCEPT ![c] = new]
  BY <1>1 DEF LockTaskForRelease, Goes, IInv, TypeOK
<1>4. CallOK(new) /\ KnowsOK(new) /\ ClosesOK(new)
  BY <1>1, <1>2 DEF CallOK, KnowsOK, ClosesOK, LockTaskForRelease
<1>5. \A d \in Calls \ {c} : ~DeviceOp(call[d])
  BY <1>1 DEF IInv, LocksExclude, DeviceOp
<1>6. \A s \in Tasks : TaskOp(new, s) => \A d \in Calls \ {c} : ~TaskOp(call[d], s)
  BY <1>2 DEF TaskOp, LockTaskForRelease, TaskFree, HasTask
<1>7. UNCHANGED rows /\ updates' \in 0 .. MaxUpdates /\ losses' \in 0 .. MaxLosses
  BY DEF IInv, TypeOK, LockTaskForRelease, rows, counters
<1> HIDE DEF new
<1> QED
  BY <1>2, <1>3, <1>4, <1>5, <1>6, <1>7, CallStep

LEMMA LockForUpdateInv ==
  ASSUME IInv, NEW c \in Calls, NEW t \in Tasks, NEW op \in {"report", "operate"},
         NEW u \in Users \cup {NoUser}, NEW status \in TaskStatus,
         LockForUpdate(c, t, op, u, status)
  PROVE  IInv'
<1> DEFINE closes == IF EndsTask(t, status) THEN WaitingIn(t) ELSE {}
           new == [op |-> op, pc |-> "closing", request |-> NoRequest, task |-> t,
                   user |-> u, how |-> status, closes |-> closes]
<1>1. closes \subseteq Requests
  BY DEF WaitingIn
<1>2. new \in Call /\ call' = [call EXCEPT ![c] = new]
  BY <1>1 DEF Call, LockForUpdate
<1>3. CallOK(new) /\ ClosesOK(new)
  BY DEF CallOK, ClosesOK, WaitingIn
<1>4. KnowsOK(new)
  <2>1. status = "completed" => ~IsSending(t)
    <3>1. CASE task[t].status = "completed"
      BY <3>1 DEF IInv, CompletedWaitsForNone, IsSending
    <3>2. CASE task[t].status # "completed"
      BY <3>2 DEF LockForUpdate, EndsTask, FinalForTechnicians
    <3> QED
      BY <3>1, <3>2
  <2> QED
    BY <2>1 DEF KnowsOK
<1>5. /\ ~DeviceOp(new)
      /\ \A s \in Tasks : TaskOp(new, s) => \A d \in Calls \ {c} : ~TaskOp(call[d], s)
  BY DEF DeviceOp, TaskOp, LockForUpdate, TaskFree, HasTask
<1>6. UNCHANGED rows /\ updates' \in 0 .. MaxUpdates /\ losses' \in 0 .. MaxLosses
  BY BoundsAreNumbers DEF IInv, TypeOK, LockForUpdate, rows
<1> HIDE DEF new
<1> QED
  BY <1>2, <1>3, <1>4, <1>5, <1>6, CallStep

LEMMA RestartInv ==
  ASSUME IInv, Restart
  PROVE  IInv'
<1>1. \A c \in Calls : call'[c] = Idle
  BY DEF Restart
<1>2. TypeOK'
  BY IdleIsFine, BoundsAreNumbers DEF IInv, TypeOK, Restart
<1>3. LocksExclude'
  BY <1>1, IdleIsFine DEF LocksExclude, DeviceOp, TaskOp
<1>4. RowsOK' /\ OneOpenRequest' /\ CompletedWaitsForNone' /\ OverrideFollowsRequest'
  BY DEF IInv, Restart, RowsOK, RowOK, OneOpenRequest, CompletedWaitsForNone, OverrideFollowsRequest
<1>5. CallsOK'
  BY <1>1, IdleIsFine DEF CallsOK, CallOK, KnowsOK, ClosesOK
<1> QED
  BY <1>2, <1>3, <1>4, <1>5 DEF IInv

-----------------------------------------------------------------------------
(* Steps that change one request *)

OverrideOK(row) ==
  /\ row.override = "pending" => row.status = "pending"
  /\ row.status \in {"approved", "sending"} \cup Outcomes => row.override \in {"none", "approved"}

\* A request that stays as it was or ends, and is in nobody's transaction
LEMMA RowStep ==
  ASSUME IInv, NEW q \in Requests, NEW new \in Request,
         request' = [request EXCEPT ![q] = new], UNCHANGED <<task, campaign, call, updates>>,
         losses' \in 0 .. MaxLosses, events' \subseteq events \cup {q},
         request[q].status # "none",
         new.task = request[q].task, new.requestedBy = request[q].requestedBy,
         \/ new.status = request[q].status
         \/ new.status \in Ended /\ \A c \in Calls : q \notin call[c].closes,
         OverrideOK(new), RowOK(new), q \in events' => new.target \in Outcomes
  PROVE  IInv'
<1>1. \A p \in Requests : request'[p] = IF p = q THEN new ELSE request[p]
  BY DEF IInv, TypeOK
<1>2. TypeOK'
  BY DEF IInv, TypeOK
<1>3. LocksExclude'
  BY DEF IInv, LocksExclude
<1>4. new.status \in Open => request[q].status = new.status
  BY DEF Ended, Open, Cancellable, Outcomes
<1>5. RowsOK'
  BY <1>1 DEF IInv, TypeOK, RowsOK, RowOK
<1>6. OneOpenRequest'
  BY <1>1, <1>4 DEF IInv, OneOpenRequest
<1>7. CompletedWaitsForNone'
  BY <1>1, <1>4 DEF IInv, CompletedWaitsForNone, Open
<1>8. OverrideFollowsRequest'
  BY <1>1 DEF IInv, OverrideFollowsRequest, OverrideOK
<1>9. CallsOK'
  <2> SUFFICES ASSUME NEW d \in Calls
               PROVE  (CallOK(call[d]) /\ KnowsOK(call[d]) /\ ClosesOK(call[d]))'
    BY DEF CallsOK
  <2>1. call'[d] = call[d] /\ CallOK(call[d]) /\ KnowsOK(call[d]) /\ ClosesOK(call[d])
    BY DEF IInv, CallsOK
  <2>2. new.status # "none"
    BY DEF Ended, Outcomes
  <2>3. CallOK(call[d])'
    BY <1>1, <2>1, <2>2 DEF CallOK
  <2>4. \A t \in Tasks : ~IsSending(t) => ~IsSending(t)'
    BY <1>1, <1>4 DEF IsSending, Open
  <2>5. NoOpenRequest => NoOpenRequest'
    BY <1>1, <1>4 DEF NoOpenRequest
  <2>6. KnowsOK(call[d])'
    BY <1>1, <2>1, <2>4, <2>5 DEF KnowsOK, CallOK, IsHeld
  <2>7. ClosesOK(call[d])'
    <3>1. \A p \in call[d].closes : p \in Requests
      BY DEF IInv, TypeOK, Call
    <3>2. \A p \in call[d].closes : request'[p].task = request[p].task
                                   /\ request'[p].status = request[p].status
      BY <1>1, <3>1
    <3> QED
      BY <2>1, <3>2 DEF ClosesOK, EndsTask
  <2> QED
    BY <2>3, <2>6, <2>7
<1> QED
  BY <1>2, <1>3, <1>5, <1>6, <1>7, <1>8, <1>9 DEF IInv

LEMMA WithOverrideClosedIsFine ==
  ASSUME NEW row \in Request
  PROVE  /\ WithOverrideClosed(row) \in Request
         /\ WithOverrideClosed(row).status = row.status
         /\ WithOverrideClosed(row).task = row.task
         /\ WithOverrideClosed(row).requestedBy = row.requestedBy
         /\ WithOverrideClosed(row).target = row.target
         /\ WithOverrideClosed(row).override =
              IF row.override = "pending" THEN "rejected" ELSE row.override
BY DEF WithOverrideClosed, Request

\* Withdrawn, rejected or expired, with its override
LEMMA ClosedStep ==
  ASSUME IInv, NEW q \in Requests, NEW row \in Request, request[q].status \in Cancellable,
         RowFree(q), request' = [request EXCEPT ![q] = WithOverrideClosed(row)],
         row.status \in {"rejected", "cancelled", "expired"}, row.task = request[q].task,
         row.requestedBy = request[q].requestedBy, row.target = request[q].target,
         UNCHANGED <<task, campaign, events, call, counters>>
  PROVE  IInv'
<1> DEFINE new == WithOverrideClosed(row)
<1>1. /\ new \in Request /\ new.status = row.status /\ new.task = request[q].task
      /\ new.requestedBy = request[q].requestedBy /\ new.target = request[q].target
      /\ new.override # "pending"
  BY WithOverrideClosedIsFine
<1>2. request[q].status # "none" /\ new.status \in Ended
  BY <1>1 DEF Cancellable, Ended
<1>3. OverrideOK(new)
  BY <1>1 DEF OverrideOK, Outcomes
<1>4. RowOK(new)
  BY <1>1, <1>2 DEF IInv, RowsOK, RowOK, Cancellable
<1>5. q \in events' => new.target \in Outcomes
  BY <1>1 DEF IInv, RowsOK
<1>6. losses' \in 0 .. MaxLosses /\ UNCHANGED updates
  BY DEF IInv, TypeOK, counters
<1> HIDE DEF new
<1> QED
  BY <1>1, <1>2, <1>3, <1>4, <1>5, <1>6, RowStep DEF RowFree, new

LEMMA CloseInv ==
  ASSUME IInv, NEW q \in Requests, Close(q)
  PROVE  IInv'
<1>1. request[q] \in Request
  BY DEF IInv, TypeOK
<1>2. CASE Reject(q)
  <2> DEFINE row == [request[q] EXCEPT !.status = "rejected", !.decided = TRUE]
  <2>1. /\ row \in Request /\ row.status = "rejected" /\ row.task = request[q].task
        /\ row.requestedBy = request[q].requestedBy /\ row.target = request[q].target
    BY <1>1 DEF Request, Ended
  <2>2. request' = [request EXCEPT ![q] = WithOverrideClosed(row)]
    BY <1>2 DEF Reject, IInv, TypeOK
  <2> HIDE DEF row
  <2> QED
    BY <1>2, <2>1, <2>2, ClosedStep DEF Reject, Cancellable
<1>3. CASE Cancel(q)
  <2> DEFINE row == [request[q] EXCEPT !.status = "cancelled"]
  <2>1. /\ row \in Request /\ row.status = "cancelled" /\ row.task = request[q].task
        /\ row.requestedBy = request[q].requestedBy /\ row.target = request[q].target
    BY <1>1 DEF Request, Ended
  <2>2. request' = [request EXCEPT ![q] = WithOverrideClosed(row)]
    BY <1>3 DEF Cancel, IInv, TypeOK
  <2> HIDE DEF row
  <2> QED
    BY <1>3, <2>1, <2>2, ClosedStep DEF Cancel
<1>4. CASE Expire(q)
  <2> DEFINE row == [request[q] EXCEPT !.status = "expired"]
  <2>1. /\ row \in Request /\ row.status = "expired" /\ row.task = request[q].task
        /\ row.requestedBy = request[q].requestedBy /\ row.target = request[q].target
    BY <1>1 DEF Request, Ended
  <2>2. request' = [request EXCEPT ![q] = WithOverrideClosed(row)]
    BY <1>4 DEF Expire, IInv, TypeOK
  <2> HIDE DEF row
  <2> QED
    BY <1>4, <2>1, <2>2, ClosedStep DEF Expire
<1>5. CASE CloseChanged(q)
  <2> DEFINE row == [request[q] EXCEPT !.status = "cancelled"]
  <2>1. /\ row \in Request /\ row.status = "cancelled" /\ row.task = request[q].task
        /\ row.requestedBy = request[q].requestedBy /\ row.target = request[q].target
        /\ row.override = request[q].override
    BY <1>1 DEF Request, Ended
  <2>2. WithOverrideClosed(row) = row
    BY <1>5, <2>1 DEF CloseChanged, WithOverrideClosed, IInv, OverrideFollowsRequest
  <2>3. request' = [request EXCEPT ![q] = WithOverrideClosed(row)]
    BY <1>5, <2>2 DEF CloseChanged, IInv, TypeOK
  <2> HIDE DEF row
  <2> QED
    BY <1>5, <2>1, <2>3, ClosedStep DEF CloseChanged, Cancellable
<1> QED
  BY <1>2, <1>3, <1>4, <1>5 DEF Close

LEMMA GetResultInv ==
  ASSUME IInv, NEW q \in Requests, NEW outcome \in Outcomes, GetResult(q, outcome)
  PROVE  IInv'
<1> DEFINE new == [request[q] EXCEPT !.target = outcome]
<1>1. request[q] \in Request /\ RowOK(request[q]) /\ OverrideOK(request[q])
  BY DEF IInv, TypeOK, RowsOK, OverrideFollowsRequest, OverrideOK
<1>2. /\ new \in Request /\ new.status = request[q].status /\ new.task = request[q].task
      /\ new.requestedBy = request[q].requestedBy /\ new.target = outcome
      /\ new.override = request[q].override
  BY <1>1 DEF Request
<1>3. request[q].status \notin {"none"} \cup Cancellable
  BY <1>1 DEF RowOK, GetResult
<1>4. OverrideOK(new) /\ RowOK(new)
  BY <1>1, <1>2, <1>3 DEF OverrideOK, RowOK
<1>5. request' = [request EXCEPT ![q] = new]
  BY DEF GetResult, IInv, TypeOK
<1>6. /\ UNCHANGED <<task, campaign, call, updates>> /\ events' \subseteq events \cup {q}
      /\ losses' \in 0 .. MaxLosses
  BY DEF GetResult, IInv, TypeOK, counters
<1> HIDE DEF new
<1> QED
  BY <1>2, <1>3, <1>4, <1>5, <1>6, RowStep

LEMMA HearResultInv ==
  ASSUME IInv, NEW q \in Requests, HearResult(q)
  PROVE  IInv'
<1> DEFINE new == [request[q] EXCEPT !.status = IF @ = "sending" THEN request[q].target ELSE @]
<1>1. request[q] \in Request /\ RowOK(request[q]) /\ OverrideOK(request[q])
  BY DEF IInv, TypeOK, RowsOK, OverrideFollowsRequest, OverrideOK
<1>2. request[q].target \in Outcomes
  BY DEF IInv, RowsOK, HearResult
<1>3. /\ new \in Request /\ new.task = request[q].task
      /\ new.requestedBy = request[q].requestedBy /\ new.target = request[q].target
      /\ new.override = request[q].override
      /\ new.status = IF request[q].status = "sending" THEN request[q].target
                      ELSE request[q].status
  BY <1>1, <1>2 DEF Request, Ended
<1>4. request[q].status \notin {"none"} \cup Cancellable
  BY <1>1, <1>2 DEF RowOK, Outcomes
<1>5. OverrideOK(new) /\ RowOK(new)
  BY <1>1, <1>2, <1>3, <1>4 DEF OverrideOK, RowOK, Outcomes, Cancellable
<1>6. \/ new.status = request[q].status
      \/ new.status \in Ended /\ \A c \in Calls : q \notin call[c].closes
  BY <1>2, <1>3, <1>4 DEF IInv, CallsOK, ClosesOK, Ended
<1>7. request' = [request EXCEPT ![q] = new]
  BY DEF HearResult, IInv, TypeOK
<1>8. /\ UNCHANGED <<task, campaign, call, updates>> /\ events' \subseteq events \cup {q}
      /\ losses' \in 0 .. MaxLosses /\ q \notin events'
  BY DEF HearResult, IInv, TypeOK, counters
<1> HIDE DEF new
<1> QED
  BY <1>3, <1>4, <1>5, <1>6, <1>7, <1>8, RowStep

LEMMA FailToHearInv ==
  ASSUME IInv, NEW q \in Requests, FailToHear(q)
  PROVE  IInv'
<1>1. request[q] \in Request /\ RowOK(request[q]) /\ OverrideOK(request[q])
  BY DEF IInv, TypeOK, RowsOK, OverrideFollowsRequest, OverrideOK
<1>2. request[q].target \in Outcomes
  BY DEF IInv, RowsOK, FailToHear
<1>3. request[q].status # "none"
  BY <1>1, <1>2 DEF RowOK, Outcomes
<1>4. request' = [request EXCEPT ![q] = request[q]]
  BY DEF FailToHear, IInv, TypeOK
<1>5. /\ UNCHANGED <<task, campaign, call, updates>> /\ events' \subseteq events \cup {q}
      /\ losses' \in 0 .. MaxLosses
  BY BoundsAreNumbers DEF FailToHear, IInv, TypeOK
<1> QED
  BY <1>1, <1>2, <1>3, <1>4, <1>5, RowStep

-----------------------------------------------------------------------------
(* Commits of asks, approvals and releases *)

\* The one open request of the device is made, or goes on
LEMMA CommitStep ==
  ASSUME IInv, NEW c \in Calls, NEW q \in Requests, NEW new \in Request,
         request' = [request EXCEPT ![q] = new], Ends(c),
         UNCHANGED <<task, events, counters>>, campaign' \in BOOLEAN,
         \A d \in Calls \ {c} : q \notin call[d].closes,
         new.status \in Open, OverrideOK(new), RowOK(new), request[q].target \notin Outcomes,
         \/ request[q].status = "none"
         \/ new.task = request[q].task /\ new.requestedBy = request[q].requestedBy,
         \A p \in Requests \ {q} : request[p].status \notin Open,
         \A d \in Calls \ {c} : ~(call[d].op = "ask" /\ call[d].pc = "device"),
         new.status = "sending" =>
           /\ task[new.task].status # "completed"
           /\ \A d \in Calls \ {c} : ~TaskOp(call[d], new.task)
  PROVE  IInv'
<1>1. \A p \in Requests : request'[p] = IF p = q THEN new ELSE request[p]
  BY DEF IInv, TypeOK
<1>2. \A d \in Calls : call'[d] = IF d = c THEN Idle ELSE call[d]
  BY DEF IInv, TypeOK, Ends
<1>3. TypeOK'
  BY IdleIsFine DEF IInv, TypeOK, Ends, counters
<1>4. LocksExclude'
  BY <1>2, IdleIsFine DEF IInv, LocksExclude, DeviceOp, TaskOp
<1>5. RowsOK'
  BY <1>1 DEF IInv, TypeOK, RowsOK, RowOK
<1>6. OneOpenRequest'
  BY <1>1 DEF OneOpenRequest
<1>7. CompletedWaitsForNone'
  BY <1>1 DEF IInv, CompletedWaitsForNone
<1>8. OverrideFollowsRequest'
  BY <1>1 DEF IInv, OverrideFollowsRequest, OverrideOK
<1>9. CallsOK'
  <2> SUFFICES ASSUME NEW d \in Calls
               PROVE  (CallOK(call[d]) /\ KnowsOK(call[d]) /\ ClosesOK(call[d]))'
    BY DEF CallsOK
  <2>1. CASE d = c
    BY <1>2, <2>1, IdleIsFine DEF CallOK, KnowsOK, ClosesOK
  <2>2. CASE d # c
    <3>1. call'[d] = call[d] /\ CallOK(call[d]) /\ KnowsOK(call[d]) /\ ClosesOK(call[d])
      BY <1>2, <2>2 DEF IInv, CallsOK
    <3>2. new.status # "none"
      BY DEF Open, Cancellable
    <3>3. CallOK(call[d])'
      BY <1>1, <3>1, <3>2 DEF CallOK
    <3>4. call[d].pc = "closing" /\ ~IsSending(call[d].task) => ~IsSending(call[d].task)'
      BY <1>1, <2>2, <3>1 DEF IsSending, TaskOp
    <3>5. KnowsOK(call[d])'
      BY <1>1, <2>2, <3>1, <3>4 DEF KnowsOK, CallOK, IsHeld
    <3>6. ClosesOK(call[d])'
      <4>1. \A p \in call[d].closes : p \in Requests
        BY DEF IInv, TypeOK, Call
      <4>2. \A p \in call[d].closes : request'[p] = request[p]
        BY <1>1, <2>2, <4>1
      <4> QED
        BY <3>1, <4>2 DEF ClosesOK, EndsTask
    <3> QED
      BY <3>3, <3>5, <3>6
  <2> QED
    BY <2>1, <2>2
<1> QED
  BY <1>3, <1>4, <1>5, <1>6, <1>7, <1>8, <1>9 DEF IInv

LEMMA CommitAskInv ==
  ASSUME IInv, NEW c \in Calls, NEW q \in Requests, NEW how \in Hows, CommitAsk(c, q, how)
  PROVE  IInv'
<1> DEFINE new == Asked(c, how)
<1>1. /\ call[c] \in Call /\ call[c].op = "ask" /\ call[c].pc = "device"
      /\ call[c].task \in Tasks /\ call[c].user \in Users /\ NoOpenRequest
  BY DEF IInv, TypeOK, CallsOK, CallOK, KnowsOK, CommitAsk, IsAt
<1>2. /\ new \in Request /\ new.status \in Cancellable /\ new.task = call[c].task
      /\ new.requestedBy = call[c].user /\ new.target = "none"
      /\ new.override \in {"none", "pending"}
      /\ new.override = "pending" => new.status = "pending"
  BY <1>1 DEF Asked, Unused, Request, Open, Cancellable, Hows
<1>3. OverrideOK(new) /\ RowOK(new) /\ new.status \in Open /\ new.status # "sending"
  BY <1>1, <1>2 DEF OverrideOK, RowOK, Open, Cancellable, Outcomes
<1>4. request[q].status = "none" /\ request[q].target \notin Outcomes
  BY UnusedIsFine DEF CommitAsk, Outcomes
<1>5. \A d \in Calls \ {c} : q \notin call[d].closes
  BY <1>4 DEF IInv, CallsOK, ClosesOK, Cancellable
<1>6. \A d \in Calls \ {c} : ~(call[d].op = "ask" /\ call[d].pc = "device")
  BY <1>1 DEF IInv, LocksExclude, DeviceOp
<1>7. \A p \in Requests \ {q} : request[p].status \notin Open
  BY <1>1 DEF NoOpenRequest
<1>8. /\ request' = [request EXCEPT ![q] = new] /\ Ends(c)
      /\ UNCHANGED <<task, events, counters>> /\ campaign' \in BOOLEAN
  BY DEF CommitAsk, IInv, TypeOK
<1> HIDE DEF new
<1> QED
  BY <1>2, <1>3, <1>4, <1>5, <1>6, <1>7, <1>8, CommitStep

LEMMA CommitApproveInv ==
  ASSUME IInv, NEW c \in Calls, CommitApprove(c)
  PROVE  IInv'
<1> DEFINE q == call[c].request
           new == [request[q] EXCEPT !.status = "approved", !.decided = TRUE,
                                     !.override = IF @ = "pending" THEN "approved" ELSE @]
<1>1. /\ q \in Requests /\ request[q].status = "pending"
      /\ request[q].override \in {"none", "pending"}
  BY DEF IInv, CallsOK, CallOK, CommitApprove, IsAt
<1>2. request[q] \in Request /\ RowOK(request[q])
  BY <1>1 DEF IInv, TypeOK, RowsOK
<1>3. /\ new \in Request /\ new.status = "approved" /\ new.task = request[q].task
      /\ new.requestedBy = request[q].requestedBy /\ new.target = request[q].target
      /\ new.override \in {"none", "approved"}
  BY <1>1, <1>2 DEF Request, Open, Cancellable
<1>4. OverrideOK(new) /\ RowOK(new) /\ new.status \in Open /\ request[q].target \notin Outcomes
  BY <1>1, <1>2, <1>3 DEF OverrideOK, RowOK, Open, Cancellable, Outcomes
<1>5. request[q].status \in Open
  BY <1>1 DEF Open, Cancellable
<1>6. \A p \in Requests \ {q} : request[p].status \notin Open
  BY <1>1, <1>5 DEF IInv, OneOpenRequest
<1>7. \A d \in Calls \ {c} : ~(call[d].op = "ask" /\ call[d].pc = "device")
  BY <1>1, <1>5 DEF IInv, CallsOK, KnowsOK, NoOpenRequest
<1>8. \A d \in Calls \ {c} : q \notin call[d].closes
  BY DEF CommitApprove, RowFree
<1>9. /\ request' = [request EXCEPT ![q] = new] /\ Ends(c)
      /\ UNCHANGED <<task, events, counters>> /\ campaign' \in BOOLEAN
  BY <1>1 DEF CommitApprove, IInv, TypeOK
<1> HIDE DEF new
<1> QED
  BY <1>1, <1>3, <1>4, <1>6, <1>7, <1>8, <1>9, CommitStep

LEMMA CommitReleaseInv ==
  ASSUME IInv, NEW c \in Calls, CommitRelease(c)
  PROVE  IInv'
<1> DEFINE q == call[c].request
           new == [request[q] EXCEPT !.status = "sending", !.releasedBy = call[c].user,
                                     !.target = "pending"]
<1>1. /\ q \in Requests /\ request[q].status = "approved" /\ call[c].user \in Users
      /\ request[q].task = call[c].task /\ call[c].task \in Tasks
      /\ IsHeld(call[c].task, call[c].user) /\ TaskOp(call[c], call[c].task)
  BY DEF IInv, CallsOK, CallOK, KnowsOK, CommitRelease, IsAt, TaskOp
<1>2. request[q] \in Request /\ RowOK(request[q]) /\ OverrideOK(request[q])
  BY <1>1 DEF IInv, TypeOK, RowsOK, OverrideFollowsRequest, OverrideOK
<1>3. /\ new \in Request /\ new.status = "sending" /\ new.task = request[q].task
      /\ new.requestedBy = request[q].requestedBy /\ new.override = request[q].override
  BY <1>1, <1>2 DEF Request, Open
<1>4. OverrideOK(new) /\ RowOK(new) /\ new.status \in Open /\ request[q].target \notin Outcomes
  BY <1>1, <1>2, <1>3 DEF OverrideOK, RowOK, Open, Cancellable, Outcomes
<1>5. request[q].status \in Open
  BY <1>1 DEF Open, Cancellable
<1>6. \A p \in Requests \ {q} : request[p].status \notin Open
  BY <1>1, <1>5 DEF IInv, OneOpenRequest
<1>7. \A d \in Calls \ {c} : ~(call[d].op = "ask" /\ call[d].pc = "device")
  BY <1>1, <1>5 DEF IInv, CallsOK, KnowsOK, NoOpenRequest
<1>8. \A d \in Calls \ {c} : q \notin call[d].closes
  BY DEF CommitRelease, RowFree
<1>9. /\ task[new.task].status # "completed"
      /\ \A d \in Calls \ {c} : ~TaskOp(call[d], new.task)
  BY <1>1, <1>3 DEF IsHeld, IInv, LocksExclude
<1>10. /\ request' = [request EXCEPT ![q] = new] /\ Ends(c)
       /\ UNCHANGED <<task, events, counters>> /\ campaign' \in BOOLEAN
  BY <1>1 DEF CommitRelease, IInv, TypeOK
<1> HIDE DEF new
<1> QED
  BY <1>1, <1>3, <1>4, <1>6, <1>7, <1>8, <1>9, <1>10, CommitStep

-----------------------------------------------------------------------------
(* Tasks *)

\* A task that nobody has locked changes hands or is begun
LEMMA TaskStep ==
  ASSUME IInv, NEW t \in Tasks, NEW new \in [status : TaskStatus, assignedTo : Users],
         task' = [task EXCEPT ![t] = new], new.status \in {"in_progress", task[t].status},
         UNCHANGED <<request, campaign, events, losses>>, updates' \in 0 .. MaxUpdates,
         call' \in [Calls -> Call],
         \A d \in Calls : call'[d] \in {call[d], Idle} /\ ~TaskOp(call[d], t)
  PROVE  IInv'
<1>1. \A u \in Tasks : task'[u] = IF u = t THEN new ELSE task[u]
  BY DEF IInv, TypeOK
<1>2. TypeOK'
  BY DEF IInv, TypeOK
<1>3. LocksExclude'
  BY IdleIsFine DEF IInv, LocksExclude, DeviceOp, TaskOp
<1>4. RowsOK' /\ OneOpenRequest' /\ OverrideFollowsRequest'
  BY DEF IInv, RowsOK, RowOK, OneOpenRequest, OverrideFollowsRequest
<1>5. CompletedWaitsForNone'
  <2> SUFFICES ASSUME NEW q \in Requests, request[q].status = "sending"
               PROVE  task'[request[q].task].status # "completed"
    BY DEF CompletedWaitsForNone
  <2>1. request[q].task \in Tasks /\ task[request[q].task].status # "completed"
    BY DEF IInv, RowsOK, RowOK, CompletedWaitsForNone
  <2> QED
    BY <1>1, <2>1
<1>6. CallsOK'
  <2> SUFFICES ASSUME NEW d \in Calls
               PROVE  (CallOK(call[d]) /\ KnowsOK(call[d]) /\ ClosesOK(call[d]))'
    BY DEF CallsOK
  <2>1. CASE call'[d] = Idle
    BY <2>1, IdleIsFine DEF CallOK, KnowsOK, ClosesOK
  <2>2. CASE call'[d] = call[d]
    <3>1. CallOK(call[d]) /\ KnowsOK(call[d]) /\ ClosesOK(call[d])
      BY DEF IInv, CallsOK
    <3>2. CallOK(call[d])'
      BY <2>2, <3>1 DEF CallOK
    <3>3. call[d].pc \in {"locked", "closing"} =>
            call[d].task \in Tasks /\ task'[call[d].task] = task[call[d].task]
      BY <1>1, <3>1 DEF TaskOp, CallOK
    <3>4. call[d].op = "approve" => call[d].pc = "locked"
      BY <3>1 DEF CallOK
    <3>5. KnowsOK(call[d])'
      BY <2>2, <3>1, <3>3, <3>4 DEF KnowsOK, NoOpenRequest, IsHeld, IsSending
    <3>6. ClosesOK(call[d])'
      BY <2>2, <3>1, <3>3 DEF ClosesOK, EndsTask
    <3> QED
      BY <3>2, <3>5, <3>6
  <2> QED
    BY <2>1, <2>2
<1> QED
  BY <1>2, <1>3, <1>4, <1>5, <1>6 DEF IInv

LEMMA CommitStartInv ==
  ASSUME IInv, NEW c \in Calls, CommitStart(c)
  PROVE  IInv'
<1> DEFINE t == call[c].task
           new == [task[t] EXCEPT !.status = "in_progress"]
<1>1. t \in Tasks /\ call[c].pc = "begun"
  BY DEF IInv, CallsOK, CallOK, CommitStart, IsAt
<1>2. task[t] \in [status : TaskStatus, assignedTo : Users]
  BY <1>1 DEF IInv, TypeOK
<1>3. new \in [status : TaskStatus, assignedTo : Users] /\ new.status = "in_progress"
  BY <1>2 DEF TaskStatus
<1>4. task' = [task EXCEPT ![t] = new]
  BY <1>1 DEF CommitStart, IInv, TypeOK
<1>5. call' \in [Calls -> Call] /\ \A d \in Calls : call'[d] \in {call[d], Idle}
  BY IdleIsFine DEF CommitStart, Ends, IInv, TypeOK
<1>6. \A d \in Calls : ~TaskOp(call[d], t)
  BY DEF CommitStart, TaskFree, HasTask, TaskOp
<1>7. UNCHANGED <<request, campaign, events, losses>> /\ updates' \in 0 .. MaxUpdates
  BY DEF CommitStart, IInv, TypeOK, counters
<1> HIDE DEF new
<1> QED
  BY <1>1, <1>3, <1>4, <1>5, <1>6, <1>7, TaskStep

LEMMA ReassignInv ==
  ASSUME IInv, NEW t \in Tasks, NEW u \in Users, Reassign(t, u)
  PROVE  IInv'
<1> DEFINE new == [task[t] EXCEPT !.assignedTo = u]
<1>1. task[t] \in [status : TaskStatus, assignedTo : Users]
  BY DEF IInv, TypeOK
<1>2. new \in [status : TaskStatus, assignedTo : Users] /\ new.status = task[t].status
  BY <1>1
<1>3. task' = [task EXCEPT ![t] = new]
  BY DEF Reassign, IInv, TypeOK
<1>4. call' \in [Calls -> Call] /\ \A d \in Calls : call'[d] \in {call[d], Idle}
  BY DEF Reassign, IInv, TypeOK
<1>5. \A d \in Calls : ~TaskOp(call[d], t)
  BY DEF Reassign, TaskFree, HasTask, TaskOp
<1>6. UNCHANGED <<request, campaign, events, losses>> /\ updates' \in 0 .. MaxUpdates
  BY BoundsAreNumbers DEF Reassign, IInv, TypeOK
<1> HIDE DEF new
<1> QED
  BY <1>2, <1>3, <1>4, <1>5, <1>6, TaskStep

LEMMA ClosedByTaskIsFine ==
  ASSUME IInv, NEW c \in Calls, call[c].pc = "closing", NEW q \in Requests
  PROVE  /\ ClosedByTask(c, q) \in Request
         /\ ClosedByTask(c, q).task = request[q].task
         /\ ClosedByTask(c, q).requestedBy = request[q].requestedBy
         /\ ClosedByTask(c, q).target = request[q].target
         /\ ClosedByTask(c, q).status =
              IF q \in call[c].closes THEN "cancelled" ELSE request[q].status
         /\ OverrideOK(ClosedByTask(c, q))
         /\ request[q].task # call[c].task => ClosedByTask(c, q) = request[q]
<1> DEFINE row == IF q \in call[c].closes THEN [request[q] EXCEPT !.status = "cancelled"]
                  ELSE request[q]
           ends == row.task = call[c].task /\ EndsTask(row.task, call[c].how)
<1>1. request[q] \in Request /\ OverrideOK(request[q]) /\ ClosesOK(call[c])
  BY DEF IInv, TypeOK, OverrideFollowsRequest, OverrideOK, CallsOK
<1>2. /\ row \in Request /\ row.task = request[q].task /\ row.target = request[q].target
      /\ row.requestedBy = request[q].requestedBy /\ row.override = request[q].override
      /\ row.status = IF q \in call[c].closes THEN "cancelled" ELSE request[q].status
  BY <1>1 DEF Request, Ended
<1>3. q \in call[c].closes => ends
  BY <1>1, <1>2 DEF ClosesOK
<1>4. ClosedByTask(c, q) = IF ends THEN WithOverrideClosed(row) ELSE row
  BY DEF ClosedByTask
<1> HIDE DEF row
<1>5. /\ WithOverrideClosed(row) \in Request
      /\ WithOverrideClosed(row).status = row.status
      /\ WithOverrideClosed(row).task = row.task
      /\ WithOverrideClosed(row).requestedBy = row.requestedBy
      /\ WithOverrideClosed(row).target = row.target
      /\ WithOverrideClosed(row).override =
           IF row.override = "pending" THEN "rejected" ELSE row.override
  BY <1>2, WithOverrideClosedIsFine
<1>6. OverrideOK(WithOverrideClosed(row))
  BY <1>1, <1>2, <1>5 DEF OverrideOK, Outcomes
<1>7. CASE ends
  BY <1>2, <1>4, <1>5, <1>6, <1>7
<1>8. CASE ~ends
  <2>1. q \notin call[c].closes /\ row = request[q]
    BY <1>3, <1>8 DEF row
  <2> QED
    BY <1>1, <1>2, <1>4, <1>8, <2>1
<1> QED
  BY <1>7, <1>8

LEMMA CommitUpdateInv ==
  ASSUME IInv, NEW c \in Calls, CommitUpdate(c)
  PROVE  IInv'
<1> DEFINE t == call[c].task
           new == [task[t] EXCEPT !.status = call[c].how]
<1>1. /\ call[c].pc = "closing" /\ t \in Tasks /\ call[c].how \in TaskStatus
      /\ KnowsOK(call[c]) /\ TaskOp(call[c], t)
  BY DEF IInv, CallsOK, CallOK, CommitUpdate, TaskOp
<1>2. \A d \in Calls : call'[d] = IF d = c THEN Idle ELSE call[d]
  BY DEF IInv, TypeOK, CommitUpdate, Ends
<1>3. \A d \in Calls \ {c} : ~TaskOp(call[d], t)
  BY <1>1 DEF IInv, LocksExclude
<1>4. \A q \in Requests : request'[q] = ClosedByTask(c, q)
  BY DEF CommitUpdate
<1>5. \A q \in Requests :
        /\ request'[q] \in Request
        /\ request'[q].task = request[q].task
        /\ request'[q].requestedBy = request[q].requestedBy
        /\ request'[q].target = request[q].target
        /\ request'[q].status = IF q \in call[c].closes THEN "cancelled" ELSE request[q].status
        /\ OverrideOK(request'[q])
        /\ request[q].task # t => request'[q] = request[q]
  BY <1>1, <1>4, ClosedByTaskIsFine
<1>6. \A q \in call[c].closes : request[q].status \in Cancellable
  BY DEF IInv, CallsOK, ClosesOK
<1>7. /\ task' = [task EXCEPT ![t] = new]
      /\ \A u \in Tasks : task'[u] = IF u = t THEN new ELSE task[u]
      /\ new \in [status : TaskStatus, assignedTo : Users] /\ new.status = call[c].how
  BY <1>1 DEF CommitUpdate, IInv, TypeOK
<1> HIDE DEF new
<1>8. TypeOK'
  <2>1. request' \in [Requests -> Request]
    BY <1>5 DEF CommitUpdate
  <2>2. task' \in [Tasks -> [status : TaskStatus, assignedTo : Users]]
    BY <1>7 DEF IInv, TypeOK
  <2>3. call' \in [Calls -> Call]
    BY IdleIsFine DEF CommitUpdate, Ends, IInv, TypeOK
  <2> QED
    BY <2>1, <2>2, <2>3 DEF CommitUpdate, IInv, TypeOK, counters
<1>9. LocksExclude'
  BY <1>2, IdleIsFine DEF IInv, LocksExclude, DeviceOp, TaskOp
<1>10. RowsOK'
  <2>1. \A q \in Requests : RowOK(request[q])'
    BY <1>5, <1>6 DEF IInv, RowsOK, RowOK, Cancellable
  <2>2. \A q \in events' : q \in Requests /\ request'[q].target \in Outcomes
    BY <1>5 DEF CommitUpdate, IInv, TypeOK, RowsOK
  <2> QED
    BY <2>1, <2>2 DEF RowsOK
<1>11. OneOpenRequest'
  BY <1>5 DEF IInv, OneOpenRequest, Open, Cancellable
<1>12. CompletedWaitsForNone'
  <2> SUFFICES ASSUME NEW q \in Requests, request'[q].status = "sending"
               PROVE  task'[request'[q].task].status # "completed"
    BY DEF CompletedWaitsForNone
  <2>1. /\ request[q].status = "sending" /\ request'[q].task = request[q].task
        /\ request[q].task \in Tasks /\ task[request[q].task].status # "completed"
    BY <1>5 DEF IInv, RowsOK, RowOK, CompletedWaitsForNone
  <2>2. request[q].task = t => call[c].how # "completed"
    BY <1>1, <2>1 DEF KnowsOK, IsSending
  <2> QED
    BY <1>7, <2>1, <2>2
<1>13. OverrideFollowsRequest'
  BY <1>5 DEF OverrideFollowsRequest, OverrideOK
<1>14. CallsOK'
  <2> SUFFICES ASSUME NEW d \in Calls
               PROVE  (CallOK(call[d]) /\ KnowsOK(call[d]) /\ ClosesOK(call[d]))'
    BY DEF CallsOK
  <2>1. CASE d = c
    BY <1>2, <2>1, IdleIsFine DEF CallOK, KnowsOK, ClosesOK
  <2>2. CASE d # c
    <3>1. call'[d] = call[d] /\ CallOK(call[d]) /\ KnowsOK(call[d]) /\ ClosesOK(call[d])
      BY <1>2, <2>2 DEF IInv, CallsOK
    <3>2. CallOK(call[d])'
      BY <1>5, <3>1 DEF CallOK
    <3>3. call[d].pc \in {"locked", "closing"} =>
            /\ call[d].task # t /\ call[d].task \in Tasks
            /\ task'[call[d].task] = task[call[d].task]
      BY <1>3, <1>7, <2>2, <3>1 DEF TaskOp, CallOK
    <3>4. call[d].op = "approve" => call[d].pc = "locked"
      BY <3>1 DEF CallOK
    <3>5. NoOpenRequest => NoOpenRequest'
      BY <1>5 DEF NoOpenRequest, Open, Cancellable
    <3>6. ~IsSending(call[d].task) => ~IsSending(call[d].task)'
      BY <1>5, <3>1 DEF IsSending
    <3>7. KnowsOK(call[d])'
      BY <1>5, <3>1, <3>3, <3>4, <3>5, <3>6 DEF KnowsOK, CallOK, IsHeld
    <3>8. ClosesOK(call[d])'
      <4>1. \A p \in call[d].closes : p \in Requests
        BY DEF IInv, TypeOK, Call
      <4>2. \A p \in call[d].closes : request'[p] = request[p]
        BY <1>5, <3>1, <3>3, <4>1 DEF ClosesOK
      <4> QED
        BY <3>1, <3>3, <4>2 DEF ClosesOK, EndsTask
    <3> QED
      BY <3>2, <3>7, <3>8
  <2> QED
    BY <2>1, <2>2
<1> QED
  BY <1>8, <1>9, <1>10, <1>11, <1>12, <1>13, <1>14 DEF IInv

-----------------------------------------------------------------------------
(* The theorems *)

LEMMA StutterInv ==
  ASSUME IInv, UNCHANGED vars
  PROVE  IInv'
BY DEF IInv, vars, TypeOK, LocksExclude, RowsOK, CallsOK, CallOK, KnowsOK, ClosesOK, RowOK,
       NoOpenRequest, IsHeld, IsSending, EndsTask, DeviceOp, TaskOp, OneOpenRequest,
       CompletedWaitsForNone, OverrideFollowsRequest

LEMMA NextInv ==
  ASSUME IInv, [Next]_vars
  PROVE  IInv'
<1>1. ASSUME NEW c \in Calls, Ask(c)
      PROVE  IInv'
  BY <1>1, BeginAskInv, LockForAskInv, CommitAskInv DEF Ask
<1>2. ASSUME NEW c \in Calls, Approve(c)
      PROVE  IInv'
  BY <1>2, LockForApproveInv, CommitApproveInv DEF Approve
<1>3. ASSUME NEW c \in Calls, Release(c)
      PROVE  IInv'
  BY <1>3, LockDeviceForReleaseInv, LockTaskForReleaseInv, CommitReleaseInv DEF Release
<1>4. ASSUME NEW c \in Calls, UpdateTask(c)
      PROVE  IInv'
  BY <1>4, BeginStartInv, CommitStartInv, LockForUpdateInv, CommitUpdateInv DEF UpdateTask
<1>5. ASSUME NEW c \in Calls, Refuse(c)
      PROVE  IInv'
  BY <1>5, EndStep DEF Refuse
<1>6. ASSUME NEW q \in Requests, Close(q) \/ Result(q) \/ FailToHear(q)
      PROVE  IInv'
  BY <1>6, CloseInv, GetResultInv, HearResultInv, FailToHearInv DEF Result
<1>7. ASSUME NEW t \in Tasks, NEW u \in Users, Reassign(t, u)
      PROVE  IInv'
  BY <1>7, ReassignInv
<1> QED
  BY <1>1, <1>2, <1>3, <1>4, <1>5, <1>6, <1>7, RestartInv, StutterInv DEF Next

LEMMA Inductive == Spec => []IInv
<1>1. IInv /\ [Next]_vars => IInv'
  BY NextInv
<1> QED
  BY InitInv, <1>1, PTL DEF Spec

\* In every reachable state tasks, requests, events and the records of the API calls have
\* the types stated.
THEOREM TypesAreRight == Spec => []TypeOK
<1>1. IInv => TypeOK
  BY DEF IInv
<1> QED
  BY <1>1, Inductive, PTL

\* However many technicians ask in however many tasks, one request of a device is open
\* (the check of insertRequest under the lock of lockDevice).
THEOREM OneIsOpen == Spec => []OneOpenRequest
<1>1. IInv => OneOpenRequest
  BY DEF IInv
<1> QED
  BY <1>1, Inductive, PTL

\* No task is completed while a request of it is being sent (assertNoSendingRequest
\* against release, both under the row lock of the task).
THEOREM CompletedHasNoneSending == Spec => []CompletedWaitsForNone
<1>1. IInv => CompletedWaitsForNone
  BY DEF IInv
<1> QED
  BY <1>1, Inductive, PTL

\* An override is left waiting by no end of its request, and is approved before it is sent
\* (closeLinkedOverride, approve and cancelPendingConfigApplyRequests together).
THEOREM OverridesFollow == Spec => []OverrideFollowsRequest
<1>1. IInv => OverrideFollowsRequest
  BY DEF IInv
<1> QED
  BY <1>1, Inductive, PTL

-----------------------------------------------------------------------------
(* What was checked still holds at the commit *)

\* A request is made, ends, is approved or is released
LEMMA StatusMoves ==
  ASSUME IInv, Next, NEW q \in Requests, request'[q].status # request[q].status
  PROVE  \/ request[q].status = "none"
         \/ request'[q].status \in Ended
         \/ \E c \in Calls : CommitApprove(c) /\ call[c].request = q
         \/ \E c \in Calls : CommitRelease(c) /\ call[c].request = q
<1>1. request \in [Requests -> Request]
  BY DEF IInv, TypeOK
<1>2. ASSUME NEW c \in Calls, Ask(c)
      PROVE  request[q].status = "none"
  BY <1>1, <1>2, UnusedIsFine
  DEF Ask, BeginAsk, LockForAsk, CommitAsk, rows
<1>3. ASSUME NEW c \in Calls, Approve(c)
      PROVE  CommitApprove(c) /\ call[c].request = q
  BY <1>1, <1>3 DEF Approve, LockForApprove, CommitApprove, rows
<1>4. ASSUME NEW c \in Calls, Release(c)
      PROVE  CommitRelease(c) /\ call[c].request = q
  BY <1>1, <1>4 DEF Release, LockDeviceForRelease, LockTaskForRelease, CommitRelease, rows
<1>5. ASSUME NEW c \in Calls, UpdateTask(c)
      PROVE  request'[q].status \in Ended
  <2>1. CommitUpdate(c)
    BY <1>5 DEF UpdateTask, BeginStart, CommitStart, LockForUpdate, rows
  <2>2. request'[q].status = "cancelled"
    BY <2>1, ClosedByTaskIsFine DEF CommitUpdate
  <2> QED
    BY <2>2 DEF Ended
<1>6. ASSUME NEW c \in Calls, Refuse(c)
      PROVE  FALSE
  BY <1>6 DEF Refuse, rows
<1>7. ASSUME NEW p \in Requests, Close(p)
      PROVE  request'[q].status \in Ended
  <2>1. request[p] \in Request
    BY <1>1
  <2>2. \A row \in Request : WithOverrideClosed(row).status = row.status
    BY WithOverrideClosedIsFine
  <2>3. \A s \in {"rejected", "cancelled", "expired"} :
          /\ [request[p] EXCEPT !.status = s] \in Request
          /\ [request[p] EXCEPT !.status = s, !.decided = TRUE] \in Request
    BY <2>1 DEF Request, Ended
  <2>4. q = p /\ request'[p].status \in {"rejected", "cancelled", "expired"}
    <3>1. CASE Reject(p)
      BY <1>1, <2>1, <2>2, <2>3, <3>1 DEF Reject, Request
    <3>2. CASE Cancel(p)
      BY <1>1, <2>1, <2>2, <2>3, <3>2 DEF Cancel, Request
    <3>3. CASE CloseChanged(p)
      BY <1>1, <2>1, <3>3 DEF CloseChanged, Request
    <3>4. CASE Expire(p)
      BY <1>1, <2>1, <2>2, <2>3, <3>4 DEF Expire, Request
    <3> QED
      BY <1>7, <3>1, <3>2, <3>3, <3>4 DEF Close
  <2> QED
    BY <2>4 DEF Ended
<1>8. ASSUME NEW p \in Requests, Result(p) \/ FailToHear(p)
      PROVE  request'[q].status \in Ended
  <2>1. request[p] \in Request
    BY <1>1
  <2>2. \A outcome \in Outcomes : ~GetResult(p, outcome)
    BY <1>1, <2>1 DEF GetResult, Request
  <2>3. ~FailToHear(p)
    BY DEF FailToHear
  <2>4. HearResult(p)
    BY <1>8, <2>2, <2>3 DEF Result
  <2>5. q = p /\ request'[p].status = request[p].target
    BY <1>1, <2>1, <2>4 DEF HearResult, Request
  <2>6. request[p].target \in Outcomes
    BY <2>4 DEF HearResult, IInv, RowsOK
  <2> QED
    BY <2>5, <2>6 DEF Ended
<1>9. ASSUME NEW t \in Tasks, NEW u \in Users, Reassign(t, u)
       PROVE  FALSE
  BY <1>9 DEF Reassign
<1>10. ~Restart
  BY DEF Restart
<1> QED
  BY <1>2, <1>3, <1>4, <1>5, <1>6, <1>7, <1>8, <1>9, <1>10 DEF Next

Checked ==
  \A q \in Requests :
    LET before == request[q].status
        after == request'[q].status
        t == request[q].task IN
    /\ before = "pending" /\ after = "approved" => IsHeld(t, request[q].requestedBy)
    /\ before = "approved" /\ after = "sending" => IsHeld(t, request'[q].releasedBy)

LEMMA StepIsChecked ==
  ASSUME IInv, Next
  PROVE  Checked
<1> SUFFICES ASSUME NEW q \in Requests,
                    \/ request[q].status = "pending" /\ request'[q].status = "approved"
                    \/ request[q].status = "approved" /\ request'[q].status = "sending"
             PROVE  /\ request[q].status = "pending" =>
                         IsHeld(request[q].task, request[q].requestedBy)
                    /\ request[q].status = "approved" =>
                         IsHeld(request[q].task, request'[q].releasedBy)
  BY DEF Checked
<1>1. \/ \E c \in Calls : CommitApprove(c) /\ call[c].request = q
      \/ \E c \in Calls : CommitRelease(c) /\ call[c].request = q
  BY StatusMoves DEF Ended, Outcomes
<1>2. ASSUME NEW c \in Calls, CommitApprove(c), call[c].request = q
      PROVE  request[q].status = "pending" /\ IsHeld(request[q].task, request[q].requestedBy)
  BY <1>2 DEF IInv, CallsOK, CallOK, KnowsOK, CommitApprove, IsAt
<1>3. ASSUME NEW c \in Calls, CommitRelease(c), call[c].request = q
      PROVE  request[q].status = "approved" /\ IsHeld(request[q].task, request'[q].releasedBy)
  <2>1. request[q].status = "approved" /\ IsHeld(request[q].task, call[c].user)
    BY <1>3 DEF IInv, CallsOK, CallOK, KnowsOK, CommitRelease, IsAt
  <2>2. request'[q].releasedBy = call[c].user
    BY <1>3 DEF CommitRelease, IInv, TypeOK, Request
  <2> QED
    BY <2>1, <2>2
<1> QED
  BY <1>1, <1>2, <1>3

\* A request is approved only while its task is in progress with whoever asked, and
\* released only while it is with whoever releases it, whatever changed since both were
\* read (assertStillApplicable and assertReleasable under the row lock of the task).
THEOREM ChecksHoldAtCommit == Spec => CheckedAtCommit
<1>1. IInv /\ [Next]_vars => [Checked]_vars
  BY StepIsChecked
<1> QED
  BY Inductive, <1>1, PTL DEF Spec, CheckedAtCommit, Checked
-----------------------------------------------------------------------------
(* The result of a rollout comes back *)

\* What a step does to a request and to the way back of its result: nothing; it makes or
\* closes the request; it sends it; the result arrives; the result is heard
Untouched(q) ==
  /\ request'[q].status = request[q].status /\ request'[q].target = request[q].target
  /\ q \in events => q \in events' \/ losses' # 0

Arrives(q) ==
  /\ request[q].target = "pending" /\ q \in events'
  /\ request'[q].status = request[q].status

LEMMA ResultMoves ==
  ASSUME IInv, [Next]_vars, NEW q \in Requests
  PROVE  \/ Untouched(q)
         \/ request'[q].status \notin Outcomes \cup {"sending"}
         \/ request'[q].status = "sending" /\ request'[q].target = "pending"
         \/ Arrives(q)
         \/ HearResult(q)
<1> USE DEF Outcomes
<1>1. request \in [Requests -> Request] /\ losses \in Nat
  BY BoundsAreNumbers DEF IInv, TypeOK
<1>2. ASSUME UNCHANGED <<request, events>> PROVE Untouched(q)
  BY <1>2 DEF Untouched
<1>3. ASSUME NEW c \in Calls, Ask(c)
      PROVE  Untouched(q) \/ request'[q].status \in {"pending", "approved"}
  <2>1. CASE UNCHANGED <<request, events>>
    BY <1>2, <2>1
  <2>2. ASSUME NEW p \in Requests, NEW how \in Hows, CommitAsk(c, p, how)
        PROVE  Untouched(q) \/ request'[q].status \in {"pending", "approved"}
    <3>1. Asked(c, how).status \in {"pending", "approved"}
      BY DEF Asked, Unused
    <3> QED
      BY <1>1, <2>2, <3>1 DEF CommitAsk, Untouched
  <2> QED
    BY <1>3, <2>1, <2>2 DEF Ask, BeginAsk, LockForAsk, rows
<1>4. ASSUME NEW c \in Calls, Approve(c)
      PROVE  Untouched(q) \/ request'[q].status = "approved"
  <2>1. CASE UNCHANGED <<request, events>>
    BY <1>2, <2>1
  <2>2. CASE CommitApprove(c)
    BY <1>1, <2>2 DEF CommitApprove, Untouched, Request
  <2> QED
    BY <1>4, <2>1, <2>2 DEF Approve, LockForApprove, rows
<1>5. ASSUME NEW c \in Calls, Release(c)
      PROVE  Untouched(q) \/ (request'[q].status = "sending" /\ request'[q].target = "pending")
  <2>1. CASE UNCHANGED <<request, events>>
    BY <1>2, <2>1
  <2>2. CASE CommitRelease(c)
    BY <1>1, <2>2 DEF CommitRelease, Untouched, Request
  <2> QED
    BY <1>5, <2>1, <2>2 DEF Release, LockDeviceForRelease, LockTaskForRelease, rows
<1>6. ASSUME NEW c \in Calls, UpdateTask(c)
      PROVE  Untouched(q) \/ request'[q].status = "cancelled"
  <2>1. CASE UNCHANGED <<request, events>>
    BY <1>2, <2>1
  <2>2. CASE CommitUpdate(c)
    BY <2>2, ClosedByTaskIsFine DEF CommitUpdate, Untouched
  <2> QED
    BY <1>6, <2>1, <2>2 DEF UpdateTask, BeginStart, CommitStart, LockForUpdate, rows
<1>7. ASSUME NEW p \in Requests, Close(p)
      PROVE  Untouched(q) \/ request'[q].status \in {"rejected", "cancelled", "expired"}
  <2>1. request[p] \in Request
    BY <1>1
  <2>2. \A row \in Request : WithOverrideClosed(row).status = row.status
    BY WithOverrideClosedIsFine
  <2>3. \A s \in {"rejected", "cancelled", "expired"} :
          /\ [request[p] EXCEPT !.status = s] \in Request
          /\ [request[p] EXCEPT !.status = s, !.decided = TRUE] \in Request
    BY <2>1 DEF Request, Ended
  <2>4. /\ request'[p].status \in {"rejected", "cancelled", "expired"}
        /\ q # p => request'[q] = request[q]
        /\ UNCHANGED events
    <3>1. CASE Reject(p)
      <4> DEFINE row == [request[p] EXCEPT !.status = "rejected", !.decided = TRUE]
      <4>1. row \in Request /\ row.status = "rejected"
        BY <2>1, <2>3 DEF Request
      <4>2. WithOverrideClosed(row).status = "rejected"
        BY <2>2, <4>1
      <4>3. request' = [request EXCEPT ![p] = WithOverrideClosed(row)] /\ UNCHANGED events
        BY <3>1 DEF Reject
      <4> QED
        BY <1>1, <4>2, <4>3
    <3>2. CASE Cancel(p)
      BY <1>1, <2>1, <2>2, <2>3, <3>2 DEF Cancel, Request
    <3>3. CASE CloseChanged(p)
      BY <1>1, <2>1, <3>3 DEF CloseChanged, Request
    <3>4. CASE Expire(p)
      BY <1>1, <2>1, <2>2, <2>3, <3>4 DEF Expire, Request
    <3> QED
      BY <1>7, <3>1, <3>2, <3>3, <3>4 DEF Close
  <2> QED
    BY <1>1, <2>4 DEF Untouched
<1>8. ASSUME NEW p \in Requests, NEW outcome \in Outcomes, GetResult(p, outcome)
      PROVE  Untouched(q) \/ Arrives(q)
  BY <1>1, <1>8 DEF GetResult, Untouched, Arrives, Request
<1>9. ASSUME NEW p \in Requests, HearResult(p), p # q
      PROVE  Untouched(q)
  BY <1>1, <1>9 DEF HearResult, Untouched, Request
<1>10. ASSUME NEW p \in Requests, FailToHear(p) PROVE Untouched(q)
  BY <1>1, <1>10 DEF FailToHear, Untouched
<1>11. CASE Restart
  BY <1>1, <1>11 DEF Restart, Untouched
<1>12. ASSUME NEW c \in Calls, Refuse(c) PROVE Untouched(q)
  BY <1>2, <1>12 DEF Refuse, rows
<1>13. ASSUME NEW t \in Tasks, NEW u \in Users, Reassign(t, u) PROVE Untouched(q)
  BY <1>2, <1>13 DEF Reassign
<1>14. CASE UNCHANGED vars
  BY <1>2, <1>14 DEF vars
<1> QED
  BY <1>3, <1>4, <1>5, <1>6, <1>7, <1>8, <1>9, <1>10, <1>11, <1>12, <1>13, <1>14 DEF Next, Result

\* what was lost stays lost
LEMMA LossesCount == ASSUME IInv, [Next]_vars, losses' = 0 PROVE losses = 0
<1>1. losses \in Nat
  BY BoundsAreNumbers DEF IInv, TypeOK
<1>2. losses' = losses \/ losses' = losses + 1
  <2>1. ASSUME NEW c \in Calls, Ask(c) PROVE losses' = losses
    BY <2>1 DEF counters, Ask, BeginAsk, LockForAsk, CommitAsk
  <2>2. ASSUME NEW c \in Calls, Approve(c) PROVE losses' = losses
    BY <2>2 DEF counters, Approve, LockForApprove, CommitApprove
  <2>3. ASSUME NEW c \in Calls, Release(c) PROVE losses' = losses
    BY <2>3
    DEF counters, Release, LockDeviceForRelease, LockTaskForRelease, CommitRelease
  <2>4. ASSUME NEW c \in Calls, UpdateTask(c) PROVE losses' = losses
    BY <2>4
    DEF counters, UpdateTask, BeginStart, CommitStart, LockForUpdate, CommitUpdate
  <2>5. ASSUME NEW c \in Calls, Refuse(c) PROVE losses' = losses
    BY <2>5 DEF counters, Refuse
  <2>6. ASSUME NEW q \in Requests, Close(q) PROVE losses' = losses
    BY <2>6 DEF counters, Close, Reject, Cancel, CloseChanged, Expire
  <2>7. ASSUME NEW q \in Requests, Result(q) PROVE losses' = losses
    BY <2>7 DEF counters, Result, GetResult, HearResult
  <2>8. ASSUME NEW q \in Requests, FailToHear(q) PROVE losses' = losses + 1
    BY <2>8 DEF FailToHear
  <2>9. ASSUME NEW t \in Tasks, NEW u \in Users, Reassign(t, u) PROVE losses' = losses
    BY <2>9 DEF Reassign
  <2>10. Restart => losses' = losses + 1
    BY DEF Restart
  <2>11. UNCHANGED vars => losses' = losses
    BY DEF vars
  <2> QED
    BY <2>1, <2>2, <2>3, <2>4, <2>5, <2>6, <2>7, <2>8, <2>9, <2>10, <2>11 DEF Next
<1> QED
  BY <1>1, <1>2

LEMMA ResultStep ==
  ASSUME IInv, ResultComesBack, [Next]_vars
  PROVE  ResultComesBack'
<1> SUFFICES ASSUME NEW q \in Requests
             PROVE  /\ request'[q].status \in Outcomes => request'[q].status = request'[q].target
                    /\ losses' = 0 /\ request'[q].status = "sending"
                         /\ request'[q].target \in Outcomes => q \in events'
  BY DEF ResultComesBack
<1>1. /\ request[q].status \in Outcomes => request[q].status = request[q].target
      /\ losses = 0 /\ request[q].status = "sending" /\ request[q].target \in Outcomes
           => q \in events
  BY DEF ResultComesBack
<1>2. losses' = 0 => losses = 0
  BY LossesCount
<1>3. CASE Untouched(q)
  BY <1>1, <1>2, <1>3 DEF Untouched
<1>4. CASE request'[q].status \notin Outcomes \cup {"sending"}
  BY <1>4
<1>5. CASE request'[q].status = "sending" /\ request'[q].target = "pending"
  BY <1>5 DEF Outcomes
<1>6. CASE Arrives(q)
  BY <1>1, <1>6 DEF Arrives, Outcomes
<1>7. CASE HearResult(q)
  <2>1. request[q].target \in Outcomes /\ request[q] \in Request
    BY <1>7 DEF HearResult, IInv, RowsOK, TypeOK
  <2>2. /\ request'[q].target = request[q].target
        /\ request'[q].status = IF request[q].status = "sending" THEN request[q].target
                                ELSE request[q].status
    BY <1>7, <2>1 DEF HearResult, IInv, TypeOK, Request
  <2> QED
    BY <1>1, <2>1, <2>2 DEF Outcomes
<1> QED
  BY <1>3, <1>4, <1>5, <1>6, <1>7, ResultMoves

\* A request shows the result of its own rollout, and the result of one that is still being
\* sent is on its way, as long as no restart or failed update took the event
\* (recordRolloutOutcome).
THEOREM ResultsComeBack == Spec => []ResultComesBack
<1>1. Init => ResultComesBack
  BY UnusedIsFine DEF Init, ResultComesBack, Outcomes
<1>2. IInv /\ ResultComesBack /\ [Next]_vars => ResultComesBack'
  BY ResultStep
<1> QED
  BY Inductive, <1>1, <1>2, PTL DEF Spec

-----------------------------------------------------------------------------
(* The phone: the inductive invariant *)

\* No older change is still to be made.
Settled(id) == 1 .. id - 1 \subseteq Applied \cup past.dropped \cup FailedIds

\* The server has made the change of the row that f has in its hands.
Confirms(f) == \/ f.at = "delete"
               \/ f.at = "answered" /\ f.answer.kind = "made"

Passing(f) == f.at \notin {"idle", "read"}

\* What a pass has still before it is all that waits, but for what came since,
\* which is newer and gets a pass of its own.
TakesAll(f) ==
  /\ \A id \in PendingIds : \/ id \in f.rest \cup {f.id}
                            \/ f.again /\ \A taken \in f.rest \cup {f.id} : taken < id
  /\ \A id \in f.rest : f.id < id

\* What the flush knows of the rows.
FlushFits(f) ==
  /\ f.rest \subseteq 1 .. Len(change) /\ f.id \in 0 .. Len(change)
  /\ f.at \in {"idle", "read", "next"} <=> f.id = 0
  /\ f.id = 0 => f.as = Nobody /\ f.answer.row.of = Nobody
  /\ Passing(f) => TakesAll(f)
  /\ f.at \in {"wait", "answered", "delete"} => f.id \notin FailedIds
  /\ f.at \in {"followers", "refetch", "refetched"} => f.id \notin PendingIds
  /\ Confirms(f) => f.id \in Applied
  /\ f.at = "wait" => Settled(f.id)
  /\ f.at = "idle" /\ f.last = "all" => PendingIds = {}

\* What was made and is still queued will be taken out, or its answer was lost.
KnownToBeMade(f) ==
  \A id \in Applied \cap QueuedIds : id \in past.unheard \/ (Confirms(f) /\ id = f.id)

\* An older change was made before, unless it has lost its place.
Ordered ==
  \A i \in DOMAIN past.applied : \A older \in 1 .. past.applied[i] - 1 :
    \/ older \in past.dropped \cup FailedIds
    \/ \E j \in 1 .. i - 1 : past.applied[j] = older

RowsFit ==
  /\ QueuedIds \cup Applied \subseteq 1 .. Len(change)
  /\ 1 .. Len(change) \subseteq QueuedIds \cup Applied \cup past.dropped
  /\ \A r \in late : /\ r.id \in 1 .. Len(change) /\ r.id \in past.unheard
                     /\ Settled(r.id)
  /\ Ordered

\* Whose data it is, as long as nothing has excused foreign data.
Mine(u) == u \in {Nobody, session.profile}

FlushIsMine(f) ==
  /\ auth.at = "wait" => f.at = "idle" \/ f.gen < gen
  /\ auth.at = "none" /\ Passing(f) /\ f.gen = gen
       => Mine(f.as) /\ Mine(f.answer.row.of)

DataIsMine ==
  auth.at = "none" =>
    /\ Mine(session.user) /\ Mine(session.token)
    /\ \A t \in TaskIds : Mine(cache[t].of)
    /\ \A id \in QueuedIds : Mine(change[id].user)
    /\ Mine(read.row.of)

Ownership ==
  /\ flush.gen <= gen
  /\ past.excuses = {} => FlushIsMine(flush) /\ DataIsMine

Core == FlushFits(flush) /\ KnownToBeMade(flush) /\ RowsFit

PhoneInv == PhoneTypeOK /\ Core /\ Ownership

-----------------------------------------------------------------------------
(* The flush alone *)

LEMMA PhoneConstants ==
  /\ NoFlush \in Flushes /\ NoRow.of = Nobody /\ NoAnswer.row.of = Nobody
  /\ NoRow \notin CacheRows
  /\ NoAnswer \in Answers /\ NoAnswer.kind = "none" /\ NoAnswer.row = NoRow
  /\ \A r \in CacheRows \cup {NoRow} : r.of \in Somebody /\ (r.of = Nobody => r = NoRow)
  /\ Ids \subseteq Nat \ {0}
BY NobodyIsNoUser, PhoneBounds
DEF NoFlush, Flushes, FlushSteps, Answers, NoAnswer, NoRow, CacheRows, TaskStatuses,
    Somebody, Ids

\* The rows and what became of them are the same, but for unheard answers and excuses.
RowsStay ==
  /\ UNCHANGED <<queue, change>>
  /\ past' \in Pasts
  /\ past'.applied = past.applied /\ past'.dropped = past.dropped
  /\ past.unheard \subseteq past'.unheard

LEMMA StaySame ==
  ASSUME RowsStay
  PROVE  /\ PendingIds' = PendingIds /\ FailedIds' = FailedIds
         /\ QueuedIds' = QueuedIds /\ Applied' = Applied
         /\ \A id : (1 .. id - 1 \subseteq Applied \cup past.dropped \cup FailedIds)
                      <=> (1 .. id - 1 \subseteq Applied \cup past.dropped \cup FailedIds)'
BY DEF RowsStay, PendingIds, FailedIds, QueuedIds, Applied

LEMMA CoreMoves ==
  ASSUME PhoneInv, RowsStay, NEW f \in Flushes, flush' = f, FlushFits(f),
         \A id \in Applied \cap QueuedIds :
           id \in past'.unheard \/ (Confirms(f) /\ id = f.id),
         \/ late' = late
         \/ \A r \in late' \ late : /\ r.id \in 1 .. Len(change) /\ r.id \in past'.unheard
                                   /\ Settled(r.id)
  PROVE  Core'
<1>1. /\ PendingIds' = PendingIds /\ FailedIds' = FailedIds
      /\ QueuedIds' = QueuedIds /\ Applied' = Applied
      /\ change' = change
      /\ past'.applied = past.applied /\ past'.dropped = past.dropped
      /\ past.unheard \subseteq past'.unheard
  BY StaySame DEF RowsStay
<1>2. FlushFits(f)'
  BY <1>1 DEF FlushFits, Passing, TakesAll, Confirms, Settled
<1>3. FlushFits(flush)'
  BY <1>2 DEF FlushFits, Passing, TakesAll, Confirms
<1>4. KnownToBeMade(flush)'
  BY <1>1 DEF KnownToBeMade, Confirms
<1>5. RowsFit'
  <2>1. Ordered'
    BY <1>1 DEF PhoneInv, Core, RowsFit, Ordered
  <2>2. ASSUME NEW r \in late'
        PROVE  r.id \in 1 .. Len(change) /\ r.id \in past'.unheard /\ Settled(r.id)
    BY <1>1 DEF PhoneInv, Core, RowsFit
  <2>3. ASSUME NEW r \in late'
        PROVE  r.id \in 1 .. Len(change') /\ r.id \in past'.unheard
               /\ (1 .. r.id - 1 \subseteq Applied \cup past.dropped \cup FailedIds)'
    BY <1>1, <2>2 DEF Settled
  <2> QED
    BY <1>1, <2>1, <2>3 DEF PhoneInv, Core, RowsFit, Settled
<1> QED
  BY <1>3, <1>4, <1>5 DEF Core

LEMMA PassEndsSo ==
  ASSUME PhoneInv, NEW why \in {"all", "later", "stopped"}, NEW unheard \in SUBSET Ids,
         PassEnds(why, unheard), UNCHANGED <<queue, change, gen, auth>>
  PROVE  /\ flush' \in Flushes /\ flush'.id = 0 /\ flush'.rest = {}
         /\ ~flush.again => flush'.at = "idle" /\ flush'.last = why
         /\ flush.again => flush'.at = "read"
         /\ flush'.gen \in {0, gen}
         /\ flush'.as = Nobody /\ flush'.answer.row.of = Nobody
         /\ RowsStay /\ past'.unheard = past.unheard \cup unheard
         /\ past.excuses \subseteq past'.excuses
         /\ flush.again /\ auth.at = "wait" => past'.excuses # {}
<1>1. past \in Pasts /\ flush \in Flushes /\ gen \in Nat
  BY DEF PhoneInv, PhoneTypeOK
<1> DEFINE ends == [NoFlush EXCEPT !.last = why]
           goes == [NoFlush EXCEPT !.at = "read", !.gen = gen, !.last = why]
<1>2. /\ ends \in Flushes /\ ends.id = 0 /\ ends.rest = {} /\ ends.at = "idle"
      /\ ends.last = why /\ ends.gen = 0
      /\ ends.as = Nobody /\ ends.answer = NoAnswer
  BY PhoneConstants DEF NoFlush, Flushes, FlushSteps
<1>3. /\ goes \in Flushes /\ goes.id = 0 /\ goes.rest = {} /\ goes.at = "read"
      /\ goes.gen = gen /\ goes.as = Nobody /\ goes.answer = NoAnswer
  BY <1>1, PhoneConstants DEF NoFlush, Flushes, FlushSteps
<1>4. flush' = IF flush.again THEN goes ELSE ends
  BY DEF PassEnds
<1> HIDE DEF ends, goes
<1>5. PICK e \in SUBSET Excuses :
        /\ past' = [past EXCEPT !.unheard = past.unheard \cup unheard, !.excuses = e]
        /\ past.excuses \subseteq e
        /\ flush.again /\ auth.at = "wait" => e # {}
  <2> DEFINE e == IF flush.again /\ auth.at = "wait"
                  THEN past.excuses \cup {"again"} ELSE past.excuses
  <2>1. e \in SUBSET Excuses
    BY <1>1 DEF Pasts, Excuses
  <2>2. past' = [past EXCEPT !.unheard = past.unheard \cup unheard, !.excuses = e]
    BY DEF PassEnds
  <2>3. past.excuses \subseteq e /\ (flush.again /\ auth.at = "wait" => e # {})
    OBVIOUS
  <2> HIDE DEF e
  <2> QED
    BY <2>1, <2>2, <2>3
<1>6. /\ past' \in Pasts /\ past'.applied = past.applied /\ past'.dropped = past.dropped
      /\ past'.unheard = past.unheard \cup unheard /\ past'.excuses = e
  BY <1>1, <1>5 DEF Pasts
<1>7. RowsStay
  BY <1>6 DEF RowsStay
<1>8. /\ flush' \in Flushes /\ flush'.id = 0 /\ flush'.rest = {}
      /\ flush'.gen \in {0, gen}
      /\ flush'.as = Nobody /\ flush'.answer.row.of = Nobody
  BY <1>2, <1>3, <1>4, PhoneConstants
<1>9. (~flush.again => flush'.at = "idle" /\ flush'.last = why)
      /\ (flush.again => flush'.at = "read")
  BY <1>2, <1>3, <1>4
<1> QED
  BY <1>5, <1>6, <1>7, <1>8, <1>9

LEMMA CalledSo ==
  ASSUME PhoneInv, NEW f, f = Called
  PROVE  /\ f \in Flushes /\ f.id = flush.id
         /\ flush.at = "idle" => f.at = "read" /\ f.gen = gen /\ f.id = 0
         /\ flush.at # "idle" => /\ f.at = flush.at /\ f.gen = flush.gen /\ f.again
         /\ f.rest = flush.rest /\ f.as = flush.as /\ f.answer = flush.answer
<1>1. flush \in Flushes /\ gen \in Nat
  BY DEF PhoneInv, PhoneTypeOK
<1>2. CASE flush.at = "idle"
  <2>1. f = [flush EXCEPT !.at = "read", !.again = FALSE, !.gen = gen]
    BY <1>2 DEF Called
  <2>2. /\ f \in Flushes /\ f.id = flush.id /\ f.rest = flush.rest /\ f.at = "read"
        /\ f.gen = gen /\ f.as = flush.as /\ f.answer = flush.answer
    BY <1>1, <2>1 DEF Flushes, FlushSteps
  <2>3. flush.id = 0
    BY <1>2 DEF PhoneInv, Core, FlushFits
  <2> QED
    BY <1>2, <2>2, <2>3
<1>3. CASE flush.at # "idle"
  <2>1. f = [flush EXCEPT !.again = TRUE]
    BY <1>3 DEF Called
  <2>2. /\ f \in Flushes /\ f.id = flush.id /\ f.rest = flush.rest /\ f.at = flush.at
        /\ f.gen = flush.gen /\ f.as = flush.as /\ f.answer = flush.answer /\ f.again
    BY <1>1, <2>1 DEF Flushes
  <2> QED
    BY <1>3, <2>2
<1> QED
  BY <1>2, <1>3

LEMMA OnwardSo ==
  ASSUME PhoneInv, NEW f, f = Onward
  PROVE  /\ f \in Flushes /\ f.at = "next" /\ f.id = 0 /\ f.rest = flush.rest
         /\ f.gen = flush.gen /\ f.again = flush.again
         /\ f.as = Nobody /\ f.answer.row.of = Nobody
<1>1. flush \in Flushes
  BY DEF PhoneInv, PhoneTypeOK
<1>2. f = [flush EXCEPT !.at = "next", !.id = 0, !.as = Nobody, !.answer = NoAnswer]
  BY DEF Onward
<1>3. /\ f \in Flushes /\ f.at = "next" /\ f.id = 0 /\ f.rest = flush.rest
      /\ f.gen = flush.gen /\ f.again = flush.again
      /\ f.as = Nobody /\ f.answer = NoAnswer
  BY <1>1, <1>2, PhoneConstants DEF Flushes, FlushSteps, Somebody
<1> QED
  BY <1>3, PhoneConstants

-----------------------------------------------------------------------------
(* Ownership *)

\* A step that leaves sessions alone.
LEMMA OwnershipKept ==
  ASSUME PhoneInv, UNCHANGED <<session, auth, gen>>, past.excuses \subseteq past'.excuses,
         flush'.gen <= gen,
         past'.excuses = {} => FlushIsMine(flush)',
         auth.at = "none" /\ past'.excuses = {} =>
           /\ \A t \in TaskIds : Mine(cache'[t].of)
           /\ \A id \in QueuedIds' : Mine(change'[id].user)
           /\ Mine(read'.row.of)
  PROVE  Ownership'
<1>1. past'.excuses = {} => past.excuses = {}
  OBVIOUS
<1>2. past'.excuses = {} => DataIsMine
  BY <1>1 DEF PhoneInv, Ownership
<1>3. past'.excuses = {} => DataIsMine'
  BY <1>2 DEF DataIsMine, Mine
<1> QED
  BY <1>3 DEF Ownership

\* ... and the data.
LEMMA DataStays ==
  ASSUME PhoneInv, UNCHANGED <<session, auth, gen, queue, change, cache, read>>,
         past.excuses \subseteq past'.excuses,
         flush'.gen <= gen,
         past'.excuses = {} => FlushIsMine(flush)'
  PROVE  Ownership'
<1>1. past'.excuses = {} => past.excuses = {}
  OBVIOUS
<1>2. past'.excuses = {} => DataIsMine'
  BY <1>1 DEF PhoneInv, Ownership, DataIsMine, Mine, QueuedIds, PendingIds, FailedIds
<1> QED
  BY <1>2 DEF Ownership

-----------------------------------------------------------------------------
(* Steps of the flush that leave the queue alone *)

\* All but flush and past stay as they are.
LEMMA OnlyFlushTyped ==
  ASSUME PhoneInv, flush' \in Flushes, past' \in Pasts,
         cache' \in [TaskIds -> CacheRows \cup {NoRow}], mishaps' \in 0 .. MaxMishaps,
         UNCHANGED <<taskRow, queue, session, auth, gen, late, read, change>>
  PROVE  PhoneTypeOK'
BY DEF PhoneInv, PhoneTypeOK

LEMMA StayUnheard ==
  ASSUME PhoneInv, UNCHANGED <<queue, change, past>>
  PROVE  RowsStay /\ past.excuses \subseteq past'.excuses
BY DEF PhoneInv, PhoneTypeOK, RowsStay

LEMMA PassEndsKept ==
  ASSUME PhoneInv, NEW why \in {"all", "later", "stopped"}, NEW unheard \in SUBSET Ids,
         PassEnds(why, unheard),
         UNCHANGED <<taskRow, queue, cache, session, auth, gen, late, read, change,
                     mishaps>>,
         why = "all" /\ ~flush.again => PendingIds = {},
         Confirms(flush) => flush.id \in unheard
  PROVE  PhoneInv'
<1>1. /\ flush' \in Flushes /\ flush'.id = 0 /\ flush'.rest = {}
      /\ ~flush.again => flush'.at = "idle" /\ flush'.last = why
      /\ flush.again => flush'.at = "read"
      /\ flush'.gen \in {0, gen}
      /\ flush'.as = Nobody /\ flush'.answer.row.of = Nobody
      /\ RowsStay /\ past'.unheard = past.unheard \cup unheard
      /\ past.excuses \subseteq past'.excuses
      /\ flush.again /\ auth.at = "wait" => past'.excuses # {}
  BY PassEndsSo
<1>2. PICK f : f = flush'
  OBVIOUS
<1>3. Len(change) \in Nat /\ gen \in Nat
  BY LenProperties DEF PhoneInv, PhoneTypeOK
<1>4. FlushFits(f)
  BY <1>1, <1>2, <1>3 DEF FlushFits, Passing, Confirms
<1>5. \A id \in Applied \cap QueuedIds : id \in past'.unheard
  BY <1>1 DEF PhoneInv, Core, KnownToBeMade
<1>6. Core'
  BY <1>1, <1>2, <1>4, <1>5, CoreMoves
<1>7. past'.excuses = {} => FlushIsMine(flush)'
  BY <1>1 DEF FlushIsMine, Passing
<1>8. Ownership'
  BY <1>1, <1>3, <1>7, DataStays
<1>9. PhoneTypeOK'
  BY <1>1, OnlyFlushTyped DEF RowsStay, PhoneInv, PhoneTypeOK
<1> QED
  BY <1>6, <1>8, <1>9 DEF PhoneInv

\* A step that moves only the flush, in the generation it has.
LEMMA FlushKept ==
  ASSUME PhoneInv, NEW f \in Flushes, flush' = f, f.gen = flush.gen,
         UNCHANGED <<taskRow, queue, cache, session, auth, gen, late, read, change,
                     past, mishaps>>,
         flush.at # "idle",
         FlushFits(f), KnownToBeMade(f),
         past.excuses = {} /\ auth.at = "none" /\ Passing(f) /\ f.gen = gen
           => Mine(f.as) /\ Mine(f.answer.row.of)
  PROVE  PhoneInv'
<1>1. RowsStay /\ past.excuses \subseteq past'.excuses
  BY StayUnheard
<1>2. Core'
  BY <1>1, CoreMoves DEF KnownToBeMade
<1>3. past.excuses = {} => FlushIsMine(f)
  BY DEF PhoneInv, Ownership, FlushIsMine
<1>4. past'.excuses = {} => FlushIsMine(flush)'
  BY <1>3 DEF FlushIsMine, Mine, Passing
<1>5. f.gen <= gen
  BY DEF PhoneInv, Ownership
<1>6. Ownership'
  BY <1>1, <1>4, <1>5, DataStays
<1>7. PhoneTypeOK'
  BY OnlyFlushTyped DEF PhoneInv, PhoneTypeOK
<1> QED
  BY <1>2, <1>6, <1>7 DEF PhoneInv

\* A row that is done with leaves the hands of the flush.
LEMMA OnwardFits ==
  ASSUME PhoneInv, NEW f, f = Onward, flush.at \notin {"idle", "read"},
         flush.id \notin PendingIds, ~Confirms(flush)
  PROVE  /\ f \in Flushes /\ f.gen = flush.gen /\ f.as = Nobody /\ f.answer.row.of = Nobody
         /\ FlushFits(f) /\ KnownToBeMade(f)
<1>2. /\ f \in Flushes /\ f.at = "next" /\ f.id = 0 /\ f.rest = flush.rest
      /\ f.gen = flush.gen /\ f.again = flush.again
      /\ f.as = Nobody /\ f.answer.row.of = Nobody
  BY OnwardSo
<1>3. FlushFits(f)
  <2>1. TakesAll(flush) /\ flush.rest \subseteq 1 .. Len(change) /\ Len(change) \in Nat
    BY LenProperties DEF PhoneInv, PhoneTypeOK, Core, FlushFits, Passing
  <2>2. TakesAll(f)
    BY <1>2, <2>1, PhoneConstants DEF TakesAll, PendingIds
  <2> QED
    BY <1>2, <2>1, <2>2 DEF FlushFits, Passing, Confirms
<1>4. KnownToBeMade(f)
  BY DEF PhoneInv, Core, KnownToBeMade
<1> QED
  BY <1>2, <1>3, <1>4

LEMMA OnwardKept ==
  ASSUME PhoneInv, flush' = Onward, flush.at \notin {"idle", "read"},
         flush.id \notin PendingIds, ~Confirms(flush),
         UNCHANGED <<taskRow, queue, cache, session, auth, gen, late, read, change,
                     past, mishaps>>
  PROVE  PhoneInv'
<1>1. PICK f : f = Onward
  OBVIOUS
<1>2. /\ f \in Flushes /\ f.gen = flush.gen /\ f.as = Nobody /\ f.answer.row.of = Nobody
      /\ FlushFits(f) /\ KnownToBeMade(f)
  BY <1>1, OnwardFits
<1> QED
  BY <1>1, <1>2, FlushKept DEF Mine

LEMMA ReadPendingKept ==
  ASSUME PhoneInv, ReadPending
  PROVE  PhoneInv'
<1>1. PICK f : f = [flush EXCEPT !.at = "next", !.rest = PendingIds]
  OBVIOUS
<1>2. flush \in Flushes /\ flush.at = "read" /\ flush.id = 0
      /\ flush.as = Nobody /\ flush.answer.row.of = Nobody
  BY DEF ReadPending, PhoneInv, PhoneTypeOK, Core, FlushFits
<1>3. /\ f \in Flushes /\ f.at = "next" /\ f.rest = PendingIds /\ f.id = 0
      /\ f.gen = flush.gen /\ f.as = flush.as /\ f.answer = flush.answer
  BY <1>1, <1>2 DEF Flushes, FlushSteps, PendingIds
<1>4. PendingIds \subseteq 1 .. Len(change) /\ PendingIds \subseteq Nat \ {0}
      /\ Len(change) \in Nat
  BY PhoneConstants, LenProperties
  DEF PhoneInv, PhoneTypeOK, Core, RowsFit, QueuedIds, PendingIds
<1>5. FlushFits(f)
  <2>1. TakesAll(f)
    <3>1. \A id \in f.rest : id \in Nat /\ id # 0
      BY <1>3, <1>4
    <3>2. \A id \in f.rest : f.id < id
      BY <1>3, <3>1
    <3>3. \A id \in PendingIds : id \in f.rest \cup {f.id}
      BY <1>3
    <3> QED
      BY <3>2, <3>3 DEF TakesAll
  <2>2. ~Confirms(f)
    BY <1>3 DEF Confirms
  <2> QED
    BY <1>2, <1>3, <1>4, <2>1, <2>2 DEF FlushFits
<1>6. KnownToBeMade(f)
  BY <1>2, <1>3 DEF PhoneInv, Core, KnownToBeMade, Confirms
<1>7. ASSUME past.excuses = {}, auth.at = "none"
      PROVE  Mine(f.as) /\ Mine(f.answer.row.of)
  BY <1>2, <1>3 DEF Mine
<1> QED
  BY <1>1, <1>2, <1>3, <1>5, <1>6, <1>7, FlushKept DEF ReadPending

LEMMA NextPendingKept ==
  ASSUME PhoneInv, NextPending
  PROVE  PhoneInv'
<1>1. /\ flush \in Flushes /\ flush.at = "next" /\ flush.id = 0 /\ gen \in Nat
      /\ flush.as = Nobody /\ flush.answer.row.of = Nobody
      /\ TakesAll(flush) /\ flush.rest \subseteq 1 .. Len(change)
      /\ ~Confirms(flush) /\ Len(change) \in Nat
  BY LenProperties
  DEF NextPending, PhoneInv, PhoneTypeOK, Core, FlushFits, Confirms, Passing
<1>2. UNCHANGED <<taskRow, queue, cache, session, auth, gen, late, read, change,
                  mishaps>>
  BY DEF NextPending
<1>3. CASE flush.rest = {} /\ PassEnds("all", {})
  <2>1. ~flush.again => PendingIds = {}
    BY <1>1, <1>3, PhoneConstants DEF TakesAll, PendingIds
  <2> QED
    BY <1>1, <1>2, <1>3, <2>1, PassEndsKept
<1>4. CASE PassEnds("stopped", {})
  BY <1>1, <1>2, <1>4, PassEndsKept
<1>5. ASSUME NEW id \in flush.rest, \A other \in flush.rest : id <= other,
             flush' = [flush EXCEPT !.at = "check", !.id = id,
                                    !.rest = flush.rest \ {id}],
             past' = past
      PROVE  PhoneInv'
  <2>1. PICK f : f = [flush EXCEPT !.at = "check", !.id = id,
                                   !.rest = flush.rest \ {id}]
    OBVIOUS
  <2>2. /\ f \in Flushes /\ f.at = "check" /\ f.rest = flush.rest \ {id} /\ f.id = id
        /\ f.gen = flush.gen /\ f.again = flush.again
        /\ f.as = flush.as /\ f.answer = flush.answer
    BY <1>1, <2>1 DEF Flushes, FlushSteps
  <2>3. flush.rest \cup {id} = flush.rest /\ flush.rest \subseteq Nat \ {0}
    BY <1>1
  <2>4. TakesAll(f)
    <3>1. ASSUME NEW p \in PendingIds, p \notin f.rest \cup {f.id}
          PROVE  f.again /\ \A taken \in f.rest \cup {f.id} : taken < p
      <4>1. p \notin flush.rest /\ p # 0
        BY <2>2, <3>1, PhoneConstants DEF PendingIds
      <4> QED
        BY <1>1, <2>2, <4>1 DEF TakesAll
    <3>2. ASSUME NEW other \in f.rest PROVE f.id < other
      BY <1>5, <2>2, <2>3
    <3> QED
      BY <3>1, <3>2 DEF TakesAll
  <2>5. FlushFits(f)
    BY <1>1, <2>2, <2>3, <2>4 DEF FlushFits, Passing, Confirms
  <2>6. KnownToBeMade(f)
    BY <1>1 DEF PhoneInv, Core, KnownToBeMade
  <2> QED
    BY <1>1, <1>2, <1>5, <2>1, <2>2, <2>5, <2>6, FlushKept DEF Mine
<1> QED
  BY <1>3, <1>4, <1>5 DEF NextPending

LEMMA SendPendingKept ==
  ASSUME PhoneInv, SendPending
  PROVE  PhoneInv'
<1>1. /\ flush \in Flushes /\ flush.at = "check" /\ flush.id # 0
      /\ TakesAll(flush) /\ flush.rest \subseteq 1 .. Len(change)
      /\ flush.id \in 1 .. Len(change)
      /\ ~Confirms(flush) /\ Len(change) \in Nat
      /\ session.user \in Somebody
  BY LenProperties
  DEF SendPending, PhoneInv, PhoneTypeOK, Core, FlushFits, Confirms, Passing
<1>2. UNCHANGED <<taskRow, queue, cache, session, auth, gen, late, read, change,
                  past, mishaps>>
  BY DEF SendPending
<1>3. CASE flush.id \in PendingIds
  <2>1. PICK f : f = [flush EXCEPT !.at = "wait", !.as = session.user]
    OBVIOUS
  <2>2. /\ f \in Flushes /\ f.at = "wait" /\ f.rest = flush.rest /\ f.id = flush.id
        /\ f.gen = flush.gen /\ f.again = flush.again
        /\ f.as = session.user /\ f.answer = flush.answer
    BY <1>1, <2>1 DEF Flushes, FlushSteps
  <2>3. ASSUME NEW older \in 1 .. f.id - 1
        PROVE  older \in Applied \cup past.dropped \cup FailedIds
    <3>1. older \in 1 .. Len(change) /\ older < flush.id
      BY <1>1, <2>2
    <3>2. older \notin PendingIds
      <4>1. older \notin flush.rest \/ flush.id < older
        BY <1>1 DEF TakesAll
      <4>2. ~(flush.id < older) /\ older # flush.id
        BY <1>1, <3>1
      <4>3. ~\A taken \in flush.rest \cup {flush.id} : taken < older
        BY <4>2
      <4> QED
        BY <1>1, <4>1, <4>2, <4>3 DEF TakesAll
    <3> QED
      BY <3>1, <3>2 DEF PhoneInv, Core, RowsFit, QueuedIds
  <2>4. flush.id \notin FailedIds
    BY <1>3 DEF PendingIds, FailedIds
  <2>5. FlushFits(f)
    BY <1>1, <2>2, <2>3, <2>4 DEF FlushFits, Passing, Confirms, TakesAll, Settled
  <2>6. KnownToBeMade(f)
    BY <1>1 DEF PhoneInv, Core, KnownToBeMade
  <2>7. ASSUME past.excuses = {}, auth.at = "none", f.gen = gen
        PROVE  Mine(f.as) /\ Mine(f.answer.row.of)
    BY <1>1, <2>2, <2>7
    DEF PhoneInv, Ownership, DataIsMine, FlushIsMine, Passing
  <2>8. flush' = f
    BY <1>3, <2>1 DEF SendPending
  <2> QED
    BY <1>1, <1>2, <2>2, <2>5, <2>6, <2>7, <2>8, FlushKept
<1>4. CASE flush.id \notin PendingIds
  BY <1>1, <1>2, <1>4, OnwardKept DEF SendPending
<1> QED
  BY <1>3, <1>4

-----------------------------------------------------------------------------
(* The server and its answers *)

\* The server makes one more change, all older ones being settled.
LEMMA TakenSo ==
  ASSUME PhoneInv, NEW id \in 1 .. Len(change), Settled(id),
         past' = [past EXCEPT !.applied = Append(past.applied, id)],
         UNCHANGED <<queue, change>>
  PROVE  /\ Applied' = Applied \cup {id}
         /\ PendingIds' = PendingIds /\ FailedIds' = FailedIds
         /\ QueuedIds' = QueuedIds
         /\ past' \in Pasts /\ past'.dropped = past.dropped
         /\ past'.unheard = past.unheard /\ past'.excuses = past.excuses
         /\ Ordered'
<1>1. /\ past \in Pasts /\ past.applied \in Seq(Ids) /\ id \in Ids
      /\ Len(change) \in Nat
  BY LenProperties, PhoneBounds DEF PhoneInv, PhoneTypeOK, Pasts, Ids
<1>2. PICK old, new : old = past.applied /\ new = Append(old, id)
  OBVIOUS
<1>3. /\ old \in Seq(Ids) /\ new \in Seq(Ids) /\ Len(old) \in Nat
      /\ Len(new) = Len(old) + 1
      /\ \A i \in 1 .. Len(old) : new[i] = old[i]
      /\ new[Len(old) + 1] = id
      /\ DOMAIN old = 1 .. Len(old) /\ DOMAIN new = 1 .. Len(old) + 1
  BY <1>1, <1>2, AppendProperties, LenProperties
<1>4. /\ past' \in Pasts /\ past'.applied = new /\ past'.dropped = past.dropped
      /\ past'.unheard = past.unheard /\ past'.excuses = past.excuses
  BY <1>1, <1>2, <1>3 DEF Pasts
<1>5. /\ PendingIds' = PendingIds /\ FailedIds' = FailedIds
      /\ QueuedIds' = QueuedIds
  BY DEF PendingIds, FailedIds, QueuedIds
<1>6. Applied = {old[i] : i \in 1 .. Len(old)}
  BY <1>2, <1>3 DEF Applied
<1>7. Applied' = {new[i] : i \in 1 .. Len(old) + 1}
  BY <1>3, <1>4 DEF Applied
<1>8. Applied' = Applied \cup {id}
  BY <1>3, <1>6, <1>7
<1>9. ASSUME NEW i \in 1 .. Len(old) + 1, NEW older \in 1 .. new[i] - 1
      PROVE  \/ older \in past.dropped \cup FailedIds
             \/ \E j \in 1 .. i - 1 : new[j] = older
  <2>1. CASE i \in 1 .. Len(old)
    <3>1. new[i] = old[i] /\ \A j \in 1 .. i - 1 : new[j] = old[j]
      BY <1>3, <2>1
    <3>2. \/ older \in past.dropped \cup FailedIds
          \/ \E j \in 1 .. i - 1 : old[j] = older
      BY <1>2, <1>3, <2>1, <3>1, SMTT(30) DEF PhoneInv, Core, RowsFit, Ordered
    <3> QED
      BY <3>1, <3>2
  <2>2. CASE i = Len(old) + 1
    <3>1. older \in 1 .. id - 1
      BY <1>3, <2>2
    <3>2. older \in Applied \cup past.dropped \cup FailedIds
      BY <3>1 DEF Settled
    <3>3. older \in Applied => \E j \in 1 .. Len(old) : new[j] = older
      BY <1>3, <1>6
    <3>4. 1 .. Len(old) = 1 .. i - 1
      BY <1>3, <2>2
    <3> QED
      BY <3>2, <3>3, <3>4
  <2> QED
    BY <1>3, <2>1, <2>2
<1>10. Ordered'
  <2>1. past'.applied = new /\ DOMAIN past'.applied = 1 .. Len(old) + 1
    BY <1>3, <1>4
  <2>2. ASSUME NEW i \in DOMAIN past'.applied, NEW older \in 1 .. past'.applied[i] - 1
        PROVE  \/ older \in past'.dropped \cup FailedIds'
               \/ \E j \in 1 .. i - 1 : past'.applied[j] = older
    <3>1. i \in 1 .. Len(old) + 1 /\ older \in 1 .. new[i] - 1
      BY <2>1
    <3>2. \/ older \in past.dropped \cup FailedIds
          \/ \E j \in 1 .. i - 1 : new[j] = older
      BY <1>9, <3>1
    <3> QED
      BY <1>4, <1>5, <2>1, <3>2
  <2> QED
    BY <2>2 DEF Ordered
<1> QED
  BY <1>4, <1>5, <1>8, <1>10

LEMMA CoreTaken ==
  ASSUME PhoneInv, NEW id \in 1 .. Len(change), Settled(id),
         past' = [past EXCEPT !.applied = Append(past.applied, id)],
         UNCHANGED <<queue, change>>, late' \subseteq late,
         NEW f, flush' = f, FlushFits(f) \/ (Confirms(f) /\ f.id = id),
         f.rest = flush.rest, f.id = flush.id, f.again = flush.again, f.as = flush.as,
         f = flush \/ (flush.at = "wait" /\ f.at = "answered"),
         id \in past.unheard \/ (Confirms(f) /\ f.id = id)
  PROVE  Core'
<1>1. /\ Applied' = Applied \cup {id}
      /\ PendingIds' = PendingIds /\ FailedIds' = FailedIds
      /\ QueuedIds' = QueuedIds
      /\ past'.dropped = past.dropped /\ past'.unheard = past.unheard
      /\ Ordered'
  BY TakenSo
<1>2. FlushFits(flush)
  BY DEF PhoneInv, Core
<1>3. TakesAll(f)' <=> TakesAll(f)
  BY <1>1 DEF TakesAll
<1>4. TakesAll(f) <=> TakesAll(flush)
  BY DEF TakesAll
<1>5. \A n : Settled(n) => (1 .. n - 1 \subseteq Applied' \cup past'.dropped \cup FailedIds')
  BY <1>1 DEF Settled
<1>6. FlushFits(f)'
  <2>1. CASE f = flush
    <3>1. Confirms(f) => f.id \in Applied'
      BY <1>1, <1>2, <2>1 DEF FlushFits
    <3>2. f.at = "wait" => 1 .. f.id - 1 \subseteq Applied' \cup past'.dropped \cup FailedIds'
      BY <1>2, <1>5, <2>1 DEF FlushFits
    <3> QED
      BY <1>1, <1>2, <1>3, <2>1, <3>1, <3>2 DEF FlushFits, Passing, Confirms, Settled
  <2>2. CASE flush.at = "wait" /\ f.at = "answered"
    <3>1. Confirms(f) => f.id \in Applied'
      BY <1>1, <2>2 DEF FlushFits
    <3>2. f.id # 0
      BY <1>2, <2>2 DEF FlushFits
    <3> QED
      BY <1>1, <1>2, <1>3, <1>4, <2>2, <3>1, <3>2 DEF FlushFits, Passing, Confirms
  <2> QED
    BY <2>1, <2>2
<1>7. FlushFits(flush)'
  BY <1>6 DEF FlushFits, Passing, TakesAll, Confirms
<1>8. KnownToBeMade(flush)'
  <2>1. ASSUME NEW n \in Applied \cap QueuedIds
        PROVE  n \in past.unheard \/ (Confirms(f) /\ n = f.id)
    BY DEF PhoneInv, Core, KnownToBeMade, Confirms
  <2> QED
    BY <1>1, <2>1 DEF KnownToBeMade, Confirms
<1>9. RowsFit'
  <2>1. \A r \in late' : r \in late
    OBVIOUS
  <2>2. ASSUME NEW r \in late'
        PROVE  /\ r.id \in 1 .. Len(change) /\ r.id \in past'.unheard
               /\ 1 .. r.id - 1 \subseteq Applied' \cup past'.dropped \cup FailedIds'
    BY <1>1, <1>5, <2>1 DEF PhoneInv, Core, RowsFit
  <2> QED
    BY <1>1, <2>2 DEF PhoneInv, Core, RowsFit, Settled
<1> QED
  BY <1>7, <1>8, <1>9 DEF Core

\* What the phone has in its hands once the request is over.
LEMMA AnsweredSo ==
  ASSUME PhoneInv, flush.at \in {"wait", "answered"}, NEW answer \in Answers, NEW f,
         f = [flush EXCEPT !.at = "answered", !.answer = answer]
  PROVE  /\ f \in Flushes /\ f.at = "answered" /\ f.answer = answer
         /\ f.rest = flush.rest /\ f.id = flush.id /\ f.again = flush.again
         /\ f.as = flush.as /\ f.gen = flush.gen /\ f.last = flush.last
         /\ answer.kind # "made" => FlushFits(f) /\ ~Confirms(f)
<1>1. flush \in Flushes
  BY DEF PhoneInv, PhoneTypeOK
<1>2. /\ f \in Flushes /\ f.at = "answered" /\ f.answer = answer
      /\ f.rest = flush.rest /\ f.id = flush.id /\ f.again = flush.again
      /\ f.as = flush.as /\ f.gen = flush.gen /\ f.last = flush.last
  BY <1>1 DEF Flushes, FlushSteps
<1>3. ASSUME answer.kind # "made" PROVE FlushFits(f) /\ ~Confirms(f)
  <2>1. ~Confirms(f)
    BY <1>2, <1>3 DEF Confirms
  <2>2. FlushFits(flush) /\ flush.id # 0
    BY DEF PhoneInv, Core, FlushFits
  <2>3. TakesAll(f)
    BY <1>2, <2>2 DEF FlushFits, Passing, TakesAll
  <2> QED
    BY <1>2, <2>1, <2>2, <2>3 DEF FlushFits
<1> QED
  BY <1>2, <1>3

LEMMA ServerHandlesKept ==
  ASSUME PhoneInv, ServerHandles
  PROVE  PhoneInv'
<1>1. /\ flush \in Flushes /\ flush.at = "wait" /\ flush.id \in 1 .. Len(change)
      /\ Settled(flush.id) /\ ~Confirms(flush)
      /\ change \in Seq(Changes) /\ change[flush.id] \in Changes
      /\ taskRow \in [TaskIds -> [status : TaskStatuses, who : Technicians]]
  <2>1. flush.id \in 1 .. Len(change) /\ change \in Seq(Changes)
    BY LenProperties DEF ServerHandles, PhoneInv, PhoneTypeOK, Core, FlushFits
  <2> QED
    BY <2>1, ElementOfSeq DEF ServerHandles, PhoneInv, PhoneTypeOK, Core, FlushFits, Confirms
<1>2. UNCHANGED <<queue, cache, session, auth, gen, late, read, change, mishaps>>
  BY DEF ServerHandles
<1>3. KnownToBeMade(flush)
  BY DEF PhoneInv, Core
<1>4. PICK id : id = flush.id
  OBVIOUS
<1>5. CASE flush' = [flush EXCEPT !.at = "answered", !.answer = NoAnswer]
           /\ UNCHANGED <<taskRow, past>>
  <2>1. PICK f : f = [flush EXCEPT !.at = "answered", !.answer = NoAnswer]
    OBVIOUS
  <2>2. /\ f \in Flushes /\ FlushFits(f) /\ ~Confirms(f) /\ f.gen = flush.gen
        /\ f.as = flush.as /\ f.answer = NoAnswer
    BY <1>1, <2>1, AnsweredSo, PhoneConstants, ZenonT(60)
  <2>3. KnownToBeMade(f)
    BY <1>1, <1>3 DEF KnownToBeMade
  <2>4. past.excuses = {} /\ auth.at = "none" /\ f.gen = gen
          => Mine(f.as) /\ Mine(f.answer.row.of)
    BY <1>1, <2>2, PhoneConstants DEF PhoneInv, Ownership, FlushIsMine, Passing, Mine
  <2> QED
    BY <1>1, <1>2, <1>5, <2>1, <2>2, <2>3, <2>4, FlushKept
<1>6. CASE flush.as # Nobody /\ Answered("refused", flush.id)
           /\ UNCHANGED <<taskRow, past>>
  <2>1. PICK answer : answer = [kind |-> "refused",
                                row |-> [status |-> change[flush.id].status, of |-> flush.as]]
    OBVIOUS
  <2>2. answer \in Answers /\ answer.kind = "refused" /\ answer.row.of = flush.as
    BY <1>1, <1>6, <2>1
    DEF Answers, CacheRows, Changes, Tapped, TaskStatuses, Flushes, Somebody
  <2>3. PICK f : f = [flush EXCEPT !.at = "answered", !.answer = answer]
    OBVIOUS
  <2>4. /\ f \in Flushes /\ FlushFits(f) /\ ~Confirms(f) /\ f.gen = flush.gen
        /\ f.as = flush.as /\ f.answer = answer
    BY <1>1, <2>2, <2>3, AnsweredSo
  <2>5. KnownToBeMade(f)
    BY <1>1, <1>3 DEF KnownToBeMade
  <2>6. past.excuses = {} /\ auth.at = "none" /\ f.gen = gen
          => Mine(f.as) /\ Mine(f.answer.row.of)
    BY <1>1, <2>2, <2>4 DEF PhoneInv, Ownership, FlushIsMine, Passing
  <2>7. flush' = f
    BY <1>6, <2>1, <2>3 DEF Answered
  <2> QED
    BY <1>1, <1>2, <1>6, <2>4, <2>5, <2>6, <2>7, FlushKept
<1>7. CASE flush.as # Nobody /\ Take(flush.id) /\ Answered("made", flush.id)
  <2>1. PICK answer : answer = [kind |-> "made",
                                row |-> [status |-> change[flush.id].status, of |-> flush.as]]
    OBVIOUS
  <2>2. answer \in Answers /\ answer.kind = "made" /\ answer.row.of = flush.as
    BY <1>1, <1>7, <2>1
    DEF Answers, CacheRows, Changes, Tapped, TaskStatuses, Flushes, Somebody
  <2>3. PICK f : f = [flush EXCEPT !.at = "answered", !.answer = answer]
    OBVIOUS
  <2>4. /\ f \in Flushes /\ f.at = "answered" /\ f.gen = flush.gen
        /\ f.as = flush.as /\ f.answer = answer /\ f.id = id
        /\ f.rest = flush.rest /\ f.again = flush.again /\ Confirms(f)
    BY <1>1, <1>4, <2>2, <2>3, AnsweredSo, ZenonT(60) DEF Confirms
  <2>5. flush' = f
    BY <1>7, <2>1, <2>3 DEF Answered
  <2>6. past' = [past EXCEPT !.applied = Append(past.applied, id)]
    BY <1>4, <1>7 DEF Take
  <2>7. Core'
    BY <1>1, <1>2, <1>4, <2>4, <2>5, <2>6, CoreTaken
  <2>8. past' \in Pasts /\ past'.excuses = past.excuses
    BY <1>1, <1>2, <1>4, <2>6, TakenSo
  <2>9. past'.excuses = {} => FlushIsMine(flush)'
    <3>1. past'.excuses = {} => FlushIsMine(flush)
      BY <2>8 DEF PhoneInv, Ownership
    <3>2. past'.excuses = {} => FlushIsMine(f)
      BY <1>1, <2>2, <2>4, <3>1 DEF FlushIsMine, Passing
    <3> QED
      BY <1>2, <2>5, <3>2 DEF FlushIsMine, Mine, Passing
  <2>10. Ownership'
    BY <1>2, <2>4, <2>5, <2>8, <2>9, DataStays DEF PhoneInv, Ownership
  <2>11. taskRow' \in [TaskIds -> [status : TaskStatuses, who : Technicians]]
    BY <1>1, <1>7 DEF Take, Changes, Tapped, TaskStatuses
  <2>12. PhoneTypeOK'
    BY <1>2, <2>4, <2>5, <2>8, <2>11 DEF PhoneInv, PhoneTypeOK
  <2> QED
    BY <2>7, <2>10, <2>12 DEF PhoneInv
<1> QED
  BY <1>5, <1>6, <1>7 DEF ServerHandles


\* What is in the hands of the flush.
LEMMA InHand ==
  ASSUME PhoneInv, flush.at \notin {"idle", "read", "next"}
  PROVE  /\ flush \in Flushes /\ flush.id \in 1 .. Len(change) /\ flush.id \in Ids
         /\ change \in Seq(Changes) /\ change[flush.id] \in Changes
         /\ TakesAll(flush) /\ flush.rest \subseteq 1 .. Len(change)
         /\ Passing(flush) /\ Len(change) \in Nat
<1>1. /\ flush \in Flushes /\ change \in Seq(Changes) /\ Len(change) <= MaxChanges
      /\ Len(change) \in Nat
  BY LenProperties DEF PhoneInv, PhoneTypeOK
<1>2. /\ flush.id \in 1 .. Len(change) /\ TakesAll(flush) /\ Passing(flush)
      /\ flush.rest \subseteq 1 .. Len(change)
  BY <1>1 DEF PhoneInv, Core, FlushFits, Passing
<1>3. flush.id \in Ids
  BY <1>1, <1>2, PhoneBounds DEF Ids
<1>4. change[flush.id] \in Changes
  BY <1>1, <1>2, ElementOfSeq
<1> QED
  BY <1>1, <1>2, <1>3, <1>4

\* The phone does not hear the answer, and the request may still be on its way.
LEMMA UnheardKept ==
  ASSUME PhoneInv, flush.at \in {"wait", "answered"}, NEW f, flush' = f,
         f = [flush EXCEPT !.at = "answered", !.answer = NoAnswer],
         past' = [past EXCEPT !.unheard = past.unheard \cup {flush.id}],
         \/ late' = late
         \/ /\ flush.at = "wait" /\ flush.as # Nobody
            /\ late' = late \cup {[id |-> flush.id, as |-> flush.as]},
         mishaps' \in 0 .. MaxMishaps,
         UNCHANGED <<taskRow, queue, cache, session, auth, gen, read, change>>
  PROVE  PhoneInv'
<1>1. /\ f \in Flushes /\ f.at = "answered" /\ f.answer = NoAnswer
      /\ f.as = flush.as /\ f.gen = flush.gen /\ FlushFits(f)
  BY AnsweredSo, PhoneConstants
<1>2. flush.id \in 1 .. Len(change) /\ flush.id \in Ids /\ Passing(flush)
      /\ flush.as \in Somebody
  BY InHand DEF Flushes
<1>3. /\ past' \in Pasts /\ past'.applied = past.applied /\ past'.dropped = past.dropped
      /\ past'.unheard = past.unheard \cup {flush.id} /\ past'.excuses = past.excuses
  BY <1>2 DEF PhoneInv, PhoneTypeOK, Pasts
<1>4. RowsStay
  BY <1>3 DEF RowsStay
<1>5. \A id \in Applied \cap QueuedIds : id \in past'.unheard
  BY <1>3 DEF PhoneInv, Core, KnownToBeMade
<1>6. \A r \in late' \ late : /\ r.id \in 1 .. Len(change) /\ r.id \in past'.unheard
                              /\ Settled(r.id)
  <2>1. flush.at = "wait" => Settled(flush.id)
    BY DEF PhoneInv, Core, FlushFits
  <2>2. \A r \in late' \ late : r.id = flush.id /\ flush.at = "wait"
    OBVIOUS
  <2> QED
    BY <1>2, <1>3, <2>1, <2>2
<1>7. Core'
  BY <1>1, <1>4, <1>5, <1>6, CoreMoves
<1>8. past'.excuses = {} => FlushIsMine(flush)'
  <2>1. past.excuses = {} => FlushIsMine(flush)
    BY DEF PhoneInv, Ownership
  <2> QED
    BY <1>1, <1>2, <1>3, <2>1, PhoneConstants DEF FlushIsMine, Mine, Passing
<1>9. Ownership'
  BY <1>1, <1>3, <1>8, DataStays DEF PhoneInv, Ownership
<1>10. late' \subseteq [id : Ids, as : Technicians]
  BY <1>2 DEF PhoneInv, PhoneTypeOK, Somebody
<1>11. PhoneTypeOK'
  BY <1>1, <1>3, <1>10 DEF PhoneInv, PhoneTypeOK
<1> QED
  BY <1>7, <1>9, <1>11 DEF PhoneInv

LEMMA MishapSo ==
  ASSUME PhoneInv, Mishap
  PROVE  mishaps' \in 0 .. MaxMishaps
BY PhoneBounds DEF PhoneInv, PhoneTypeOK, Mishap

LEMMA GiveUpKept ==
  ASSUME PhoneInv, GiveUp
  PROVE  PhoneInv'
<1>1. flush' = [flush EXCEPT !.at = "answered", !.answer = NoAnswer]
  BY DEF GiveUp
<1>2. past' = [past EXCEPT !.unheard = past.unheard \cup {flush.id}]
  BY DEF GiveUp
<1> QED
  BY <1>1, <1>2, UnheardKept, MishapSo DEF GiveUp

LEMMA LoseAnswerKept ==
  ASSUME PhoneInv, LoseAnswer
  PROVE  PhoneInv'
<1>1. flush' = [flush EXCEPT !.at = "answered", !.answer = NoAnswer]
  BY DEF LoseAnswer, PhoneInv, PhoneTypeOK, Flushes
<1>2. past' = [past EXCEPT !.unheard = past.unheard \cup {flush.id}]
  BY DEF LoseAnswer
<1> QED
  BY <1>1, <1>2, UnheardKept, MishapSo DEF LoseAnswer

\* A step that touches neither what the phone holds nor what became of it.
LEMMA PhoneStays ==
  ASSUME PhoneInv, late' \subseteq late,
         UNCHANGED <<queue, cache, session, auth, gen, flush, read, change, past>>
  PROVE  Core' /\ Ownership'
<1>1. RowsStay /\ past.excuses \subseteq past'.excuses
  BY StayUnheard
<1>2. /\ flush \in Flushes /\ FlushFits(flush) /\ flush.gen <= gen
      /\ past.excuses = {} => FlushIsMine(flush)
  BY DEF PhoneInv, PhoneTypeOK, Core, Ownership
<1>3. Core'
  BY <1>1, <1>2, CoreMoves DEF PhoneInv, Core, KnownToBeMade
<1>4. past'.excuses = {} => FlushIsMine(flush)'
  BY <1>2 DEF FlushIsMine, Mine, Passing
<1>5. Ownership'
  BY <1>1, <1>2, <1>4, DataStays
<1> QED
  BY <1>3, <1>5

LEMMA LateRequestArrivesKept ==
  ASSUME PhoneInv, LateRequestArrives
  PROVE  PhoneInv'
<1>1. UNCHANGED <<queue, cache, session, auth, gen, flush, read, change, mishaps>>
  BY DEF LateRequestArrives
<1>2. PICK r \in late :
        /\ late' = late \ {r}
        /\ IF Takes(r.id, r.as) THEN Take(r.id) ELSE UNCHANGED <<taskRow, past>>
  BY DEF LateRequestArrives
<1>3. CASE UNCHANGED <<taskRow, past>>
  BY <1>1, <1>2, <1>3, PhoneStays DEF PhoneInv, PhoneTypeOK
<1>4. CASE Take(r.id)
  <2>1. PICK id : id = r.id
    OBVIOUS
  <2>2. id \in 1 .. Len(change) /\ id \in past.unheard /\ Settled(id)
    BY <2>1 DEF PhoneInv, Core, RowsFit
  <2>3. past' = [past EXCEPT !.applied = Append(past.applied, id)]
    BY <1>4, <2>1 DEF Take
  <2>4. FlushFits(flush) /\ late' \subseteq late
    BY <1>2 DEF PhoneInv, Core
  <2>5. Core'
    BY <1>1, <2>2, <2>3, <2>4, CoreTaken
  <2>6. past' \in Pasts /\ past'.excuses = past.excuses
    BY <1>1, <2>2, <2>3, TakenSo
  <2>7. past'.excuses = {} => FlushIsMine(flush)'
    <3>1. past.excuses = {} => FlushIsMine(flush)
      BY DEF PhoneInv, Ownership
    <3> QED
      BY <1>1, <2>6, <3>1 DEF FlushIsMine, Mine, Passing
  <2>8. Ownership'
    BY <1>1, <2>6, <2>7, DataStays DEF PhoneInv, Ownership
  <2>9. change[id] \in Changes
    BY <2>2, ElementOfSeq DEF PhoneInv, PhoneTypeOK
  <2>10. taskRow' \in [TaskIds -> [status : TaskStatuses, who : Technicians]]
    BY <1>4, <2>1, <2>9, ZenonT(60)
    DEF PhoneInv, PhoneTypeOK, Take, Changes, Tapped, TaskStatuses
  <2>11. PhoneTypeOK'
    BY <1>1, <2>4, <2>6, <2>10 DEF PhoneInv, PhoneTypeOK
  <2> QED
    BY <2>5, <2>8, <2>11 DEF PhoneInv
<1> QED
  BY <1>2, <1>3, <1>4

LEMMA OperationEditsKept ==
  ASSUME PhoneInv, OperationEdits
  PROVE  PhoneInv'
<1>1. UNCHANGED <<queue, cache, session, auth, gen, flush, late, read, change, past>>
  BY DEF OperationEdits
<1>2. Core' /\ Ownership'
  BY <1>1, PhoneStays
<1>3. taskRow' \in [TaskIds -> [status : TaskStatuses, who : Technicians]]
  <2>1. taskRow \in [TaskIds -> [status : TaskStatuses, who : Technicians]]
    BY DEF PhoneInv, PhoneTypeOK
  <2>2. ASSUME NEW t \in TaskIds, NEW s \in TaskStatuses,
               taskRow' = [taskRow EXCEPT ![t].status = s]
        PROVE  taskRow' \in [TaskIds -> [status : TaskStatuses, who : Technicians]]
    BY <2>1, <2>2
  <2>3. ASSUME NEW t \in TaskIds, NEW u \in Technicians,
               taskRow' = [taskRow EXCEPT ![t].who = u]
        PROVE  taskRow' \in [TaskIds -> [status : TaskStatuses, who : Technicians]]
    BY <2>1, <2>3
  <2> QED
    BY <2>2, <2>3 DEF OperationEdits
<1>4. mishaps' \in 0 .. MaxMishaps
  BY MishapSo DEF OperationEdits
<1>5. PhoneTypeOK'
  BY <1>1, <1>3, <1>4 DEF PhoneInv, PhoneTypeOK
<1> QED
  BY <1>2, <1>5 DEF PhoneInv

-----------------------------------------------------------------------------
(* What the flush makes of an answer *)

LEMMA AnswerIsOldKept ==
  ASSUME PhoneInv, AnswerIsOld
  PROVE  PhoneInv'
<1>1. {flush.id} \in SUBSET Ids
  BY InHand DEF AnswerIsOld
<1> QED
  BY <1>1, PassEndsKept DEF AnswerIsOld

LEMMA NoVerdictKept ==
  ASSUME PhoneInv, NoVerdict
  PROVE  PhoneInv'
<1>1. ~Confirms(flush)
  BY DEF NoVerdict, Confirms
<1> QED
  BY <1>1, PassEndsKept DEF NoVerdict

LEMMA MadeKept ==
  ASSUME PhoneInv, Made
  PROVE  PhoneInv'
<1>1. UNCHANGED <<taskRow, queue, session, auth, gen, late, read, change, past, mishaps>>
  BY DEF Made
<1>2. /\ flush \in Flushes /\ flush.id \in 1 .. Len(change)
      /\ change[flush.id] \in Changes
      /\ TakesAll(flush) /\ flush.rest \subseteq 1 .. Len(change) /\ Passing(flush)
  BY InHand DEF Made
<1>3. /\ FlushFits(flush) /\ Confirms(flush) /\ KnownToBeMade(flush)
      /\ flush.gen = gen /\ flush.at = "answered"
      /\ flush.id \in Applied /\ flush.id \notin FailedIds
  BY DEF Made, Confirms, PhoneInv, Core, FlushFits
<1>4. PICK f : f = [flush EXCEPT !.at = "delete"]
  OBVIOUS
<1>5. /\ f \in Flushes /\ f.at = "delete" /\ f.rest = flush.rest /\ f.id = flush.id
      /\ f.gen = flush.gen /\ f.again = flush.again /\ f.as = flush.as
      /\ f.answer = flush.answer
  BY <1>2, <1>4 DEF Flushes, FlushSteps
<1>6. FlushFits(f)
  BY <1>2, <1>3, <1>5 DEF FlushFits, Passing, Confirms, TakesAll
<1>7. KnownToBeMade(f)
  BY <1>3, <1>5 DEF KnownToBeMade, Confirms
<1>8. flush' = f
  BY <1>4 DEF Made
<1>9. RowsStay /\ past.excuses \subseteq past'.excuses
  BY <1>1, StayUnheard
<1>10. Core'
  BY <1>1, <1>5, <1>6, <1>7, <1>8, <1>9, CoreMoves DEF KnownToBeMade
<1>11. past.excuses = {} => FlushIsMine(flush) /\ DataIsMine
  BY DEF PhoneInv, Ownership
<1>12. past'.excuses = {} => FlushIsMine(flush)'
  BY <1>1, <1>2, <1>3, <1>5, <1>8, <1>11 DEF FlushIsMine, Mine, Passing
<1>13. ASSUME auth.at = "none", past'.excuses = {}
       PROVE  /\ \A t \in TaskIds : Mine(cache'[t].of)
              /\ \A id \in QueuedIds' : Mine(change'[id].user)
              /\ Mine(read'.row.of)
  <2>1. Mine(flush.answer.row.of)
    BY <1>1, <1>2, <1>3, <1>11, <1>13 DEF FlushIsMine
  <2>2. \A t \in TaskIds : Mine(cache'[t].of)
    BY <1>1, <1>11, <1>13, <2>1 DEF Made, DataIsMine, PhoneInv, PhoneTypeOK
  <2> QED
    BY <1>1, <1>11, <1>13, <2>2 DEF DataIsMine, QueuedIds, PendingIds, FailedIds
<1>14. Ownership'
  BY <1>1, <1>3, <1>5, <1>8, <1>9, <1>12, <1>13, OwnershipKept DEF PhoneInv, Ownership
<1>15. cache' \in [TaskIds -> CacheRows \cup {NoRow}]
  BY <1>2 DEF Made, PhoneInv, PhoneTypeOK, Flushes, Answers
<1>16. PhoneTypeOK'
  BY <1>1, <1>5, <1>8, <1>15 DEF PhoneInv, PhoneTypeOK
<1> QED
  BY <1>10, <1>14, <1>16 DEF PhoneInv

\* A step that leaves the cache, the sessions and who a change is of alone, and
\* takes rows from the queue or marks them.
LEMMA QueueShrinks ==
  ASSUME PhoneInv, UNCHANGED <<session, auth, gen, cache, read, change>>,
         QueuedIds' \subseteq QueuedIds, past'.excuses = past.excuses,
         NEW f, flush' = f, f.gen = flush.gen,
         /\ f.at \in {"idle", "read"} <=> flush.at \in {"idle", "read"}
         /\ f.at = "idle" <=> flush.at = "idle",
         f.as = flush.as \/ f.as = Nobody,
         f.answer.row.of = flush.answer.row.of \/ f.answer.row.of = Nobody
  PROVE  Ownership'
<1>1. past.excuses = {} => FlushIsMine(flush) /\ DataIsMine
  BY DEF PhoneInv, Ownership
<1>2. past'.excuses = {} => FlushIsMine(flush)'
  BY <1>1 DEF FlushIsMine, Mine, Passing
<1>3. past'.excuses = {} => DataIsMine'
  BY <1>1 DEF DataIsMine, Mine
<1> QED
  BY <1>2, <1>3 DEF PhoneInv, Ownership

LEMMA DeleteRowKept ==
  ASSUME PhoneInv, DeleteRow
  PROVE  PhoneInv'
<1>1. UNCHANGED <<taskRow, cache, session, auth, gen, late, read, change, past, mishaps>>
  BY DEF DeleteRow
<1>2. /\ flush \in Flushes /\ flush.id \in 1 .. Len(change) /\ flush.id \in Ids
      /\ TakesAll(flush) /\ flush.rest \subseteq 1 .. Len(change)
      /\ Len(change) \in Nat
  BY InHand DEF DeleteRow
<1>3. /\ flush.at = "delete" /\ flush.id \notin FailedIds /\ flush.id \in Applied
      /\ FlushFits(flush)
  BY DEF DeleteRow, PhoneInv, Core, FlushFits, Confirms
<1>4. PICK id : id = flush.id
  OBVIOUS
<1>5. queue' = [queue EXCEPT ![id] = "none"] /\ queue \in [Ids -> RowStatus]
  BY <1>4 DEF DeleteRow, PhoneInv, PhoneTypeOK
<1>6. /\ PendingIds' = PendingIds \ {id} /\ FailedIds' = FailedIds
      /\ QueuedIds' = QueuedIds \ {id} /\ Applied' = Applied
      /\ queue' \in [Ids -> RowStatus]
  <2>1. PendingIds' = PendingIds \ {id}
    BY <1>2, <1>4, <1>5 DEF PendingIds
  <2>2. FailedIds' = FailedIds
    BY <1>2, <1>3, <1>4, <1>5 DEF FailedIds
  <2>3. id \notin FailedIds
    BY <1>3, <1>4
  <2> QED
    BY <1>1, <1>5, <2>1, <2>2, <2>3 DEF QueuedIds, Applied, RowStatus
<1>7. PICK f : f = Onward
  OBVIOUS
<1>8. /\ f \in Flushes /\ f.at = "next" /\ f.id = 0 /\ f.rest = flush.rest
      /\ f.gen = flush.gen /\ f.again = flush.again
      /\ f.as = Nobody /\ f.answer.row.of = Nobody
  BY <1>7, OnwardSo
<1>9. flush' = f
  BY <1>7 DEF DeleteRow
<1>10. FlushFits(f)'
  <2>1. \A p \in PendingIds' : p \in PendingIds /\ p # flush.id
    BY <1>4, <1>6
  <2>2. \A p \in PendingIds' : \/ p \in f.rest \cup {f.id}
                               \/ f.again /\ \A taken \in flush.rest \cup {flush.id} : taken < p
    BY <1>2, <1>8, <2>1 DEF TakesAll
  <2>3. \A p \in PendingIds' : 0 < p
    BY <2>1, PhoneConstants DEF PendingIds
  <2>4. \A p \in PendingIds' : \/ p \in f.rest \cup {f.id}
                               \/ f.again /\ \A taken \in f.rest \cup {f.id} : taken < p
    BY <1>8, <2>2, <2>3
  <2>5. \A n \in f.rest : f.id < n
    BY <1>2, <1>8
  <2>6. TakesAll(f)'
    BY <2>4, <2>5 DEF TakesAll
  <2> QED
    BY <1>1, <1>2, <1>8, <2>6 DEF FlushFits, Passing, Confirms
<1>11. FlushFits(flush)'
  BY <1>9, <1>10 DEF FlushFits, Passing, TakesAll, Confirms
<1>12. KnownToBeMade(flush)'
  BY <1>1, <1>4, <1>6 DEF PhoneInv, Core, KnownToBeMade
<1>13. RowsFit'
  <2>1. Ordered'
    BY <1>1, <1>6 DEF PhoneInv, Core, RowsFit, Ordered
  <2>2. 1 .. Len(change') \subseteq QueuedIds' \cup Applied' \cup past'.dropped
    BY <1>1, <1>3, <1>4, <1>6 DEF PhoneInv, Core, RowsFit
  <2>3. \A r \in late' : r.id \in 1 .. Len(change') /\ r.id \in past'.unheard /\ Settled(r.id)'
    BY <1>1, <1>6 DEF PhoneInv, Core, RowsFit, Settled
  <2> QED
    BY <1>1, <1>6, <2>1, <2>2, <2>3 DEF PhoneInv, Core, RowsFit
<1>14. Ownership'
  <2>1. QueuedIds' \subseteq QueuedIds
    BY <1>6
  <2> QED
    BY <1>1, <1>3, <1>8, <1>9, <2>1, QueueShrinks
<1>15. PhoneTypeOK'
  BY <1>1, <1>6, <1>8, <1>9 DEF PhoneInv, PhoneTypeOK
<1> QED
  BY <1>11, <1>12, <1>13, <1>14, <1>15 DEF PhoneInv, Core

LEMMA MarkedSo ==
  ASSUME PhoneInv, NEW ids, MarkFailed(ids)
  PROVE  /\ queue' \in [Ids -> RowStatus]
         /\ PendingIds' = PendingIds \ ids
         /\ FailedIds' = FailedIds \cup (ids \cap PendingIds)
         /\ QueuedIds' = QueuedIds
<1>1. queue' = [id \in Ids |-> IF id \in ids \cap QueuedIds THEN "failed" ELSE queue[id]]
      /\ queue \in [Ids -> RowStatus]
  BY DEF MarkFailed, PhoneInv, PhoneTypeOK
<1>2. PendingIds' = {id \in Ids : queue[id] = "pending" /\ id \notin ids}
  BY <1>1 DEF PendingIds, QueuedIds, FailedIds
<1>3. FailedIds' = {id \in Ids : queue[id] = "failed" \/ (queue[id] = "pending" /\ id \in ids)}
  BY <1>1 DEF PendingIds, QueuedIds, FailedIds
<1>4. queue' \in [Ids -> RowStatus]
  BY <1>1 DEF RowStatus
<1>5. PendingIds' = PendingIds \ ids
  BY <1>2 DEF PendingIds
<1>6. FailedIds' = FailedIds \cup (ids \cap PendingIds)
  BY <1>3 DEF PendingIds, FailedIds
<1> QED
  BY <1>4, <1>5, <1>6 DEF QueuedIds

LEMMA MarkedKept ==
  ASSUME PhoneInv, NEW ids, MarkFailed(ids),
         UNCHANGED <<taskRow, cache, session, auth, gen, late, read, change, past,
                     mishaps>>,
         flush.at \notin {"idle", "read", "next"}, ~Confirms(flush),
         NEW f \in Flushes, flush' = f, f.at \in {"followers", "refetch"},
         f.id = flush.id, f.rest = flush.rest, f.again = flush.again,
         f.gen = flush.gen, f.as = flush.as, f.answer = flush.answer,
         f.id \notin PendingIds \ ids
  PROVE  PhoneInv'
<1>1. /\ queue' \in [Ids -> RowStatus]
      /\ PendingIds' = PendingIds \ ids
      /\ FailedIds' = FailedIds \cup (ids \cap PendingIds)
      /\ QueuedIds' = QueuedIds
  BY MarkedSo
<1>2. /\ flush.id \in 1 .. Len(change) /\ TakesAll(flush)
      /\ flush.rest \subseteq 1 .. Len(change)
  BY InHand
<1>3. Applied' = Applied
  BY DEF Applied
<1>4. \A n : Settled(n) => Settled(n)'
  BY <1>1, <1>3 DEF Settled
<1>5. FlushFits(f)'
  <2>1. TakesAll(f)'
    BY <1>1, <1>2 DEF TakesAll
  <2> QED
    BY <1>1, <1>2, <2>1 DEF FlushFits, Passing, Confirms
<1>6. FlushFits(flush)'
  BY <1>5 DEF FlushFits, Passing, TakesAll, Confirms
<1>7. KnownToBeMade(flush)'
  BY <1>1, <1>3 DEF PhoneInv, Core, KnownToBeMade
<1>8. RowsFit'
  <2>1. ASSUME NEW i \in DOMAIN past'.applied, NEW older \in 1 .. past'.applied[i] - 1
        PROVE  \/ older \in past'.dropped \cup FailedIds'
               \/ \E j \in 1 .. i - 1 : past'.applied[j] = older
    BY <1>1 DEF PhoneInv, Core, RowsFit, Ordered
  <2>2. Ordered'
    BY <2>1 DEF Ordered
  <2>3. ASSUME NEW r \in late'
        PROVE  r.id \in 1 .. Len(change') /\ r.id \in past'.unheard /\ Settled(r.id)'
    <3>1. r.id \in 1 .. Len(change) /\ r.id \in past.unheard /\ Settled(r.id)
      BY DEF PhoneInv, Core, RowsFit
    <3>2. 1 .. r.id - 1 \subseteq Applied' \cup past'.dropped \cup FailedIds'
      BY <1>1, <1>3, <3>1 DEF Settled
    <3> QED
      BY <3>1, <3>2 DEF Settled
  <2> QED
    BY <1>1, <1>3, <2>2, <2>3 DEF PhoneInv, Core, RowsFit
<1>9. Ownership'
  BY <1>1, QueueShrinks
<1>10. PhoneTypeOK'
  BY <1>1 DEF PhoneInv, PhoneTypeOK
<1> QED
  BY <1>6, <1>7, <1>8, <1>9, <1>10 DEF PhoneInv, Core

LEMMA RefusedKept ==
  ASSUME PhoneInv, Refused
  PROVE  PhoneInv'
<1>1. flush \in Flushes /\ ~Confirms(flush)
  BY DEF Refused, Confirms, PhoneInv, PhoneTypeOK
<1>2. PICK f : f = [flush EXCEPT !.at = "followers"]
  OBVIOUS
<1>3. /\ f \in Flushes /\ f.at = "followers" /\ f.rest = flush.rest /\ f.id = flush.id
      /\ f.gen = flush.gen /\ f.again = flush.again /\ f.as = flush.as
      /\ f.answer = flush.answer
  BY <1>1, <1>2 DEF Flushes, FlushSteps
<1> QED
  BY <1>1, <1>2, <1>3, MarkedKept DEF Refused

LEMMA FailFollowersKept ==
  ASSUME PhoneInv, FailFollowers
  PROVE  PhoneInv'
<1>1. flush \in Flushes /\ ~Confirms(flush) /\ flush.id \notin PendingIds
  BY DEF FailFollowers, Confirms, PhoneInv, PhoneTypeOK, Core, FlushFits
<1>2. PICK f : f = [flush EXCEPT !.at = "refetch"]
  OBVIOUS
<1>3. /\ f \in Flushes /\ f.at = "refetch" /\ f.rest = flush.rest /\ f.id = flush.id
      /\ f.gen = flush.gen /\ f.again = flush.again /\ f.as = flush.as
      /\ f.answer = flush.answer
  BY <1>1, <1>2 DEF Flushes, FlushSteps
<1>4. PICK ids : ids = {id \in PendingIds : change[id].task = change[flush.id].task}
  OBVIOUS
<1>5. MarkFailed(ids)
  BY <1>4 DEF FailFollowers
<1> QED
  BY <1>1, <1>2, <1>3, <1>5, MarkedKept DEF FailFollowers

LEMMA RefetchKept ==
  ASSUME PhoneInv, Refetch
  PROVE  PhoneInv'
<1>1. /\ flush \in Flushes /\ flush.at = "refetch" /\ ~Confirms(flush)
      /\ flush.id \in 1 .. Len(change) /\ TakesAll(flush) /\ Passing(flush)
      /\ flush.rest \subseteq 1 .. Len(change) /\ change[flush.id] \in Changes
      /\ flush.id \notin PendingIds /\ KnownToBeMade(flush)
  BY InHand DEF Refetch, Confirms, PhoneInv, Core, FlushFits
<1>2. PICK row \in {NoRow, ServerRow(change[flush.id].task, session.user)} :
        flush' = [flush EXCEPT !.at = "refetched", !.answer.row = row]
  BY DEF Refetch
<1>3. row \in CacheRows \cup {NoRow} /\ row.of \in {Nobody, session.user}
  BY <1>1, <1>2, PhoneConstants
  DEF ServerRow, CacheRows, Changes, PhoneInv, PhoneTypeOK
<1>4. PICK f : f = flush'
  OBVIOUS
<1>5. /\ f.at = "refetched" /\ f.rest = flush.rest /\ f.id = flush.id
      /\ f.gen = flush.gen /\ f.again = flush.again /\ f.as = flush.as
      /\ f.answer.row = row
  BY <1>1, <1>2, <1>4 DEF Flushes, Answers
<1>6. f \in Flushes
  BY <1>1, <1>2, <1>3, <1>4 DEF Flushes, FlushSteps, Answers
<1>7. FlushFits(f) /\ KnownToBeMade(f)
  BY <1>1, <1>5 DEF FlushFits, Passing, Confirms, TakesAll, KnownToBeMade
<1>8. past.excuses = {} /\ auth.at = "none" /\ f.gen = gen
        => Mine(f.as) /\ Mine(f.answer.row.of)
  BY <1>1, <1>3, <1>5
  DEF PhoneInv, Ownership, FlushIsMine, DataIsMine, Mine, Passing
<1> QED
  BY <1>1, <1>4, <1>5, <1>6, <1>7, <1>8, FlushKept DEF Refetch

LEMMA CacheRefetchedKept ==
  ASSUME PhoneInv, CacheRefetched
  PROVE  PhoneInv'
<1>1. UNCHANGED <<taskRow, queue, session, auth, gen, late, read, change, past, mishaps>>
  BY DEF CacheRefetched
<1>2. /\ flush \in Flushes /\ flush.at = "refetched" /\ ~Confirms(flush)
      /\ Passing(flush) /\ change[flush.id] \in Changes /\ flush.id \notin PendingIds
  BY InHand DEF CacheRefetched, Confirms, PhoneInv, Core, FlushFits
<1>3. PICK f : f = Onward
  OBVIOUS
<1>4. /\ f \in Flushes /\ f.gen = flush.gen /\ f.as = Nobody /\ f.answer.row.of = Nobody
      /\ FlushFits(f) /\ KnownToBeMade(f) /\ f.at = "next"
  BY <1>2, <1>3, OnwardFits, OnwardSo
<1>5. flush' = f
  BY <1>3 DEF CacheRefetched
<1>6. RowsStay /\ past.excuses \subseteq past'.excuses
  BY <1>1, StayUnheard
<1>7. Core'
  BY <1>1, <1>4, <1>5, <1>6, CoreMoves DEF KnownToBeMade
<1>8. past.excuses = {} => FlushIsMine(flush) /\ DataIsMine
  BY DEF PhoneInv, Ownership
<1>9. past'.excuses = {} => FlushIsMine(flush)'
  BY <1>1, <1>2, <1>4, <1>5, <1>8 DEF FlushIsMine, Mine, Passing
<1>10. ASSUME auth.at = "none", past'.excuses = {}
       PROVE  /\ \A t \in TaskIds : Mine(cache'[t].of)
              /\ \A id \in QueuedIds' : Mine(change'[id].user)
              /\ Mine(read'.row.of)
  <2>1. flush.gen = gen => Mine(flush.answer.row.of)
    BY <1>1, <1>2, <1>8, <1>10 DEF FlushIsMine
  <2>2. \A t \in TaskIds : Mine(cache'[t].of)
    BY <1>1, <1>8, <1>10, <2>1 DEF CacheRefetched, DataIsMine, PhoneInv, PhoneTypeOK
  <2> QED
    BY <1>1, <1>8, <1>10, <2>2 DEF DataIsMine, QueuedIds, PendingIds, FailedIds
<1>11. Ownership'
  BY <1>1, <1>4, <1>5, <1>6, <1>9, <1>10, OwnershipKept DEF PhoneInv, Ownership
<1>12. cache' \in [TaskIds -> CacheRows \cup {NoRow}]
  BY <1>2 DEF CacheRefetched, PhoneInv, PhoneTypeOK, Flushes, Answers
<1>13. PhoneTypeOK'
  BY <1>1, <1>4, <1>5, <1>12 DEF PhoneInv, PhoneTypeOK
<1> QED
  BY <1>7, <1>11, <1>13 DEF PhoneInv

-----------------------------------------------------------------------------
(* The user *)

LEMMA CalledFits ==
  ASSUME PhoneInv, ~WipeIsNext, NEW f, f = Called
  PROVE  /\ f \in Flushes /\ f.gen <= gen /\ FlushFits(f) /\ KnownToBeMade(f)
         /\ past.excuses = {} => FlushIsMine(f)
         /\ Passing(f) => Passing(flush) /\ f.gen = flush.gen
<1>1. /\ f \in Flushes /\ f.id = flush.id
      /\ flush.at = "idle" => f.at = "read" /\ f.gen = gen /\ f.id = 0
      /\ flush.at # "idle" => /\ f.at = flush.at /\ f.gen = flush.gen /\ f.again
      /\ f.rest = flush.rest /\ f.as = flush.as /\ f.answer = flush.answer
  BY CalledSo
<1>2. /\ FlushFits(flush) /\ KnownToBeMade(flush) /\ flush.gen <= gen /\ gen \in Nat
      /\ past.excuses = {} => FlushIsMine(flush)
  BY DEF PhoneInv, PhoneTypeOK, Core, Ownership
<1>3. FlushFits(f) /\ KnownToBeMade(f)
  <2>1. CASE flush.at = "idle"
    BY <1>1, <1>2, <2>1 DEF FlushFits, KnownToBeMade, Confirms, Passing
  <2>2. CASE flush.at # "idle"
    <3>1. Passing(f) => TakesAll(f)
      BY <1>1, <1>2, <2>2 DEF FlushFits, Passing, TakesAll
    <3>2. Confirms(f) <=> Confirms(flush)
      BY <1>1, <2>2 DEF Confirms
    <3>3. FlushFits(f)
      BY <1>1, <1>2, <2>2, <3>1, <3>2 DEF FlushFits
    <3> QED
      BY <1>1, <1>2, <3>2, <3>3 DEF KnownToBeMade
  <2> QED
    BY <2>1, <2>2
<1>4. past.excuses = {} => FlushIsMine(f)
  BY <1>1, <1>2 DEF FlushIsMine, Passing, WipeIsNext
<1>5. Passing(f) => Passing(flush) /\ f.gen = flush.gen
  BY <1>1 DEF Passing
<1> QED
  BY <1>1, <1>2, <1>3, <1>4, <1>5

LEMMA TriggerKept ==
  ASSUME PhoneInv, Trigger
  PROVE  PhoneInv'
<1>1. UNCHANGED <<taskRow, queue, cache, session, auth, gen, late, read, change, past,
                  mishaps>>
  BY DEF Trigger
<1>2. PICK f : f = Called
  OBVIOUS
<1>3. /\ f \in Flushes /\ f.gen <= gen /\ FlushFits(f) /\ KnownToBeMade(f)
      /\ past.excuses = {} => FlushIsMine(f)
  BY <1>2, CalledFits DEF Trigger
<1>4. flush' = f
  BY <1>2 DEF Trigger
<1>5. RowsStay /\ past.excuses \subseteq past'.excuses
  BY <1>1, StayUnheard
<1>6. Core'
  BY <1>1, <1>3, <1>4, <1>5, CoreMoves DEF KnownToBeMade
<1>7. past'.excuses = {} => FlushIsMine(flush)'
  BY <1>1, <1>3, <1>4 DEF FlushIsMine, Mine, Passing
<1>8. Ownership'
  BY <1>1, <1>3, <1>4, <1>5, <1>7, DataStays
<1>9. PhoneTypeOK'
  BY <1>1, <1>3, <1>4 DEF PhoneInv, PhoneTypeOK
<1> QED
  BY <1>6, <1>8, <1>9 DEF PhoneInv

LEMMA TapKept ==
  ASSUME PhoneInv, NEW t \in TaskIds, NEW s \in Tapped, Tap(t, s)
  PROVE  PhoneInv'
<1>1. UNCHANGED <<taskRow, cache, session, auth, gen, late, read, past, mishaps>>
  BY DEF Tap
<1>2. /\ change \in Seq(Changes) /\ Len(change) \in Nat /\ Len(change) < MaxChanges
      /\ session.user \in Technicians /\ ~WipeIsNext
  BY LenProperties DEF Tap, PhoneInv, PhoneTypeOK, Somebody
<1>3. PICK row : row = [user |-> session.user, task |-> t, status |-> s]
  OBVIOUS
<1>4. row \in Changes /\ row.user = session.user
  BY <1>2, <1>3 DEF Changes
<1>5. PICK n : n = Len(change) + 1
  OBVIOUS
<1>6. /\ n \in Ids /\ n \in Nat /\ n = Len(change) + 1
      /\ 1 .. n = 1 .. Len(change) \cup {n} /\ n \notin 1 .. Len(change)
  BY <1>2, <1>5, PhoneBounds DEF Ids
<1>7. /\ change' \in Seq(Changes) /\ Len(change') = n
      /\ \A id \in 1 .. Len(change) : change'[id] = change[id]
      /\ change'[n] = row
  <2>1. change' = Append(change, row)
    BY <1>3 DEF Tap
  <2> QED
    BY <1>2, <1>4, <1>6, <2>1, AppendProperties
<1>8. queue' = [queue EXCEPT ![n] = "pending"] /\ queue \in [Ids -> RowStatus]
  BY <1>5 DEF Tap, PhoneInv, PhoneTypeOK
<1>9. /\ QueuedIds \cup Applied \subseteq 1 .. Len(change)
      /\ n \notin PendingIds /\ n \notin FailedIds /\ n \notin Applied
  BY <1>6 DEF PhoneInv, Core, RowsFit, QueuedIds
<1>10. /\ queue' \in [Ids -> RowStatus]
       /\ PendingIds' = PendingIds \cup {n} /\ FailedIds' = FailedIds
       /\ QueuedIds' = QueuedIds \cup {n} /\ Applied' = Applied
  <2>1. queue' \in [Ids -> RowStatus]
    BY <1>8 DEF RowStatus
  <2>2. PendingIds' = PendingIds \cup {n}
    BY <1>6, <1>8 DEF PendingIds
  <2>3. FailedIds' = FailedIds
    BY <1>6, <1>8, <1>9 DEF FailedIds
  <2> QED
    BY <1>1, <2>1, <2>2, <2>3 DEF QueuedIds, Applied
<1>11. PICK f : f = Called
  OBVIOUS
<1>12. /\ f \in Flushes /\ f.gen <= gen /\ FlushFits(f) /\ KnownToBeMade(f)
       /\ past.excuses = {} => FlushIsMine(f)
  BY <1>2, <1>11, CalledFits
<1>13. flush' = f /\ f.at # "idle" /\ (Passing(f) => f.again)
  <2>1. /\ flush.at = "idle" => f.at = "read"
        /\ flush.at # "idle" => f.at = flush.at /\ f.again
    BY <1>11, CalledSo
  <2> QED
    BY <1>11, <2>1 DEF Tap, Passing
<1>14. FlushFits(f)'
  <2>1. f.rest \subseteq 1 .. n /\ f.id \in 0 .. n
    BY <1>2, <1>6, <1>12 DEF FlushFits
  <2>2. \A taken \in f.rest \cup {f.id} : taken < n
    BY <1>2, <1>6, <1>12 DEF FlushFits
  <2>3. Passing(f) => TakesAll(f)'
    BY <1>10, <1>12, <1>13, <2>2 DEF FlushFits, TakesAll
  <2>4. f.at \in {"followers", "refetch", "refetched"} => f.id \notin PendingIds'
    <3>1. f.id < n
      BY <2>2
    <3>2. f.id \in Nat
      BY <1>6, <2>1
    <3>3. f.id # n
      BY <1>6, <3>1, <3>2
    <3> QED
      BY <1>10, <1>12, <3>3 DEF FlushFits
  <2>5. Settled(f.id)' <=> Settled(f.id)
    BY <1>1, <1>10 DEF Settled
  <2>6. /\ f.at \in {"idle", "read", "next"} <=> f.id = 0
        /\ f.id = 0 => f.as = Nobody /\ f.answer.row.of = Nobody
        /\ f.at \in {"wait", "answered", "delete"} => f.id \notin FailedIds
        /\ Confirms(f) => f.id \in Applied
        /\ f.at = "wait" => Settled(f.id)
    BY <1>12 DEF FlushFits
  <2>7. f.at = "wait" => Settled(f.id)'
    BY <2>5, <2>6
  <2>8. Confirms(f)' <=> Confirms(f)
    BY DEF Confirms
  <2>9. Passing(f)' <=> Passing(f)
    BY DEF Passing
  <2> QED
    BY <1>7, <1>10, <1>13, <2>1, <2>3, <2>4, <2>6, <2>7, <2>8, <2>9 DEF FlushFits
<1>15. FlushFits(flush)'
  BY <1>13, <1>14 DEF FlushFits, Passing, TakesAll, Confirms
<1>16. KnownToBeMade(flush)'
  BY <1>1, <1>9, <1>10, <1>12, <1>13 DEF KnownToBeMade, Confirms
<1>17. RowsFit'
  <2>1. Ordered'
    BY <1>1, <1>10 DEF PhoneInv, Core, RowsFit, Ordered
  <2>2. ASSUME NEW r \in late'
        PROVE  r.id \in 1 .. n /\ r.id \in past'.unheard /\ Settled(r.id)'
    <3>1. r.id \in 1 .. Len(change) /\ r.id \in past.unheard /\ Settled(r.id)
      BY <1>1 DEF PhoneInv, Core, RowsFit
    <3> QED
      BY <1>1, <1>6, <1>10, <3>1 DEF Settled
  <2>3. /\ QueuedIds' \cup Applied' \subseteq 1 .. n
        /\ 1 .. n \subseteq QueuedIds' \cup Applied' \cup past'.dropped
    BY <1>1, <1>6, <1>10 DEF PhoneInv, Core, RowsFit
  <2> QED
    BY <1>7, <2>1, <2>2, <2>3 DEF RowsFit
<1>18. past'.excuses = {} => FlushIsMine(flush)'
  BY <1>1, <1>12, <1>13 DEF FlushIsMine, Mine, Passing
<1>19. ASSUME auth.at = "none", past'.excuses = {}
       PROVE  /\ \A k \in TaskIds : Mine(cache'[k].of)
              /\ \A id \in QueuedIds' : Mine(change'[id].user)
              /\ Mine(read'.row.of)
  <2>1. DataIsMine /\ Mine(session.user)
    BY <1>1, <1>19 DEF PhoneInv, Ownership, DataIsMine
  <2>2. ASSUME NEW id \in QueuedIds' PROVE Mine(change'[id].user)
    BY <1>4, <1>7, <1>9, <1>10, <1>19, <2>1 DEF DataIsMine
  <2> QED
    BY <1>1, <1>19, <2>1, <2>2 DEF DataIsMine
<1>20. Ownership'
  BY <1>1, <1>12, <1>13, <1>18, <1>19, OwnershipKept
<1>21. PhoneTypeOK'
  BY <1>1, <1>2, <1>6, <1>7, <1>10, <1>12, <1>13, PhoneBounds DEF PhoneInv, PhoneTypeOK
<1> QED
  BY <1>15, <1>16, <1>17, <1>20, <1>21 DEF PhoneInv, Core

LEMMA DismissKept ==
  ASSUME PhoneInv, Dismiss
  PROVE  PhoneInv'
<1>1. UNCHANGED <<taskRow, cache, session, auth, gen, flush, late, read, change, mishaps>>
  BY DEF Dismiss
<1>2. queue' = [id \in Ids |-> IF id \in FailedIds THEN "none" ELSE queue[id]]
      /\ queue \in [Ids -> RowStatus]
  BY DEF Dismiss, PhoneInv, PhoneTypeOK
<1>3. /\ past' \in Pasts /\ past'.applied = past.applied
      /\ past'.dropped = past.dropped \cup FailedIds
      /\ past'.unheard = past.unheard /\ past'.excuses = past.excuses
  BY DEF Dismiss, PhoneInv, PhoneTypeOK, Pasts, FailedIds
<1>4. /\ queue' \in [Ids -> RowStatus] /\ Applied' = Applied
      /\ PendingIds' = PendingIds /\ FailedIds' = {} /\ QueuedIds' = PendingIds
  <2>1. queue' \in [Ids -> RowStatus]
    BY <1>2 DEF RowStatus
  <2>2. PendingIds' = PendingIds
    BY <1>2 DEF PendingIds, FailedIds
  <2>3. FailedIds' = {}
    BY <1>2 DEF FailedIds
  <2> QED
    BY <1>3, <2>1, <2>2, <2>3 DEF QueuedIds, Applied
<1>5. \A n : Settled(n)' <=> Settled(n)
  BY <1>3, <1>4 DEF Settled
<1>6. FlushFits(flush)'
  BY <1>1, <1>3, <1>4, <1>5 DEF PhoneInv, Core, FlushFits, Passing, TakesAll, Confirms, Settled
<1>7. KnownToBeMade(flush)'
  BY <1>1, <1>3, <1>4 DEF PhoneInv, Core, KnownToBeMade, Confirms, QueuedIds
<1>8. RowsFit'
  <2>1. ASSUME NEW i \in DOMAIN past'.applied, NEW older \in 1 .. past'.applied[i] - 1
        PROVE  \/ older \in past'.dropped \cup FailedIds'
               \/ \E j \in 1 .. i - 1 : past'.applied[j] = older
    BY <1>3 DEF PhoneInv, Core, RowsFit, Ordered
  <2>2. Ordered'
    BY <2>1 DEF Ordered
  <2>3. ASSUME NEW r \in late'
        PROVE  r.id \in 1 .. Len(change') /\ r.id \in past'.unheard
               /\ 1 .. r.id - 1 \subseteq Applied' \cup past'.dropped \cup FailedIds'
    BY <1>1, <1>3, <1>4 DEF PhoneInv, Core, RowsFit, Settled
  <2>4. /\ QueuedIds' \cup Applied' \subseteq 1 .. Len(change')
        /\ 1 .. Len(change') \subseteq QueuedIds' \cup Applied' \cup past'.dropped
    BY <1>1, <1>3, <1>4 DEF PhoneInv, Core, RowsFit, QueuedIds
  <2> QED
    BY <2>2, <2>3, <2>4 DEF RowsFit, Settled
<1>9. Ownership'
  <2>1. QueuedIds' \subseteq QueuedIds
    BY <1>4 DEF QueuedIds
  <2> QED
    BY <1>1, <1>3, <2>1, QueueShrinks
<1>10. PhoneTypeOK'
  BY <1>1, <1>3, <1>4 DEF PhoneInv, PhoneTypeOK
<1> QED
  BY <1>6, <1>7, <1>8, <1>9, <1>10 DEF PhoneInv, Core

\* The flush and the queue stay.
LEMMA FlushStays ==
  ASSUME PhoneInv, UNCHANGED <<queue, flush, late, change, past>>
  PROVE  Core'
<1>1. RowsStay
  BY StayUnheard
<1>2. flush \in Flushes /\ FlushFits(flush)
  BY DEF PhoneInv, PhoneTypeOK, Core
<1> QED
  BY <1>1, <1>2, CoreMoves DEF PhoneInv, Core, KnownToBeMade

LEMMA ReadTaskKept ==
  ASSUME PhoneInv, NEW t \in TaskIds, ReadTask(t)
  PROVE  PhoneInv'
<1>1. UNCHANGED <<taskRow, queue, cache, session, auth, gen, flush, late, change, past,
                  mishaps>>
  BY DEF ReadTask
<1>2. PICK row : row = ServerRow(t, session.user)
  OBVIOUS
<1>3. row \in CacheRows /\ row.of = session.user
  BY <1>2 DEF ReadTask, ServerRow, CacheRows, PhoneInv, PhoneTypeOK
<1>4. read' = [task |-> t, row |-> row]
  BY <1>2 DEF ReadTask
<1>5. Core'
  BY <1>1, FlushStays
<1>6. past.excuses = {} => FlushIsMine(flush) /\ DataIsMine
  BY DEF PhoneInv, Ownership
<1>7. past'.excuses = {} => FlushIsMine(flush)'
  BY <1>1, <1>6 DEF FlushIsMine, Mine, Passing
<1>8. past'.excuses = {} => DataIsMine'
  BY <1>1, <1>3, <1>4, <1>6 DEF DataIsMine, Mine, QueuedIds, PendingIds, FailedIds
<1>9. Ownership'
  BY <1>1, <1>7, <1>8 DEF PhoneInv, Ownership
<1>10. PhoneTypeOK'
  BY <1>1, <1>3, <1>4 DEF PhoneInv, PhoneTypeOK
<1> QED
  BY <1>5, <1>9, <1>10 DEF PhoneInv

LEMMA CacheReadKept ==
  ASSUME PhoneInv, CacheRead
  PROVE  PhoneInv'
<1>1. UNCHANGED <<taskRow, queue, session, auth, gen, flush, late, change, past, mishaps>>
  BY DEF CacheRead
<1>2. /\ cache' = [cache EXCEPT ![read.task] = read.row] /\ read' = NoRead
      /\ cache \in [TaskIds -> CacheRows \cup {NoRow}]
      /\ read.row \in CacheRows \cup {NoRow}
  BY DEF CacheRead, PhoneInv, PhoneTypeOK
<1>3. NoRead \in [task : TaskIds \cup {NoTaskId}, row : CacheRows \cup {NoRow}]
      /\ NoRead.row.of = Nobody
  BY DEF NoRead, NoRow
<1>4. Core'
  BY <1>1, FlushStays
<1>5. past.excuses = {} => FlushIsMine(flush) /\ DataIsMine
  BY DEF PhoneInv, Ownership
<1>6. past'.excuses = {} => FlushIsMine(flush)'
  BY <1>1, <1>5 DEF FlushIsMine, Mine, Passing
<1>7. past'.excuses = {} => DataIsMine'
  BY <1>1, <1>2, <1>3, <1>5 DEF DataIsMine, Mine, QueuedIds, PendingIds, FailedIds
<1>8. Ownership'
  BY <1>1, <1>6, <1>7 DEF PhoneInv, Ownership
<1>9. cache' \in [TaskIds -> CacheRows \cup {NoRow}]
  BY <1>2
<1>10. PhoneTypeOK'
  BY <1>1, <1>2, <1>3, <1>9 DEF PhoneInv, PhoneTypeOK
<1> QED
  BY <1>4, <1>8, <1>10 DEF PhoneInv

-----------------------------------------------------------------------------
(* Sessions *)

\* The data of whoever was there before is gone.
LEMMA WipedKept ==
  ASSUME PhoneInv, NEW u \in Somebody, Wiped(u), UNCHANGED <<taskRow, late, read, change, mishaps>>,
         gen' \in {gen, gen + 1},
         NEW f \in Flushes, flush' = f, FlushFits(f), f.gen <= gen',
         past.excuses = {} => ~(Passing(f) /\ f.gen = gen')
  PROVE  PhoneInv'
<1>1. /\ queue' = [id \in Ids |-> "none"] /\ cache' = [t \in TaskIds |-> NoRow]
      /\ session' = [user |-> u, token |-> u, profile |-> u] /\ auth' = NoAuth
  BY DEF Wiped
<1>2. PICK e : e = IF read # NoRead THEN past.excuses \cup {"read"} ELSE past.excuses
  OBVIOUS
<1>3. e \in SUBSET Excuses /\ (e = {} => past.excuses = {} /\ read = NoRead)
  BY <1>2 DEF PhoneInv, PhoneTypeOK, Pasts, Excuses
<1>4. past' = [past EXCEPT !.dropped = past.dropped \cup QueuedIds, !.excuses = e]
  BY <1>2 DEF Wiped
<1>5. /\ past' \in Pasts /\ past'.applied = past.applied
      /\ past'.dropped = past.dropped \cup QueuedIds
      /\ past'.unheard = past.unheard /\ past'.excuses = e
  <2>1. QueuedIds \in SUBSET Ids
    BY DEF QueuedIds, PendingIds, FailedIds
  <2> QED
    BY <1>3, <1>4, <2>1 DEF PhoneInv, PhoneTypeOK, Pasts
<1>6. /\ queue' \in [Ids -> RowStatus] /\ Applied' = Applied
      /\ PendingIds' = {} /\ FailedIds' = {} /\ QueuedIds' = {}
  <2>1. PendingIds' = {} /\ FailedIds' = {}
    BY <1>1 DEF PendingIds, FailedIds
  <2> QED
    BY <1>1, <1>5, <2>1 DEF QueuedIds, Applied, RowStatus
<1>7. \A n : Settled(n) => 1 .. n - 1 \subseteq Applied' \cup past'.dropped \cup FailedIds'
  BY <1>5, <1>6 DEF Settled, QueuedIds
<1>8. FlushFits(f)'
  <2>1. Passing(f) => TakesAll(f)'
    BY <1>6 DEF FlushFits, TakesAll
  <2>2. f.at = "wait" => Settled(f.id)'
    BY <1>7 DEF FlushFits, Settled
  <2>3. (Confirms(f)' <=> Confirms(f)) /\ (Passing(f)' <=> Passing(f))
    BY DEF Confirms, Passing
  <2>4. /\ f.rest \subseteq 1 .. Len(change) /\ f.id \in 0 .. Len(change)
        /\ f.at \in {"idle", "read", "next"} <=> f.id = 0
        /\ f.id = 0 => f.as = Nobody /\ f.answer.row.of = Nobody
        /\ Confirms(f) => f.id \in Applied
    BY DEF FlushFits
  <2> QED
    BY <1>6, <2>1, <2>2, <2>3, <2>4 DEF FlushFits
<1>9. FlushFits(flush)'
  BY <1>8 DEF FlushFits, Passing, TakesAll, Confirms
<1>10. KnownToBeMade(flush)'
  BY <1>6 DEF KnownToBeMade
<1>11. RowsFit'
  <2>1. ASSUME NEW i \in DOMAIN past'.applied, NEW older \in 1 .. past'.applied[i] - 1
        PROVE  \/ older \in past'.dropped \cup FailedIds'
               \/ \E j \in 1 .. i - 1 : past'.applied[j] = older
    <3>1. \/ older \in past.dropped \cup FailedIds
          \/ \E j \in 1 .. i - 1 : past.applied[j] = older
      BY <1>5 DEF PhoneInv, Core, RowsFit, Ordered
    <3> QED
      BY <1>5, <3>1 DEF QueuedIds
  <2>2. Ordered'
    BY <2>1 DEF Ordered
  <2>3. ASSUME NEW r \in late'
        PROVE  r.id \in 1 .. Len(change') /\ r.id \in past'.unheard /\ Settled(r.id)'
    <3>1. r.id \in 1 .. Len(change) /\ r.id \in past.unheard /\ Settled(r.id)
      BY DEF PhoneInv, Core, RowsFit
    <3> QED
      BY <1>5, <1>7, <3>1 DEF Settled
  <2>4. /\ QueuedIds' \cup Applied' \subseteq 1 .. Len(change')
        /\ 1 .. Len(change') \subseteq QueuedIds' \cup Applied' \cup past'.dropped
    BY <1>5, <1>6 DEF PhoneInv, Core, RowsFit
  <2> QED
    BY <2>2, <2>3, <2>4 DEF RowsFit
<1>12. auth'.at = "none" /\ NoRead.row.of = Nobody /\ NoRow.of = Nobody
  BY <1>1 DEF NoAuth, NoRead, NoRow
<1>13. past'.excuses = {} => FlushIsMine(flush)'
  BY <1>3, <1>5, <1>12 DEF FlushIsMine, Passing
<1>14. ASSUME past'.excuses = {} PROVE DataIsMine'
  <2>1. read'.row.of = Nobody
    BY <1>3, <1>5, <1>12, <1>14
  <2>2. session'.user = session'.profile /\ session'.token = session'.profile
    BY <1>1
  <2>3. \A t \in TaskIds : cache'[t].of = Nobody
    BY <1>1, <1>12
  <2> QED
    BY <1>6, <2>1, <2>2, <2>3 DEF DataIsMine, Mine
<1>15. Ownership'
  BY <1>13, <1>14 DEF Ownership
<1>16. /\ cache' \in [TaskIds -> CacheRows \cup {NoRow}]
       /\ session' \in [user : Somebody, token : Somebody, profile : Somebody]
       /\ auth' \in [at : {"none", "stop", "wait"}, next : Somebody]
       /\ gen' \in Nat
  BY <1>1 DEF NoAuth, Somebody, PhoneInv, PhoneTypeOK
<1>17. PhoneTypeOK'
  BY <1>5, <1>6, <1>16 DEF PhoneInv, PhoneTypeOK
<1> QED
  BY <1>9, <1>10, <1>11, <1>15, <1>17 DEF PhoneInv, Core

LEMMA LoginKept ==
  ASSUME PhoneInv, NEW u \in Technicians, Login(u)
  PROVE  PhoneInv'
<1>1. /\ UNCHANGED <<taskRow, queue, cache, gen, late, read, change, past, mishaps>>
      /\ auth = NoAuth /\ auth.at = "none"
  BY DEF Login, NoAuth
<1>2. past.excuses = {} => FlushIsMine(flush) /\ DataIsMine
  BY DEF PhoneInv, Ownership
<1>3. CASE /\ session.profile \in {Nobody, u}
           /\ session' = [user |-> u, token |-> u, profile |-> u]
           /\ flush' = Called
           /\ UNCHANGED auth
  <2>1. PICK f : f = Called
    OBVIOUS
  <2>2. /\ f \in Flushes /\ f.gen <= gen /\ FlushFits(f) /\ KnownToBeMade(f)
        /\ past.excuses = {} => FlushIsMine(f)
    BY <1>1, <2>1, CalledFits DEF WipeIsNext
  <2>3. flush' = f
    BY <1>3, <2>1
  <2>4. RowsStay
    BY <1>1, StayUnheard
  <2>5. Core'
    BY <1>1, <2>2, <2>3, <2>4, CoreMoves DEF KnownToBeMade
  <2>6. \A x : Mine(x) => Mine(x)'
    BY <1>3 DEF Mine
  <2>7. session'.user = u /\ session'.token = u /\ session'.profile = u
    BY <1>3
  <2>8. past'.excuses = {} => FlushIsMine(flush)'
    BY <1>1, <1>3, <2>2, <2>3, <2>6 DEF FlushIsMine, Passing, Mine
  <2>9. past'.excuses = {} => DataIsMine'
    BY <1>1, <1>2, <1>3, <2>7 DEF DataIsMine, Mine, QueuedIds, PendingIds, FailedIds
  <2>10. Ownership'
    BY <1>1, <2>2, <2>3, <2>8, <2>9 DEF Ownership
  <2>11. session' \in [user : Somebody, token : Somebody, profile : Somebody]
    BY <1>3 DEF Somebody
  <2>12. PhoneTypeOK'
    BY <1>1, <1>3, <2>2, <2>3, <2>11 DEF PhoneInv, PhoneTypeOK
  <2> QED
    BY <2>5, <2>10, <2>12 DEF PhoneInv
<1>4. CASE auth' = [at |-> "stop", next |-> u] /\ UNCHANGED <<session, flush>>
  <2>1. Core'
    BY <1>1, <1>4, FlushStays
  <2>2. auth'.at = "stop" /\ auth' \in [at : {"none", "stop", "wait"}, next : Somebody]
    BY <1>4 DEF Somebody
  <2>3. Ownership'
    BY <1>1, <1>4, <2>2 DEF PhoneInv, Ownership, FlushIsMine, DataIsMine
  <2>4. PhoneTypeOK'
    BY <1>1, <1>4, <2>2 DEF PhoneInv, PhoneTypeOK
  <2> QED
    BY <2>1, <2>3, <2>4 DEF PhoneInv
<1> QED
  BY <1>3, <1>4 DEF Login

LEMMA LogoutKept ==
  ASSUME PhoneInv, Logout
  PROVE  PhoneInv'
<1>1. UNCHANGED <<taskRow, queue, cache, gen, flush, late, read, change, past>>
  BY DEF Logout
<1>2. /\ auth'.at = "stop"
      /\ auth' \in [at : {"none", "stop", "wait"}, next : Somebody]
      /\ session' \in [user : Somebody, token : Somebody, profile : Somebody]
  BY DEF Logout, Somebody, PhoneInv, PhoneTypeOK
<1>3. Core'
  BY <1>1, FlushStays
<1>4. Ownership'
  BY <1>1, <1>2 DEF PhoneInv, Ownership, FlushIsMine, DataIsMine
<1>5. mishaps' \in 0 .. MaxMishaps
  BY MishapSo DEF Logout
<1>6. PhoneTypeOK'
  BY <1>1, <1>2, <1>5 DEF PhoneInv, PhoneTypeOK
<1> QED
  BY <1>3, <1>4, <1>6 DEF PhoneInv

LEMMA StopKept ==
  ASSUME PhoneInv, Stop
  PROVE  PhoneInv'
<1>1. /\ UNCHANGED <<taskRow, late, read, change, mishaps>>
      /\ auth.at = "stop" /\ gen' = gen + 1 /\ gen \in Nat /\ auth.next \in Somebody
      /\ flush \in Flushes /\ flush.gen \in Nat /\ flush.gen <= gen /\ FlushFits(flush)
  BY DEF Stop, PhoneInv, PhoneTypeOK, Flushes, Ownership, Core
<1>2. CASE flush.at = "idle"
  <2>1. Wiped(auth.next)
    BY <1>2 DEF Stop
  <2>2. CASE flush' = flush
    <3>1. ~Passing(flush) /\ flush.gen <= gen'
      BY <1>1, <1>2 DEF Passing
    <3> QED
      BY <1>1, <2>1, <2>2, <3>1, WipedKept
  <2>3. CASE flush' = [flush EXCEPT !.at = "read", !.gen = gen + 1]
    <3> DEFINE n == gen + 1
    <3> n \in Nat
      BY <1>1
    <3> HIDE DEF n
    <3>1. PICK f : f = [flush EXCEPT !.at = "read", !.gen = n]
      OBVIOUS
    <3>2. /\ f \in Flushes /\ f.at = "read" /\ f.rest = flush.rest /\ f.id = flush.id
          /\ f.gen = n /\ f.as = flush.as /\ f.answer = flush.answer
      BY <1>1, <3>1 DEF Flushes, FlushSteps
    <3>3. FlushFits(f) /\ ~Passing(f)
      BY <1>1, <1>2, <3>2 DEF FlushFits, Passing, Confirms
    <3>4. f.gen <= gen' /\ flush' = f
      BY <1>1, <2>3, <3>1, <3>2 DEF n
    <3> QED
      BY <1>1, <2>1, <3>2, <3>3, <3>4, WipedKept
  <2> QED
    BY <1>2, <2>2, <2>3 DEF Stop
<1>3. CASE flush.at # "idle"
  <2>1. auth' = [auth EXCEPT !.at = "wait"] /\ UNCHANGED <<queue, cache, session, flush, past>>
    BY <1>3 DEF Stop
  <2>2. /\ auth' \in [at : {"none", "stop", "wait"}, next : Somebody]
        /\ auth'.at = "wait"
    BY <2>1 DEF PhoneInv, PhoneTypeOK
  <2>3. Core'
    BY <1>1, <2>1, FlushStays
  <2>4. flush'.gen < gen'
    BY <1>1, <2>1
  <2>5. Ownership'
    BY <1>1, <2>1, <2>2, <2>4 DEF Ownership, FlushIsMine, DataIsMine
  <2>6. PhoneTypeOK'
    BY <1>1, <2>1, <2>2 DEF PhoneInv, PhoneTypeOK
  <2> QED
    BY <2>3, <2>5, <2>6 DEF PhoneInv
<1> QED
  BY <1>2, <1>3

LEMMA WipeKept ==
  ASSUME PhoneInv, Wipe
  PROVE  PhoneInv'
<1>1. /\ UNCHANGED <<taskRow, gen, late, read, change, mishaps>>
      /\ auth.at = "wait" /\ gen \in Nat /\ auth.next \in Somebody /\ Wiped(auth.next)
      /\ flush \in Flushes /\ flush.gen \in Nat /\ flush.gen <= gen /\ FlushFits(flush)
  BY DEF Wipe, PhoneInv, PhoneTypeOK, Flushes, Ownership, Core
<1>2. past.excuses = {} => flush.at = "idle" \/ flush.gen < gen
  BY <1>1 DEF PhoneInv, Ownership, FlushIsMine
<1>3. CASE flush' = flush
  <2>1. past.excuses = {} => ~(Passing(flush) /\ flush.gen = gen)
    BY <1>1, <1>2 DEF Passing
  <2> QED
    BY <1>1, <1>3, <2>1, WipedKept
<1>4. CASE flush' = Called
  <2>1. PICK f : f = Called
    OBVIOUS
  <2>2. /\ f \in Flushes /\ f.id = flush.id
        /\ flush.at = "idle" => f.at = "read" /\ f.gen = gen /\ f.id = 0
        /\ flush.at # "idle" => /\ f.at = flush.at /\ f.gen = flush.gen /\ f.again
        /\ f.rest = flush.rest /\ f.as = flush.as /\ f.answer = flush.answer
    BY <2>1, CalledSo
  <2>3. FlushFits(f)
    <3>1. CASE flush.at = "idle"
      BY <1>1, <2>2, <3>1 DEF FlushFits, Confirms, Passing
    <3>2. CASE flush.at # "idle"
      <4>1. Passing(f) => TakesAll(f)
        BY <1>1, <2>2, <3>2 DEF FlushFits, Passing, TakesAll
      <4>2. Confirms(f) <=> Confirms(flush)
        BY <2>2, <3>2 DEF Confirms
      <4> QED
        BY <1>1, <2>2, <3>2, <4>1, <4>2 DEF FlushFits
    <3> QED
      BY <3>1, <3>2
  <2>4. f.gen <= gen /\ (past.excuses = {} => ~(Passing(f) /\ f.gen = gen))
    BY <1>1, <1>2, <2>2 DEF Passing
  <2> QED
    BY <1>1, <1>4, <2>1, <2>2, <2>3, <2>4, WipedKept
<1> QED
  BY <1>3, <1>4 DEF Wipe, FlushAfter

LEMMA ExpireSessionKept ==
  ASSUME PhoneInv, ExpireSession
  PROVE  PhoneInv'
<1>1. UNCHANGED <<taskRow, queue, cache, auth, gen, flush, late, read, change, past>>
  BY DEF ExpireSession
<1>2. /\ session' \in [user : Somebody, token : Somebody, profile : Somebody]
      /\ session'.profile = session.profile
      /\ session'.user = Nobody /\ session'.token = Nobody
  BY DEF ExpireSession, Somebody, PhoneInv, PhoneTypeOK
<1>3. Core'
  BY <1>1, FlushStays
<1>4. past.excuses = {} => FlushIsMine(flush) /\ DataIsMine
  BY DEF PhoneInv, Ownership
<1>5. past'.excuses = {} => FlushIsMine(flush)'
  BY <1>1, <1>2, <1>4 DEF FlushIsMine, Mine, Passing
<1>6. past'.excuses = {} => DataIsMine'
  BY <1>1, <1>2, <1>4 DEF DataIsMine, Mine, QueuedIds, PendingIds, FailedIds
<1>7. Ownership'
  BY <1>1, <1>5, <1>6 DEF PhoneInv, Ownership
<1>8. mishaps' \in 0 .. MaxMishaps
  BY MishapSo DEF ExpireSession
<1>9. PhoneTypeOK'
  BY <1>1, <1>2, <1>8 DEF PhoneInv, PhoneTypeOK
<1> QED
  BY <1>3, <1>7, <1>9 DEF PhoneInv

LEMMA RestartAppKept ==
  ASSUME PhoneInv, RestartApp
  PROVE  PhoneInv'
<1>1. /\ UNCHANGED <<taskRow, queue, cache, change>>
      /\ auth' = NoAuth /\ gen' = 0 /\ read' = NoRead
  BY DEF RestartApp
<1>2. PICK heard, e :
        /\ heard = IF OnTheNetwork \/ flush.at = "delete"
                   THEN past.unheard \cup {flush.id} ELSE past.unheard
        /\ e = IF auth # NoAuth THEN past.excuses \cup {"crash"} ELSE past.excuses
  OBVIOUS
<1>3. past' = [past EXCEPT !.unheard = heard, !.excuses = e]
  BY <1>2 DEF RestartApp
<1>4. /\ heard \in SUBSET Ids /\ past.unheard \subseteq heard
      /\ OnTheNetwork \/ flush.at = "delete" => flush.id \in heard
  BY <1>2, InHand DEF OnTheNetwork, PhoneInv, PhoneTypeOK, Pasts
<1>5. e \in SUBSET Excuses /\ (e = {} => past.excuses = {} /\ auth = NoAuth)
  BY <1>2 DEF PhoneInv, PhoneTypeOK, Pasts, Excuses
<1>6. /\ past' \in Pasts /\ past'.applied = past.applied /\ past'.dropped = past.dropped
      /\ past'.unheard = heard /\ past'.excuses = e
  BY <1>3, <1>4, <1>5 DEF PhoneInv, PhoneTypeOK, Pasts
<1>7. RowsStay
  BY <1>1, <1>4, <1>6 DEF RowsStay
<1>8. PICK f : f = flush'
  OBVIOUS
<1>9. /\ f \in Flushes /\ f.at \in {"idle", "read"} /\ f.id = 0 /\ f.rest = {}
      /\ f.gen = 0 /\ f.as = Nobody /\ f.answer.row.of = Nobody /\ f.last = "stopped"
  BY <1>8, PhoneConstants DEF RestartApp, NoFlush, Flushes, FlushSteps
<1>10. FlushFits(f)
  <2>1. Len(change) \in Nat
    BY LenProperties DEF PhoneInv, PhoneTypeOK
  <2> QED
    BY <1>9, <2>1 DEF FlushFits, Passing, Confirms
<1>11. \A id \in Applied \cap QueuedIds : id \in past'.unheard
  <2>1. Confirms(flush) => flush.id \in heard
    BY <1>4 DEF Confirms, OnTheNetwork
  <2> QED
    BY <1>4, <1>6, <2>1 DEF PhoneInv, Core, KnownToBeMade
<1>12. /\ late' \subseteq [id : Ids, as : Technicians]
       /\ \A r \in late' \ late : r.id = flush.id /\ flush.at = "wait"
  <2>1. \/ late' = late
        \/ /\ flush.at = "wait" /\ flush.as # Nobody
           /\ late' = late \cup {[id |-> flush.id, as |-> flush.as]}
    BY DEF RestartApp
  <2>2. flush.at = "wait" => flush.id \in Ids /\ flush.as \in Somebody
    BY InHand DEF Flushes
  <2> QED
    BY <2>1, <2>2 DEF PhoneInv, PhoneTypeOK, Somebody
<1>13. \A r \in late' \ late : /\ r.id \in 1 .. Len(change) /\ r.id \in past'.unheard
                               /\ Settled(r.id)
  <2>1. flush.at = "wait" => /\ flush.id \in 1 .. Len(change) /\ flush.id \in heard
                             /\ Settled(flush.id)
    BY <1>4, InHand DEF OnTheNetwork, PhoneInv, Core, FlushFits
  <2> QED
    BY <1>6, <1>12, <2>1
<1>14. Core'
  BY <1>7, <1>8, <1>9, <1>10, <1>11, <1>13, CoreMoves
<1>15. auth'.at = "none" /\ NoRead.row.of = Nobody
       /\ NoRead \in [task : TaskIds \cup {NoTaskId}, row : CacheRows \cup {NoRow}]
       /\ auth' \in [at : {"none", "stop", "wait"}, next : Somebody]
  BY <1>1 DEF NoAuth, NoRead, NoRow, Somebody
<1>16. past'.excuses = {} => FlushIsMine(flush)'
  BY <1>8, <1>9, <1>15 DEF FlushIsMine, Passing
<1>17. /\ session' \in [user : Somebody, token : Somebody, profile : Somebody]
       /\ session'.user = session.token /\ session'.token = session.token
       /\ session'.profile = session.profile
  BY DEF RestartApp, PhoneInv, PhoneTypeOK
<1>18. ASSUME past'.excuses = {} PROVE DataIsMine'
  <2>1. DataIsMine /\ auth.at = "none"
    BY <1>5, <1>6, <1>18 DEF PhoneInv, Ownership, NoAuth
  <2> QED
    BY <1>1, <1>15, <1>17, <2>1 DEF DataIsMine, Mine, QueuedIds, PendingIds, FailedIds
<1>19. Ownership'
  BY <1>1, <1>8, <1>9, <1>16, <1>18 DEF Ownership
<1>20. mishaps' \in 0 .. MaxMishaps
  BY MishapSo DEF RestartApp
<1>21. PhoneTypeOK'
  BY <1>1, <1>6, <1>8, <1>9, <1>12, <1>15, <1>17, <1>20 DEF PhoneInv, PhoneTypeOK
<1> QED
  BY <1>14, <1>19, <1>21 DEF PhoneInv

-----------------------------------------------------------------------------
(* The phone: the invariant *)

LEMMA PhoneInitInv ==
  ASSUME PhoneInit
  PROVE  PhoneInv
<1>1. /\ taskRow \in [TaskIds -> [status : TaskStatuses, who : Technicians]]
      /\ queue = [id \in Ids |-> "none"] /\ cache = [t \in TaskIds |-> NoRow]
      /\ session = [user |-> Nobody, token |-> Nobody, profile |-> Nobody]
      /\ auth = NoAuth /\ gen = 0 /\ flush = NoFlush /\ late = {} /\ read = NoRead
      /\ change = <<>> /\ mishaps = 0
      /\ past = [applied |-> <<>>, dropped |-> {}, unheard |-> {}, excuses |-> {}]
  BY DEF PhoneInit, TaskStatuses
<1>2. Len(change) = 0 /\ change \in Seq(Changes) /\ DOMAIN past.applied = {}
      /\ past.applied \in Seq(Ids)
  BY <1>1, EmptySeq
<1>3. PendingIds = {} /\ FailedIds = {} /\ QueuedIds = {} /\ Applied = {}
  BY <1>1, <1>2 DEF PendingIds, FailedIds, QueuedIds, Applied
<1>4. PhoneTypeOK
  <2>1. past \in Pasts
    BY <1>1, <1>2 DEF Pasts
  <2>2. /\ queue \in [Ids -> RowStatus]
        /\ cache \in [TaskIds -> CacheRows \cup {NoRow}]
        /\ session \in [user : Somebody, token : Somebody, profile : Somebody]
        /\ auth \in [at : {"none", "stop", "wait"}, next : Somebody]
        /\ read \in [task : TaskIds \cup {NoTaskId}, row : CacheRows \cup {NoRow}]
    BY <1>1 DEF RowStatus, Somebody, NoAuth, NoRead
  <2>3. gen \in Nat /\ flush \in Flushes /\ late = {} /\ mishaps \in 0 .. MaxMishaps
        /\ Len(change) <= MaxChanges
    BY <1>1, <1>2, PhoneConstants, PhoneBounds
  <2> QED
    BY <1>1, <1>2, <2>1, <2>2, <2>3 DEF PhoneTypeOK
<1>5. Core
  <2>1. FlushFits(flush)
    BY <1>1, <1>2, <1>3 DEF FlushFits, NoFlush, NoAnswer, NoRow, Passing, Confirms
  <2>2. RowsFit
    BY <1>1, <1>2, <1>3 DEF RowsFit, Ordered
  <2> QED
    BY <1>3, <2>1, <2>2 DEF Core, KnownToBeMade
<1>6. Ownership
  BY <1>1, <1>3
  DEF Ownership, FlushIsMine, DataIsMine, Mine, Passing, NoFlush, NoAuth, NoRead, NoRow
<1> QED
  BY <1>4, <1>5, <1>6 DEF PhoneInv

LEMMA StutterKept ==
  ASSUME PhoneInv, UNCHANGED phoneVars
  PROVE  PhoneInv'
<1>1. UNCHANGED <<taskRow, queue, cache, session, auth, gen, flush, late, read, change,
                  past, mishaps>>
  BY DEF phoneVars
<1>2. Core' /\ Ownership'
  BY <1>1, PhoneStays
<1>3. PhoneTypeOK'
  BY <1>1 DEF PhoneInv, PhoneTypeOK
<1> QED
  BY <1>2, <1>3 DEF PhoneInv

LEMMA StepKept ==
  ASSUME PhoneInv, [PhoneNext]_phoneVars
  PROVE  PhoneInv'
<1>1. CASE Flush
  BY <1>1, ReadPendingKept, NextPendingKept, SendPendingKept, AnswerIsOldKept,
     NoVerdictKept, MadeKept, DeleteRowKept, RefusedKept, FailFollowersKept,
     RefetchKept, CacheRefetchedKept DEF Flush
<1>2. CASE \/ ServerHandles \/ GiveUp \/ LoseAnswer \/ LateRequestArrives
           \/ OperationEdits
  BY <1>2, ServerHandlesKept, GiveUpKept, LoseAnswerKept, LateRequestArrivesKept,
     OperationEditsKept
<1>3. CASE \E t \in TaskIds : ReadTask(t) \/ \E s \in Tapped : Tap(t, s)
  BY <1>3, ReadTaskKept, TapKept
<1>4. CASE Trigger \/ Dismiss \/ CacheRead
  BY <1>4, TriggerKept, DismissKept, CacheReadKept
<1>5. CASE \E u \in Technicians : Login(u)
  BY <1>5, LoginKept
<1>6. CASE Logout \/ Stop \/ Wipe \/ ExpireSession \/ RestartApp
  BY <1>6, LogoutKept, StopKept, WipeKept, ExpireSessionKept, RestartAppKept
<1>7. CASE UNCHANGED phoneVars
  BY <1>7, StutterKept
<1> QED
  BY <1>1, <1>2, <1>3, <1>4, <1>5, <1>6, <1>7 DEF PhoneNext

LEMMA PhoneInductive == PhoneSpec => []PhoneInv
BY PhoneInitInv, StepKept, PTL DEF PhoneSpec

-----------------------------------------------------------------------------
(* The phone: theorems *)

\* Whatever is sent, lost, sent again, wiped or restarted, queue, cache, session
\* and flush stay what they are read as, and no more rows are stored than there
\* were changes. (sync_queue_service.dart, auth_controller.dart)
THEOREM PhoneTypes == PhoneSpec => []PhoneTypeOK
<1>1. PhoneInv => PhoneTypeOK
  BY DEF PhoneInv
<1> QED
  BY <1>1, PhoneInductive, PTL

\* When a flush ends having been through everything, nothing waits: flush() asks
\* a running flush for one more pass, and whatever came since is newer than all
\* the pass has taken. (sync_queue_service.dart: flush, _run, _drain)
THEOREM NothingIsOverlooked == PhoneSpec => []NothingOverlooked
<1>1. PhoneInv => NothingOverlooked
  BY DEF PhoneInv, Core, FlushFits, NothingOverlooked
<1> QED
  BY <1>1, PhoneInductive, PTL

\* A change is on the phone, on the server, or was thrown away by a sign-out, a
\* change of user or a dismissal; and the phone calls nothing failed that the
\* server made, unless it did not hear the answer.
\* (sync_queue_service.dart: _send, _reject; auth_controller.dart: expireSession)
THEOREM ChangesAreKept == PhoneSpec => []KeptUntilVerdict
<1>1. ASSUME PhoneInv PROVE FailedIds \cap Applied \subseteq past.unheard
  <2>1. Confirms(flush) => flush.id \notin FailedIds
    BY <1>1 DEF PhoneInv, Core, FlushFits, Confirms
  <2> QED
    BY <1>1, <2>1 DEF PhoneInv, Core, KnownToBeMade, QueuedIds
<1>2. PhoneInv => KeptUntilVerdict
  BY <1>1 DEF PhoneInv, Core, RowsFit, KeptUntilVerdict
<1> QED
  BY <1>2, PhoneInductive, PTL

\* A request is sent only when all older changes are made, failed or thrown
\* away, and stays so while it is on its way; so the server makes the changes
\* of a task in their order. (sync_queue_service.dart: _drain, _reject)
THEOREM ChangesAreMadeInOrder == PhoneSpec => []MadeInOrder
<1>1. PhoneInv => MadeInOrder
  BY DEF PhoneInv, Core, RowsFit, Ordered, MadeInOrder
<1> QED
  BY <1>1, PhoneInductive, PTL

\* Whoever signs in finds nothing of the user before, in queue or cache, but for
\* the three windows named; an answer to a flush of an older generation is
\* dropped. (sync_queue_service.dart: stop; auth_controller.dart: login, logout)
THEOREM DataIsOnesOwn == PhoneSpec => []OwnDataUnlessExcused
<1>1. ASSUME PhoneInv, past.excuses = {}, auth.at = "none"
      PROVE  /\ \A t \in TaskIds : cache[t] = NoRow \/ cache[t].of = session.profile
             /\ \A id \in QueuedIds : change[id].user = session.profile
  <2>1. DataIsMine
    BY <1>1 DEF PhoneInv, Ownership
  <2>2. ASSUME NEW t \in TaskIds
        PROVE  cache[t] = NoRow \/ cache[t].of = session.profile
    <3>1. cache[t] \in CacheRows \cup {NoRow} /\ Mine(cache[t].of)
      BY <1>1, <2>1 DEF PhoneInv, PhoneTypeOK, DataIsMine
    <3> QED
      BY <3>1, PhoneConstants DEF Mine
  <2>3. ASSUME NEW id \in QueuedIds PROVE change[id].user = session.profile
    <3>1. id \in 1 .. Len(change) /\ Mine(change[id].user)
      BY <1>1, <2>1 DEF PhoneInv, Core, RowsFit, DataIsMine
    <3>2. change[id] \in Changes
      BY <1>1, <3>1, ElementOfSeq DEF PhoneInv, PhoneTypeOK
    <3>3. change[id].user # Nobody
      BY <3>2, NobodyIsNoUser DEF Changes
    <3> QED
      BY <3>1, <3>3 DEF Mine
  <2> QED
    BY <2>2, <2>3
<1>2. PhoneInv => OwnDataUnlessExcused
  BY <1>1 DEF OwnDataUnlessExcused, OnlyOwnData
<1> QED
  BY <1>2, PhoneInductive, PTL
=============================================================================
