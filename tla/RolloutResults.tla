--------------------------- MODULE RolloutResults ---------------------------
(***************************************************************************)
(* How the results of one released Campaign Rollout (applyMode real) are   *)
(* collected: devices fetch their job and report, the timeout sweep skips  *)
(* or fails the silent ones, Operation resumes a paused rollout or rolls   *)
(* it back, all at the same time.                                          *)
(*                                                                         *)
(* Every handler is cut where another one can run: at each SQL statement.  *)
(* The database is PostgreSQL at READ COMMITTED: a statement sees what was *)
(* committed when it began, plus the writes of its own transaction, and an *)
(* updated row stays locked until the transaction ends.  A worker is one   *)
(* request or one item of the sweep being served; what it read earlier     *)
(* stays in its record and goes stale there.                               *)
(***************************************************************************)
EXTENDS Integers, FiniteSets

CONSTANTS
  Devices,        \* the targets of the rollout
  Workers,        \* requests and sweep items served at the same time
  NoDevice,       \* the device of an idle worker
  MaxWindow,      \* bound on the number of activation windows (resumes + 1)
  ThresholdNum,   \* AUTO_PAUSE_FAILURE_RATE_THRESHOLD as a fraction
  ThresholdDen

ASSUME DevicesFinite == IsFiniteSet(Devices)
ASSUME NoDeviceFresh == NoDevice \notin Devices
ASSUME ThresholdIsFraction ==
  ThresholdNum \in Nat /\ ThresholdDen \in Nat \ {0} /\ MaxWindow \in Nat

VARIABLES
  rollout,    \* the CampaignRollout row: status, counters, activation window
  target,     \* the CampaignRolloutTarget rows, one per device
  delivered,  \* the devices a job was handed to
  worker,     \* what each worker is doing and what it has read
  rollback    \* the rollback request

vars == <<rollout, target, delivered, worker, rollback>>

Open == {"active", "paused"}
Closed == {"completed", "cancelled"}
Decided == {"success", "failed", "skipped_offline"}

-----------------------------------------------------------------------------
(* The rows.  Times are activation windows: release opens window 1 and each *)
(* resume the next one.  stamp is updatedAt, since the window in which the  *)
(* result was really recorded, noted whether resultDetail carries the mark  *)
(* of a late report.                                                        *)

Rollout == [status : Open \cup Closed, success : Nat, failure : Nat, window : Nat]

Target == [status : {"pending"} \cup Decided, pulled : BOOLEAN, stamp : Nat,
           since : Nat, noted : BOOLEAN]

IdleWorker ==
  [pc |-> "idle", op |-> "none", dev |-> NoDevice, result |-> "failed",
   status |-> "active", window |-> 0, stamp |-> 0,
   success |-> 0, failure |-> 0, pending |-> 0, recent |-> 0]

InTx == {"success", "failure", "pending", "recent", "write"}

Worker ==
  [pc : {"idle", "mark", "find", "claim", "note"} \cup InTx,
   op : {"none", "pull", "report", "expire", "late", "skip"},
   dev : Devices \cup {NoDevice}, result : Decided, status : Open,
   window : Nat, stamp : Nat,
   success : Nat, failure : Nat, pending : Nat, recent : Nat]

TypeOK ==
  /\ rollout \in Rollout
  /\ target \in [Devices -> Target]
  /\ delivered \subseteq Devices
  /\ worker \in [Workers -> Worker]
  /\ rollback \in [pc : {"idle", "loaded", "ready", "cancelling", "done"},
                   status : Open \cup {"completed"}, affected : SUBSET Devices]

Init ==
  /\ rollout = [status |-> "active", success |-> 0, failure |-> 0, window |-> 1]
  /\ target = [d \in Devices |->
       [status |-> "pending", pulled |-> FALSE, stamp |-> 0, since |-> 0, noted |-> FALSE]]
  /\ delivered = {}
  /\ worker = [w \in Workers |-> IdleWorker]
  /\ rollback = [pc |-> "idle", status |-> "active", affected |-> {}]

-----------------------------------------------------------------------------
(* Row locks *)

\* d's row was updated by a transaction that has not ended
Locked(d) == \E w \in Workers : worker[w].pc \in InTx /\ worker[w].dev = d

\* the rollout's row is locked by the rollback's transaction
RolloutLocked == rollback.pc = "cancelling"

\* the record of a request that goes on at pc to give d that result
Job(pc, op, d, result) ==
  [IdleWorker EXCEPT !.pc = pc, !.op = op, !.dev = d, !.result = result]

Begin(w, new) == worker' = [worker EXCEPT ![w] = new]

Finish(w) == worker' = [worker EXCEPT ![w] = IdleWorker]

\* what a transaction that records nothing makes of its request: a device's
\* report is kept as a late report, the sweep just goes on
GiveUp(w) ==
  worker' = [worker EXCEPT ![w] =
    IF worker[w].op = "report"
    THEN Job("note", "report", worker[w].dev, "failed")
    ELSE IdleWorker]

\* the status a claim asks its target to have
ClaimedFrom(w) == IF worker[w].op = "late" THEN "skipped_offline" ELSE "pending"

\* the target of w's transaction as that transaction sees it
ClaimedTarget(w) ==
  [target[worker[w].dev] EXCEPT
     !.status = worker[w].result, !.stamp = worker[w].stamp,
     !.since = worker[w].stamp, !.noted = FALSE]

\* the targets as w's transaction sees them: committed rows and its own write
Seen(w) == [target EXCEPT ![worker[w].dev] = ClaimedTarget(w)]

Having(view, s) == {d \in Devices : view[d].status = s}

\* the failures w counts against the threshold: those touched since the window
\* that was open when w read the rollout
RecentFailures(w) == {d \in Having(Seen(w), "failed") : Seen(w)[d].stamp >= worker[w].window}

OverThreshold(n) == n * ThresholdDen > ThresholdNum * Cardinality(Devices)

-----------------------------------------------------------------------------
(* A device polls for jobs: listJobs *)

\* it reads the open job, or the job it was skipped for, and will mark it
ListJob(w, d) ==
  /\ worker[w].pc = "idle"
  /\ \/ target[d].status = "pending" /\ rollout.status = "active"
     \/ target[d].status = "skipped_offline" /\ rollout.status \in {"active", "completed"}
  /\ Begin(w, Job("mark", "pull", d, "failed"))
  /\ UNCHANGED <<rollout, target, delivered, rollback>>

\* findProblem: the payload no longer fits the device, the job fails instead
RefuseJob(w, d) ==
  /\ worker[w].pc = "idle"
  /\ target[d].status = "pending" /\ rollout.status = "active"
  /\ Begin(w, Job("find", "expire", d, "failed"))
  /\ UNCHANGED <<rollout, target, delivered, rollback>>

\* pulledAt is set once and only while the row still waits; listJobs hands the
\* job out whatever that update did, reportResult goes on to the result
MarkPulled(w) ==
  LET d == worker[w].dev
      waiting == {"pending"} \cup IF worker[w].op = "pull" THEN {"skipped_offline"} ELSE {}
      marks == ~target[d].pulled /\ target[d].status \in waiting
  IN  /\ worker[w].pc = "mark"
      /\ marks => ~Locked(d)
      /\ target' = IF marks
                   THEN [target EXCEPT ![d].pulled = TRUE, ![d].stamp = rollout.window]
                   ELSE target
      /\ IF worker[w].op = "pull"
         THEN delivered' = delivered \cup {d} /\ Finish(w)
         ELSE UNCHANGED delivered /\ Begin(w, [worker[w] EXCEPT !.pc = "find"])
      /\ UNCHANGED <<rollout, rollback>>

-----------------------------------------------------------------------------
(* A device reports its result: reportResult *)

\* the target still waits for its result
ReportPending(w, d, result) ==
  /\ worker[w].pc = "idle"
  /\ target[d].status = "pending" /\ rollout.status \in Open
  /\ Begin(w, Job(IF target[d].pulled THEN "find" ELSE "mark", "report", d, result))
  /\ UNCHANGED <<rollout, target, delivered, rollback>>

\* the device was skipped and comes back
ReportSkipped(w, d, result) ==
  /\ worker[w].pc = "idle"
  /\ target[d].status = "skipped_offline" /\ rollout.status \in {"active", "completed"}
  /\ Begin(w, Job("claim", "late", d, result))
  /\ UNCHANGED <<rollout, target, delivered, rollback>>

\* too late: the report is only noted
ReportClosed(w, d) ==
  /\ worker[w].pc = "idle"
  /\ ~(target[d].status = "pending" /\ rollout.status \in Open)
  /\ ~(target[d].status = "skipped_offline" /\ rollout.status \in {"active", "completed"})
  /\ Begin(w, Job("note", "report", d, "failed"))
  /\ UNCHANGED <<rollout, target, delivered, rollback>>

\* appendLateReport: once per row, and the row's updatedAt moves with it.  The
\* text is compared and set: a note that loses against a recorded late result
\* leaves what that result, which rewrites the text, leaves anyway
AppendLateReport(w) ==
  LET d == worker[w].dev
  IN  /\ worker[w].pc = "note"
      /\ ~target[d].noted => ~Locked(d)
      /\ target' = IF target[d].noted THEN target
                   ELSE [target EXCEPT ![d].noted = TRUE, ![d].stamp = rollout.window]
      /\ Finish(w)
      /\ UNCHANGED <<rollout, delivered, rollback>>

-----------------------------------------------------------------------------
(* The timeout sweep *)

\* nobody fetched the job within pullTimeoutHours
SkipOverdue(w, d) ==
  /\ worker[w].pc = "idle"
  /\ rollout.status = "active"
  /\ target[d].status = "pending" /\ ~target[d].pulled
  /\ Begin(w, Job("claim", "skip", d, "skipped_offline"))
  /\ UNCHANGED <<rollout, target, delivered, rollback>>

\* fetched, then silent for applyTimeoutMinutes
ExpireSilent(w, d) ==
  /\ worker[w].pc = "idle"
  /\ rollout.status \in Open
  /\ target[d].status = "pending" /\ target[d].pulled
  /\ Begin(w, Job("find", "expire", d, "failed"))
  /\ UNCHANGED <<rollout, target, delivered, rollback>>

-----------------------------------------------------------------------------
(* Recording: recordTargetResult (op report and expire), markTarget-         *)
(* SkippedOffline (skip), recordLateTargetResult (late)                      *)

\* recordTargetResult looks for the target before its transaction and keeps the
\* rollout it read
FindTarget(w) ==
  /\ worker[w].pc = "find"
  /\ IF target[worker[w].dev].status = "pending" /\ rollout.status \in Open
     THEN Begin(w, [worker[w] EXCEPT !.pc = "claim", !.status = rollout.status,
                                     !.window = rollout.window])
     ELSE GiveUp(w)
  /\ UNCHANGED <<rollout, target, delivered, rollback>>

\* Wrong on purpose: updates by id, without asking for the status again
ClaimAnyStatus(w) ==
  /\ worker[w].pc = "claim" /\ ~Locked(worker[w].dev)
  /\ Begin(w, [worker[w] EXCEPT !.pc = "success", !.stamp = rollout.window])
  /\ UNCHANGED <<rollout, target, delivered, rollback>>

\* Wrong on purpose: a skip that does not look at pulledAt again
ClaimFetched(w) ==
  /\ worker[w].pc = "claim" /\ ~Locked(worker[w].dev)
  /\ IF target[worker[w].dev].status = ClaimedFrom(w)
     THEN Begin(w, [worker[w] EXCEPT
                      !.pc = IF worker[w].op = "skip" THEN "pending" ELSE "success",
                      !.stamp = rollout.window])
     ELSE GiveUp(w)
  /\ UNCHANGED <<rollout, target, delivered, rollback>>

\* the conditional update that opens the transaction; it waits for the row
ClaimTarget(w) ==
  LET t == target[worker[w].dev]
      claims == /\ t.status = ClaimedFrom(w)
                /\ worker[w].op = "skip" => ~t.pulled
  IN  /\ worker[w].pc = "claim"
      /\ claims => ~Locked(worker[w].dev)
      /\ IF claims
         THEN Begin(w, [worker[w] EXCEPT
                          !.pc = IF worker[w].op = "skip" THEN "pending" ELSE "success",
                          !.stamp = rollout.window])
         ELSE GiveUp(w)
      /\ UNCHANGED <<rollout, target, delivered, rollback>>

CountSuccess(w) ==
  /\ worker[w].pc = "success"
  /\ Begin(w, [worker[w] EXCEPT !.pc = "failure",
                                !.success = Cardinality(Having(Seen(w), "success"))])
  /\ UNCHANGED <<rollout, target, delivered, rollback>>

CountFailure(w) ==
  /\ worker[w].pc = "failure"
  /\ Begin(w, [worker[w] EXCEPT !.pc = "pending",
                                !.failure = Cardinality(Having(Seen(w), "failed"))])
  /\ UNCHANGED <<rollout, target, delivered, rollback>>

CountPending(w) ==
  /\ worker[w].pc = "pending"
  /\ Begin(w, [worker[w] EXCEPT
                 !.pc = IF worker[w].op \in {"skip", "late"} THEN "write" ELSE "recent",
                 !.pending = Cardinality(Having(Seen(w), "pending"))])
  /\ UNCHANGED <<rollout, target, delivered, rollback>>

CountRecent(w) ==
  /\ worker[w].pc = "recent"
  /\ Begin(w, [worker[w] EXCEPT !.pc = "write", !.recent = Cardinality(RecentFailures(w))])
  /\ UNCHANGED <<rollout, target, delivered, rollback>>

\* Wrong on purpose: forgets that its own target no longer waits
StatusOffByOne(w) == IF worker[w].pending <= 1 THEN "completed" ELSE worker[w].status

\* recordTargetResult: the status is computed from what was read, or is the one
\* that was read
StatusAfter(w) ==
  CASE worker[w].pending = 0 -> "completed"
    [] worker[w].pending > 0 /\ worker[w].status = "active" /\ OverThreshold(worker[w].recent)
         -> "paused"
    [] OTHER -> worker[w].status

\* Wrong on purpose: closes nothing
ClosesNothing(w) == FALSE

\* the other two close an active rollout and leave any other status alone
ClosesActive(w) == worker[w].pending = 0 /\ rollout.status = "active"

RolloutAfter(w) ==
  CASE worker[w].op = "skip" ->
         IF ClosesActive(w) THEN [rollout EXCEPT !.status = "completed"] ELSE rollout
    [] worker[w].op = "late" ->
         [rollout EXCEPT !.success = worker[w].success, !.failure = worker[w].failure,
                         !.status = IF ClosesActive(w) THEN "completed" ELSE @]
    [] OTHER ->
         [rollout EXCEPT !.success = worker[w].success, !.failure = worker[w].failure,
                         !.status = StatusAfter(w)]

\* a skip writes the rollout only when it finds one to close
WritesRollout(w) == worker[w].op = "skip" => ClosesActive(w)

\* update of the rollout's row and commit: nothing waits in between
WriteAndCommit(w) ==
  /\ worker[w].pc = "write"
  /\ WritesRollout(w) => ~RolloutLocked
  /\ rollout' = RolloutAfter(w)
  /\ target' = Seen(w)
  /\ Finish(w)
  /\ UNCHANGED <<delivered, rollback>>

\* the transaction is undone: it timed out, lost its connection or was chosen to
\* break a deadlock.  The recorders swallow the error and answer false
AbortTransaction(w) ==
  /\ worker[w].pc \in InTx
  /\ GiveUp(w)
  /\ UNCHANGED <<rollout, target, delivered, rollback>>

-----------------------------------------------------------------------------
(* Operation *)

\* resume is one conditional update
Resume ==
  /\ rollout.status = "paused" /\ ~RolloutLocked
  /\ rollout.window < MaxWindow
  /\ rollout' = [rollout EXCEPT !.status = "active", !.window = @ + 1]
  /\ UNCHANGED <<target, delivered, worker, rollback>>

\* rollback reads the rollout, then who received the payload, then begins
LoadRollback ==
  /\ rollback.pc = "idle"
  /\ rollout.status # "cancelled"
  /\ rollback' = [rollback EXCEPT !.pc = "loaded", !.status = rollout.status]
  /\ UNCHANGED <<rollout, target, delivered, worker>>

\* Wrong on purpose: forgets the devices that fetched and did not answer
OnlySucceeded == {d \in Devices : target[d].status = "success"}

Affected == {d \in Devices : \/ target[d].status = "success"
                             \/ target[d].status = "pending" /\ target[d].pulled}

ListAffected ==
  /\ rollback.pc = "loaded"
  /\ rollback' = IF Affected = {} THEN [rollback EXCEPT !.pc = "idle"]
                 ELSE [rollback EXCEPT !.pc = "ready", !.affected = Affected]
  /\ UNCHANGED <<rollout, target, delivered, worker>>

\* an open rollout is cancelled first, if it is still as it was read; for a
\* completed one the rollback rollout is created at once
BeginCancel ==
  /\ rollback.pc = "ready"
  /\ rollback' = CASE rollback.status = "completed" -> [rollback EXCEPT !.pc = "done"]
                   [] rollback.status # "completed" /\ rollback.status = rollout.status
                        -> [rollback EXCEPT !.pc = "cancelling"]
                   [] OTHER -> [rollback EXCEPT !.pc = "idle", !.affected = {}]
  /\ UNCHANGED <<rollout, target, delivered, worker>>

CancelTargets(waiting) ==
  target' = [d \in Devices |->
    IF d \in waiting
    THEN [target[d] EXCEPT !.status = "failed", !.stamp = rollout.window,
                           !.since = rollout.window, !.noted = FALSE]
    ELSE target[d]]

\* Wrong on purpose: counts every target as failed
CancelCountingAll ==
  LET waiting == Having(target, "pending")
  IN  /\ rollback.pc = "cancelling"
      /\ \A d \in waiting : ~Locked(d)
      /\ rollout' = [rollout EXCEPT !.status = "cancelled",
                                    !.failure = @ + Cardinality(Devices)]
      /\ CancelTargets(waiting)
      /\ rollback' = [rollback EXCEPT !.pc = "done"]
      /\ UNCHANGED <<delivered, worker>>

\* it waits for every pending row, fails them all, creates the rollback rollout
\* with the devices listed before, and commits
CommitCancel ==
  LET waiting == Having(target, "pending")
  IN  /\ rollback.pc = "cancelling"
      /\ \A d \in waiting : ~Locked(d)
      /\ rollout' = [rollout EXCEPT !.status = "cancelled",
                                    !.failure = @ + Cardinality(waiting)]
      /\ CancelTargets(waiting)
      /\ rollback' = [rollback EXCEPT !.pc = "done"]
      /\ UNCHANGED <<delivered, worker>>

AbortCancel ==
  /\ rollback.pc = "cancelling"
  /\ rollback' = [rollback EXCEPT !.pc = "idle", !.affected = {}]
  /\ UNCHANGED <<rollout, target, delivered, worker>>

\* the process stops: whatever was being served is gone, its transactions undone
Crash ==
  /\ worker' = [w \in Workers |-> IdleWorker]
  /\ rollback' = IF rollback.pc = "done" THEN rollback
                 ELSE [rollback EXCEPT !.pc = "idle", !.affected = {}]
  /\ UNCHANGED <<rollout, target, delivered>>

-----------------------------------------------------------------------------
Request(w) ==
  \E d \in Devices :
    \/ ListJob(w, d) \/ RefuseJob(w, d)
    \/ \E result \in {"success", "failed"} :
         ReportPending(w, d, result) \/ ReportSkipped(w, d, result)
    \/ ReportClosed(w, d)
    \/ SkipOverdue(w, d) \/ ExpireSilent(w, d)

Count(w) == CountSuccess(w) \/ CountFailure(w) \/ CountPending(w) \/ CountRecent(w)

Serve(w) ==
  \/ MarkPulled(w) \/ AppendLateReport(w) \/ FindTarget(w) \/ ClaimTarget(w)
  \/ Count(w) \/ WriteAndCommit(w)

Rollback ==
  LoadRollback \/ ListAffected \/ BeginCancel \/ CommitCancel \/ AbortCancel

Next ==
  \/ \E w \in Workers : Request(w) \/ Serve(w) \/ AbortTransaction(w)
  \/ Resume \/ Rollback \/ Crash

Spec == Init /\ [][Next]_vars

\* Every request ends: the event loop runs what can run, a row goes to the
\* waiters in turn, and the database breaks a deadlock by undoing one side
Deadlocked(w) ==
  /\ RolloutLocked /\ worker[w].pc = "write" /\ WritesRollout(w)
  /\ target[worker[w].dev].status = "pending"

BreakDeadlock(w) == Deadlocked(w) /\ AbortTransaction(w)

Fairness ==
  /\ \A w \in Workers : /\ WF_vars(FindTarget(w) \/ Count(w))
                        /\ SF_vars(ClaimTarget(w) \/ MarkPulled(w) \/ AppendLateReport(w))
                        /\ SF_vars(WriteAndCommit(w))
                        /\ WF_vars(BreakDeadlock(w))
  /\ SF_vars(CommitCancel)

FairSpec == Spec /\ Fairness

-----------------------------------------------------------------------------
(* What holds *)

\* A closed rollout never changes its status again: no result, late or counted
\* from an old read, reopens what was completed or cancelled
ClosedIsFinal == [][rollout.status \in Closed => rollout'.status = rollout.status]_vars

\* A rollout is closed only when no target waits for its result any more
NoneWaitsInClosed ==
  rollout.status \in Closed => \A d \in Devices : target[d].status # "pending"

\* A result is decided once; only a skipped device may still turn in a real one
ResultIsFinal ==
  [][\A d \in Devices :
       target'[d].status # target[d].status =>
         \/ target[d].status = "pending"
         \/ target[d].status = "skipped_offline" /\ target'[d].status \in {"success", "failed"}]_vars

\* The sweep never skips as offline a device that was handed the payload, so
\* that a rollback finds everyone who may hold it
FetchedNeverSkipped ==
  [][\A d \in delivered :
       target[d].status = "pending" => target'[d].status # "skipped_offline"]_vars

\* The counters shown for the rollout may lag behind the targets but never
\* report a success or a failure that is not there
CountersNeverOverstate ==
  /\ rollout.success <= Cardinality(Having(target, "success"))
  /\ rollout.failure <= Cardinality(Having(target, "failed"))

\* No request waits for ever, whatever rows it competes for
RequestsEnd == \A w \in Workers : worker[w].pc # "idle" ~> worker[w].pc = "idle"

\* ... and a rollback that began its transaction ends it
RollbackEnds == rollback.pc = "cancelling" ~> rollback.pc # "cancelling"

EveryoneEnds == RequestsEnd /\ RollbackEnds

\* Recording keeps the rollout's contract: see RolloutContract
Undecided == Having(target, "pending")

Promise == INSTANCE RolloutContract WITH status <- rollout.status,
                                         decided <- Devices \ Undecided

KeepsContract == Promise!Contract

-----------------------------------------------------------------------------
(* What the comments and documents promise and only requests served one at   *)
(* a time keep                                                               *)

Quiescent == \A w \in Workers : worker[w].pc \notin InTx

\* "When every device is done the rollout is closed" (recordTargetResult)
AllDecidedCloses ==
  Quiescent /\ (\A d \in Devices : target[d].status # "pending") => rollout.status \in Closed

\* The counters are recomputed with each result, so they are exact once nobody
\* is recording
CountersExact ==
  Quiescent => /\ rollout.success = Cardinality(Having(target, "success"))
               /\ rollout.failure = Cardinality(Having(target, "failed"))

\* "The last device that waits, skipped, completes the rollout": a paused rollout
\* still has somebody to wait for
PausedStillWaits ==
  rollout.status = "paused" => \E d \in Devices : target[d].status = "pending"

\* A resumed rollout is paused again only for failures of its new window
ResumeHolds ==
  [][rollout.status = "active" /\ rollout'.status = "paused" =>
       OverThreshold(Cardinality(
         {d \in Having(target, "failed")' : target'[d].since >= rollout.window}))]_vars

\* The failures counted against the threshold are those of the current window
RecentCountsOnlyNew ==
  \A w \in Workers :
    worker[w].pc = "write" =>
      worker[w].recent <= 1 + Cardinality(
        {d \in Having(target, "failed") : target[d].since >= worker[w].window})

\* "Auto Pause when the failures exceed the threshold": a result recorded in a
\* rollout that stays active leaves its failures of this window within it
LeavesWithinThreshold ==
  (\E d \in Devices : target[d].status = "pending" /\ target'[d].status \in {"success", "failed"})
  /\ rollout'.status = "active" /\ Having(target, "pending")' # {} =>
    ~OverThreshold(Cardinality(
       {d \in Having(target, "failed")' : target'[d].since >= rollout.window}))

OverThresholdPauses == [][LeavesWithinThreshold]_vars

\* A rollback that cancels goes to every device that fetched the payload and
\* succeeded or did not answer yet
Fetched(statuses) == {d \in delivered : target[d].status \in statuses}

ListsHolders ==
  rollback.pc = "cancelling" /\ rollback'.pc = "done" =>
    Fetched({"success", "pending"}) \subseteq rollback.affected

RollbackListsHolders == [][ListsHolders]_vars

\* ... and to one that was skipped, came back for its job and may be using it
ListsReturned ==
  rollback.pc = "cancelling" /\ rollback'.pc = "done" =>
    Fetched({"success", "pending", "skipped_offline"}) \subseteq rollback.affected

\* "already-reported" is what a target that has a result answers: only such a
\* target carries a late report
NotedAfterResult == \A d \in Devices : target[d].noted => target[d].status # "pending"
=============================================================================
