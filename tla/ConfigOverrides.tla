--------------------------- MODULE ConfigOverrides ---------------------------
(***************************************************************************)
(* The values of one device that differ from one Config: the               *)
(* DeviceConfigOverride rows of a (device, Config) pair.                   *)
(*                                                                         *)
(* A technician asks for an override, Operation approves or rejects it; a  *)
(* rollout that carries values for the device adds an approved row when it *)
(* is released.  Whatever sends the Config to the device merges the newest *)
(* approved row that is not used yet and marks it, and the older ones, as  *)
(* consumed when the device has it.  All transactions are READ COMMITTED   *)
(* and none holds a lock that another one of these asks for: the rows are  *)
(* kept apart by conditional updates and by the unique versionNumber.      *)
(*                                                                         *)
(* Names are kept apart from those of ConfigLifecycle: ConfigProofs        *)
(* extends both.                                                           *)
(***************************************************************************)
EXTENDS Integers, Sequences

CONSTANTS
  Rollouts,    \* released rollouts, of different groups, that reach the device
  WithValues,  \* those that carry values for it
  Handlers,    \* requests served at the same time
  MaxRows      \* bound on the rows ever added

ASSUME WithValuesAreRollouts == WithValues \subseteq Rollouts
ASSUME MaxRowsIsNumber == MaxRows \in Nat

VARIABLES
  rows,       \* the rows by versionNumber
  rollout,    \* status of each rollout and of its target for the device
  delivered,  \* versions whose fields the device was given (a history variable)
  clock,      \* jobs fetched for the first time so far: all that is compared with
              \* decidedAt is pulledAt, so that time stands still in between
  handling     \* what each request is doing and what it has read

overrideVars == <<rows, rollout, delivered, clock, handling>>

\* decided is decidedAt, byRollout tells a rollout's row from a technician's
OverrideRow == [status : {"pending", "approved", "rejected"}, decided : Nat,
        consumed : BOOLEAN, byRollout : BOOLEAN]

\* approved is approvedAt; pulled is pulledAt of the target, 0 for null
Rollout == [status : {"none", "created", "approved", "active", "done"},
            approved : Nat, pulled : Nat]

IdleRequest == [pc |-> "idle", version |-> 0, time |-> 0, rollout |-> {}]

Request == [pc : {"idle", "latest", "insert", "approve",
                  "checkRelease", "latestRelease", "release",
                  "pull", "find", "mark", "apply"},
            version : Nat, time : Nat, rollout : SUBSET Rollouts]

OverridesTypeOK ==
  /\ rows \in Seq(OverrideRow)
  /\ rollout \in [Rollouts -> Rollout]
  /\ delivered \subseteq Nat
  /\ clock \in Nat
  /\ handling \in [Handlers -> Request]

OverridesInit ==
  /\ rows = <<>>
  /\ rollout = [k \in Rollouts |-> [status |-> "none", approved |-> 0, pulled |-> 0]]
  /\ delivered = {}
  /\ clock = 0
  /\ handling = [r \in Handlers |-> IdleRequest]

IsIdle(r) == handling[r].pc = "idle"
BeginRequest(r, new) == handling' = [handling EXCEPT ![r] = new]
Goto(r, pc) == handling' = [handling EXCEPT ![r].pc = pc]
Finish(r) == handling' = [handling EXCEPT ![r] = IdleRequest]

PendingRows == {v \in DOMAIN rows : rows[v].status = "pending"}

\* approved and not used yet
Waiting == {v \in DOMAIN rows : rows[v].status = "approved" /\ ~rows[v].consumed}

\* the highest versionNumber, 0 if there is none
Newest(versions) ==
  IF versions = {} THEN 0 ELSE CHOOSE v \in versions : \A w \in versions : w <= v

NewRow(status, decided, byRollout) ==
  [status |-> status, decided |-> decided, consumed |-> FALSE, byRollout |-> byRollout]

-----------------------------------------------------------------------------
(* A technician's request: overrideDeviceConfig *)

\* one pending request at a time, refused otherwise
CheckPending(r) ==
  /\ IsIdle(r)
  /\ PendingRows = {}
  /\ Goto(r, "latest")
  /\ UNCHANGED <<rows, rollout, delivered, clock>>

ReadLatest(r) ==
  /\ handling[r].pc = "latest"
  /\ BeginRequest(r, [handling[r] EXCEPT !.pc = "insert", !.version = Len(rows)])
  /\ UNCHANGED <<rows, rollout, delivered, clock>>

\* the unique (deviceId, versionNumber) turns away who read the same latest row
Insert(r) ==
  /\ handling[r].pc = "insert"
  /\ Len(rows) < MaxRows
  /\ rows' = IF Len(rows) = handling[r].version
             THEN Append(rows, NewRow("pending", 0, FALSE))
             ELSE rows
  /\ Finish(r)
  /\ UNCHANGED <<rollout, delivered, clock>>

-----------------------------------------------------------------------------
(* Operation decides: approveDeviceConfigOverride, rejectDeviceConfigOverride *)

\* decidedAt is taken before the update
StartApprove(r, v) ==
  /\ IsIdle(r)
  /\ v \in PendingRows
  /\ BeginRequest(r, [IdleRequest EXCEPT !.pc = "approve", !.version = v, !.time = clock])
  /\ UNCHANGED <<rows, rollout, delivered, clock>>

\* Wrong on purpose: approves what was rejected in the meantime
ApproveUnchecked(r) ==
  /\ handling[r].pc = "approve"
  /\ rows' = [rows EXCEPT ![handling[r].version].status = "approved",
                          ![handling[r].version].decided = handling[r].time]
  /\ Finish(r)
  /\ UNCHANGED <<rollout, delivered, clock>>

ApproveOverride(r) ==
  /\ handling[r].pc = "approve"
  /\ rows' = IF handling[r].version \in PendingRows
             THEN [rows EXCEPT ![handling[r].version].status = "approved",
                               ![handling[r].version].decided = handling[r].time]
             ELSE rows
  /\ Finish(r)
  /\ UNCHANGED <<rollout, delivered, clock>>

RejectOverride(v) ==
  /\ v \in PendingRows
  /\ rows' = [rows EXCEPT ![v].status = "rejected", ![v].decided = clock]
  /\ UNCHANGED <<rollout, delivered, clock, handling>>

-----------------------------------------------------------------------------
(* A rollout: create, approve and release, which adds the row of the device *)

CreateRollout(k) ==
  /\ rollout[k].status = "none"
  /\ k \in WithValues => PendingRows = {}
  /\ rollout' = [rollout EXCEPT ![k].status = "created"]
  /\ UNCHANGED <<rows, delivered, clock, handling>>

ApproveRollout(k) ==
  /\ rollout[k].status = "created"
  /\ rollout' = [rollout EXCEPT ![k].status = "approved", ![k].approved = clock]
  /\ UNCHANGED <<rows, delivered, clock, handling>>

\* a release that has updated the row keeps others of the same rollout waiting
Releasing(k) ==
  \E r \in Handlers : handling[r].pc \in {"checkRelease", "latestRelease", "release"}
                      /\ k \in handling[r].rollout

StartRelease(r, k) ==
  /\ IsIdle(r)
  /\ rollout[k].status = "approved" /\ ~Releasing(k)
  /\ IF k \in WithValues
     THEN /\ BeginRequest(r, [IdleRequest EXCEPT !.pc = "checkRelease", !.rollout = {k}])
          /\ UNCHANGED rollout
     ELSE /\ rollout' = [rollout EXCEPT ![k].status = "active"]
          /\ UNCHANGED handling
  /\ UNCHANGED <<rows, delivered, clock>>

\* Wrong on purpose: does not look for requests made since create()
ReleaseUnchecked(r) ==
  /\ handling[r].pc = "checkRelease"
  /\ Goto(r, "latestRelease")
  /\ UNCHANGED <<rows, rollout, delivered, clock>>

\* a technician's pending request stops the release: Operation decides it first
CheckRelease(r) ==
  /\ handling[r].pc = "checkRelease"
  /\ IF PendingRows = {} THEN Goto(r, "latestRelease") ELSE Finish(r)
  /\ UNCHANGED <<rows, rollout, delivered, clock>>

LatestForRelease(r) ==
  /\ handling[r].pc = "latestRelease"
  /\ BeginRequest(r, [handling[r] EXCEPT !.pc = "release", !.version = Len(rows)])
  /\ UNCHANGED <<rows, rollout, delivered, clock>>

\* the row and the status commit together; decidedAt is when the rollout was approved
CommitRelease(r) ==
  /\ handling[r].pc = "release"
  /\ Len(rows) < MaxRows
  /\ \E k \in handling[r].rollout :
       IF Len(rows) = handling[r].version
       THEN /\ rows' = Append(rows, NewRow("approved", rollout[k].approved, TRUE))
            /\ rollout' = [rollout EXCEPT ![k].status = "active"]
       ELSE UNCHANGED <<rows, rollout>>
  /\ Finish(r)
  /\ UNCHANGED <<delivered, clock>>

-----------------------------------------------------------------------------
(* The device fetches the job of a rollout and reports: listJobs, reportResult *)

\* mergeApprovedOverride
Fetch(r, k) ==
  /\ IsIdle(r)
  /\ rollout[k].status = "active"
  /\ BeginRequest(r, [IdleRequest EXCEPT !.pc = "pull", !.version = Newest(Waiting),
                                            !.rollout = {k}])
  /\ UNCHANGED <<rows, rollout, delivered, clock>>

\* pulledAt is set at the first fetch; the merged fields are handed out
Pull(r) ==
  /\ handling[r].pc = "pull"
  /\ \E k \in handling[r].rollout :
       IF rollout[k].status = "active" /\ rollout[k].pulled = 0
       THEN /\ clock' = clock + 1
            /\ rollout' = [rollout EXCEPT ![k].pulled = clock']
       ELSE UNCHANGED <<rollout, clock>>
  /\ delivered' = delivered \cup ({handling[r].version} \ {0})
  /\ Finish(r)
  /\ UNCHANGED rows

\* the claim of the target; only a success of a job that was fetched consumes
Report(r, k) ==
  /\ IsIdle(r)
  /\ rollout[k].status = "active"
  /\ rollout' = [rollout EXCEPT ![k].status = "done"]
  /\ \/ UNCHANGED handling
     \/ /\ rollout[k].pulled # 0
        /\ BeginRequest(r, [IdleRequest EXCEPT !.pc = "find", !.time = rollout[k].pulled])
  /\ UNCHANGED <<rows, delivered, clock>>

\* the newest row that was approved before the job was first fetched
FindPulled(r) ==
  LET pulled == {v \in Waiting : rows[v].decided < handling[r].time}
  IN  /\ handling[r].pc = "find"
      /\ IF pulled = {}
         THEN Finish(r)
         ELSE BeginRequest(r, [handling[r] EXCEPT !.pc = "mark",
                                                  !.version = Newest(pulled)])
      /\ UNCHANGED <<rows, rollout, delivered, clock>>

\* Wrong on purpose: newer rows too
MarkAll(r) ==
  /\ handling[r].pc = "mark"
  /\ rows' = [v \in DOMAIN rows |-> [rows[v] EXCEPT !.consumed = @ \/ v \in Waiting]]
  /\ Finish(r)
  /\ UNCHANGED <<rollout, delivered, clock>>

\* markOverrideConsumed: the row that was used and those it had replaced
Mark(r) ==
  /\ handling[r].pc = "mark"
  /\ rows' = [v \in DOMAIN rows |->
                [rows[v] EXCEPT !.consumed = @ \/ (/\ v \in Waiting
                                          /\ v <= handling[r].version)]]
  /\ Finish(r)
  /\ UNCHANGED <<rollout, delivered, clock>>

-----------------------------------------------------------------------------
(* A technician sends the Config: applyConfig *)

StartApply(r) ==
  /\ IsIdle(r)
  /\ BeginRequest(r, [IdleRequest EXCEPT !.pc = "apply", !.version = Newest(Waiting)])
  /\ UNCHANGED <<rows, rollout, delivered, clock>>

\* the device has it; one that refused it drops the request
Apply(r) ==
  /\ handling[r].pc = "apply"
  /\ delivered' = delivered \cup ({handling[r].version} \ {0})
  /\ IF handling[r].version = 0 THEN Finish(r) ELSE Goto(r, "mark")
  /\ UNCHANGED <<rows, rollout, clock>>

-----------------------------------------------------------------------------
\* a request ends early: refused, its transaction undone, or its process stopped
Drop(r) ==
  /\ ~IsIdle(r)
  /\ Finish(r)
  /\ UNCHANGED <<rows, rollout, delivered, clock>>

Ask(r) == CheckPending(r) \/ ReadLatest(r) \/ Insert(r)

DecideOverride(r) ==
  \/ \E v \in DOMAIN rows : StartApprove(r, v)
  \/ ApproveOverride(r)

ReleaseRollout(r) ==
  \/ \E k \in Rollouts : StartRelease(r, k)
  \/ CheckRelease(r) \/ LatestForRelease(r) \/ CommitRelease(r)

Deliver(r) ==
  \/ \E k \in Rollouts : Fetch(r, k) \/ Report(r, k)
  \/ Pull(r) \/ FindPulled(r) \/ Mark(r)
  \/ StartApply(r) \/ Apply(r)

OverridesNext ==
  \/ \E r \in Handlers : \/ Ask(r) \/ DecideOverride(r) \/ ReleaseRollout(r)
                        \/ Deliver(r) \/ Drop(r)
  \/ \E v \in DOMAIN rows : RejectOverride(v)
  \/ \E k \in Rollouts : CreateRollout(k) \/ ApproveRollout(k)

OverridesSpec == OverridesInit /\ [][OverridesNext]_overrideVars

-----------------------------------------------------------------------------
(* What holds *)

\* The first of two decisions on a request counts and what was used stays used,
\* however approvals, rejections and deliveries interleave
DecisionsStand ==
  [][\A v \in DOMAIN rows :
       /\ rows[v].status # "pending" => rows'[v].status = rows[v].status
       /\ rows[v].consumed => rows'[v].consumed]_overrideVars

\* What is marked as used was given to the device, or was replaced by a newer
\* row that was
UsedWasGiven ==
  \A v \in DOMAIN rows : rows[v].consumed => \E w \in delivered : v <= w

\* The same for what only technicians apply: whatever overlaps, as long as no
\* rollout is made (applyConfig marks the version it has sent)
AppliedWasGiven ==
  (\A k \in Rollouts : rollout[k].status = "none") => UsedWasGiven

-----------------------------------------------------------------------------
(* What holds as long as requests do not overlap *)

\* A (device, Config) pair has one pending request at most
OnePending == \A v, w \in PendingRows : v = w

\* No rollout puts its values over a request that still waits for a decision:
\* once approved the request would never be sent
RequestsComeFirst ==
  \A v \in PendingRows, w \in DOMAIN rows : rows[w].byRollout => w < v

\* A row that a newer one replaced does not come back after that one was used
ReplacedStaysAway ==
  \A v \in Waiting, w \in DOMAIN rows : rows[w].consumed => w < v
=============================================================================
