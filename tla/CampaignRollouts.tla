-------------------------- MODULE CampaignRollouts --------------------------
(***************************************************************************)
(* One campaign (a group of devices) and its rollouts: they are created,   *)
(* approved, released, resumed, rejected and rolled back while the group   *)
(* itself is edited or deleted.                                            *)
(*                                                                         *)
(* create() runs SERIALIZABLE: it reads one snapshot and its commit fails  *)
(* when another create() got in between.  Every other transaction is READ  *)
(* COMMITTED and relies on the lock of the campaign's row: FOR SHARE for   *)
(* those that add a rollout, FOR UPDATE for those that edit the group.     *)
(* What happens to the targets of a released rollout is in RolloutResults; *)
(* here results only move its status.                                      *)
(***************************************************************************)
EXTENDS Integers, Sequences, FiniteSets

CONSTANTS
  Devices,      \* devices that may belong to the group
  Users,        \* Operation users
  SuperAdmins,  \* those who may decide on their own rollouts
  NoUser,       \* approver of what nobody approved
  Requests,     \* requests served at the same time
  MaxRollouts,  \* bound on the rollouts ever added
  MaxVersion    \* bound on the edits of the group

ASSUME SuperAdminsAreUsers == SuperAdmins \subseteq Users
ASSUME NoUserFresh == NoUser \notin Users
ASSUME BoundsAreNumbers == MaxRollouts \in Nat /\ MaxVersion \in Nat

VARIABLES
  campaign,  \* the Campaign row and its CampaignTarget rows
  rollouts,  \* the CampaignRollout rows in the order they were committed
  request    \* what each request is doing and what it has read

vars == <<campaign, rollouts, request>>

Open == {"pending_approval", "approved", "active", "paused"}
Closed == {"completed", "cancelled"}
Status == Open \cup Closed \cup {"rejected"}

\* version stands for updatedAt; mockFirmware for a Firmware payload applied by
\* switching partitions, rollbackOf is 0 for what create() made
Campaign == [exists : BOOLEAN, version : Nat, members : SUBSET Devices]

Rollout == [status : Status, devices : SUBSET Devices, creator : Users,
            approver : Users \cup {NoUser}, rollbackOf : Nat, mockFirmware : BOOLEAN]

IdleRequest ==
  [pc |-> "idle", user |-> NoUser, rollout |-> 0, status |-> "active",
   devices |-> {}, version |-> 0, members |-> {}, open |-> FALSE, seen |-> 0]

Request ==
  [pc : {"idle", "share", "insert", "lockAdd", "lockRemove", "lockDelete",
         "checkAdd", "checkRemove", "checkDelete", "add", "remove", "delete",
         "approve", "reject", "switching", "affected", "shareRollback", "cancel"},
   user : Users \cup {NoUser}, rollout : Nat, status : {"active", "paused", "completed"},
   devices : SUBSET Devices, version : Nat, members : SUBSET Devices,
   open : BOOLEAN, seen : Nat]

TypeOK ==
  /\ campaign \in Campaign
  /\ rollouts \in Seq(Rollout)
  /\ request \in [Requests -> Request]

Init ==
  /\ \E members \in (SUBSET Devices) \ {{}} :
       campaign = [exists |-> TRUE, version |-> 0, members |-> members]
  /\ rollouts = <<>>
  /\ request = [r \in Requests |-> IdleRequest]

-----------------------------------------------------------------------------
(* The lock of the campaign's row *)

\* who holds it FOR SHARE: what adds a rollout, until it commits
Sharing == {r \in Requests : request[r].pc \in {"insert", "cancel"}}

\* who holds it FOR UPDATE: what edits the group
Editing == {r \in Requests : request[r].pc \in {"checkAdd", "checkRemove", "checkDelete",
                                                "add", "remove", "delete"}}

Begin(r, new) == request' = [request EXCEPT ![r] = new]

Finish(r) == request' = [request EXCEPT ![r] = IdleRequest]

Idle(r) == request[r].pc = "idle"

OpenRollouts == {i \in DOMAIN rollouts : rollouts[i].status \in Open}

\* the rollout a request is about still exists
Found(r) == request[r].rollout \in DOMAIN rollouts

MoveTo(i, status) == rollouts' = [rollouts EXCEPT ![i].status = status]

NewRollout(devices, user, bad, mockFirmware) ==
  [status |-> "pending_approval", devices |-> devices, creator |-> user,
   approver |-> NoUser, rollbackOf |-> bad, mockFirmware |-> mockFirmware]

-----------------------------------------------------------------------------
(* create *)

\* its first statement asks for the lock and fixes the snapshot it will read,
\* before it waits
StartCreate(r, user) ==
  /\ Idle(r)
  /\ campaign.exists
  /\ Begin(r, [IdleRequest EXCEPT !.pc = "share", !.user = user,
                 !.version = campaign.version, !.members = campaign.members,
                 !.open = OpenRollouts # {}, !.seen = Len(rollouts)])
  /\ UNCHANGED <<campaign, rollouts>>

\* a row that changed or went since the snapshot cannot be locked (40001)
LockForCreate(r) ==
  /\ request[r].pc = "share"
  /\ Editing = {}
  /\ IF campaign.exists /\ campaign.version = request[r].version
     THEN Begin(r, [request[r] EXCEPT !.pc = "insert"])
     ELSE Finish(r)
  /\ UNCHANGED <<campaign, rollouts>>

\* another create() committed after the snapshot: each missed the other's row
Conflicting(r) ==
  \E i \in DOMAIN rollouts : i > request[r].seen /\ rollouts[i].rollbackOf = 0

\* Wrong on purpose: create() in a READ COMMITTED transaction
CreateUnserialized(r, devices, mockFirmware) ==
  /\ request[r].pc = "insert"
  /\ Len(rollouts) < MaxRollouts
  /\ devices \subseteq request[r].members /\ devices # {}
  /\ IF request[r].open
     THEN UNCHANGED rollouts
     ELSE rollouts' = Append(rollouts, NewRollout(devices, request[r].user, 0, mockFirmware))
  /\ Finish(r)
  /\ UNCHANGED campaign

\* the group of the snapshot less the excluded devices, unless a rollout is open
CommitCreate(r, devices, mockFirmware) ==
  /\ request[r].pc = "insert"
  /\ Len(rollouts) < MaxRollouts
  /\ devices \subseteq request[r].members /\ devices # {}
  /\ IF request[r].open \/ Conflicting(r)
     THEN UNCHANGED rollouts
     ELSE rollouts' = Append(rollouts, NewRollout(devices, request[r].user, 0, mockFirmware))
  /\ Finish(r)
  /\ UNCHANGED campaign

-----------------------------------------------------------------------------
(* addTargets, removeTarget, remove *)

\* the campaign is looked for outside the transaction
StartEdit(r, device) ==
  /\ Idle(r)
  /\ campaign.exists
  /\ \E pc \in {"lockAdd", "lockRemove", "lockDelete"} :
       Begin(r, [IdleRequest EXCEPT !.pc = pc, !.devices = {device}])
  /\ UNCHANGED <<campaign, rollouts>>

AfterLock(pc) ==
  CASE pc = "lockAdd" -> "checkAdd" [] pc = "lockRemove" -> "checkRemove"
    [] OTHER -> "checkDelete"

LockForEdit(r) ==
  /\ request[r].pc \in {"lockAdd", "lockRemove", "lockDelete"}
  /\ Sharing = {} /\ Editing = {}
  /\ IF campaign.exists
     THEN Begin(r, [request[r] EXCEPT !.pc = AfterLock(request[r].pc)])
     ELSE Finish(r)
  /\ UNCHANGED <<campaign, rollouts>>

AfterCheck(pc) ==
  CASE pc = "checkAdd" -> "add" [] pc = "checkRemove" -> "remove" [] OTHER -> "delete"

\* assertNoOpenRollout, read after the lock was given
CheckOpen(r) ==
  /\ request[r].pc \in {"checkAdd", "checkRemove", "checkDelete"}
  /\ IF OpenRollouts # {}
     THEN Finish(r)
     ELSE Begin(r, [request[r] EXCEPT !.pc = AfterCheck(request[r].pc)])
  /\ UNCHANGED <<campaign, rollouts>>

CommitAdd(r) ==
  /\ request[r].pc = "add"
  /\ campaign.version < MaxVersion
  /\ IF request[r].devices \cap campaign.members = {}
     THEN campaign' = [campaign EXCEPT !.members = @ \cup request[r].devices, !.version = @ + 1]
     ELSE UNCHANGED campaign
  /\ Finish(r)
  /\ UNCHANGED rollouts

\* the last member stays
Removable(devices) ==
  devices \subseteq campaign.members /\ Cardinality(campaign.members) > 1

\* Wrong on purpose: does not touch the campaign's row
RemoveUntouched(r) ==
  /\ request[r].pc = "remove"
  /\ campaign' = IF Removable(request[r].devices)
                 THEN [campaign EXCEPT !.members = @ \ request[r].devices]
                 ELSE campaign
  /\ Finish(r)
  /\ UNCHANGED rollouts

CommitRemove(r) ==
  /\ request[r].pc = "remove"
  /\ campaign.version < MaxVersion
  /\ IF Removable(request[r].devices)
     THEN campaign' = [campaign EXCEPT !.members = @ \ request[r].devices, !.version = @ + 1]
     ELSE UNCHANGED campaign
  /\ Finish(r)
  /\ UNCHANGED rollouts

\* members and rollouts go with the campaign
CommitDelete(r) ==
  /\ request[r].pc = "delete"
  /\ campaign' = [campaign EXCEPT !.exists = FALSE, !.members = {}]
  /\ rollouts' = <<>>
  /\ Finish(r)

-----------------------------------------------------------------------------
(* approve and reject *)

\* Separation of Duty
MayDecide(user, i) == user \in SuperAdmins \/ rollouts[i].creator # user

StartApprove(r, user, i) ==
  /\ Idle(r)
  /\ rollouts[i].status = "pending_approval"
  /\ MayDecide(user, i)
  /\ Begin(r, [IdleRequest EXCEPT !.pc = "approve", !.user = user, !.rollout = i])
  /\ UNCHANGED <<campaign, rollouts>>

\* Wrong on purpose: approves whatever became of the rollout since it was read
ApproveUnchecked(r) ==
  /\ request[r].pc = "approve"
  /\ rollouts' = IF Found(r)
                 THEN [rollouts EXCEPT ![request[r].rollout].status = "approved",
                                       ![request[r].rollout].approver = request[r].user]
                 ELSE rollouts
  /\ Finish(r)
  /\ UNCHANGED campaign

Approve(r) ==
  /\ request[r].pc = "approve"
  /\ rollouts' = IF Found(r) /\ rollouts[request[r].rollout].status = "pending_approval"
                 THEN [rollouts EXCEPT ![request[r].rollout].status = "approved",
                                       ![request[r].rollout].approver = request[r].user]
                 ELSE rollouts
  /\ Finish(r)
  /\ UNCHANGED campaign

StartReject(r, user, i) ==
  /\ Idle(r)
  /\ rollouts[i].status \in {"pending_approval", "approved"}
  /\ MayDecide(user, i)
  /\ Begin(r, [IdleRequest EXCEPT !.pc = "reject", !.rollout = i])
  /\ UNCHANGED <<campaign, rollouts>>

Reject(r) ==
  /\ request[r].pc = "reject"
  /\ IF Found(r) /\ rollouts[request[r].rollout].status \in {"pending_approval", "approved"}
     THEN MoveTo(request[r].rollout, "rejected")
     ELSE UNCHANGED rollouts
  /\ Finish(r)
  /\ UNCHANGED campaign

-----------------------------------------------------------------------------
(* release, resume and the results of a released rollout *)

\* a rollback of mock firmware: executed by switching partitions on release
Switches(i) == rollouts[i].rollbackOf # 0 /\ rollouts[i].mockFirmware

\* the rollout becomes active, and the request goes on with the switching
Activate(r, i) ==
  /\ Idle(r)
  /\ MoveTo(i, "active")
  /\ IF Switches(i)
     THEN Begin(r, [IdleRequest EXCEPT !.pc = "switching", !.rollout = i])
     ELSE UNCHANGED request
  /\ UNCHANGED campaign

\* one conditional update
Release(r, i) == rollouts[i].status = "approved" /\ Activate(r, i)

Resume(r, i) == rollouts[i].status = "paused" /\ Activate(r, i)

\* executeFirmwarePartitionRollback closes the rollout whatever its status is
FinishSwitching(r) ==
  /\ request[r].pc = "switching"
  /\ IF Found(r) THEN MoveTo(request[r].rollout, "completed") ELSE UNCHANGED rollouts
  /\ Finish(r)
  /\ UNCHANGED campaign

\* results pause or complete a released rollout: see RolloutResults; a confirmation
\* of a device may come while partitions are switched, too
Report(i, status) ==
  /\ rollouts[i].status \in {"active", "paused"}
  /\ MoveTo(i, status)
  /\ UNCHANGED <<campaign, request>>

-----------------------------------------------------------------------------
(* rollback *)

StartRollback(r, user, i) ==
  /\ Idle(r)
  /\ rollouts[i].status \in {"active", "paused", "completed"}
  /\ Begin(r, [IdleRequest EXCEPT !.pc = "affected", !.user = user, !.rollout = i,
                                  !.status = rollouts[i].status])
  /\ UNCHANGED <<campaign, rollouts>>

\* the devices that got the payload and are not excluded
ListAffected(r, devices) ==
  /\ request[r].pc = "affected"
  /\ Found(r)
  /\ devices \subseteq rollouts[request[r].rollout].devices /\ devices # {}
  /\ Begin(r, [request[r] EXCEPT !.pc = "shareRollback", !.devices = devices])
  /\ UNCHANGED <<campaign, rollouts>>

LockForRollback(r) ==
  /\ request[r].pc = "shareRollback"
  /\ Editing = {}
  /\ IF campaign.exists
     THEN Begin(r, [request[r] EXCEPT !.pc = "cancel"])
     ELSE Finish(r)
  /\ UNCHANGED <<campaign, rollouts>>

\* Wrong on purpose: leaves the bad rollout as it is
RollbackBeside(r) ==
  LET bad == rollouts[request[r].rollout]
  IN  /\ request[r].pc = "cancel"
      /\ Found(r) /\ Len(rollouts) < MaxRollouts
      /\ rollouts' = Append(rollouts, NewRollout(request[r].devices, request[r].user,
                                                 request[r].rollout, bad.mockFirmware))
      /\ Finish(r)
      /\ UNCHANGED campaign

\* the bad rollout is cancelled if it is still as it was read, a completed one
\* stays; the rollback rollout is added in the same transaction
CommitRollback(r) ==
  LET i == request[r].rollout
      bad == rollouts[i]
      new == NewRollout(request[r].devices, request[r].user, i, bad.mockFirmware)
  IN  /\ request[r].pc = "cancel"
      /\ Found(r) /\ Len(rollouts) < MaxRollouts
      /\ rollouts' = CASE request[r].status = "completed" -> Append(rollouts, new)
                       [] request[r].status # "completed" /\ bad.status = request[r].status ->
                            Append([rollouts EXCEPT ![i].status = "cancelled"], new)
                       [] OTHER -> rollouts
      /\ Finish(r)
      /\ UNCHANGED campaign

-----------------------------------------------------------------------------
\* a request ends early: refused, timed out, its transaction undone, or the
\* process it ran in stopped
Drop(r) ==
  /\ ~Idle(r)
  /\ Finish(r)
  /\ UNCHANGED <<campaign, rollouts>>

Create(r) ==
  \/ \E user \in Users : StartCreate(r, user)
  \/ LockForCreate(r)
  \/ \E devices \in SUBSET Devices, mockFirmware \in BOOLEAN :
       CommitCreate(r, devices, mockFirmware)

Edit(r) ==
  \/ \E device \in Devices : StartEdit(r, device)
  \/ LockForEdit(r) \/ CheckOpen(r)
  \/ CommitAdd(r) \/ CommitRemove(r) \/ CommitDelete(r)

Decide(r) ==
  \/ \E user \in Users, i \in DOMAIN rollouts : StartApprove(r, user, i) \/ StartReject(r, user, i)
  \/ Approve(r) \/ Reject(r)

Run(r) ==
  \/ \E i \in DOMAIN rollouts : Release(r, i) \/ Resume(r, i)
  \/ FinishSwitching(r)

Rollback(r) ==
  \/ \E user \in Users, i \in DOMAIN rollouts : StartRollback(r, user, i)
  \/ \E devices \in SUBSET Devices : ListAffected(r, devices)
  \/ LockForRollback(r) \/ CommitRollback(r)

Move ==
  \E i \in DOMAIN rollouts, status \in {"active", "paused", "completed"} : Report(i, status)

Next ==
  \/ \E r \in Requests : Create(r) \/ Edit(r) \/ Decide(r) \/ Run(r) \/ Rollback(r) \/ Drop(r)
  \/ Move

Spec == Init /\ [][Next]_vars

-----------------------------------------------------------------------------
(* What holds *)

\* A group runs one round at a time: of two concurrent create() at most one
\* adds a rollout, however their checks and inserts interleave
OneCreatedAtATime ==
  \A i, j \in OpenRollouts : rollouts[i].rollbackOf = 0 /\ rollouts[j].rollbackOf = 0 => i = j

\* An open rollout goes to devices of its group: it was not made from a list of
\* members that an edit committed in the meantime had changed
TargetsAreMembers ==
  \A i \in OpenRollouts :
    rollouts[i].rollbackOf = 0 => campaign.exists /\ rollouts[i].devices \subseteq campaign.members

\* The group is neither edited nor deleted under an open rollout, which edits
\* check only after they got the lock
GroupHoldsStill ==
  [][OpenRollouts # {} =>
       campaign'.members = campaign.members /\ campaign'.exists = campaign.exists]_vars

\* A rollout that is being rolled back is closed: it cannot be resumed or go on
\* beside its rollback
RolledBackIsClosed ==
  \A i \in DOMAIN rollouts :
    rollouts[i].rollbackOf # 0 =>
      /\ rollouts[i].rollbackOf \in DOMAIN rollouts
      /\ rollouts[rollouts[i].rollbackOf].status \in Closed

\* Nothing reaches the devices that somebody else than its creator, or a
\* SuperAdmin, did not approve
FourEyes ==
  \A i \in DOMAIN rollouts :
    rollouts[i].status \in {"approved", "active", "paused", "completed"} =>
      /\ rollouts[i].approver # NoUser
      /\ rollouts[i].approver = rollouts[i].creator => rollouts[i].approver \in SuperAdmins

\* Of two decisions on one rollout the first counts: what was rejected is never
\* approved or released and what was closed is never open again
NeverReopened ==
  [][\A i \in DOMAIN rollouts \cap DOMAIN rollouts' :
       LET was == rollouts[i].status  is == rollouts'[i].status
       IN  /\ was = "rejected" => is = "rejected"
           /\ was \in Closed => is \in Closed
           /\ was # is /\ is = "approved" => was = "pending_approval"
           /\ was # is /\ is = "active" => was \in {"approved", "paused"}]_vars

-----------------------------------------------------------------------------
(* What the comments promise and the code does not keep *)

\* "A group can run one rollout at a time"; a rollback of a completed rollout,
\* or a second one, is another
OneRoundAtATime == \A i, j \in OpenRollouts : i = j

\* "Results that come later do not overwrite" a cancelled rollout
CancelledStaysCancelled ==
  [][\A i \in DOMAIN rollouts \cap DOMAIN rollouts' :
       rollouts[i].status = "cancelled" => rollouts'[i].status = "cancelled"]_vars
=============================================================================
