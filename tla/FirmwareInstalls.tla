-------------------------- MODULE FirmwareInstalls --------------------------
(***************************************************************************)
(* Which firmware the two partitions of a device hold and which one runs:  *)
(* the releases that install firmware (campaign-rollout.service.ts,        *)
(* autoApplyFirmware in mode mock, the poll of the central server in mode  *)
(* central), the technician who confirms an install and the one-time       *)
(* override he may need for it (device.service.ts), rollbacks, and the     *)
(* removal of a firmware (firmware.service.ts), which must not take away   *)
(* what is in use.                                                         *)
(*                                                                         *)
(* A handler is a call that reads a device first and writes its partitions *)
(* later, in a transaction of its own.  A transaction that takes the row   *)
(* lock of a firmware (firmware-lock.ts) before everything else is one     *)
(* action; the removal, which looks for uses between lock and write, is    *)
(* two.  Firmware here is approved and stored from the start; upload, the  *)
(* approval, compatibility of models and the versions devices report are   *)
(* left out, and a result is recorded in one action (RolloutResults cuts   *)
(* it).  Commands to the central server and their retries are              *)
(* CentralDispatch's.                                                      *)
(***************************************************************************)
EXTENDS Naturals

CONSTANTS
  Devices,
  Firmware,
  Rollouts,     \* rows that may become firmware rollouts
  Overrides,    \* rows that may become firmware overrides
  Callers,      \* handlers that may run at the same time
  None,         \* null
  MaxLosses     \* bound on restarts and undone writes

ASSUME NoneAssumption == /\ None \notin Firmware
                         /\ None \notin Rollouts
                         /\ None \notin Overrides
ASSUME LossAssumption == MaxLosses \in Nat

VARIABLES
  mode,       \* DEVICE_CONFIG_APPLY_MODE as release() applies it to firmware, for
              \* which "real" is "mock"
  device,     \* the Device rows: partitions
  firmware,   \* the Firmware rows and the files in the storage
  rollout,    \* the CampaignRollout rows
  target,     \* the CampaignRolloutTarget rows
  override,   \* the DeviceFirmwareOverride rows
  call,       \* what each caller is doing
  losses,     \* restarts and undone writes so far
  crossed     \* history: a device was switched back to a partition that held
              \* other firmware by then, or for a rollout closed by then

vars == <<mode, device, firmware, rollout, target, override, call, losses,
          crossed>>

Slots == {"A", "B"}

Other(s) == IF s = "A" THEN "B" ELSE "A"

\* Before its registration a device has no row ("there").
Device == [there : BOOLEAN, active : Slots, slot : [Slots -> Firmware \cup {None}]]

FirmwareRow == [status : {"live", "deleted"}, file : BOOLEAN]

\* "waiting" is pending_approval or approved.
Rollout == [status : {"none", "waiting", "active", "paused", "completed",
                      "cancelled", "rejected"},
            firmware : Firmware \cup {None},
            undoes : Rollouts \cup {None}]

\* "sent": the central server has the command; "installed": it has reported
\* that the device took it.
Target == [status : {"none", "pending", "success", "failed", "skipped"},
           command : {"none", "sent"}]

Override == [status : {"none", "pending", "approved", "rejected", "used"},
             device : Devices \cup {None}, firmware : Firmware \cup {None}]

Idle == [op |-> "idle"]

\* A handler that installs: the technician's confirmation, the central poll at
\* one target, the loop of a release in mode mock, the loop that switches back.
\* "left": the devices a loop has still to serve and what it read of them, the
\* active partition and whether the other one held the firmware; "device" is
\* the one it serves, "seen" the partition that was active, "done" whether the
\* other one was written.
Seen == [active : Slots, held : BOOLEAN]
Reads == UNION {[D -> Seen] : D \in SUBSET Devices}
Worker == [op : {"confirm", "poll", "loop", "back"},
           at : {"start", "next", "consume", "switch", "flip", "record"},
           rollout : Rollouts \cup {None}, firmware : Firmware,
           override : Overrides \cup {None}, left : Reads,
           device : Devices \cup {None}, seen : Slots, done : BOOLEAN]
RollingBack == [op : {"rollback"}, rollout : Rollouts,
                status : {"active", "paused", "completed"},
                firmware : Firmware, devices : SUBSET Devices]
Removal == [op : {"remove"}, at : {"locked", "storage"}, firmware : Firmware]

Nobody == [d \in {} |-> [active |-> "A", held |-> FALSE]]

Call == {Idle} \cup Worker \cup RollingBack \cup Removal

TypeOK ==
  /\ mode \in {"mock", "central"}
  /\ device \in [Devices -> Device]
  /\ firmware \in [Firmware -> FirmwareRow]
  /\ rollout \in [Rollouts -> Rollout]
  /\ target \in [Rollouts -> [Devices -> Target]]
  /\ override \in [Overrides -> Override]
  /\ call \in [Callers -> Call]
  /\ losses \in Nat
  /\ crossed \in BOOLEAN

Init ==
  /\ mode \in {"mock", "central"}
  /\ device = [d \in Devices |->
       [there |-> FALSE, active |-> "A", slot |-> [s \in Slots |-> None]]]
  /\ firmware = [f \in Firmware |-> [status |-> "live", file |-> TRUE]]
  /\ rollout = [r \in Rollouts |->
                  [status |-> "none", firmware |-> None, undoes |-> None]]
  /\ target = [r \in Rollouts |-> [d \in Devices |->
                 [status |-> "none", command |-> "none"]]]
  /\ override = [o \in Overrides |->
                   [status |-> "none", device |-> None, firmware |-> None]]
  /\ call = [w \in Callers |-> Idle]
  /\ losses = 0
  /\ crossed = FALSE

-----------------------------------------------------------------------------
(* What the handlers read and lock.                                        *)

Is(w, op, at) == call[w].op = op /\ call[w].at = at

LockedForDelete(f) ==
  \E w \in Callers : Is(w, "remove", "locked") /\ call[w].firmware = f

\* Wrong on purpose: the row is read without FOR SHARE.
ReferableUnlocked(f) == firmware[f].status = "live"

\* lockFirmwareForReference: FOR SHARE waits for a removal that holds the row,
\* and then refuses what has a deletedAt.
Referable(f) == firmware[f].status = "live" /\ ~LockedForDelete(f)

Gone(f) == firmware[f].status = "deleted"

\* The firmware that the active partition holds, None if there is none.
Runs(d) == device[d].slot[device[d].active]

Spare(d) == device[d].slot[Other(device[d].active)]

Open == {"waiting", "active", "paused"}

Started == {"active", "paused"}

Pending(r) == {d \in Devices : target[r][d].status = "pending"}

\* recordTargetResult: claim the target and count; the last one completes the
\* rollout, and one with failures may pause.
Waits(r, d) == rollout[r].status \in Started /\ d \in Pending(r)

Statuses(r, d, result) ==
  IF Pending(r) = {d} THEN {"completed"}
  ELSE IF \/ result = "failed"
          \/ \E e \in Devices : target[r][e].status = "failed"
       THEN {rollout[r].status, "paused"}
       ELSE {rollout[r].status}

RecordTargetResult(r, d, result) ==
  /\ Waits(r, d)
  /\ target' = [target EXCEPT ![r][d].status = result]
  /\ \E s \in Statuses(r, d, result) : rollout' = [rollout EXCEPT ![r].status = s]

Close(w) == call' = [call EXCEPT ![w] = Idle]

MayLose == losses < MaxLosses /\ losses' = losses + 1

-----------------------------------------------------------------------------
(* Devices, rollouts and overrides come about.                             *)

\* register: an initial firmware fills partition A.
Register(d, f) ==
  /\ ~device[d].there
  /\ f # None => Referable(f)
  /\ device' = [device EXCEPT ![d].there = TRUE, ![d].slot["A"] = f]
  /\ UNCHANGED <<mode, firmware, rollout, target, override, call, losses,
                 crossed>>

\* The insert of a rollout with its targets, under the lock of its firmware.
Insert(r, f, D, undone) ==
  /\ rollout[r].status = "none"
  /\ Referable(f)
  /\ rollout' = [rollout EXCEPT ![r] =
       [status |-> "waiting", firmware |-> f, undoes |-> undone]]
  /\ target' = [target EXCEPT ![r] = [d \in Devices |->
       [@[d] EXCEPT !.status = IF d \in D THEN "pending" ELSE "none"]]]

\* create.  CampaignRollouts keeps the rounds of one group apart; a device may
\* be in the rollouts of two groups.
Create(r, f, D) ==
  /\ D # {} /\ \A d \in D : device[d].there
  /\ Insert(r, f, D, None)
  /\ UNCHANGED <<mode, device, firmware, override, call, losses, crossed>>

Reject(r) ==
  /\ rollout[r].status = "waiting"
  /\ rollout' = [rollout EXCEPT ![r].status = "rejected"]
  /\ UNCHANGED <<mode, device, firmware, target, override, call, losses,
                 crossed>>

\* overrideDeviceFirmware.  ConfigOverrides shows how two requests race; here
\* the check and the insert are one.
OverrideDeviceFirmware(o, d, f) ==
  /\ mode = "mock"
  /\ override[o].status = "none" /\ device[d].there
  /\ Referable(f)
  /\ \A p \in Overrides :
       ~(override[p].status = "pending" /\ override[p].device = d)
  /\ override' = [override EXCEPT ![o] =
       [status |-> "pending", device |-> d, firmware |-> f]]
  /\ UNCHANGED <<mode, device, firmware, rollout, target, call, losses, crossed>>

DecideOverride(o) ==
  /\ override[o].status = "pending"
  /\ \E s \in {"approved", "rejected"} :
       override' = [override EXCEPT ![o].status = s]
  /\ UNCHANGED <<mode, device, firmware, rollout, target, call, losses, crossed>>

-----------------------------------------------------------------------------
(* Loops that release and resume start (dispatchAutoApply); the ones of    *)
(* mode central are CentralDispatch's, whose command is SendCommand here.  *)

StartLoop(r, w) ==
  IF mode = "mock"
  THEN /\ call[w] = Idle
       /\ call' = [call EXCEPT ![w] =
            [op |-> IF rollout[r].undoes = None THEN "loop" ELSE "back",
             at |-> "start", rollout |-> r, firmware |-> rollout[r].firmware,
             override |-> None, left |-> Nobody,
             device |-> None, seen |-> "A", done |-> FALSE]]
  ELSE call' = call

Activate(r, w, from) ==
  /\ rollout[r].status = from
  /\ rollout' = [rollout EXCEPT ![r].status = "active"]
  /\ StartLoop(r, w)
  /\ UNCHANGED <<mode, device, firmware, target, override, losses, crossed>>

Release(r, w) == Activate(r, w, "waiting")

Resume(r, w) == Activate(r, w, "paused")

\* The pending targets, and their devices as they are now.
ReadTargets(w) ==
  /\ call[w].op \in {"loop", "back"} /\ call[w].at = "start"
  /\ call' = [call EXCEPT ![w].at = "next",
                          ![w].left = [d \in Pending(call[w].rollout) |->
                            [active |-> device[d].active,
                             held |-> Spare(d) = call[w].firmware]]]
  /\ UNCHANGED <<mode, device, firmware, rollout, target, override, losses,
                 crossed>>

\* The call has taken device d from those that are left.
Serve(w, d, at) ==
  [call[w] EXCEPT !.at = at, !.device = d, !.seen = call[w].left[d].active,
     !.left = [e \in DOMAIN @ \ {d} |-> @[e]]]

Served(w) ==
  [call[w] EXCEPT !.at = "next", !.device = None, !.seen = "A", !.done = FALSE]

\* The next device of a release; one that is retired or of another model is
\* recorded as failed without an install.
ServeNext(w) ==
  /\ Is(w, "loop", "next")
  /\ rollout[call[w].rollout].status = "active"
  /\ \E d \in DOMAIN call[w].left, at \in {"switch", "record"} :
       call' = [call EXCEPT ![w] = Serve(w, d, at)]
  /\ UNCHANGED <<mode, device, firmware, rollout, target, override, losses,
                 crossed>>

EndLoop(w) ==
  /\ Is(w, "loop", "next")
  /\ \/ DOMAIN call[w].left = {}
     \/ rollout[call[w].rollout].status # "active"
  /\ Close(w)
  /\ UNCHANGED <<mode, device, firmware, rollout, target, override, losses,
                 crossed>>

SendCommand(r, d) ==
  /\ mode = "central" /\ rollout[r].status = "active"
  /\ d \in Pending(r) /\ target[r][d].command = "none"
  /\ firmware[rollout[r].firmware].file
  /\ target' = [target EXCEPT ![r][d].command = "sent"]
  /\ UNCHANGED <<mode, device, firmware, rollout, override, call, losses,
                 crossed>>

\* The command could not be sent, or the central server reports a failure.
CommandFails(r, d) ==
  /\ mode = "central"
  /\ RecordTargetResult(r, d, "failed")
  /\ UNCHANGED <<mode, device, firmware, override, call, losses, crossed>>

\* markTargetSkippedOffline: the central server gave up on an offline device.
MarkTargetSkipped(r, d) ==
  /\ mode = "central"
  /\ rollout[r].status \in Started /\ d \in Pending(r)
  /\ target' = [target EXCEPT ![r][d].status = "skipped"]
  /\ rollout' = IF Pending(r) = {d} /\ rollout[r].status = "active"
                THEN [rollout EXCEPT ![r].status = "completed"] ELSE rollout
  /\ UNCHANGED <<mode, device, firmware, override, call, losses, crossed>>

-----------------------------------------------------------------------------
(* The technician confirms an install, or the poll of the central server   *)
(* hears of one.                                                           *)

\* The call has read device d and is to put f into its other partition.
Installing(op, at, r, d, f, o) ==
  [op |-> op, at |-> at, rollout |-> r, firmware |-> f, override |-> o,
   left |-> Nobody, device |-> d, seen |-> device[d].active,
   done |-> FALSE]

\* findActiveFirmwareAssignment: any target of the device in a rollout that is
\* approved, active or paused ("waiting" may be either).
Assigned(d) ==
  {r \in Rollouts : target[r][d].status # "none" /\ rollout[r].status \in Open}

MayConfirm(d, f) ==
  \/ \A r \in Assigned(d) : rollout[r].status = "waiting"
  \/ \E r \in Assigned(d) : rollout[r].firmware = f

\* confirmFirmwareInstall, its reads: firmware other than the assigned one
\* needs an override.
ReadConfirm(w, d, f) ==
  /\ mode = "mock" /\ call[w] = Idle
  /\ device[d].there /\ firmware[f].status = "live"
  /\ \/ /\ MayConfirm(d, f)
        /\ call' = [call EXCEPT ![w] =
             Installing("confirm", "record", None, d, f, None)]
     \/ /\ \E r \in Assigned(d) : rollout[r].firmware # f
        /\ \E o \in Overrides :
             /\ override[o] = [status |-> "approved", device |-> d, firmware |-> f]
             /\ call' = [call EXCEPT ![w] =
                  Installing("confirm", "consume", None, d, f, o)]
  /\ UNCHANGED <<mode, device, firmware, rollout, target, override, losses,
                 crossed>>

\* An override works once: the second of two confirmations is refused.
ConsumeOverride(w) ==
  /\ Is(w, "confirm", "consume")
  /\ LET o == call[w].override IN
     IF override[o].status = "approved"
     THEN /\ override' = [override EXCEPT ![o].status = "used"]
          /\ call' = [call EXCEPT ![w].at = "record"]
     ELSE Close(w) /\ override' = override
  /\ UNCHANGED <<mode, device, firmware, rollout, target, losses, crossed>>

\* The result goes to a target that waits for this firmware, if one does, before
\* the partition is written.
RecordConfirm(w) ==
  /\ Is(w, "confirm", "record")
  /\ call' = [call EXCEPT ![w].at = "switch"]
  /\ LET waiting == {r \in Rollouts : /\ rollout[r].firmware = call[w].firmware
                                      /\ Waits(r, call[w].device)}
     IN IF waiting # {}
        THEN \E r \in waiting : RecordTargetResult(r, call[w].device, "success")
        ELSE UNCHANGED <<rollout, target>>
  /\ UNCHANGED <<mode, device, firmware, override, losses, crossed>>

\* Wrong on purpose: a poll starts while another one works.
HearOfInstallAgain(w, r, d) ==
  /\ mode = "central" /\ call[w] = Idle
  /\ Waits(r, d) /\ target[r][d].command = "sent"
  /\ call' = [call EXCEPT ![w] =
       Installing("poll", "switch", r, d, rollout[r].firmware, None)]
  /\ UNCHANGED <<mode, device, firmware, rollout, target, override, losses,
                 crossed>>

\* The poll, one at a time, learns that the device has taken the firmware.
HearOfInstall(w, r, d) ==
  /\ mode = "central" /\ call[w] = Idle
  /\ \A v \in Callers : call[v].op # "poll"
  /\ Waits(r, d) /\ target[r][d].command = "sent"
  /\ call' = [call EXCEPT ![w] =
       Installing("poll", "switch", r, d, rollout[r].firmware, None)]
  /\ UNCHANGED <<mode, device, firmware, rollout, target, override, losses,
                 crossed>>

-----------------------------------------------------------------------------
(* Writing a partition and recording the result.                           *)

AfterSwitch(w, done) ==
  IF call[w].op = "confirm" THEN Idle
  ELSE [call[w] EXCEPT !.at = "record", !.done = done]

\* The firmware goes to the partition that was not active when the device was
\* read, and that partition becomes the active one.
SwitchPartition(w) ==
  /\ call[w].op \in {"confirm", "poll", "loop"} /\ call[w].at = "switch"
  /\ Referable(call[w].firmware)
  /\ LET next == Other(call[w].seen) IN
     device' = [device EXCEPT ![call[w].device].active = next,
                              ![call[w].device].slot[next] = call[w].firmware]
  /\ call' = [call EXCEPT ![w] = AfterSwitch(w, TRUE)]
  /\ UNCHANGED <<mode, firmware, rollout, target, override, losses, crossed>>

\* The transaction fails, because the firmware was removed or otherwise.
SwitchFails(w) ==
  /\ call[w].op \in {"confirm", "poll", "loop"} /\ call[w].at = "switch"
  /\ IF Gone(call[w].firmware) THEN losses' = losses ELSE MayLose
  /\ call' = [call EXCEPT ![w] = AfterSwitch(w, FALSE)]
  /\ UNCHANGED <<mode, device, firmware, rollout, target, override, crossed>>

AfterRecord(w) == IF call[w].op = "poll" THEN Idle ELSE Served(w)

\* A target that was decided meanwhile keeps its result.
RecordInstall(w) ==
  /\ call[w].op \in {"poll", "loop"} /\ call[w].at = "record"
  /\ call' = [call EXCEPT ![w] = AfterRecord(w)]
  /\ IF Waits(call[w].rollout, call[w].device)
     THEN RecordTargetResult(call[w].rollout, call[w].device,
                             IF call[w].done THEN "success" ELSE "failed")
     ELSE UNCHANGED <<rollout, target>>
  /\ UNCHANGED <<mode, device, firmware, override, losses, crossed>>

\* recordTargetResult never throws: an undone transaction is only logged.
RecordIsLost(w) ==
  /\ call[w].op \in {"poll", "loop"} /\ call[w].at = "record"
  /\ MayLose
  /\ call' = [call EXCEPT ![w] = AfterRecord(w)]
  /\ UNCHANGED <<mode, device, firmware, rollout, target, override, crossed>>

-----------------------------------------------------------------------------
(* Rollbacks.                                                              *)

\* Wrong on purpose: the partition that runs is asked, not the other one.
PreviousOfActive(d) ==
  IF Runs(d) # None THEN {Runs(d)}
  ELSE {g \in Firmware : firmware[g].status = "live"}

\* rollback(), its reads: the devices with a result, some of them excluded, and
\* the firmware in the other partition of the first; when that is empty, whatever
\* the history of the central server names, if anything.
Previous(d) ==
  IF Spare(d) # None THEN {Spare(d)}
  ELSE {g \in Firmware : firmware[g].status = "live"}

ReadToRollBack(w, r, D) ==
  /\ call[w] = Idle
  /\ rollout[r].status \in {"active", "paused", "completed"}
  /\ D # {} /\ \A d \in D : target[r][d].status = "success"
  /\ \E d \in D : \E f \in Previous(d) :
       call' = [call EXCEPT ![w] =
         [op |-> "rollback", rollout |-> r, status |-> rollout[r].status,
          firmware |-> f, devices |-> D]]
  /\ UNCHANGED <<mode, device, firmware, rollout, target, override, losses,
                 crossed>>

\* Its transaction: an open rollout is cancelled with all that waits in it, and
\* the rollback is inserted.
RollBack(w, new) ==
  LET c == call[w]
      running == c.status \in Started
      cancelled == [d \in Devices |->
        [target[c.rollout][d] EXCEPT
           !.status = IF @ = "pending" THEN "failed" ELSE @]]
  IN
  /\ c.op = "rollback"
  /\ running => rollout[c.rollout].status = c.status
  /\ rollout[new].status = "none" /\ Referable(c.firmware)
  /\ rollout' =
       [r \in Rollouts |->
          IF r = new THEN [status |-> "waiting", firmware |-> c.firmware,
                           undoes |-> c.rollout]
          ELSE IF r = c.rollout /\ running
          THEN [rollout[r] EXCEPT !.status = "cancelled"] ELSE rollout[r]]
  /\ target' =
       [r \in Rollouts |->
          IF r = new THEN [d \in Devices |->
            [target[r][d] EXCEPT
               !.status = IF d \in c.devices THEN "pending" ELSE "none"]]
          ELSE IF r = c.rollout /\ running THEN cancelled ELSE target[r]]
  /\ Close(w)
  /\ UNCHANGED <<mode, device, firmware, override, losses, crossed>>

\* The rollout has changed or the firmware is gone: refused.
RefuseRollback(w) ==
  /\ call[w].op = "rollback"
  /\ \/ /\ call[w].status \in Started
        /\ rollout[call[w].rollout].status # call[w].status
     \/ Gone(call[w].firmware)
  /\ Close(w)
  /\ UNCHANGED <<mode, device, firmware, rollout, target, override, losses,
                 crossed>>

-----------------------------------------------------------------------------
(* executeFirmwarePartitionRollback, mode mock: devices go back to the     *)
(* other partition.  It takes no lock of the firmware, looks neither at    *)
(* the status of the rollout nor at what a target has become, and its last *)
(* write is unconditional.                                                 *)

\* The target is written first; it succeeds if the other partition held the
\* firmware when the devices were read.
WriteBackTarget(w) ==
  /\ Is(w, "back", "next")
  /\ \E d \in DOMAIN call[w].left :
       LET held == call[w].left[d].held
       IN /\ target' = [target EXCEPT ![call[w].rollout][d].status =
                          IF held THEN "success" ELSE "failed"]
          /\ call' = [call EXCEPT ![w] =
               IF held THEN Serve(w, d, "flip")
               ELSE [Served(w) EXCEPT
                       !.left = [e \in DOMAIN @ \ {d} |-> @[e]]]]
  /\ UNCHANGED <<mode, device, firmware, rollout, override, losses, crossed>>

\* Since it read, the rollout was closed or the partition was overwritten.
Crossing(w) ==
  \/ rollout[call[w].rollout].status \notin Open
  \/ device[call[w].device].slot[Other(call[w].seen)] # call[w].firmware

FlipPartition(w) ==
  /\ Is(w, "back", "flip")
  /\ device' = [device EXCEPT ![call[w].device].active =
                  Other(call[w].seen)]
  /\ crossed' = (crossed \/ Crossing(w))
  /\ call' = [call EXCEPT ![w] = Served(w)]
  /\ UNCHANGED <<mode, firmware, rollout, target, override, losses>>

EndBack(w) ==
  /\ Is(w, "back", "next") /\ DOMAIN call[w].left = {}
  /\ rollout' = [rollout EXCEPT ![call[w].rollout].status = "completed"]
  /\ Close(w)
  /\ UNCHANGED <<mode, device, firmware, target, override, losses, crossed>>

-----------------------------------------------------------------------------
(* Removal of a firmware.                                                  *)

\* assertNotInUse: no device runs it, no open rollout and no override that may
\* still be used names it.
InUse(f) ==
  \/ \E d \in Devices : Runs(d) = f
  \/ \E r \in Rollouts : rollout[r].status \in Open /\ rollout[r].firmware = f
  \/ \E o \in Overrides : /\ override[o].status \in {"pending", "approved"}
                          /\ override[o].firmware = f

\* remove: lockFirmwareForDelete, then the check.
LockForDelete(w, f) ==
  /\ call[w] = Idle
  /\ Referable(f) /\ ~InUse(f)
  /\ call' = [call EXCEPT ![w] =
       [op |-> "remove", at |-> "locked", firmware |-> f]]
  /\ UNCHANGED <<mode, device, firmware, rollout, target, override, losses,
                 crossed>>

MarkDeleted(w) ==
  /\ Is(w, "remove", "locked")
  /\ firmware' = [firmware EXCEPT ![call[w].firmware].status = "deleted"]
  /\ call' = [call EXCEPT ![w].at = "storage"]
  /\ UNCHANGED <<mode, device, rollout, target, override, losses, crossed>>

DeleteObject(w) ==
  /\ Is(w, "remove", "storage")
  /\ firmware' = [firmware EXCEPT ![call[w].firmware].file = FALSE]
  /\ Close(w)
  /\ UNCHANGED <<mode, device, rollout, target, override, losses, crossed>>

\* The storage gives an error, having deleted the file or not; the row is
\* brought back, unless that fails too.
DeleteObjectFails(w) ==
  /\ Is(w, "remove", "storage")
  /\ MayLose
  /\ \E file \in BOOLEAN, status \in {"live", "deleted"} :
       firmware' = [firmware EXCEPT ![call[w].firmware] =
                      [status |-> status, file |-> file]]
  /\ Close(w)
  /\ UNCHANGED <<mode, device, rollout, target, override, crossed>>

\* The process ends: open transactions are undone, loops are forgotten.
Restart ==
  /\ \E w \in Callers : call[w] # Idle
  /\ MayLose
  /\ call' = [w \in Callers |-> Idle]
  /\ UNCHANGED <<mode, device, firmware, rollout, target, override, crossed>>

-----------------------------------------------------------------------------
Comes ==
  \/ \E d \in Devices, f \in Firmware \cup {None} : Register(d, f)
  \/ \E r \in Rollouts, f \in Firmware, D \in SUBSET Devices : Create(r, f, D)
  \/ \E r \in Rollouts : Reject(r)
  \/ \E o \in Overrides, d \in Devices, f \in Firmware :
       OverrideDeviceFirmware(o, d, f)
  \/ \E o \in Overrides : DecideOverride(o)
  \/ \E r \in Rollouts, w \in Callers : Release(r, w) \/ Resume(r, w)
  \/ \E r \in Rollouts, d \in Devices :
       SendCommand(r, d) \/ CommandFails(r, d) \/ MarkTargetSkipped(r, d)

Works(w) ==
  \/ ReadTargets(w) \/ ServeNext(w) \/ EndLoop(w)
  \/ \E d \in Devices, f \in Firmware : ReadConfirm(w, d, f)
  \/ ConsumeOverride(w) \/ RecordConfirm(w)
  \/ \E r \in Rollouts, d \in Devices : HearOfInstall(w, r, d)
  \/ SwitchPartition(w) \/ SwitchFails(w)
  \/ RecordInstall(w) \/ RecordIsLost(w)
  \/ \E r \in Rollouts, D \in SUBSET Devices : ReadToRollBack(w, r, D)
  \/ \E r \in Rollouts : RollBack(w, r)
  \/ RefuseRollback(w)
  \/ WriteBackTarget(w) \/ FlipPartition(w) \/ EndBack(w)
  \/ \E f \in Firmware : LockForDelete(w, f)
  \/ MarkDeleted(w) \/ DeleteObject(w) \/ DeleteObjectFails(w)

Next == Comes \/ (\E w \in Callers : Works(w)) \/ Restart

Spec == Init /\ [][Next]_vars

-----------------------------------------------------------------------------
(* Properties.                                                             *)

\* What is in use is not removed: no open rollout and no override that may
\* still be used names a deleted firmware, and no device runs one, unless a
\* device was switched back on the strength of what was no longer so
\* (firmware-lock.ts; firmware.service.ts, assertNotInUse).
UsedIsThere ==
  \A f \in Firmware : Gone(f) =>
    /\ \A r \in Rollouts : rollout[r].status \in Open => rollout[r].firmware # f
    /\ \A o \in Overrides : override[o].status \in {"pending", "approved"} =>
         override[o].firmware # f
    /\ crossed \/ \A d \in Devices : Runs(d) # f

=============================================================================
