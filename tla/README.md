# Formal model of the GPS Config & Firmware Center

TLA+ modules, TLC configurations and TLAPS proofs about the backend of the GPS
Config & Firmware Center (`src/backend/src`) and the offline queue of its mobile
app (`src/mobile/lib/core`): how a Config is made, how it or firmware gets to a
fleet of tracking devices, how its outcome gets back and who hears of it. Paths
below are relative to `src/backend/src` unless they begin with `src/`; `R` stands
for `campaign/campaign-rollout.service.ts`.

Run a model with `tlc -config MCX.cfg MCX`, check proofs with `tlapm XProofs.tla`.

## 1. The system

One NestJS process over PostgreSQL (Prisma), a web interface for Operation
(`src/web`) and a mobile app for technicians (`src/mobile`). Devices either poll
the backend (`applyMode real`), are simulated (`mock`), or are reached through a
central server with commands whose outcome the backend polls (`central`).

| Component | State | Operations | Interacts with |
|---|---|---|---|
| Campaign groups (`campaign/campaign.service.ts`, `campaign-lock.ts`) | `Campaign`, `CampaignTarget` | create, update, add/remove targets, delete | rollouts (row lock `FOR SHARE`/`FOR UPDATE`, `updatedAt`) |
| Rollout decisions (`R`) | `CampaignRollout.status`, creator, approver, releaser | create, approve, reject, release, resume, rollback | groups, overrides, device sync, central dispatch |
| Rollout results (`R` 2358-2700, `device-sync/`, `rollout-timeout.service.ts`) | `CampaignRolloutTarget`, counters, activation window | fetch, report, late report, skip, expire, auto-pause, complete | devices, incidents (events) |
| Config overrides (`device/device.service.ts`, `config-override-merge.ts`) | `DeviceConfigOverride` rows by version | ask, approve, reject, rollout values, merge, mark as used | whatever sends a Config |
| Central dispatch (`R` 1420-1720, `central-rollout-poll.service.ts`, `field-apply-retry.service.ts`, `central-device/`) | `centralCommandId`, `attemptCount`, `nextRetryAt`, attempt rows; loops in memory | send, poll, retry with lease, finish | central server |
| Firmware partitions (`R`, `device.service.ts`, `firmware-rollback-executor.ts`) | `activePartition`, firmware of slots A and B | install, confirm, switch back | rollouts, central dispatch |
| Field apply requests (`config-apply-request/`) | `ConfigApplyRequest.status`, expiry | ask, approve, release, reject, cancel, expire, finish | tasks, overrides, a system campaign's rollouts |
| Tasks (`task/`) | `Task.status`, events | assign, start, finish, cancel, auto-close | apply requests, mobile queue |
| Incidents (`incident/`) | `Incident`; listeners in memory | open on failed writes and rollout events, merge, retry, dismiss, resolve, field report | rollouts, legacy sync (events) |
| Configs and deletion (`config/`, `config-deletion/`) | `Config.status`, versions, `ConfigDeletionRequest` | create, edit, decide, approve, reject, remove, sweep for unused ones, decide a deletion | rollouts, tasks (row lock of the Config), legacy sync |
| Config definitions (`config-definition/`) | field registry | edit under the locks of its uses | Configs |
| Legacy sync queue (`config-sync-writer/`) | one promise chain per Config, in memory | enqueue, retry 3 times, report | incidents |
| Firmware registry (`firmware/`) | rows, files in the storage | upload, approve, remove | rollouts, overrides, devices (row lock of the firmware) |
| Devices, models, customers (`device/`, `device-model/`, `customer/`) | `Device` and `Customer` rows, lifecycle, numbers, names, keys | register, update, retire, reactivate, rotate key, confirm; create, rename, switch, remove | everything, by row and advisory locks |
| Telemetry (`device-sync/device-telemetry*`) | samples | append, expire hourly | - |
| Users and sessions (`user/`, `auth/`) | users, roles | create, change role, deactivate (Serializable) | - |
| Notifications, audit | append-only rows | write | all |
| Mobile offline queue (`src/mobile/lib/core/sync`, `auth`) | pending task changes and cached rows on the phone; `_generation`, the flush in memory | enqueue, flush, reject, dismiss, sign in, sign out, expire | tasks (REST) |

### What is hard

* Every handler is a chain of `await`s; all transactions run at READ COMMITTED
  except `create()` of a rollout (`R`:429) and user management, which run at
  SERIALIZABLE. What was read before a transaction is stale inside it, and counts
  taken inside it do not see concurrent transactions.
* Rows are locked in different orders by recording (target, then rollout) and
  cancelling (rollout, then targets): PostgreSQL has to break deadlocks.
* Releases and resumes start loops *in memory* after their commit; a restart
  loses them, a second one may run beside the first, and the poll beside both.
* A request of a technician hears of its result through an event in memory, and what
  was read of its task is stale when the row lock is taken.
* Devices repeat reports, come back after they were given up, and answer after a
  rollout was cancelled; answers of the central server get lost.
* A partition is written to the one that was *not* active when the device was read,
  in another transaction than the result; a rollback switches back from what it read
  before its loop.
* Whoever refers to a Config or firmware and whoever removes it each look at the
  other's rows; only the row locks (`config-lock.ts`, `firmware-lock.ts`) order them.
* Incidents are written by listeners that run side by side, each with a read and a
  later write by id.
* Work refers to a device by a string without foreign key, numbers and names have no
  index that compares without case, and removing a customer would unlink its devices
  silently: three kinds of locks are all that keeps the registry right.
* The phone sends what was entered offline while the task, the session and the user
  of the phone change.
* Which override a device was given is reconstructed from times afterwards.

### What makes the components correct

Results: each target decided once, a closed rollout closed for good and with no
target waiting, counters and status consistent with the targets, auto-pause when
failures exceed the threshold, every holder of a bad payload found by a rollback.
Groups and decisions: one round at a time, targets are members, four eyes, no
decision undone by an older one. Overrides: one pending request, newest first, no
row marked as used that was not given. Dispatch: one holder per target, no second
command per attempt, no target forgotten, every target gets a result. Apply requests:
one open request per device, nothing sent into a task that is completed or held by
somebody else, no override left behind, every result heard. Configs and firmware:
nothing that is in use is removed, no use without a version, one deletion request.
Installs: a target changes its device once, a rollback restores what ran before.
Incidents: one chance for a write at a time, no version forgotten, an incident that
tells what became of its rollout. Registry: a
retired device is cut off and has no work, none in use loses its key, nothing new is shared, no
device loses its customer. Offline queue: nothing lost, overlooked, reordered or left to
the next user. The hazards with their source lines, and the properties that watch them, are listed in
`PROJECT.json`.

## 2. The modules

| Module | Models | Composed of |
|---|---|---|
| `RolloutContract` | abstract: what a released rollout promises | - |
| `RolloutResults` | recording of results, statement by statement | implements `RolloutContract` by INSTANCE |
| `SerialResults` | its history: whether requests ever overlapped | extends `RolloutResults` |
| `CampaignRollouts` | a group, its rollouts and the decisions on them | - |
| `ConfigOverrides` | the override rows of one (device, Config) | - |
| `SerialOverrides` | its history: whether requests ever overlapped | extends `ConfigOverrides` |
| `CentralDispatch` | loops, poll and retries of one central rollout | - |
| `DispatchHistory` | its history: targets two loops took on, commands whose number was lost | extends `CentralDispatch` |
| `ConfigApplyRequests` | requests for one device, the tasks they are made in, their override and result | - |
| `FirmwareInstalls` | the partitions of devices, installs, rollbacks, removal of firmware | - |
| `FirmwareHistory` | its history: which target led to which write | extends `FirmwareInstalls` |
| `ConfigLifecycle` | Configs, what refers to them, both ways of deletion | - |
| `Incidents` | incidents, the legacy sync queue and the rollout events that raise them | the chain of writes and the listeners as one module |
| `DeviceRegistry` | devices and customers, the locks on them, the work asked for | - |
| `OfflineSync` | a phone, its queue, cache and session, and the tasks on the server | phone and server as one module |
| `RolloutResultsProofs`, `CampaignRolloutsProofs`, `CentralDispatchProofs`, `FirmwareInstallsProofs`, `IncidentsProofs`, `DeviceRegistryProofs`, `ConfigProofs`, `FieldProofs` | theorems | extend the modules they are about; `ConfigProofs` is about `ConfigLifecycle`, `ConfigOverrides` and `SerialOverrides`, `FieldProofs` about `ConfigApplyRequests` and `OfflineSync` |
| `MC...` | instances, symmetry, bounds; history variables for TLC | extend the modules |

Operators whose comment begins with *Wrong on purpose* are not part of a model:
each stands for a plausible bug of the definition that follows it, and putting it
in that definition's place makes TLC report the property that guards it.

### RolloutResults

One rollout of `applyMode real` after its release. `rollout` is the
`CampaignRollout` row, `target` its `CampaignRolloutTarget` rows, `worker` what
each request or sweep item in service has read and which statement is next,
`rollback` the rollback request; `delivered` is a history variable: who was handed
a job. A transaction is a chain of actions: `ClaimTarget` (conditional update of
the target, which locks the row), `CountSuccess`, `CountFailure`, `CountPending`,
`CountRecent` (the four counts of `R`:2451-2481, each seeing what is committed
when it runs and its own claim), `WriteAndCommit`. `Locked` and `RolloutLocked`
keep others waiting as row locks do. `AbortTransaction` is whatever makes Prisma
undo the transaction (time limit, connection, deadlock), `Crash` the end of the
process. Rows carry the activation *window* in which they were touched instead of
`updatedAt`: the code compares times only with `activeWindowStartedAt`.

Abstracted: which Config the job carries, the connection state of devices
(`SkipOverdue` may take any target that was not fetched), notifications and audit.

### CampaignRollouts

One group with its rollouts in commit order. A request walks through the reads
and the lock of its handler: `create()` takes a snapshot (`seen`, `version`,
`members`, `open`), waits for the campaign lock, and inserts; SERIALIZABLE makes
the insert fail when another `create()` inserted since the snapshot. Group edits
take the lock and then look for open rollouts; their touch of the campaign
(`version`) is what makes a waiting `create()` fail. Decisions read
first and update conditionally. `switching` is a rollback of mock firmware that
flips partitions one by one and then writes `completed`; results are recorded
beside it, and a `resume()` in between begins it again in another request.

Abstracted: payloads, device values, per-target results (a result moves the
status), loops that send.

### ConfigOverrides

The rows of one device and one Config by `versionNumber`. Requests are cut at the
reads on which they act: the check for a pending row, the read of the latest
version, the insert with its unique key, `decidedAt` taken before the update, the
merge before `pulledAt`, the search for the row that was used before the marking.
`clock` counts first fetches: `pulledAt` is all that `decidedAt` is compared with,
so time may stand still in between. `delivered` is a history variable.

Abstracted: the values themselves, the check that the base Config is approved, the
apply requests linked to an override in central mode, Drop stands for every early
refusal, undone transaction or restart.

### CentralDispatch

One rollout of a normal campaign in central mode with a Config payload. `loop`
holds the loops that release and resume start, and the poll's own; `poll` is the
job of which the `running` guard allows one; `target`/`attempt` are the rows;
`central` is what the central server accepted. Every step up to an `await` is one
action: reading the targets, the status check before each, the PUT (`Send`, or
`SendInVain` with the answer lost after the server took it), saving
the command id, deciding whether to retry, recording. `WithRetry` sets
`nextRetryAt`, for a retry and as the lease of a claim; `TimePasses` makes it due.
`Crash` clears everything in memory. A result is recorded in one action here
(RolloutResults covers its inside) and a failure may pause the rollout or not,
since no rate is kept.

Abstracted: the limit of 20 due retries per poll, the merge of overrides, the
beginning of an attempt row together with the PUT, the firmware path, which has the
same shape (`R`:1995-2149); what it does to the partitions is in `FirmwareInstalls`.
The system campaign of field apply requests is the case where the switch is always
on.

`DispatchHistory` adds what can go wrong about a target before harm comes of it:
`shared` are the targets that two loops of the rollout had before them at the same
time, after a resume during the loop from before the pause (`R`:1440); `unheard` are
the commands that the central server accepted and no row will name, because the
answer to the PUT was lost (`central-device/central-device.service.ts`:238) or the
backend restarted before it saved the number (`R`:1703). The properties say that
nothing else does harm.

### ConfigApplyRequests

The requests of technicians to send something to one device, `request`, each with
the status of its override and of the target it was released into; `task` are the
tasks of the device, `call` what each API call has read and which locks it holds.
Transactions are cut where they wait: the advisory lock of the device
(`config-apply-request/config-apply-request.service.ts`:1824), taken by ask and
release, the row lock of the task (`task/task.service.ts`:775), taken by approve,
release and every task update, and the rows that a task update has cancelled but not
committed (`closes`, `RowFree`). A `start` of a task reads under another lock than
updates take, so it has two actions. `GetResult` commits the result of the target and
emits an event, `HearResult` is the listener, `FailToHear` its swallowed failure,
`Restart` undoes open transactions and forgets events.

Abstracted: who may decide and release, whether the Config or firmware is still the
approved version, whether the device is online, the central server: each of these
refuses a call (`Refuse`) or closes an approved request (`CloseChanged`). How long a
request waits is left open (`Expire` may come at any time). A task that `start`
creates in progress is one that was pending and is started.

### FirmwareInstalls

`device` holds the two partitions and which is active; `rollout`, `target`,
`override` and `firmware` are the rows, the last with its file. A handler is a
`call`: `Worker` for the technician's confirmation, the central poll at one target,
the loop of a release in mode mock and the loop that switches back, each carrying
the partition that was active when it read the device (`seen`) until it writes
(`SwitchPartition`, `FlipPartition`); `RollingBack` between the reads of
`rollback()` and its transaction; `Removal` between the row lock and the storage.
A transaction that begins with the row lock of the firmware is one action
(`Referable`); the removal, which looks between lock and write, is cut there.
`RecordIsLost` is a result whose transaction was undone, which the code only logs.
`crossed` is history: a device was switched back although the rollout was closed or
the partition overwritten since the read. `FirmwareHistory` remembers more of it, for
the properties about installs: how often a target has led to a write and what its
device ran before (`install`), who has read a device that was written since (`stale`)
and for which rollouts two loops have worked at once (`together`). For firmware, `release()` treats
`applyMode real` as `mock` (`R`:624-633), so `mode` has two values.

Abstracted: upload and approval of firmware, compatibility, the versions devices
report, the check and the insert of an override request (`ConfigOverrides` has that
race), commands and retries (`CentralDispatch`), the inside of a result
(`RolloutResults`).

### ConfigLifecycle

`config` is the row of each Config, `versions` the number of its versions, `use` the
rollouts, requests and tasks that may refer to it, `request` the deletion requests,
`sweep` what the nightly sweep has still to go through, `call` what each handler has
read. `approve`, `reject`, `update` and the decisions on deletion requests read and
write apart, unconditionally where the code does so. `remove()` takes the row lock,
looks for references and deletes; a reference takes the row lock in the other mode
and looks whether the Config is still there.

Abstracted: the content of a Config, names, simulation, import, comparison.

### Incidents

`chain` is the promise chain of each Config in the legacy sync queue, `attempt` the
failed attempts of its head, `ordered` the writes somebody has decided on and not
enqueued; `incident` are the rows; `handler` the listeners of the event emitter, each
with what it found and its write still to come; `rollout` goes through the events it
emits. `lost` collects the subjects of which a restart or a database error lost
something, `overlap` the rollouts two of whose events were handled side by side.

Abstracted: texts, numbers, severity, lists, and the event that only refreshes the
tally of an incident.

### DeviceRegistry

`device`, `customer` and `task` are the rows, `asked` says whether a request or an
override of a device is open, `call` the transactions under way. A transaction is cut
between its reads and its write, and at its second lock; who holds which lock follows
from the calls: `IsChanged` and `IsUsed` are `device/device-lock.ts`, `IsLinked` and
`IsWritten` the row locks of `customer/customer-lock.ts`, `NumbersLocked` and
`NamesLocked` the advisory locks. `confirmInstalled` reads before its transaction and
takes no lock but that of its own update. `retiredAt` is `decommissionedAt`, which tells
afterwards that a confirmation was written over a retirement, and `reopened` marks a
task that Operation opened again without looking at the device.

At the start there are devices with and without a key, with a number of their own, a
shared one or none, and customers with or without the same name.

Abstracted: the three numbers are one; SIM numbers (a unique index), models, and the
open rollouts in which a retirement looks for the device only refuse more (`Abort`).
Rollouts take no lock of a device, so that one created while a device is retired may
contain it.

### OfflineSync

Dart runs one piece of code up to its next `await`: each action is such a piece.
`queue` (the status of each row; ids are in the order of `createdAt`) and `cache` are
the tables on the phone, `session` the stored token and profile, `gen` the
`_generation` that `stop()` raises, `flush` the one flush with its passes, `auth` a
sign-in or sign-out under way, `read` the answer to a screen, `late` requests the
phone gave up that the server may still carry out; `taskRow` is the server,
with the rules of `TaskService.updateStatus`. `change` and `past` are history.
Mishaps (an edit of Operation, a lost request or answer, an expired session, a
sign-out, a restart) are bounded by `MaxMishaps`.

Abstracted: photos, lists of tasks, the other caches.

## 3. The runs

All bounds are constants in the `.cfg` files. Two of each actor give every pair of
overlapping steps.

| Run | Bounds | Shows |
|---|---|---|
| `rollout_results` | 2 devices, 2 workers, 2 windows, 2.4 M states | safety under any interleaving, aborts and crashes; `KeepsContract`; the `Serial...` promises |
| `campaigns` | 2 devices, operator and SuperAdmin, 2 requests, 2 rollouts, 2 edits, 2.9 M states | one created at a time, targets are members, a rollback closes, decisions stand |
| `overrides` | 2 requests, 3 rows, a plain and a value-carrying rollout, 3.1 M states | decisions stand, what is applied by hand is marked rightly, rules of the rows when serial |
| `central` | 2 targets, 2 requests, 2 attempts, lost answers, 1 restart or 1 switch, 2.6 M states | a target that two loops did not take on together has one holder and one command per attempt and restart, and is applied after a failure only by a command whose number was lost; only a restart forgets a target; leases |
| `central_live` | 1 target, 3 attempts, lost answers, 1 switch | every target gets a result |
| `requests` | 2 requests, 2 tasks, 2 technicians, 2 calls, 1 task update, 1 restart or lost event, 1.1 M states | one open request, no task completed under a request that is sent, overrides follow, checks hold at the commit, no result unheard without a loss |
| `firmware` | 2 devices, firmware and rollouts, 1 override, 2 handlers, 1 loss, in four parts, 2.3 M states | what is in use stays, one install per target, rollbacks restore |
| `lifecycle` | 1 Config, 2 versions, 2 rows that refer, 2 deletion requests, 2 calls, 2.4 M states | `remove()` spares what is used, uses find a version, one pending deletion request |
| `deleted_in_use` | the same | violation: an approved deletion request does not look for uses |
| `incidents` | 2 versions of a Config or 1 rollout, 3 attempts, 3 incidents, 2 listeners, 172 k states | one chance per write, nothing forgotten, incidents agree with rollouts, retries answered |
| `registry` | 2 devices, 2 customers, 2 numbers, 1 name, 1 task, 2 calls, tasks and old rows apart from customers, 1.3 M states | retirement cuts off and leaves no work, no device in use newly without a key, nothing new shared, links hold |
| `offline` | 2 technicians, 1 task, 2 changes, 2 mishaps, 1.6 M states | nothing overlooked, lost, reordered or left to the next user |

*Serial properties.* Several comments promise things that only hold while requests
do not overlap. `SerialResults` and `SerialOverrides` add a history variable `overlapped`,
TRUE once two requests were in service together, and state `overlapped \/ P`: the promise itself
is implemented, and it is interleaving that breaks it. (`SerialSteps` is about two
steps: the result that exceeds the threshold and the list a rollback makes.) Likewise the other models
name what excuses a failure: `shared`, `unheard` and `crashes` in `DispatchHistory`, `losses` in
`ConfigApplyRequests` and `FirmwareInstalls`, `crossed` and `together` there, `lost`
and `overlap` in `Incidents`, `past.excuses` in `OfflineSync`. Each excuse is itself
a window of the code and listed below.

*Parts.* `MCFirmwareInstalls` and `MCIncidents` choose a part at the start and keep
to it: rollouts, writes and field reports share only a table in `Incidents`; in
`FirmwareInstalls` overrides with removals, rollbacks with removals, rounds of
installs with a lost write, and two devices are separate parts, since the lock that
a removal takes does not depend on how many rounds went before. The safety of
removals is proved without the parts.

*Why the bounds suffice.* The conflicts are between two transactions on the same
or on two targets, or a transaction and the rollback; a third worker repeats one
of them. Two windows are before and after a resume. Three override rows give one
that is used, one that it replaced and one that is newer. Two attempts are the
first and the last, the three of the code are used in `central_live`. In `requests`
an update of a task races one call at a time, so one update (`MaxUpdates`) is enough;
the second request is the one the first must keep out, or the one that is asked for
while the task of the first closes; `MaxLosses` = 1 is one restart or one lost event.
Two updates (6.6 M states, too long for a standing run) give no error either, and the
safety of this model is proved for any bounds. In
`central` the constraint `OneIsPlain` lets one of the two targets be sent at most once,
by a command that is heard of: what a second target adds is that a rollout can be paused and resumed while a loop
still has targets before it, and that it goes on when the first has its result. It
stops at a first target two loops have taken on, about which nothing is claimed any
more, and leaves out a restart together with a switch; the theorems need none of
this. In
`campaigns` the constraint `OneUserInEditedGroups` gives groups of two members or
with edits a single user, because no decision reads the group and no edit reads
who decided. In `registry` the constraint `CustomersApart` looks at tasks, and at devices of
before that have no key or no number of their own, without customers, because no work,
no retirement, no key and no check of a number asks for the customer.
Without it the run is too long to stand; the proofs need none of it.

*Deadlock.* CHECK_DEADLOCK is off for `campaigns`, `overrides`, `requests`,
`firmware`, `lifecycle`, `deleted_in_use` and `incidents`: their rows are bounded and
may all reach an end, and a group may be deleted. In the other models something can
always happen until TLC says otherwise.

*Fairness.* `RolloutResults` (`FairSpec`, for `EveryoneEnds`; checked with one device and
two workers, no standing run): weak fairness for what computes in the process,
strong fairness for statements that wait for a row lock, because PostgreSQL serves
waiters in turn and every holder ends; `BreakDeadlock` is its deadlock detector.
Nothing is assumed of devices or Operation. `CentralDispatch` (`HistoryFairSpec`): weak fairness of the
loops, the poll (an interval with a guard), time and the commands in the central
server; strong fairness of `PollLearns` for each device, that is, the central
server does not fail to answer *every* time it is asked. Without it nothing is ever
known about a command and the code rightly waits. Release, Resume, Cancel, Switch
and Crash carry no fairness. `Incidents`: every attempt of a
write settles (the only writer of the repository, `mock-config-sync-writer.ts`, does
so at once; the queue itself sets no time limit, so that one that never settles would
block its chain) and every listener ends; nothing is assumed of Operation, rollouts
or the database. `ConfigApplyRequests`
states the same for jobs, events and calls; no standing run needs it, because
`ResultComesBack` says as an invariant that a result is recorded or its event on its
way.

### Disagreements with comments and documents

`deleted_in_use` shows `DeletedIsUnused` of `ConfigLifecycle` violated (`config-lock.ts`:8):
a deletion request is approved without the lock and the check of `remove()`
(`config-deletion/config-deletion.service.ts`:140), under an open rollout or a task
that was opened again. The same modules refute further promises, kept as named
properties; to see a trace put the property into a configuration in place of its
properties.

| Property (module) | What happens |
|---|---|
| `CountersExact` (RolloutResults) | two results recorded together leave `successCount`/`failureCount` short (`R`:2503; 2297 says they are recomputed) |
| `PausedStillWaits` (RolloutResults) | the last waiting target skipped beside an auto-pause leaves the rollout paused with nobody to wait for (`R`:2580; 2550 says it completes). In central mode no race is needed: the poll skips the last target of a paused rollout, and a resume then makes it active for ever |
| `OverThresholdPauses` (RolloutResults) | a success that was counted before a failure committed writes active over its paused (`R`:2510; 2484-2486) |
| `ResumeHolds` (RolloutResults) | a result that read the rollout while paused writes paused over a resume (`R`:2510; 1034-1037) |
| `RollbackListsHolders` (RolloutResults) | a device that succeeds between the list and the cancellation is in no rollback (`R`:1135; 1130) |
| `SerialReturned` (SerialResults) | a skipped device that came back and fetched its job is in no rollback, no overlap needed (`R`:1135; 1131) |
| `NotedAfterResult` (RolloutResults) | a report whose transaction was undone is answered `already-reported` (`device-sync/device-sync.service.ts`:280; `src/docs/19_Device_Pull_Test_Proposal.md`:148) |
| `RecentCountsOnlyNew` (RolloutResults) | a late note renews `updatedAt` of an old failure, which then counts in the new window (`device-sync.service.ts`:308; `R`:2462) |
| `OneRoundAtATime` (CampaignRollouts) | rolling back a completed rollout opens a second round (`R`:1276; `campaign-rollout-status.ts`:39, whose line 41 admits it) |
| `CancelledStaysCancelled` (CampaignRollouts) | a partition rollback that was itself rolled back writes completed over cancelled (`R`:1397; 1255) |
| `OnePending` (ConfigOverrides) | two technicians asking together get two pending rows (`device/device.service.ts`:1615; 1538) |
| `RequestsComeFirst` (ConfigOverrides) | a release puts its row over a request inserted after its check (`R`:744; 730) |
| `ReplacedStaysAway` (ConfigOverrides) | of two pending rows the older, approved after the newer was used, is sent next (`config-override-merge.ts`:71; 54) |
| `UsedWasGiven` (ConfigOverrides) | a row approved between merge and `pulledAt` of one fetch is marked as used (`device-sync.service.ts`:157; 260) |
| `SerialUsedWasGiven` (SerialOverrides) | no overlap needed: the row of a rollout takes `decidedAt` from its approval (`R`:787), so the success of a job that was fetched before the release marks it as used (`device-sync.service.ts`:271) and its values are never sent |
| `AllDecidedCloses` (RolloutResults) | two last results each count the other as pending and leave the rollout active with nobody waiting (`R`:2451; 2505) |
| `NobodyForgotten` (CentralDispatch) | after a restart a target without command and retry waits until Operation pauses and resumes (`R`:687) |
| `FailedIsNotApplied` (CentralDispatch) | the device applies what is recorded as failed: after a restart between PUT and save of the command id (`R`:1703), after a lost answer, which counts as not sent (`central-device/central-device.service.ts`:238), or when two loops serve the target (`R`:1440) |
| `SendingEnds` (ConfigApplyRequests) | the event of a result is lost by a restart or its listener fails: the request is sent for ever and keeps the device busy (`config-apply-request/config-apply-request.service.ts`:1289) |
| `CheckedReleaseCommits` (ConfigApplyRequests) | a release that passed all its checks fails when the approved request is closed under it |
| `OneHolder`, `SentOncePerAttempt` (CentralDispatch) | a resume while the release's loop awaits the central server sends the same attempt twice (`R`:1440; `src/docs/31_Field_Apply_Auto_Retry_Plan.md`:311) |
| `RollbackListsCommanded` (CentralDispatch) | a rollback looks for `pulledAt`, which central mode never sets: a device whose command is under way is not listed (`R`:1138; 1131) |
| `EndedTaskHasNoneWaiting` (ConfigApplyRequests) | ask reads the task before its transaction and takes no lock on it: a request born after the task was closed waits until it expires (`config-apply-request/config-apply-request.service.ts`:465; `task/task.service.ts`:736) |
| `EndedForTechnicians` (ConfigApplyRequests) | `start` reads pending, Operation cancels, `start` writes in progress (`task/task.service.ts`:323; 526) |
| `VersionedIsApproved` (ConfigLifecycle) | `reject` or `update` that read a draft writes after the approval it raced with (`config/config.service.ts`:718; `src/backend/prisma/schema.prisma`:759) |
| `DecidedOnce` (ConfigLifecycle) | two decisions on a deletion request both read it pending (`config-deletion/config-deletion.service.ts`:126) |
| `NewestLast` (Incidents) | a retry of an older version waits behind a newer one and is written over it (`incident/incident.service.ts`:473) |
| `OneIncidentPerRollout` (Incidents) | two events of a rollout both find no incident and both create one (`incident/incident.service.ts`:207) |
| `OnlyOwnData` (OfflineSync) | a restart in the middle of a sign-out leaves queue and cache to the next user (`src/mobile/lib/core/auth/auth_controller.dart`:257) |
| `LateAnswersAreDropped` (MCOfflineSync) | a pass begun while `stop()` waits takes the new generation, and its late answer is written into the wiped cache (`src/mobile/lib/core/sync/sync_queue_service.dart`:107; 85) |

What the excuses named in the properties stand for, with the line where each bites:

* `crossed` (FirmwareInstalls): a rollback in mode mock switches back to what it read
  before its loop (`R`:1381), although an install has written that partition since or
  the rollout was rolled back itself; the device may then run firmware that was removed.
* `together` and `losses` (FirmwareHistory, FirmwareInstalls): two loops of a release
  and a resume (`R`:1914), of a rollback too, or a result that was lost after the partition was written
  (`R`:2121), switch a device twice, that is, back.
* `mixed` in `RollbackRestores` (FirmwareHistory): after a second round of the same firmware, or an
  install in between, the other partition of a device is not what ran before the
  rollout (`R`:1189), and a rollback asks only its first device.
* A confirmation records success before it writes the partition, and the failure of
  that write is swallowed (`device/device.service.ts`:1139, 1173).
* `retiredAt` in `KeysStay` (DeviceRegistry): `confirmInstalled` read `registered`
  before a retirement and writes `installed` after it (`device/device.service.ts`:732;
  its comment, line 711, says that a retired device is refused): the device is live
  again, without key. `reopened` in `RetiredIsCutOff`: Operation sets a task back to open
  without a lock of its device, as long as the device stays the same
  (`task/task.service.ts`:456).
* `lost` (Incidents): a restart empties the queue and leaves an incident in
  `investigating`, which a retry refuses; an error of the database in a listener is
  only logged. `overlap`: a listener writes by id what it decided from an old read
  (`incident/incident.service.ts`:341), over a dismissal too.
* `past.excuses` (OfflineSync): besides the two above, a read of a screen that was on
  its way fills the cache after the wipe
  (`src/mobile/lib/features/task/task_repository.dart`:57). `past.unheard`: the
  answer to `completed` is lost, it is sent again, refused with 409 and shown as
  failed although it was made.

## 4. The proofs

TLAPS proves for every value of the constants that satisfies the named assumptions
(finite `Devices`, fresh `NoDevice`/`NoUser`, numeric bounds; `Devices` not empty where
that is said):

* `RolloutResultsProofs`: `TypeCorrect`, `ClosedDecidesAll`, `ClosedStaysClosed`,
  `ResultsAreFinal`, `HoldersAreNotSkipped`, `ContractKept`, `CountersAreBackedUp`. The invariant `IInv` adds
  to the type invariant what the locks give: a worker inside its transaction owns its
  target row, which keeps the status it was claimed from (`Holds`,
  `RowsAreHeldOnce`); a worker that counted nobody waiting is right about all the
  others for good, because decided targets stay decided (`CountsRight`); a rollback
  in its transaction has an open rollout before it (`CancelsOpen`). `CountsRight` is
  why a rollout that is completed from a count has nobody waiting although counts
  are not atomic. The refinement of `RolloutContract` follows step by step from `IInv`.
  That no counter overstates (`CountersAreBackedUp`) needs `CountsLow`: what a worker has
  counted and will write is no more than the targets that show it, and since results
  stay, that remains true until it writes; its lemmas are about the cardinality of sets
  that only grow.
  `PromisesHoldInTurn` and `StepsHoldInTurn` are about `SerialResults`. While requests do
  not overlap, a recorder still knows all it has read and counted (`KnowsStill`), because
  whatever happens to it or to the rows are its own steps (`OnlyItsSteps`); so what it
  writes is exact (`RowAgrees`, which also says that an open rollout waits for somebody).
  The threshold needs that a row is touched when its result is recorded and no time is
  later than the open window (`TimesFit`, which interleaving does not break): the failures
  that count for the threshold are then at least those recorded in the window. `HasDevices`
  (create refuses a rollout without devices, `R`:340) is needed for the first state only.
* `CampaignRolloutsProofs`: `TypeCorrectness`, `CreateIsExclusive`,
  `OpenTargetsAreMembers`, `OpenRolloutHoldsGroup`, `RollbackCloses`,
  `SeparationOfDuty`, `DecisionsStand`. Its `IInv` says which requests may hold the
  campaign lock together (`LocksExclude`), what a snapshot is worth at each step of
  `create()` (`SnapshotOK`: an unchanged version means unchanged members, and no open
  rollout up to `seen`), what the holder of the lock knows (`HolderOK`) and what a
  decision knows of its rollout (`AboutOK`); none of the listed properties is
  inductive without them.
* `ConfigProofs`, about `ConfigOverrides`: `OverrideTypes`, `FirstDecisionStands`, `AppliedIsGiven`,
  `PrecedenceHoldsInTurn`. To
  `AppliedWasGiven` is added what makes it inductive (`OnlyGivenIsMarked`): without a
  rollout nobody fetches, and who is about to mark a version has given it to the device.
  That some of the versions always have a newest one (`NewestIsThere`) follows from the
  well-foundedness of the natural numbers. The last one is about `SerialOverrides`: `InTurn`
  adds to the rules that who is about to add a row has no pending one before it, that a
  pending row is the newest, and that only approved rows were used. It needs no more than
  one request at a time: what else happens between two steps of a request does no harm.
* `CentralDispatchProofs`: `DispatchTypes`, `LeaseHolds`, `OnlyRestartForgets`, `OneHand`,
  `OneCommandPerAttempt`, `HarmIsExplained`. Added to
  `RetryNeverLost` and `RemembersAll` (nobody is forgotten before the first restart) are
  what a loop and the poll know of the target they serve (`LoopsKnow`, `PollKnows`: a
  command they carry is one the central server has), that only the poll's loop is told
  of a single target (`LoopsTakeAll`), and that rows name commands that exist
  (`RowsName`). Every step is shown to move rows, loops, poll and server in a few
  permitted ways, and those to preserve the invariant.
  The last three are about `DispatchHistory`, for any number of overlapping loops, lost
  answers and restarts. Two loops that overlap after a resume do serve the same targets
  (see section 3); `Hands` says of every target that is not `shared` in whose hands it is
  (`Theirs`: the loops' while its row has neither command nor retry, the poll's while it
  has one), that a command may be sent only on the credit of an attempt that was counted
  up or a restart (`Credit` with `MaySend`), and that a command that may be applied is
  the one of the row, about to be saved to it, or `unheard` (`Known`). `GoesOn` is what
  these proofs use of the history. A step touches one target at most; `UntouchedKept`
  covers all others once.
* `FieldProofs`, about `ConfigApplyRequests`: `TypesAreRight`, `OneIsOpen`, `CompletedHasNoneSending`,
  `OverridesFollow`, `ChecksHoldAtCommit`, `ResultsComeBack`. `IInv` says that the lock of the device and
  the row lock of a task have one holder (`LocksExclude`) and what each holder knows
  while it holds them (`KnowsOK`: an ask with the device sees nothing open, an approval
  or release with the task sees it in progress with the right technician, a completing
  update sees nothing being sent; `ClosesOK`: a request closed in an open transaction is
  still waiting in the committed state), so that what was read is true at the commit.
  `StatusMoves` lists the only ways a status changes; `ResultsComeBack` follows what a
  result can be while it is on its way (`Arrives`), through each of its steps. Nothing depends on the bounds.

* `FirmwareInstallsProofs`: `FirmwareTypes`, `UsedFirmwareStays`, `WritesOnce`,
  `RollbacksRestore`. What is used must not
  only be there but stay: `Safe(f)` says that a firmware is neither removed nor locked
  by a removal that has already looked, and `UsedIsSafe` that whatever is named by an
  open rollout or a usable override, or runs, is safe. `RemovalsHold` (one removal of a
  firmware at a time, live while locked, removed while its file goes) and `BacksKnow`
  (a loop that switches back knows its rollout's firmware) make it inductive. All
  steps but those of a removal are shown to satisfy `Keeps`, and `Keeps` to preserve
  the invariant.
  The last two are about `FirmwareHistory`. For one write per target, `WrittenWell` says
  of a target whose device was written that it has its result or that who wrote is about
  to record it, and that nobody else of its rollout will write the device (`Clear`);
  `ServesWell` that the device a handler serves is no longer among those it has left, and
  `Alone` that there is one poll, and one loop unless `together`. For rollbacks, `UInv`
  says that the other partition of a device holds what ran before, as long as its one
  rollout has written it (`SpareIsBefore`), that a handler nobody has overtaken knows
  which partition is active (`Fresh`), and in mode central that the firmware a rollback
  carries is what one of its devices ran (`RollbackKnows`), from its reads on.
  Proving this corrected two definitions that small instances could not tell apart: two
  loops that switch back may write a device twice, so `together` counts them, and
  `RollbackRestores` is about the first write of a rollback, since the second one then
  switches away again.
* `ConfigProofs`, about `ConfigLifecycle`: `LifecycleTypes`, `RemoveSparesUsed`, `UsesFindVersions`,
  `OnePendingRequest`. `LocksHold` says who may hold the row of a Config together,
  `CallsKnow` what a call knows between read and write, `VersionsKept` that versions are
  never taken away from under a use, `SweepIsNew` that what the sweep has still to go
  through has no request.
* `IncidentsProofs`: `IncidentTypes`, `OneChanceAtATime`, `NoVersionForgotten`,
  `RolloutsAreTold`. Added are
  `Known` (writes in chain, handlers and incidents are of versions that exist) and
  `SeenKept` (an incident that a listener has seen is still the one it saw, as far as
  the write is concerned). For `RolloutsAreTold` a second invariant follows one event
  through its listener: the rollout is still as the event says (`StillSo`), what the
  listener has found is still all there is (`StillFound`), and nobody else serves the
  rollout (`Settled`); a person who decides in between only closes rows.

* `DeviceRegistryProofs`: `RegistryTypes`, `StatusStaysMeant`, `NumbersAndNamesStayApart`,
  `LinksAlwaysHold`. Two parts carry the invariant: `Apart` says of any two calls what
  the row and advisory locks keep apart (a change of a device and a change or use of it,
  a write of a customer and a link to it, two writers of numbers, two of names), and
  `Knows` that what a call has read under its lock is still so when it writes: a device
  that is about to be retired is cut off, a number or name about to be written is free,
  a customer about to be linked is active, one about to be removed has no devices. Each
  write then needs the `Knows` of its own call, and `Apart` to keep that of the others.
  So what is not shared stays so by the locks alone, as the code intends (no index compares
  without case), and not by `Abort`, which stands for the indices. `StatusIsMeant` and
  `NothingBecomesShared` are about steps, not states: a device from before the keys is in
  use without one until `rotateKey` (`device/device.service.ts`:617), and old databases
  may hold shared numbers (`device/device-identifiers.ts`:14) and names that differ in case
  (`customer/customer-lock.ts`:45).
* `FieldProofs`, about `OfflineSync`: `PhoneTypes`, `NothingIsOverlooked`, `ChangesAreKept`,
  `ChangesAreMadeInOrder`, `DataIsOnesOwn`, for any number of technicians, tasks, changes
  and mishaps. None of the four properties is inductive. `PhoneInv` adds what the flush
  knows of the rows (`FlushFits`): whatever is pending is what the pass still has before
  it, or is newer than all of that and another pass has been asked for (`TakesAll`);
  a row that is being sent has no older row still to be made (`Settled`), and neither has
  a request the phone gave up, because what it settled stays settled; what was made and
  is still queued is about to be taken out or its answer was not heard
  (`KnownToBeMade`). `Ordered` says for all changes of the phone what `MadeInOrder` says
  of one task: the flush does not look at the task when it goes through them. Foreign
  data (`Ownership`) cannot come in because while a sign-out waits the flush is of an
  older generation or has ended, and everything on its way in the generation of now is
  of the user of the profile.

`SeparationOfDuty` (what reached the devices was approved by somebody other than its
creator or by a SuperAdmin) and `OpenRolloutHoldsGroup` are proved without a standing
run. Type invariants of the proved modules are checked by proof, not by runs.

Only model-checked: liveness (`TargetsGetResults`, `RetryIsAnswered`, `EveryoneEnds`), because
fairness and ENABLED are outside the prover. Every safety property that a run expects to
hold has a theorem. Nothing in the proved modules is recursive.

## 5. Not modelled, and the plan

The order in which the rest follows, by how much can go wrong in it:

1. Users: the rule of the last SuperAdmin under SERIALIZABLE; `user/user.service.ts`:188-226
   decides from an `existing` read before.
2. Config definitions with the locks that keep a field stable under use; the models of
   devices (`device-model/`), which have the same shape.
3. Known limits without a property: the sweep beside itself
   (`campaign/rollout-timeout.job.ts`:21), two first releases that both create the
   system campaign (`campaign/field-apply-system-campaign.ts`:36), a job handed out for a
   decided target (`device-sync/device-sync.service.ts`:160), a rollback of a Config to
   the payload of the latest completed rollout (`R`:1172).

Most lines of the implementation are screens, forms, seeds, DTOs, queries for lists and
formatting; the share of it that changes state under concurrency is what the modules
translate.

Left out for good: user interfaces, notifications, audit and telemetry (append-only,
nothing decides on them), the simulators of `mock` mode beyond the partition
rollback, deployment files. PostgreSQL and the central server are assumptions of
the modules, stated in their headers.
