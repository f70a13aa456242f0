---------------------- MODULE FirmwareInstallsProofs ----------------------
(* Proofs about FirmwareInstalls: whatever devices, firmware, rollouts,    *)
(* overrides and calls there are, a removal takes nothing that is in use;  *)
(* and about its history: a target leads to one write of its device, and a *)
(* rollback brings back what its devices ran.                              *)
EXTENDS FirmwareHistory, TLAPS

-----------------------------------------------------------------------------
(* The inductive invariant *)

\* a removal that has the lock has a row that is live, one that goes on to the
\* storage has marked it, and there is one removal of a firmware at a time
RemovalsHold ==
  /\ \A w \in Callers :
       /\ Is(w, "remove", "locked") => ~Gone(call[w].firmware)
       /\ Is(w, "remove", "storage") => Gone(call[w].firmware)
  /\ \A v, w \in Callers :
       v # w /\ call[v].op = "remove" /\ call[w].op = "remove"
         => call[v].firmware # call[w].firmware

\* a loop that switches back works for a rollout with that firmware
BackKnows(w) ==
  /\ call[w].rollout \in Rollouts
  /\ rollout[call[w].rollout].status # "none"
  /\ rollout[call[w].rollout].firmware = call[w].firmware

BacksKnow == \A w \in Callers : call[w].op = "back" => BackKnows(w)

\* neither removed nor about to be
Safe(f) == ~Gone(f) /\ ~LockedForDelete(f)

Usable == {"pending", "approved"}

\* what is used is not only there, but stays
UsedIsSafe ==
  \A f \in Firmware : ~Safe(f) =>
    /\ \A r \in Rollouts : rollout[r].status \in Open => rollout[r].firmware # f
    /\ \A o \in Overrides :
         override[o].status \in Usable => override[o].firmware # f
    /\ crossed \/ \A d \in Devices : Runs(d) # f

\* a rollout that exists names its firmware
RolloutsName == \A r \in Rollouts :
  rollout[r].status # "none" => rollout[r].firmware \in Firmware

IInv == TypeOK /\ RemovalsHold /\ BacksKnow /\ RolloutsName /\ UsedIsSafe

-----------------------------------------------------------------------------
(* Types of what a call holds *)

WorkerOps == {"confirm", "poll", "loop", "back"}

LEMMA KindsOfCalls ==
  /\ Idle \in Call /\ Idle.op = "idle"
  /\ \A c \in Worker : c \in Call /\ c.op \in WorkerOps
  /\ \A c \in RollingBack : c \in Call /\ c.op = "rollback"
  /\ \A c \in Removal : c \in Call /\ c.op = "remove"
BY DEF Call, Idle, Worker, RollingBack, Removal, WorkerOps

LEMMA KindOfCall ==
  ASSUME TypeOK, NEW w \in Callers
  PROVE  /\ call[w].op \in WorkerOps => call[w] \in Worker
         /\ call[w].op = "rollback" => call[w] \in RollingBack
         /\ call[w].op = "remove" => call[w] \in Removal
         /\ call[w].op # "idle" => call[w] # Idle
<1>1. call[w] = Idle \/ call[w] \in Worker \/ call[w] \in RollingBack
      \/ call[w] \in Removal
  BY DEF TypeOK, Call
<1>2. "idle" \notin WorkerOps /\ "rollback" \notin WorkerOps
      /\ "remove" \notin WorkerOps
  BY DEF WorkerOps
<1> QED
  BY <1>1, <1>2, KindsOfCalls

LEMMA NobodyIsReads == Nobody \in Reads
<1>1. Nobody \in [{} -> Seen]
  BY DEF Nobody
<1> QED
  BY <1>1 DEF Reads

LEMMA RestIsReads ==
  ASSUME NEW left \in Reads
  PROVE  /\ DOMAIN left \subseteq Devices
         /\ \A e \in DOMAIN left : left[e] \in Seen
         /\ \A d : [e \in DOMAIN left \ {d} |-> left[e]] \in Reads
<1>1. PICK D \in SUBSET Devices : left \in [D -> Seen]
  BY DEF Reads
<1>2. ASSUME NEW d
      PROVE  [e \in DOMAIN left \ {d} |-> left[e]] \in Reads
  <2>1. [e \in D \ {d} |-> left[e]] \in [D \ {d} -> Seen]
    BY <1>1
  <2>2. D \ {d} \in SUBSET Devices
    OBVIOUS
  <2> QED
    BY <1>1, <2>1, <2>2 DEF Reads
<1> QED
  BY <1>1, <1>2

-----------------------------------------------------------------------------
(* What every step but a removal does *)

\* no removal begins or moves, and nothing new is used that is not safe
Keeps ==
  /\ firmware' = firmware
  /\ \A v \in Callers :
       \/ call'[v] = call[v]
       \/ /\ call'[v].op # "remove"
          /\ call'[v].op = "back" => BackKnows(v)'
  /\ \A r \in Rollouts : rollout[r].status # "none" =>
       /\ rollout'[r].status # "none"
       /\ rollout'[r].firmware = rollout[r].firmware
  /\ \A r \in Rollouts : rollout'[r].status # "none" =>
       rollout[r].status # "none" \/ rollout'[r].firmware \in Firmware
  /\ \A r \in Rollouts : rollout'[r].status \in Open =>
       \/ /\ rollout[r].status \in Open
          /\ rollout'[r].firmware = rollout[r].firmware
       \/ Safe(rollout'[r].firmware)
  /\ \A o \in Overrides : override'[o].status \in Usable =>
       \/ /\ override[o].status \in Usable
          /\ override'[o].firmware = override[o].firmware
       \/ Safe(override'[o].firmware)
  /\ \/ crossed'
     \/ \A d \in Devices : \/ Runs(d)' = Runs(d)
                           \/ Runs(d)' = None
                           \/ Safe(device'[d].slot[device'[d].active])
  /\ crossed => crossed'

\* what was safe before such a step is safe after it
LEMMA SafeStays ==
  ASSUME Keeps, NEW f, Safe(f)
  PROVE  Safe(f)'
<1>1. Gone(f)' => Gone(f)
  BY DEF Keeps, Gone
<1>2. ASSUME LockedForDelete(f)' PROVE LockedForDelete(f)
  <2>1. PICK w \in Callers : Is(w, "remove", "locked")' /\ call'[w].firmware = f
    BY <1>2 DEF LockedForDelete
  <2>2. call'[w] = call[w]
    BY <2>1 DEF Keeps, Is
  <2> QED
    BY <2>1, <2>2 DEF LockedForDelete, Is
<1> QED
  BY <1>1, <1>2 DEF Safe

LEMMA KeepsStep ==
  ASSUME IInv, TypeOK', Keeps
  PROVE  IInv'
<1>1. RemovalsHold'
  <2>1. \A v \in Callers : call'[v].op = "remove" => call'[v] = call[v]
    BY DEF Keeps
  <2>2. \A f : Gone(f)' <=> Gone(f)
    BY DEF Keeps, Gone
  <2>3. \A w \in Callers : /\ Is(w, "remove", "locked")' => ~Gone(call[w].firmware)'
                           /\ Is(w, "remove", "storage")' => Gone(call[w].firmware)'
    BY <2>1, <2>2 DEF IInv, RemovalsHold, Is, Keeps, Gone
  <2> QED
    BY <2>1, <2>3 DEF IInv, RemovalsHold, Is
<1>2. BacksKnow'
  <2> SUFFICES ASSUME NEW v \in Callers, call'[v].op = "back"
               PROVE  BackKnows(v)'
    BY DEF BacksKnow
  <2>1. CASE call'[v] = call[v]
    BY <2>1 DEF IInv, BacksKnow, BackKnows, Keeps
  <2> QED
    BY <2>1 DEF Keeps
<1>3. UsedIsSafe'
  <2> SUFFICES ASSUME NEW f \in Firmware, ~Safe(f)'
               PROVE  /\ \A r \in Rollouts : rollout'[r].status \in Open =>
                           rollout'[r].firmware # f
                      /\ \A o \in Overrides : override'[o].status \in Usable =>
                           override'[o].firmware # f
                      /\ crossed' \/ \A d \in Devices : Runs(d)' # f
    BY DEF UsedIsSafe
  <2>1. ~Safe(f)
    BY SafeStays
  <2>2. \A r \in Rollouts : rollout'[r].status \in Open => rollout'[r].firmware # f
    BY <2>1 DEF IInv, UsedIsSafe, Keeps
  <2>3. \A o \in Overrides : override'[o].status \in Usable =>
          override'[o].firmware # f
    BY <2>1 DEF IInv, UsedIsSafe, Keeps
  <2>4. ASSUME ~crossed', NEW d \in Devices PROVE Runs(d)' # f
    <3>1. ~crossed /\ Runs(d) # f
      BY <2>1, <2>4 DEF IInv, UsedIsSafe, Keeps
    <3>2. CASE Runs(d)' = Runs(d)
      BY <3>1, <3>2
    <3>3. CASE Runs(d)' = None
      BY <3>3, NoneAssumption
    <3>4. CASE Safe(device'[d].slot[device'[d].active])
      BY <2>1, <3>4 DEF Runs
    <3> QED
      BY <2>4, <3>2, <3>3, <3>4 DEF Keeps
  <2> QED
    BY <2>2, <2>3, <2>4
<1>4. RolloutsName'
  BY DEF IInv, RolloutsName, Keeps
<1> QED
  BY <1>1, <1>2, <1>3, <1>4 DEF IInv

\* a reference taken under the lock of the row is to what is safe
LEMMA ReferableIsSafe ==
  ASSUME TypeOK, NEW f \in Firmware, Referable(f)
  PROVE  Safe(f)
BY DEF Referable, Safe, Gone

\* the firmware of an open rollout is safe
LEMMA OpenIsSafe ==
  ASSUME IInv, NEW r \in Rollouts, rollout[r].status \in Open,
         rollout[r].firmware \in Firmware
  PROVE  Safe(rollout[r].firmware)
BY DEF IInv, UsedIsSafe

\* a step of one caller that leaves every row alone
LEMMA CallerStep ==
  ASSUME IInv, NEW w \in Callers, NEW c \in Call,
         call' = [call EXCEPT ![w] = c],
         c.op # "remove",
         c.op = "back" => /\ c.rollout \in Rollouts
                          /\ rollout[c.rollout].status # "none"
                          /\ rollout[c.rollout].firmware = c.firmware,
         UNCHANGED <<mode, device, firmware, rollout, target, override, crossed>>,
         losses' \in Nat
  PROVE  IInv'
<1>1. TypeOK'
  BY DEF IInv, TypeOK
<1>2. Keeps
  <2>1. call'[w] = c /\ \A v \in Callers : v # w => call'[v] = call[v]
    BY DEF IInv, TypeOK
  <2>2. \A v \in Callers : \/ call'[v] = call[v]
                           \/ /\ call'[v].op # "remove"
                              /\ call'[v].op = "back" => BackKnows(v)'
    BY <2>1 DEF BackKnows
  <2> QED
    BY <2>2 DEF Keeps, Runs
<1> QED
  BY <1>1, <1>2, KeepsStep

-----------------------------------------------------------------------------
(* Steps that leave every row alone *)

Ats == {"start", "next", "consume", "switch", "flip", "record"}

\* a worker that moves on is a worker for the same rollout and firmware
LEMMA MovedIsWorker ==
  ASSUME NEW c \in Worker, NEW at \in Ats, NEW left \in Reads,
         NEW d \in Devices \cup {None}, NEW seen \in Slots, NEW done \in BOOLEAN
  PROVE  /\ [c EXCEPT !.at = at] \in Worker
         /\ [c EXCEPT !.at = at, !.left = left] \in Worker
         /\ [c EXCEPT !.at = at, !.done = done] \in Worker
         /\ [c EXCEPT !.at = at, !.device = d, !.seen = seen, !.left = left]
              \in Worker
         /\ [c EXCEPT !.at = at, !.device = d, !.seen = seen, !.done = done]
              \in Worker
BY ZenonT(60) DEF Worker, Ats

LEMMA ServedIsWorker ==
  ASSUME NEW w \in Callers, call[w] \in Worker
  PROVE  /\ Served(w) \in Worker
         /\ Served(w).op = call[w].op
         /\ Served(w).rollout = call[w].rollout
         /\ Served(w).firmware = call[w].firmware
         /\ Served(w).left = call[w].left
<1>1. "next" \in Ats /\ None \in Devices \cup {None} /\ "A" \in Slots
      /\ FALSE \in BOOLEAN
  BY DEF Ats, Slots
<1>2. Served(w) \in Worker
  BY <1>1, MovedIsWorker, NobodyIsReads DEF Served
<1>3. call[w] \in Worker => DOMAIN call[w] =
        {"op", "at", "rollout", "firmware", "override", "left", "device",
         "seen", "done"}
  BY DEF Worker
<1> QED
  BY <1>2, <1>3 DEF Served

LEMMA ServeIsWorker ==
  ASSUME NEW w \in Callers, call[w] \in Worker, NEW d \in DOMAIN call[w].left,
         NEW at \in Ats
  PROVE  /\ Serve(w, d, at) \in Worker
         /\ Serve(w, d, at).op = call[w].op
         /\ Serve(w, d, at).rollout = call[w].rollout
         /\ Serve(w, d, at).firmware = call[w].firmware
<1>1. call[w].left \in Reads
  BY DEF Worker
<1>2. d \in Devices /\ call[w].left[d].active \in Slots
      /\ [e \in DOMAIN call[w].left \ {d} |-> call[w].left[e]] \in Reads
  BY <1>1, RestIsReads DEF Seen
<1>3. Serve(w, d, at) =
        [call[w] EXCEPT !.at = at, !.device = d, !.seen = call[w].left[d].active,
           !.left = [e \in DOMAIN call[w].left \ {d} |-> call[w].left[e]]]
  BY DEF Serve, Worker
<1>4. Serve(w, d, at) \in Worker
  BY <1>2, <1>3 DEF Worker, Ats
<1> QED
  BY <1>3, <1>4 DEF Worker

LEMMA NewWorker ==
  ASSUME NEW op \in WorkerOps, NEW at \in Ats, NEW r \in Rollouts \cup {None},
         NEW f \in Firmware, NEW o \in Overrides \cup {None}, NEW left \in Reads,
         NEW d \in Devices \cup {None}, NEW seen \in Slots, NEW done \in BOOLEAN
  PROVE  [op |-> op, at |-> at, rollout |-> r, firmware |-> f, override |-> o,
          left |-> left, device |-> d, seen |-> seen, done |-> done] \in Worker
BY DEF Worker, WorkerOps, Ats

LEMMA InstallingIsWorker ==
  ASSUME TypeOK, NEW op \in {"confirm", "poll"}, NEW at \in Ats,
         NEW r \in Rollouts \cup {None}, NEW d \in Devices, NEW f \in Firmware,
         NEW o \in Overrides \cup {None}
  PROVE  /\ Installing(op, at, r, d, f, o) \in Worker
         /\ Installing(op, at, r, d, f, o).op = op
<1>1. op \in WorkerOps /\ device[d].active \in Slots /\ FALSE \in BOOLEAN
      /\ d \in Devices \cup {None}
  BY DEF TypeOK, Device, WorkerOps
<1> QED
  BY <1>1, NewWorker, NobodyIsReads DEF Installing

\* what the rows of open rollouts, overrides and devices are
LEMMA RowTypes ==
  ASSUME TypeOK
  PROVE  /\ \A r \in Rollouts : rollout[r] \in Rollout
         /\ \A r \in Rollouts, d \in Devices : target[r][d] \in Target
         /\ \A o \in Overrides : override[o] \in Override
         /\ \A d \in Devices : device[d] \in Device
         /\ \A d \in Devices : Runs(d) \in Firmware \cup {None}
         /\ \A d \in Devices : Spare(d) \in Firmware \cup {None}
BY DEF TypeOK, Device, Runs, Spare, Slots, Other

LEMMA ReadTargetsInv ==
  ASSUME IInv, NEW w \in Callers, ReadTargets(w)
  PROVE  IInv'
<1> DEFINE D == Pending(call[w].rollout)
           left == [d \in D |-> [active |-> device[d].active,
                                 held |-> Spare(d) = call[w].firmware]]
           c == [call[w] EXCEPT !.at = "next", !.left = left]
<1>1. call[w] \in Worker
  BY KindOfCall DEF IInv, ReadTargets, WorkerOps
<1>2. left \in Reads
  <2>1. D \in SUBSET Devices
    BY DEF Pending
  <2>2. \A d \in D : [active |-> device[d].active,
                      held |-> Spare(d) = call[w].firmware] \in Seen
    BY <2>1, RowTypes DEF IInv, Device, Seen
  <2>3. left \in [D -> Seen]
    BY <2>2
  <2> QED
    BY <2>1, <2>3 DEF Reads
<1>3. c \in Worker
  BY <1>1, <1>2 DEF Worker
<1>4. c.op = call[w].op /\ c.rollout = call[w].rollout
      /\ c.firmware = call[w].firmware
  BY <1>1 DEF Worker
<1>5. call' = [call EXCEPT ![w] = c]
  BY DEF ReadTargets, IInv, TypeOK
<1>6. c \in Call /\ c.op # "remove"
  BY <1>3, KindsOfCalls DEF WorkerOps
<1>7. c.op = "back" => /\ c.rollout \in Rollouts
                       /\ rollout[c.rollout].status # "none"
                       /\ rollout[c.rollout].firmware = c.firmware
  BY <1>4 DEF IInv, BacksKnow, BackKnows
<1> HIDE DEF c
<1> QED
  BY <1>5, <1>6, <1>7, CallerStep DEF ReadTargets, IInv, TypeOK

LEMMA ServeNextInv ==
  ASSUME IInv, NEW w \in Callers, ServeNext(w)
  PROVE  IInv'
<1>1. call[w] \in Worker /\ call[w].op = "loop"
  BY KindOfCall DEF IInv, ServeNext, Is, WorkerOps
<1>2. PICK d \in DOMAIN call[w].left, at \in {"switch", "record"} :
        call' = [call EXCEPT ![w] = Serve(w, d, at)]
  BY DEF ServeNext
<1>3. Serve(w, d, at) \in Worker /\ Serve(w, d, at).op = "loop"
  BY <1>1, ServeIsWorker DEF Ats
<1> QED
  BY <1>2, <1>3, KindsOfCalls, CallerStep DEF ServeNext, IInv, TypeOK

\* a call that ends
LEMMA CloseInv ==
  ASSUME IInv, NEW w \in Callers, Close(w),
         UNCHANGED <<mode, device, firmware, rollout, target, override, crossed>>,
         losses' \in Nat
  PROVE  IInv'
BY KindsOfCalls, CallerStep DEF Close

LEMMA ReadConfirmInv ==
  ASSUME IInv, NEW w \in Callers, NEW d \in Devices, NEW f \in Firmware,
         ReadConfirm(w, d, f)
  PROVE  IInv'
<1>1. PICK at \in Ats, o \in Overrides \cup {None} :
        call' = [call EXCEPT ![w] = Installing("confirm", at, None, d, f, o)]
  BY DEF ReadConfirm, Ats
<1>2. Installing("confirm", at, None, d, f, o) \in Worker
      /\ Installing("confirm", at, None, d, f, o).op = "confirm"
  BY InstallingIsWorker DEF IInv
<1> QED
  BY <1>1, <1>2, KindsOfCalls, CallerStep DEF ReadConfirm, IInv, TypeOK

LEMMA HearOfInstallInv ==
  ASSUME IInv, NEW w \in Callers, NEW r \in Rollouts, NEW d \in Devices,
         HearOfInstall(w, r, d)
  PROVE  IInv'
<1> DEFINE f == rollout[r].firmware
           c == Installing("poll", "switch", r, d, f, None)
<1>1. f \in Firmware
  BY DEF HearOfInstall, Waits, Started, IInv, RolloutsName
<1>2. c \in Worker /\ c.op = "poll"
  BY <1>1, InstallingIsWorker DEF IInv, Ats
<1>3. call' = [call EXCEPT ![w] = c]
  BY DEF HearOfInstall
<1> HIDE DEF c
<1> QED
  BY <1>2, <1>3, KindsOfCalls, CallerStep DEF HearOfInstall, IInv, TypeOK

LEMMA SwitchFailsInv ==
  ASSUME IInv, NEW w \in Callers, SwitchFails(w)
  PROVE  IInv'
<1> DEFINE c == AfterSwitch(w, FALSE)
<1>1. call[w] \in Worker
  BY KindOfCall DEF IInv, SwitchFails, WorkerOps
<1>2. c \in Call /\ c.op # "remove" /\ c.op # "back"
  <2>1. CASE call[w].op = "confirm"
    BY <2>1, KindsOfCalls DEF AfterSwitch
  <2>2. CASE call[w].op # "confirm"
    <3>1. c \in Worker /\ c.op = call[w].op
      BY <1>1, <2>2 DEF AfterSwitch, Worker
    <3> QED
      BY <3>1, KindsOfCalls DEF SwitchFails
  <2> QED
    BY <2>1, <2>2
<1>3. call' = [call EXCEPT ![w] = c] /\ losses' \in Nat
  BY DEF SwitchFails, MayLose, IInv, TypeOK
<1> HIDE DEF c
<1> QED
  BY <1>2, <1>3, CallerStep DEF SwitchFails

\* a recorder that is done is idle or a worker that is not switching back
LEMMA AfterRecordIsCall ==
  ASSUME IInv, NEW w \in Callers, call[w].op \in {"poll", "loop"}
  PROVE  /\ AfterRecord(w) \in Call
         /\ AfterRecord(w).op \notin {"remove", "back"}
<1>1. call[w] \in Worker
  BY KindOfCall DEF IInv, WorkerOps
<1>2. CASE call[w].op = "poll"
  BY <1>2, KindsOfCalls DEF AfterRecord
<1>3. CASE call[w].op = "loop"
  BY <1>1, <1>3, ServedIsWorker, KindsOfCalls DEF AfterRecord
<1> QED
  BY <1>2, <1>3

LEMMA RecordIsLostInv ==
  ASSUME IInv, NEW w \in Callers, RecordIsLost(w)
  PROVE  IInv'
<1> DEFINE c == AfterRecord(w)
<1>1. c \in Call /\ c.op # "remove" /\ c.op # "back"
  BY AfterRecordIsCall DEF RecordIsLost
<1>2. call' = [call EXCEPT ![w] = c] /\ losses' \in Nat
  BY DEF RecordIsLost, MayLose, IInv, TypeOK
<1> HIDE DEF c
<1> QED
  BY <1>1, <1>2, CallerStep DEF RecordIsLost

LEMMA ReadToRollBackInv ==
  ASSUME IInv, NEW w \in Callers, NEW r \in Rollouts, NEW D \in SUBSET Devices,
         ReadToRollBack(w, r, D)
  PROVE  IInv'
<1>0. PICK d \in D : \E f \in Previous(d) :
        call' = [call EXCEPT ![w] =
          [op |-> "rollback", rollout |-> r, status |-> rollout[r].status,
           firmware |-> f, devices |-> D]]
  BY DEF ReadToRollBack
<1>1. PICK f \in Previous(d) :
        call' = [call EXCEPT ![w] =
          [op |-> "rollback", rollout |-> r, status |-> rollout[r].status,
           firmware |-> f, devices |-> D]]
  BY <1>0
<1>2. f \in Firmware
  <2>1. d \in Devices
    OBVIOUS
  <2>2. Spare(d) \in Firmware \cup {None}
    BY <2>1, RowTypes DEF IInv
  <2> QED
    BY <2>2 DEF Previous
<1> DEFINE c == [op |-> "rollback", rollout |-> r, status |-> rollout[r].status,
                 firmware |-> f, devices |-> D]
<1>3. c \in RollingBack
  BY <1>2 DEF RollingBack, ReadToRollBack
<1>4. c.op = "rollback"
  OBVIOUS
<1> HIDE DEF c
<1>5. call' = [call EXCEPT ![w] = c]
  BY <1>1 DEF c
<1> QED
  BY <1>3, <1>4, <1>5, KindsOfCalls, CallerStep DEF ReadToRollBack, IInv, TypeOK

LEMMA RestartInv ==
  ASSUME IInv, Restart
  PROVE  IInv'
<1>1. TypeOK'
  BY KindsOfCalls DEF IInv, TypeOK, Restart, MayLose
<1>2. Keeps
  BY KindsOfCalls DEF Keeps, Restart, Runs
<1> QED
  BY <1>1, <1>2, KeepsStep

-----------------------------------------------------------------------------
(* Steps on rollouts, targets and overrides *)

\* a step that leaves devices, firmware and overrides alone; what the rollouts
\* become is theirs, calls only move on
LEMMA RolloutStep ==
  ASSUME IInv, TypeOK',
         UNCHANGED <<device, firmware, override, crossed>>,
         \A v \in Callers : \/ call'[v] = call[v]
                            \/ call'[v].op \notin {"remove", "back"}
                            \/ call'[v].op = "back" /\ BackKnows(v)',
         \A r \in Rollouts :
           \/ rollout'[r] = rollout[r]
           \/ /\ rollout[r].status # "none" /\ rollout'[r].status # "none"
              /\ rollout'[r].firmware = rollout[r].firmware
              /\ rollout'[r].status \in Open => rollout[r].status \in Open
           \/ /\ rollout[r].status = "none"
              /\ rollout'[r].firmware \in Firmware
              /\ Safe(rollout'[r].firmware)
  PROVE  IInv'
<1>1. Keeps
  BY DEF Keeps, Runs, Usable, Open
<1> QED
  BY <1>1, KeepsStep

TargetStatuses == {"none", "pending", "success", "failed", "skipped"}

\* a target that changes its status is a target
LEMMA TargetMoves ==
  ASSUME target \in [Rollouts -> [Devices -> Target]],
         NEW r \in Rollouts, NEW d \in Devices, NEW s \in TargetStatuses
  PROVE  [target EXCEPT ![r][d].status = s]
           \in [Rollouts -> [Devices -> Target]]
<1>1. target[r][d] \in Target
  OBVIOUS
<1>2. [target[r][d] EXCEPT !.status = s] \in Target
  BY <1>1 DEF Target, TargetStatuses
<1>3. [target[r] EXCEPT ![d] = [target[r][d] EXCEPT !.status = s]]
        \in [Devices -> Target]
  BY <1>2
<1> QED
  BY <1>3

\* a result is recorded: a started rollout goes on, pauses or completes
LEMMA Recorded ==
  ASSUME IInv, NEW r \in Rollouts, NEW d \in Devices,
         NEW result \in {"success", "failed"},
         RecordTargetResult(r, d, result)
  PROVE  /\ rollout' \in [Rollouts -> Rollout]
         /\ target' \in [Rollouts -> [Devices -> Target]]
         /\ \A q \in Rollouts : q # r => rollout'[q] = rollout[q]
         /\ rollout[r].status \in Started
         /\ rollout'[r].status \in {"active", "paused", "completed"}
         /\ rollout'[r].firmware = rollout[r].firmware
<1>1. rollout[r].status \in Started
  BY DEF RecordTargetResult, Waits
<1>2. PICK s \in Statuses(r, d, result) :
        rollout' = [rollout EXCEPT ![r].status = s]
  BY DEF RecordTargetResult
<1>3. s \in {"active", "paused", "completed"}
  BY <1>1, <1>2 DEF Statuses, Started
<1>4. /\ rollout' \in [Rollouts -> Rollout]
      /\ \A q \in Rollouts : q # r => rollout'[q] = rollout[q]
      /\ rollout'[r].status = s /\ rollout'[r].firmware = rollout[r].firmware
  BY <1>2, <1>3 DEF IInv, TypeOK, Rollout
<1>5. target' \in [Rollouts -> [Devices -> Target]]
  BY TargetMoves DEF RecordTargetResult, IInv, TypeOK, TargetStatuses
<1> QED
  BY <1>1, <1>3, <1>4, <1>5

LEMMA CreateInv ==
  ASSUME IInv, NEW r \in Rollouts, NEW f \in Firmware, NEW D \in SUBSET Devices,
         Create(r, f, D)
  PROVE  IInv'
<1>1. rollout' = [rollout EXCEPT ![r] =
        [status |-> "waiting", firmware |-> f, undoes |-> None]]
      /\ rollout[r].status = "none" /\ Referable(f)
  BY DEF Create, Insert
<1>2. /\ rollout' \in [Rollouts -> Rollout]
      /\ \A q \in Rollouts : q # r => rollout'[q] = rollout[q]
      /\ rollout'[r].firmware = f
  BY <1>1 DEF IInv, TypeOK, Rollout
<1>3. target' \in [Rollouts -> [Devices -> Target]]
  <2> DEFINE S(d) == IF d \in D THEN "pending" ELSE "none"
             row == [d \in Devices |-> [target[r][d] EXCEPT !.status = S(d)]]
  <2>1. row \in [Devices -> Target]
    <3>1. ASSUME NEW d \in Devices
          PROVE  [target[r][d] EXCEPT !.status = S(d)] \in Target
      BY RowTypes DEF IInv, Target
    <3> QED
      BY <3>1
  <2>2. target' = [target EXCEPT ![r] = row]
    BY DEF Create, Insert, IInv, TypeOK
  <2> HIDE DEF row
  <2> QED
    BY <2>1, <2>2 DEF IInv, TypeOK
<1>4. TypeOK'
  BY <1>2, <1>3 DEF Create, IInv, TypeOK
<1>5. Safe(f)
  BY <1>1, ReferableIsSafe DEF IInv
<1> QED
  BY <1>1, <1>2, <1>4, <1>5, RolloutStep DEF Create

LEMMA RejectInv ==
  ASSUME IInv, NEW r \in Rollouts, Reject(r)
  PROVE  IInv'
<1>1. /\ rollout' \in [Rollouts -> Rollout]
      /\ \A q \in Rollouts : q # r => rollout'[q] = rollout[q]
      /\ rollout'[r].status = "rejected"
      /\ rollout'[r].firmware = rollout[r].firmware
  BY DEF Reject, IInv, TypeOK, Rollout
<1>2. TypeOK'
  BY <1>1 DEF Reject, IInv, TypeOK
<1> QED
  BY <1>1, <1>2, RolloutStep DEF Reject, Open

LEMMA ActivateInv ==
  ASSUME IInv, NEW r \in Rollouts, NEW w \in Callers,
         NEW from \in {"waiting", "paused"}, Activate(r, w, from)
  PROVE  IInv'
<1>1. /\ rollout' \in [Rollouts -> Rollout]
      /\ \A q \in Rollouts : q # r => rollout'[q] = rollout[q]
      /\ rollout'[r].status = "active"
      /\ rollout'[r].firmware = rollout[r].firmware
  BY DEF Activate, IInv, TypeOK, Rollout
<1>2. rollout[r].status = from /\ rollout[r].firmware \in Firmware
  BY DEF Activate, IInv, RolloutsName
<1>3. /\ call' \in [Callers -> Call]
      /\ \A v \in Callers : \/ call'[v] = call[v]
                            \/ call'[v].op \notin {"remove", "back"}
                            \/ call'[v].op = "back" /\ BackKnows(v)'
  <2>1. CASE mode # "mock"
    BY <2>1 DEF Activate, StartLoop, IInv, TypeOK
  <2>2. CASE mode = "mock"
    <3> DEFINE op == IF rollout[r].undoes = None THEN "loop" ELSE "back"
               c == [op |-> op,
                     at |-> "start", rollout |-> r,
                     firmware |-> rollout[r].firmware,
                     override |-> None, left |-> Nobody,
                     device |-> None, seen |-> "A", done |-> FALSE]
    <3>1. call' = [call EXCEPT ![w] = c]
      BY <2>2 DEF Activate, StartLoop
    <3>2. c \in Worker
      BY <1>2, NobodyIsReads DEF Worker, Slots
    <3>3. c.op \in {"loop", "back"} /\ c.rollout = r
          /\ c.firmware = rollout[r].firmware
      OBVIOUS
    <3> HIDE DEF c
    <3>4. /\ call' \in [Callers -> Call]
          /\ call'[w] = c
          /\ \A v \in Callers : v # w => call'[v] = call[v]
      BY <3>1, <3>2, KindsOfCalls DEF IInv, TypeOK
    <3>5. BackKnows(w)'
      BY <1>1, <3>3, <3>4 DEF BackKnows
    <3> QED
      BY <3>3, <3>4, <3>5
  <2> QED
    BY <2>1, <2>2
<1>4. TypeOK'
  BY <1>1, <1>3 DEF Activate, IInv, TypeOK
<1> QED
  BY <1>1, <1>2, <1>3, <1>4, RolloutStep DEF Activate, Open

LEMMA SendCommandInv ==
  ASSUME IInv, NEW r \in Rollouts, NEW d \in Devices, SendCommand(r, d)
  PROVE  IInv'
<1>1. target' \in [Rollouts -> [Devices -> Target]]
  <2>1. [target[r][d] EXCEPT !.command = "sent"] \in Target
    BY RowTypes DEF IInv, Target
  <2>2. target' = [target EXCEPT ![r] =
          [target[r] EXCEPT ![d] = [target[r][d] EXCEPT !.command = "sent"]]]
    BY DEF SendCommand
  <2>3. [target[r] EXCEPT ![d] = [target[r][d] EXCEPT !.command = "sent"]]
          \in [Devices -> Target]
    BY <2>1 DEF IInv, TypeOK
  <2> QED
    BY <2>2, <2>3 DEF IInv, TypeOK
<1>2. TypeOK'
  BY <1>1 DEF SendCommand, IInv, TypeOK
<1> QED
  BY <1>2, RolloutStep DEF SendCommand

LEMMA CommandFailsInv ==
  ASSUME IInv, NEW r \in Rollouts, NEW d \in Devices, CommandFails(r, d)
  PROVE  IInv'
<1>1. TypeOK'
  BY Recorded DEF CommandFails, IInv, TypeOK
<1> QED
  BY <1>1, Recorded, RolloutStep DEF CommandFails, Open, Started

LEMMA MarkTargetSkippedInv ==
  ASSUME IInv, NEW r \in Rollouts, NEW d \in Devices, MarkTargetSkipped(r, d)
  PROVE  IInv'
<1>1. /\ rollout' \in [Rollouts -> Rollout]
      /\ \A q \in Rollouts :
           \/ rollout'[q] = rollout[q]
           \/ /\ rollout[q].status # "none"
              /\ rollout'[q].status = "completed"
              /\ rollout'[q].firmware = rollout[q].firmware
  BY DEF MarkTargetSkipped, IInv, TypeOK, Rollout
<1>2. target' \in [Rollouts -> [Devices -> Target]]
  BY TargetMoves DEF MarkTargetSkipped, IInv, TypeOK, TargetStatuses
<1>3. TypeOK'
  BY <1>1, <1>2 DEF MarkTargetSkipped, IInv, TypeOK
<1> QED
  BY <1>1, <1>3, RolloutStep DEF MarkTargetSkipped, Open

LEMMA OverrideStep ==
  ASSUME IInv, NEW o \in Overrides, NEW row \in Override,
         override' = [override EXCEPT ![o] = row],
         row.status \in Usable =>
           \/ /\ override[o].status \in Usable
              /\ row.firmware = override[o].firmware
           \/ Safe(row.firmware),
         UNCHANGED <<mode, device, firmware, rollout, target, losses, crossed>>,
         call' \in [Callers -> Call],
         \A v \in Callers : \/ call'[v] = call[v]
                            \/ call'[v].op \notin {"remove", "back"}
  PROVE  IInv'
<1>1. TypeOK'
  BY DEF IInv, TypeOK
<1>2. \A p \in Overrides : override'[p] = IF p = o THEN row ELSE override[p]
  BY DEF IInv, TypeOK
<1>3. Keeps
  BY <1>2 DEF Keeps, Runs
<1> QED
  BY <1>1, <1>3, KeepsStep

LEMMA OverrideDeviceFirmwareInv ==
  ASSUME IInv, NEW o \in Overrides, NEW d \in Devices, NEW f \in Firmware,
         OverrideDeviceFirmware(o, d, f)
  PROVE  IInv'
<1> DEFINE row == [status |-> "pending", device |-> d, firmware |-> f]
<1>1. row \in Override /\ row.firmware = f
  BY DEF Override
<1>2. override' = [override EXCEPT ![o] = row]
  BY DEF OverrideDeviceFirmware
<1>3. Safe(f)
  BY ReferableIsSafe DEF OverrideDeviceFirmware, IInv
<1> HIDE DEF row
<1> QED
  BY <1>1, <1>2, <1>3, OverrideStep DEF OverrideDeviceFirmware, IInv, TypeOK

LEMMA DecideOverrideInv ==
  ASSUME IInv, NEW o \in Overrides, DecideOverride(o)
  PROVE  IInv'
<1>1. PICK s \in {"approved", "rejected"} :
        override' = [override EXCEPT ![o].status = s]
  BY DEF DecideOverride
<1> DEFINE row == [override[o] EXCEPT !.status = s]
<1>2. /\ row \in Override
      /\ row.firmware = override[o].firmware
      /\ override[o].status \in Usable
  BY RowTypes DEF Override, DecideOverride, Usable, IInv
<1>3. override' = [override EXCEPT ![o] = row]
  BY <1>1
<1> HIDE DEF row
<1> QED
  BY <1>2, <1>3, OverrideStep DEF DecideOverride, IInv, TypeOK

LEMMA ConsumeOverrideInv ==
  ASSUME IInv, NEW w \in Callers, ConsumeOverride(w)
  PROVE  IInv'
<1>1. call[w] \in Worker /\ call[w].op = "confirm"
  BY KindOfCall DEF IInv, ConsumeOverride, Is, WorkerOps
<1>2. CASE override[call[w].override].status # "approved"
  BY <1>2, CloseInv DEF ConsumeOverride, IInv, TypeOK
<1>3. CASE override[call[w].override].status = "approved"
  <2> DEFINE c == [call[w] EXCEPT !.at = "record"]
             o == call[w].override
             row == [override[o] EXCEPT !.status = "used"]
  <2>1. c \in Worker /\ c.op = "confirm"
    BY <1>1 DEF Worker
  <2>2. call' = [call EXCEPT ![w] = c]
    BY <1>3 DEF ConsumeOverride
  <2>3. o \in Overrides \cup {None}
    BY <1>1 DEF Worker
  <2>4. override' = [override EXCEPT ![o].status = "used"]
    BY <1>3 DEF ConsumeOverride
  <2> HIDE DEF c
  <2>5. /\ call' \in [Callers -> Call]
        /\ \A v \in Callers : \/ call'[v] = call[v]
                              \/ call'[v].op \notin {"remove", "back"}
    BY <2>1, <2>2, KindsOfCalls DEF IInv, TypeOK
  <2>6. CASE o \in Overrides
    <3>1. row \in Override /\ row.status \notin Usable
      BY <2>6, RowTypes DEF Override, Usable, IInv
    <3>2. override' = [override EXCEPT ![o] = row]
      BY <2>4
    <3> HIDE DEF row, o
    <3> QED
      BY <2>5, <2>6, <3>1, <3>2, OverrideStep DEF ConsumeOverride
  <2>7. CASE o \notin Overrides
    <3>1. override' = override
      BY <2>4, <2>7 DEF IInv, TypeOK
    <3> QED
      BY <2>5, <3>1, RolloutStep DEF ConsumeOverride, IInv, TypeOK
  <2> QED
    BY <2>6, <2>7
<1> QED
  BY <1>2, <1>3

LEMMA RecordConfirmInv ==
  ASSUME IInv, NEW w \in Callers, RecordConfirm(w)
  PROVE  IInv'
<1>1. call[w] \in Worker /\ call[w].op = "confirm"
  BY KindOfCall DEF IInv, RecordConfirm, Is, WorkerOps
<1> DEFINE c == [call[w] EXCEPT !.at = "switch"]
<1>2. c \in Worker /\ c.op = "confirm"
  BY <1>1 DEF Worker
<1>3. call' = [call EXCEPT ![w] = c]
  BY DEF RecordConfirm
<1> HIDE DEF c
<1>4. /\ call' \in [Callers -> Call]
      /\ \A v \in Callers : \/ call'[v] = call[v]
                            \/ call'[v].op \notin {"remove", "back"}
  BY <1>2, <1>3, KindsOfCalls DEF IInv, TypeOK
<1>5. CASE UNCHANGED <<rollout, target>>
  BY <1>4, <1>5, RolloutStep DEF RecordConfirm, IInv, TypeOK
<1>6. ASSUME NEW r \in Rollouts, Waits(r, call[w].device),
             RecordTargetResult(r, call[w].device, "success")
      PROVE  IInv'
  <2>1. call[w].device \in Devices
    BY <1>6 DEF Waits, Pending
  <2>2. TypeOK'
    BY <1>4, <1>6, <2>1, Recorded DEF RecordConfirm, IInv, TypeOK
  <2> QED
    BY <1>4, <1>6, <2>1, <2>2, Recorded, RolloutStep
    DEF RecordConfirm, Open, Started
<1> QED
  BY <1>5, <1>6 DEF RecordConfirm

LEMMA RecordInstallInv ==
  ASSUME IInv, NEW w \in Callers, RecordInstall(w)
  PROVE  IInv'
<1> DEFINE c == AfterRecord(w)
<1>1. c \in Call /\ c.op \notin {"remove", "back"}
  BY AfterRecordIsCall DEF RecordInstall
<1>2. call' = [call EXCEPT ![w] = c]
  BY DEF RecordInstall
<1> HIDE DEF c
<1>3. /\ call' \in [Callers -> Call]
      /\ \A v \in Callers : \/ call'[v] = call[v]
                            \/ call'[v].op \notin {"remove", "back"}
  BY <1>1, <1>2 DEF IInv, TypeOK
<1>4. CASE UNCHANGED <<rollout, target>>
  BY <1>3, <1>4, RolloutStep DEF RecordInstall, IInv, TypeOK
<1>5. ASSUME Waits(call[w].rollout, call[w].device),
             NEW result \in {"success", "failed"},
             RecordTargetResult(call[w].rollout, call[w].device, result)
      PROVE  IInv'
  <2>1. call[w].device \in Devices
    BY <1>5 DEF Waits, Pending
  <2>2. CASE call[w].rollout \in Rollouts
    <3>1. TypeOK'
      BY <1>3, <1>5, <2>1, <2>2, Recorded DEF RecordInstall, IInv, TypeOK
    <3> QED
      BY <1>3, <1>5, <2>1, <2>2, <3>1, Recorded, RolloutStep
      DEF RecordInstall, Open, Started
  <2>3. CASE call[w].rollout \notin Rollouts
    <3>1. UNCHANGED <<rollout, target>>
      BY <1>5, <2>3 DEF RecordTargetResult, IInv, TypeOK
    <3> QED
      BY <1>4, <3>1
  <2> QED
    BY <2>2, <2>3
<1> QED
  BY <1>4, <1>5 DEF RecordInstall

LEMMA RefuseRollbackInv ==
  ASSUME IInv, NEW w \in Callers, RefuseRollback(w)
  PROVE  IInv'
BY CloseInv DEF RefuseRollback, IInv, TypeOK

LEMMA EndLoopInv ==
  ASSUME IInv, NEW w \in Callers, EndLoop(w)
  PROVE  IInv'
BY CloseInv DEF EndLoop, IInv, TypeOK

\* the rollout that is rolled back closes, and the new one is for firmware that
\* was found live under its lock
LEMMA RollBackInv ==
  ASSUME IInv, NEW w \in Callers, NEW new \in Rollouts, RollBack(w, new)
  PROVE  IInv'
<1> DEFINE c == call[w]
           running == c.status \in Started
<1>1. call[w] \in RollingBack
  BY KindOfCall DEF IInv, RollBack
<1>2. /\ call[w].rollout \in Rollouts /\ call[w].firmware \in Firmware
      /\ call[w].devices \subseteq Devices
  BY <1>1 DEF RollingBack
<1>3. Safe(call[w].firmware) /\ rollout[new].status = "none"
  BY <1>2, ReferableIsSafe DEF RollBack, IInv
<1>4. running => rollout[call[w].rollout].status \in Started
                 /\ call[w].rollout # new
  BY <1>3 DEF RollBack, Started
<1>5. \A r \in Rollouts :
        rollout'[r] =
          IF r = new THEN [status |-> "waiting", firmware |-> call[w].firmware,
                           undoes |-> call[w].rollout]
          ELSE IF r = call[w].rollout /\ running
          THEN [rollout[r] EXCEPT !.status = "cancelled"] ELSE rollout[r]
  BY DEF RollBack
<1> HIDE DEF running
<1>6. rollout' \in [Rollouts -> Rollout]
  <2>1. ASSUME NEW r \in Rollouts PROVE rollout'[r] \in Rollout
    <3>1. rollout[r] \in Rollout
      BY RowTypes DEF IInv
    <3>2. [rollout[r] EXCEPT !.status = "cancelled"] \in Rollout
      BY <3>1 DEF Rollout
    <3>3. [status |-> "waiting", firmware |-> call[w].firmware,
           undoes |-> call[w].rollout] \in Rollout
      BY <1>2 DEF Rollout
    <3> QED
      BY <1>5, <3>1, <3>2, <3>3
  <2>2. rollout' = [r \in Rollouts |-> rollout'[r]]
    BY DEF RollBack
  <2> QED
    BY <2>1, <2>2
<1>7. target' \in [Rollouts -> [Devices -> Target]]
  <2> DEFINE row(r) ==
               IF r = new THEN [d \in Devices |->
                 [target[r][d] EXCEPT
                    !.status = IF d \in c.devices THEN "pending" ELSE "none"]]
               ELSE IF r = c.rollout /\ running THEN [d \in Devices |->
                 [target[c.rollout][d] EXCEPT
                    !.status = IF @ = "pending" THEN "failed" ELSE @]]
               ELSE target[r]
  <2>1. ASSUME NEW r \in Rollouts PROVE row(r) \in [Devices -> Target]
    <3>1. \A d \in Devices :
            [target[r][d] EXCEPT
               !.status = IF d \in c.devices THEN "pending" ELSE "none"]
              \in Target
      BY RowTypes DEF IInv, Target
    <3>2. ASSUME NEW d \in Devices
          PROVE  [target[c.rollout][d] EXCEPT
                    !.status = IF @ = "pending" THEN "failed" ELSE @] \in Target
      <4>1. target[c.rollout][d] \in Target
        BY <1>2, RowTypes DEF IInv
      <4>2. CASE target[c.rollout][d].status = "pending"
        BY <4>1, <4>2 DEF Target
      <4>3. CASE target[c.rollout][d].status # "pending"
        BY <4>1, <4>3 DEF Target
      <4> QED
        BY <4>2, <4>3
    <3>3. target[r] \in [Devices -> Target]
      BY DEF IInv, TypeOK
    <3> QED
      BY <3>1, <3>2, <3>3
  <2>2. target' = [r \in Rollouts |-> row(r)]
    BY DEF RollBack, running
  <2> HIDE DEF row
  <2> QED
    BY <2>1, <2>2
<1>8. /\ call' \in [Callers -> Call]
      /\ \A v \in Callers : \/ call'[v] = call[v]
                            \/ call'[v].op \notin {"remove", "back"}
  BY KindsOfCalls DEF RollBack, Close, IInv, TypeOK
<1>9. TypeOK'
  BY <1>6, <1>7, <1>8 DEF RollBack, IInv, TypeOK
<1>10. ASSUME NEW r \in Rollouts
       PROVE  \/ rollout'[r] = rollout[r]
              \/ /\ rollout[r].status # "none" /\ rollout'[r].status # "none"
                 /\ rollout'[r].firmware = rollout[r].firmware
                 /\ rollout'[r].status \in Open => rollout[r].status \in Open
              \/ /\ rollout[r].status = "none"
                 /\ rollout'[r].firmware \in Firmware
                 /\ Safe(rollout'[r].firmware)
  <2>1. CASE r = new
    <3>1. rollout'[r] = [status |-> "waiting", firmware |-> call[w].firmware,
                         undoes |-> call[w].rollout]
      BY <1>5, <2>1
    <3>2. rollout'[r].firmware = call[w].firmware
      BY <3>1
    <3> QED
      BY <1>2, <1>3, <2>1, <3>2
  <2>2. CASE r # new /\ r = call[w].rollout /\ running
    BY <1>4, <1>5, <2>2, RowTypes DEF IInv, Rollout, Open, Started
  <2>3. CASE r # new /\ ~(r = call[w].rollout /\ running)
    BY <1>5, <2>3
  <2> QED
    BY <2>1, <2>2, <2>3
<1> QED
  BY <1>8, <1>9, <1>10, RolloutStep DEF RollBack

-----------------------------------------------------------------------------
(* Steps on devices *)

\* a step that writes devices and calls only
LEMMA DeviceStep ==
  ASSUME IInv, device' \in [Devices -> Device], call' \in [Callers -> Call],
         UNCHANGED <<mode, firmware, rollout, target, override, losses>>,
         crossed' \in BOOLEAN, crossed => crossed',
         \A v \in Callers : \/ call'[v] = call[v]
                            \/ call'[v].op \notin {"remove", "back"}
                            \/ call'[v].op = "back" /\ BackKnows(v)',
         \/ crossed'
         \/ \A d \in Devices : \/ device'[d] = device[d]
                               \/ Runs(d)' = Runs(d)
                               \/ Runs(d)' = None
                               \/ Safe(device'[d].slot[device'[d].active])
  PROVE  IInv'
<1>1. TypeOK'
  BY DEF IInv, TypeOK
<1>2. \/ crossed'
      \/ \A d \in Devices : \/ Runs(d)' = Runs(d)
                            \/ Runs(d)' = None
                            \/ Safe(device'[d].slot[device'[d].active])
  BY DEF Runs
<1>3. Keeps
  BY <1>2 DEF Keeps
<1> QED
  BY <1>1, <1>3, KeepsStep

LEMMA RegisterInv ==
  ASSUME IInv, NEW d \in Devices, NEW f \in Firmware \cup {None}, Register(d, f)
  PROVE  IInv'
<1>1. device[d] \in Device /\ "A" \in Slots
  BY RowTypes DEF IInv, Slots
<1> DEFINE slot == [device[d].slot EXCEPT !["A"] = f]
           row == [device[d] EXCEPT !.there = TRUE, !.slot = slot]
<1>2. slot \in [Slots -> Firmware \cup {None}]
  BY <1>1 DEF Device
<1>3. /\ row \in Device
      /\ row.slot = slot /\ row.active = device[d].active
  BY <1>1, <1>2 DEF Device
<1>4. device' = [device EXCEPT ![d] = row]
  BY <1>1 DEF Register, IInv, TypeOK, Device
<1> HIDE DEF row
<1>5. /\ device' \in [Devices -> Device]
      /\ device'[d] = row
      /\ \A e \in Devices : e # d => device'[e] = device[e]
  BY <1>3, <1>4 DEF IInv, TypeOK
<1>6. Runs(d)' = slot[device[d].active]
  BY <1>3, <1>5 DEF Runs
<1>7. slot[device[d].active] = Runs(d) \/ slot[device[d].active] = f
  BY <1>1 DEF Device, Runs
<1>8. f = None \/ Safe(f)
  BY ReferableIsSafe DEF Register, IInv
<1>9. \/ Runs(d)' = Runs(d) \/ Runs(d)' = None
      \/ Safe(device'[d].slot[device'[d].active])
  BY <1>6, <1>7, <1>8 DEF Runs
<1> QED
  BY <1>5, <1>9, DeviceStep DEF Register, IInv, TypeOK

\* the partition that was not active when a worker read, or is not
LEMMA OtherIsSlot == \A s \in Slots : Other(s) \in Slots
BY DEF Slots, Other

LEMMA SwitchPartitionInv ==
  ASSUME IInv, NEW w \in Callers, SwitchPartition(w)
  PROVE  IInv'
<1> DEFINE c == AfterSwitch(w, TRUE)
           next == Other(call[w].seen)
           d == call[w].device
           f == call[w].firmware
<1>1. call[w] \in Worker
  BY KindOfCall DEF IInv, SwitchPartition, WorkerOps
<1>2. next \in Slots /\ f \in Firmware
  BY <1>1, OtherIsSlot DEF Worker
<1>3. c \in Call /\ c.op \notin {"remove", "back"}
  <2>1. CASE call[w].op = "confirm"
    BY <2>1, KindsOfCalls DEF AfterSwitch
  <2>2. CASE call[w].op # "confirm"
    <3>1. c \in Worker /\ c.op = call[w].op
      BY <1>1, <2>2 DEF AfterSwitch, Worker
    <3> QED
      BY <3>1, KindsOfCalls DEF SwitchPartition
  <2> QED
    BY <2>1, <2>2
<1>4. call' = [call EXCEPT ![w] = c]
  BY DEF SwitchPartition
<1>5. device' = [device EXCEPT ![d].active = next, ![d].slot[next] = f]
  BY DEF SwitchPartition
<1>6. Safe(f)
  BY <1>2, ReferableIsSafe DEF SwitchPartition, IInv
<1> HIDE DEF c, next, d, f
<1>7. /\ call' \in [Callers -> Call]
      /\ \A v \in Callers : \/ call'[v] = call[v]
                            \/ call'[v].op \notin {"remove", "back"}
  BY <1>3, <1>4 DEF IInv, TypeOK
<1>8. CASE d \notin Devices
  <2>1. device' = device
    BY <1>5, <1>8 DEF IInv, TypeOK
  <2> QED
    BY <1>7, <2>1, DeviceStep DEF SwitchPartition, IInv, TypeOK
<1>9. CASE d \in Devices
  <2> DEFINE slot == [device[d].slot EXCEPT ![next] = f]
             row == [device[d] EXCEPT !.active = next, !.slot = slot]
  <2>1. device[d] \in Device
    BY <1>9, RowTypes DEF IInv
  <2>2. slot \in [Slots -> Firmware \cup {None}] /\ slot[next] = f
    BY <1>2, <2>1 DEF Device
  <2>3. row \in Device /\ row.slot = slot /\ row.active = next
    BY <1>2, <2>1, <2>2 DEF Device
  <2>4. device' = [device EXCEPT ![d] = row]
    BY <1>5, <1>9, <2>1 DEF IInv, TypeOK, Device
  <2> HIDE DEF row
  <2>5. /\ device' \in [Devices -> Device]
        /\ device'[d] = row
        /\ \A e \in Devices : e # d => device'[e] = device[e]
    BY <1>9, <2>3, <2>4 DEF IInv, TypeOK
  <2>6. device'[d].slot[device'[d].active] = f
    BY <2>2, <2>3, <2>5
  <2> QED
    BY <1>6, <1>7, <2>5, <2>6, DeviceStep DEF SwitchPartition, IInv, TypeOK
<1> QED
  BY <1>8, <1>9

\* the loop that switches back goes on with the same rollout and firmware
LEMMA WriteBackTargetInv ==
  ASSUME IInv, NEW w \in Callers, WriteBackTarget(w)
  PROVE  IInv'
<1>1. call[w] \in Worker /\ call[w].op = "back"
  BY KindOfCall DEF IInv, WriteBackTarget, Is, WorkerOps
<1>2. PICK d \in DOMAIN call[w].left :
        LET held == call[w].left[d].held
        IN /\ target' = [target EXCEPT ![call[w].rollout][d].status =
                           IF held THEN "success" ELSE "failed"]
           /\ call' = [call EXCEPT ![w] =
                IF held THEN Serve(w, d, "flip")
                ELSE [Served(w) EXCEPT
                        !.left = [e \in DOMAIN @ \ {d} |-> @[e]]]]
  BY DEF WriteBackTarget
<1> DEFINE rest == [Served(w) EXCEPT !.left = [e \in DOMAIN @ \ {d} |-> @[e]]]
           c == IF call[w].left[d].held THEN Serve(w, d, "flip") ELSE rest
<1>3. /\ rest \in Worker
      /\ rest.op = "back"
      /\ rest.rollout = call[w].rollout /\ rest.firmware = call[w].firmware
  <2>1. /\ Served(w) \in Worker /\ Served(w).op = "back"
        /\ Served(w).rollout = call[w].rollout
        /\ Served(w).firmware = call[w].firmware
    BY <1>1, ServedIsWorker
  <2>2. [e \in DOMAIN Served(w).left \ {d} |-> Served(w).left[e]] \in Reads
    BY <2>1, RestIsReads DEF Worker
  <2> QED
    BY <2>1, <2>2 DEF Worker
<1>4. /\ c \in Worker
      /\ c.op = "back"
      /\ c.rollout = call[w].rollout /\ c.firmware = call[w].firmware
  <2>1. CASE call[w].left[d].held
    BY <1>1, <2>1, ServeIsWorker DEF Ats
  <2>2. CASE ~call[w].left[d].held
    BY <1>3, <2>2
  <2> QED
    BY <2>1, <2>2
<1>5. call' = [call EXCEPT ![w] = c]
  BY <1>2
<1> HIDE DEF c, rest
<1>6. /\ call' \in [Callers -> Call]
      /\ \A v \in Callers : call'[v] = IF v = w THEN c ELSE call[v]
  BY <1>4, <1>5, KindsOfCalls DEF IInv, TypeOK
<1>7. BackKnows(w)
  BY <1>1 DEF IInv, BacksKnow
<1>8. BackKnows(w)'
  BY <1>4, <1>6, <1>7 DEF BackKnows, WriteBackTarget
<1>9. target' \in [Rollouts -> [Devices -> Target]]
  <2>1. d \in Devices
    BY <1>1, RestIsReads DEF Worker
  <2> QED
    BY <1>2, <1>7, <2>1, TargetMoves DEF BackKnows, IInv, TypeOK, TargetStatuses
<1>10. TypeOK'
  BY <1>6, <1>9 DEF WriteBackTarget, IInv, TypeOK
<1> QED
  BY <1>4, <1>6, <1>8, <1>10, RolloutStep DEF WriteBackTarget

\* a device that is switched back without a crossing runs the firmware of an
\* open rollout, which is safe
LEMMA FlipPartitionInv ==
  ASSUME IInv, NEW w \in Callers, FlipPartition(w)
  PROVE  IInv'
<1> DEFINE c == Served(w)
           next == Other(call[w].seen)
           d == call[w].device
<1>1. call[w] \in Worker /\ call[w].op = "back"
  BY KindOfCall DEF IInv, FlipPartition, Is, WorkerOps
<1>2. next \in Slots
  BY <1>1, OtherIsSlot DEF Worker
<1>3. /\ c \in Worker /\ c.op = "back"
      /\ c.rollout = call[w].rollout /\ c.firmware = call[w].firmware
  BY <1>1, ServedIsWorker
<1>4. call' = [call EXCEPT ![w] = c]
  BY DEF FlipPartition
<1>5. device' = [device EXCEPT ![d].active = next]
  BY DEF FlipPartition
<1>6. BackKnows(w)
  BY <1>1 DEF IInv, BacksKnow
<1>7. crossed' = (crossed \/ Crossing(w))
  BY DEF FlipPartition
<1>8. ~crossed' => /\ Safe(call[w].firmware)
                   /\ device[d].slot[next] = call[w].firmware
  <2> SUFFICES ASSUME ~crossed'
               PROVE  /\ Safe(call[w].firmware)
                      /\ device[d].slot[next] = call[w].firmware
    OBVIOUS
  <2>1. ~Crossing(w)
    BY <1>7
  <2>2. /\ rollout[call[w].rollout].status \in Open
        /\ device[d].slot[next] = call[w].firmware
    BY <2>1 DEF Crossing
  <2>3. call[w].firmware \in Firmware
    BY <1>1 DEF Worker
  <2> QED
    BY <1>6, <2>2, <2>3, OpenIsSafe DEF BackKnows
<1> HIDE DEF c, next, d
<1>9. /\ call' \in [Callers -> Call]
      /\ \A v \in Callers : call'[v] = IF v = w THEN c ELSE call[v]
  BY <1>3, <1>4, KindsOfCalls DEF IInv, TypeOK
<1>10. BackKnows(w)'
  BY <1>3, <1>6, <1>9 DEF BackKnows, FlipPartition
<1>11. crossed' \in BOOLEAN /\ (crossed => crossed')
  BY <1>7
<1>12. CASE d \notin Devices
  <2>1. device' = device
    BY <1>5, <1>12 DEF IInv, TypeOK
  <2> QED
    BY <1>3, <1>9, <1>10, <1>11, <2>1, DeviceStep DEF FlipPartition, IInv, TypeOK
<1>13. CASE d \in Devices
  <2> DEFINE row == [device[d] EXCEPT !.active = next]
  <2>1. device[d] \in Device
    BY <1>13, RowTypes DEF IInv
  <2>2. row \in Device /\ row.slot = device[d].slot /\ row.active = next
    BY <1>2, <2>1 DEF Device
  <2>3. device' = [device EXCEPT ![d] = row]
    BY <1>5
  <2> HIDE DEF row
  <2>4. /\ device' \in [Devices -> Device]
        /\ device'[d] = row
        /\ \A e \in Devices : e # d => device'[e] = device[e]
    BY <1>13, <2>2, <2>3 DEF IInv, TypeOK
  <2>5. ~crossed' => Safe(device'[d].slot[device'[d].active])
    BY <1>8, <2>2, <2>4
  <2> QED
    BY <1>3, <1>9, <1>10, <1>11, <2>4, <2>5, DeviceStep DEF FlipPartition
<1> QED
  BY <1>12, <1>13

LEMMA EndBackInv ==
  ASSUME IInv, NEW w \in Callers, EndBack(w)
  PROVE  IInv'
<1> DEFINE r == call[w].rollout
<1>1. r \in Rollouts /\ rollout[r].status # "none"
  BY DEF IInv, BacksKnow, BackKnows, EndBack, Is
<1>2. rollout' = [rollout EXCEPT ![r].status = "completed"]
  BY DEF EndBack
<1> HIDE DEF r
<1>3. /\ rollout' \in [Rollouts -> Rollout]
      /\ \A q \in Rollouts : q # r => rollout'[q] = rollout[q]
      /\ rollout'[r].status = "completed"
      /\ rollout'[r].firmware = rollout[r].firmware
  BY <1>1, <1>2 DEF IInv, TypeOK, Rollout
<1>4. /\ call' \in [Callers -> Call]
      /\ \A v \in Callers : \/ call'[v] = call[v]
                            \/ call'[v].op \notin {"remove", "back"}
  BY KindsOfCalls DEF EndBack, Close, IInv, TypeOK
<1>5. TypeOK'
  BY <1>3, <1>4 DEF EndBack, IInv, TypeOK
<1> QED
  BY <1>1, <1>3, <1>4, <1>5, RolloutStep DEF EndBack, Open

-----------------------------------------------------------------------------
(* Removals *)

\* a step of a removal: what stops being safe is not in use
LEMMA RemovalStep ==
  ASSUME IInv, TypeOK', RemovalsHold',
         UNCHANGED <<device, rollout, override, crossed>>,
         \A v \in Callers : call'[v].op = "back" => call'[v] = call[v],
         \A f \in Firmware : ~Safe(f)' => ~Safe(f) \/ ~InUse(f)
  PROVE  IInv'
<1>1. BacksKnow'
  <2> SUFFICES ASSUME NEW v \in Callers, call'[v].op = "back"
               PROVE  BackKnows(v)'
    BY DEF BacksKnow
  <2>1. call'[v] = call[v] /\ BackKnows(v)
    BY DEF IInv, BacksKnow
  <2> QED
    BY <2>1 DEF BackKnows
<1>2. UsedIsSafe'
  <2> SUFFICES ASSUME NEW f \in Firmware, ~Safe(f)'
               PROVE  /\ \A r \in Rollouts : rollout[r].status \in Open =>
                           rollout[r].firmware # f
                      /\ \A o \in Overrides : override[o].status \in Usable =>
                           override[o].firmware # f
                      /\ crossed \/ \A d \in Devices : Runs(d) # f
    BY DEF UsedIsSafe, Runs
  <2>1. CASE ~Safe(f)
    BY <2>1 DEF IInv, UsedIsSafe
  <2>2. CASE ~InUse(f)
    BY <2>2 DEF InUse, Usable
  <2> QED
    BY <2>1, <2>2
<1>3. RolloutsName'
  BY DEF IInv, RolloutsName
<1> QED
  BY <1>1, <1>2, <1>3 DEF IInv

LEMMA LockForDeleteInv ==
  ASSUME IInv, NEW w \in Callers, NEW f \in Firmware, LockForDelete(w, f)
  PROVE  IInv'
<1> DEFINE c == [op |-> "remove", at |-> "locked", firmware |-> f]
<1>1. c \in Removal /\ c.op = "remove" /\ c.at = "locked" /\ c.firmware = f
  BY DEF Removal
<1>2. call' = [call EXCEPT ![w] = c]
  BY DEF LockForDelete
<1> HIDE DEF c
<1>3. /\ call' \in [Callers -> Call]
      /\ call'[w] = c
      /\ \A v \in Callers : v # w => call'[v] = call[v]
  BY <1>1, <1>2, KindsOfCalls DEF IInv, TypeOK
<1>4. TypeOK'
  BY <1>3 DEF LockForDelete, IInv, TypeOK
<1>5. ~Gone(f) /\ ~LockedForDelete(f)
  BY DEF LockForDelete, Referable, Gone
<1>6. ASSUME NEW v \in Callers, call[v].op = "remove"
      PROVE  call[v].firmware # f
  <2>1. call[v].at \in {"locked", "storage"}
    BY <1>6, KindOfCall DEF IInv, Removal
  <2> QED
    BY <1>5, <1>6, <2>1 DEF IInv, RemovalsHold, Is, LockedForDelete
<1>7. RemovalsHold'
  <2>1. \A g : Gone(g)' <=> Gone(g)
    BY DEF LockForDelete, Gone
  <2>2. ASSUME NEW v \in Callers
        PROVE  /\ Is(v, "remove", "locked")' => ~Gone(call'[v].firmware)
               /\ Is(v, "remove", "storage")' => Gone(call'[v].firmware)
    <3>1. CASE v = w
      BY <1>1, <1>3, <1>5, <3>1 DEF Is
    <3>2. CASE v # w
      BY <1>3, <3>2 DEF Is, IInv, RemovalsHold
    <3> QED
      BY <3>1, <3>2
  <2>3. ASSUME NEW v \in Callers, NEW u \in Callers, v # u,
               call'[v].op = "remove", call'[u].op = "remove"
        PROVE  call'[v].firmware # call'[u].firmware
    <3>1. CASE v = w
      BY <1>1, <1>3, <1>6, <2>3, <3>1
    <3>2. CASE u = w
      BY <1>1, <1>3, <1>6, <2>3, <3>2
    <3>3. CASE v # w /\ u # w
      BY <1>3, <2>3, <3>3 DEF IInv, RemovalsHold
    <3> QED
      BY <3>1, <3>2, <3>3
  <2>4. \A v \in Callers : /\ Is(v, "remove", "locked")' => ~Gone(call[v].firmware)'
                           /\ Is(v, "remove", "storage")' => Gone(call[v].firmware)'
    BY <2>1, <2>2 DEF Gone
  <2> QED
    BY <2>3, <2>4 DEF RemovalsHold
<1>8. ASSUME NEW g \in Firmware, ~Safe(g)' PROVE ~Safe(g) \/ ~InUse(g)
  <2>1. CASE g = f
    BY <2>1 DEF LockForDelete
  <2>2. CASE g # f
    <3>1. LockedForDelete(g)' => LockedForDelete(g)
      BY <1>1, <1>3, <2>2 DEF LockedForDelete, Is
    <3>2. Gone(g)' => Gone(g)
      BY DEF Gone, LockForDelete
    <3> QED
      BY <1>8, <3>1, <3>2 DEF Safe
  <2> QED
    BY <2>1, <2>2
<1>9. \A v \in Callers : call'[v].op = "back" => call'[v] = call[v]
  BY <1>1, <1>3
<1> QED
  BY <1>4, <1>7, <1>8, <1>9, RemovalStep DEF LockForDelete

\* a removal that writes the row of its firmware
LEMMA RemovalWrites ==
  ASSUME IInv, NEW w \in Callers, call[w].op = "remove",
         NEW c \in Call, call' = [call EXCEPT ![w] = c],
         c = Idle \/ /\ c.op = "remove" /\ c.at = "storage"
                     /\ c.firmware = call[w].firmware,
         NEW row \in FirmwareRow,
         firmware' = [firmware EXCEPT ![call[w].firmware] = row],
         c # Idle => row.status = "deleted",
         UNCHANGED <<mode, device, rollout, target, override, crossed>>,
         losses' \in Nat
  PROVE  IInv'
<1> DEFINE f == call[w].firmware
<1>1. call[w] \in Removal /\ f \in Firmware /\ call[w].at \in {"locked", "storage"}
  BY KindOfCall DEF IInv, Removal
<1>2. ~Safe(f)
  BY <1>1 DEF IInv, RemovalsHold, Is, Safe, LockedForDelete
<1>3. TypeOK'
  BY <1>1 DEF IInv, TypeOK
<1>4. /\ call'[w] = c
      /\ \A v \in Callers : v # w => call'[v] = call[v]
      /\ firmware'[f] = row
      /\ \A g \in Firmware : g # f => firmware'[g] = firmware[g]
  BY <1>1 DEF IInv, TypeOK
<1>5. ASSUME NEW v \in Callers, v # w, call[v].op = "remove"
      PROVE  call[v].firmware \in Firmware /\ call[v].firmware # f
  BY <1>5, KindOfCall DEF IInv, RemovalsHold, Removal
<1>6. Idle.op # "remove" /\ Idle.op # "back"
  BY KindsOfCalls
<1>7. RemovalsHold'
  <2>1. ASSUME NEW v \in Callers
        PROVE  /\ Is(v, "remove", "locked")' => firmware'[call'[v].firmware].status # "deleted"
               /\ Is(v, "remove", "storage")' => firmware'[call'[v].firmware].status = "deleted"
    <3>1. CASE v = w
      BY <1>4, <1>6, <3>1 DEF Is
    <3>2. CASE v # w
      BY <1>4, <1>5, <3>2 DEF Is, IInv, RemovalsHold, Gone
    <3> QED
      BY <3>1, <3>2
  <2>2. ASSUME NEW v \in Callers, NEW u \in Callers, v # u,
               call'[v].op = "remove", call'[u].op = "remove"
        PROVE  call'[v].firmware # call'[u].firmware
    BY <1>4, <1>6, <2>2 DEF IInv, RemovalsHold
  <2> QED
    BY <2>1, <2>2 DEF RemovalsHold, Gone
<1>8. ASSUME NEW g \in Firmware, ~Safe(g)' PROVE ~Safe(g)
  <2>1. CASE g = f
    BY <1>2, <2>1
  <2>2. CASE g # f
    <3>1. LockedForDelete(g)' => LockedForDelete(g)
      BY <1>4, <1>6, <2>2 DEF LockedForDelete, Is
    <3>2. Gone(g)' => Gone(g)
      BY <1>4, <2>2 DEF Gone
    <3> QED
      BY <1>8, <3>1, <3>2 DEF Safe
  <2> QED
    BY <2>1, <2>2
<1>9. \A v \in Callers : call'[v].op = "back" => call'[v] = call[v]
  BY <1>4, <1>6
<1> QED
  BY <1>3, <1>7, <1>8, <1>9, RemovalStep

LEMMA MarkDeletedInv ==
  ASSUME IInv, NEW w \in Callers, MarkDeleted(w)
  PROVE  IInv'
<1> DEFINE c == [call[w] EXCEPT !.at = "storage"]
           f == call[w].firmware
           row == [firmware[f] EXCEPT !.status = "deleted"]
<1>1. call[w] \in Removal /\ call[w].op = "remove" /\ f \in Firmware
  BY KindOfCall DEF IInv, MarkDeleted, Is, Removal
<1>2. c \in Removal /\ c.op = "remove" /\ c.at = "storage" /\ c.firmware = f
  BY <1>1 DEF Removal
<1>3. row \in FirmwareRow /\ row.status = "deleted"
  BY <1>1 DEF IInv, TypeOK, FirmwareRow
<1>4. /\ call' = [call EXCEPT ![w] = c]
      /\ firmware' = [firmware EXCEPT ![f] = row]
  BY DEF MarkDeleted
<1>5. c \in Call
  BY <1>2, KindsOfCalls
<1>6. /\ UNCHANGED <<mode, device, rollout, target, override, crossed>>
      /\ losses' \in Nat
  BY DEF MarkDeleted, IInv, TypeOK
<1> HIDE DEF c, row
<1> QED
  BY <1>1, <1>2, <1>3, <1>4, <1>5, <1>6, RemovalWrites

LEMMA DeleteObjectInv ==
  ASSUME IInv, NEW w \in Callers, DeleteObject(w)
  PROVE  IInv'
<1> DEFINE f == call[w].firmware
           row == [firmware[f] EXCEPT !.file = FALSE]
<1>1. call[w].op = "remove" /\ f \in Firmware
  BY KindOfCall DEF IInv, DeleteObject, Is, Removal
<1>2. row \in FirmwareRow
  BY <1>1 DEF IInv, TypeOK, FirmwareRow
<1>3. firmware' = [firmware EXCEPT ![f] = row]
  BY DEF DeleteObject
<1> HIDE DEF row
<1> QED
  BY <1>1, <1>2, <1>3, KindsOfCalls, RemovalWrites
  DEF DeleteObject, Close, IInv, TypeOK

LEMMA DeleteObjectFailsInv ==
  ASSUME IInv, NEW w \in Callers, DeleteObjectFails(w)
  PROVE  IInv'
<1> DEFINE f == call[w].firmware
<1>1. call[w].op = "remove" /\ f \in Firmware
  BY KindOfCall DEF IInv, DeleteObjectFails, Is, Removal
<1>2. PICK file \in BOOLEAN, status \in {"live", "deleted"} :
        firmware' = [firmware EXCEPT ![f] = [status |-> status, file |-> file]]
  BY DEF DeleteObjectFails
<1> DEFINE row == [status |-> status, file |-> file]
<1>3. row \in FirmwareRow
  BY DEF FirmwareRow
<1>4. firmware' = [firmware EXCEPT ![f] = row]
  BY <1>2
<1>5. call' = [call EXCEPT ![w] = Idle]
  BY DEF DeleteObjectFails, Close
<1>6. /\ UNCHANGED <<mode, device, rollout, target, override, crossed>>
      /\ losses' \in Nat
  BY DEF DeleteObjectFails, MayLose, IInv, TypeOK
<1> HIDE DEF row
<1> QED
  BY <1>1, <1>3, <1>4, <1>5, <1>6, KindsOfCalls, RemovalWrites

-----------------------------------------------------------------------------
(* Every step *)

LEMMA InitInv ==
  ASSUME Init
  PROVE  IInv
<1>1. TypeOK
  <2>1. device \in [Devices -> Device]
    BY DEF Init, Device, Slots
  <2>2. firmware \in [Firmware -> FirmwareRow]
    BY DEF Init, FirmwareRow
  <2>3. rollout \in [Rollouts -> Rollout]
    BY DEF Init, Rollout
  <2>4. target \in [Rollouts -> [Devices -> Target]]
    BY DEF Init, Target
  <2>5. override \in [Overrides -> Override]
    BY DEF Init, Override
  <2> QED
    BY <2>1, <2>2, <2>3, <2>4, <2>5, KindsOfCalls DEF Init, TypeOK
<1>2. RemovalsHold /\ BacksKnow
  BY KindsOfCalls DEF Init, RemovalsHold, BacksKnow, Is
<1>3. RolloutsName
  BY DEF Init, RolloutsName
<1>4. UsedIsSafe
  BY NoneAssumption DEF Init, UsedIsSafe, Open, Usable, Runs, Slots
<1> QED
  BY <1>1, <1>2, <1>3, <1>4 DEF IInv

LEMMA ComesInv ==
  ASSUME IInv, Comes
  PROVE  IInv'
BY RegisterInv, CreateInv, RejectInv, OverrideDeviceFirmwareInv,
   DecideOverrideInv, ActivateInv, SendCommandInv, CommandFailsInv,
   MarkTargetSkippedInv
DEF Comes, Release, Resume

LEMMA WorksInv ==
  ASSUME IInv, NEW w \in Callers, Works(w)
  PROVE  IInv'
<1>1. CASE \/ ReadTargets(w) \/ ServeNext(w) \/ EndLoop(w)
           \/ \E d \in Devices, f \in Firmware : ReadConfirm(w, d, f)
           \/ ConsumeOverride(w) \/ RecordConfirm(w)
           \/ \E r \in Rollouts, d \in Devices : HearOfInstall(w, r, d)
  BY <1>1, ReadTargetsInv, ServeNextInv, EndLoopInv, ReadConfirmInv,
     ConsumeOverrideInv, RecordConfirmInv, HearOfInstallInv
<1>2. CASE \/ SwitchPartition(w) \/ SwitchFails(w)
           \/ RecordInstall(w) \/ RecordIsLost(w)
           \/ \E r \in Rollouts, D \in SUBSET Devices : ReadToRollBack(w, r, D)
           \/ \E r \in Rollouts : RollBack(w, r)
           \/ RefuseRollback(w)
  BY <1>2, SwitchPartitionInv, SwitchFailsInv, RecordInstallInv,
     RecordIsLostInv, ReadToRollBackInv, RollBackInv, RefuseRollbackInv
<1>3. CASE WriteBackTarget(w) \/ FlipPartition(w) \/ EndBack(w)
  BY <1>3, WriteBackTargetInv, FlipPartitionInv, EndBackInv
<1>4. CASE \/ \E f \in Firmware : LockForDelete(w, f)
           \/ MarkDeleted(w) \/ DeleteObject(w) \/ DeleteObjectFails(w)
  BY <1>4, LockForDeleteInv, MarkDeletedInv, DeleteObjectInv,
     DeleteObjectFailsInv
<1> QED
  BY <1>1, <1>2, <1>3, <1>4 DEF Works

LEMMA StutterInv ==
  ASSUME IInv, UNCHANGED vars
  PROVE  IInv'
<1>1. TypeOK' /\ losses' = losses
  BY DEF vars, IInv, TypeOK
<1>2. Keeps
  BY DEF vars, Keeps, Runs
<1> QED
  BY <1>1, <1>2, KeepsStep

LEMMA StepInv ==
  ASSUME IInv, [Next]_vars
  PROVE  IInv'
BY ComesInv, WorksInv, RestartInv, StutterInv DEF Next

LEMMA InvAlways == Spec => []IInv
<1>1. Init => IInv
  BY InitInv
<1>2. IInv /\ [Next]_vars => IInv'
  BY StepInv
<1> QED
  BY <1>1, <1>2, PTL DEF Spec

-----------------------------------------------------------------------------
(* Theorems *)

\* What the rows of devices, firmware, rollouts, targets and overrides hold and
\* what a handler carries from its reads to its writes stays within its type.
THEOREM FirmwareTypes == Spec => []TypeOK
<1>1. IInv => TypeOK
  BY DEF IInv
<1> QED
  BY <1>1, InvAlways, PTL

\* A removal takes no firmware that an open rollout or a usable override names,
\* and none that a device runs unless a rollback crossed something newer: the
\* row lock orders every reference before the removal's look or after its mark
\* (firmware-lock.ts, firmware.service.ts).
THEOREM UsedFirmwareStays == Spec => []UsedIsThere
<1>1. IInv => UsedIsThere
  BY DEF IInv, UsedIsSafe, UsedIsThere, Safe, Usable
<1> QED
  BY <1>1, InvAlways, PTL

-----------------------------------------------------------------------------
(* One write per target: the inductive invariant *)

Serving == {"poll", "loop", "back"}

Serves(w, r) == call[w].op \in Serving /\ call[w].rollout = r

Closed(r) == rollout[r].status \notin Open

\* a handler that serves a released rollout, each in its mode, has taken the
\* device it is to write from those that are left
ServesWell(w) ==
  /\ call[w].rollout \in Rollouts
  /\ rollout[call[w].rollout].status \notin {"none", "waiting"}
  /\ mode = IF call[w].op = "poll" THEN "central" ELSE "mock"
  /\ call[w].op = "loop"
       <=> mode = "mock" /\ rollout[call[w].rollout].undoes = None
  /\ call[w].op = "poll" => DOMAIN call[w].left = {}
  /\ \A d \in DOMAIN call[w].left :
       d \in Devices /\ target[call[w].rollout][d].status # "none"
  /\ call[w].at \in {"switch", "flip"} =>
       /\ call[w].device \in Devices \ DOMAIN call[w].left
       /\ target[call[w].rollout][call[w].device].status # "none"
  /\ call[w].at = "flip" =>
       target[call[w].rollout][call[w].device].status # "pending"

CallersServeWell == \A w \in Callers :
  /\ call[w].op \in Serving => ServesWell(w)
  /\ call[w].op = "confirm" => call[w].rollout = None

\* there is one poll, and one loop for a rollout that is not counted out
Alone == \A v, w \in Callers : v # w =>
  /\ ~(call[v].op = "poll" /\ call[w].op = "poll")
  /\ \A r \in Rollouts : Loops(v, r) /\ Loops(w, r) => r \in together

Recording(w, r, d) ==
  /\ call[w].op \in {"poll", "loop"} /\ call[w].at = "record"
  /\ call[w].rollout = r /\ call[w].device = d

\* the target has its result, or no loop will read it and who wrote the device
\* is about to record it
Settled(r, d) ==
  \/ target[r][d].status # "pending"
  \/ /\ mode = "mock" => rollout[r].undoes = None
     /\ Closed(r) \/ \E w \in Callers : Recording(w, r, d)

\* the caller will not write device d
Clear(w, d) ==
  /\ call[w].device = d => call[w].at \notin {"switch", "flip"}
  /\ d \in DOMAIN call[w].left => /\ call[w].op = "loop"
                                  /\ Closed(call[w].rollout)

Counts(r) == losses = 0 /\ r \notin together

WrittenWell(r, d) ==
  /\ rollout[r].status # "none"
  /\ Settled(r, d)
  /\ \A w \in Callers : Serves(w, r) => Clear(w, d)
  /\ install[r][d].times = 1

WrittenOnce == \A r \in Rollouts, d \in Devices :
  Counts(r) /\ install[r][d].times # 0 => WrittenWell(r, d)

OInv == CallersServeWell /\ Alone /\ WrittenOnce

-----------------------------------------------------------------------------
(* One caller moves *)

\* what no step does to a rollout that exists
RowsMove ==
  /\ mode' = mode
  /\ losses' = 0 => losses = 0
  /\ \A r \in Rollouts : rollout[r].status # "none" =>
       /\ rollout'[r].status # "none"
       /\ rollout'[r].status = "waiting" => rollout[r].status = "waiting"
       /\ rollout'[r].undoes = rollout[r].undoes
       /\ rollout'[r].firmware = rollout[r].firmware
       /\ Closed(r) => Closed(r)'
       /\ \A d \in Devices :
            /\ target'[r][d].status = "pending" => target[r][d].status = "pending"
            /\ (target'[r][d].status = "none") <=> (target[r][d].status = "none")

\* what a caller may become
MovesWell(w) ==
  /\ call'[w].op = "confirm" => call'[w].rollout = None
  /\ call'[w].op \in Serving => ServesWell(w)'
  /\ call'[w].op = "poll" =>
       call[w].op = "poll" \/ \A v \in Callers : call[v].op # "poll"
  /\ \A r \in Rollouts, d \in Devices : Recording(w, r, d) =>
       \/ Recording(w, r, d)' \/ losses' # 0
       \/ target'[r][d].status # "pending" \/ Closed(r)'
  /\ \A r \in Rollouts, d \in Devices :
       /\ Counts(r) /\ install[r][d].times # 0
       /\ Serves(w, r)'
       => Clear(w, d)'

OneMoves(w) ==
  /\ \A v \in Callers : v # w => call'[v] = call[v]
  /\ w \in Callers => call'[w] = call[w] \/ MovesWell(w)

StepsWell == RowsMove /\ \E w : OneMoves(w)

\* the part of the history that the argument needs of every step
Crowded ==
  /\ together \subseteq together'
  /\ \A r \in Rollouts, v, w \in Callers :
       v # w /\ Loops(v, r)' /\ Loops(w, r)' => r \in together'

LEMMA RememberCrowds ==
  ASSUME Remember
  PROVE  Crowded
BY DEF Remember, Crowded

LEMMA StayServing ==
  ASSUME OInv, RowsMove, NEW w, OneMoves(w), Crowded
  PROVE  CallersServeWell' /\ Alone'
<1>1. ASSUME NEW v \in Callers
      PROVE  /\ call'[v].op \in Serving => ServesWell(v)'
             /\ call'[v].op = "confirm" => call'[v].rollout = None
  <2>1. CASE call'[v] = call[v]
    <3>1. /\ call[v].op \in Serving => ServesWell(v)
          /\ call[v].op = "confirm" => call[v].rollout = None
      BY DEF OInv, CallersServeWell
    <3>2. ASSUME ServesWell(v) PROVE ServesWell(v)'
      BY <2>1, <3>2 DEF ServesWell, RowsMove
    <3> QED
      BY <2>1, <3>1, <3>2
  <2>2. CASE call'[v] # call[v]
    BY <2>2 DEF OneMoves, MovesWell
  <2> QED
    BY <2>1, <2>2
<1>2. ASSUME NEW v \in Callers, NEW u \in Callers, v # u,
             call'[v].op = "poll", call'[u].op = "poll"
      PROVE  FALSE
  <2>1. ~(call[v].op = "poll" /\ call[u].op = "poll")
    BY <1>2 DEF OInv, Alone
  <2>2. CASE v # w /\ u # w
    BY <1>2, <2>1, <2>2 DEF OneMoves
  <2>3. CASE v = w
    <3>1. call'[u] = call[u]
      BY <1>2, <2>3 DEF OneMoves
    <3> QED
      BY <1>2, <2>1, <2>3, <3>1 DEF OneMoves, MovesWell
  <2>4. CASE u = w
    <3>1. call'[v] = call[v]
      BY <1>2, <2>4 DEF OneMoves
    <3> QED
      BY <1>2, <2>1, <2>4, <3>1 DEF OneMoves, MovesWell
  <2> QED
    BY <2>2, <2>3, <2>4
<1>3. CallersServeWell'
  BY <1>1 DEF CallersServeWell
<1>4. Alone'
  BY <1>2 DEF Alone, Crowded
<1> QED
  BY <1>3, <1>4

\* a target that has led to its write stays with it
LEMMA StaysWritten ==
  ASSUME OInv, RowsMove, NEW w, OneMoves(w), losses' = 0,
         NEW r \in Rollouts, NEW d \in Devices,
         Counts(r), install[r][d].times # 0,
         install'[r][d].times = install[r][d].times
  PROVE  WrittenWell(r, d)'
<1>1. WrittenWell(r, d)
  BY DEF OInv, WrittenOnce
<1>2. rollout[r].status # "none" /\ rollout'[r].status # "none"
      /\ rollout'[r].undoes = rollout[r].undoes
      /\ (Closed(r) => Closed(r)')
      /\ (target'[r][d].status = "pending" => target[r][d].status = "pending")
  BY <1>1 DEF WrittenWell, RowsMove
<1>3. Settled(r, d)'
  <2> SUFFICES ASSUME target'[r][d].status = "pending", ~Closed(r)'
               PROVE  /\ mode' = "mock" => rollout'[r].undoes = None
                      /\ \E v \in Callers : Recording(v, r, d)'
    BY <1>1, <1>2 DEF WrittenWell, Settled, RowsMove
  <2>1. target[r][d].status = "pending" /\ ~Closed(r)
    BY <1>2
  <2>2. mode = "mock" => rollout[r].undoes = None
    BY <1>1, <2>1 DEF WrittenWell, Settled
  <2>3. PICK v \in Callers : Recording(v, r, d)
    BY <1>1, <2>1 DEF WrittenWell, Settled
  <2>4. Recording(v, r, d)'
    <3>1. CASE call'[v] = call[v]
      BY <2>3, <3>1 DEF Recording
    <3>2. CASE call'[v] # call[v]
      BY <2>3, <3>2 DEF OneMoves, MovesWell
    <3> QED
      BY <3>1, <3>2
  <2> QED
    BY <1>2, <2>2, <2>4 DEF RowsMove
<1>4. ASSUME NEW v \in Callers, Serves(v, r)' PROVE Clear(v, d)'
  <2>1. CASE call'[v] = call[v]
    <3>1. Serves(v, r) /\ Clear(v, d)
      BY <1>1, <1>4, <2>1 DEF Serves, WrittenWell
    <3> QED
      BY <1>2, <2>1, <3>1 DEF Serves, Clear
  <2>2. CASE call'[v] # call[v]
    BY <1>4, <2>2 DEF OneMoves, MovesWell
  <2> QED
    BY <2>1, <2>2
<1> QED
  BY <1>1, <1>2, <1>3, <1>4 DEF WrittenWell

\* a step that writes no device
LEMMA QuietStep ==
  ASSUME OInv, RowsMove, NEW w, OneMoves(w), Crowded, install' = install
  PROVE  OInv'
<1>1. WrittenOnce'
  <2> SUFFICES ASSUME NEW r \in Rollouts, NEW d \in Devices,
                      Counts(r)', install'[r][d].times # 0
               PROVE  WrittenWell(r, d)'
    BY DEF WrittenOnce
  <2>1. Counts(r) /\ losses' = 0
    BY DEF Counts, RowsMove, Crowded
  <2> QED
    BY <2>1, StaysWritten
<1> QED
  BY <1>1, StayServing DEF OInv

-----------------------------------------------------------------------------
(* Steps that write a device *)

\* what a write of w makes of the history i of the target of d in r
BecomesWritten(w, r, d, i, j) ==
  /\ d # call[w].device => j = i
  /\ d = call[w].device /\ r # call[w].rollout =>
       /\ j.times = i.times /\ j.before = i.before
       /\ j.mixed <=> \/ i.mixed \/ call[w].rollout = None
                      \/ rollout[call[w].rollout].undoes # r
  /\ d = call[w].device /\ r = call[w].rollout /\ i.times = 0 =>
       /\ j.times = 1 /\ j.before = Runs(d)
       /\ j.mixed <=> <<w, d>> \in stale
  /\ d = call[w].device /\ r = call[w].rollout /\ i.times # 0 =>
       /\ j.times = 2 /\ j.before = i.before /\ j.mixed = i.mixed

LEMMA WrittenIs ==
  ASSUME TypeOK, HistoryTypeOK, NEW w \in Callers, call[w] \in Worker
  PROVE  /\ Written(w) \in [Rollouts -> [Devices -> Install]]
         /\ \A r \in Rollouts, d \in Devices :
              BecomesWritten(w, r, d, install[r][d], Written(w)[r][d])
<1>0. ASSUME \A r \in Rollouts, d \in Devices : Written(w)[r][d] \in Install
      PROVE  Written(w) \in [Rollouts -> [Devices -> Install]]
  BY <1>0 DEF Written
<1> SUFFICES ASSUME NEW r \in Rollouts, NEW d \in Devices
             PROVE  /\ Written(w)[r][d] \in Install
                    /\ BecomesWritten(w, r, d, install[r][d], Written(w)[r][d])
  BY <1>0
<1> DEFINE i == install[r][d]
           by == call[w].rollout
<1>1. i \in Install
  BY DEF HistoryTypeOK
<1>2. CASE d # call[w].device
  <2>1. Written(w)[r][d] = i
    BY <1>2 DEF Written
  <2> QED
    BY <1>1, <1>2, <2>1 DEF BecomesWritten
<1>3. CASE d = call[w].device /\ r # by
  <2> PICK m : m = (i.mixed \/ by = None \/ rollout[by].undoes # r)
    OBVIOUS
  <2>1. Written(w)[r][d] = [i EXCEPT !.mixed = m]
    BY <1>3 DEF Written
  <2>2. m \in BOOLEAN
    OBVIOUS
  <2> HIDE DEF i
  <2>3. LET j == [i EXCEPT !.mixed = m]
        IN /\ j \in Install /\ j.times = i.times /\ j.before = i.before
           /\ j.mixed = m
    BY <1>1, <2>2 DEF Install
  <2> QED
    BY <1>3, <2>1, <2>3 DEF i, BecomesWritten
<1>4. CASE d = call[w].device /\ r = by /\ i.times = 0
  <2> PICK m : m = (<<w, d>> \in stale)
    OBVIOUS
  <2>1. Written(w)[r][d] = [times |-> 1, before |-> Runs(d), mixed |-> m]
    BY <1>4 DEF Written
  <2>2. m \in BOOLEAN /\ Runs(d) \in Firmware \cup {None}
    BY RowTypes
  <2>3. [times |-> 1, before |-> Runs(d), mixed |-> m] \in Install
    BY <2>2 DEF Install
  <2> QED
    <3>1. /\ Written(w)[r][d].times = 1 /\ Written(w)[r][d].before = Runs(d)
          /\ Written(w)[r][d].mixed = m
      BY <2>1
    <3>2. m <=> <<w, d>> \in stale
      OBVIOUS
    <3> QED
      BY <1>4, <2>1, <2>3, <3>1, <3>2, Zenon DEF BecomesWritten
<1>5. CASE d = call[w].device /\ r = by /\ i.times # 0
  <2>1. Written(w)[r][d] = [i EXCEPT !.times = 2]
    BY <1>5 DEF Written
  <2> HIDE DEF i
  <2>2. LET j == [i EXCEPT !.times = 2]
        IN /\ j \in Install /\ j.times = 2 /\ j.before = i.before
           /\ j.mixed = i.mixed
    BY <1>1 DEF Install
  <2> QED
    BY <1>5, <2>1, <2>2 DEF i, BecomesWritten
<1> QED
  BY <1>2, <1>3, <1>4, <1>5

\* who writes is a worker, writes no rollout, and moves alone
LEMMA WriterMoves ==
  ASSUME IInv, OInv, NEW w \in Callers, Writes(w)
  PROVE  /\ call[w] \in Worker
         /\ call[w].at \in {"switch", "flip"}
         /\ UNCHANGED <<mode, rollout, target, losses>>
         /\ \A v \in Callers : v # w => call'[v] = call[v]
         /\ \/ /\ call[w].op = "confirm" /\ call'[w] = Idle
            \/ /\ call[w].op \in {"poll", "loop"}
               /\ call'[w].op = call[w].op
               /\ call'[w].at = "record"
               /\ call'[w].rollout = call[w].rollout
               /\ call'[w].device = call[w].device
               /\ call'[w].left = call[w].left
               /\ call'[w].firmware = call[w].firmware
            \/ /\ call[w].op = "back" /\ call[w].at = "flip"
               /\ call'[w].op = call[w].op
               /\ call'[w].at = "next"
               /\ call'[w].rollout = call[w].rollout
               /\ call'[w].left = call[w].left
<1>1. call[w] \in Worker /\ call[w].at \in {"switch", "flip"}
  BY KindOfCall DEF IInv, Writes, SwitchPartition, FlipPartition, Is, WorkerOps
<1>2. UNCHANGED <<mode, rollout, target, losses>>
  BY DEF Writes, SwitchPartition, FlipPartition
<1>3. CASE SwitchPartition(w) /\ call[w].op = "confirm"
  BY <1>1, <1>2, <1>3 DEF SwitchPartition, AfterSwitch, IInv, TypeOK
<1>4. CASE SwitchPartition(w) /\ call[w].op # "confirm"
  <2> DEFINE c == [call[w] EXCEPT !.at = "record", !.done = TRUE]
  <2>1. /\ c.op = call[w].op /\ c.at = "record"
        /\ c.rollout = call[w].rollout /\ c.device = call[w].device
        /\ c.left = call[w].left /\ c.firmware = call[w].firmware
    BY <1>1 DEF Worker
  <2>2. call' = [call EXCEPT ![w] = c]
    BY <1>4 DEF SwitchPartition, AfterSwitch
  <2> HIDE DEF c
  <2> QED
    BY <1>1, <1>2, <1>4, <2>1, <2>2 DEF SwitchPartition, IInv, TypeOK
<1>5. CASE FlipPartition(w)
  <2>1. /\ Served(w).op = call[w].op /\ Served(w).rollout = call[w].rollout
        /\ Served(w).left = call[w].left
    BY <1>1, ServedIsWorker
  <2>2. Served(w).at = "next"
    BY <1>1 DEF Served, Worker
  <2> QED
    BY <1>1, <1>2, <1>5, <2>1, <2>2 DEF FlipPartition, Is, IInv, TypeOK
<1> QED
  BY <1>3, <1>4, <1>5 DEF Writes

LEMMA WriteStep ==
  ASSUME IInv, HistoryTypeOK, OInv, NEW w \in Callers, Writes(w), Crowded,
         install' = Written(w)
  PROVE  OInv'
<1>1. /\ call[w] \in Worker
      /\ call[w].at \in {"switch", "flip"}
      /\ UNCHANGED <<mode, rollout, target, losses>>
      /\ \A v \in Callers : v # w => call'[v] = call[v]
  BY WriterMoves
<1>2. RowsMove
  BY <1>1 DEF RowsMove, Closed
<1>3. call[w].op \in Serving => ServesWell(w)
  BY DEF OInv, CallersServeWell
<1>4. /\ call'[w].op = "confirm" => call'[w].rollout = None
      /\ call'[w].op \in Serving =>
           /\ call[w].op \in Serving
           /\ call'[w].rollout = call[w].rollout
           /\ call'[w].op = call[w].op
           /\ call'[w].at \notin {"switch", "flip"}
           /\ call'[w].left = call[w].left
  BY WriterMoves, KindsOfCalls DEF Serving
<1>5. call'[w].op \in Serving => ServesWell(w)'
  BY <1>1, <1>3, <1>4 DEF ServesWell
<1>6. \A r \in Rollouts, d \in Devices : ~Recording(w, r, d)
  BY <1>1 DEF Recording
<1>7. ASSUME NEW r \in Rollouts, NEW d \in Devices,
             Counts(r), install[r][d].times # 0, Serves(w, r)'
      PROVE  Clear(w, d)'
  <2>1. Clear(w, d)
    BY <1>4, <1>7 DEF Serves, OInv, WrittenOnce, WrittenWell
  <2> QED
    BY <1>1, <1>4, <1>7, <2>1 DEF Clear, Closed, Serves
<1>8. MovesWell(w)
  BY <1>4, <1>5, <1>6, <1>7 DEF MovesWell, Serving
<1>9. OneMoves(w)
  BY <1>1, <1>8 DEF OneMoves
<1>10. WrittenOnce'
  <2> SUFFICES ASSUME NEW r \in Rollouts, NEW d \in Devices,
                      Counts(r)', install'[r][d].times # 0
               PROVE  WrittenWell(r, d)'
    BY DEF WrittenOnce
  <2>1. Counts(r) /\ losses' = 0 /\ r \notin together'
    BY <1>1 DEF Counts, Crowded
  <2>4. BecomesWritten(w, r, d, install[r][d], install'[r][d])
    BY <1>1, WrittenIs DEF IInv
  <2>2. CASE d # call[w].device \/ r # call[w].rollout
    <3>1. install'[r][d].times = install[r][d].times
      BY <2>2, <2>4 DEF BecomesWritten
    <3> QED
      BY <1>2, <1>9, <2>1, <3>1, StaysWritten
  <2>3. CASE d = call[w].device /\ r = call[w].rollout
    <3>1. call[w].op \in Serving
      BY <1>1, <2>3, NoneAssumption
      DEF OInv, CallersServeWell, Worker, Serving
    <3>2. ServesWell(w) /\ Serves(w, r)
      BY <1>3, <2>3, <3>1 DEF Serves
    <3>3. install[r][d].times = 0
      <4> SUFFICES ASSUME install[r][d].times # 0 PROVE FALSE
        OBVIOUS
      <4>1. Clear(w, d)
        BY <2>1, <3>2 DEF OInv, WrittenOnce, WrittenWell
      <4> QED
        BY <1>1, <2>3, <4>1 DEF Clear
    <3>4. install'[r][d].times = 1
      BY <2>3, <2>4, <3>3 DEF BecomesWritten
    <3>5. Settled(r, d)'
      <4>1. CASE call[w].op = "back"
        <5>1. call[w].at = "flip"
          BY <4>1, WriterMoves
        <5> QED
          BY <1>1, <2>3, <3>2, <5>1 DEF ServesWell, Settled
      <4>2. CASE call[w].op # "back"
        <5>1. Recording(w, r, d)'
          BY <2>3, <3>1, <4>2, WriterMoves DEF Recording, Serving
        <5>2. mode = "mock" => rollout[r].undoes = None
          BY <2>3, <3>1, <3>2, <4>2 DEF ServesWell, Serving
        <5> QED
          BY <1>1, <5>1, <5>2 DEF Settled
      <4> QED
        BY <4>1, <4>2
    <3>6. ASSUME NEW v \in Callers, Serves(v, r)' PROVE Clear(v, d)'
      <4>1. CASE v = w
        BY <1>4, <2>3, <3>2, <3>6, <4>1, WriterMoves
        DEF Clear, ServesWell, Serves, Serving
      <4>2. CASE v # w
        <5>1. call'[v] = call[v] /\ Serves(v, r)
          BY <1>1, <3>6, <4>2 DEF Serves
        <5>2. ServesWell(v)
          BY <5>1 DEF Serves, OInv, CallersServeWell
        <5>3. r \notin together
          BY <2>1 DEF Counts
        <5>4. ~(call[v].op = "poll" /\ call[w].op = "poll")
              /\ ~(Loops(v, r) /\ Loops(w, r))
          BY <4>2, <5>3 DEF OInv, Alone
        <5>5. (call[v].op = "poll") <=> (call[w].op = "poll")
          BY <3>2, <5>2 DEF ServesWell
        <5> QED
          BY <3>2, <5>1, <5>4, <5>5 DEF Serves, Loops, Serving
      <4> QED
        BY <4>1, <4>2
    <3>7. rollout'[r].status # "none"
      BY <1>1, <2>3, <3>2 DEF ServesWell
    <3> QED
      BY <3>4, <3>5, <3>6, <3>7 DEF WrittenWell
  <2> QED
    BY <2>2, <2>3
<1> QED
  BY <1>2, <1>9, <1>10, StayServing DEF OInv

-----------------------------------------------------------------------------
(* Every other step is one caller's *)

LEMMA RowsStay ==
  ASSUME UNCHANGED <<mode, rollout, target>>, losses' = 0 => losses = 0
  PROVE  RowsMove
BY DEF RowsMove, Closed

LEMMA NobodyMoves ==
  ASSUME RowsMove, call' = call
  PROVE  StepsWell
BY DEF StepsWell, OneMoves

\* a caller that stops or does not serve
LEMMA StopsServing ==
  ASSUME TypeOK, RowsMove, NEW w \in Callers, NEW c \in Call,
         call' = [call EXCEPT ![w] = c],
         c.op \notin Serving, c.op = "confirm" => c.rollout = None,
         \A r \in Rollouts, d \in Devices : Recording(w, r, d) =>
           losses' # 0 \/ target'[r][d].status # "pending" \/ Closed(r)'
  PROVE  StepsWell
<1>1. call'[w] = c /\ \A v \in Callers : v # w => call'[v] = call[v]
  BY DEF TypeOK
<1>2. MovesWell(w)
  BY <1>1 DEF MovesWell, Serving, Serves
<1> QED
  BY <1>1, <1>2 DEF StepsWell, OneMoves

\* a caller that goes on for its rollout
LEMMA KeepsServing ==
  ASSUME IInv, OInv, RowsMove, NEW w \in Callers, NEW c \in Call,
         call' = [call EXCEPT ![w] = c], call[w].op \in Serving,
         c.op = call[w].op, c.rollout = call[w].rollout,
         DOMAIN c.left \subseteq DOMAIN call[w].left,
         c.at \in {"switch", "flip"} =>
           c.device \in DOMAIN call[w].left \ DOMAIN c.left,
         c.at = "flip" => target'[c.rollout][c.device].status # "pending",
         \A r \in Rollouts, d \in Devices : Recording(w, r, d) =>
           \/ losses' # 0 \/ target'[r][d].status # "pending" \/ Closed(r)'
           \/ c.at = "record" /\ c.device = d,
         \A d \in Devices :
           /\ Counts(c.rollout) /\ install[c.rollout][d].times # 0
           => /\ c.device = d => c.at \notin {"switch", "flip"}
              /\ d \in DOMAIN c.left => c.op = "loop" /\ Closed(c.rollout)'
  PROVE  StepsWell
<1>1. call'[w] = c /\ \A v \in Callers : v # w => call'[v] = call[v]
  BY DEF IInv, TypeOK
<1>2. ServesWell(w)
  BY DEF OInv, CallersServeWell
<1>3. ServesWell(w)'
  BY <1>1, <1>2 DEF ServesWell, RowsMove
<1>4. MovesWell(w)
  BY <1>1, <1>3 DEF MovesWell, Serving, Serves, Recording, Clear
<1> QED
  BY <1>1, <1>4 DEF StepsWell, OneMoves

\* the rollout of a caller that serves exists, and closes for good
LEMMA ServedRollout ==
  ASSUME IInv, OInv, NEW w \in Callers, call[w].op \in Serving
  PROVE  /\ ServesWell(w)
         /\ call[w] \in Worker /\ call[w] \in Call
         /\ call[w].rollout \in Rollouts
         /\ rollout[call[w].rollout].status \in
              {"active", "paused", "completed", "cancelled", "rejected"}
<1>1. ServesWell(w)
  BY DEF OInv, CallersServeWell
<1>2. call[w] \in Worker
  BY KindOfCall DEF IInv, Serving, WorkerOps
<1>3. rollout[call[w].rollout] \in Rollout
  BY <1>1, RowTypes DEF IInv, ServesWell
<1> QED
  BY <1>1, <1>2, <1>3, KindsOfCalls DEF ServesWell, Rollout

\* what a caller is cleared of
LEMMA ServedIsClear ==
  ASSUME OInv, NEW w \in Callers, call[w].op \in Serving,
         call[w].rollout \in Rollouts, Counts(call[w].rollout),
         NEW d \in Devices, install[call[w].rollout][d].times # 0
  PROVE  Clear(w, d) /\ WrittenWell(call[w].rollout, d)
BY DEF OInv, WrittenOnce, WrittenWell, Serves

LEMMA RegisterSteps ==
  ASSUME NEW d, NEW f, Register(d, f)
  PROVE  StepsWell
BY RowsStay, NobodyMoves DEF Register

LEMMA OverrideSteps ==
  ASSUME NEW o, \/ \E d, f : OverrideDeviceFirmware(o, d, f)
                \/ DecideOverride(o)
  PROVE  StepsWell
BY RowsStay, NobodyMoves DEF OverrideDeviceFirmware, DecideOverride

LEMMA CreateSteps ==
  ASSUME IInv, NEW r \in Rollouts, NEW f \in Firmware,
         NEW D \in SUBSET Devices, Create(r, f, D)
  PROVE  StepsWell
<1>1. /\ rollout[r].status = "none"
      /\ \A q \in Rollouts : q # r => /\ rollout'[q] = rollout[q]
                                      /\ target'[q] = target[q]
  BY DEF Create, Insert, IInv, TypeOK
<1>2. RowsMove
  BY <1>1 DEF RowsMove, Closed, Create
<1> QED
  BY <1>2, NobodyMoves DEF Create

LEMMA RejectSteps ==
  ASSUME IInv, NEW r \in Rollouts, Reject(r)
  PROVE  StepsWell
<1>1. /\ rollout[r].status = "waiting" /\ rollout'[r].status = "rejected"
      /\ rollout'[r].undoes = rollout[r].undoes
      /\ rollout'[r].firmware = rollout[r].firmware
      /\ \A q \in Rollouts : q # r => rollout'[q] = rollout[q]
  BY RowTypes DEF Reject, IInv, TypeOK, Rollout
<1>2. RowsMove
  BY <1>1 DEF RowsMove, Closed, Open, Reject
<1> QED
  BY <1>2, NobodyMoves DEF Reject

\* a step on one target and its started rollout
LEMMA TargetRowsMove ==
  ASSUME IInv, NEW r \in Rollouts, NEW d \in Devices,
         rollout[r].status \in Started,
         NEW s \in {"active", "paused", "completed"},
         rollout' = [rollout EXCEPT ![r].status = s],
         NEW t \in Target,
         target' = [target EXCEPT ![r] = [target[r] EXCEPT ![d] = t]],
         t.status = "pending" => target[r][d].status = "pending",
         t.status # "none", target[r][d].status # "none",
         mode' = mode, losses' = losses
  PROVE  RowsMove
<1>1. /\ rollout'[r].status = s /\ rollout'[r].undoes = rollout[r].undoes
      /\ rollout'[r].firmware = rollout[r].firmware
      /\ \A q \in Rollouts : q # r => rollout'[q] = rollout[q]
  BY RowTypes DEF IInv, TypeOK, Rollout
<1>2. \A q \in Rollouts, e \in Devices :
        target'[q][e] = IF q = r /\ e = d THEN t ELSE target[q][e]
  BY DEF IInv, TypeOK
<1> QED
  BY <1>1, <1>2 DEF RowsMove, Closed, Open, Started

LEMMA RecordMoves ==
  ASSUME IInv, NEW r \in Rollouts, NEW d \in Devices,
         NEW result \in {"success", "failed"},
         RecordTargetResult(r, d, result), mode' = mode, losses' = losses
  PROVE  RowsMove /\ target'[r][d].status = result
<1> DEFINE t == [target[r][d] EXCEPT !.status = result]
<1>1. t \in Target /\ t.status = result
  BY RowTypes DEF IInv, Target
<1>2. rollout[r].status \in Started /\ target[r][d].status = "pending"
  BY DEF RecordTargetResult, Waits, Pending
<1>3. PICK s \in Statuses(r, d, result) :
        rollout' = [rollout EXCEPT ![r].status = s]
  BY DEF RecordTargetResult
<1>4. s \in {"active", "paused", "completed"}
  BY <1>2, <1>3 DEF Statuses, Started
<1>5. target' = [target EXCEPT ![r] = [target[r] EXCEPT ![d] = t]]
  BY DEF RecordTargetResult
<1> HIDE DEF t
<1>6. RowsMove
  BY <1>1, <1>2, <1>3, <1>4, <1>5, TargetRowsMove
<1>7. target'[r][d] = t
  BY <1>5 DEF IInv, TypeOK
<1> QED
  BY <1>1, <1>6, <1>7

LEMMA CommandSteps ==
  ASSUME IInv, NEW r \in Rollouts, NEW d \in Devices,
         SendCommand(r, d) \/ CommandFails(r, d) \/ MarkTargetSkipped(r, d)
  PROVE  StepsWell
<1>1. CASE SendCommand(r, d)
  <2> DEFINE t == [target[r][d] EXCEPT !.command = "sent"]
  <2>1. t \in Target /\ t.status = target[r][d].status
    BY RowTypes DEF IInv, Target
  <2>2. target' = [target EXCEPT ![r] = [target[r] EXCEPT ![d] = t]]
    BY <1>1 DEF SendCommand
  <2> HIDE DEF t
  <2>3. \A q \in Rollouts, e \in Devices :
          target'[q][e] = IF q = r /\ e = d THEN t ELSE target[q][e]
    BY <2>2 DEF IInv, TypeOK
  <2>4. RowsMove
    BY <1>1, <2>1, <2>3 DEF RowsMove, Closed, SendCommand
  <2> QED
    BY <1>1, <2>4, NobodyMoves DEF SendCommand
<1>2. CASE CommandFails(r, d)
  BY <1>2, RecordMoves, NobodyMoves DEF CommandFails
<1>3. CASE MarkTargetSkipped(r, d)
  <2> DEFINE t == [target[r][d] EXCEPT !.status = "skipped"]
  <2>1. t \in Target /\ t.status = "skipped"
    BY RowTypes DEF IInv, Target
  <2>2. target' = [target EXCEPT ![r] = [target[r] EXCEPT ![d] = t]]
    BY <1>3 DEF MarkTargetSkipped
  <2> HIDE DEF t
  <2>3. rollout[r] \in Rollout /\ rollout[r].status \in Started
    BY <1>3, RowTypes DEF IInv, MarkTargetSkipped
  <2>4. PICK s \in {"active", "paused", "completed"} :
          rollout' = [rollout EXCEPT ![r].status = s]
    <3>1. rollout = [rollout EXCEPT ![r].status = rollout[r].status]
      BY <2>3 DEF IInv, TypeOK, Rollout
    <3> QED
      BY <1>3, <2>3, <3>1 DEF MarkTargetSkipped, Started
  <2>5. RowsMove
    <3>1. mode' = mode /\ losses' = losses /\ target[r][d].status = "pending"
      BY <1>3 DEF MarkTargetSkipped, Pending
    <3> QED
      BY <2>1, <2>2, <2>3, <2>4, <3>1, TargetRowsMove
  <2> QED
    BY <1>3, <2>5, NobodyMoves DEF MarkTargetSkipped
<1> QED
  BY <1>1, <1>2, <1>3

LEMMA ActivateSteps ==
  ASSUME IInv, OInv, NEW r \in Rollouts, NEW w \in Callers,
         NEW from \in {"waiting", "paused"}, Activate(r, w, from)
  PROVE  StepsWell
<1>1. /\ rollout'[r].status = "active" /\ rollout[r].status = from
      /\ rollout'[r].undoes = rollout[r].undoes
      /\ rollout'[r].firmware = rollout[r].firmware
      /\ \A q \in Rollouts : q # r => rollout'[q] = rollout[q]
  BY RowTypes DEF Activate, IInv, TypeOK, Rollout
<1>2. RowsMove
  BY <1>1 DEF RowsMove, Closed, Open, Activate
<1>3. CASE mode # "mock"
  BY <1>2, <1>3, NobodyMoves DEF Activate, StartLoop
<1>4. CASE mode = "mock"
  <2> PICK op : op = IF rollout[r].undoes = None THEN "loop" ELSE "back"
    OBVIOUS
  <2> DEFINE c == [op |-> op, at |-> "start", rollout |-> r,
                   firmware |-> rollout[r].firmware, override |-> None,
                   left |-> Nobody, device |-> None, seen |-> "A",
                   done |-> FALSE]
  <2>1. call[w] = Idle /\ call' = [call EXCEPT ![w] = c]
    BY <1>4 DEF Activate, StartLoop
  <2>2. /\ c.op = op /\ c.at = "start" /\ c.rollout = r
        /\ DOMAIN c.left = {}
    BY DEF Nobody
  <2> HIDE DEF c
  <2>3. call'[w] = c /\ \A v \in Callers : v # w => call'[v] = call[v]
    BY <2>1 DEF IInv, TypeOK
  <2>4. ServesWell(w)'
    BY <1>1, <1>2, <1>4, <2>2, <2>3 DEF ServesWell, RowsMove
  <2>5. \A q \in Rollouts, d \in Devices : ~Recording(w, q, d)
    BY <2>1, KindsOfCalls DEF Recording
  <2>6. MovesWell(w)
    BY <2>2, <2>3, <2>4, <2>5 DEF MovesWell, Clear, Serving
  <2> QED
    BY <1>2, <2>3, <2>6 DEF StepsWell, OneMoves
<1> QED
  BY <1>3, <1>4

\* alone in its rollout, a loop reads none of the targets that are settled
LEMMA ReadTargetsSteps ==
  ASSUME IInv, OInv, NEW w \in Callers, ReadTargets(w)
  PROVE  StepsWell
<1> DEFINE D == Pending(call[w].rollout)
           left == [d \in D |-> [active |-> device[d].active,
                                 held |-> Spare(d) = call[w].firmware]]
           c == [call[w] EXCEPT !.at = "next", !.left = left]
           r == call[w].rollout
<1>1. /\ ServesWell(w) /\ call[w] \in Worker /\ r \in Rollouts
      /\ call[w].op \in {"loop", "back"} /\ call[w].at = "start"
  BY ServedRollout DEF ReadTargets, Serving
<1>2. /\ c.op = call[w].op /\ c.at = "next" /\ c.rollout = r
      /\ c.device = call[w].device
      /\ DOMAIN c.left = D
  BY <1>1 DEF Worker
<1>3. call' = [call EXCEPT ![w] = c]
  BY DEF ReadTargets, IInv, TypeOK
<1> HIDE DEF c, left
<1>4. RowsMove
  BY RowsStay DEF ReadTargets
<1>5. call'[w] = c /\ \A v \in Callers : v # w => call'[v] = call[v]
  BY <1>3 DEF IInv, TypeOK
<1>6. ASSUME NEW d \in Devices, Counts(r), install[r][d].times # 0, d \in D
      PROVE  call[w].op = "loop" /\ Closed(r)
  <2>1. Settled(r, d) /\ target[r][d].status = "pending"
    BY <1>1, <1>6 DEF OInv, WrittenOnce, WrittenWell, Pending
  <2>2. mode = "mock" /\ rollout[r].undoes = None
    BY <1>1, <2>1 DEF ServesWell, Settled
  <2>3. call[w].op = "loop"
    BY <1>1, <2>2 DEF ServesWell
  <2>4. ASSUME NEW v \in Callers, Recording(v, r, d) PROVE FALSE
    <3>1. v # w
      BY <1>1, <2>4 DEF Recording
    <3>2. ServesWell(v)
      BY <2>4 DEF Recording, OInv, CallersServeWell, Serving
    <3>3. call[v].op = "loop"
      BY <2>2, <2>4, <3>2 DEF Recording, ServesWell
    <3>4. Loops(v, r) /\ Loops(w, r)
      BY <1>1, <2>4, <3>3 DEF Loops, Recording
    <3> QED
      BY <1>1, <1>6, <3>1, <3>4 DEF OInv, Alone, Counts
  <2> QED
    BY <2>1, <2>3, <2>4 DEF Settled
<1>7. ServesWell(w)'
  <2>1. \A d \in D : d \in Devices /\ target[r][d].status = "pending"
    BY DEF Pending
  <2>2. target' = target /\ rollout' = rollout
    BY DEF ReadTargets
  <2> QED
    BY <1>1, <1>2, <1>4, <1>5, <2>1, <2>2 DEF ServesWell, RowsMove
<1>8. rollout' = rollout
  BY DEF ReadTargets
<1>9. MovesWell(w)
  <2>1. call'[w].op \notin {"confirm", "poll"}
    BY <1>1, <1>2, <1>5
  <2>2. \A q \in Rollouts, d \in Devices : ~Recording(w, q, d)
    BY <1>1 DEF Recording
  <2>3. ASSUME NEW q \in Rollouts, NEW d \in Devices,
               Counts(q), install[q][d].times # 0, Serves(w, q)'
        PROVE  Clear(w, d)'
    BY <1>2, <1>5, <1>6, <1>8, <2>3 DEF Clear, Serves, Closed
  <2> QED
    BY <1>7, <2>1, <2>2, <2>3 DEF MovesWell
<1> QED
  BY <1>4, <1>5, <1>9 DEF StepsWell, OneMoves

LEMMA ServeNextSteps ==
  ASSUME IInv, OInv, NEW w \in Callers, ServeNext(w)
  PROVE  StepsWell
<1>1. PICK d \in DOMAIN call[w].left, at \in {"switch", "record"} :
        call' = [call EXCEPT ![w] = Serve(w, d, at)]
  BY DEF ServeNext
<1>2. /\ call[w].op = "loop" /\ call[w].at = "next"
      /\ rollout[call[w].rollout].status = "active"
      /\ call[w] \in Worker /\ call[w].rollout \in Rollouts
  BY ServedRollout DEF ServeNext, Is, Serving
<1> DEFINE c == Serve(w, d, at)
<1>3. c \in Call /\ c.op = "loop" /\ c.rollout = call[w].rollout
  BY <1>2, ServeIsWorker, KindsOfCalls DEF Ats
<1>4. /\ c.at = at /\ c.device = d
      /\ DOMAIN c.left = DOMAIN call[w].left \ {d}
  BY <1>2 DEF Serve, Worker
<1> HIDE DEF c
<1>5. RowsMove
  BY RowsStay DEF ServeNext
<1>6. ASSUME NEW e \in Devices, Counts(c.rollout),
             install[c.rollout][e].times # 0
      PROVE  e \notin DOMAIN call[w].left
  <2>1. Clear(w, e)
    BY <1>2, <1>3, <1>6, ServedIsClear DEF Serving
  <2> QED
    BY <1>2, <2>1 DEF Clear, Closed, Open
<1>7. \A q \in Rollouts, e \in Devices : ~Recording(w, q, e)
  BY <1>2 DEF Recording
<1>8. call' = [call EXCEPT ![w] = c]
  BY <1>1 DEF c
<1> QED
  BY <1>2, <1>3, <1>4, <1>5, <1>6, <1>7, <1>8, KeepsServing DEF Serving

\* a call that ends before it writes
LEMMA ClosesServing ==
  ASSUME TypeOK, RowsMove, NEW w \in Callers, Close(w), call[w].at # "record"
  PROVE  StepsWell
BY KindsOfCalls, StopsServing DEF Close, Serving, Recording

LEMMA EndSteps ==
  ASSUME IInv, OInv, NEW w \in Callers, EndLoop(w) \/ EndBack(w)
  PROVE  StepsWell
<1>1. call[w].at = "next" /\ Close(w)
  BY DEF EndLoop, EndBack, Is
<1>2. CASE EndLoop(w)
  BY <1>1, <1>2, RowsStay, ClosesServing DEF EndLoop, IInv
<1>3. CASE EndBack(w)
  <2>1. /\ call[w].rollout \in Rollouts
        /\ rollout' = [rollout EXCEPT ![call[w].rollout].status = "completed"]
    BY <1>3, ServedRollout DEF EndBack, Is, Serving
  <2>2. \A q \in Rollouts :
          \/ rollout'[q] = rollout[q]
          \/ /\ rollout'[q].status = "completed"
             /\ rollout'[q].undoes = rollout[q].undoes
             /\ rollout'[q].firmware = rollout[q].firmware
    BY <2>1, RowTypes DEF IInv, TypeOK, Rollout
  <2>3. RowsMove
    BY <1>3, <2>2 DEF RowsMove, Closed, Open, EndBack
  <2> QED
    BY <1>1, <2>3, ClosesServing DEF IInv
<1> QED
  BY <1>2, <1>3

LEMMA ReadConfirmSteps ==
  ASSUME IInv, NEW w \in Callers, NEW d \in Devices, NEW f \in Firmware,
         ReadConfirm(w, d, f)
  PROVE  StepsWell
<1>1. PICK at \in Ats, o \in Overrides \cup {None} :
        call' = [call EXCEPT ![w] = Installing("confirm", at, None, d, f, o)]
  BY DEF ReadConfirm, Ats
<1> DEFINE c == Installing("confirm", at, None, d, f, o)
<1>2. c \in Call /\ c.op = "confirm"
  BY InstallingIsWorker, KindsOfCalls DEF IInv
<1>3. c.rollout = None
  BY DEF Installing
<1> HIDE DEF c
<1>4. RowsMove
  BY RowsStay DEF ReadConfirm
<1>5. \A r \in Rollouts, e \in Devices : ~Recording(w, r, e)
  BY KindsOfCalls DEF ReadConfirm, Recording
<1>6. call' = [call EXCEPT ![w] = c]
  BY <1>1 DEF c
<1> QED
  BY <1>2, <1>3, <1>4, <1>5, <1>6, StopsServing DEF Serving, IInv

\* a confirmation that goes on
LEMMA ConfirmMoves ==
  ASSUME IInv, OInv, RowsMove, NEW w \in Callers, call[w].op = "confirm",
         NEW at \in Ats, call' = [call EXCEPT ![w].at = at]
  PROVE  StepsWell
<1> DEFINE c == [call[w] EXCEPT !.at = at]
<1>1. call[w] \in Worker /\ call[w].rollout = None
  BY KindOfCall DEF OInv, CallersServeWell, IInv, WorkerOps
<1>2. c \in Call /\ c.op = "confirm" /\ c.rollout = None
  <2>1. c \in Worker
    BY <1>1 DEF Worker, Ats
  <2> QED
    BY <1>1, <2>1, KindsOfCalls DEF Worker
<1>3. call' = [call EXCEPT ![w] = c]
  OBVIOUS
<1> HIDE DEF c
<1>4. \A r \in Rollouts, e \in Devices : ~Recording(w, r, e)
  BY DEF Recording
<1> QED
  BY <1>2, <1>3, <1>4, StopsServing DEF Serving, IInv

LEMMA ConfirmSteps ==
  ASSUME IInv, OInv, NEW w \in Callers, ConsumeOverride(w) \/ RecordConfirm(w)
  PROVE  StepsWell
<1>1. CASE ConsumeOverride(w)
  <2>1. RowsMove /\ call[w].op = "confirm" /\ call[w].at = "consume"
    BY <1>1, RowsStay DEF ConsumeOverride, Is
  <2>2. CASE Close(w)
    BY <2>1, <2>2, ClosesServing DEF IInv
  <2>3. CASE call' = [call EXCEPT ![w].at = "record"]
    BY <2>1, <2>3, ConfirmMoves DEF Ats
  <2> QED
    BY <1>1, <2>2, <2>3 DEF ConsumeOverride
<1>2. CASE RecordConfirm(w)
  <2>1. /\ call[w].op = "confirm"
        /\ call' = [call EXCEPT ![w].at = "switch"]
        /\ mode' = mode /\ losses' = losses
    BY <1>2 DEF RecordConfirm, Is
  <2>2. RowsMove
    <3>1. CASE UNCHANGED <<rollout, target>>
      BY <2>1, <3>1, RowsStay
    <3>2. ASSUME NEW r \in Rollouts,
                 RecordTargetResult(r, call[w].device, "success")
          PROVE  RowsMove
      <4>1. call[w].device \in Devices
        BY <3>2 DEF RecordTargetResult, Waits, Pending
      <4> QED
        BY <2>1, <3>2, <4>1, RecordMoves
    <3> QED
      BY <1>2, <3>1, <3>2 DEF RecordConfirm
  <2> QED
    BY <2>1, <2>2, ConfirmMoves DEF Ats
<1> QED
  BY <1>1, <1>2

\* a poll works alone, and for a target that waits: it was not written, as
\* whoever wrote it is the poll that is to record it
LEMMA HearOfInstallSteps ==
  ASSUME IInv, OInv, NEW w \in Callers, NEW r \in Rollouts, NEW d \in Devices,
         HearOfInstall(w, r, d)
  PROVE  StepsWell
<1> DEFINE f == rollout[r].firmware
           c == Installing("poll", "switch", r, d, f, None)
<1>1. call' = [call EXCEPT ![w] = c]
  BY DEF HearOfInstall
<1>2. /\ c.op = "poll" /\ c.at = "switch" /\ c.rollout = r
      /\ c.device = d /\ DOMAIN c.left = {}
  BY DEF Installing, Nobody
<1> HIDE DEF c
<1>3. call'[w] = c /\ \A v \in Callers : v # w => call'[v] = call[v]
  BY <1>1 DEF IInv, TypeOK
<1>4. RowsMove /\ rollout' = rollout /\ mode' = mode
  BY RowsStay DEF HearOfInstall
<1>5. /\ mode = "central" /\ call[w] = Idle
      /\ \A v \in Callers : call[v].op # "poll"
      /\ rollout[r].status \in Started /\ target[r][d].status = "pending"
  BY DEF HearOfInstall, Waits, Pending
<1>6. ServesWell(w)'
  <2>1. target' = target
    BY DEF HearOfInstall
  <2> QED
    BY <1>2, <1>3, <1>4, <1>5, <2>1 DEF ServesWell, Started
<1>7. ~(Counts(r) /\ install[r][d].times # 0)
  <2> SUFFICES ASSUME Counts(r), install[r][d].times # 0
               PROVE  FALSE
    OBVIOUS
  <2>1. Settled(r, d) /\ ~Closed(r)
    BY <1>5 DEF OInv, WrittenOnce, WrittenWell, Closed, Open, Started
  <2>2. PICK v \in Callers : Recording(v, r, d)
    BY <1>5, <2>1 DEF Settled
  <2>3. ServesWell(v)
    BY <2>2 DEF Recording, OInv, CallersServeWell, Serving
  <2> QED
    BY <1>5, <2>2, <2>3 DEF ServesWell, Recording
<1>8. MovesWell(w)
  <2>1. \A q \in Rollouts, e \in Devices : ~Recording(w, q, e)
    BY <1>5, KindsOfCalls DEF Recording
  <2>2. ASSUME NEW q \in Rollouts, NEW e \in Devices,
               Counts(q), install[q][e].times # 0, Serves(w, q)'
        PROVE  Clear(w, e)'
    BY <1>2, <1>3, <1>7, <2>2 DEF Clear, Serves
  <2> QED
    BY <1>2, <1>3, <1>5, <1>6, <2>1, <2>2 DEF MovesWell
<1> QED
  BY <1>3, <1>4, <1>8 DEF StepsWell, OneMoves

LEMMA SwitchFailsSteps ==
  ASSUME IInv, OInv, NEW w \in Callers, SwitchFails(w)
  PROVE  StepsWell
<1>1. call[w].op \in {"confirm", "poll", "loop"} /\ call[w].at = "switch"
      /\ call[w] \in Worker
  BY KindOfCall DEF SwitchFails, IInv, WorkerOps
<1>2. losses' = 0 => losses = 0
  BY DEF SwitchFails, MayLose, IInv, TypeOK
<1>3. RowsMove
  BY <1>2, RowsStay DEF SwitchFails
<1>4. CASE call[w].op = "confirm"
  BY <1>1, <1>3, <1>4, ClosesServing
  DEF SwitchFails, AfterSwitch, Close, IInv
<1>5. CASE call[w].op # "confirm"
  <2> DEFINE c == [call[w] EXCEPT !.at = "record", !.done = FALSE]
  <2>1. call' = [call EXCEPT ![w] = c]
    BY <1>5 DEF SwitchFails, AfterSwitch
  <2>2. /\ c.op = call[w].op /\ c.at = "record"
        /\ c.rollout = call[w].rollout /\ c.device = call[w].device
        /\ c.left = call[w].left
    BY <1>1 DEF Worker
  <2>3. c \in Call
    <3>1. c \in Worker
      BY <1>1 DEF Worker
    <3> QED
      BY <3>1, KindsOfCalls
  <2> HIDE DEF c
  <2>4. call[w].op \in Serving /\ call[w].op # "back"
    BY <1>1, <1>5 DEF Serving
  <2>5. ServesWell(w)
    BY <2>4, ServedRollout
  <2>6. \A r \in Rollouts, d \in Devices : ~Recording(w, r, d)
    BY <1>1 DEF Recording
  <2>7. ASSUME NEW d \in Devices, Counts(c.rollout),
               install[c.rollout][d].times # 0
        PROVE  d \in DOMAIN c.left => c.op = "loop" /\ Closed(c.rollout)
    BY <2>2, <2>4, <2>5, <2>7, ServedIsClear DEF Clear, ServesWell
  <2>8. rollout' = rollout
    BY DEF SwitchFails
  <2>9. \A d \in Devices :
           Counts(c.rollout) /\ install[c.rollout][d].times # 0
           => (d \in DOMAIN c.left => /\ c.op = "loop"
                                      /\ rollout'[c.rollout].status \notin Open)
    BY <2>7, <2>8 DEF Closed
  <2> QED
    BY <1>3, <2>1, <2>2, <2>3, <2>4, <2>6, <2>9, KeepsServing DEF Closed
<1> QED
  BY <1>4, <1>5

\* who has recorded, or has lost its result, goes on to the next device
LEMMA GoesOnAfterRecord ==
  ASSUME IInv, OInv, RowsMove, NEW w \in Callers,
         call[w].op \in {"poll", "loop"}, call[w].at = "record",
         call' = [call EXCEPT ![w] = AfterRecord(w)],
         call[w].device \in Devices =>
           \/ losses' # 0
           \/ target'[call[w].rollout][call[w].device].status # "pending"
           \/ rollout'[call[w].rollout].status \notin Open
  PROVE  StepsWell
<1>1. call[w].op \in Serving /\ call[w] \in Worker /\ ServesWell(w)
      /\ call[w].rollout \in Rollouts
  BY ServedRollout DEF Serving
<1>2. \A r \in Rollouts, d \in Devices : Recording(w, r, d) =>
        losses' # 0 \/ target'[r][d].status # "pending" \/ Closed(r)'
  BY DEF Recording, Closed
<1>3. CASE call[w].op = "poll"
  BY <1>2, <1>3, KindsOfCalls, StopsServing DEF AfterRecord, Serving, IInv
<1>4. CASE call[w].op = "loop"
  <2> DEFINE c == Served(w)
  <2>1. call' = [call EXCEPT ![w] = c]
    BY <1>4 DEF AfterRecord
  <2>2. /\ c \in Call /\ c.op = "loop" /\ c.rollout = call[w].rollout
        /\ c.left = call[w].left
    BY <1>1, <1>4, ServedIsWorker, KindsOfCalls
  <2>3. c.at = "next"
    BY <1>1 DEF Served, Worker
  <2> HIDE DEF c
  <2>4. ASSUME NEW d \in Devices, Counts(c.rollout),
               install[c.rollout][d].times # 0, d \in DOMAIN c.left
        PROVE  rollout'[c.rollout].status \notin Open
    <3>1. Clear(w, d)
      BY <1>1, <2>2, <2>4, ServedIsClear
    <3>2. Closed(call[w].rollout)
      BY <2>2, <2>4, <3>1 DEF Clear
    <3> QED
      BY <1>1, <2>2, <3>2 DEF RowsMove, Closed, ServesWell
  <2> QED
    BY <1>1, <1>2, <1>4, <2>1, <2>2, <2>3, <2>4, KeepsServing DEF Closed
<1> QED
  BY <1>3, <1>4

LEMMA RecordSteps ==
  ASSUME IInv, OInv, NEW w \in Callers, RecordInstall(w) \/ RecordIsLost(w)
  PROVE  StepsWell
<1> DEFINE r == call[w].rollout
           d == call[w].device
<1>1. /\ call[w].op \in {"poll", "loop"} /\ call[w].at = "record"
      /\ call' = [call EXCEPT ![w] = AfterRecord(w)]
  BY DEF RecordInstall, RecordIsLost
<1>2. /\ r \in Rollouts
      /\ rollout[r].status \in
           {"active", "paused", "completed", "cancelled", "rejected"}
  BY <1>1, ServedRollout DEF Serving
<1>3. CASE RecordIsLost(w)
  <2>1. losses' # 0 /\ RowsMove
    BY <1>3, RowsStay DEF RecordIsLost, MayLose, IInv, TypeOK
  <2> QED
    BY <1>1, <2>1, GoesOnAfterRecord
<1>4. CASE RecordInstall(w) /\ Waits(r, d)
  <2>1. d \in Devices
    BY <1>4 DEF Waits, Pending
  <2>2. PICK result \in {"success", "failed"} : RecordTargetResult(r, d, result)
    BY <1>4 DEF RecordInstall
  <2>3. mode' = mode /\ losses' = losses
    BY <1>4 DEF RecordInstall
  <2>4. RowsMove /\ target'[r][d].status = result
    BY <1>2, <2>1, <2>2, <2>3, RecordMoves
  <2> QED
    BY <1>1, <2>4, GoesOnAfterRecord
<1>5. CASE RecordInstall(w) /\ ~Waits(r, d)
  <2>1. /\ rollout' = rollout /\ target' = target /\ mode' = mode
        /\ losses' = losses
    BY <1>5 DEF RecordInstall
  <2>2. RowsMove
    BY <2>1, RowsStay
  <2>3. d \in Devices => \/ target[r][d].status # "pending"
                         \/ rollout[r].status \notin Open
    BY <1>2, <1>5 DEF Waits, Pending, Open, Started
  <2> QED
    BY <1>1, <2>1, <2>2, <2>3, GoesOnAfterRecord
<1> QED
  BY <1>3, <1>4, <1>5

LEMMA ReadToRollBackSteps ==
  ASSUME IInv, NEW w \in Callers, NEW r \in Rollouts, NEW D \in SUBSET Devices,
         ReadToRollBack(w, r, D)
  PROVE  StepsWell
<1>1. call[w] = Idle /\ \A v \in Callers : v # w => call'[v] = call[v]
  BY DEF ReadToRollBack, IInv, TypeOK
<1>2. call'[w].op = "rollback"
  BY DEF ReadToRollBack, IInv, TypeOK
<1>3. \A q \in Rollouts, d \in Devices : ~Recording(w, q, d)
  BY <1>1, KindsOfCalls DEF Recording
<1>4. MovesWell(w)
  BY <1>2, <1>3 DEF MovesWell, Serving, Serves
<1>5. RowsMove
  BY RowsStay DEF ReadToRollBack
<1> QED
  BY <1>1, <1>4, <1>5 DEF StepsWell, OneMoves

LEMMA RollBackSteps ==
  ASSUME IInv, NEW w \in Callers, NEW new \in Rollouts, RollBack(w, new)
  PROVE  StepsWell
<1> DEFINE running == call[w].status \in Started
           u == call[w].rollout
<1>1. rollout[new].status = "none" /\ call[w].op = "rollback" /\ Close(w)
  BY DEF RollBack
<1>2. \A r \in Rollouts : r # new =>
        rollout'[r] = IF r = u /\ running
                      THEN [rollout[r] EXCEPT !.status = "cancelled"]
                      ELSE rollout[r]
  BY DEF RollBack
<1>3. \A r \in Rollouts, d \in Devices : r # new =>
        target'[r][d] = IF r = u /\ running
                        THEN [target[u][d] EXCEPT
                                !.status = IF @ = "pending" THEN "failed" ELSE @]
                        ELSE target[r][d]
  BY DEF RollBack
<1>4. ASSUME NEW r \in Rollouts, r # new, NEW d \in Devices
      PROVE  /\ target'[r][d].status = "pending" =>
                  target[r][d].status = "pending"
             /\ (target'[r][d].status = "none") <=> (target[r][d].status = "none")
  <2>1. CASE r = u /\ running
    <3>1. target[u][d] \in Target
      BY <2>1, RowTypes DEF IInv
    <3>2. CASE target[u][d].status = "pending"
      BY <1>3, <1>4, <2>1, <3>1, <3>2 DEF Target
    <3>3. CASE target[u][d].status # "pending"
      BY <1>3, <1>4, <2>1, <3>1, <3>3 DEF Target
    <3> QED
      BY <3>2, <3>3
  <2>2. CASE ~(r = u /\ running)
    BY <1>3, <1>4, <2>2
  <2> QED
    BY <2>1, <2>2
<1>5. \A r \in Rollouts : r # new =>
        \/ rollout'[r] = rollout[r]
        \/ /\ rollout'[r].status = "cancelled"
           /\ rollout'[r].undoes = rollout[r].undoes
           /\ rollout'[r].firmware = rollout[r].firmware
  BY <1>2, RowTypes DEF IInv, Rollout
<1>6. mode' = mode /\ losses' = losses
  BY DEF RollBack
<1>7. RowsMove
  BY <1>1, <1>4, <1>5, <1>6 DEF RowsMove, Closed, Open
<1>8. \A r \in Rollouts, d \in Devices : ~Recording(w, r, d)
  BY <1>1 DEF Recording
<1> QED
  BY <1>1, <1>7, <1>8, KindsOfCalls, StopsServing DEF Close, Serving, IInv

\* a loop that switches back gives the target its result first
LEMMA WriteBackTargetSteps ==
  ASSUME IInv, OInv, NEW w \in Callers, WriteBackTarget(w)
  PROVE  StepsWell
<1> DEFINE r == call[w].rollout
<1>1. /\ call[w].op = "back" /\ call[w].at = "next"
      /\ call[w] \in Worker /\ r \in Rollouts /\ ServesWell(w)
  BY ServedRollout DEF WriteBackTarget, Is, Serving
<1>2. PICK d \in DOMAIN call[w].left :
        LET held == call[w].left[d].held
        IN /\ target' = [target EXCEPT ![r][d].status =
                           IF held THEN "success" ELSE "failed"]
           /\ call' = [call EXCEPT ![w] =
                IF held THEN Serve(w, d, "flip")
                ELSE [Served(w) EXCEPT
                        !.left = [e \in DOMAIN @ \ {d} |-> @[e]]]]
  BY DEF WriteBackTarget
<1>3. d \in Devices
  BY <1>1, RestIsReads DEF Worker
<1> DEFINE left == [e \in DOMAIN call[w].left \ {d} |-> call[w].left[e]]
           rest == [Served(w) EXCEPT !.left = left]
           c == IF call[w].left[d].held THEN Serve(w, d, "flip") ELSE rest
<1>4. call' = [call EXCEPT ![w] = c]
  BY <1>1, <1>2, ServedIsWorker DEF Worker
<1>5. /\ rest \in Worker /\ rest.op = "back" /\ rest.rollout = r
      /\ rest.at = "next" /\ DOMAIN rest.left = DOMAIN call[w].left \ {d}
  <2>1. /\ Served(w) \in Worker /\ Served(w).op = "back"
        /\ Served(w).rollout = r
    BY <1>1, ServedIsWorker
  <2>2. Served(w).at = "next"
    BY <1>1 DEF Served, Worker
  <2>3. left \in Reads
    BY <1>1, RestIsReads DEF Worker
  <2> QED
    BY <2>1, <2>2, <2>3 DEF Worker
<1>6. LET s == Serve(w, d, "flip")
      IN /\ s \in Worker /\ s.op = "back" /\ s.rollout = r
         /\ s.device = d /\ DOMAIN s.left = DOMAIN call[w].left \ {d}
  <2>1. /\ Serve(w, d, "flip") \in Worker /\ Serve(w, d, "flip").op = "back"
        /\ Serve(w, d, "flip").rollout = r
    BY <1>1, ServeIsWorker DEF Ats
  <2> QED
    BY <1>1, <2>1 DEF Serve, Worker
<1>7. /\ c \in Call /\ c.op = "back" /\ c.rollout = r
      /\ c.at # "next" => c.device = d
      /\ DOMAIN c.left = DOMAIN call[w].left \ {d}
  BY <1>5, <1>6, KindsOfCalls
<1> HIDE DEF c, rest, left
<1> PICK t : t = [target[r][d] EXCEPT !.status =
                    IF call[w].left[d].held THEN "success" ELSE "failed"]
  OBVIOUS
<1>8. t.status \notin {"pending", "none"} /\ target[r][d].status # "none"
  <2>1. target[r][d] \in Target
    BY <1>1, <1>3, RowTypes DEF IInv
  <2> QED
    BY <1>1, <1>3, <2>1 DEF Target, ServesWell
<1>9. target' = [target EXCEPT ![r] = [target[r] EXCEPT ![d] = t]]
  BY <1>2
<1>10. \A q \in Rollouts, e \in Devices :
         target'[q][e] = IF q = r /\ e = d THEN t ELSE target[q][e]
  BY <1>9 DEF IInv, TypeOK
<1>11. rollout' = rollout /\ mode' = mode /\ losses' = losses
  BY DEF WriteBackTarget
<1>12. RowsMove
  BY <1>8, <1>10, <1>11 DEF RowsMove, Closed
<1>13. ASSUME NEW e \in Devices, Counts(r), install[r][e].times # 0
       PROVE  e \notin DOMAIN call[w].left
  BY <1>1, <1>13, ServedIsClear DEF Clear, Serving
<1>14. \A q \in Rollouts, e \in Devices : ~Recording(w, q, e)
  BY <1>1 DEF Recording
<1>15. c.at = "flip" => target'[c.rollout][c.device].status # "pending"
  BY <1>1, <1>3, <1>7, <1>8, <1>10
<1>16. c.at \in {"switch", "flip"} => c.device = d
  BY <1>7
<1> QED
  BY <1>1, <1>3, <1>4, <1>7, <1>12, <1>13, <1>14, <1>15, <1>16, KeepsServing
  DEF Serving

LEMMA RemovalSteps ==
  ASSUME IInv, NEW w \in Callers,
         \/ \E f \in Firmware : LockForDelete(w, f)
         \/ MarkDeleted(w) \/ DeleteObject(w) \/ DeleteObjectFails(w)
         \/ RefuseRollback(w)
  PROVE  StepsWell
<1>1. losses' = 0 => losses = 0
  BY DEF LockForDelete, MarkDeleted, DeleteObject, DeleteObjectFails,
     RefuseRollback, MayLose, IInv, TypeOK
<1>2. RowsMove
  BY <1>1, RowsStay DEF LockForDelete, MarkDeleted, DeleteObject,
     DeleteObjectFails, RefuseRollback
<1>3. call[w] = Idle \/ call[w].op \in {"remove", "rollback"}
  BY DEF LockForDelete, MarkDeleted, DeleteObject, DeleteObjectFails,
     RefuseRollback, Is
<1>4. call[w].op \notin Serving
  BY <1>3, KindsOfCalls DEF Serving
<1>5. \A v \in Callers : v # w => call'[v] = call[v]
  BY DEF LockForDelete, MarkDeleted, DeleteObject, DeleteObjectFails,
     RefuseRollback, Close, IInv, TypeOK
<1>6. call'[w].op \in {"remove", "idle"}
  <2>1. CASE \E f \in Firmware : LockForDelete(w, f)
    BY <2>1 DEF LockForDelete, IInv, TypeOK
  <2>2. CASE MarkDeleted(w)
    <3>1. call[w] \in Removal /\ call[w].op = "remove"
      BY <2>2, KindOfCall DEF MarkDeleted, Is, IInv
    <3> QED
      BY <2>2, <3>1 DEF MarkDeleted, Removal, IInv, TypeOK
  <2>3. CASE Close(w)
    BY <2>3, KindsOfCalls DEF Close, IInv, TypeOK
  <2> QED
    BY <2>1, <2>2, <2>3 DEF DeleteObject, DeleteObjectFails, RefuseRollback
<1>7. MovesWell(w)
  BY <1>4, <1>6 DEF MovesWell, Serving, Serves, Recording
<1> QED
  BY <1>2, <1>5, <1>7 DEF StepsWell, OneMoves

LEMMA NextSteps ==
  ASSUME IInv, OInv, Next, ~Restart, ~\E w \in Callers : Writes(w)
  PROVE  StepsWell
<1>1. CASE Comes
  BY <1>1, RegisterSteps, CreateSteps, RejectSteps, OverrideSteps,
     ActivateSteps, CommandSteps DEF Comes, Release, Resume
<1>2. ASSUME NEW w \in Callers, Works(w)
      PROVE  StepsWell
  <2>1. CASE \/ ReadTargets(w) \/ ServeNext(w) \/ EndLoop(w)
             \/ \E d \in Devices, f \in Firmware : ReadConfirm(w, d, f)
             \/ ConsumeOverride(w) \/ RecordConfirm(w)
             \/ \E r \in Rollouts, d \in Devices : HearOfInstall(w, r, d)
    BY <2>1, ReadTargetsSteps, ServeNextSteps, EndSteps, ReadConfirmSteps,
       ConfirmSteps, HearOfInstallSteps
  <2>2. CASE \/ SwitchFails(w) \/ RecordInstall(w) \/ RecordIsLost(w)
             \/ \E r \in Rollouts, D \in SUBSET Devices : ReadToRollBack(w, r, D)
             \/ \E r \in Rollouts : RollBack(w, r)
    BY <2>2, SwitchFailsSteps, RecordSteps, ReadToRollBackSteps, RollBackSteps
  <2>3. CASE \/ WriteBackTarget(w) \/ EndBack(w) \/ RefuseRollback(w)
             \/ \E f \in Firmware : LockForDelete(w, f)
             \/ MarkDeleted(w) \/ DeleteObject(w) \/ DeleteObjectFails(w)
    BY <2>3, WriteBackTargetSteps, EndSteps, RemovalSteps
  <2>4. CASE SwitchPartition(w) \/ FlipPartition(w)
    BY <2>4 DEF Writes
  <2> QED
    BY <1>2, <2>1, <2>2, <2>3, <2>4 DEF Works
<1> QED
  BY <1>1, <1>2 DEF Next

LEMMA RestartOnce ==
  ASSUME IInv, Restart
  PROVE  OInv'
<1>1. losses' # 0 /\ \A w \in Callers : call'[w] = Idle
  BY DEF Restart, MayLose, IInv, TypeOK
<1> QED
  BY <1>1, KindsOfCalls
  DEF OInv, CallersServeWell, Alone, WrittenOnce, Counts, Loops, Serving

LEMMA HistoryTypes ==
  ASSUME IInv, HistoryTypeOK, Remember
  PROVE  HistoryTypeOK'
<1>1. together' \subseteq Rollouts
  BY DEF Remember, HistoryTypeOK
<1>2. CASE ~\E w \in Callers : Writes(w)
  BY <1>1, <1>2 DEF Remember, HistoryTypeOK
<1>3. CASE \E w \in Callers : Writes(w)
  <2> PICK w : w = CHOOSE v \in Callers : Writes(v)
    OBVIOUS
  <2>1. w \in Callers /\ Writes(w)
    BY <1>3
  <2>2. call[w] \in Worker
    BY <2>1, KindOfCall
    DEF IInv, Writes, SwitchPartition, FlipPartition, Is, WorkerOps
  <2>3. call[w].device \in Devices \cup {None}
    BY <2>2 DEF Worker
  <2>4. /\ install' = Written(w)
        /\ stale' \subseteq
             stale \cup {<<v, call[w].device>> : v \in Callers}
    BY <1>3 DEF Remember
  <2>5. install' \in [Rollouts -> [Devices -> Install]]
    BY <2>1, <2>2, <2>4, WrittenIs DEF IInv
  <2>6. stale' \subseteq Callers \X (Devices \cup {None})
    BY <2>3, <2>4 DEF HistoryTypeOK
  <2> QED
    BY <1>1, <2>5, <2>6 DEF HistoryTypeOK
<1> QED
  BY <1>2, <1>3

LEMMA RememberedStep ==
  ASSUME IInv, HistoryTypeOK, OInv, Next, Remember
  PROVE  HistoryTypeOK' /\ OInv'
<1>1. Crowded
  BY RememberCrowds
<1>2. CASE \E w \in Callers : Writes(w)
  <2> PICK w : w = CHOOSE v \in Callers : Writes(v)
    OBVIOUS
  <2>1. w \in Callers /\ Writes(w)
    BY <1>2
  <2>2. install' = Written(w)
    BY <1>2 DEF Remember
  <2> QED
    BY <1>1, <2>1, <2>2, WriteStep, HistoryTypes
<1>3. CASE ~\E w \in Callers : Writes(w)
  <2>1. install' = install
    BY <1>3 DEF Remember
  <2>2. CASE Restart
    BY <2>2, RestartOnce, HistoryTypes
  <2>3. CASE ~Restart
    <3>1. StepsWell
      BY <1>3, <2>3, NextSteps
    <3> QED
      BY <1>1, <2>1, <3>1, QuietStep, HistoryTypes DEF StepsWell
  <2> QED
    BY <2>2, <2>3
<1> QED
  BY <1>2, <1>3

LEMMA RememberedInv == RememberedSpec => [](IInv /\ HistoryTypeOK /\ OInv)
<1> DEFINE J == IInv /\ HistoryTypeOK /\ OInv
<1>1. Init /\ HistoryInit => J
  <2> SUFFICES ASSUME Init, HistoryInit PROVE J
    OBVIOUS
  <2>1. IInv
    BY InitInv
  <2>2. HistoryTypeOK
    BY DEF HistoryInit, HistoryTypeOK, Install
  <2>3. OInv
    BY KindsOfCalls DEF Init, HistoryInit, OInv, CallersServeWell, Alone,
       WrittenOnce, Loops, Serving
  <2> QED
    BY <2>1, <2>2, <2>3
<1>2. J /\ [Next /\ Remember]_<<vars, history>> => J'
  <2>1. CASE Next /\ Remember
    BY <2>1, RememberedStep, StepInv
  <2>2. CASE UNCHANGED <<vars, history>>
    <3>1. IInv => IInv'
      BY <2>2, StepInv
    <3>2. HistoryTypeOK => HistoryTypeOK'
      BY <2>2 DEF history, HistoryTypeOK
    <3>3. OInv => OInv'
      <4>1. UNCHANGED <<mode, rollout, target, call, losses, install, together>>
        BY <2>2 DEF vars, history
      <4> QED
        BY <4>1 DEF OInv, CallersServeWell, ServesWell, Alone, Loops,
           WrittenOnce, WrittenWell, Counts, Settled, Recording, Closed,
           Serves, Clear
    <3> QED
      BY <3>1, <3>2, <3>3
  <2> QED
    BY <2>1, <2>2
<1> QED
  BY <1>1, <1>2, PTL DEF RememberedSpec

\* A device changes partitions once for a target, whatever the interleaving of
\* polls, loops, confirmations and rollbacks, unless the result of a change was
\* lost or two loops of the rollout worked at once (the known limit at
\* campaign-rollout.service.ts:1914).
THEOREM WritesOnce == RememberedSpec => []OncePerTarget
<1>1. IInv /\ OInv => OncePerTarget
  <2> SUFFICES ASSUME IInv, OInv, NEW r \in Rollouts, NEW d \in Devices,
                      install[r][d].times = 2, ~(losses > 0), r \notin together
               PROVE  FALSE
    BY DEF OncePerTarget
  <2>1. losses = 0
    BY DEF IInv, TypeOK
  <2> QED
    BY <2>1 DEF OInv, WrittenOnce, WrittenWell, Counts
<1> QED
  BY <1>1, RememberedInv, PTL

-----------------------------------------------------------------------------
(* What a rollback brings back: the inductive invariant *)

\* u wrote device d once, and nothing but it has written d since it was read
Untouched(u, d) ==
  /\ install[u][d].times = 1 /\ ~install[u][d].mixed
  /\ \A q \in Rollouts : rollout[q].undoes = u => install[q][d].times = 0

\* firmware f is what d ran before u wrote it, should d be untouched
Restores(f, u, d) ==
  /\ install[u][d].times # 0
  /\ Untouched(u, d) /\ install[u][d].before # None
       => install[u][d].before = f

\* a handler that nobody has overtaken knows which partition is active
Fresh(w) == \A d \in Devices : <<w, d>> \notin stale =>
  /\ /\ d = call[w].device
     /\ call[w].op = "confirm" \/ call[w].at \in {"switch", "flip"}
     => call[w].seen = device[d].active
  /\ d \in DOMAIN call[w].left => call[w].left[d].active = device[d].active

\* the poll installs the firmware of its rollout, and reports what it has done
PollKnows(w) ==
  /\ call[w].firmware = rollout[call[w].rollout].firmware
  /\ call[w].at = "record" /\ call[w].done /\ call[w].device \in Devices =>
       install[call[w].rollout][call[w].device].times # 0

\* in mode central the firmware that a rollback is to bring back is the one
\* that the first of its devices ran
RollingBackKnows(w) ==
  /\ rollout[call[w].rollout].status # "none"
  /\ \A d \in call[w].devices : device[d].there
  /\ mode = "central" => \E d \in call[w].devices :
       Restores(call[w].firmware, call[w].rollout, d)

Right(w) ==
  /\ call[w].op = "confirm" => mode = "mock"
  /\ call[w].op \in WorkerOps => Fresh(w)
  /\ call[w].op = "poll" => PollKnows(w)
  /\ call[w].op = "rollback" => RollingBackKnows(w)

RollbackKnows(r) ==
  LET u == rollout[r].undoes
  IN \E d \in Devices :
       /\ target[r][d].status # "none" /\ install[u][d].times # 0
       /\ Undoes(r, u, d) /\ install[u][d].before # None
            => install[u][d].before = rollout[r].firmware

\* targets and writes belong to a rollout and a device that exist
TargetsExist == \A r \in Rollouts, d \in Devices :
  /\ target[r][d].status # "none" => device[d].there
  /\ install[r][d].times # 0 => rollout[r].status # "none" /\ device[d].there

SpareIsBefore == \A u \in Rollouts, d \in Devices :
  Untouched(u, d) => Spare(d) = install[u][d].before

SuccessIsWritten == mode = "central" =>
  \A r \in Rollouts, d \in Devices :
    target[r][d].status = "success" => install[r][d].times # 0

RollbacksKnow == mode = "central" =>
  \A r \in Rollouts :
    rollout[r].status # "none" /\ rollout[r].undoes # None => RollbackKnows(r)

UInv ==
  /\ \A w \in Callers : Right(w)
  /\ TargetsExist /\ SpareIsBefore /\ SuccessIsWritten /\ RollbacksKnow

-----------------------------------------------------------------------------
(* What every step keeps of the history *)

HistoryGrows ==
  \A r \in Rollouts, d \in Devices : install[r][d].times # 0 =>
    LET i == install[r][d]
        j == install'[r][d]
    IN /\ j.times # 0 /\ j.before = i.before
       /\ j.times = 1 => i.times = 1
       /\ i.mixed => j.mixed

\* a rollout that is new comes with rows for devices that are there, and knows
\* what it undoes
NewRows ==
  /\ \A d \in Devices : device[d].there => device'[d].there
  /\ \A r \in Rollouts : rollout[r].status = "none" =>
       /\ \A d \in Devices : target'[r][d].status # "none" => device[d].there
       /\ rollout'[r].status # "none" /\ rollout'[r].undoes # None
            /\ mode = "central" => RollbackKnows(r)'
  /\ mode = "central" => \A r \in Rollouts, d \in Devices :
       target'[r][d].status = "success" =>
         target[r][d].status = "success" \/ install[r][d].times # 0

\* a handler that stays is overtaken when its device is written
Overtaken ==
  \A v \in Callers, d \in Devices :
    call'[v] = call[v] /\ At(v, d) /\ <<v, d>> \notin stale' =>
      <<v, d>> \notin stale /\ device'[d].active = device[d].active

\* what was written and is untouched now was untouched before
LEMMA WasUntouched ==
  ASSUME TargetsExist, RowsMove, HistoryGrows,
         NEW u \in Rollouts, NEW d \in Devices, install[u][d].times # 0
  PROVE  /\ Untouched(u, d)' => Untouched(u, d)
         /\ \A r \in Rollouts : Undoes(r, u, d)' => Undoes(r, u, d)
         /\ install'[u][d].times # 0
         /\ install'[u][d].before = install[u][d].before
<1>1. /\ install'[u][d].times # 0
      /\ install'[u][d].before = install[u][d].before
      /\ install'[u][d].times = 1 => install[u][d].times = 1
      /\ install[u][d].mixed => install'[u][d].mixed
  BY DEF HistoryGrows
<1>2. ASSUME NEW q \in Rollouts, rollout[q].undoes = u,
             rollout'[q].undoes = u => install'[q][d].times = 0
      PROVE  install[q][d].times = 0
  <2> SUFFICES ASSUME install[q][d].times # 0 PROVE FALSE
    OBVIOUS
  <2>1. rollout'[q].undoes = u
    BY <1>2 DEF TargetsExist, RowsMove
  <2> QED
    BY <1>2, <2>1 DEF HistoryGrows
<1>3. Untouched(u, d)' => Untouched(u, d)
  BY <1>1, <1>2 DEF Untouched
<1>4. ASSUME NEW r \in Rollouts, Undoes(r, u, d)'
      PROVE  Undoes(r, u, d)
  BY <1>1, <1>2, <1>4 DEF Undoes
<1> QED
  BY <1>1, <1>3, <1>4

LEMMA StillRestores ==
  ASSUME TargetsExist, RowsMove, HistoryGrows,
         NEW u \in Rollouts, NEW d \in Devices, NEW f, Restores(f, u, d)
  PROVE  Restores(f, u, d)'
BY WasUntouched DEF Restores

\* who does not move stays right
LEMMA StayRight ==
  ASSUME IInv, OInv, UInv, RowsMove, NewRows, HistoryGrows, Overtaken,
         NEW v \in Callers, call'[v] = call[v]
  PROVE  Right(v)'
<1>1. Right(v) /\ mode' = mode /\ TargetsExist
  BY DEF UInv, RowsMove
<1>2. ASSUME call[v].op \in WorkerOps PROVE Fresh(v)'
  <2> SUFFICES ASSUME NEW d \in Devices, <<v, d>> \notin stale', At(v, d)
               PROVE  /\ /\ d = call[v].device
                         /\ call[v].op = "confirm" \/ call[v].at \in {"switch", "flip"}
                         => call[v].seen = device'[d].active
                      /\ d \in DOMAIN call[v].left =>
                           call[v].left[d].active = device'[d].active
    BY <1>2 DEF Fresh, At, WorkerOps
  <2>1. <<v, d>> \notin stale /\ device'[d].active = device[d].active
    BY DEF Overtaken
  <2> QED
    BY <1>1, <1>2, <2>1 DEF Right, Fresh
<1>3. ASSUME call[v].op = "poll" PROVE PollKnows(v)'
  <2>1. PollKnows(v) /\ ServesWell(v)
    BY <1>1, <1>3 DEF Right, OInv, CallersServeWell, Serving
  <2>2. /\ call[v].rollout \in Rollouts
        /\ rollout'[call[v].rollout].firmware = rollout[call[v].rollout].firmware
    BY <2>1 DEF ServesWell, RowsMove
  <2>3. ASSUME call[v].device \in Devices,
               install[call[v].rollout][call[v].device].times # 0
        PROVE  install'[call[v].rollout][call[v].device].times # 0
    BY <2>2, <2>3 DEF HistoryGrows
  <2> QED
    BY <2>1, <2>2, <2>3 DEF PollKnows
<1>4. ASSUME call[v].op = "rollback" PROVE RollingBackKnows(v)'
  <2>1. RollingBackKnows(v) /\ call[v] \in RollingBack
    BY <1>1, <1>4, KindOfCall DEF Right, IInv
  <2>2. /\ call[v].rollout \in Rollouts /\ call[v].devices \subseteq Devices
    BY <2>1 DEF RollingBack
  <2>3. rollout'[call[v].rollout].status # "none"
    BY <2>1, <2>2 DEF RollingBackKnows, RowsMove
  <2>4. \A d \in call[v].devices : device'[d].there
    BY <2>1, <2>2 DEF RollingBackKnows, NewRows
  <2>5. ASSUME mode = "central"
        PROVE  \E d \in call[v].devices :
                 Restores(call[v].firmware, call[v].rollout, d)'
    <3>1. PICK d \in call[v].devices :
            Restores(call[v].firmware, call[v].rollout, d)
      BY <2>1, <2>5 DEF RollingBackKnows
    <3>2. Restores(call[v].firmware, call[v].rollout, d)'
      BY <1>1, <2>2, <3>1, StillRestores
    <3> QED
      BY <3>2
  <2> QED
    BY <1>1, <2>3, <2>4, <2>5 DEF RollingBackKnows
<1> QED
  BY <1>1, <1>2, <1>3, <1>4 DEF Right

\* what the rows tell of the history stays so
LEMMA RowsStayRight ==
  ASSUME IInv, UInv, RowsMove, NewRows, HistoryGrows
  PROVE  /\ \A r \in Rollouts, d \in Devices :
              target'[r][d].status # "none" => device'[d].there
         /\ SuccessIsWritten' /\ RollbacksKnow'
<1>1. mode' = mode /\ TargetsExist
  BY DEF UInv, RowsMove
<1>2. ASSUME NEW r \in Rollouts, NEW d \in Devices,
             target'[r][d].status # "none"
      PROVE  device'[d].there
  BY <1>2 DEF UInv, TargetsExist, RowsMove, NewRows
<1>3. SuccessIsWritten'
  BY <1>1 DEF UInv, SuccessIsWritten, NewRows, HistoryGrows
<1>4. ASSUME mode = "central", NEW r \in Rollouts,
             rollout'[r].status # "none", rollout'[r].undoes # None
      PROVE  RollbackKnows(r)'
  <2>1. CASE rollout[r].status = "none"
    BY <1>4, <2>1 DEF NewRows
  <2>2. CASE rollout[r].status # "none"
    <3>1. /\ rollout'[r].undoes = rollout[r].undoes
          /\ rollout'[r].firmware = rollout[r].firmware
          /\ \A d \in Devices : target[r][d].status # "none" =>
                target'[r][d].status # "none"
      BY <2>2 DEF RowsMove
    <3>2. RollbackKnows(r) /\ rollout[r].undoes \in Rollouts
      BY <1>4, <2>2, <3>1, RowTypes DEF UInv, RollbacksKnow, IInv, Rollout
    <3> PICK u : u = rollout[r].undoes
      OBVIOUS
    <3>3. PICK d \in Devices :
            /\ target[r][d].status # "none" /\ install[u][d].times # 0
            /\ Undoes(r, u, d) /\ install[u][d].before # None
                 => install[u][d].before = rollout[r].firmware
      BY <3>2 DEF RollbackKnows
    <3>4. /\ Undoes(r, u, d)' => Undoes(r, u, d)
          /\ install'[u][d].times # 0
          /\ install'[u][d].before = install[u][d].before
      BY <1>1, <3>2, <3>3, WasUntouched
    <3>5. u = rollout'[r].undoes
      BY <3>1
    <3>6. \E e \in Devices :
            /\ target'[r][e].status # "none" /\ install'[u][e].times # 0
            /\ Undoes(r, u, e)' /\ install'[u][e].before # None
                 => install'[u][e].before = rollout'[r].firmware
      BY <3>1, <3>3, <3>4
    <3> QED
      BY <3>5, <3>6 DEF RollbackKnows, Undoes
  <2> QED
    BY <2>1, <2>2
<1>5. RollbacksKnow'
  BY <1>1, <1>4 DEF RollbacksKnow
<1> QED
  BY <1>2, <1>3, <1>5

-----------------------------------------------------------------------------
(* Steps that write no device *)

Quiet == /\ install' = install
         /\ stale' = {s \in stale : call'[s[1]] # Idle}

DevicesStay == \A d \in Devices :
  /\ device'[d].active = device[d].active
  /\ device[d].there => device'[d] = device[d]

CallersMoveRight == \A v \in Callers : call'[v] = call[v] \/ Right(v)'

LEMMA QuietStaysStale ==
  ASSUME Quiet, NEW v \in Callers, call'[v] # Idle, NEW d,
         <<v, d>> \notin stale'
  PROVE  <<v, d>> \notin stale
BY DEF Quiet

LEMMA QuietRight ==
  ASSUME IInv, OInv, UInv, RowsMove, NewRows, Quiet, DevicesStay,
         CallersMoveRight
  PROVE  UInv'
<1>1. HistoryGrows
  BY DEF HistoryGrows, Quiet
<1>2. Overtaken
  <2> SUFFICES ASSUME NEW v \in Callers, NEW d \in Devices,
                      call'[v] = call[v], At(v, d), <<v, d>> \notin stale'
               PROVE  <<v, d>> \notin stale /\ device'[d].active = device[d].active
    BY DEF Overtaken
  <2>1. call'[v] # Idle
    BY KindsOfCalls DEF At
  <2> QED
    BY <2>1, QuietStaysStale DEF DevicesStay
<1>3. \A v \in Callers : Right(v)'
  BY <1>1, <1>2, StayRight DEF CallersMoveRight
<1>4. TargetsExist /\ install' = install
  BY DEF UInv, Quiet
<1>5. TargetsExist'
  BY <1>1, <1>4, RowsStayRight DEF TargetsExist, RowsMove, NewRows
<1>6. SpareIsBefore'
  <2> SUFFICES ASSUME NEW u \in Rollouts, NEW d \in Devices, Untouched(u, d)'
               PROVE  Spare(d)' = install'[u][d].before
    BY DEF SpareIsBefore
  <2>1. install[u][d].times # 0
    BY <1>4 DEF Untouched
  <2>2. Untouched(u, d)
    BY <1>1, <1>4, <2>1, WasUntouched
  <2>3. device'[d] = device[d]
    BY <1>4, <2>1 DEF TargetsExist, DevicesStay
  <2> QED
    BY <1>4, <2>2, <2>3 DEF UInv, SpareIsBefore, Spare
<1> QED
  BY <1>1, <1>3, <1>5, <1>6, RowsStayRight DEF UInv

\* no rollout is new
LEMMA OldRows ==
  ASSUME UInv, device' = device,
         \A r \in Rollouts : rollout[r].status = "none" =>
           rollout'[r].status = "none" /\ target'[r] = target[r],
         mode = "central" => \A r \in Rollouts, d \in Devices :
           target'[r][d].status = "success" =>
             target[r][d].status = "success" \/ install[r][d].times # 0
  PROVE  NewRows /\ DevicesStay
BY DEF NewRows, DevicesStay, UInv, TargetsExist

LEMMA SameRows ==
  ASSUME UInv, UNCHANGED <<device, rollout, target>>
  PROVE  NewRows /\ DevicesStay
BY OldRows

\* a caller that is idle, or is at what the history does not ask about
LEMMA NothingToKnow ==
  ASSUME TypeOK, NEW w \in Callers, NEW c, call' = [call EXCEPT ![w] = c],
         c.op \notin WorkerOps, c.op # "rollback"
  PROVE  CallersMoveRight
<1>1. call'[w] = c /\ \A v \in Callers : v # w => call'[v] = call[v]
  BY DEF TypeOK
<1>2. Right(w)'
  BY <1>1 DEF Right, WorkerOps
<1> QED
  BY <1>1, <1>2 DEF CallersMoveRight

LEMMA ClosesRight ==
  ASSUME TypeOK, NEW w \in Callers, Close(w)
  PROVE  CallersMoveRight
<1>1. Idle.op \notin WorkerOps /\ Idle.op # "rollback"
  BY KindsOfCalls DEF WorkerOps
<1> QED
  BY <1>1, NothingToKnow DEF Close

\* a worker that goes on
LEMMA WorksOnRight ==
  ASSUME IInv, UInv, Quiet, device' = device, NEW w \in Callers, NEW c,
         call' = [call EXCEPT ![w] = c], call[w].op \in WorkerOps,
         c.op = call[w].op, mode' = mode,
         \A d \in DOMAIN c.left :
           d \in DOMAIN call[w].left /\ c.left[d] = call[w].left[d],
         c.op = "confirm" => c.device = call[w].device /\ c.seen = call[w].seen,
         c.op # "confirm" /\ c.at \in {"switch", "flip"} =>
           /\ c.device \in DOMAIN call[w].left
           /\ c.seen = call[w].left[c.device].active,
         c.op = "poll" =>
           /\ c.firmware = call[w].firmware /\ c.rollout = call[w].rollout
           /\ rollout' = rollout /\ c.at = "record" /\ ~c.done
  PROVE  CallersMoveRight
<1>1. call'[w] = c /\ \A v \in Callers : v # w => call'[v] = call[v]
  BY DEF IInv, TypeOK
<1>2. Right(w) /\ call'[w] # Idle
  BY <1>1, KindsOfCalls DEF UInv, WorkerOps
<1>3. Fresh(w)
  BY <1>2 DEF Right
<1>4. Fresh(w)'
  <2> SUFFICES ASSUME NEW d \in Devices, <<w, d>> \notin stale'
               PROVE  /\ /\ d = c.device
                         /\ c.op = "confirm" \/ c.at \in {"switch", "flip"}
                         => c.seen = device[d].active
                      /\ d \in DOMAIN c.left => c.left[d].active = device[d].active
    BY <1>1 DEF Fresh
  <2>1. <<w, d>> \notin stale
    BY <1>2, QuietStaysStale
  <2> QED
    BY <1>3, <2>1 DEF Fresh
<1>5. c.op = "poll" => PollKnows(w)'
  BY <1>1, <1>2 DEF Right, PollKnows
<1>6. c.op = "confirm" => mode' = "mock"
  BY <1>2 DEF Right
<1>7. Right(w)'
  BY <1>1, <1>4, <1>5, <1>6 DEF Right, WorkerOps
<1> QED
  BY <1>1, <1>7 DEF CallersMoveRight

RightStep == NewRows /\ DevicesStay /\ CallersMoveRight

LEMMA CallsStay ==
  ASSUME call' = call
  PROVE  CallersMoveRight
BY DEF CallersMoveRight

LEMMA RegisterRight ==
  ASSUME IInv, UInv, NEW d \in Devices, NEW f \in Firmware \cup {None},
         Register(d, f)
  PROVE  RightStep
<1>1. /\ ~device[d].there
      /\ UNCHANGED <<rollout, target, call>>
      /\ \A e \in Devices : e # d => device'[e] = device[e]
  BY DEF Register, IInv, TypeOK
<1>2. device'[d].there /\ device'[d].active = device[d].active
  BY RowTypes DEF Register, IInv, TypeOK, Device
<1>3. NewRows /\ DevicesStay
  BY <1>1, <1>2 DEF NewRows, DevicesStay, UInv, TargetsExist
<1> QED
  BY <1>1, <1>3, CallsStay DEF RightStep

LEMMA OverrideRight ==
  ASSUME UInv, NEW o, \/ \E d, f : OverrideDeviceFirmware(o, d, f)
                      \/ DecideOverride(o)
  PROVE  RightStep
BY SameRows, CallsStay DEF OverrideDeviceFirmware, DecideOverride, RightStep

LEMMA CreateRight ==
  ASSUME IInv, UInv, NEW r \in Rollouts, NEW f \in Firmware,
         NEW D \in SUBSET Devices, Create(r, f, D)
  PROVE  RightStep
<1>1. /\ \A q \in Rollouts : q # r => /\ rollout'[q] = rollout[q]
                                      /\ target'[q] = target[q]
      /\ rollout'[r].undoes = None
      /\ UNCHANGED <<device, call>>
  BY DEF Create, Insert, IInv, TypeOK
<1>2. \A d \in Devices : /\ target'[r][d].status # "none" => device[d].there
                         /\ target'[r][d].status # "success"
  <2>1. \A d \in Devices :
          target'[r][d] = [target[r][d] EXCEPT
                             !.status = IF d \in D THEN "pending" ELSE "none"]
    BY DEF Create, Insert, IInv, TypeOK
  <2>2. ASSUME NEW d \in Devices
        PROVE  target'[r][d].status = IF d \in D THEN "pending" ELSE "none"
    BY <2>1, RowTypes DEF IInv, Target
  <2>3. \A d \in D : device[d].there
    BY DEF Create
  <2> QED
    BY <2>2, <2>3
<1>3. NewRows /\ DevicesStay
  BY <1>1, <1>2 DEF NewRows, DevicesStay, UInv, TargetsExist
<1> QED
  BY <1>1, <1>3, CallsStay DEF RightStep

LEMMA RejectRight ==
  ASSUME IInv, UInv, NEW r \in Rollouts, Reject(r)
  PROVE  RightStep
<1>1. /\ rollout[r].status = "waiting"
      /\ \A q \in Rollouts : q # r => rollout'[q] = rollout[q]
      /\ UNCHANGED <<device, target, call>>
  BY DEF Reject, IInv, TypeOK
<1> QED
  BY <1>1, OldRows, CallsStay DEF RightStep

LEMMA ActivateRight ==
  ASSUME IInv, UInv, Quiet, NEW r \in Rollouts, NEW w \in Callers,
         NEW from \in {"waiting", "paused"}, Activate(r, w, from)
  PROVE  RightStep
<1>1. /\ rollout[r].status = from
      /\ \A q \in Rollouts : q # r => rollout'[q] = rollout[q]
      /\ UNCHANGED <<mode, device, target>>
  BY DEF Activate, IInv, TypeOK
<1>2. NewRows /\ DevicesStay
  BY <1>1, OldRows
<1>3. CASE mode # "mock"
  BY <1>2, <1>3, CallsStay DEF Activate, StartLoop, RightStep
<1>4. CASE mode = "mock"
  <2> PICK op : op = IF rollout[r].undoes = None THEN "loop" ELSE "back"
    OBVIOUS
  <2> DEFINE c == [op |-> op, at |-> "start", rollout |-> r,
                   firmware |-> rollout[r].firmware, override |-> None,
                   left |-> Nobody, device |-> None, seen |-> "A",
                   done |-> FALSE]
  <2>1. call' = [call EXCEPT ![w] = c]
    BY <1>4 DEF Activate, StartLoop
  <2>2. c.op = op /\ c.at = "start" /\ DOMAIN c.left = {}
    BY DEF Nobody
  <2> HIDE DEF c
  <2>3. call'[w] = c /\ \A v \in Callers : v # w => call'[v] = call[v]
    BY <2>1 DEF IInv, TypeOK
  <2>4. op \in {"loop", "back"}
    OBVIOUS
  <2>5. Right(w)'
    BY <2>2, <2>3, <2>4 DEF Right, Fresh
  <2> QED
    BY <1>2, <2>3, <2>5 DEF CallersMoveRight, RightStep
<1> QED
  BY <1>3, <1>4

LEMMA RecordRows ==
  ASSUME IInv, UInv, NEW r \in Rollouts, NEW d \in Devices,
         NEW result \in {"success", "failed"},
         RecordTargetResult(r, d, result), device' = device,
         mode = "central" /\ result = "success" => install[r][d].times # 0
  PROVE  NewRows /\ DevicesStay
<1>1. /\ rollout[r].status \in Started
      /\ \A q \in Rollouts : q # r => rollout'[q] = rollout[q]
  BY Recorded
<1>2. \A q \in Rollouts, e \in Devices :
        \/ target'[q][e] = target[q][e]
        \/ q = r /\ e = d /\ target'[q][e].status = result
  <2>1. target[r][d] \in Target
    BY RowTypes DEF IInv
  <2>2. target' = [target EXCEPT ![r] = [target[r] EXCEPT
                     ![d] = [target[r][d] EXCEPT !.status = result]]]
    BY DEF RecordTargetResult
  <2> QED
    BY <2>1, <2>2 DEF IInv, TypeOK, Target
<1>3. \A q \in Rollouts : q # r => target'[q] = target[q]
  BY DEF RecordTargetResult, IInv, TypeOK
<1> QED
  BY <1>1, <1>2, <1>3, OldRows DEF Started

LEMMA CommandRight ==
  ASSUME IInv, UInv, NEW r \in Rollouts, NEW d \in Devices,
         SendCommand(r, d) \/ CommandFails(r, d) \/ MarkTargetSkipped(r, d)
  PROVE  RightStep
<1>1. CASE SendCommand(r, d)
  <2>1. /\ rollout[r].status = "active"
        /\ UNCHANGED <<device, rollout, call>>
        /\ \A q \in Rollouts : q # r => target'[q] = target[q]
    BY <1>1 DEF SendCommand, IInv, TypeOK
  <2>2. \A e \in Devices : target'[r][e].status = target[r][e].status
    <3>1. target' = [target EXCEPT ![r] = [target[r] EXCEPT
                       ![d] = [target[r][d] EXCEPT !.command = "sent"]]]
      BY <1>1 DEF SendCommand
    <3>2. target[r][d] \in Target
      BY RowTypes DEF IInv
    <3> QED
      BY <3>1, <3>2 DEF IInv, TypeOK, Target
  <2> QED
    BY <2>1, <2>2, OldRows, CallsStay DEF RightStep
<1>2. CASE CommandFails(r, d)
  BY <1>2, RecordRows, CallsStay DEF CommandFails, RightStep
<1>3. CASE MarkTargetSkipped(r, d)
  <2>1. /\ rollout[r].status \in Started
        /\ \A q \in Rollouts : q # r => /\ target'[q] = target[q]
                                        /\ rollout'[q] = rollout[q]
        /\ UNCHANGED <<device, call>>
    BY <1>3 DEF MarkTargetSkipped, IInv, TypeOK
  <2>2. \A e \in Devices : target'[r][e].status = "success" =>
          target[r][e].status = "success"
    <3>1. target' = [target EXCEPT ![r] = [target[r] EXCEPT
                       ![d] = [target[r][d] EXCEPT !.status = "skipped"]]]
      BY <1>3 DEF MarkTargetSkipped
    <3>2. target[r][d] \in Target
      BY RowTypes DEF IInv
    <3> QED
      BY <3>1, <3>2 DEF IInv, TypeOK, Target
  <2> QED
    BY <2>1, <2>2, OldRows, CallsStay DEF RightStep, Started
<1> QED
  BY <1>1, <1>2, <1>3

LEMMA ReadTargetsRight ==
  ASSUME IInv, UInv, Quiet, NEW w \in Callers, ReadTargets(w)
  PROVE  RightStep
<1> DEFINE D == Pending(call[w].rollout)
           left == [d \in D |-> [active |-> device[d].active,
                                 held |-> Spare(d) = call[w].firmware]]
           c == [call[w] EXCEPT !.at = "next", !.left = left]
<1>1. call[w] \in Worker /\ call[w].op \in {"loop", "back"}
  BY KindOfCall DEF IInv, ReadTargets, WorkerOps
<1>2. /\ c.op = call[w].op /\ c.at = "next" /\ c.left = left
  BY <1>1 DEF Worker
<1>3. call' = [call EXCEPT ![w] = c]
  BY DEF ReadTargets, IInv, TypeOK
<1>4. DOMAIN left = D /\ \A d \in D : left[d].active = device[d].active
  OBVIOUS
<1> HIDE DEF c, left, D
<1>5. call'[w] = c /\ \A v \in Callers : v # w => call'[v] = call[v]
  BY <1>3 DEF IInv, TypeOK
<1>6. UNCHANGED <<device, rollout, target>>
  BY DEF ReadTargets
<1>7. Right(w)'
  BY <1>1, <1>2, <1>4, <1>5, <1>6 DEF Right, Fresh
<1> QED
  BY <1>5, <1>6, <1>7, SameRows DEF CallersMoveRight, RightStep

LEMMA ServeNextRight ==
  ASSUME IInv, UInv, Quiet, NEW w \in Callers, ServeNext(w)
  PROVE  RightStep
<1>1. PICK d \in DOMAIN call[w].left, at \in {"switch", "record"} :
        call' = [call EXCEPT ![w] = Serve(w, d, at)]
  BY DEF ServeNext
<1>2. call[w].op = "loop" /\ call[w] \in Worker
  BY KindOfCall DEF ServeNext, Is, IInv, WorkerOps
<1> DEFINE c == Serve(w, d, at)
<1>3. c.op = "loop"
  BY <1>2, ServeIsWorker DEF Ats
<1>4. /\ c.device = d /\ c.seen = call[w].left[d].active
      /\ c.left = [e \in DOMAIN call[w].left \ {d} |-> call[w].left[e]]
  BY <1>2 DEF Serve, Worker
<1>5. call' = [call EXCEPT ![w] = c]
  BY <1>1
<1> HIDE DEF c
<1>6. UNCHANGED <<mode, device, rollout, target>>
  BY DEF ServeNext
<1>7. CallersMoveRight
  BY <1>2, <1>3, <1>4, <1>5, <1>6, WorksOnRight DEF WorkerOps
<1> QED
  BY <1>6, <1>7, SameRows DEF RightStep

LEMMA EndRight ==
  ASSUME IInv, OInv, UInv, NEW w \in Callers, EndLoop(w) \/ EndBack(w)
  PROVE  RightStep
<1>1. CallersMoveRight
  BY ClosesRight DEF EndLoop, EndBack, IInv
<1>2. CASE EndLoop(w)
  BY <1>1, <1>2, SameRows DEF EndLoop, RightStep
<1>3. CASE EndBack(w)
  <2>1. rollout[call[w].rollout].status # "none"
    BY <1>3, ServedRollout DEF EndBack, Is, Serving
  <2>2. \A q \in Rollouts : q # call[w].rollout => rollout'[q] = rollout[q]
    BY <1>3 DEF EndBack, IInv, TypeOK
  <2> QED
    BY <1>1, <1>3, <2>1, <2>2, OldRows DEF EndBack, RightStep
<1> QED
  BY <1>2, <1>3

\* a handler that has just read a device is fresh
LEMMA InstallingIsFresh ==
  ASSUME IInv, NEW w \in Callers, NEW op, NEW at, NEW r, NEW d, NEW f, NEW o,
         call' = [call EXCEPT ![w] = Installing(op, at, r, d, f, o)],
         device' = device
  PROVE  Fresh(w)'
<1> DEFINE c == Installing(op, at, r, d, f, o)
<1>1. c.device = d /\ c.seen = device[d].active /\ DOMAIN c.left = {}
  BY DEF Installing, Nobody
<1>2. call'[w] = c
  BY DEF IInv, TypeOK
<1> HIDE DEF c
<1> QED
  BY <1>1, <1>2 DEF Fresh

LEMMA ReadConfirmRight ==
  ASSUME IInv, UInv, NEW w \in Callers, NEW d \in Devices, NEW f \in Firmware,
         ReadConfirm(w, d, f)
  PROVE  RightStep
<1>1. PICK at \in Ats, o \in Overrides \cup {None} :
        call' = [call EXCEPT ![w] = Installing("confirm", at, None, d, f, o)]
  BY DEF ReadConfirm, Ats
<1>2. /\ mode = "mock" /\ UNCHANGED <<mode, device, rollout, target>>
  BY DEF ReadConfirm
<1>3. Fresh(w)'
  BY <1>1, <1>2, InstallingIsFresh
<1>4. /\ call'[w].op = "confirm"
      /\ \A v \in Callers : v # w => call'[v] = call[v]
  BY <1>1 DEF IInv, TypeOK, Installing
<1>5. Right(w)'
  BY <1>2, <1>3, <1>4 DEF Right
<1> QED
  BY <1>2, <1>4, <1>5, SameRows DEF CallersMoveRight, RightStep

LEMMA ConfirmMovesRight ==
  ASSUME IInv, UInv, Quiet, device' = device, mode' = mode, NEW w \in Callers,
         call[w].op = "confirm", NEW at, call' = [call EXCEPT ![w].at = at]
  PROVE  CallersMoveRight
<1> DEFINE c == [call[w] EXCEPT !.at = at]
<1>1. call[w] \in Worker
  BY KindOfCall DEF IInv, WorkerOps
<1>2. /\ c.op = "confirm" /\ c.left = call[w].left
      /\ c.device = call[w].device /\ c.seen = call[w].seen
  BY <1>1 DEF Worker
<1>3. call' = [call EXCEPT ![w] = c]
  OBVIOUS
<1> HIDE DEF c
<1> QED
  BY <1>2, <1>3, WorksOnRight DEF WorkerOps

LEMMA ConfirmRight ==
  ASSUME IInv, UInv, Quiet, NEW w \in Callers,
         ConsumeOverride(w) \/ RecordConfirm(w)
  PROVE  RightStep
<1>1. CASE ConsumeOverride(w)
  <2>1. /\ UNCHANGED <<mode, device, rollout, target>> /\ call[w].op = "confirm"
    BY <1>1 DEF ConsumeOverride, Is
  <2>2. Close(w) \/ call' = [call EXCEPT ![w].at = "record"]
    BY <1>1 DEF ConsumeOverride
  <2>3. CallersMoveRight
    BY <2>1, <2>2, ClosesRight, ConfirmMovesRight DEF IInv
  <2> QED
    BY <2>1, <2>3, SameRows DEF RightStep
<1>2. CASE RecordConfirm(w)
  <2>1. /\ call[w].op = "confirm" /\ mode' = mode /\ device' = device
        /\ call' = [call EXCEPT ![w].at = "switch"]
    BY <1>2 DEF RecordConfirm, Is
  <2>2. CallersMoveRight
    BY <2>1, ConfirmMovesRight
  <2>3. mode = "mock"
    BY <2>1 DEF UInv, Right
  <2>4. CASE UNCHANGED <<rollout, target>>
    BY <2>1, <2>2, <2>4, SameRows DEF RightStep
  <2>5. ASSUME NEW r \in Rollouts,
               RecordTargetResult(r, call[w].device, "success")
        PROVE  RightStep
    <3>1. call[w].device \in Devices
      BY <2>5 DEF RecordTargetResult, Waits, Pending
    <3> QED
      BY <2>1, <2>2, <2>3, <2>5, <3>1, RecordRows DEF RightStep
  <2> QED
    BY <1>2, <2>4, <2>5 DEF RecordConfirm
<1> QED
  BY <1>1, <1>2

LEMMA HearOfInstallRight ==
  ASSUME IInv, UInv, NEW w \in Callers, NEW r \in Rollouts, NEW d \in Devices,
         HearOfInstall(w, r, d)
  PROVE  RightStep
<1> DEFINE c == Installing("poll", "switch", r, d, rollout[r].firmware, None)
<1>1. /\ call' = [call EXCEPT ![w] = c]
      /\ UNCHANGED <<mode, device, rollout, target>>
  BY DEF HearOfInstall
<1>2. Fresh(w)'
  BY <1>1, InstallingIsFresh
<1>3. c.op = "poll" /\ c.at = "switch" /\ c.rollout = r
      /\ c.firmware = rollout[r].firmware
  BY DEF Installing
<1> HIDE DEF c
<1>4. call'[w] = c /\ \A v \in Callers : v # w => call'[v] = call[v]
  BY <1>1 DEF IInv, TypeOK
<1>5. PollKnows(w)'
  BY <1>1, <1>3, <1>4 DEF PollKnows
<1>6. Right(w)'
  BY <1>2, <1>3, <1>4, <1>5 DEF Right
<1> QED
  BY <1>1, <1>4, <1>6, SameRows DEF CallersMoveRight, RightStep

LEMMA SwitchFailsRight ==
  ASSUME IInv, UInv, Quiet, NEW w \in Callers, SwitchFails(w)
  PROVE  RightStep
<1>1. /\ call[w].op \in {"confirm", "poll", "loop"}
      /\ call' = [call EXCEPT ![w] = AfterSwitch(w, FALSE)]
      /\ UNCHANGED <<mode, device, rollout, target>>
  BY DEF SwitchFails
<1>2. call[w] \in Worker
  BY <1>1, KindOfCall DEF IInv, WorkerOps
<1>3. CASE call[w].op = "confirm"
  <2>1. CallersMoveRight
    BY <1>1, <1>3, ClosesRight DEF AfterSwitch, Close, IInv
  <2> QED
    BY <1>1, <2>1, SameRows DEF RightStep
<1>4. CASE call[w].op # "confirm"
  <2> DEFINE c == [call[w] EXCEPT !.at = "record", !.done = FALSE]
  <2>1. call' = [call EXCEPT ![w] = c]
    BY <1>1, <1>4 DEF AfterSwitch
  <2>2. /\ c.op = call[w].op /\ c.at = "record" /\ c.left = call[w].left
        /\ c.rollout = call[w].rollout /\ c.firmware = call[w].firmware
        /\ c.done = FALSE
    BY <1>2 DEF Worker
  <2> HIDE DEF c
  <2>3. call[w].op \in WorkerOps
    BY <1>1 DEF WorkerOps
  <2>4. CallersMoveRight
    BY <1>1, <1>4, <2>1, <2>2, <2>3, WorksOnRight
  <2> QED
    BY <1>1, <2>4, SameRows DEF RightStep
<1> QED
  BY <1>3, <1>4

LEMMA AfterRecordRight ==
  ASSUME IInv, UInv, Quiet, NEW w \in Callers, call[w].op \in {"poll", "loop"},
         call' = [call EXCEPT ![w] = AfterRecord(w)], device' = device,
         mode' = mode
  PROVE  CallersMoveRight
<1>1. CASE call[w].op = "poll"
  BY <1>1, ClosesRight DEF AfterRecord, Close, IInv
<1>2. CASE call[w].op = "loop"
  <2> DEFINE c == Served(w)
  <2>1. call[w] \in Worker
    BY <1>2, KindOfCall DEF IInv, WorkerOps
  <2>2. c.op = "loop" /\ c.left = call[w].left /\ c.at = "next"
    BY <1>2, <2>1, ServedIsWorker DEF Served, Worker
  <2>3. call' = [call EXCEPT ![w] = c]
    BY <1>2 DEF AfterRecord
  <2> HIDE DEF c
  <2> QED
    BY <1>2, <2>2, <2>3, WorksOnRight DEF WorkerOps
<1> QED
  BY <1>1, <1>2

LEMMA RecordInstallRight ==
  ASSUME IInv, OInv, UInv, Quiet, NEW w \in Callers,
         RecordInstall(w) \/ RecordIsLost(w)
  PROVE  RightStep
<1> DEFINE r == call[w].rollout
           d == call[w].device
<1>1. /\ call[w].op \in {"poll", "loop"} /\ call[w].at = "record"
      /\ call' = [call EXCEPT ![w] = AfterRecord(w)]
      /\ UNCHANGED <<mode, device>>
  BY DEF RecordInstall, RecordIsLost
<1>2. CallersMoveRight
  BY <1>1, AfterRecordRight
<1>3. CASE UNCHANGED <<rollout, target>>
  BY <1>1, <1>2, <1>3, SameRows DEF RightStep
<1>4. CASE RecordInstall(w) /\ Waits(r, d)
  <2>1. d \in Devices
    BY <1>4 DEF Waits, Pending
  <2>2. r \in Rollouts /\ ServesWell(w)
    BY <1>1, ServedRollout DEF Serving
  <2> PICK result : result = IF call[w].done THEN "success" ELSE "failed"
    OBVIOUS
  <2>3. RecordTargetResult(r, d, result)
    BY <1>4 DEF RecordInstall
  <2>4. ASSUME mode = "central", result = "success"
        PROVE  install[r][d].times # 0
    <3>1. call[w].op = "poll" /\ call[w].done
      BY <1>1, <2>2, <2>4 DEF ServesWell
    <3> QED
      BY <1>1, <2>1, <3>1 DEF UInv, Right, PollKnows
  <2>5. result \in {"success", "failed"}
    OBVIOUS
  <2> HIDE DEF r, d
  <2>6. NewRows /\ DevicesStay
    BY <1>1, <2>1, <2>2, <2>3, <2>4, <2>5, RecordRows
  <2> QED
    BY <1>2, <2>6 DEF RightStep
<1> QED
  BY <1>3, <1>4 DEF RecordInstall, RecordIsLost

\* a rollback that is begun in mode central knows what its first device ran
LEMMA ReadToRollBackRight ==
  ASSUME IInv, UInv, Quiet, NEW w \in Callers, NEW r \in Rollouts,
         NEW D \in SUBSET Devices, ReadToRollBack(w, r, D)
  PROVE  RightStep
<1>1. PICK e \in D : \E f \in Previous(e) :
        call' = [call EXCEPT ![w] =
          [op |-> "rollback", rollout |-> r, status |-> rollout[r].status,
           firmware |-> f, devices |-> D]]
  BY DEF ReadToRollBack
<1>2. PICK f \in Previous(e) :
        call' = [call EXCEPT ![w] =
          [op |-> "rollback", rollout |-> r, status |-> rollout[r].status,
           firmware |-> f, devices |-> D]]
  BY <1>1
<1> DEFINE c == [op |-> "rollback", rollout |-> r, status |-> rollout[r].status,
                 firmware |-> f, devices |-> D]
<1>3. /\ c.op = "rollback" /\ c.rollout = r /\ c.firmware = f /\ c.devices = D
      /\ call' = [call EXCEPT ![w] = c]
  BY <1>2
<1> HIDE DEF c
<1>4. call'[w] = c /\ \A v \in Callers : v # w => call'[v] = call[v]
  BY <1>3 DEF IInv, TypeOK
<1>5. /\ UNCHANGED <<mode, device, rollout, target>>
      /\ rollout[r].status # "none"
      /\ \A d \in D : target[r][d].status = "success"
      /\ install' = install
  BY DEF ReadToRollBack, Quiet
<1>6. \A d \in D : device[d].there
  BY <1>5 DEF UInv, TargetsExist
<1>7. ASSUME mode = "central" PROVE Restores(f, r, e)
  <2>1. e \in Devices /\ install[r][e].times # 0
    BY <1>5, <1>7 DEF UInv, SuccessIsWritten
  <2>2. ASSUME Untouched(r, e), install[r][e].before # None
        PROVE  install[r][e].before = f
    <3>1. Spare(e) = install[r][e].before
      BY <2>1, <2>2 DEF UInv, SpareIsBefore
    <3> QED
      BY <2>2, <3>1 DEF Previous
  <2> QED
    BY <2>1, <2>2 DEF Restores
<1>8. mode = "central" => Restores(f, r, e)'
  BY <1>5, <1>7 DEF Restores, Untouched
<1>9. RollingBackKnows(w)'
  BY <1>3, <1>4, <1>5, <1>6, <1>8 DEF RollingBackKnows
<1>10. Right(w)'
  BY <1>3, <1>4, <1>9 DEF Right, WorkerOps
<1> QED
  BY <1>4, <1>5, <1>10, SameRows DEF CallersMoveRight, RightStep

\* the rollback that is inserted knows it too
LEMMA RollBackRight ==
  ASSUME IInv, UInv, Quiet, NEW w \in Callers, NEW new \in Rollouts,
         RollBack(w, new)
  PROVE  RightStep
<1>1. /\ rollout[new].status = "none" /\ call[w].op = "rollback" /\ Close(w)
      /\ UNCHANGED <<mode, device>> /\ install' = install
  BY DEF RollBack, Quiet
<1>2. /\ call[w].rollout \in Rollouts /\ call[w].devices \subseteq Devices
      /\ RollingBackKnows(w)
  BY <1>1, KindOfCall DEF IInv, RollingBack, UInv, Right
<1>3. CallersMoveRight
  BY <1>1, ClosesRight DEF IInv
<1>4. /\ rollout'[new].firmware = call[w].firmware
      /\ rollout'[new].undoes = call[w].rollout
  BY DEF RollBack
<1>5. \A r \in Rollouts : r # new =>
        \/ rollout'[r] = rollout[r]
        \/ /\ r = call[w].rollout /\ rollout'[r].undoes = rollout[r].undoes
  BY RowTypes DEF RollBack, IInv, Rollout
<1>6. \A d \in Devices :
        target'[new][d].status = IF d \in call[w].devices THEN "pending" ELSE "none"
  <2>1. \A d \in Devices :
          target'[new][d] = [target[new][d] EXCEPT
             !.status = IF d \in call[w].devices THEN "pending" ELSE "none"]
    BY DEF RollBack
  <2> QED
    BY <2>1, RowTypes DEF IInv, Target
<1>7. ASSUME NEW r \in Rollouts, r # new, NEW d \in Devices
      PROVE  \/ target'[r][d] = target[r][d]
             \/ r = call[w].rollout /\ target'[r][d].status # "success"
             \/ r = call[w].rollout /\ target[r][d].status = "success"
  <2>1. CASE r = call[w].rollout /\ call[w].status \in Started
    <3>1. target'[r][d] = [target[r][d] EXCEPT
                             !.status = IF @ = "pending" THEN "failed" ELSE @]
      BY <1>7, <2>1 DEF RollBack
    <3>2. target[r][d] \in Target
      BY RowTypes DEF IInv
    <3> QED
      BY <2>1, <3>1, <3>2 DEF Target
  <2>2. CASE ~(r = call[w].rollout /\ call[w].status \in Started)
    BY <1>7, <2>2 DEF RollBack
  <2> QED
    BY <2>1, <2>2
<1>8. ASSUME mode = "central" PROVE RollbackKnows(new)'
  <2> PICK u : u = call[w].rollout
    OBVIOUS
  <2>1. PICK d \in call[w].devices : Restores(call[w].firmware, u, d)
    BY <1>2, <1>8 DEF RollingBackKnows
  <2>2. d \in Devices /\ target'[new][d].status # "none"
    BY <1>2, <1>6, <2>1
  <2>3. ASSUME Undoes(new, u, d)' PROVE Untouched(u, d)
    <3>1. install[u][d].times = 1 /\ ~install[u][d].mixed
      BY <1>1, <2>3 DEF Undoes
    <3>2. ASSUME NEW q \in Rollouts, rollout[q].undoes = u
          PROVE  install[q][d].times = 0
      <4>1. CASE q = new
        BY <1>1, <2>2, <4>1 DEF UInv, TargetsExist
      <4>2. CASE q # new
        BY <1>1, <1>5, <2>3, <3>2, <4>2 DEF Undoes
      <4> QED
        BY <4>1, <4>2
    <3> QED
      BY <3>1, <3>2 DEF Untouched
  <2>4. /\ install'[u][d].times # 0
        /\ Undoes(new, u, d)' /\ install'[u][d].before # None
             => install'[u][d].before = rollout'[new].firmware
    BY <1>1, <1>4, <2>1, <2>3 DEF Restores
  <2>5. \E e \in Devices :
          /\ target'[new][e].status # "none" /\ install'[u][e].times # 0
          /\ Undoes(new, u, e)' /\ install'[u][e].before # None
               => install'[u][e].before = rollout'[new].firmware
    BY <2>2, <2>4
  <2>6. u = rollout'[new].undoes
    BY <1>4
  <2> QED
    BY <2>5, <2>6 DEF RollbackKnows, Undoes
<1>9. NewRows
  <2>1. ASSUME NEW r \in Rollouts, rollout[r].status = "none", r # new
        PROVE  rollout'[r] = rollout[r] /\ \A d \in Devices : target'[r][d] = target[r][d]
    <3>1. r # call[w].rollout
      BY <1>2, <2>1 DEF RollingBackKnows
    <3> QED
      BY <1>5, <1>7, <2>1, <3>1
  <2>2. \A d \in Devices : target'[new][d].status # "none" => device[d].there
    BY <1>2, <1>6 DEF RollingBackKnows
  <2>3. \A r \in Rollouts, d \in Devices :
          target'[r][d].status = "success" => target[r][d].status = "success"
    BY <1>6, <1>7
  <2> QED
    BY <1>1, <1>8, <2>1, <2>2, <2>3 DEF NewRows, UInv, TargetsExist
<1>10. DevicesStay
  BY <1>1 DEF DevicesStay
<1> QED
  BY <1>3, <1>9, <1>10 DEF RightStep

\* a target that is switched back is not of mode central
LEMMA WriteBackTargetRight ==
  ASSUME IInv, OInv, UInv, Quiet, NEW w \in Callers, WriteBackTarget(w)
  PROVE  RightStep
<1>1. /\ call[w].op = "back" /\ ServesWell(w) /\ call[w] \in Worker
      /\ call[w].rollout \in Rollouts /\ mode = "mock"
      /\ rollout[call[w].rollout].status # "none"
  BY ServedRollout DEF WriteBackTarget, Is, Serving, ServesWell
<1>2. PICK d \in DOMAIN call[w].left :
        /\ target' = [target EXCEPT ![call[w].rollout][d].status =
                        IF call[w].left[d].held THEN "success" ELSE "failed"]
        /\ call' = [call EXCEPT ![w] =
             IF call[w].left[d].held THEN Serve(w, d, "flip")
             ELSE [Served(w) EXCEPT
                     !.left = [e \in DOMAIN @ \ {d} |-> @[e]]]]
  BY DEF WriteBackTarget
<1>3. UNCHANGED <<mode, device, rollout>>
  BY DEF WriteBackTarget
<1> DEFINE left == [e \in DOMAIN call[w].left \ {d} |-> call[w].left[e]]
           rest == [Served(w) EXCEPT !.left = left]
           s == Serve(w, d, "flip")
<1>4. call' = [call EXCEPT ![w] = s] \/ call' = [call EXCEPT ![w] = rest]
  BY <1>1, <1>2, ServedIsWorker
<1>5. /\ s.op = "back" /\ s.left = left
      /\ s.device = d /\ s.seen = call[w].left[d].active
  BY <1>1 DEF Serve, Worker
<1>6. rest.op = "back" /\ rest.at = "next" /\ rest.left = left
  <2>1. Served(w) \in Worker /\ Served(w).op = "back"
    BY <1>1, ServedIsWorker
  <2>2. Served(w).at = "next"
    BY <1>1 DEF Served, Worker
  <2> QED
    BY <2>1, <2>2 DEF Worker
<1>7. \A e \in DOMAIN left : e \in DOMAIN call[w].left /\ left[e] = call[w].left[e]
  OBVIOUS
<1> HIDE DEF s, rest, left
<1>8. CallersMoveRight
  BY <1>1, <1>3, <1>4, <1>5, <1>6, <1>7, WorksOnRight DEF WorkerOps
<1>9. \A r \in Rollouts : r # call[w].rollout => target'[r] = target[r]
  BY <1>2 DEF IInv, TypeOK
<1> QED
  BY <1>1, <1>3, <1>8, <1>9, OldRows DEF RightStep

LEMMA RemovalRight ==
  ASSUME IInv, UInv, NEW w \in Callers,
         \/ \E f \in Firmware : LockForDelete(w, f)
         \/ MarkDeleted(w) \/ DeleteObject(w) \/ DeleteObjectFails(w)
         \/ RefuseRollback(w)
  PROVE  RightStep
<1>1. UNCHANGED <<device, rollout, target>>
  BY DEF LockForDelete, MarkDeleted, DeleteObject, DeleteObjectFails,
     RefuseRollback
<1>2. CASE \E f \in Firmware : LockForDelete(w, f)
  <2>1. PICK f \in Firmware : call' = [call EXCEPT ![w] =
          [op |-> "remove", at |-> "locked", firmware |-> f]]
    BY <1>2 DEF LockForDelete
  <2> DEFINE c == [op |-> "remove", at |-> "locked", firmware |-> f]
  <2>2. c.op = "remove" /\ call' = [call EXCEPT ![w] = c]
    BY <2>1
  <2> HIDE DEF c
  <2>3. CallersMoveRight
    BY <2>2, NothingToKnow DEF WorkerOps, IInv
  <2> QED
    BY <1>1, <2>3, SameRows DEF RightStep
<1>3. CASE MarkDeleted(w)
  <2> DEFINE c == [call[w] EXCEPT !.at = "storage"]
  <2>1. call[w] \in Removal /\ call[w].op = "remove"
    BY <1>3, KindOfCall DEF MarkDeleted, Is, IInv
  <2>2. c.op = "remove" /\ call' = [call EXCEPT ![w] = c]
    BY <1>3, <2>1 DEF MarkDeleted, Removal
  <2> HIDE DEF c
  <2>3. CallersMoveRight
    BY <2>2, NothingToKnow DEF WorkerOps, IInv
  <2> QED
    BY <1>1, <2>3, SameRows DEF RightStep
<1>4. CASE Close(w)
  BY <1>1, <1>4, ClosesRight, SameRows DEF RightStep, IInv
<1> QED
  BY <1>2, <1>3, <1>4 DEF DeleteObject, DeleteObjectFails, RefuseRollback

LEMMA NextRight ==
  ASSUME IInv, OInv, UInv, Quiet, Next, ~Restart,
         ~\E w \in Callers : Writes(w)
  PROVE  RightStep
<1>1. CASE Comes
  <2>1. ASSUME NEW r \in Rollouts, NEW w \in Callers, Release(r, w) \/ Resume(r, w)
        PROVE  RightStep
    BY <2>1, ActivateRight DEF Release, Resume
  <2> QED
    BY <1>1, <2>1, RegisterRight, CreateRight, RejectRight, OverrideRight,
       CommandRight DEF Comes
<1>2. ASSUME NEW w \in Callers, Works(w)
      PROVE  RightStep
  <2>1. CASE \/ ReadTargets(w) \/ ServeNext(w) \/ EndLoop(w)
             \/ \E d \in Devices, f \in Firmware : ReadConfirm(w, d, f)
             \/ ConsumeOverride(w) \/ RecordConfirm(w)
             \/ \E r \in Rollouts, d \in Devices : HearOfInstall(w, r, d)
    BY <2>1, ReadTargetsRight, ServeNextRight, EndRight, ReadConfirmRight,
       ConfirmRight, HearOfInstallRight
  <2>2. CASE \/ SwitchFails(w) \/ RecordInstall(w) \/ RecordIsLost(w)
             \/ \E r \in Rollouts, D \in SUBSET Devices : ReadToRollBack(w, r, D)
             \/ \E r \in Rollouts : RollBack(w, r)
    BY <2>2, SwitchFailsRight, RecordInstallRight, ReadToRollBackRight,
       RollBackRight
  <2>3. CASE \/ WriteBackTarget(w) \/ EndBack(w) \/ RefuseRollback(w)
             \/ \E f \in Firmware : LockForDelete(w, f)
             \/ MarkDeleted(w) \/ DeleteObject(w) \/ DeleteObjectFails(w)
    BY <2>3, WriteBackTargetRight, EndRight, RemovalRight
  <2>4. CASE SwitchPartition(w) \/ FlipPartition(w)
    BY <2>4 DEF Writes
  <2> QED
    BY <1>2, <2>1, <2>2, <2>3, <2>4 DEF Works
<1> QED
  BY <1>1, <1>2 DEF Next

LEMMA RestartRight ==
  ASSUME IInv, OInv, UInv, Quiet, Restart
  PROVE  UInv'
<1>1. /\ UNCHANGED <<mode, device, rollout, target>>
      /\ losses' = 0 => losses = 0
      /\ \A v \in Callers : call'[v] = Idle
  BY DEF Restart, MayLose, IInv, TypeOK
<1>2. CallersMoveRight
  BY <1>1, KindsOfCalls DEF CallersMoveRight, Right, WorkerOps
<1> QED
  BY <1>1, <1>2, RowsStay, SameRows, QuietRight

-----------------------------------------------------------------------------
(* Steps that write a device *)

\* what a write does to the device, and to no other
LEMMA DeviceWritten ==
  ASSUME IInv, NEW w \in Callers, Writes(w), call[w] \in Worker
  PROVE  /\ \A d \in Devices : /\ d # call[w].device => device'[d] = device[d]
                               /\ device'[d].there = device[d].there
         /\ \A d \in Devices : d = call[w].device =>
              /\ device'[d].active = Other(call[w].seen)
              /\ device'[d].slot[call[w].seen] = device[d].slot[call[w].seen]
              /\ device'[d].slot[Other(call[w].seen)] =
                   IF call[w].op = "back" THEN device[d].slot[Other(call[w].seen)]
                   ELSE call[w].firmware
<1>1. ASSUME NEW d \in Devices, d # call[w].device
      PROVE  device'[d] = device[d]
  <2>1. CASE SwitchPartition(w)
    BY <1>1, <2>1 DEF SwitchPartition, IInv, TypeOK
  <2>2. CASE FlipPartition(w)
    BY <1>1, <2>2 DEF FlipPartition, IInv, TypeOK
  <2> QED
    BY <2>1, <2>2 DEF Writes
<1>2. ASSUME NEW d \in Devices, d = call[w].device
      PROVE  /\ device'[d].there = device[d].there
             /\ device'[d].active = Other(call[w].seen)
             /\ device'[d].slot[call[w].seen] = device[d].slot[call[w].seen]
             /\ device'[d].slot[Other(call[w].seen)] =
                  IF call[w].op = "back" THEN device[d].slot[Other(call[w].seen)]
                  ELSE call[w].firmware
  <2>1. device[d] \in Device
    BY RowTypes DEF IInv
  <2> PICK o : o = Other(call[w].seen)
    OBVIOUS
  <2>2. /\ call[w].seen \in Slots /\ o \in Slots /\ o # call[w].seen
        /\ call[w].firmware \in Firmware
    BY DEF Worker, Other, Slots
  <2>3. CASE SwitchPartition(w)
    <3> DEFINE s == [device[d].slot EXCEPT ![o] = call[w].firmware]
               row == [device[d] EXCEPT !.active = o, !.slot = s]
    <3>1. device' = [device EXCEPT ![d] = row]
      BY <1>2, <2>3 DEF SwitchPartition
    <3>2. s[o] = call[w].firmware /\ s[call[w].seen] = device[d].slot[call[w].seen]
      BY <2>1, <2>2 DEF Device
    <3> HIDE DEF s
    <3>3. row.there = device[d].there /\ row.active = o /\ row.slot = s
      BY <2>1 DEF Device
    <3> HIDE DEF row
    <3>4. device'[d] = row
      BY <3>1 DEF IInv, TypeOK
    <3>5. call[w].op # "back"
      BY <2>3 DEF SwitchPartition
    <3> QED
      BY <3>2, <3>3, <3>4, <3>5
  <2>4. CASE FlipPartition(w)
    <3> DEFINE row == [device[d] EXCEPT !.active = o]
    <3>1. device' = [device EXCEPT ![d] = row]
      BY <1>2, <2>4 DEF FlipPartition
    <3>2. /\ row.there = device[d].there /\ row.active = o
          /\ row.slot = device[d].slot
      BY <2>1 DEF Device
    <3> HIDE DEF row
    <3>3. device'[d] = row /\ call[w].op = "back"
      BY <2>4, <3>1 DEF FlipPartition, Is, IInv, TypeOK
    <3> QED
      BY <3>2, <3>3
  <2> QED
    BY <2>3, <2>4 DEF Writes
<1> QED
  BY <1>1, <1>2

LEMMA HistoryIsKept ==
  ASSUME IInv, HistoryTypeOK, NEW w \in Callers, call[w] \in Worker,
         install' = Written(w)
  PROVE  HistoryGrows
<1> SUFFICES ASSUME NEW r \in Rollouts, NEW d \in Devices,
                    install[r][d].times # 0
             PROVE  /\ install'[r][d].times # 0
                    /\ install'[r][d].before = install[r][d].before
                    /\ install'[r][d].times = 1 => install[r][d].times = 1
                    /\ install[r][d].mixed => install'[r][d].mixed
  BY DEF HistoryGrows
<1>1. BecomesWritten(w, r, d, install[r][d], install'[r][d])
  BY WrittenIs DEF IInv
<1>2. CASE d # call[w].device
  BY <1>1, <1>2 DEF BecomesWritten
<1>3. CASE d = call[w].device /\ r # call[w].rollout
  <2>1. install'[r][d].times = install[r][d].times
        /\ install'[r][d].before = install[r][d].before
    BY <1>1, <1>3 DEF BecomesWritten
  <2>2. install[r][d].mixed => install'[r][d].mixed
    BY <1>1, <1>3, Zenon DEF BecomesWritten
  <2> QED
    BY <2>1, <2>2
<1>4. CASE d = call[w].device /\ r = call[w].rollout
  BY <1>1, <1>4 DEF BecomesWritten
<1> QED
  BY <1>2, <1>3, <1>4

\* who writes for a rollout serves it
LEMMA WriterServes ==
  ASSUME IInv, OInv, NEW w \in Callers, Writes(w), call[w].rollout \in Rollouts
  PROVE  /\ call[w].op \in Serving /\ ServesWell(w)
         /\ call[w].device \in Devices \ DOMAIN call[w].left
         /\ target[call[w].rollout][call[w].device].status # "none"
<1>1. call[w] \in Worker /\ call[w].at \in {"switch", "flip"}
  BY WriterMoves
<1>2. call[w].op \in Serving
  BY <1>1, NoneAssumption DEF Worker, Serving, OInv, CallersServeWell
<1> QED
  BY <1>1, <1>2 DEF OInv, CallersServeWell, ServesWell

LEMMA OtherOfOther ==
  \A s \in Slots : Other(Other(s)) = s /\ Other(s) # s
BY DEF Slots, Other

\* what an untouched device holds in its other partition after the write
LEMMA WriteSpares ==
  ASSUME IInv, HistoryTypeOK, OInv, UInv, NEW w \in Callers, Writes(w),
         install' = Written(w),
         NEW u \in Rollouts, NEW d \in Devices, Untouched(u, d)'
  PROVE  Spare(d)' = install'[u][d].before
<1>1. /\ call[w] \in Worker /\ call[w].at \in {"switch", "flip"}
      /\ rollout' = rollout
  BY WriterMoves
<1>2. \A r \in Rollouts, e \in Devices :
        BecomesWritten(w, r, e, install[r][e], install'[r][e])
  BY <1>1, WrittenIs DEF IInv
<1>3. CASE d # call[w].device
  <2>1. \A r \in Rollouts : install'[r][d] = install[r][d]
    BY <1>2, <1>3 DEF BecomesWritten
  <2>2. Untouched(u, d)
    BY <1>1, <2>1 DEF Untouched
  <2>3. device'[d] = device[d]
    BY <1>1, <1>3, DeviceWritten
  <2> QED
    BY <2>1, <2>2, <2>3 DEF UInv, SpareIsBefore, Spare
<1>4. CASE d = call[w].device /\ u # call[w].rollout
  <2> PICK r : r = call[w].rollout
    OBVIOUS
  <2>1. BecomesWritten(w, u, d, install[u][d], install'[u][d])
    BY <1>2
  <2>2. ~install'[u][d].mixed
    BY DEF Untouched
  <2>3. r # None /\ rollout[r].undoes = u
    BY <1>4, <2>1, <2>2, Zenon DEF BecomesWritten
  <2>4. r \in Rollouts
    BY <1>1, <2>3 DEF Worker
  <2>5. install'[r][d].times = 0
    BY <1>1, <2>3, <2>4 DEF Untouched
  <2>6. BecomesWritten(w, r, d, install[r][d], install'[r][d])
    BY <1>2, <2>4
  <2> QED
    BY <1>4, <2>5, <2>6 DEF BecomesWritten
<1>5. CASE d = call[w].device /\ u = call[w].rollout
  <2>1. BecomesWritten(w, u, d, install[u][d], install'[u][d])
    BY <1>2
  <2>2. install'[u][d].times = 1 /\ ~install'[u][d].mixed
    BY DEF Untouched
  <2>3. install[u][d].times = 0
    BY <1>5, <2>1, <2>2 DEF BecomesWritten
  <2>4. install'[u][d].before = Runs(d)
    BY <1>5, <2>1, <2>3 DEF BecomesWritten
  <2>5. <<w, d>> \notin stale
    <3>1. install'[u][d].mixed <=> <<w, d>> \in stale
      BY <1>5, <2>1, <2>3 DEF BecomesWritten
    <3> QED
      BY <2>2, <3>1, Zenon
  <2>6. Fresh(w)
    BY <1>1, <1>5, WriterServes DEF UInv, Right, WorkerOps, Serving
  <2>7. call[w].seen = device[d].active /\ call[w].seen \in Slots
    BY <1>1, <1>5, <2>5, <2>6 DEF Fresh, Worker
  <2>8. /\ device'[d].active = Other(call[w].seen)
        /\ device'[d].slot[call[w].seen] = device[d].slot[call[w].seen]
    BY <1>1, <1>5, DeviceWritten
  <2>9. Spare(d)' = device'[d].slot[call[w].seen]
    BY <2>7, <2>8, OtherOfOther DEF Spare
  <2> QED
    BY <2>4, <2>7, <2>8, <2>9 DEF Runs
<1> QED
  BY <1>3, <1>4, <1>5

LEMMA WriterIsRight ==
  ASSUME IInv, HistoryTypeOK, OInv, UInv, NEW w \in Callers, Writes(w),
         install' = Written(w),
         \A d \in Devices : <<w, d>> \notin stale' =>
           d = call[w].device \/ <<w, d>> \notin stale
  PROVE  Right(w)'
<1>1. /\ call[w] \in Worker /\ call[w].at \in {"switch", "flip"}
      /\ rollout' = rollout
  BY WriterMoves
<1>2. CASE call'[w] = Idle
  BY <1>2, KindsOfCalls DEF Right, WorkerOps
<1>3. CASE call'[w] # Idle
  <2>1. /\ call[w].op \in Serving /\ call'[w].op = call[w].op
        /\ call'[w].at \in {"record", "next"}
        /\ call'[w].left = call[w].left /\ call'[w].rollout = call[w].rollout
    BY <1>3, WriterMoves DEF Serving
  <2>2. ServesWell(w)
    BY <2>1 DEF OInv, CallersServeWell
  <2>3. call[w].device \notin DOMAIN call[w].left
    BY <1>1, <2>2 DEF ServesWell
  <2>4. Fresh(w)
    BY <2>1 DEF UInv, Right, WorkerOps, Serving
  <2>5. Fresh(w)'
    <3> SUFFICES ASSUME NEW d \in Devices, <<w, d>> \notin stale',
                        d \in DOMAIN call[w].left
                 PROVE  call[w].left[d].active = device'[d].active
      BY <2>1 DEF Fresh, Serving
    <3>1. <<w, d>> \notin stale /\ d # call[w].device
      BY <2>3
    <3>2. device'[d] = device[d]
      BY <1>1, <3>1, DeviceWritten
    <3> QED
      BY <2>4, <3>1, <3>2 DEF Fresh
  <2>6. ASSUME call[w].op = "poll" PROVE PollKnows(w)'
    <3>1. /\ call'[w].firmware = call[w].firmware
          /\ call'[w].device = call[w].device
      BY <1>3, <2>6, WriterMoves
    <3>2. PollKnows(w)
      BY <2>6 DEF UInv, Right
    <3>3. ASSUME call[w].device \in Devices
          PROVE  install'[call[w].rollout][call[w].device].times # 0
      <4> PICK r, d : r = call[w].rollout /\ d = call[w].device
        OBVIOUS
      <4>1. r \in Rollouts
        BY <2>2 DEF ServesWell
      <4>2. BecomesWritten(w, r, d, install[r][d], install'[r][d])
        BY <1>1, <3>3, <4>1, WrittenIs DEF IInv
      <4> QED
        BY <4>2 DEF BecomesWritten
    <3> QED
      BY <1>1, <2>1, <3>1, <3>2, <3>3 DEF PollKnows
  <2> QED
    BY <2>1, <2>5, <2>6 DEF Right, Serving
<1> QED
  BY <1>2, <1>3

LEMMA WriteRight ==
  ASSUME IInv, HistoryTypeOK, OInv, UInv, NEW w \in Callers, Writes(w),
         install' = Written(w),
         stale' = (stale \cup {<<v, call[w].device>> :
                                 v \in {x \in Callers : At(x, call[w].device)}})
                    \ {<<w, call[w].device>>}
  PROVE  UInv'
<1>1. /\ call[w] \in Worker
      /\ UNCHANGED <<mode, rollout, target, losses>>
      /\ \A v \in Callers : v # w => call'[v] = call[v]
  BY WriterMoves
<1>2. RowsMove
  BY <1>1, RowsStay
<1>3. HistoryGrows
  BY <1>1, HistoryIsKept
<1>4. NewRows
  <2>1. \A d \in Devices : device'[d].there = device[d].there
    BY <1>1, DeviceWritten
  <2> QED
    BY <1>1, <2>1 DEF NewRows, UInv, TargetsExist
<1>5. Right(w)'
  BY WriterIsRight
<1>6. Overtaken
  <2> SUFFICES ASSUME NEW v \in Callers, NEW d \in Devices,
                      call'[v] = call[v], At(v, d), <<v, d>> \notin stale'
               PROVE  <<v, d>> \notin stale /\ device'[d].active = device[d].active
    BY DEF Overtaken
  <2>1. v # w
    BY WriterMoves, KindsOfCalls
  <2>2. d # call[w].device
    BY <2>1
  <2>3. device'[d] = device[d]
    BY <1>1, <2>2, DeviceWritten
  <2> QED
    BY <2>2, <2>3
<1>7. \A v \in Callers : Right(v)'
  BY <1>1, <1>2, <1>3, <1>4, <1>5, <1>6, StayRight
<1>8. ASSUME NEW r \in Rollouts, NEW d \in Devices, install'[r][d].times # 0
      PROVE  rollout'[r].status # "none" /\ device'[d].there
  <2>1. device'[d].there = device[d].there
    BY <1>1, DeviceWritten
  <2>2. CASE install[r][d].times # 0
    BY <1>1, <2>1, <2>2 DEF UInv, TargetsExist
  <2>3. CASE install[r][d].times = 0
    <3>1. BecomesWritten(w, r, d, install[r][d], install'[r][d])
      BY <1>1, WrittenIs DEF IInv
    <3>2. d = call[w].device /\ r = call[w].rollout
      BY <1>8, <2>3, <3>1 DEF BecomesWritten
    <3>3. ServesWell(w) /\ target[r][d].status # "none"
      BY <3>2, WriterServes
    <3> QED
      BY <1>1, <2>1, <3>2, <3>3 DEF ServesWell, UInv, TargetsExist
  <2> QED
    BY <2>2, <2>3
<1>9. TargetsExist' /\ SuccessIsWritten' /\ RollbacksKnow'
  BY <1>2, <1>3, <1>4, <1>8, RowsStayRight DEF TargetsExist
<1>10. SpareIsBefore'
  BY WriteSpares DEF SpareIsBefore
<1> QED
  BY <1>7, <1>9, <1>10 DEF UInv

-----------------------------------------------------------------------------
(* Every step *)

LEMMA RightAlways ==
  ASSUME IInv, HistoryTypeOK, OInv, UInv, Next, Remember
  PROVE  UInv'
<1>1. CASE \E w \in Callers : Writes(w)
  <2> PICK w : w = CHOOSE v \in Callers : Writes(v)
    OBVIOUS
  <2>1. w \in Callers /\ Writes(w)
    BY <1>1
  <2>2. /\ install' = Written(w)
        /\ stale' = (stale \cup {<<v, call[w].device>> :
                                   v \in {x \in Callers : At(x, call[w].device)}})
                      \ {<<w, call[w].device>>}
    BY <1>1 DEF Remember
  <2> QED
    BY <2>1, <2>2, WriteRight
<1>2. CASE ~\E w \in Callers : Writes(w)
  <2>1. Quiet
    BY <1>2 DEF Remember, Quiet
  <2>2. CASE Restart
    BY <2>1, <2>2, RestartRight
  <2>3. CASE ~Restart
    <3>1. RowsMove
      BY <1>2, <2>3, NextSteps DEF StepsWell
    <3>2. RightStep
      BY <1>2, <2>1, <2>3, NextRight
    <3> QED
      BY <2>1, <3>1, <3>2, QuietRight DEF RightStep
  <2> QED
    BY <2>2, <2>3
<1> QED
  BY <1>1, <1>2

LEMMA UndoInv == RememberedSpec => [](IInv /\ HistoryTypeOK /\ OInv /\ UInv)
<1> DEFINE J == IInv /\ HistoryTypeOK /\ OInv
<1>1. Init /\ HistoryInit => UInv
  <2> SUFFICES ASSUME Init, HistoryInit PROVE UInv
    OBVIOUS
  <2>1. \A r \in Rollouts, d \in Devices :
          /\ rollout[r].status = "none" /\ target[r][d].status = "none"
          /\ install[r][d].times = 0
    BY DEF Init, HistoryInit
  <2>2. \A w \in Callers : call[w] = Idle
    BY DEF Init
  <2>3. \A w \in Callers : Right(w)
    BY <2>2, KindsOfCalls DEF Right, WorkerOps
  <2>4. TargetsExist /\ SpareIsBefore
    BY <2>1 DEF TargetsExist, SpareIsBefore, Untouched
  <2>5. SuccessIsWritten
    BY <2>1 DEF SuccessIsWritten
  <2>6. RollbacksKnow
    <3> SUFFICES ASSUME NEW r \in Rollouts, rollout[r].status # "none"
                 PROVE  FALSE
      BY DEF RollbacksKnow
    <3> QED
      BY DEF Init
  <2> QED
    BY <2>3, <2>4, <2>5, <2>6 DEF UInv
<1>2. J /\ UInv /\ [Next /\ Remember]_<<vars, history>> => UInv'
  <2>1. CASE Next /\ Remember
    BY <2>1, RightAlways
  <2>2. CASE UNCHANGED <<vars, history>>
    <3>1. UNCHANGED <<mode, device, rollout, target, call, install, stale>>
      BY <2>2 DEF vars, history
    <3>2. ASSUME UInv, NEW w \in Callers PROVE Right(w)'
      BY <3>1, <3>2 DEF UInv, Right, Fresh, PollKnows, RollingBackKnows,
         Restores, Untouched
    <3>3. UInv => TargetsExist' /\ SuccessIsWritten'
      BY <3>1 DEF UInv, TargetsExist, SuccessIsWritten
    <3>4. UInv => SpareIsBefore'
      BY <3>1 DEF UInv, SpareIsBefore, Untouched, Spare
    <3>5. UInv => RollbacksKnow'
      BY <3>1 DEF UInv, RollbacksKnow, RollbackKnows, Undoes
    <3> QED
      BY <3>2, <3>3, <3>4, <3>5 DEF UInv
  <2> QED
    BY <2>1, <2>2
<1> QED
  BY <1>1, <1>2, RememberedInv, PTL DEF RememberedSpec

Restored(r, d) ==
  LET u == rollout[r].undoes
      D == {e \in Devices : target[r][e].status # "none"}
  IN
  /\ install[r][d].times = 0 /\ install'[r][d].times = 1
  /\ ~install'[r][d].mixed
  /\ u # None /\ install[u][d].before # None
  /\ \A e \in D : /\ Undoes(r, u, e)
                  /\ install[u][e].before = install[u][d].before
  => Runs(d)' = install[u][d].before

\* the first write of a rollback
LEMMA RestoresStep ==
  ASSUME IInv, HistoryTypeOK, OInv, UInv, Next, Remember,
         NEW r \in Rollouts, NEW d \in Devices
  PROVE  Restored(r, d)
<1> PICK u : u = rollout[r].undoes
  OBVIOUS
<1> SUFFICES ASSUME install[r][d].times = 0, install'[r][d].times = 1,
                    ~install'[r][d].mixed, u # None, install[u][d].before # None,
                    \A e \in Devices : target[r][e].status # "none" =>
                      /\ Undoes(r, u, e)
                      /\ install[u][e].before = install[u][d].before
             PROVE  Runs(d)' = install[u][d].before
  BY DEF Restored, Undoes
<1>1. \E w \in Callers : Writes(w)
  BY DEF Remember
<1> PICK w : w = CHOOSE v \in Callers : Writes(v)
  OBVIOUS
<1>2. w \in Callers /\ Writes(w) /\ install' = Written(w)
  BY <1>1 DEF Remember
<1>3. call[w] \in Worker /\ call[w].at \in {"switch", "flip"}
  BY <1>2, WriterMoves
<1>4. BecomesWritten(w, r, d, install[r][d], install'[r][d])
  BY <1>2, <1>3, WrittenIs DEF IInv
<1>5. d = call[w].device /\ r = call[w].rollout
  BY <1>4 DEF BecomesWritten
<1>6. <<w, d>> \notin stale
  <2>1. install'[r][d].mixed <=> <<w, d>> \in stale
    BY <1>4, <1>5 DEF BecomesWritten
  <2> QED
    BY <2>1, Zenon
<1>7. /\ call[w].op \in Serving /\ ServesWell(w)
      /\ target[r][d].status # "none" /\ rollout[r].status # "none"
  BY <1>2, <1>5, WriterServes DEF ServesWell
<1>8. u \in Rollouts
  BY RowTypes DEF IInv, Rollout
<1>9. Undoes(r, u, d)
  BY <1>7
<1>10. Fresh(w) /\ (call[w].op = "poll" => PollKnows(w))
  BY <1>2, <1>7 DEF UInv, Right, Serving, WorkerOps
<1>11. device'[d].active = Other(call[w].seen)
       /\ device'[d].slot[Other(call[w].seen)] =
             IF call[w].op = "back" THEN device[d].slot[Other(call[w].seen)]
             ELSE call[w].firmware
  BY <1>2, <1>3, <1>5, DeviceWritten
<1>12. CASE mode = "central"
  <2>1. call[w].op = "poll"
    BY <1>7, <1>12 DEF ServesWell
  <2>2. call[w].firmware = rollout[r].firmware
    BY <1>5, <1>10, <2>1 DEF PollKnows
  <2>3. RollbackKnows(r)
    BY <1>7, <1>12 DEF UInv, RollbacksKnow
  <2>4. install[u][d].before = rollout[r].firmware
    BY <2>3 DEF RollbackKnows
  <2> QED
    BY <1>11, <2>1, <2>2, <2>4 DEF Runs
<1>13. CASE mode # "central"
  <2>1. mode = "mock" /\ call[w].op = "back"
    BY <1>5, <1>7, <1>13 DEF ServesWell, Serving, IInv, TypeOK
  <2>2. Untouched(u, d)
    BY <1>9 DEF Undoes, Untouched
  <2>3. Spare(d) = install[u][d].before
    BY <1>8, <2>2 DEF UInv, SpareIsBefore
  <2>4. call[w].seen = device[d].active
    BY <1>3, <1>5, <1>6, <1>10 DEF Fresh
  <2> QED
    BY <1>11, <2>1, <2>3, <2>4 DEF Runs, Spare
<1> QED
  BY <1>12, <1>13

\* A rollback brings a device back to what it ran before the rollout it undoes,
\* however polls, loops, confirmations and other rollbacks interleave, if nothing
\* but that rollout has written the devices of the rollback and they all ran the
\* same (rollback() asks one of them which firmware is to come back).
THEOREM RollbacksRestore == RememberedSpec => RollbackRestores
<1>1. ASSUME IInv, HistoryTypeOK, OInv, UInv,
             [Next /\ Remember]_<<vars, history>>
      PROVE  [\A r \in Rollouts, d \in Devices : Restored(r, d)]_<<vars, history>>
  BY <1>1, RestoresStep
<1> QED
  BY <1>1, UndoInv, PTL DEF RememberedSpec, RollbackRestores, Restored

=============================================================================
