----------------------- MODULE CampaignRolloutsProofs -----------------------
(* Proofs about CampaignRollouts, for any devices, users and requests.     *)
EXTENDS CampaignRollouts, TLAPS

-----------------------------------------------------------------------------
(* The inductive invariant *)

EditPcs == {"checkAdd", "checkRemove", "checkDelete", "add", "remove", "delete"}
SharePcs == {"insert", "cancel"}
Ran == {"active", "paused"} \cup Closed

\* the campaign's row lock excludes what it must
LocksExclude ==
  \A r, s \in Requests :
    r # s /\ request[r].pc \in EditPcs => request[s].pc \notin EditPcs \cup SharePcs

\* who reached the devices was approved, by somebody else or a SuperAdmin
Approved(row) ==
  row.approver # NoUser /\ (row.approver = row.creator => row.approver \in SuperAdmins)

RowsApproved ==
  \A i \in DOMAIN rollouts :
    rollouts[i].status \in {"approved"} \cup Ran => Approved(rollouts[i])

GoneIsEmpty == ~campaign.exists => rollouts = <<>>

\* what a create() has read is still good enough to insert on
SnapshotOK(q) ==
  q.pc \in {"share", "insert"} =>
    /\ q.user \in Users
    /\ q.version <= campaign.version
    /\ q.version = campaign.version /\ campaign.exists => q.members = campaign.members
    /\ campaign.exists => q.seen <= Len(rollouts)
    /\ campaign.exists /\ ~q.open =>
         \A i \in DOMAIN rollouts : i <= q.seen => rollouts[i].status \notin Open

\* what the holder of the lock knows
HolderOK(q) ==
  /\ q.pc = "insert" => campaign.exists /\ q.version = campaign.version
  /\ q.pc = "cancel" => campaign.exists
  /\ q.pc \in {"add", "remove", "delete"} => \A i \in DOMAIN rollouts : rollouts[i].status \notin Open

\* what a request knows of the rollout it is about
AboutOK(q) ==
  /\ campaign.exists => q.rollout <= Len(rollouts)
  /\ q.pc \in {"affected", "shareRollback", "cancel"} => q.user \in Users
  /\ q.rollout \in DOMAIN rollouts =>
       /\ q.pc \in {"affected", "shareRollback", "cancel"} /\ q.status = "completed" =>
            rollouts[q.rollout].status \in Closed
       /\ q.pc = "switching" => rollouts[q.rollout].status \in Ran
       /\ q.pc = "approve" =>
            q.user \in Users /\ (q.user = rollouts[q.rollout].creator => q.user \in SuperAdmins)

ReadsOK == \A r \in Requests : SnapshotOK(request[r]) /\ HolderOK(request[r]) /\ AboutOK(request[r])

IInv ==
  /\ TypeOK
  /\ LocksExclude
  /\ GoneIsEmpty
  /\ RowsApproved
  /\ RolledBackIsClosed
  /\ OneCreatedAtATime
  /\ TargetsAreMembers
  /\ ReadsOK

LEMMA IdleIsFine ==
  ASSUME campaign.exists => rollouts \in Seq(Rollout)
  PROVE  /\ IdleRequest \in Request
         /\ IdleRequest.pc = "idle" /\ IdleRequest.rollout = 0
         /\ SnapshotOK(IdleRequest) /\ HolderOK(IdleRequest)
         /\ campaign.exists => AboutOK(IdleRequest)
         /\ rollouts = <<>> => AboutOK(IdleRequest)
<1>1. /\ IdleRequest \in Request
      /\ IdleRequest.pc = "idle" /\ IdleRequest.rollout = 0
  BY DEF IdleRequest, Request
<1>2. SnapshotOK(IdleRequest) /\ HolderOK(IdleRequest)
  BY <1>1 DEF SnapshotOK, HolderOK
<1>3. campaign.exists => AboutOK(IdleRequest)
  BY <1>1 DEF AboutOK
<1>4. rollouts = <<>> => AboutOK(IdleRequest)
  BY <1>1 DEF AboutOK
<1> QED
  BY <1>1, <1>2, <1>3, <1>4

LEMMA InitInv == Init => IInv
<1> SUFFICES ASSUME Init PROVE IInv
  OBVIOUS
<1>1. /\ rollouts = <<>> /\ rollouts \in Seq(Rollout) /\ DOMAIN rollouts = {}
      /\ campaign \in Campaign /\ campaign.exists
  <2>1. rollouts = <<>>
    BY DEF Init
  <2>2. rollouts \in Seq(Rollout) /\ DOMAIN rollouts = {}
    BY <2>1
  <2>3. campaign \in Campaign /\ campaign.exists
    BY DEF Init, Campaign
  <2> QED
    BY <2>1, <2>2, <2>3
<1>2. IdleRequest \in Request /\ IdleRequest.pc = "idle"
      /\ SnapshotOK(IdleRequest) /\ HolderOK(IdleRequest) /\ AboutOK(IdleRequest)
  BY <1>1, IdleIsFine
<1>3. TypeOK
  BY <1>1, <1>2 DEF Init, TypeOK
<1>4. LocksExclude
  BY <1>2 DEF Init, LocksExclude, EditPcs
<1>5. GoneIsEmpty /\ RowsApproved /\ RolledBackIsClosed
  BY <1>1 DEF GoneIsEmpty, RowsApproved, RolledBackIsClosed
<1>6. OneCreatedAtATime /\ TargetsAreMembers
  BY <1>1 DEF OneCreatedAtATime, TargetsAreMembers, OpenRollouts
<1>7. ReadsOK
  BY <1>2 DEF Init, ReadsOK
<1> QED
  BY <1>3, <1>4, <1>5, <1>6, <1>7 DEF IInv

-----------------------------------------------------------------------------
(* Steps that only change the record of one request *)

\* They keep the invariant if what the new record says is right and its lock is
\* compatible with the others'
LEMMA RecordStep ==
  ASSUME IInv, NEW r \in Requests, NEW new \in Request,
         Begin(r, new), UNCHANGED <<campaign, rollouts>>,
         SnapshotOK(new), HolderOK(new), AboutOK(new),
         new.pc \in EditPcs =>
           \A s \in Requests \ {r} : request[s].pc \notin EditPcs \cup SharePcs,
         new.pc \in SharePcs => \A s \in Requests \ {r} : request[s].pc \notin EditPcs
  PROVE  IInv'
<1>1. \A s \in Requests : request'[s] = IF s = r THEN new ELSE request[s]
  BY DEF IInv, TypeOK, Begin
<1>2. TypeOK'
  BY DEF IInv, TypeOK, Begin
<1>3. LocksExclude'
  BY <1>1 DEF IInv, LocksExclude
<1>4. GoneIsEmpty' /\ RowsApproved' /\ RolledBackIsClosed'
  BY DEF IInv, GoneIsEmpty, RowsApproved, RolledBackIsClosed
<1>5. OneCreatedAtATime' /\ TargetsAreMembers'
  BY DEF IInv, OneCreatedAtATime, TargetsAreMembers, OpenRollouts
<1>6. ReadsOK'
  <2> SUFFICES ASSUME NEW s \in Requests
               PROVE  SnapshotOK(request[s])' /\ HolderOK(request[s])' /\ AboutOK(request[s])'
    BY DEF ReadsOK
  <2>1. SnapshotOK(request[s])'
    BY <1>1 DEF IInv, ReadsOK, SnapshotOK
  <2>2. HolderOK(request[s])'
    BY <1>1 DEF IInv, ReadsOK, HolderOK
  <2>3. AboutOK(request[s])'
    BY <1>1 DEF IInv, ReadsOK, AboutOK
  <2> QED
    BY <2>1, <2>2, <2>3
<1> QED
  BY <1>2, <1>3, <1>4, <1>5, <1>6 DEF IInv

LEMMA FinishStep ==
  ASSUME IInv, NEW r \in Requests, Finish(r), UNCHANGED <<campaign, rollouts>>
  PROVE  IInv'
<1>1. IdleRequest \in Request /\ IdleRequest.pc = "idle"
      /\ SnapshotOK(IdleRequest) /\ HolderOK(IdleRequest) /\ AboutOK(IdleRequest)
  BY IdleIsFine DEF IInv, TypeOK, GoneIsEmpty
<1>2. Begin(r, IdleRequest)
  BY DEF Begin, Finish
<1> QED
  BY <1>1, <1>2, RecordStep DEF EditPcs, SharePcs

-----------------------------------------------------------------------------
(* Steps that change the rollouts: some move on, one may be added *)

\* what a rollout may become in a step: who made it stays, what ended stays so
Evolves(was, is) ==
  /\ is.creator = was.creator
  /\ is.status \in Open => was.status \in Open
  /\ was.status \in Closed => is.status \in Closed
  /\ was.status \in Ran => is.status \in Ran

\* what a request knows after the step
KnowsRight(s) == SnapshotOK(request[s]) /\ HolderOK(request[s]) /\ AboutOK(request[s])

\* the step leaves a request alone or where it holds no lock and knows what is true
Settles ==
  \A s \in Requests :
    \/ request'[s] = request[s]
    \/ request'[s].pc \notin EditPcs \cup SharePcs /\ KnowsRight(s)'

\* Such a step leaves what the requests know true, unless it adds a rollout
\* while the group is edited
LEMMA OthersStayRight ==
  ASSUME IInv, request' \in [Requests -> Request], Settles, campaign' = campaign,
         rollouts' \in Seq(Rollout), Len(rollouts) <= Len(rollouts'),
         \A i \in DOMAIN rollouts : Evolves(rollouts[i], rollouts'[i]),
         Len(rollouts) < Len(rollouts') =>
           campaign.exists /\ \A s \in Requests : request[s].pc \notin EditPcs
  PROVE  TypeOK' /\ LocksExclude' /\ GoneIsEmpty' /\ ReadsOK'
<1>2. TypeOK'
  BY DEF IInv, TypeOK
<1>3. LocksExclude'
  BY DEF IInv, LocksExclude, Settles
<1>4. /\ rollouts \in Seq(Rollout) /\ rollouts' \in Seq(Rollout)
      /\ DOMAIN rollouts = 1..Len(rollouts) /\ DOMAIN rollouts' = 1..Len(rollouts')
      /\ Len(rollouts) \in Nat /\ Len(rollouts') \in Nat
  BY DEF IInv, TypeOK
<1>5. GoneIsEmpty'
  <2>1. SUFFICES ASSUME ~campaign.exists PROVE rollouts' = <<>>
    BY DEF GoneIsEmpty
  <2>2. Len(rollouts) = 0
    BY <2>1 DEF IInv, GoneIsEmpty
  <2>3. Len(rollouts') = 0
    BY <1>4, <2>1, <2>2
  <2> QED
    BY <1>4, <2>3
<1>6. ASSUME NEW s \in Requests, request'[s] = request[s]
      PROVE  KnowsRight(s)'
  <2>1. /\ request'[s] = request[s] /\ request[s] \in Request
        /\ SnapshotOK(request[s]) /\ HolderOK(request[s]) /\ AboutOK(request[s])
    BY <1>6 DEF IInv, ReadsOK, TypeOK
  <2>2. request[s].seen \in Nat /\ request[s].rollout \in Nat
    BY <2>1 DEF Request
  <2>3. SnapshotOK(request[s])'
    BY <1>4, <2>1, <2>2 DEF SnapshotOK, Evolves
  <2>4. HolderOK(request[s])'
    BY <1>4, <2>1, <2>2 DEF HolderOK, Evolves, EditPcs
  <2>5. AboutOK(request[s])'
    <3>1. request[s].rollout \in DOMAIN rollouts' => request[s].rollout \in DOMAIN rollouts
      BY <1>4, <2>1, <2>2 DEF AboutOK
    <3> QED
      BY <1>4, <2>1, <2>2, <3>1 DEF AboutOK, Evolves
  <2> QED
    BY <2>3, <2>4, <2>5 DEF KnowsRight
<1>7. ReadsOK'
  BY <1>6 DEF ReadsOK, Settles, KnowsRight
<1> QED
  BY <1>2, <1>3, <1>5, <1>7

\* One rollout changes as far as it may: its row stays approved, its group, its
\* devices and what it rolls back stay
LEMMA RowStep ==
  ASSUME IInv, request' \in [Requests -> Request], Settles, campaign' = campaign,
         NEW i \in DOMAIN rollouts, NEW row \in Rollout,
         rollouts' = [rollouts EXCEPT ![i] = row],
         row.devices = rollouts[i].devices, row.rollbackOf = rollouts[i].rollbackOf,
         Evolves(rollouts[i], row),
         row.status \in {"approved"} \cup Ran => Approved(row)
  PROVE  IInv'
<1>1. /\ rollouts \in Seq(Rollout) /\ rollouts' \in Seq(Rollout)
      /\ Len(rollouts') = Len(rollouts) /\ DOMAIN rollouts' = DOMAIN rollouts
      /\ \A j \in DOMAIN rollouts : rollouts'[j] = IF j = i THEN row ELSE rollouts[j]
  BY DEF IInv, TypeOK
<1>2. \A j \in DOMAIN rollouts :
        /\ Evolves(rollouts[j], rollouts'[j])
        /\ rollouts'[j].devices = rollouts[j].devices
        /\ rollouts'[j].rollbackOf = rollouts[j].rollbackOf
  BY <1>1 DEF Evolves
<1>3. TypeOK' /\ LocksExclude' /\ GoneIsEmpty' /\ ReadsOK'
  <2>1. Len(rollouts) \in Nat
    BY DEF IInv, TypeOK
  <2> QED
    BY <1>1, <1>2, <2>1, OthersStayRight
<1>4. RowsApproved'
  BY <1>1 DEF IInv, RowsApproved
<1>5. RolledBackIsClosed'
  BY <1>1, <1>2 DEF IInv, RolledBackIsClosed, Evolves
<1>6. OneCreatedAtATime' /\ TargetsAreMembers'
  BY <1>1, <1>2 DEF IInv, OneCreatedAtATime, TargetsAreMembers, OpenRollouts, Evolves
<1> QED
  BY <1>3, <1>4, <1>5, <1>6 DEF IInv

\* a request that is done, or one that is left alone, settles
LEMMA Settled ==
  ASSUME IInv, NEW r, Finish(r) \/ request' = request,
         rollouts' \in Seq(Rollout), campaign'.exists \/ rollouts' = <<>>
  PROVE  request' \in [Requests -> Request] /\ Settles
<1>1. /\ IdleRequest' = IdleRequest
      /\ IdleRequest \in Request /\ IdleRequest.pc = "idle" /\ IdleRequest.rollout = 0
  BY DEF IdleRequest, Request
<1>2. SnapshotOK(IdleRequest)' /\ HolderOK(IdleRequest)'
  BY <1>1 DEF SnapshotOK, HolderOK
<1>3. AboutOK(IdleRequest)'
  BY <1>1 DEF AboutOK
<1>4. \A s \in Requests : request'[s] = request[s] \/ request'[s] = IdleRequest
  BY DEF IInv, TypeOK, Finish
<1>5. request' \in [Requests -> Request]
  BY <1>1 DEF IInv, TypeOK, Finish
<1>6. ASSUME NEW s \in Requests, request'[s] = IdleRequest
      PROVE  request'[s].pc \notin EditPcs \cup SharePcs /\ KnowsRight(s)'
  <2>1. SnapshotOK(request[s])'
    BY <1>1, <1>6 DEF SnapshotOK
  <2>2. HolderOK(request[s])'
    BY <1>1, <1>6 DEF HolderOK
  <2>3. AboutOK(request[s])'
    BY <1>1, <1>6 DEF AboutOK
  <2> QED
    BY <1>1, <1>6, <2>1, <2>2, <2>3 DEF KnowsRight, EditPcs, SharePcs
<1> QED
  BY <1>4, <1>5, <1>6 DEF Settles

-----------------------------------------------------------------------------
(* create *)

LEMMA StartCreateInv ==
  ASSUME IInv, NEW r \in Requests, NEW user \in Users, StartCreate(r, user)
  PROVE  IInv'
<1> DEFINE new == [IdleRequest EXCEPT !.pc = "share", !.user = user,
                     !.version = campaign.version, !.members = campaign.members,
                     !.open = OpenRollouts # {}, !.seen = Len(rollouts)]
<1>1. /\ rollouts \in Seq(Rollout) /\ Len(rollouts) \in Nat /\ campaign \in Campaign
      /\ (OpenRollouts # {}) \in BOOLEAN
  BY DEF IInv, TypeOK
<1>2. /\ new.pc = "share" /\ new.user = user /\ new.version = campaign.version
      /\ new.members = campaign.members /\ new.open = (OpenRollouts # {})
      /\ new.seen = Len(rollouts) /\ new.rollout = 0
  BY DEF IdleRequest
<1>3. new \in Request
  BY <1>1 DEF IdleRequest, Request, Campaign
<1> HIDE DEF new
<1>4. SnapshotOK(new)
  <2>1. ~new.open => \A i \in DOMAIN rollouts : rollouts[i].status \notin Open
    BY <1>2 DEF OpenRollouts
  <2> QED
    BY <1>1, <1>2, <2>1 DEF SnapshotOK, Campaign
<1>5. HolderOK(new) /\ AboutOK(new)
  BY <1>1, <1>2 DEF HolderOK, AboutOK
<1>6. Begin(r, new) /\ UNCHANGED <<campaign, rollouts>>
  BY DEF StartCreate, new
<1> QED
  BY <1>2, <1>3, <1>4, <1>5, <1>6, RecordStep DEF EditPcs, SharePcs

LEMMA LockForCreateInv ==
  ASSUME IInv, NEW r \in Requests, LockForCreate(r)
  PROVE  IInv'
<1>1. CASE campaign.exists /\ campaign.version = request[r].version
  <2> DEFINE new == [request[r] EXCEPT !.pc = "insert"]
  <2>1. request[r] \in Request /\ request[r].pc = "share"
    BY DEF IInv, TypeOK, LockForCreate
  <2>2. new \in Request /\ new.pc = "insert"
    BY <2>1 DEF Request
  <2>3. SnapshotOK(new)
    BY <2>1, <2>2 DEF IInv, ReadsOK, SnapshotOK, Request
  <2>4. HolderOK(new)
    BY <1>1, <2>1, <2>2 DEF HolderOK, Request
  <2>5. AboutOK(new)
    BY <2>1, <2>2 DEF IInv, ReadsOK, AboutOK, Request
  <2>6. Begin(r, new) /\ UNCHANGED <<campaign, rollouts>>
    BY <1>1 DEF LockForCreate
  <2>7. \A s \in Requests \ {r} : request[s].pc \notin EditPcs
    BY DEF LockForCreate, Editing, EditPcs
  <2> QED
    BY <2>2, <2>3, <2>4, <2>5, <2>6, <2>7, RecordStep DEF EditPcs
<1>2. CASE ~(campaign.exists /\ campaign.version = request[r].version)
  BY <1>2, FinishStep DEF LockForCreate
<1> QED
  BY <1>1, <1>2

\* Adding a rollout: nobody edits the group, and if it is not a rollback then no
\* other made by create() is open and its devices are members
LEMMA AddStep ==
  ASSUME IInv, NEW r \in Requests, Finish(r), campaign' = campaign, campaign.exists,
         request[r].pc \in SharePcs,
         NEW base \in Seq(Rollout), NEW row \in Rollout, rollouts' = Append(base, row),
         Len(base) = Len(rollouts),
         \A i \in DOMAIN rollouts :
           /\ Evolves(rollouts[i], base[i])
           /\ base[i].devices = rollouts[i].devices
           /\ base[i].rollbackOf = rollouts[i].rollbackOf
           /\ base[i].status \in {"approved"} \cup Ran => Approved(base[i]),
         row.status = "pending_approval",
         row.rollbackOf # 0 =>
           row.rollbackOf \in DOMAIN rollouts /\ base[row.rollbackOf].status \in Closed,
         row.rollbackOf = 0 =>
           /\ row.devices \subseteq campaign.members
           /\ \A i \in OpenRollouts : rollouts[i].rollbackOf # 0
  PROVE  IInv'
<1> DEFINE n == Len(rollouts)
<1>1. /\ n \in Nat /\ rollouts \in Seq(Rollout) /\ rollouts' \in Seq(Rollout)
      /\ Len(rollouts') = n + 1
      /\ DOMAIN rollouts = 1..n /\ DOMAIN rollouts' = 1..(n + 1)
      /\ \A i \in 1..n : rollouts'[i] = base[i]
      /\ rollouts'[n + 1] = row
  BY DEF IInv, TypeOK
<1> HIDE DEF n
<1>2. \A s \in Requests : request[s].pc \notin EditPcs
  BY DEF IInv, LocksExclude, SharePcs, EditPcs
<1>3. TypeOK' /\ LocksExclude' /\ GoneIsEmpty' /\ ReadsOK'
  <2>1. request' \in [Requests -> Request] /\ Settles
    BY <1>1, Settled
  <2>2. Len(rollouts) = n
    BY DEF n
  <2> QED
    BY <1>1, <1>2, <2>1, <2>2, OthersStayRight
<1>4. RowsApproved'
  BY <1>1 DEF RowsApproved, Ran, Closed
<1>5. RolledBackIsClosed'
  <2> SUFFICES ASSUME NEW i \in 1..(n + 1), rollouts'[i].rollbackOf # 0
               PROVE  /\ rollouts'[i].rollbackOf \in 1..(n + 1)
                      /\ rollouts'[rollouts'[i].rollbackOf].status \in Closed
    BY <1>1 DEF RolledBackIsClosed
  <2>1. CASE i = n + 1
    BY <1>1, <2>1
  <2>2. CASE i \in 1..n
    BY <1>1, <2>2, SMTT(30) DEF IInv, RolledBackIsClosed, Evolves
  <2> QED
    BY <1>1, <2>1, <2>2
<1>6. OneCreatedAtATime' /\ TargetsAreMembers'
  <2>1. \A i \in OpenRollouts' : i = n + 1 \/ i \in OpenRollouts
    BY <1>1 DEF OpenRollouts, Evolves
  <2>2. \A i \in OpenRollouts : /\ i \in 1..n
                                /\ rollouts'[i].rollbackOf = rollouts[i].rollbackOf
                                /\ rollouts'[i].devices = rollouts[i].devices
    BY <1>1 DEF OpenRollouts
  <2>3. OneCreatedAtATime'
    BY <1>1, <2>1, <2>2 DEF IInv, OneCreatedAtATime
  <2>4. TargetsAreMembers'
    BY <1>1, <2>1, <2>2 DEF IInv, TargetsAreMembers
  <2> QED
    BY <2>3, <2>4
<1> QED
  BY <1>3, <1>4, <1>5, <1>6 DEF IInv

\* the snapshot of a create() that finds no conflict knows every open rollout
\* that is not a rollback
LEMMA CommitCreateInv ==
  ASSUME IInv, NEW r \in Requests, NEW devices \in SUBSET Devices, NEW mockFirmware \in BOOLEAN,
         CommitCreate(r, devices, mockFirmware)
  PROVE  IInv'
<1>1. CASE request[r].open \/ Conflicting(r)
  BY <1>1, FinishStep DEF CommitCreate
<1>2. CASE ~(request[r].open \/ Conflicting(r))
  <2> DEFINE row == NewRollout(devices, request[r].user, 0, mockFirmware)
  <2>1. /\ request[r] \in Request /\ request[r].pc = "insert"
        /\ SnapshotOK(request[r]) /\ HolderOK(request[r])
    BY DEF IInv, TypeOK, ReadsOK, CommitCreate
  <2>2. /\ campaign.exists /\ request[r].user \in Users
        /\ request[r].members = campaign.members
        /\ \A i \in DOMAIN rollouts : i <= request[r].seen => rollouts[i].status \notin Open
    BY <1>2, <2>1 DEF SnapshotOK, HolderOK
  <2>3. /\ row \in Rollout /\ row.status = "pending_approval"
        /\ row.rollbackOf = 0 /\ row.devices = devices
    BY <2>2 DEF NewRollout, Rollout, Status, Open
  <2>4. \A i \in OpenRollouts : rollouts[i].rollbackOf # 0
    <3> SUFFICES ASSUME NEW i \in OpenRollouts PROVE rollouts[i].rollbackOf # 0
      OBVIOUS
    <3>1. i \in DOMAIN rollouts /\ i \in Nat /\ ~(i <= request[r].seen)
      BY <2>2 DEF OpenRollouts, IInv, TypeOK
    <3>2. i > request[r].seen
      BY <2>1, <3>1 DEF Request
    <3> QED
      BY <1>2, <3>1, <3>2 DEF Conflicting
  <2>5. \A i \in DOMAIN rollouts :
          /\ Evolves(rollouts[i], rollouts[i])
          /\ rollouts[i].status \in {"approved"} \cup Ran => Approved(rollouts[i])
    BY DEF Evolves, IInv, RowsApproved
  <2>6. rollouts' = Append(rollouts, row) /\ Finish(r) /\ campaign' = campaign
        /\ devices \subseteq campaign.members /\ rollouts \in Seq(Rollout)
    BY <1>2, <2>2 DEF CommitCreate, IInv, TypeOK
  <2> HIDE DEF row
  <2> QED
    BY <2>1, <2>2, <2>3, <2>4, <2>5, <2>6, AddStep DEF SharePcs
<1> QED
  BY <1>1, <1>2

-----------------------------------------------------------------------------
(* addTargets, removeTarget, remove *)

LEMMA StartEditInv ==
  ASSUME IInv, NEW r \in Requests, NEW device \in Devices, StartEdit(r, device)
  PROVE  IInv'
<1>1. PICK pc \in {"lockAdd", "lockRemove", "lockDelete"} :
        Begin(r, [IdleRequest EXCEPT !.pc = pc, !.devices = {device}])
  BY DEF StartEdit
<1> DEFINE new == [IdleRequest EXCEPT !.pc = pc, !.devices = {device}]
<1>2. new \in Request /\ new.pc = pc /\ new.rollout = 0
  BY DEF IdleRequest, Request
<1> HIDE DEF new
<1>3. SnapshotOK(new) /\ HolderOK(new) /\ AboutOK(new)
  BY <1>2 DEF SnapshotOK, HolderOK, AboutOK, IInv, TypeOK
<1> QED
  BY <1>1, <1>2, <1>3, RecordStep DEF StartEdit, EditPcs, SharePcs, new

LEMMA LockForEditInv ==
  ASSUME IInv, NEW r \in Requests, LockForEdit(r)
  PROVE  IInv'
<1>1. CASE campaign.exists
  <2> DEFINE new == [request[r] EXCEPT !.pc = AfterLock(request[r].pc)]
  <2>1. request[r] \in Request /\ AfterLock(request[r].pc) \in {"checkAdd", "checkRemove", "checkDelete"}
    BY DEF IInv, TypeOK, AfterLock
  <2>2. /\ new \in Request /\ new.rollout = request[r].rollout
        /\ new.pc \in {"checkAdd", "checkRemove", "checkDelete"}
    BY <2>1 DEF Request
  <2>3. Begin(r, new) /\ UNCHANGED <<campaign, rollouts>>
    BY <1>1 DEF LockForEdit
  <2> HIDE DEF new
  <2>4. SnapshotOK(new) /\ HolderOK(new) /\ AboutOK(new)
    BY <2>2 DEF SnapshotOK, HolderOK, AboutOK, IInv, ReadsOK
  <2>5. \A s \in Requests : request[s].pc \notin EditPcs \cup SharePcs
    BY DEF LockForEdit, Sharing, Editing, EditPcs, SharePcs
  <2> QED
    BY <2>2, <2>3, <2>4, <2>5, RecordStep DEF SharePcs
<1>2. CASE ~campaign.exists
  BY <1>2, FinishStep DEF LockForEdit
<1> QED
  BY <1>1, <1>2

LEMMA CheckOpenInv ==
  ASSUME IInv, NEW r \in Requests, CheckOpen(r)
  PROVE  IInv'
<1>1. CASE OpenRollouts = {}
  <2> DEFINE new == [request[r] EXCEPT !.pc = AfterCheck(request[r].pc)]
  <2>1. /\ request[r] \in Request /\ request[r].pc \in {"checkAdd", "checkRemove", "checkDelete"}
        /\ AfterCheck(request[r].pc) \in {"add", "remove", "delete"}
    BY DEF IInv, TypeOK, AfterCheck, CheckOpen
  <2>2. /\ new \in Request /\ new.rollout = request[r].rollout
        /\ new.pc \in {"add", "remove", "delete"}
    BY <2>1 DEF Request
  <2>3. Begin(r, new) /\ UNCHANGED <<campaign, rollouts>>
    BY <1>1 DEF CheckOpen
  <2> HIDE DEF new
  <2>4. SnapshotOK(new) /\ AboutOK(new)
    BY <2>2 DEF SnapshotOK, AboutOK, IInv, ReadsOK
  <2>5. HolderOK(new)
    BY <1>1, <2>2 DEF HolderOK, OpenRollouts
  <2>6. \A s \in Requests \ {r} : request[s].pc \notin EditPcs \cup SharePcs
    BY <2>1 DEF IInv, LocksExclude, EditPcs
  <2> QED
    BY <2>2, <2>3, <2>4, <2>5, <2>6, RecordStep DEF SharePcs
<1>2. CASE OpenRollouts # {}
  BY <1>2, FinishStep DEF CheckOpen
<1> QED
  BY <1>1, <1>2

\* An edit that commits finds nobody else at the campaign's row, no open rollout,
\* and leaves every older snapshot behind
LEMMA EditStep ==
  ASSUME IInv, NEW r \in Requests, request[r].pc \in {"add", "remove", "delete"}, Finish(r),
         campaign' \in Campaign, rollouts' = rollouts, campaign'.exists = campaign.exists,
         campaign'.version > campaign.version
  PROVE  IInv'
<1>1. /\ \A i \in DOMAIN rollouts : rollouts[i].status \notin Open
      /\ \A s \in Requests \ {r} : request[s].pc \notin EditPcs \cup SharePcs
      /\ rollouts \in Seq(Rollout) /\ IdleRequest \in Request
      /\ IdleRequest.pc = "idle" /\ IdleRequest.rollout = 0
      /\ \A s \in Requests : request'[s] = IF s = r THEN IdleRequest ELSE request[s]
  BY DEF IInv, ReadsOK, HolderOK, LocksExclude, EditPcs, TypeOK, IdleRequest, Request, Finish
<1>2. TypeOK'
  BY <1>1 DEF IInv, TypeOK, Finish
<1>3. LocksExclude'
  BY <1>1 DEF LocksExclude, EditPcs
<1>4. GoneIsEmpty' /\ RowsApproved' /\ RolledBackIsClosed'
  BY DEF IInv, GoneIsEmpty, RowsApproved, RolledBackIsClosed
<1>5. OneCreatedAtATime' /\ TargetsAreMembers'
  BY <1>1 DEF OneCreatedAtATime, TargetsAreMembers, OpenRollouts
<1>6. ASSUME NEW s \in Requests PROVE KnowsRight(s)'
  <2>1. CASE s = r
    BY <1>1, <2>1 DEF KnowsRight, SnapshotOK, HolderOK, AboutOK
  <2>2. CASE s # r
    <3>1. /\ request'[s] = request[s] /\ request[s] \in Request
          /\ SnapshotOK(request[s]) /\ AboutOK(request[s])
          /\ request[s].pc \notin EditPcs \cup SharePcs
      BY <1>1, <2>2 DEF IInv, ReadsOK, TypeOK
    <3>2. SnapshotOK(request[s])'
      BY <3>1 DEF SnapshotOK, Request, Campaign, IInv, TypeOK
    <3>3. HolderOK(request[s])'
      BY <3>1 DEF HolderOK, EditPcs, SharePcs
    <3>4. AboutOK(request[s])'
      BY <3>1 DEF AboutOK
    <3> QED
      BY <3>2, <3>3, <3>4 DEF KnowsRight
  <2> QED
    BY <2>1, <2>2
<1>7. ReadsOK'
  BY <1>6 DEF ReadsOK, KnowsRight
<1> QED
  BY <1>2, <1>3, <1>4, <1>5, <1>7 DEF IInv

LEMMA CommitAddInv ==
  ASSUME IInv, NEW r \in Requests, CommitAdd(r)
  PROVE  IInv'
<1>1. CASE request[r].devices \cap campaign.members = {}
  <2>1. campaign \in Campaign /\ request[r] \in Request
    BY DEF IInv, TypeOK
  <2>2. campaign' = [exists |-> campaign.exists, version |-> campaign.version + 1,
                     members |-> campaign.members \cup request[r].devices]
    BY <1>1, <2>1 DEF CommitAdd, Campaign
  <2>3. campaign' \in Campaign /\ campaign'.exists = campaign.exists
        /\ campaign'.version > campaign.version
    <3>1. /\ campaign.exists \in BOOLEAN /\ campaign.version \in Nat
          /\ campaign.members \subseteq Devices /\ request[r].devices \subseteq Devices
      BY <2>1 DEF Campaign, Request
    <3> QED
      BY <2>2, <3>1 DEF Campaign
  <2> QED
    BY <1>1, <2>3, EditStep DEF CommitAdd
<1>2. CASE ~(request[r].devices \cap campaign.members = {})
  BY <1>2, FinishStep DEF CommitAdd
<1> QED
  BY <1>1, <1>2

LEMMA CommitRemoveInv ==
  ASSUME IInv, NEW r \in Requests, CommitRemove(r)
  PROVE  IInv'
<1>1. CASE Removable(request[r].devices)
  <2>1. campaign \in Campaign /\ request[r] \in Request
    BY DEF IInv, TypeOK
  <2>2. campaign' = [exists |-> campaign.exists, version |-> campaign.version + 1,
                     members |-> campaign.members \ request[r].devices]
    BY <1>1, <2>1 DEF CommitRemove, Campaign
  <2>3. campaign' \in Campaign /\ campaign'.exists = campaign.exists
        /\ campaign'.version > campaign.version
    <3>1. /\ campaign.exists \in BOOLEAN /\ campaign.version \in Nat
          /\ campaign.members \subseteq Devices /\ request[r].devices \subseteq Devices
      BY <2>1 DEF Campaign, Request
    <3> QED
      BY <2>2, <3>1 DEF Campaign
  <2> QED
    BY <1>1, <2>3, EditStep DEF CommitRemove
<1>2. CASE ~Removable(request[r].devices)
  BY <1>2, FinishStep DEF CommitRemove
<1> QED
  BY <1>1, <1>2

LEMMA CommitDeleteInv ==
  ASSUME IInv, NEW r \in Requests, CommitDelete(r)
  PROVE  IInv'
<1>1. /\ rollouts' = <<>> /\ rollouts' \in Seq(Rollout) /\ DOMAIN rollouts' = {}
      /\ ~campaign'.exists /\ campaign' \in Campaign /\ campaign'.version = campaign.version
  <2>1. rollouts' = <<>>
    BY DEF CommitDelete
  <2>2. rollouts' \in Seq(Rollout) /\ DOMAIN rollouts' = {}
    BY <2>1
  <2> QED
    BY <2>1, <2>2 DEF CommitDelete, IInv, TypeOK, Campaign
<1>2. /\ \A s \in Requests \ {r} : request[s].pc \notin EditPcs \cup SharePcs
      /\ IdleRequest \in Request
      /\ IdleRequest.pc = "idle" /\ IdleRequest.rollout = 0
      /\ \A s \in Requests : request'[s] = IF s = r THEN IdleRequest ELSE request[s]
  BY DEF IInv, LocksExclude, EditPcs, TypeOK, IdleRequest, Request, Finish, CommitDelete
<1>3. TypeOK'
  BY <1>1, <1>2 DEF IInv, TypeOK, Finish, CommitDelete
<1>4. LocksExclude'
  BY <1>2 DEF LocksExclude, EditPcs
<1>5. GoneIsEmpty' /\ RowsApproved' /\ RolledBackIsClosed'
  BY <1>1 DEF GoneIsEmpty, RowsApproved, RolledBackIsClosed
<1>6. OneCreatedAtATime' /\ TargetsAreMembers'
  BY <1>1 DEF OneCreatedAtATime, TargetsAreMembers, OpenRollouts
<1>7. ASSUME NEW s \in Requests PROVE KnowsRight(s)'
  <2>1. request'[s].pc \notin SharePcs
    BY <1>2 DEF SharePcs
  <2>2. SnapshotOK(request[s])'
    <3>1. CASE s = r
      BY <1>2, <3>1 DEF SnapshotOK
    <3>2. CASE s # r
      BY <1>1, <1>2, <3>2 DEF IInv, ReadsOK, SnapshotOK
    <3> QED
      BY <3>1, <3>2
  <2>3. HolderOK(request[s])'
    BY <1>1, <2>1 DEF HolderOK, SharePcs
  <2>4. AboutOK(request[s])'
    <3>1. CASE s = r
      BY <1>1, <1>2, <3>1 DEF AboutOK
    <3>2. CASE s # r
      BY <1>1, <1>2, <3>2 DEF IInv, ReadsOK, AboutOK
    <3> QED
      BY <3>1, <3>2
  <2> QED
    BY <2>2, <2>3, <2>4 DEF KnowsRight
<1>8. ReadsOK'
  BY <1>7 DEF ReadsOK, KnowsRight
<1> QED
  BY <1>3, <1>4, <1>5, <1>6, <1>8 DEF IInv

-----------------------------------------------------------------------------
(* approve and reject *)

LEMMA StartApproveInv ==
  ASSUME IInv, NEW r \in Requests, NEW user \in Users, NEW i \in DOMAIN rollouts,
         StartApprove(r, user, i)
  PROVE  IInv'
<1> DEFINE new == [IdleRequest EXCEPT !.pc = "approve", !.user = user, !.rollout = i]
<1>1. rollouts \in Seq(Rollout) /\ i \in Nat /\ i <= Len(rollouts)
  BY DEF IInv, TypeOK
<1>2. new \in Request /\ new.pc = "approve" /\ new.user = user /\ new.rollout = i
  BY <1>1 DEF IdleRequest, Request
<1>3. Begin(r, new) /\ UNCHANGED <<campaign, rollouts>> /\ MayDecide(user, i)
  BY DEF StartApprove
<1> HIDE DEF new
<1>4. SnapshotOK(new) /\ HolderOK(new)
  BY <1>2 DEF SnapshotOK, HolderOK
<1>5. AboutOK(new)
  BY <1>1, <1>2, <1>3 DEF AboutOK, MayDecide
<1> QED
  BY <1>2, <1>3, <1>4, <1>5, RecordStep DEF EditPcs, SharePcs

LEMMA StartRejectInv ==
  ASSUME IInv, NEW r \in Requests, NEW i \in DOMAIN rollouts, NEW user \in Users,
         StartReject(r, user, i)
  PROVE  IInv'
<1> DEFINE new == [IdleRequest EXCEPT !.pc = "reject", !.rollout = i]
<1>1. rollouts \in Seq(Rollout) /\ i \in Nat /\ i <= Len(rollouts)
  BY DEF IInv, TypeOK
<1>2. new \in Request /\ new.pc = "reject" /\ new.rollout = i
  BY <1>1 DEF IdleRequest, Request
<1>3. Begin(r, new) /\ UNCHANGED <<campaign, rollouts>>
  BY DEF StartReject
<1> HIDE DEF new
<1>4. SnapshotOK(new) /\ HolderOK(new) /\ AboutOK(new)
  BY <1>1, <1>2 DEF SnapshotOK, HolderOK, AboutOK
<1> QED
  BY <1>2, <1>3, <1>4, RecordStep DEF EditPcs, SharePcs

\* a step that gives one rollout another status that it may have
LEMMA MoveStep ==
  ASSUME IInv, request' \in [Requests -> Request], Settles, campaign' = campaign,
         NEW i \in DOMAIN rollouts, NEW status \in Status, MoveTo(i, status),
         status \in Open => rollouts[i].status \in Open,
         rollouts[i].status \in Closed => status \in Closed,
         rollouts[i].status \in Ran => status \in Ran,
         status \in {"approved"} \cup Ran => Approved(rollouts[i])
  PROVE  IInv'
<1> DEFINE row == [rollouts[i] EXCEPT !.status = status]
<1>1. rollouts \in Seq(Rollout) /\ rollouts[i] \in Rollout
  BY DEF IInv, TypeOK
<1>2. /\ row \in Rollout /\ row.status = status
      /\ row.devices = rollouts[i].devices /\ row.rollbackOf = rollouts[i].rollbackOf
      /\ row.creator = rollouts[i].creator /\ row.approver = rollouts[i].approver
  BY <1>1 DEF Rollout
<1>3. rollouts' = [rollouts EXCEPT ![i] = row]
  BY <1>1 DEF MoveTo, Rollout
<1> HIDE DEF row
<1>4. Evolves(rollouts[i], row)
  BY <1>2 DEF Evolves
<1>5. row.status \in {"approved"} \cup Ran => Approved(row)
  BY <1>2 DEF Approved
<1> QED
  BY <1>2, <1>3, <1>4, <1>5, RowStep

\* a request that is done with its rollout, or nobody, moves it on
LEMMA DoneStep ==
  ASSUME IInv, NEW r, Finish(r) \/ request' = request, campaign' = campaign,
         NEW i \in DOMAIN rollouts, NEW status \in Status, MoveTo(i, status),
         status \in Open => rollouts[i].status \in Open,
         rollouts[i].status \in Closed => status \in Closed,
         rollouts[i].status \in Ran => status \in Ran,
         status \in {"approved"} \cup Ran => Approved(rollouts[i])
  PROVE  IInv'
<1>1. rollouts' \in Seq(Rollout) /\ campaign.exists
  <2>1. rollouts \in Seq(Rollout) /\ rollouts[i] \in Rollout /\ rollouts # <<>>
    BY DEF IInv, TypeOK
  <2>2. campaign.exists
    BY <2>1 DEF IInv, GoneIsEmpty
  <2>3. [rollouts[i] EXCEPT !.status = status] \in Rollout
    BY <2>1 DEF Rollout
  <2> QED
    BY <2>1, <2>2, <2>3 DEF MoveTo
<1>2. request' \in [Requests -> Request] /\ Settles
  BY <1>1, Settled
<1> QED
  BY <1>2, MoveStep

LEMMA ApproveInv ==
  ASSUME IInv, NEW r \in Requests, Approve(r)
  PROVE  IInv'
<1> DEFINE i == request[r].rollout
<1>1. CASE Found(r) /\ rollouts[i].status = "pending_approval"
  <2> DEFINE row == [rollouts[i] EXCEPT !.status = "approved", !.approver = request[r].user]
  <2>1. /\ i \in DOMAIN rollouts /\ rollouts \in Seq(Rollout) /\ rollouts[i] \in Rollout
        /\ rollouts # <<>>
    BY <1>1 DEF IInv, TypeOK, Found
  <2>2. /\ request[r] \in Request /\ request[r].user \in Users
        /\ request[r].user = rollouts[i].creator => request[r].user \in SuperAdmins
    BY <1>1, <2>1 DEF IInv, ReadsOK, AboutOK, TypeOK, Approve
  <2>3. /\ row \in Rollout /\ row.status = "approved" /\ row.approver = request[r].user
        /\ row.devices = rollouts[i].devices /\ row.rollbackOf = rollouts[i].rollbackOf
        /\ row.creator = rollouts[i].creator
    BY <2>1, <2>2 DEF Rollout, Status, Open
  <2>4. rollouts' = [rollouts EXCEPT ![i] = row]
    BY <1>1, <2>1 DEF Approve, Rollout
  <2> HIDE DEF row, i
  <2>5. Evolves(rollouts[i], row)
    BY <1>1, <2>3 DEF Evolves, Open, Closed, Ran
  <2>6. Approved(row)
    BY <2>2, <2>3, NoUserFresh DEF Approved
  <2>7. campaign.exists /\ rollouts' \in Seq(Rollout) /\ campaign' = campaign /\ Finish(r)
    <3>1. rollouts' \in Seq(Rollout)
      BY <2>1, <2>3, <2>4
    <3>2. campaign.exists
      BY <2>1 DEF IInv, GoneIsEmpty
    <3> QED
      BY <3>1, <3>2 DEF Approve
  <2>8. request' \in [Requests -> Request] /\ Settles
    BY <2>7, Settled
  <2> QED
    BY <2>1, <2>3, <2>4, <2>5, <2>6, <2>7, <2>8, RowStep
<1>2. CASE ~(Found(r) /\ rollouts[i].status = "pending_approval")
  BY <1>2, FinishStep DEF Approve
<1> QED
  BY <1>1, <1>2

LEMMA RejectInv ==
  ASSUME IInv, NEW r \in Requests, Reject(r)
  PROVE  IInv'
<1> DEFINE i == request[r].rollout
<1>1. CASE Found(r) /\ rollouts[i].status \in {"pending_approval", "approved"}
  <2>1. i \in DOMAIN rollouts /\ MoveTo(i, "rejected") /\ Finish(r) /\ campaign' = campaign
    BY <1>1 DEF Found, Reject
  <2>2. /\ "rejected" \in Status /\ "rejected" \notin Open
        /\ "rejected" \notin {"approved"} \cup Ran
        /\ rollouts[i].status \notin Closed /\ rollouts[i].status \notin Ran
    BY <1>1 DEF Status, Open, Closed, Ran
  <2> HIDE DEF i
  <2> QED
    BY <2>1, <2>2, DoneStep
<1>2. CASE ~(Found(r) /\ rollouts[i].status \in {"pending_approval", "approved"})
  BY <1>2, FinishStep DEF Reject
<1> QED
  BY <1>1, <1>2

-----------------------------------------------------------------------------
(* release, resume and results *)

LEMMA ActivateInv ==
  ASSUME IInv, NEW r \in Requests, NEW i \in DOMAIN rollouts, Activate(r, i),
         rollouts[i].status \in {"approved", "paused"}
  PROVE  IInv'
<1>1. /\ MoveTo(i, "active") /\ campaign' = campaign
      /\ "active" \in Status /\ "active" \in Open /\ rollouts[i].status \in Open
      /\ rollouts[i].status \notin Closed /\ "active" \in Ran /\ Approved(rollouts[i])
  BY DEF Activate, Status, Open, Closed, Ran, IInv, RowsApproved
<1>2. CASE request' = request
  BY <1>1, <1>2, DoneStep
<1>3. CASE Begin(r, [IdleRequest EXCEPT !.pc = "switching", !.rollout = i])
  <2> DEFINE new == [IdleRequest EXCEPT !.pc = "switching", !.rollout = i]
  <2>1. /\ rollouts \in Seq(Rollout) /\ i \in Nat /\ rollouts[i] \in Rollout
        /\ i <= Len(rollouts)
    BY DEF IInv, TypeOK
  <2>2. /\ Len(rollouts') = Len(rollouts) /\ DOMAIN rollouts' = DOMAIN rollouts
        /\ rollouts'[i].status = "active"
    BY <1>1, <2>1 DEF MoveTo, Rollout
  <2>3. new \in Request /\ new.pc = "switching" /\ new.rollout = i
    BY <2>1 DEF IdleRequest, Request
  <2> HIDE DEF new
  <2>4. \A s \in Requests : request'[s] = IF s = r THEN new ELSE request[s]
    BY <1>3 DEF Begin, IInv, TypeOK, new
  <2>5. request' \in [Requests -> Request]
    BY <1>3, <2>3 DEF Begin, IInv, TypeOK, new
  <2>6. KnowsRight(r)'
    <3>1. request'[r] = new
      BY <2>4
    <3>2. SnapshotOK(request[r])' /\ HolderOK(request[r])'
      BY <2>3, <3>1 DEF SnapshotOK, HolderOK
    <3>3. AboutOK(request[r])'
      BY <1>1, <2>1, <2>2, <2>3, <3>1 DEF AboutOK
    <3> QED
      BY <3>2, <3>3 DEF KnowsRight
  <2>7. Settles
    BY <2>3, <2>4, <2>6 DEF Settles, EditPcs, SharePcs
  <2> QED
    BY <1>1, <2>5, <2>7, MoveStep
<1> QED
  BY <1>2, <1>3 DEF Activate

LEMMA FinishSwitchingInv ==
  ASSUME IInv, NEW r \in Requests, FinishSwitching(r)
  PROVE  IInv'
<1> DEFINE i == request[r].rollout
<1>1. CASE Found(r)
  <2>1. i \in DOMAIN rollouts /\ MoveTo(i, "completed") /\ Finish(r) /\ campaign' = campaign
    BY <1>1 DEF Found, FinishSwitching
  <2>2. rollouts[i].status \in Ran
    BY <2>1 DEF IInv, ReadsOK, AboutOK, FinishSwitching
  <2>3. Approved(rollouts[i])
    BY <2>1, <2>2 DEF IInv, RowsApproved
  <2>4. "completed" \in Status /\ "completed" \notin Open /\ "completed" \in Closed /\ "completed" \in Ran
    BY DEF Status, Open, Closed, Ran
  <2> HIDE DEF i
  <2> QED
    BY <2>1, <2>3, <2>4, DoneStep
<1>2. CASE ~Found(r)
  BY <1>2, FinishStep DEF FinishSwitching
<1> QED
  BY <1>1, <1>2

LEMMA MoveOnInv ==
  ASSUME IInv, NEW i \in DOMAIN rollouts, NEW status \in {"active", "paused", "completed"},
         rollouts[i].status \in {"active", "paused"}, MoveTo(i, status),
         UNCHANGED <<campaign, request>>
  PROVE  IInv'
<1>1. /\ status \in Status /\ status \in Ran /\ rollouts[i].status \in Ran
      /\ rollouts[i].status \in Open /\ rollouts[i].status \notin Closed
  BY DEF Status, Open, Closed, Ran
<1>2. Approved(rollouts[i])
  BY <1>1 DEF IInv, RowsApproved
<1> QED
  BY <1>1, <1>2, DoneStep

-----------------------------------------------------------------------------
(* rollback *)

LEMMA StartRollbackInv ==
  ASSUME IInv, NEW r \in Requests, NEW user \in Users, NEW i \in DOMAIN rollouts,
         StartRollback(r, user, i)
  PROVE  IInv'
<1> DEFINE new == [IdleRequest EXCEPT !.pc = "affected", !.user = user, !.rollout = i,
                                      !.status = rollouts[i].status]
<1>1. rollouts \in Seq(Rollout) /\ i \in Nat /\ i <= Len(rollouts)
  BY DEF IInv, TypeOK
<1>2. rollouts[i].status \in {"active", "paused", "completed"}
  BY DEF StartRollback
<1>3. /\ new \in Request /\ new.pc = "affected" /\ new.user = user /\ new.rollout = i
      /\ new.status = rollouts[i].status
  BY <1>1, <1>2 DEF IdleRequest, Request
<1>4. Begin(r, new) /\ UNCHANGED <<campaign, rollouts>>
  BY DEF StartRollback
<1> HIDE DEF new
<1>5. SnapshotOK(new) /\ HolderOK(new)
  BY <1>3 DEF SnapshotOK, HolderOK
<1>6. AboutOK(new)
  BY <1>1, <1>2, <1>3 DEF AboutOK, Closed
<1> QED
  BY <1>3, <1>4, <1>5, <1>6, RecordStep DEF EditPcs, SharePcs

LEMMA ListAffectedInv ==
  ASSUME IInv, NEW r \in Requests, NEW devices \in SUBSET Devices, ListAffected(r, devices)
  PROVE  IInv'
<1> DEFINE new == [request[r] EXCEPT !.pc = "shareRollback", !.devices = devices]
<1>1. request[r] \in Request /\ request[r].pc = "affected" /\ AboutOK(request[r])
  BY DEF IInv, ReadsOK, TypeOK, ListAffected
<1>2. /\ new \in Request /\ new.pc = "shareRollback" /\ new.user = request[r].user
      /\ new.rollout = request[r].rollout /\ new.status = request[r].status
  BY <1>1 DEF Request
<1>3. Begin(r, new) /\ UNCHANGED <<campaign, rollouts>>
  BY DEF ListAffected
<1> HIDE DEF new
<1>4. SnapshotOK(new) /\ HolderOK(new) /\ AboutOK(new)
  BY <1>1, <1>2 DEF SnapshotOK, HolderOK, AboutOK
<1> QED
  BY <1>2, <1>3, <1>4, RecordStep DEF EditPcs, SharePcs

LEMMA LockForRollbackInv ==
  ASSUME IInv, NEW r \in Requests, LockForRollback(r)
  PROVE  IInv'
<1>1. CASE campaign.exists
  <2> DEFINE new == [request[r] EXCEPT !.pc = "cancel"]
  <2>1. request[r] \in Request /\ request[r].pc = "shareRollback" /\ AboutOK(request[r])
    BY DEF IInv, ReadsOK, TypeOK, LockForRollback
  <2>2. /\ new \in Request /\ new.pc = "cancel" /\ new.user = request[r].user
        /\ new.rollout = request[r].rollout /\ new.status = request[r].status
    BY <2>1 DEF Request
  <2>3. Begin(r, new) /\ UNCHANGED <<campaign, rollouts>>
    BY <1>1 DEF LockForRollback
  <2> HIDE DEF new
  <2>4. SnapshotOK(new) /\ HolderOK(new) /\ AboutOK(new)
    BY <1>1, <2>1, <2>2 DEF SnapshotOK, HolderOK, AboutOK
  <2>5. \A s \in Requests \ {r} : request[s].pc \notin EditPcs
    BY DEF LockForRollback, Editing, EditPcs
  <2> QED
    BY <2>2, <2>3, <2>4, <2>5, RecordStep DEF EditPcs
<1>2. CASE ~campaign.exists
  BY <1>2, FinishStep DEF LockForRollback
<1> QED
  BY <1>1, <1>2

LEMMA CommitRollbackInv ==
  ASSUME IInv, NEW r \in Requests, CommitRollback(r)
  PROVE  IInv'
<1> DEFINE i == request[r].rollout
           bad == rollouts[i]
           row == NewRollout(request[r].devices, request[r].user, i, bad.mockFirmware)
<1>1. /\ rollouts \in Seq(Rollout) /\ i \in DOMAIN rollouts /\ bad \in Rollout
      /\ i \in Nat /\ i # 0
  BY DEF IInv, TypeOK, CommitRollback, Found
<1>2. /\ request[r] \in Request /\ request[r].pc = "cancel" /\ request[r].user \in Users
      /\ campaign.exists
      /\ request[r].status = "completed" => bad.status \in Closed
  BY <1>1 DEF IInv, TypeOK, ReadsOK, HolderOK, AboutOK, CommitRollback
<1>3. row \in Rollout /\ row.status = "pending_approval" /\ row.rollbackOf = i
  <2>1. request[r].devices \subseteq Devices /\ bad.mockFirmware \in BOOLEAN
    BY <1>1, <1>2 DEF Request, Rollout
  <2> QED
    BY <1>1, <1>2, <2>1 DEF NewRollout, Rollout, Status, Open
<1>4. Finish(r) /\ campaign' = campaign
  BY DEF CommitRollback
<1>5. \A j \in DOMAIN rollouts :
        rollouts[j].status \in {"approved"} \cup Ran => Approved(rollouts[j])
  BY DEF IInv, RowsApproved
<1>6. CASE request[r].status = "completed"
  <2>1. rollouts' = Append(rollouts, row)
    BY <1>6 DEF CommitRollback
  <2>2. \A j \in DOMAIN rollouts : Evolves(rollouts[j], rollouts[j])
    BY DEF Evolves
  <2>3. bad.status \in Closed
    BY <1>2, <1>6
  <2> HIDE DEF row, i
  <2> QED
    BY <1>1, <1>2, <1>3, <1>4, <1>5, <2>1, <2>2, <2>3, AddStep DEF SharePcs
<1>7. CASE request[r].status # "completed" /\ bad.status = request[r].status
  <2> DEFINE base == [rollouts EXCEPT ![i].status = "cancelled"]
  <2>1. rollouts' = Append(base, row)
    BY <1>7 DEF CommitRollback
  <2>2. [bad EXCEPT !.status = "cancelled"] \in Rollout
    BY <1>1 DEF Rollout, Status, Closed
  <2>3. /\ base \in Seq(Rollout) /\ Len(base) = Len(rollouts) /\ DOMAIN base = DOMAIN rollouts
        /\ \A j \in DOMAIN rollouts :
             base[j] = IF j = i THEN [bad EXCEPT !.status = "cancelled"] ELSE rollouts[j]
    BY <1>1, <2>2
  <2>4. bad.status \in {"active", "paused"}
    BY <1>2, <1>7 DEF Request
  <2>5. /\ base[i].status = "cancelled" /\ base[i].creator = bad.creator
        /\ base[i].approver = bad.approver /\ base[i].devices = bad.devices
        /\ base[i].rollbackOf = bad.rollbackOf
    BY <1>1, <2>3 DEF Rollout
  <2>6. Approved(bad)
    BY <1>1, <1>5, <2>4 DEF Ran
  <2> HIDE DEF base, row
  <2>7. \A j \in DOMAIN rollouts :
          /\ Evolves(rollouts[j], base[j])
          /\ base[j].devices = rollouts[j].devices
          /\ base[j].rollbackOf = rollouts[j].rollbackOf
          /\ base[j].status \in {"approved"} \cup Ran => Approved(base[j])
    <3> SUFFICES ASSUME NEW j \in DOMAIN rollouts
                 PROVE  /\ Evolves(rollouts[j], base[j])
                        /\ base[j].devices = rollouts[j].devices
                        /\ base[j].rollbackOf = rollouts[j].rollbackOf
                        /\ base[j].status \in {"approved"} \cup Ran => Approved(base[j])
      OBVIOUS
    <3>1. CASE j = i
      BY <2>4, <2>5, <2>6, <3>1 DEF Evolves, Approved, Open, Closed, Ran
    <3>2. CASE j # i
      BY <1>5, <2>3, <3>2 DEF Evolves
    <3> QED
      BY <3>1, <3>2
  <2>8. base[i].status \in Closed
    BY <2>5 DEF Closed
  <2> HIDE DEF i
  <2> QED
    BY <1>1, <1>2, <1>3, <1>4, <2>1, <2>3, <2>7, <2>8, AddStep DEF SharePcs
<1>8. CASE request[r].status # "completed" /\ bad.status # request[r].status
  BY <1>8, FinishStep DEF CommitRollback
<1> QED
  BY <1>6, <1>7, <1>8

-----------------------------------------------------------------------------
(* The invariant holds *)

LEMMA NextInv ==
  ASSUME IInv, [Next]_vars
  PROVE  IInv'
<1>1. ASSUME NEW r \in Requests, Create(r) PROVE IInv'
  BY <1>1, StartCreateInv, LockForCreateInv, CommitCreateInv DEF Create
<1>2. ASSUME NEW r \in Requests, Edit(r) PROVE IInv'
  BY <1>2, StartEditInv, LockForEditInv, CheckOpenInv, CommitAddInv, CommitRemoveInv,
     CommitDeleteInv DEF Edit
<1>3. ASSUME NEW r \in Requests, Decide(r) PROVE IInv'
  BY <1>3, StartApproveInv, StartRejectInv, ApproveInv, RejectInv DEF Decide
<1>4. ASSUME NEW r \in Requests, Run(r) PROVE IInv'
  BY <1>4, ActivateInv, FinishSwitchingInv DEF Run, Release, Resume
<1>5. ASSUME NEW r \in Requests, Rollback(r) PROVE IInv'
  BY <1>5, StartRollbackInv, ListAffectedInv, LockForRollbackInv, CommitRollbackInv DEF Rollback
<1>6. ASSUME NEW r \in Requests, Drop(r) PROVE IInv'
  BY <1>6, FinishStep DEF Drop
<1>7. CASE Move
  BY <1>7, MoveOnInv DEF Move, Report
<1>8. CASE UNCHANGED vars
  <2>1. TypeOK' /\ LocksExclude' /\ GoneIsEmpty' /\ RowsApproved' /\ RolledBackIsClosed'
    BY <1>8 DEF IInv, TypeOK, LocksExclude, GoneIsEmpty, RowsApproved, RolledBackIsClosed, vars
  <2>2. OneCreatedAtATime' /\ TargetsAreMembers'
    BY <1>8 DEF IInv, OneCreatedAtATime, TargetsAreMembers, OpenRollouts, vars
  <2>3. ReadsOK'
    BY <1>8 DEF IInv, ReadsOK, SnapshotOK, HolderOK, AboutOK, vars
  <2> QED
    BY <2>1, <2>2, <2>3 DEF IInv
<1> QED
  BY <1>1, <1>2, <1>3, <1>4, <1>5, <1>6, <1>7, <1>8 DEF Next

\* What the requests have read, the locks they hold and the rows they left
\* behind stay right together, for any number of them
THEOREM Invariance == Spec => []IInv
<1>1. Init => IInv
  BY InitInv
<1>2. IInv /\ [Next]_vars => IInv'
  BY NextInv
<1> QED
  BY <1>1, <1>2, PTL DEF Spec

\* Rows and requests keep their types
THEOREM TypeCorrectness == Spec => []TypeOK
<1>1. IInv => TypeOK
  BY DEF IInv
<1> QED
  BY <1>1, Invariance, PTL

\* create() in a SERIALIZABLE transaction: two that run together never both add
\* an open rollout
THEOREM CreateIsExclusive == Spec => []OneCreatedAtATime
<1>1. IInv => OneCreatedAtATime
  BY DEF IInv
<1> QED
  BY <1>1, Invariance, PTL

\* The targets of an open rollout belong to its group, whatever was edited
\* between the reads of create() and its commit
THEOREM OpenTargetsAreMembers == Spec => []TargetsAreMembers
<1>1. IInv => TargetsAreMembers
  BY DEF IInv
<1> QED
  BY <1>1, Invariance, PTL

\* What a rollback rolls back is closed
THEOREM RollbackCloses == Spec => []RolledBackIsClosed
<1>1. IInv => RolledBackIsClosed
  BY DEF IInv
<1> QED
  BY <1>1, Invariance, PTL

\* Whoever reaches the devices was approved by another user or a SuperAdmin
THEOREM SeparationOfDuty == Spec => []FourEyes
<1>1. IInv => FourEyes
  BY DEF IInv, RowsApproved, FourEyes, Approved, Ran, Closed
<1> QED
  BY <1>1, Invariance, PTL

\* No edit of the group commits while one of its rollouts is open
THEOREM OpenRolloutHoldsGroup == Spec => GroupHoldsStill
<1>1. ASSUME IInv, Next, OpenRollouts # {}
      PROVE  campaign'.members = campaign.members /\ campaign'.exists = campaign.exists
  <2>1. \A r \in Requests : request[r].pc \notin {"add", "remove", "delete"}
    BY <1>1 DEF IInv, ReadsOK, HolderOK, OpenRollouts
  <2>2. campaign' = campaign
    <3>1. ASSUME NEW r \in Requests, Create(r) PROVE campaign' = campaign
      BY <3>1 DEF Create, StartCreate, LockForCreate, CommitCreate
    <3>2. ASSUME NEW r \in Requests, Edit(r) PROVE campaign' = campaign
      BY <2>1, <3>2 DEF Edit, StartEdit, LockForEdit, CheckOpen, CommitAdd, CommitRemove, CommitDelete
    <3>3. ASSUME NEW r \in Requests, Decide(r) PROVE campaign' = campaign
      BY <3>3 DEF Decide, StartApprove, StartReject, Approve, Reject
    <3>4. ASSUME NEW r \in Requests, Run(r) PROVE campaign' = campaign
      BY <3>4 DEF Run, Release, Resume, Activate, FinishSwitching
    <3>5. ASSUME NEW r \in Requests, Rollback(r) PROVE campaign' = campaign
      BY <3>5 DEF Rollback, StartRollback, ListAffected, LockForRollback, CommitRollback
    <3>6. ASSUME NEW r \in Requests, Drop(r) PROVE campaign' = campaign
      BY <3>6 DEF Drop
    <3>7. CASE Move
      BY <3>7 DEF Move, Report
    <3> QED
      BY <1>1, <3>1, <3>2, <3>3, <3>4, <3>5, <3>6, <3>7 DEF Next
  <2> QED
    BY <2>2
<1>2. IInv /\ [Next]_vars =>
        [OpenRollouts # {} =>
           campaign'.members = campaign.members /\ campaign'.exists = campaign.exists]_vars
  BY <1>1
<1> QED
  BY <1>2, Invariance, PTL DEF Spec, GroupHoldsStill

-----------------------------------------------------------------------------
(* Decisions stand *)

\* what NeverReopened says of one rollout
Stands(was, is) ==
  /\ was = "rejected" => is = "rejected"
  /\ was \in Closed => is \in Closed
  /\ was # is /\ is = "approved" => was = "pending_approval"
  /\ was # is /\ is = "active" => was \in {"approved", "paused"}

AllStand ==
  \A i \in DOMAIN rollouts \cap DOMAIN rollouts' : Stands(rollouts[i].status, rollouts'[i].status)

\* one status changes
LEMMA MoveStands ==
  ASSUME rollouts \in Seq(Rollout), NEW i \in DOMAIN rollouts, NEW status, MoveTo(i, status),
         Stands(rollouts[i].status, status)
  PROVE  AllStand
<1>1. \A j \in DOMAIN rollouts \cap DOMAIN rollouts' :
        rollouts'[j].status = IF j = i THEN status ELSE rollouts[j].status
  <2>1. \A j \in DOMAIN rollouts : rollouts[j] \in Rollout
    OBVIOUS
  <2> QED
    BY <2>1 DEF MoveTo, Rollout
<1> QED
  BY <1>1 DEF AllStand, Stands

\* a rollout is added to rows that stand
LEMMA AppendStands ==
  ASSUME rollouts \in Seq(Rollout), NEW base \in Seq(Rollout), NEW row \in Rollout,
         rollouts' = Append(base, row), Len(base) = Len(rollouts),
         \A i \in DOMAIN rollouts : Stands(rollouts[i].status, base[i].status)
  PROVE  AllStand
<1>1. \A i \in DOMAIN rollouts : rollouts'[i] = base[i]
  OBVIOUS
<1> QED
  BY <1>1 DEF AllStand

LEMMA SameStands ==
  ASSUME UNCHANGED rollouts
  PROVE  AllStand
BY DEF AllStand, Stands

LEMMA ApproveStands ==
  ASSUME IInv, NEW r \in Requests, Approve(r)
  PROVE  AllStand
<1> DEFINE i == request[r].rollout
<1>1. CASE Found(r) /\ rollouts[i].status = "pending_approval"
  <2>1. rollouts \in Seq(Rollout) /\ i \in DOMAIN rollouts /\ rollouts[i] \in Rollout
    BY <1>1 DEF IInv, TypeOK, Found
  <2>2. \A j \in DOMAIN rollouts \cap DOMAIN rollouts' :
          rollouts'[j].status = IF j = i THEN "approved" ELSE rollouts[j].status
    BY <1>1, <2>1 DEF Approve, Rollout
  <2> QED
    BY <1>1, <2>2 DEF AllStand, Stands, Closed
<1>2. CASE ~(Found(r) /\ rollouts[i].status = "pending_approval")
  BY <1>2, SameStands DEF Approve
<1> QED
  BY <1>1, <1>2

LEMMA CommitRollbackStands ==
  ASSUME IInv, NEW r \in Requests, CommitRollback(r)
  PROVE  AllStand
<1> DEFINE i == request[r].rollout
           bad == rollouts[i]
           row == NewRollout(request[r].devices, request[r].user, i, bad.mockFirmware)
<1>1. /\ rollouts \in Seq(Rollout) /\ i \in DOMAIN rollouts /\ bad \in Rollout
      /\ i \in Nat /\ request[r] \in Request /\ request[r].user \in Users
  BY DEF IInv, TypeOK, CommitRollback, Found, ReadsOK, AboutOK
<1>2. row \in Rollout
  <2>1. request[r].devices \subseteq Devices /\ bad.mockFirmware \in BOOLEAN
    BY <1>1 DEF Request, Rollout
  <2> QED
    BY <1>1, <2>1 DEF NewRollout, Rollout, Status, Open
<1>3. CASE request[r].status = "completed"
  <2>1. rollouts' = Append(rollouts, row)
    BY <1>3 DEF CommitRollback
  <2>2. \A j \in DOMAIN rollouts : Stands(rollouts[j].status, rollouts[j].status)
    BY DEF Stands
  <2> HIDE DEF row
  <2> QED
    BY <1>1, <1>2, <2>1, <2>2, AppendStands
<1>4. CASE request[r].status # "completed" /\ bad.status = request[r].status
  <2> DEFINE base == [rollouts EXCEPT ![i].status = "cancelled"]
  <2>1. rollouts' = Append(base, row)
    BY <1>4 DEF CommitRollback
  <2>2. [bad EXCEPT !.status = "cancelled"] \in Rollout
    BY <1>1 DEF Rollout, Status, Closed
  <2>3. /\ base \in Seq(Rollout) /\ Len(base) = Len(rollouts)
        /\ \A j \in DOMAIN rollouts :
             base[j] = IF j = i THEN [bad EXCEPT !.status = "cancelled"] ELSE rollouts[j]
    BY <1>1, <2>2
  <2>4. bad.status \in {"active", "paused"} /\ base[i].status = "cancelled"
    BY <1>1, <1>4, <2>3 DEF Request, Rollout
  <2>5. \A j \in DOMAIN rollouts : Stands(rollouts[j].status, base[j].status)
    BY <2>3, <2>4 DEF Stands, Closed
  <2> HIDE DEF base, row
  <2> QED
    BY <1>1, <1>2, <2>1, <2>3, <2>5, AppendStands
<1>5. CASE request[r].status # "completed" /\ bad.status # request[r].status
  BY <1>5, SameStands DEF CommitRollback
<1> QED
  BY <1>3, <1>4, <1>5

\* The first of two decisions on a rollout counts and what is closed stays closed
THEOREM DecisionsStand == Spec => NeverReopened
<1>1. ASSUME IInv, Next PROVE AllStand
  <2>1. ASSUME NEW r \in Requests, Create(r) PROVE AllStand
    <3>1. ASSUME NEW devices \in SUBSET Devices, NEW mockFirmware \in BOOLEAN,
                 CommitCreate(r, devices, mockFirmware)
          PROVE  AllStand
      <4>1. CASE request[r].open \/ Conflicting(r)
        BY <3>1, <4>1, SameStands DEF CommitCreate
      <4>2. CASE ~(request[r].open \/ Conflicting(r))
        <5>1. request[r].user \in Users /\ rollouts \in Seq(Rollout)
          BY <1>1, <3>1 DEF IInv, TypeOK, ReadsOK, SnapshotOK, CommitCreate
        <5>2. NewRollout(devices, request[r].user, 0, mockFirmware) \in Rollout
          BY <5>1 DEF NewRollout, Rollout, Status, Open
        <5>3. \A j \in DOMAIN rollouts : Stands(rollouts[j].status, rollouts[j].status)
          BY DEF Stands
        <5> QED
          BY <3>1, <4>2, <5>1, <5>2, <5>3, AppendStands DEF CommitCreate
      <4> QED
        BY <4>1, <4>2
    <3> QED
      BY <2>1, <3>1, SameStands DEF Create, StartCreate, LockForCreate
  <2>2. ASSUME NEW r \in Requests, Edit(r) PROVE AllStand
    <3>1. CASE CommitDelete(r)
      BY <3>1 DEF CommitDelete, AllStand
    <3> QED
      BY <2>2, <3>1, SameStands DEF Edit, StartEdit, LockForEdit, CheckOpen, CommitAdd, CommitRemove
  <2>3. ASSUME NEW r \in Requests, Decide(r) PROVE AllStand
    <3>1. CASE Reject(r)
      <4>1. CASE UNCHANGED rollouts
        BY <4>1, SameStands
      <4>2. CASE /\ Found(r) /\ MoveTo(request[r].rollout, "rejected")
                 /\ rollouts[request[r].rollout].status \in {"pending_approval", "approved"}
        BY <1>1, <4>2, MoveStands DEF Found, Stands, Closed, IInv, TypeOK
      <4> QED
        BY <3>1, <4>1, <4>2 DEF Reject
    <3> QED
      BY <1>1, <2>3, <3>1, ApproveStands, SameStands DEF Decide, StartApprove, StartReject
  <2>4. ASSUME NEW r \in Requests, Run(r) PROVE AllStand
    <3>1. ASSUME NEW i \in DOMAIN rollouts, Release(r, i) \/ Resume(r, i)
          PROVE  AllStand
      BY <1>1, <3>1, MoveStands DEF Release, Resume, Activate, Stands, Closed, IInv, TypeOK
    <3>2. CASE FinishSwitching(r)
      <4>1. CASE Found(r)
        <5>1. rollouts[request[r].rollout].status \in Ran
          BY <1>1, <3>2, <4>1 DEF IInv, ReadsOK, AboutOK, FinishSwitching, Found
        <5>2. Stands(rollouts[request[r].rollout].status, "completed")
          BY <5>1 DEF Stands, Ran, Closed
        <5> QED
          BY <1>1, <3>2, <4>1, <5>2, MoveStands DEF FinishSwitching, Found, IInv, TypeOK
      <4>2. CASE ~Found(r)
        BY <3>2, <4>2, SameStands DEF FinishSwitching
      <4> QED
        BY <4>1, <4>2
    <3> QED
      BY <2>4, <3>1, <3>2 DEF Run
  <2>5. ASSUME NEW r \in Requests, Rollback(r) PROVE AllStand
    BY <1>1, <2>5, CommitRollbackStands, SameStands
       DEF Rollback, StartRollback, ListAffected, LockForRollback
  <2>6. ASSUME NEW r \in Requests, Drop(r) PROVE AllStand
    BY <2>6, SameStands DEF Drop
  <2>7. CASE Move
    <3>1. PICK i \in DOMAIN rollouts, status \in {"active", "paused", "completed"} :
            rollouts[i].status \in {"active", "paused"} /\ MoveTo(i, status)
      BY <2>7 DEF Move, Report
    <3>2. Stands(rollouts[i].status, status)
      BY <3>1 DEF Stands, Closed
    <3> QED
      BY <1>1, <3>1, <3>2, MoveStands DEF IInv, TypeOK
  <2> QED
    BY <1>1, <2>1, <2>2, <2>3, <2>4, <2>5, <2>6, <2>7 DEF Next
<1>2. IInv /\ [Next]_vars =>
        [\A i \in DOMAIN rollouts \cap DOMAIN rollouts' :
           LET was == rollouts[i].status  is == rollouts'[i].status
           IN  /\ was = "rejected" => is = "rejected"
               /\ was \in Closed => is \in Closed
               /\ was # is /\ is = "approved" => was = "pending_approval"
               /\ was # is /\ is = "active" => was \in {"approved", "paused"}]_vars
  BY <1>1 DEF AllStand, Stands
<1> QED
  BY <1>2, Invariance, PTL DEF Spec, NeverReopened
=============================================================================
