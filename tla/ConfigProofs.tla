---------------------------- MODULE ConfigProofs ----------------------------
(* Proofs about the two components that keep Configs: ConfigLifecycle, for    *)
(* any Configs, rows, requests and calls, and ConfigOverrides: whatever       *)
(* requests overlap, a decision stands, and what technicians apply is marked  *)
(* as used only if it was given to the device; if they do not overlap, the    *)
(* rules of the rows hold.  The two components share no state.                *)
EXTENDS ConfigLifecycle, SerialOverrides, WellFoundedInduction, TLAPS

-----------------------------------------------------------------------------
(* The inductive invariant *)

\* what the locks keep: a locked row is live, and who removes is alone with it
LocksHold ==
  /\ \A w \in Callers :
       Is(w, "refer", "locked") \/ Is(w, "remove", "locked")
         => Live(call[w].config)
  /\ \A v, w \in Callers :
       /\ v # w
       /\ Is(v, "remove", "locked")
       /\ Is(w, "refer", "locked") \/ Is(w, "remove", "locked")
       => call[v].config # call[w].config

\* an approved Config has a version, and a Config with a version keeps its row
VersionsKept ==
  \A c \in Configs :
    /\ config[c].status = "approved" => versions[c] > 0
    /\ versions[c] > 0 => Exists(c)

\* what a call remembers of the Config stays true
CallsKnow ==
  \A w \in Callers :
    /\ call[w].op = "refer" => versions[call[w].config] > 0
    /\ call[w].op = "release" =>
         /\ call[w].seen \in Uses
         /\ use[call[w].seen].config = call[w].config
         /\ use[call[w].seen].stage # "none"

\* a candidate of the running sweep has no pending request
SweepIsNew ==
  \A r \in Requests : request[r].config \in sweep => ~Pending(r)

IInv ==
  /\ TypeOK
  /\ LocksHold
  /\ VersionsKept
  /\ CallsKnow
  /\ RemovedIsUnused
  /\ UsesHaveVersions
  /\ SweepIsNew
  /\ AskedOnce

LEMMA IdleIsIdle ==
  /\ Idle \in Call
  /\ Idle.op = "idle"
BY DEF Idle, Call

LEMMA InitInv == Init => IInv
<1> SUFFICES ASSUME Init PROVE IInv
  OBVIOUS
<1>1. \A w \in Callers : call[w] = Idle /\ call[w].op = "idle"
  BY IdleIsIdle DEF Init
<1>2. TypeOK
  <2>1. config \in [Configs -> Row] /\ versions \in [Configs -> Nat]
    BY DEF Init, Row
  <2>2. use \in [Uses -> Use] /\ request \in [Requests -> DeletionRequest]
    BY DEF Init
  <2>3. call \in [Callers -> Call] /\ sweep \subseteq Configs
    BY IdleIsIdle DEF Init
  <2> QED
    BY <2>1, <2>2, <2>3 DEF TypeOK
<1>3. LocksHold /\ CallsKnow
  BY <1>1 DEF LocksHold, CallsKnow, Is
<1>4. VersionsKept
  <2>1. \A c \in Configs : config[c].status = "none" /\ versions[c] = 0
    BY DEF Init
  <2>2. ASSUME NEW c \in Configs
        PROVE  ~(versions[c] > 0)
    <3>1. versions[c] \in Int /\ versions[c] = 0
      BY <2>1
    <3> QED
      BY <3>1
  <2>3. \A c \in Configs : config[c].status # "approved"
    BY <2>1
  <2> QED
    BY <2>2, <2>3 DEF VersionsKept
<1>5. RemovedIsUnused /\ UsesHaveVersions
  BY DEF RemovedIsUnused, UsesHaveVersions, Init
<1>6. SweepIsNew /\ AskedOnce
  BY DEF SweepIsNew, AskedOnce, Pending, Init
<1> QED
  BY <1>2, <1>3, <1>4, <1>5, <1>6 DEF IInv

-----------------------------------------------------------------------------
(* Steps of a call that write nothing *)

\* They keep the invariant if what the call now holds and remembers is right.
LEMMA CallStep ==
  ASSUME IInv, NEW w \in Callers, NEW new \in Call,
         call' = [call EXCEPT ![w] = new],
         UNCHANGED <<config, versions, use, request, sweep>>,
         new.op = "refer" => versions[new.config] > 0,
         new.op = "release" =>
           /\ new.seen \in Uses
           /\ use[new.seen].config = new.config
           /\ use[new.seen].stage # "none",
         (new.op = "refer" /\ new.at = "locked") =>
           /\ Live(new.config)
           /\ LockedBy(new.config, "remove") = {},
         (new.op = "remove" /\ new.at = "locked") =>
           /\ Live(new.config)
           /\ Unlocked(new.config)
  PROVE  IInv'
<1>1. \A v \in Callers : call'[v] = IF v = w THEN new ELSE call[v]
  BY DEF IInv, TypeOK
<1>2. TypeOK'
  BY DEF IInv, TypeOK
<1>3. LocksHold'
  BY <1>1 DEF IInv, LocksHold, Is, Live, Exists, LockedBy, Unlocked
<1>4. CallsKnow'
  BY <1>1 DEF IInv, CallsKnow
<1>5. VersionsKept' /\ RemovedIsUnused' /\ UsesHaveVersions'
  BY DEF IInv, VersionsKept, RemovedIsUnused, UsesHaveVersions, Exists
<1>6. SweepIsNew' /\ AskedOnce'
  BY DEF IInv, SweepIsNew, AskedOnce, Pending
<1> QED
  BY <1>2, <1>3, <1>4, <1>5, <1>6 DEF IInv

-----------------------------------------------------------------------------
(* Steps that end a call, or that no call takes *)

\* Calls stay or end; what is locked by those that stay is live as before.
LEMMA CallsKeep ==
  ASSUME IInv,
         \A v \in Callers : call'[v] = call[v] \/ call'[v] = Idle,
         \A v \in Callers :
           /\ call'[v] = call[v]
           /\ Is(v, "refer", "locked") \/ Is(v, "remove", "locked")
           => Live(call[v].config)',
         \A c \in Configs : versions[c] > 0 => versions'[c] > 0,
         \A u \in Uses : /\ use'[u].config = use[u].config
                         /\ use[u].stage # "none" => use'[u].stage # "none"
  PROVE  LocksHold' /\ CallsKnow'
<1>1. \A v \in Callers :
        /\ call'[v].op # "idle" => call'[v] = call[v]
        /\ call[v].op \in {"refer", "remove"} => call[v].config \in Configs
  BY IdleIsIdle DEF IInv, TypeOK, Call, ConfigOps, RequestOps
<1>2. LocksHold'
  BY <1>1 DEF IInv, LocksHold, Is
<1>3. CallsKnow'
  BY <1>1 DEF IInv, CallsKnow
<1> QED
  BY <1>2, <1>3

\* The rows stay, no Config is newly removed, no row newly refers to one.
LEMMA RowsKeep ==
  ASSUME IInv,
         \A c \in Configs :
           /\ Exists(c) => Exists(c)'
           /\ versions[c] > 0 => versions'[c] > 0
           /\ versions'[c] > 0 => versions[c] > 0 \/ Exists(c)'
           /\ config'[c].status = "approved" =>
                config[c].status = "approved" \/ versions'[c] > 0
           /\ config'[c].deleted = "removed" => config[c].deleted = "removed",
         \A u \in Uses :
           /\ use'[u].config = use[u].config
           /\ use'[u].stage # "none" => use[u].stage # "none"
           /\ use'[u].stage = "open" => use[u].stage = "open"
  PROVE  VersionsKept' /\ RemovedIsUnused' /\ UsesHaveVersions'
<1>1. \A u \in Uses : use[u].config \in Configs
  BY DEF IInv, TypeOK, Use
<1>2. VersionsKept'
  BY DEF IInv, VersionsKept
<1>3. RemovedIsUnused'
  BY <1>1 DEF IInv, RemovedIsUnused
<1>4. UsesHaveVersions'
  BY <1>1 DEF IInv, UsesHaveVersions
<1> QED
  BY <1>2, <1>3, <1>4

\* No request is newly pending, no candidate is added.
LEMMA RequestsKeep ==
  ASSUME IInv, sweep' \subseteq sweep,
         \A r \in Requests : /\ request'[r].config = request[r].config
                             /\ Pending(r)' => Pending(r)
  PROVE  SweepIsNew' /\ AskedOnce'
BY DEF IInv, SweepIsNew, AskedOnce

\* A write of a row by a call that then returns.
LEMMA RowStep ==
  ASSUME IInv, NEW w \in Callers, NEW c \in Configs, NEW new \in Row,
         config' = [config EXCEPT ![c] = new], Return(w),
         UNCHANGED <<use, sweep>>,
         versions' \in [Configs -> Nat],
         \A d \in Configs : d # c => versions'[d] = versions[d],
         versions[c] > 0 => versions'[c] > 0,
         Exists(c), Unlocked(c), new.status \in {"draft", "testing", "approved"},
         new.status = "approved" =>
           config[c].status = "approved" \/ versions'[c] > 0,
         new.deleted = "removed" => config[c].deleted = "removed",
         request' \in [Requests -> DeletionRequest],
         \A r \in Requests : /\ request'[r].config = request[r].config
                             /\ Pending(r)' => Pending(r)
  PROVE  IInv'
<1>1. \A d \in Configs : config'[d] = IF d = c THEN new ELSE config[d]
  BY DEF IInv, TypeOK
<1>2. TypeOK'
  BY IdleIsIdle DEF IInv, TypeOK, Return
<1>3. \A d \in Configs : Exists(d) => Exists(d)'
  BY <1>1 DEF Exists
<1>4. Exists(c)'
  BY <1>1 DEF Exists
<1>5. VersionsKept' /\ RemovedIsUnused' /\ UsesHaveVersions'
  <2>1. \A d \in Configs :
          /\ versions[d] > 0 => versions'[d] > 0
          /\ versions'[d] > 0 => versions[d] > 0 \/ Exists(d)'
          /\ config'[d].status = "approved" =>
               config[d].status = "approved" \/ versions'[d] > 0
          /\ config'[d].deleted = "removed" => config[d].deleted = "removed"
    BY <1>1, <1>4
  <2> QED
    BY <1>3, <2>1, RowsKeep
<1>6. LocksHold' /\ CallsKnow'
  <2>1. \A v \in Callers : call'[v] = call[v] \/ call'[v] = Idle
    BY DEF IInv, TypeOK, Return
  <2>2. ASSUME NEW v \in Callers, call'[v] = call[v],
               Is(v, "refer", "locked") \/ Is(v, "remove", "locked")
        PROVE  Live(call[v].config)'
    <3>1. call[v].config # c /\ Live(call[v].config)
      BY <2>2 DEF IInv, LocksHold, Unlocked, LockedBy, Is
    <3>2. call[v].config \in Configs
      BY <2>2 DEF IInv, TypeOK, Call, ConfigOps, RequestOps, Idle, Is
    <3> QED
      BY <1>1, <2>2, <3>1, <3>2 DEF Live, Exists
  <2>3. \A d \in Configs : versions[d] > 0 => versions'[d] > 0
    OBVIOUS
  <2> QED
    BY <2>1, <2>2, <2>3, CallsKeep
<1>7. SweepIsNew' /\ AskedOnce'
  BY RequestsKeep
<1> QED
  BY <1>2, <1>5, <1>6, <1>7 DEF IInv

-----------------------------------------------------------------------------
(* One lemma for each group of actions *)

\* The types of a call in terms of its operation.
LEMMA CallTypes ==
  ASSUME TypeOK, NEW w \in Callers
  PROVE  /\ call[w] = Idle \/ call[w].config \in Configs
         /\ call[w].op \in ConfigOps => call[w] \in
              [op : ConfigOps, config : Configs,
               at : {"read", "counted", "locked"}, seen : Nat]
         /\ call[w].op = "release" => call[w] \in
              [op : {"release"}, config : Configs, at : {"read"}, seen : Uses]
         /\ call[w].op \in RequestOps => call[w] \in
              [op : RequestOps, config : Configs, at : {"read"},
               seen : Requests]
BY DEF TypeOK, Call, ConfigOps, RequestOps, Idle

LEMMA BeginStep ==
  ASSUME IInv, NEW w \in Callers, NEW op, NEW c \in Configs, NEW seen,
         Begin(w, op, c, seen),
         UNCHANGED <<config, versions, use, request, sweep>>,
         \/ op \in ConfigOps /\ seen \in Nat
         \/ op = "release" /\ seen \in Uses
         \/ op \in RequestOps /\ seen \in Requests,
         op = "refer" => versions[c] > 0,
         op = "release" => use[seen].config = c /\ use[seen].stage # "none"
  PROVE  IInv'
<1> DEFINE new == [op |-> op, config |-> c, at |-> "read", seen |-> seen]
<1>1. new \in Call
  BY DEF Call
<1>2. call' = [call EXCEPT ![w] = new]
  BY DEF Begin
<1>3. new.op = op /\ new.config = c /\ new.at = "read" /\ new.seen = seen
  OBVIOUS
<1> HIDE DEF new
<1>4. op = "release" => seen \in Uses
  BY DEF ConfigOps, RequestOps
<1> QED
  BY <1>1, <1>2, <1>3, <1>4, CallStep

LEMMA Reads ==
  ASSUME IInv, NEW w \in Callers,
         \/ \E c \in Configs, op \in {"decide", "approve", "reject", "update",
                                     "remove"} : Read(w, op, c)
         \/ \E c \in Configs : ReadToRefer(w, c)
         \/ \E u \in Uses : ReadToRelease(w, u)
         \/ \E r \in Requests, op \in RequestOps : ReadRequest(w, op, r)
  PROVE  IInv'
<1>1. ASSUME NEW c \in Configs, NEW op \in {"decide", "approve", "reject",
                                           "update", "remove"},
             Read(w, op, c)
      PROVE  IInv'
  <2>1. /\ Begin(w, op, c, 0) /\ op \in ConfigOps
        /\ op # "refer" /\ op # "release"
        /\ UNCHANGED <<config, versions, use, request, sweep>>
    BY <1>1 DEF Read, ConfigOps
  <2> QED
    BY <2>1, BeginStep
<1>2. ASSUME NEW c \in Configs, ReadToRefer(w, c)
      PROVE  IInv'
  <2>1. /\ Begin(w, "refer", c, 0) /\ "refer" \in ConfigOps
        /\ UNCHANGED <<config, versions, use, request, sweep>>
    BY <1>2 DEF ReadToRefer, ConfigOps
  <2>2. versions[c] > 0
    BY <1>2 DEF ReadToRefer, UsesOf, IInv, VersionsKept, UsesHaveVersions
  <2> QED
    BY <2>1, <2>2, BeginStep
<1>3. ASSUME NEW u \in Uses, ReadToRelease(w, u)
      PROVE  IInv'
  <2>1. /\ Begin(w, "release", use[u].config, u)
        /\ use[u].stage # "none"
        /\ UNCHANGED <<config, versions, use, request, sweep>>
    BY <1>3 DEF ReadToRelease
  <2>2. use[u].config \in Configs
    BY DEF IInv, TypeOK, Use
  <2> QED
    BY <2>1, <2>2, BeginStep
<1>4. ASSUME NEW r \in Requests, NEW op \in RequestOps, ReadRequest(w, op, r)
      PROVE  IInv'
  <2>1. /\ Begin(w, op, request[r].config, r)
        /\ op # "refer" /\ op # "release"
        /\ UNCHANGED <<config, versions, use, request, sweep>>
    BY <1>4 DEF ReadRequest, RequestOps
  <2>2. request[r].config \in Configs
    BY DEF IInv, TypeOK, DeletionRequest
  <2> QED
    BY <2>1, <2>2, BeginStep
<1> QED
  BY <1>1, <1>2, <1>3, <1>4

\* Steps of a call within its transaction.
LEMMA Locking ==
  ASSUME IInv, NEW w \in Callers,
         \/ CountVersions(w)
         \/ LockConfigForReference(w)
         \/ LockConfigForDelete(w)
         \/ Fail(w)
  PROVE  IInv'
<1>1. CASE CountVersions(w)
  <2> DEFINE new == [call[w] EXCEPT !.at = "counted",
                                    !.seen = versions[call[w].config]]
  <2>1. call[w] \in [op : ConfigOps, config : Configs,
                     at : {"read", "counted", "locked"}, seen : Nat]
        /\ call[w].op = "approve"
    BY <1>1, CallTypes DEF IInv, CountVersions, Is, ConfigOps
  <2>2. new \in Call /\ new.op = "approve"
    BY <2>1 DEF IInv, TypeOK, Call
  <2>3. call' = [call EXCEPT ![w] = new]
    BY <1>1 DEF CountVersions
  <2>4. UNCHANGED <<config, versions, use, request, sweep>>
    BY <1>1 DEF CountVersions
  <2> HIDE DEF new
  <2> QED
    BY <2>2, <2>3, <2>4, CallStep
<1>2. CASE LockConfigForReference(w)
  <2> DEFINE new == [call[w] EXCEPT !.at = "locked"]
  <2>1. call[w] \in [op : ConfigOps, config : Configs,
                     at : {"read", "counted", "locked"}, seen : Nat]
        /\ call[w].op = "refer"
    BY <1>2, CallTypes DEF IInv, LockConfigForReference, Is, ConfigOps
  <2>2. new \in Call /\ new.op = "refer" /\ new.config = call[w].config
    BY <2>1 DEF Call
  <2>3. call' = [call EXCEPT ![w] = new]
    BY <1>2 DEF LockConfigForReference
  <2>4. /\ UNCHANGED <<config, versions, use, request, sweep>>
        /\ Live(call[w].config) /\ LockedBy(call[w].config, "remove") = {}
    BY <1>2 DEF LockConfigForReference
  <2>5. versions[call[w].config] > 0
    BY <2>1 DEF IInv, CallsKnow
  <2> HIDE DEF new
  <2> QED
    BY <2>2, <2>3, <2>4, <2>5, CallStep
<1>3. CASE LockConfigForDelete(w)
  <2> DEFINE new == [call[w] EXCEPT !.at = "locked"]
  <2>1. call[w] \in [op : ConfigOps, config : Configs,
                     at : {"read", "counted", "locked"}, seen : Nat]
        /\ call[w].op = "remove"
    BY <1>3, CallTypes DEF IInv, LockConfigForDelete, Is, ConfigOps
  <2>2. new \in Call /\ new.op = "remove" /\ new.config = call[w].config
    BY <2>1 DEF Call
  <2>3. call' = [call EXCEPT ![w] = new]
    BY <1>3 DEF LockConfigForDelete
  <2>4. /\ UNCHANGED <<config, versions, use, request, sweep>>
        /\ Live(call[w].config) /\ Unlocked(call[w].config)
    BY <1>3 DEF LockConfigForDelete
  <2> HIDE DEF new
  <2> QED
    BY <2>2, <2>3, <2>4, CallStep
<1>4. CASE Fail(w)
  <2>1. /\ call' = [call EXCEPT ![w] = Idle]
        /\ UNCHANGED <<config, versions, use, request, sweep>>
    BY <1>4 DEF Fail, Return
  <2> QED
    BY <2>1, IdleIsIdle, CallStep
<1> QED
  BY <1>1, <1>2, <1>3, <1>4

\* Writes of the row by id.
LEMMA Writes ==
  ASSUME IInv, NEW w \in Callers,
         Decide(w) \/ Reject(w) \/ Update(w) \/ Approve(w)
  PROVE  IInv'
<1> DEFINE c == call[w].config
<1>1. c \in Configs
  BY CallTypes, IdleIsIdle
  DEF IInv, Decide, Reject, Update, Approve, SetStatus, Is
<1>2. config[c] \in Row
  BY <1>1 DEF IInv, TypeOK
<1>3. UNCHANGED <<use, sweep, request>> /\ Return(w) /\ Exists(c) /\ Unlocked(c)
  BY DEF Decide, Reject, Update, Approve, SetStatus
<1>4. /\ request' \in [Requests -> DeletionRequest]
      /\ \A r \in Requests : /\ request'[r].config = request[r].config
                             /\ Pending(r)' => Pending(r)
  BY <1>3 DEF IInv, TypeOK, Pending
<1>5. ASSUME NEW op, NEW status \in {"draft", "testing"},
             SetStatus(w, op, status)
      PROVE  IInv'
  <2> DEFINE new == [[config[c] EXCEPT !.status = status] EXCEPT !.idle = FALSE]
  <2>1. /\ new \in Row /\ new.status = status
        /\ new.deleted = config[c].deleted
    BY <1>2 DEF Row
  <2>2. config' = [config EXCEPT ![c] = new] /\ versions' = versions
    BY <1>5 DEF SetStatus, Touched
  <2>3. versions' \in [Configs -> Nat]
    BY <2>2 DEF IInv, TypeOK
  <2> HIDE DEF new, c
  <2> QED
    BY <1>1, <1>3, <1>4, <2>1, <2>2, <2>3, RowStep
<1>6. CASE Decide(w) \/ Reject(w)
  BY <1>5, <1>6 DEF Decide, Reject
<1>7. CASE Update(w)
  <2> DEFINE new == [config[c] EXCEPT !.idle = FALSE]
  <2>1. /\ new \in Row /\ new.status = config[c].status
        /\ new.deleted = config[c].deleted
    BY <1>2 DEF Row
  <2>2. config' = [config EXCEPT ![c] = new] /\ versions' = versions
    BY <1>7 DEF Update, Touched
  <2>3. versions' \in [Configs -> Nat]
    BY <2>2 DEF IInv, TypeOK
  <2>4. new.status \in {"draft", "testing", "approved"}
    BY <1>2, <1>3, <2>1 DEF Row, Exists
  <2> HIDE DEF new, c
  <2> QED
    BY <1>1, <1>3, <1>4, <2>1, <2>2, <2>3, <2>4, RowStep
<1>8. CASE Approve(w)
  <2> DEFINE new == [[config[c] EXCEPT !.status = "approved"]
                       EXCEPT !.idle = FALSE]
  <2>1. /\ new \in Row /\ new.status = "approved"
        /\ new.deleted = config[c].deleted
    BY <1>2 DEF Row
  <2>2. /\ config' = [config EXCEPT ![c] = new]
        /\ versions' = [versions EXCEPT ![c] = versions[c] + 1]
    BY <1>8 DEF Approve, Touched
  <2>3. versions \in [Configs -> Nat] /\ versions[c] \in Nat
    BY <1>1 DEF IInv, TypeOK
  <2>4. /\ versions' \in [Configs -> Nat]
        /\ versions'[c] = versions[c] + 1
        /\ \A d \in Configs : d # c => versions'[d] = versions[d]
    BY <1>1, <2>2, <2>3
  <2>5. versions'[c] > 0
    BY <2>3, <2>4
  <2> HIDE DEF new, c
  <2> QED
    BY <1>1, <1>3, <1>4, <2>1, <2>2, <2>4, <2>5, RowStep
<1> QED
  BY <1>6, <1>7, <1>8

\* Decisions about deletion requests.
LEMMA Decisions ==
  ASSUME IInv, NEW w \in Callers,
         Grant(w) \/ Refuse(w) \/ Keep(w)
  PROVE  IInv'
<1> DEFINE c == call[w].config
           r == call[w].seen
<1>1. c \in Configs /\ r \in Requests
  BY CallTypes
  DEF IInv, Grant, Refuse, Keep, DecideRequest, Is, RequestOps
<1>2. config[c] \in Row
  BY <1>1 DEF IInv, TypeOK
<1>3. UNCHANGED <<use, sweep, versions>> /\ Return(w)
  BY DEF Grant, Refuse, Keep, DecideRequest
<1>4. PICK status \in {"approved", "rejected", "cancelled"} :
        request' = [request EXCEPT ![r].status = status,
                                   ![r].cooling = @ \/ status = "rejected"]
  BY DEF Grant, Refuse, Keep, DecideRequest
<1>5. /\ request' \in [Requests -> DeletionRequest]
      /\ \A q \in Requests : /\ request'[q].config = request[q].config
                             /\ Pending(q)' => Pending(q)
  <2>1. request \in [Requests -> DeletionRequest]
    BY DEF IInv, TypeOK
  <2> DEFINE row == [request[r] EXCEPT !.status = status,
                       !.cooling = request[r].cooling \/ status = "rejected"]
  <2>2. row \in DeletionRequest /\ row.config = request[r].config
        /\ row.status = status
    BY <1>1, <2>1 DEF DeletionRequest
  <2>3. request' = [request EXCEPT ![r] = row]
    BY <1>1, <1>4, <2>1
  <2> HIDE DEF row, r
  <2> QED
    BY <1>1, <2>1, <2>2, <2>3 DEF Pending
<1>6. versions' \in [Configs -> Nat]
  BY <1>3 DEF IInv, TypeOK
<1>7. CASE Grant(w) \/ Keep(w)
  <2>1. PICK deleted \in {"no", "removed", "granted"} :
          /\ deleted = "removed" => config[c].deleted = "removed"
          /\ config' = Touched(c, [config[c] EXCEPT !.deleted = deleted])
    <3>1. CASE Grant(w)
      BY <1>2, <3>1 DEF Grant, Row
    <3>2. CASE Keep(w)
      BY <1>2, <3>2 DEF Keep, Row
    <3> QED
      BY <1>7, <3>1, <3>2
  <2> DEFINE new == [[config[c] EXCEPT !.deleted = deleted]
                       EXCEPT !.idle = FALSE]
  <2>2. /\ new \in Row /\ new.status = config[c].status
        /\ new.deleted = deleted
    BY <1>2 DEF Row
  <2>3. config' = [config EXCEPT ![c] = new]
    BY <2>1 DEF Touched
  <2>4. Exists(c) /\ Unlocked(c)
    BY <1>7 DEF Grant, Keep
  <2>5. new.status \in {"draft", "testing", "approved"}
    BY <1>2, <2>2, <2>4 DEF Row, Exists
  <2> HIDE DEF new, c
  <2> QED
    BY <1>1, <1>3, <1>5, <1>6, <2>1, <2>2, <2>3, <2>4, <2>5, RowStep
<1>8. CASE Refuse(w)
  <2>1. config' = config
    BY <1>8 DEF Refuse
  <2>2. TypeOK'
    BY <1>3, <1>5, <2>1, IdleIsIdle DEF IInv, TypeOK, Return
  <2>3. VersionsKept' /\ RemovedIsUnused' /\ UsesHaveVersions'
    BY <1>3, <2>1, RowsKeep DEF Exists
  <2>4. LocksHold' /\ CallsKnow'
    <3>1. \A v \in Callers : call'[v] = call[v] \/ call'[v] = Idle
      BY <1>3 DEF IInv, TypeOK, Return
    <3>2. \A v \in Callers :
            Is(v, "refer", "locked") \/ Is(v, "remove", "locked")
              => Live(call[v].config)
      BY DEF IInv, LocksHold
    <3> QED
      BY <1>3, <2>1, <3>1, <3>2, CallsKeep DEF Live, Exists
  <2>5. SweepIsNew' /\ AskedOnce'
    BY <1>3, <1>5, RequestsKeep
  <2> QED
    BY <2>2, <2>3, <2>4, <2>5 DEF IInv
<1> QED
  BY <1>7, <1>8

\* Rows that begin to refer to a Config.
LEMMA Refers ==
  ASSUME IInv, NEW w \in Callers, NEW u \in Uses,
         Refer(w, u) \/ Release(w, u)
  PROVE  IInv'
<1> DEFINE c == call[w].config
<1>1. /\ UNCHANGED <<config, versions, request, sweep>> /\ Return(w)
      /\ use' = [use EXCEPT ![u].stage = "open"]
      /\ use[u].config = c
  BY DEF Refer, Release
<1>2. \A v \in Uses :
        /\ use'[v].config = use[v].config
        /\ v # u => use'[v] = use[v]
        /\ use'[u].stage = "open"
  BY <1>1 DEF IInv, TypeOK, Use
<1>3. TypeOK'
  <2>1. [use[u] EXCEPT !.stage = "open"] \in Use
    BY DEF IInv, TypeOK, Use
  <2> QED
    BY <1>1, <2>1, IdleIsIdle DEF IInv, TypeOK, Return
<1>4. versions[c] > 0 /\ Exists(c) /\ config[c].deleted # "removed"
  <2>1. CASE Refer(w, u)
    BY <2>1, CallTypes
    DEF Refer, Is, IInv, LocksHold, CallsKnow, Live
  <2>2. CASE Release(w, u)
    <3>1. /\ call[w].seen \in Uses /\ use[call[w].seen].stage = "open"
          /\ use[call[w].seen].config = c
      BY <2>2 DEF Release, Is, IInv, CallsKnow
    <3> QED
      BY <3>1 DEF IInv, RemovedIsUnused, UsesHaveVersions
  <2> QED
    BY <2>1, <2>2
<1>5. RemovedIsUnused' /\ UsesHaveVersions' /\ VersionsKept'
  BY <1>1, <1>2, <1>4
  DEF IInv, RemovedIsUnused, UsesHaveVersions, VersionsKept, Exists
<1>6. LocksHold' /\ CallsKnow'
  <2>1. \A v \in Callers : call'[v] = call[v] \/ call'[v] = Idle
    BY <1>1 DEF IInv, TypeOK, Return
  <2>2. \A v \in Callers :
          Is(v, "refer", "locked") \/ Is(v, "remove", "locked")
            => Live(call[v].config)
    BY DEF IInv, LocksHold
  <2>3. \A v \in Uses : use[v].stage # "none" => use'[v].stage # "none"
    BY <1>2
  <2> QED
    BY <1>1, <1>2, <2>1, <2>2, <2>3, CallsKeep DEF Live, Exists
<1>7. SweepIsNew' /\ AskedOnce'
  BY <1>1, RequestsKeep DEF Pending
<1> QED
  BY <1>3, <1>5, <1>6, <1>7 DEF IInv

\* remove(): the row is alone with the call that holds it.
LEMMA Removes ==
  ASSUME IInv, NEW w \in Callers,
         RemoveErases(w) \/ RemoveHides(w)
  PROVE  IInv'
<1>1. PICK c \in Configs :
        /\ c = call[w].config /\ config[c] \in Row
        /\ Is(w, "remove", "locked") /\ Live(c)
  BY CallTypes
  DEF IInv, TypeOK, RemoveErases, RemoveHides, Is, ConfigOps, LocksHold
<1>2. UNCHANGED <<versions, use, sweep>> /\ Return(w) /\ ~InUse(c)
  BY <1>1 DEF RemoveErases, RemoveHides
<1>3. \A v \in Callers :
        (Is(v, "refer", "locked") \/ Is(v, "remove", "locked")) /\ v # w
          => call[v].config # c
  BY <1>1 DEF IInv, LocksHold
<1>4. \A u \in Uses : use[u].stage = "open" => use[u].config # c
  BY <1>2 DEF InUse, UsesOf, Opened
<1>5. PICK new \in Row :
        /\ config' = [config EXCEPT ![c] = new]
        /\ new.status \notin {"none", "erased"} \/ ~HasAnyReference(c)
        /\ new.status = "approved" => config[c].status = "approved"
  <2>1. CASE RemoveErases(w)
    <3>1. [config[c] EXCEPT !.status = "erased"] \in Row
      BY <1>1 DEF Row
    <3> QED
      BY <1>1, <2>1, <3>1 DEF RemoveErases, Row
  <2>2. CASE RemoveHides(w)
    <3> DEFINE row == [[config[c] EXCEPT !.deleted = "removed"]
                         EXCEPT !.idle = FALSE]
    <3>1. /\ row \in Row /\ row.status = config[c].status
      BY <1>1 DEF Row
    <3>2. config' = [config EXCEPT ![c] = row]
      BY <1>1, <2>2 DEF RemoveHides, Touched
    <3>3. row.status \notin {"none", "erased"}
      BY <1>1, <3>1 DEF Live, Exists
    <3> HIDE DEF row
    <3> QED
      BY <3>1, <3>2, <3>3
  <2> QED
    BY <2>1, <2>2
<1>6. \A d \in Configs : config'[d] = IF d = c THEN new ELSE config[d]
  BY <1>1, <1>5 DEF IInv, TypeOK
<1>7. /\ request' \in [Requests -> DeletionRequest]
      /\ \A r \in Requests : /\ request'[r].config = request[r].config
                             /\ Pending(r)' => Pending(r)
  <2>1. \E from : \E to \in {"erased", "cancelled"} :
          request' = WithRequestsOf(c, from, to)
    BY <1>1 DEF RemoveErases, RemoveHides
  <2> PICK from : \E to \in {"erased", "cancelled"} :
          request' = WithRequestsOf(c, from, to)
    BY <2>1
  <2> PICK to \in {"erased", "cancelled"} :
          request' = WithRequestsOf(c, from, to)
    OBVIOUS
  <2>2. \A r \in Requests :
          /\ request[r] \in DeletionRequest
          /\ request'[r] \in {request[r], [request[r] EXCEPT !.status = to]}
    BY DEF WithRequestsOf, IInv, TypeOK
  <2>3. \A r \in Requests :
          LET row == [request[r] EXCEPT !.status = to] IN
          /\ row \in DeletionRequest
          /\ row.config = request[r].config /\ row.status = to
    BY <2>2 DEF DeletionRequest
  <2>4. DOMAIN request' = Requests /\ request' = [r \in Requests |-> request'[r]]
    BY DEF WithRequestsOf
  <2> QED
    BY <2>2, <2>3, <2>4, ZenonT(60) DEF Pending
<1>8. TypeOK'
  BY <1>1, <1>2, <1>5, <1>7, IdleIsIdle DEF IInv, TypeOK, Return
<1>9. VersionsKept' /\ RemovedIsUnused' /\ UsesHaveVersions'
  <2>1. HasAnyReference(c) => Exists(c)'
    BY <1>1, <1>5, <1>6 DEF Exists
  <2>2. VersionsKept'
    <3> SUFFICES ASSUME NEW d \in Configs
                 PROVE  /\ config'[d].status = "approved" => versions[d] > 0
                        /\ versions[d] > 0 => Exists(d)'
      BY <1>2 DEF VersionsKept
    <3>1. CASE d = c
      BY <1>5, <1>6, <2>1, <3>1 DEF IInv, VersionsKept, HasAnyReference
    <3>2. CASE d # c
      BY <1>6, <3>2 DEF IInv, VersionsKept, Exists
    <3> QED
      BY <3>1, <3>2
  <2>3. \A u \in Uses : use[u].config \in Configs
    BY DEF IInv, TypeOK, Use
  <2>4. RemovedIsUnused'
    BY <1>2, <1>4, <1>6, <2>3 DEF IInv, RemovedIsUnused, Exists
  <2>5. UsesHaveVersions'
    <3> SUFFICES ASSUME NEW u \in Uses, use[u].stage # "none"
                 PROVE  Exists(use[u].config)' /\ versions[use[u].config] > 0
      BY <1>2 DEF UsesHaveVersions
    <3>1. CASE use[u].config = c
      BY <1>2, <2>1, <3>1 DEF IInv, UsesHaveVersions, HasAnyReference, UsesOf
    <3>2. CASE use[u].config # c
      BY <1>2, <1>6, <2>3, <3>2 DEF IInv, UsesHaveVersions, Exists
    <3> QED
      BY <3>1, <3>2
  <2> QED
    BY <2>2, <2>4, <2>5
<1>10. LocksHold' /\ CallsKnow'
  <2>1. \A v \in Callers : call'[v] = IF v = w THEN Idle ELSE call[v]
    BY <1>2 DEF IInv, TypeOK, Return
  <2>2. ASSUME NEW v \in Callers, call'[v] = call[v],
               Is(v, "refer", "locked") \/ Is(v, "remove", "locked")
        PROVE  Live(call[v].config)'
    <3>1. v # w
      BY <2>1, <2>2, IdleIsIdle DEF Is
    <3>2. call[v].config # c /\ Live(call[v].config)
      BY <1>3, <2>2, <3>1 DEF IInv, LocksHold
    <3>3. call[v].config \in Configs
      BY <2>2, CallTypes, IdleIsIdle DEF IInv, Is
    <3> QED
      BY <1>6, <2>2, <3>2, <3>3 DEF Live, Exists
  <2> QED
    BY <1>2, <2>1, <2>2, CallsKeep
<1>11. SweepIsNew' /\ AskedOnce'
  BY <1>2, <1>7, RequestsKeep
<1> QED
  BY <1>8, <1>9, <1>10, <1>11 DEF IInv

\* Steps of the rows that no call takes.
LEMMA Others ==
  ASSUME IInv,
         \/ \E c \in Configs : Create(c) \/ GrowIdle(c)
         \/ \E u \in Uses : EndUse(u) \/ ReopenTask(u)
         \/ \E r \in Requests : EndCooling(r)
         \/ AbandonSweep
  PROVE  IInv'
<1>1. UNCHANGED <<versions, call>>
  BY DEF Create, GrowIdle, EndUse, ReopenTask, EndCooling, AbandonSweep
<1>2. /\ config' \in [Configs -> Row]
      /\ \A c \in Configs :
           /\ config'[c].deleted = config[c].deleted
           /\ \/ config'[c].status = config[c].status
              \/ config[c].status = "none" /\ config'[c].status = "draft"
  <2>1. ASSUME NEW c \in Configs, Create(c) \/ GrowIdle(c)
        PROVE  <1>2!:
    <3>1. /\ config[c] \in Row /\ config \in [Configs -> Row]
      BY DEF IInv, TypeOK
    <3>2. /\ [config[c] EXCEPT !.status = "draft"] \in Row
          /\ [config[c] EXCEPT !.idle = TRUE] \in Row
      BY <3>1 DEF Row
    <3>3. CASE Create(c)
      BY <3>1, <3>2, <3>3 DEF Create, Row
    <3>4. CASE GrowIdle(c)
      BY <3>1, <3>2, <3>4 DEF GrowIdle, Row
    <3> QED
      BY <2>1, <3>3, <3>4
  <2>2. CASE config' = config
    BY <2>2 DEF IInv, TypeOK
  <2> QED
    BY <2>1, <2>2 DEF EndUse, ReopenTask, EndCooling, AbandonSweep
<1>3. /\ use' \in [Uses -> Use]
      /\ \A u \in Uses :
           /\ use'[u].config = use[u].config
           /\ use'[u].stage # "none" <=> use[u].stage # "none"
           /\ use'[u].stage = "open" => use[u].stage = "open"
  <2>1. ASSUME NEW u \in Uses, EndUse(u) \/ ReopenTask(u)
        PROVE  <1>3!:
    <3>1. /\ use[u] \in Use /\ use \in [Uses -> Use]
      BY DEF IInv, TypeOK
    <3>2. /\ [use[u] EXCEPT !.stage = "ended"] \in Use
          /\ [use[u] EXCEPT !.stage = "again"] \in Use
      BY <3>1 DEF Use
    <3>3. CASE EndUse(u)
      BY <3>1, <3>2, <3>3 DEF EndUse, Use, Opened
    <3>4. CASE ReopenTask(u)
      BY <3>1, <3>2, <3>4 DEF ReopenTask, Use
    <3> QED
      BY <2>1, <3>3, <3>4
  <2>2. CASE use' = use
    BY <2>2 DEF IInv, TypeOK
  <2> QED
    BY <2>1, <2>2 DEF Create, GrowIdle, EndCooling, AbandonSweep
<1>4. /\ request' \in [Requests -> DeletionRequest] /\ sweep' \subseteq sweep
      /\ \A r \in Requests : /\ request'[r].config = request[r].config
                             /\ request'[r].status = request[r].status
  <2>1. ASSUME NEW r \in Requests, EndCooling(r)
        PROVE  <1>4!:
    <3>1. request[r] \in DeletionRequest /\ request \in [Requests -> DeletionRequest]
      BY DEF IInv, TypeOK
    <3>2. [request[r] EXCEPT !.cooling = FALSE] \in DeletionRequest
      BY <3>1 DEF DeletionRequest
    <3> QED
      BY <2>1, <3>1, <3>2 DEF EndCooling, DeletionRequest
  <2>2. CASE request' = request /\ sweep' \subseteq sweep
    BY <2>2 DEF IInv, TypeOK
  <2> QED
    BY <2>1, <2>2 DEF Create, GrowIdle, EndUse, ReopenTask, AbandonSweep
<1>5. TypeOK'
  BY <1>1, <1>2, <1>3, <1>4 DEF IInv, TypeOK
<1>6. \A c \in Configs : Exists(c) => Exists(c)'
  BY <1>2 DEF Exists
<1>7. VersionsKept' /\ RemovedIsUnused' /\ UsesHaveVersions'
  BY <1>1, <1>2, <1>3, <1>6, RowsKeep
<1>8. LocksHold' /\ CallsKnow'
  <2>1. \A v \in Callers :
          Is(v, "refer", "locked") \/ Is(v, "remove", "locked")
            => Live(call[v].config)'
    BY <1>1, <1>2, CallTypes, IdleIsIdle DEF IInv, LocksHold, Live, Exists, Is
  <2> QED
    BY <1>1, <1>3, <2>1, CallsKeep
<1>9. SweepIsNew' /\ AskedOnce'
  BY <1>4, RequestsKeep DEF Pending
<1> QED
  BY <1>5, <1>7, <1>8, <1>9 DEF IInv

\* The sweep finds only Configs without a pending request, and asks once.
LEMMA Sweeps ==
  ASSUME IInv,
         StartSweep \/ \E c \in Configs, r \in Requests : OpenRequest(c, r)
  PROVE  IInv'
<1>1. UNCHANGED <<config, versions, use, call>>
  BY DEF StartSweep, OpenRequest
<1>2. VersionsKept' /\ RemovedIsUnused' /\ UsesHaveVersions'
  BY <1>1, RowsKeep DEF Exists
<1>3. LocksHold' /\ CallsKnow'
  BY <1>1 DEF IInv, LocksHold, CallsKnow, Is, Live, Exists
<1>4. CASE StartSweep
  <2>1. TypeOK'
    BY <1>1, <1>4 DEF IInv, TypeOK, StartSweep
  <2>2. SweepIsNew' /\ AskedOnce'
    BY <1>4 DEF IInv, StartSweep, SweepIsNew, AskedOnce, Candidate, Pending
  <2> QED
    BY <1>2, <1>3, <2>1, <2>2 DEF IInv
<1>5. ASSUME NEW c \in Configs, NEW r \in Requests, OpenRequest(c, r)
      PROVE  IInv'
  <2> DEFINE row == [request[r] EXCEPT !.status = "pending"]
  <2>1. /\ row \in DeletionRequest /\ row.config = request[r].config
        /\ request[r].config = c /\ c \in sweep
        /\ request' = [request EXCEPT ![r] = row] /\ sweep' = sweep \ {c}
    BY <1>5 DEF OpenRequest, IInv, TypeOK, DeletionRequest
  <2> HIDE DEF row
  <2>2. \A q \in Requests : request'[q] = IF q = r THEN row ELSE request[q]
    BY <2>1 DEF IInv, TypeOK
  <2>3. TypeOK'
    BY <1>1, <2>1 DEF IInv, TypeOK
  <2>4. SweepIsNew' /\ AskedOnce'
    BY <2>1, <2>2 DEF IInv, SweepIsNew, AskedOnce, Pending
  <2> QED
    BY <1>2, <1>3, <2>3, <2>4 DEF IInv
<1> QED
  BY <1>4, <1>5

-----------------------------------------------------------------------------
(* The theorems *)

LEMMA StepInv == IInv /\ [Next]_vars => IInv'
<1> SUFFICES ASSUME IInv, [Next]_vars PROVE IInv'
  OBVIOUS
<1>1. CASE UNCHANGED vars
  BY <1>1
  DEF vars, IInv, TypeOK, LocksHold, VersionsKept, CallsKnow, RemovedIsUnused,
      UsesHaveVersions, SweepIsNew, AskedOnce, Is, Live, Exists, Pending
<1>2. CASE Next
  <2>1. ASSUME NEW w \in Callers,
               \/ Decide(w) \/ Reject(w) \/ Update(w) \/ Approve(w)
        PROVE  IInv'
    BY <2>1, Writes
  <2>2. ASSUME NEW w \in Callers, NEW u \in Uses, Refer(w, u) \/ Release(w, u)
        PROVE  IInv'
    BY <2>2, Refers
  <2>3. ASSUME NEW w \in Callers, Grant(w) \/ Refuse(w) \/ Keep(w)
        PROVE  IInv'
    BY <2>3, Decisions
  <2> QED
    BY <1>2, <2>1, <2>2, <2>3, Reads, Locking, Removes, Others, Sweeps DEF Next
<1> QED
  BY <1>1, <1>2

LEMMA InvAlways == Spec => []IInv
BY InitInv, StepInv, PTL DEF Spec

\* The variables keep their types: Config rows, references, deletion requests and
\* calls of config.service.ts and config-deletion.service.ts.
THEOREM LifecycleTypes == Spec => []TypeOK
<1>1. IInv => TypeOK
  BY DEF IInv
<1> QED
  BY <1>1, InvAlways, PTL

\* The row locks of config-lock.ts keep remove() away from every Config that an
\* open rollout, request, override or task refers to, for any number of callers.
THEOREM RemoveSparesUsed == Spec => []RemovedIsUnused
<1>1. IInv => RemovedIsUnused
  BY DEF IInv
<1> QED
  BY <1>1, InvAlways, PTL

\* Whatever refers to a Config finds its row and a version of it.
THEOREM UsesFindVersions == Spec => []UsesHaveVersions
<1>1. IInv => UsesHaveVersions
  BY DEF IInv
<1> QED
  BY <1>1, InvAlways, PTL

\* At most one deletion request of a Config is pending.
THEOREM OnePendingRequest == Spec => []AskedOnce
<1>1. IInv => AskedOnce
  BY DEF IInv
<1> QED
  BY <1>1, InvAlways, PTL

-----------------------------------------------------------------------------
(* ConfigOverrides                                                            *)
-----------------------------------------------------------------------------
(* Versions *)

\* a set of versions that is not empty has a newest one
LEMMA NewestIsThere ==
  ASSUME NEW n \in Nat, NEW S \in SUBSET (1..n), S # {}
  PROVE  \E m \in S : \A k \in S : k <= m
<1> DEFINE R == OpToRel(<, Nat)
           T == {n - k : k \in S}
<1>1. IsWellFoundedOn(R, Nat)
  BY NatLessThanWellFounded
<1>2. T \subseteq Nat /\ T # {}
  <2>1. \A k \in S : n - k \in Nat
    OBVIOUS
  <2>2. PICK k \in S : TRUE
    OBVIOUS
  <2>3. n - k \in T
    BY <2>2
  <2> QED
    BY <2>1, <2>3
<1>3. \A x, y \in Nat : x < y => <<x, y>> \in R
  BY DEF OpToRel
<1> HIDE DEF R, T
<1>4. PICK x \in T : \A y \in T : <<y, x>> \notin R
  BY <1>1, <1>2, WFMin
<1>5. PICK m \in S : x = n - m
  BY <1>4 DEF T
<1>6. \A k \in S : ~(n - k < x)
  BY <1>2, <1>3, <1>4 DEF T
<1> QED
  BY <1>5, <1>6

\* the newest of some versions of the rows is one of them, or 0
LEMMA NewestIsVersion ==
  ASSUME rows \in Seq(OverrideRow), NEW S \in SUBSET (DOMAIN rows)
  PROVE  /\ Newest(S) \in Nat
         /\ S # {} => Newest(S) \in S
<1>1. DOMAIN rows = 1..Len(rows) /\ Len(rows) \in Nat
  OBVIOUS
<1>2. CASE S = {}
  BY <1>2 DEF Newest
<1>3. CASE S # {}
  <2>1. \E m \in S : \A k \in S : k <= m
    BY <1>1, <1>3, NewestIsThere
  <2>2. Newest(S) \in S
    BY <1>3, <2>1 DEF Newest
  <2> QED
    BY <1>1, <2>2
<1> QED
  BY <1>2, <1>3

-----------------------------------------------------------------------------
(* The inductive invariant *)

NoRollout == \A k \in Rollouts : rollout[k].status = "none"

\* without a rollout nobody releases, fetches or reports, and who is about to
\* mark a version has given it to the device
OnlyGivenIsMarked ==
  NoRollout =>
    \A r \in Handlers :
      /\ handling[r].pc \in {"idle", "latest", "insert", "approve", "apply", "mark"}
      /\ handling[r].pc = "mark" => handling[r].version \in delivered

OverridesInv == OverridesTypeOK /\ OnlyGivenIsMarked /\ AppliedWasGiven

LEMMA OverridesInitInv ==
  ASSUME OverridesInit
  PROVE  OverridesInv
<1>1. rows \in Seq(OverrideRow)
  BY DEF OverridesInit
<1>2. rollout \in [Rollouts -> Rollout]
  BY DEF OverridesInit, Rollout
<1>3. handling \in [Handlers -> Request]
  BY DEF OverridesInit, IdleRequest, Request
<1>4. OverridesTypeOK
  BY <1>1, <1>2, <1>3 DEF OverridesInit, OverridesTypeOK
<1>5. OnlyGivenIsMarked
  BY DEF OverridesInit, OnlyGivenIsMarked, IdleRequest
<1>6. DOMAIN rows = {}
  BY DEF OverridesInit
<1> QED
  BY <1>4, <1>5, <1>6 DEF OverridesInv, AppliedWasGiven, UsedWasGiven

LEMMA IdleIsRequest == IdleRequest \in Request /\ IdleRequest.pc = "idle"
BY DEF IdleRequest, Request

-----------------------------------------------------------------------------
(* What the steps do to the rows *)

\* rows are added at the end, decided once, and marked for good
RowsGrow ==
  /\ rows' \in Seq(OverrideRow)
  /\ Len(rows) <= Len(rows')
  /\ \A v \in DOMAIN rows :
       /\ rows[v].status # "pending" => rows'[v].status = rows[v].status
       /\ rows[v].consumed => rows'[v].consumed

\* a row is added that is not marked
LEMMA Adding ==
  ASSUME rows \in Seq(OverrideRow), NEW row \in OverrideRow, rows' = Append(rows, row)
  PROVE  /\ RowsGrow
         /\ \A v \in DOMAIN rows : rows'[v] = rows[v]
         /\ DOMAIN rows' = DOMAIN rows \cup {Len(rows) + 1}
         /\ rows'[Len(rows) + 1] = row
<1>1. /\ rows' \in Seq(OverrideRow)
      /\ Len(rows') = Len(rows) + 1
      /\ \A v \in 1..Len(rows) : rows'[v] = rows[v]
      /\ rows'[Len(rows) + 1] = row
  OBVIOUS
<1>2. DOMAIN rows = 1..Len(rows) /\ DOMAIN rows' = 1..(Len(rows) + 1)
      /\ Len(rows) \in Nat
  BY <1>1
<1> QED
  BY <1>1, <1>2 DEF RowsGrow

\* rows are rewritten one by one
LEMMA Rewriting ==
  ASSUME rows \in Seq(OverrideRow), NEW f \in [DOMAIN rows -> OverrideRow], rows' = f,
         \A v \in DOMAIN rows :
           /\ rows[v].status # "pending" => f[v].status = rows[v].status
           /\ rows[v].consumed => f[v].consumed
  PROVE  RowsGrow /\ DOMAIN rows' = DOMAIN rows
<1>1. DOMAIN rows = 1..Len(rows) /\ Len(rows) \in Nat
  OBVIOUS
<1>2. rows' \in Seq(OverrideRow) /\ Len(rows') = Len(rows)
  BY <1>1
<1> QED
  BY <1>1, <1>2 DEF RowsGrow

-----------------------------------------------------------------------------
(* Every step keeps the invariant and lets the rows grow *)

Kept == OverridesInv' /\ RowsGrow

\* what a request may become without a rollout
Harmless(r) ==
  /\ handling'[r].pc \in {"idle", "latest", "insert", "approve", "apply", "mark"}
  /\ handling'[r].pc = "mark" => handling'[r].version \in delivered'

LEMMA Step ==
  ASSUME OverridesInv, OverridesTypeOK', RowsGrow,
         NoRollout' => NoRollout,
         delivered \subseteq delivered',
         NoRollout => \A r \in Handlers : handling'[r] = handling[r] \/ Harmless(r),
         NoRollout => \A v \in DOMAIN rows' : rows'[v].consumed =>
           \/ v \in DOMAIN rows /\ rows[v].consumed
           \/ \E w \in delivered' : v <= w
  PROVE  Kept
<1>1. OnlyGivenIsMarked'
  BY DEF OnlyGivenIsMarked, Harmless, OverridesInv
<1>2. AppliedWasGiven'
  <2> SUFFICES ASSUME NoRollout', NEW v \in DOMAIN rows', rows'[v].consumed
               PROVE  \E w \in delivered' : v <= w
    BY DEF AppliedWasGiven, UsedWasGiven, NoRollout
  <2>1. CASE v \in DOMAIN rows /\ rows[v].consumed
    BY <2>1 DEF OverridesInv, AppliedWasGiven, UsedWasGiven, NoRollout
  <2> QED
    BY <2>1
<1> QED
  BY <1>1, <1>2 DEF Kept, OverridesInv

LEMMA SameRows ==
  ASSUME OverridesInv, UNCHANGED rows
  PROVE  RowsGrow
BY DEF RowsGrow, OverridesInv, OverridesTypeOK

\* a step of one request that leaves the rows alone
LEMMA RequestStep ==
  ASSUME OverridesInv, NEW r \in Handlers, NEW new \in Request,
         handling' = [handling EXCEPT ![r] = new],
         UNCHANGED <<rows, rollout, clock>>,
         delivered' \subseteq Nat, delivered \subseteq delivered',
         NoRollout =>
           /\ new.pc \in {"idle", "latest", "insert", "approve", "apply", "mark"}
           /\ new.pc = "mark" => new.version \in delivered'
  PROVE  Kept
<1>1. OverridesTypeOK' /\ RowsGrow
  BY SameRows DEF OverridesInv, OverridesTypeOK
<1>2. handling'[r] = new /\ \A q \in Handlers : q # r => handling'[q] = handling[q]
  BY DEF OverridesInv, OverridesTypeOK
<1>3. NoRollout' => NoRollout
  BY DEF NoRollout
<1> QED
  BY <1>1, <1>2, <1>3, Step DEF Harmless

\* a step of one request that rewrites or adds rows and ends it
LEMMA OverrideRowStep ==
  ASSUME OverridesInv, NEW r \in Handlers, Finish(r), RowsGrow,
         UNCHANGED <<delivered, clock>>, rollout' \in [Rollouts -> Rollout],
         NoRollout' => NoRollout,
         NoRollout => \A v \in DOMAIN rows' : rows'[v].consumed =>
           \/ v \in DOMAIN rows /\ rows[v].consumed
           \/ \E w \in delivered' : v <= w
  PROVE  Kept
<1>1. handling' \in [Handlers -> Request]
      /\ \A q \in Handlers : handling'[q] = handling[q] \/ handling'[q].pc = "idle"
  BY IdleIsRequest DEF Finish, OverridesInv, OverridesTypeOK
<1>2. OverridesTypeOK'
  BY <1>1 DEF OverridesInv, OverridesTypeOK, RowsGrow
<1> QED
  BY <1>1, <1>2, Step DEF Harmless

LEMMA FinishStep ==
  ASSUME OverridesInv, NEW r \in Handlers, Finish(r),
         UNCHANGED <<rows, rollout, delivered, clock>>
  PROVE  Kept
BY IdleIsRequest, RequestStep DEF Finish, OverridesInv, OverridesTypeOK

LEMMA CheckPendingKept ==
  ASSUME OverridesInv, NEW r \in Handlers, CheckPending(r)
  PROVE  Kept
<1> DEFINE new == [handling[r] EXCEPT !.pc = "latest"]
<1>1. new \in Request /\ new.pc = "latest"
  BY DEF OverridesInv, OverridesTypeOK, Request
<1>2. handling' = [handling EXCEPT ![r] = new]
  BY DEF CheckPending, Goto
<1> HIDE DEF new
<1> QED
  BY <1>1, <1>2, RequestStep DEF CheckPending, OverridesInv, OverridesTypeOK

LEMMA ReadLatestKept ==
  ASSUME OverridesInv, NEW r \in Handlers, ReadLatest(r)
  PROVE  Kept
<1> DEFINE new == [handling[r] EXCEPT !.pc = "insert", !.version = Len(rows)]
<1>0. Len(rows) \in Nat
  BY DEF OverridesInv, OverridesTypeOK
<1>1. new \in Request /\ new.pc = "insert"
  BY <1>0 DEF OverridesInv, OverridesTypeOK, Request
<1>2. handling' = [handling EXCEPT ![r] = new]
  BY DEF ReadLatest, BeginRequest
<1> HIDE DEF new
<1> QED
  BY <1>1, <1>2, RequestStep DEF ReadLatest, OverridesInv, OverridesTypeOK

LEMMA InsertKept ==
  ASSUME OverridesInv, NEW r \in Handlers, Insert(r)
  PROVE  Kept
<1>1. CASE rows' = rows
  BY <1>1, FinishStep DEF Insert
<1>2. CASE rows' = Append(rows, NewRow("pending", 0, FALSE))
  <2> DEFINE row == NewRow("pending", 0, FALSE)
  <2>1. row \in OverrideRow /\ row.consumed = FALSE
    BY DEF NewRow, OverrideRow
  <2> HIDE DEF row
  <2>2. /\ RowsGrow
        /\ \A v \in DOMAIN rows : rows'[v] = rows[v]
        /\ DOMAIN rows' = DOMAIN rows \cup {Len(rows) + 1}
        /\ rows'[Len(rows) + 1] = row
    BY <1>2, <2>1, Adding DEF OverridesInv, OverridesTypeOK, row
  <2>3. \A v \in DOMAIN rows' : rows'[v].consumed => v \in DOMAIN rows /\ rows[v].consumed
    BY <2>1, <2>2
  <2> QED
    BY <2>2, <2>3, OverrideRowStep DEF Insert, OverridesInv, OverridesTypeOK, NoRollout
<1> QED
  BY <1>1, <1>2 DEF Insert

LEMMA StartApproveKept ==
  ASSUME OverridesInv, NEW r \in Handlers, NEW v \in DOMAIN rows, StartApprove(r, v)
  PROVE  Kept
<1> DEFINE new == [IdleRequest EXCEPT !.pc = "approve", !.version = v, !.time = clock]
<1>0. v \in Nat
  BY DEF OverridesInv, OverridesTypeOK
<1>1. new \in Request /\ new.pc = "approve"
  BY <1>0 DEF OverridesInv, OverridesTypeOK, Request, IdleRequest
<1>2. handling' = [handling EXCEPT ![r] = new]
  BY DEF StartApprove, BeginRequest
<1> HIDE DEF new
<1> QED
  BY <1>1, <1>2, RequestStep DEF StartApprove, OverridesInv, OverridesTypeOK

\* a row that waits for its decision gets one
LEMMA Deciding ==
  ASSUME OverridesInv, NEW v \in PendingRows, NEW s \in {"approved", "rejected"},
         NEW time \in Nat,
         rows' = [rows EXCEPT ![v].status = s, ![v].decided = time]
  PROVE  /\ RowsGrow
         /\ DOMAIN rows' = DOMAIN rows
         /\ \A w \in DOMAIN rows : rows'[w].consumed = rows[w].consumed
<1>1. v \in DOMAIN rows /\ rows[v].status = "pending"
  BY DEF PendingRows
<1>2. \A w \in DOMAIN rows : rows[w] \in OverrideRow
  BY DEF OverridesInv, OverridesTypeOK
<1> DEFINE row == [rows[v] EXCEPT !.status = s, !.decided = time]
           f == [w \in DOMAIN rows |-> IF w = v THEN row ELSE rows[w]]
<1>3. row \in OverrideRow /\ row.consumed = rows[v].consumed
  BY <1>1, <1>2 DEF OverrideRow
<1>4. rows' = f
  BY <1>1, <1>2 DEF OverrideRow
<1> HIDE DEF row
<1>5. f \in [DOMAIN rows -> OverrideRow]
  BY <1>2, <1>3
<1>6. \A w \in DOMAIN rows : f[w].consumed = rows[w].consumed
  BY <1>3
<1>7. \A w \in DOMAIN rows : rows[w].status # "pending" => f[w].status = rows[w].status
  BY <1>1
<1> HIDE DEF f
<1> QED
  BY <1>4, <1>5, <1>6, <1>7, Rewriting DEF OverridesInv, OverridesTypeOK

LEMMA ApproveKept ==
  ASSUME OverridesInv, NEW r \in Handlers, ApproveOverride(r)
  PROVE  Kept
<1>1. CASE handling[r].version \notin PendingRows
  BY <1>1, FinishStep DEF ApproveOverride
<1>2. CASE handling[r].version \in PendingRows
  <2>1. handling[r].time \in Nat
    BY DEF OverridesInv, OverridesTypeOK, Request
  <2>2. rows' = [rows EXCEPT ![handling[r].version].status = "approved",
                             ![handling[r].version].decided = handling[r].time]
    BY <1>2 DEF ApproveOverride
  <2>3. /\ RowsGrow
        /\ DOMAIN rows' = DOMAIN rows
        /\ \A w \in DOMAIN rows : rows'[w].consumed = rows[w].consumed
    BY <1>2, <2>1, <2>2, Deciding
  <2> QED
    BY <2>3, OverrideRowStep DEF ApproveOverride, OverridesInv, OverridesTypeOK, NoRollout
<1> QED
  BY <1>1, <1>2

LEMMA RejectKept ==
  ASSUME OverridesInv, NEW v \in DOMAIN rows, RejectOverride(v)
  PROVE  Kept
<1>1. /\ RowsGrow
      /\ DOMAIN rows' = DOMAIN rows
      /\ \A w \in DOMAIN rows : rows'[w].consumed = rows[w].consumed
  BY Deciding DEF RejectOverride, OverridesInv, OverridesTypeOK
<1>2. OverridesTypeOK'
  BY <1>1 DEF RejectOverride, OverridesInv, OverridesTypeOK, RowsGrow
<1> QED
  BY <1>1, <1>2, Step DEF RejectOverride, NoRollout

\* a step of a rollout
LEMMA RolloutStep ==
  ASSUME OverridesInv, NEW k \in Rollouts, NEW row \in Rollout, row.status # "none",
         rollout' = [rollout EXCEPT ![k] = row],
         UNCHANGED rows, clock' \in Nat, delivered' \subseteq Nat,
         delivered \subseteq delivered',
         handling' \in [Handlers -> Request],
         NoRollout => \A r \in Handlers : handling'[r] = handling[r] \/ Harmless(r)
  PROVE  Kept
<1>1. rollout' \in [Rollouts -> Rollout] /\ rollout'[k].status # "none"
  BY DEF OverridesInv, OverridesTypeOK
<1>2. ~NoRollout'
  BY <1>1 DEF NoRollout
<1>3. OverridesTypeOK' /\ RowsGrow
  BY <1>1, SameRows DEF OverridesInv, OverridesTypeOK
<1> QED
  BY <1>2, <1>3, Step

LEMMA CreateRolloutKept ==
  ASSUME OverridesInv, NEW k \in Rollouts, CreateRollout(k)
  PROVE  Kept
<1> DEFINE row == [rollout[k] EXCEPT !.status = "created"]
<1>1. row \in Rollout /\ row.status # "none"
  BY DEF OverridesInv, OverridesTypeOK, Rollout
<1>2. rollout' = [rollout EXCEPT ![k] = row]
  BY DEF CreateRollout
<1> HIDE DEF row
<1> QED
  BY <1>1, <1>2, RolloutStep DEF CreateRollout, OverridesInv, OverridesTypeOK

LEMMA ApproveRolloutKept ==
  ASSUME OverridesInv, NEW k \in Rollouts, ApproveRollout(k)
  PROVE  Kept
<1> DEFINE row == [rollout[k] EXCEPT !.status = "approved", !.approved = clock]
<1>1. row \in Rollout /\ row.status # "none"
  BY DEF OverridesInv, OverridesTypeOK, Rollout
<1>2. rollout' = [rollout EXCEPT ![k] = row]
  BY DEF ApproveRollout
<1> HIDE DEF row
<1> QED
  BY <1>1, <1>2, RolloutStep DEF ApproveRollout, OverridesInv, OverridesTypeOK

LEMMA StartReleaseKept ==
  ASSUME OverridesInv, NEW r \in Handlers, NEW k \in Rollouts, StartRelease(r, k)
  PROVE  Kept
<1>1. CASE k \in WithValues
  <2> DEFINE new == [IdleRequest EXCEPT !.pc = "checkRelease", !.rollout = {k}]
  <2>1. new \in Request
    BY DEF Request, IdleRequest
  <2>2. handling' = [handling EXCEPT ![r] = new]
    BY <1>1 DEF StartRelease, BeginRequest
  <2>3. ~NoRollout
    BY DEF StartRelease, NoRollout
  <2> HIDE DEF new
  <2> QED
    BY <1>1, <2>1, <2>2, <2>3, RequestStep DEF StartRelease, OverridesInv, OverridesTypeOK
<1>2. CASE k \notin WithValues
  <2> DEFINE row == [rollout[k] EXCEPT !.status = "active"]
  <2>1. row \in Rollout /\ row.status # "none"
    BY DEF OverridesInv, OverridesTypeOK, Rollout
  <2>2. rollout' = [rollout EXCEPT ![k] = row]
    BY <1>2 DEF StartRelease
  <2> HIDE DEF row
  <2> QED
    BY <1>2, <2>1, <2>2, RolloutStep DEF StartRelease, OverridesInv, OverridesTypeOK
<1> QED
  BY <1>1, <1>2

\* who releases, fetches or reports does it for a rollout
LEMMA ReleaseHasRollout ==
  ASSUME OverridesInv, NEW r \in Handlers,
         handling[r].pc \in {"checkRelease", "latestRelease", "release", "pull", "find"}
  PROVE  ~NoRollout
BY DEF OverridesInv, OnlyGivenIsMarked

LEMMA CheckReleaseKept ==
  ASSUME OverridesInv, NEW r \in Handlers, CheckRelease(r)
  PROVE  Kept
<1>1. CASE Finish(r)
  BY <1>1, FinishStep DEF CheckRelease
<1>2. CASE Goto(r, "latestRelease")
  <2> DEFINE new == [handling[r] EXCEPT !.pc = "latestRelease"]
  <2>1. new \in Request
    BY DEF OverridesInv, OverridesTypeOK, Request
  <2>2. handling' = [handling EXCEPT ![r] = new]
    BY <1>2 DEF Goto
  <2>3. ~NoRollout
    BY ReleaseHasRollout DEF CheckRelease
  <2> HIDE DEF new
  <2> QED
    BY <2>1, <2>2, <2>3, RequestStep DEF CheckRelease, OverridesInv, OverridesTypeOK
<1> QED
  BY <1>1, <1>2 DEF CheckRelease

LEMMA LatestForReleaseKept ==
  ASSUME OverridesInv, NEW r \in Handlers, LatestForRelease(r)
  PROVE  Kept
<1> DEFINE new == [handling[r] EXCEPT !.pc = "release", !.version = Len(rows)]
<1>0. Len(rows) \in Nat
  BY DEF OverridesInv, OverridesTypeOK
<1>1. new \in Request
  BY <1>0 DEF OverridesInv, OverridesTypeOK, Request
<1>2. handling' = [handling EXCEPT ![r] = new]
  BY DEF LatestForRelease, BeginRequest
<1>3. ~NoRollout
  BY ReleaseHasRollout DEF LatestForRelease
<1> HIDE DEF new
<1> QED
  BY <1>1, <1>2, <1>3, RequestStep DEF LatestForRelease, OverridesInv, OverridesTypeOK

LEMMA CommitReleaseKept ==
  ASSUME OverridesInv, NEW r \in Handlers, CommitRelease(r)
  PROVE  Kept
<1>1. ~NoRollout
  BY ReleaseHasRollout DEF CommitRelease
<1>2. CASE UNCHANGED <<rows, rollout>>
  BY <1>2, FinishStep DEF CommitRelease
<1>3. ASSUME NEW k \in handling[r].rollout,
             rows' = Append(rows, NewRow("approved", rollout[k].approved, TRUE)),
             rollout' = [rollout EXCEPT ![k].status = "active"]
      PROVE  Kept
  <2>1. k \in Rollouts
    BY DEF OverridesInv, OverridesTypeOK, Request
  <2> DEFINE row == NewRow("approved", rollout[k].approved, TRUE)
  <2>2. row \in OverrideRow
    BY <2>1 DEF NewRow, OverrideRow, OverridesInv, OverridesTypeOK, Rollout
  <2> HIDE DEF row
  <2>3. RowsGrow
    BY <1>3, <2>2, Adding DEF OverridesInv, OverridesTypeOK, row
  <2>4. [rollout[k] EXCEPT !.status = "active"] \in Rollout
    BY <2>1 DEF OverridesInv, OverridesTypeOK, Rollout
  <2>5. rollout' \in [Rollouts -> Rollout] /\ rollout'[k].status = "active"
    BY <1>3, <2>1, <2>4 DEF OverridesInv, OverridesTypeOK
  <2>6. ~NoRollout'
    BY <2>1, <2>5 DEF NoRollout
  <2> QED
    BY <1>1, <2>3, <2>5, <2>6, OverrideRowStep DEF CommitRelease
<1> QED
  BY <1>2, <1>3 DEF CommitRelease

LEMMA FetchKept ==
  ASSUME OverridesInv, NEW r \in Handlers, NEW k \in Rollouts, Fetch(r, k)
  PROVE  Kept
<1> DEFINE n == Newest(Waiting)
           new == [IdleRequest EXCEPT !.pc = "pull", !.version = n, !.rollout = {k}]
<1>1. n \in Nat
  BY NewestIsVersion DEF Waiting, OverridesInv, OverridesTypeOK
<1> HIDE DEF n
<1>2. new \in Request
  BY <1>1 DEF Request, IdleRequest
<1>3. handling' = [handling EXCEPT ![r] = new]
  BY DEF Fetch, BeginRequest, n
<1>4. ~NoRollout
  BY DEF Fetch, NoRollout
<1> HIDE DEF new
<1> QED
  BY <1>2, <1>3, <1>4, RequestStep DEF Fetch, OverridesInv, OverridesTypeOK

LEMMA PullKept ==
  ASSUME OverridesInv, NEW r \in Handlers, Pull(r)
  PROVE  Kept
<1>1. ~NoRollout
  BY ReleaseHasRollout DEF Pull
<1>2. delivered' \subseteq Nat /\ delivered \subseteq delivered'
  BY DEF Pull, OverridesInv, OverridesTypeOK, Request
<1>3. handling' \in [Handlers -> Request]
  BY IdleIsRequest DEF Pull, Finish, OverridesInv, OverridesTypeOK
<1>4. CASE UNCHANGED <<rollout, clock>>
  BY <1>2, <1>4, IdleIsRequest, RequestStep DEF Pull, Finish
<1>5. ASSUME NEW k \in handling[r].rollout, rollout[k].status = "active",
             clock' = clock + 1, rollout' = [rollout EXCEPT ![k].pulled = clock']
      PROVE  Kept
  <2> DEFINE row == [rollout[k] EXCEPT !.pulled = clock']
  <2>1. k \in Rollouts
    BY DEF OverridesInv, OverridesTypeOK, Request
  <2>2. row \in Rollout /\ row.status # "none"
    BY <1>5, <2>1 DEF OverridesInv, OverridesTypeOK, Rollout
  <2>3. rollout' = [rollout EXCEPT ![k] = row] /\ clock' \in Nat
    BY <1>5 DEF OverridesInv, OverridesTypeOK
  <2> HIDE DEF row
  <2> QED
    BY <1>1, <1>2, <1>3, <2>1, <2>2, <2>3, RolloutStep DEF Pull
<1> QED
  BY <1>4, <1>5 DEF Pull

LEMMA ReportKept ==
  ASSUME OverridesInv, NEW r \in Handlers, NEW k \in Rollouts, Report(r, k)
  PROVE  Kept
<1> DEFINE row == [rollout[k] EXCEPT !.status = "done"]
           new == [IdleRequest EXCEPT !.pc = "find", !.time = rollout[k].pulled]
<1>1. row \in Rollout /\ row.status # "none"
  BY DEF OverridesInv, OverridesTypeOK, Rollout
<1>2. rollout' = [rollout EXCEPT ![k] = row]
  BY DEF Report
<1>3. ~NoRollout
  BY DEF Report, NoRollout
<1>4. new \in Request
  BY DEF Request, IdleRequest, OverridesInv, OverridesTypeOK, Rollout
<1>5. handling' = handling \/ handling' = [handling EXCEPT ![r] = new]
  BY DEF Report, BeginRequest
<1> HIDE DEF row, new
<1>6. handling' \in [Handlers -> Request]
  BY <1>4, <1>5 DEF OverridesInv, OverridesTypeOK
<1> QED
  BY <1>1, <1>2, <1>3, <1>6, RolloutStep DEF Report, OverridesInv, OverridesTypeOK

LEMMA FindPulledKept ==
  ASSUME OverridesInv, NEW r \in Handlers, FindPulled(r)
  PROVE  Kept
<1> DEFINE pulled == {v \in Waiting : rows[v].decided < handling[r].time}
           n == Newest(pulled)
           new == [handling[r] EXCEPT !.pc = "mark", !.version = n]
<1>1. CASE Finish(r)
  BY <1>1, FinishStep DEF FindPulled
<1>2. CASE BeginRequest(r, new)
  <2>1. n \in Nat
    BY NewestIsVersion DEF Waiting, OverridesInv, OverridesTypeOK
  <2> HIDE DEF n
  <2>2. new \in Request
    BY <2>1 DEF Request, OverridesInv, OverridesTypeOK
  <2>3. handling' = [handling EXCEPT ![r] = new]
    BY <1>2 DEF BeginRequest
  <2>4. ~NoRollout
    BY ReleaseHasRollout DEF FindPulled
  <2> HIDE DEF new
  <2> QED
    BY <2>2, <2>3, <2>4, RequestStep DEF FindPulled, OverridesInv, OverridesTypeOK
<1> QED
  BY <1>1, <1>2 DEF FindPulled

\* what is marked is not newer than a version that was given
LEMMA MarkKept ==
  ASSUME OverridesInv, NEW r \in Handlers, Mark(r)
  PROVE  Kept
<1> DEFINE n == handling[r].version
           f == [v \in DOMAIN rows |->
                   [rows[v] EXCEPT !.consumed = @ \/ (v \in Waiting /\ v <= n)]]
<1>1. \A v \in DOMAIN rows : rows[v] \in OverrideRow
  BY DEF OverridesInv, OverridesTypeOK
<1>2. ASSUME NEW v \in DOMAIN rows
      PROVE  /\ f[v] \in OverrideRow
             /\ f[v].status = rows[v].status
             /\ f[v].consumed = (rows[v].consumed \/ (v \in Waiting /\ v <= n))
  BY <1>1 DEF OverrideRow
<1>3. rows' = f
  BY DEF Mark
<1>4. f \in [DOMAIN rows -> OverrideRow]
  BY <1>2
<1>5. \A v \in DOMAIN rows : rows[v].consumed => f[v].consumed
  BY <1>2
<1> HIDE DEF f
<1>6. RowsGrow /\ DOMAIN rows' = DOMAIN rows
  BY <1>2, <1>3, <1>4, <1>5, Rewriting DEF OverridesInv, OverridesTypeOK
<1>7. ASSUME NoRollout, NEW v \in DOMAIN rows', rows'[v].consumed
      PROVE  \/ v \in DOMAIN rows /\ rows[v].consumed
             \/ \E w \in delivered' : v <= w
  <2>1. n \in delivered'
    BY <1>7 DEF Mark, OverridesInv, OnlyGivenIsMarked
  <2>2. v \in DOMAIN rows
    BY <1>6
  <2> QED
    BY <1>2, <1>3, <1>7, <2>1, <2>2
<1> QED
  BY <1>6, <1>7, OverrideRowStep DEF Mark, OverridesInv, OverridesTypeOK, NoRollout

LEMMA StartApplyKept ==
  ASSUME OverridesInv, NEW r \in Handlers, StartApply(r)
  PROVE  Kept
<1> DEFINE n == Newest(Waiting)
           new == [IdleRequest EXCEPT !.pc = "apply", !.version = n]
<1>1. n \in Nat
  BY NewestIsVersion DEF Waiting, OverridesInv, OverridesTypeOK
<1> HIDE DEF n
<1>2. new \in Request /\ new.pc = "apply"
  BY <1>1 DEF Request, IdleRequest
<1>3. handling' = [handling EXCEPT ![r] = new]
  BY DEF StartApply, BeginRequest, n
<1> HIDE DEF new
<1> QED
  BY <1>2, <1>3, RequestStep DEF StartApply, OverridesInv, OverridesTypeOK

LEMMA ApplyKept ==
  ASSUME OverridesInv, NEW r \in Handlers, Apply(r)
  PROVE  Kept
<1>1. handling[r].version \in Nat
  BY DEF OverridesInv, OverridesTypeOK, Request
<1>2. delivered' \subseteq Nat /\ delivered \subseteq delivered'
      /\ (handling[r].version # 0 => handling[r].version \in delivered')
  BY <1>1 DEF Apply, OverridesInv, OverridesTypeOK
<1>3. CASE handling[r].version = 0
  BY <1>2, <1>3, IdleIsRequest, RequestStep DEF Apply, Finish
<1>4. CASE handling[r].version # 0
  <2> DEFINE new == [handling[r] EXCEPT !.pc = "mark"]
  <2>1. new \in Request /\ new.pc = "mark" /\ new.version = handling[r].version
    BY DEF OverridesInv, OverridesTypeOK, Request
  <2>2. handling' = [handling EXCEPT ![r] = new]
    BY <1>4 DEF Apply, Goto
  <2> HIDE DEF new
  <2> QED
    BY <1>2, <1>4, <2>1, <2>2, RequestStep DEF Apply
<1> QED
  BY <1>3, <1>4

LEMMA StutterKept ==
  ASSUME OverridesInv, UNCHANGED overrideVars
  PROVE  Kept
<1>1. OverridesTypeOK' /\ RowsGrow
  BY SameRows DEF overrideVars, OverridesInv, OverridesTypeOK
<1> QED
  BY <1>1, Step DEF overrideVars, NoRollout

LEMMA NextKept ==
  ASSUME OverridesInv, [OverridesNext]_overrideVars
  PROVE  Kept
<1>1. ASSUME NEW r \in Handlers, Ask(r) \/ DecideOverride(r) \/ Drop(r) PROVE Kept
  BY <1>1, CheckPendingKept, ReadLatestKept, InsertKept, StartApproveKept,
     ApproveKept, FinishStep
  DEF Ask, DecideOverride, Drop
<1>2. ASSUME NEW r \in Handlers, ReleaseRollout(r) PROVE Kept
  BY <1>2, StartReleaseKept, CheckReleaseKept, LatestForReleaseKept,
     CommitReleaseKept
  DEF ReleaseRollout
<1>3. ASSUME NEW r \in Handlers, Deliver(r) PROVE Kept
  BY <1>3, FetchKept, ReportKept, PullKept, FindPulledKept, MarkKept,
     StartApplyKept, ApplyKept
  DEF Deliver
<1> QED
  BY <1>1, <1>2, <1>3, RejectKept, CreateRolloutKept, ApproveRolloutKept,
     StutterKept
  DEF OverridesNext

LEMMA OverridesAlways == OverridesSpec => []OverridesInv
<1>1. OverridesInit => OverridesInv
  BY OverridesInitInv
<1>2. OverridesInv /\ [OverridesNext]_overrideVars => OverridesInv'
  BY NextKept DEF Kept
<1> QED
  BY <1>1, <1>2, PTL DEF OverridesSpec

-----------------------------------------------------------------------------
(* Requests that do not overlap: the inductive invariant *)

\* who has found no pending request and is about to add a row
Adds(r) == handling[r].pc \in {"latest", "insert", "latestRelease", "release"}

\* one request at a time; none is about to add a row over a pending one; the
\* pending one is the newest row and a technician's; what was used was approved
InTurn ==
  /\ ~Overlap
  /\ \A r \in Handlers : Adds(r) => PendingRows = {}
  /\ \A v \in PendingRows : v = Len(rows) /\ ~rows[v].byRollout
  /\ \A v \in DOMAIN rows : rows[v].consumed => rows[v].status = "approved"
  /\ ReplacedStaysAway

SerialInv == OverridesInv /\ (overlapped \/ InTurn)

LEMMA InTurnIsPrecedence ==
  ASSUME OverridesInv, InTurn
  PROVE  OnePending /\ RequestsComeFirst /\ ReplacedStaysAway
<1>1. DOMAIN rows = 1..Len(rows) /\ Len(rows) \in Nat
  BY DEF OverridesInv, OverridesTypeOK
<1>2. PendingRows \subseteq DOMAIN rows
  BY DEF PendingRows
<1> QED
  BY <1>1, <1>2 DEF InTurn, OnePending, RequestsComeFirst

LEMMA SerialInitInv ==
  ASSUME OverridesInit
  PROVE  InTurn
<1>1. \A r \in Handlers : handling[r].pc = "idle"
  BY DEF OverridesInit, IdleRequest
<1>2. DOMAIN rows = {}
  BY DEF OverridesInit
<1> QED
  BY <1>1, <1>2
  DEF InTurn, Overlap, Busy, IsIdle, Adds, PendingRows, Waiting, ReplacedStaysAway

\* a step that leaves the rows alone and lets nobody add one over a request
LEMMA SerialStays ==
  ASSUME InTurn, ~Overlap', UNCHANGED rows,
         \A r \in Handlers : Adds(r)' => Adds(r) \/ PendingRows = {}
  PROVE  InTurn'
<1>1. PendingRows' = PendingRows /\ Waiting' = Waiting
  BY DEF PendingRows, Waiting
<1> QED
  BY <1>1 DEF InTurn, ReplacedStaysAway

\* the same for a step of one request
LEMMA SerialRequest ==
  ASSUME OverridesInv, InTurn, ~Overlap', UNCHANGED rows, NEW r \in Handlers, NEW new,
         handling' = [handling EXCEPT ![r] = new],
         new.pc \in {"latest", "insert", "latestRelease", "release"} =>
           Adds(r) \/ PendingRows = {}
  PROVE  InTurn'
<1>1. handling'[r] = new /\ \A q \in Handlers : q # r => handling'[q] = handling[q]
  BY DEF OverridesInv, OverridesTypeOK
<1>2. \A q \in Handlers : Adds(q)' => Adds(q) \/ PendingRows = {}
  BY <1>1 DEF Adds
<1> QED
  BY <1>2, SerialStays

\* nobody is served any more when the request ends that was
LEMMA LastEnds ==
  ASSUME OverridesInv, InTurn, NEW r \in Handlers, ~IsIdle(r), Finish(r)
  PROVE  \A q \in Handlers : ~Adds(q)'
<1>1. \A q \in Handlers : q # r => IsIdle(q)
  BY DEF InTurn, Overlap, Busy
<1>2. \A q \in Handlers : handling'[q].pc = "idle"
  BY <1>1, IdleIsRequest DEF Finish, IsIdle, OverridesInv, OverridesTypeOK
<1> QED
  BY <1>2 DEF Adds

LEMMA FinishInTurn ==
  ASSUME OverridesInv, InTurn, ~Overlap', NEW r \in Handlers, Finish(r), UNCHANGED rows
  PROVE  InTurn'
BY IdleIsRequest, SerialRequest DEF Finish

LEMMA AskInTurn ==
  ASSUME OverridesInv, InTurn, ~Overlap', NEW r \in Handlers,
         CheckPending(r) \/ ReadLatest(r)
  PROVE  InTurn'
<1>1. CASE CheckPending(r)
  BY <1>1, SerialRequest DEF CheckPending, Goto
<1>2. CASE ReadLatest(r)
  BY <1>2, SerialRequest DEF ReadLatest, BeginRequest, Adds
<1> QED
  BY <1>1, <1>2

\* the row of a request: there was no other that was pending
LEMMA InsertInTurn ==
  ASSUME OverridesInv, InTurn, ~Overlap', NEW r \in Handlers, Insert(r)
  PROVE  InTurn'
<1>1. CASE rows' = rows
  BY <1>1, FinishInTurn DEF Insert
<1>2. CASE rows' = Append(rows, NewRow("pending", 0, FALSE))
  <2> DEFINE row == NewRow("pending", 0, FALSE)
             n == Len(rows) + 1
  <2>1. row \in OverrideRow /\ row.consumed = FALSE /\ row.byRollout = FALSE
        /\ row.status = "pending"
    BY DEF NewRow, OverrideRow
  <2>2. DOMAIN rows = 1..Len(rows) /\ Len(rows) \in Nat /\ Len(rows') = n
    BY <1>2 DEF OverridesInv, OverridesTypeOK
  <2> HIDE DEF row
  <2>3. /\ \A v \in DOMAIN rows : rows'[v] = rows[v]
        /\ DOMAIN rows' = DOMAIN rows \cup {n}
        /\ rows'[n] = row
    BY <1>2, <2>1, Adding DEF OverridesInv, OverridesTypeOK, row
  <2>4. PendingRows = {}
    BY DEF InTurn, Adds, Insert
  <2>5. PendingRows' = {n} /\ Waiting' = Waiting
    BY <2>1, <2>2, <2>3, <2>4 DEF PendingRows, Waiting
  <2>6. \A q \in Handlers : ~Adds(q)'
    BY LastEnds DEF Insert, IsIdle
  <2>7. \A v \in PendingRows' : v = Len(rows') /\ ~rows'[v].byRollout
    BY <2>1, <2>2, <2>3, <2>5
  <2>8. \A v \in DOMAIN rows' : rows'[v].consumed => rows'[v].status = "approved"
    BY <2>1, <2>3 DEF InTurn
  <2>9. ReplacedStaysAway'
    BY <2>1, <2>3, <2>5 DEF InTurn, ReplacedStaysAway
  <2> QED
    BY <2>6, <2>7, <2>8, <2>9 DEF InTurn
<1> QED
  BY <1>1, <1>2 DEF Insert

\* a decision: the row is the newest one
LEMMA DecidingInTurn ==
  ASSUME OverridesInv, InTurn, ~Overlap', NEW v \in PendingRows,
         NEW s \in {"approved", "rejected"}, NEW time \in Nat,
         rows' = [rows EXCEPT ![v].status = s, ![v].decided = time],
         \A r \in Handlers : Adds(r)' => Adds(r)
  PROVE  InTurn'
<1>1. v \in DOMAIN rows /\ rows[v].status = "pending" /\ v = Len(rows)
  BY DEF PendingRows, InTurn
<1>2. DOMAIN rows = 1..Len(rows) /\ Len(rows) \in Nat
      /\ \A w \in DOMAIN rows : rows[w] \in OverrideRow
  BY DEF OverridesInv, OverridesTypeOK
<1>3. /\ DOMAIN rows' = DOMAIN rows
      /\ \A w \in DOMAIN rows : rows'[w].consumed = rows[w].consumed
  BY Deciding
<1>4. /\ rows'[v].status = s
      /\ \A w \in DOMAIN rows : w # v => rows'[w] = rows[w]
  BY <1>1, <1>2 DEF OverrideRow
<1>5. PendingRows' = {}
  BY <1>1, <1>2, <1>3, <1>4 DEF PendingRows, InTurn
<1>6. \A w \in DOMAIN rows' : rows'[w].consumed => rows'[w].status = "approved"
  BY <1>1, <1>3, <1>4 DEF InTurn
<1>7. Waiting' \subseteq Waiting \cup {v}
  BY <1>3, <1>4 DEF Waiting
<1>8. ~rows[v].consumed
  BY <1>1 DEF InTurn
<1>9. ReplacedStaysAway'
  BY <1>1, <1>2, <1>3, <1>7, <1>8 DEF InTurn, ReplacedStaysAway
<1> QED
  BY <1>5, <1>6, <1>9 DEF InTurn

LEMMA ApproveInTurn ==
  ASSUME OverridesInv, InTurn, ~Overlap', NEW r \in Handlers, ApproveOverride(r)
  PROVE  InTurn'
<1>1. CASE handling[r].version \notin PendingRows
  BY <1>1, FinishInTurn DEF ApproveOverride
<1>2. CASE handling[r].version \in PendingRows
  <2>1. handling[r].time \in Nat
    BY DEF OverridesInv, OverridesTypeOK, Request
  <2>2. rows' = [rows EXCEPT ![handling[r].version].status = "approved",
                             ![handling[r].version].decided = handling[r].time]
    BY <1>2 DEF ApproveOverride
  <2>3. \A q \in Handlers : ~Adds(q)'
    BY LastEnds DEF ApproveOverride, IsIdle
  <2> QED
    BY <1>2, <2>1, <2>2, <2>3, DecidingInTurn
<1> QED
  BY <1>1, <1>2

LEMMA RejectInTurn ==
  ASSUME OverridesInv, InTurn, ~Overlap', NEW v \in DOMAIN rows, RejectOverride(v)
  PROVE  InTurn'
<1>1. \A r \in Handlers : Adds(r)' => Adds(r)
  BY DEF RejectOverride, Adds
<1>2. clock \in Nat
  BY DEF OverridesInv, OverridesTypeOK
<1> QED
  BY <1>1, <1>2, DecidingInTurn DEF RejectOverride

LEMMA StartReleaseInTurn ==
  ASSUME OverridesInv, InTurn, ~Overlap', NEW r \in Handlers, NEW k \in Rollouts,
         StartRelease(r, k)
  PROVE  InTurn'
<1>1. CASE UNCHANGED handling
  BY <1>1, SerialStays DEF StartRelease, Adds
<1>2. CASE BeginRequest(r, [IdleRequest EXCEPT !.pc = "checkRelease", !.rollout = {k}])
  <2> DEFINE new == [IdleRequest EXCEPT !.pc = "checkRelease", !.rollout = {k}]
  <2>1. new.pc = "checkRelease"
    BY DEF IdleRequest
  <2>2. handling' = [handling EXCEPT ![r] = new]
    BY <1>2 DEF BeginRequest
  <2> HIDE DEF new
  <2> QED
    BY <2>1, <2>2, SerialRequest DEF StartRelease
<1> QED
  BY <1>1, <1>2 DEF StartRelease

LEMMA ReadForReleaseInTurn ==
  ASSUME OverridesInv, InTurn, ~Overlap', NEW r \in Handlers,
         CheckRelease(r) \/ LatestForRelease(r)
  PROVE  InTurn'
<1>1. CASE CheckRelease(r) /\ Finish(r)
  BY <1>1, FinishInTurn DEF CheckRelease
<1>2. CASE CheckRelease(r) /\ PendingRows = {} /\ Goto(r, "latestRelease")
  BY <1>2, SerialRequest DEF CheckRelease, Goto
<1>3. CASE LatestForRelease(r)
  BY <1>3, SerialRequest DEF LatestForRelease, BeginRequest, Adds
<1> QED
  BY <1>1, <1>2, <1>3 DEF CheckRelease

\* the row of a rollout: no request was pending
LEMMA CommitReleaseInTurn ==
  ASSUME OverridesInv, InTurn, ~Overlap', NEW r \in Handlers, CommitRelease(r)
  PROVE  InTurn'
<1>1. CASE rows' = rows
  BY <1>1, FinishInTurn DEF CommitRelease
<1>2. ASSUME NEW k \in handling[r].rollout,
             rows' = Append(rows, NewRow("approved", rollout[k].approved, TRUE))
      PROVE  InTurn'
  <2>1. k \in Rollouts
    BY DEF OverridesInv, OverridesTypeOK, Request
  <2> DEFINE row == NewRow("approved", rollout[k].approved, TRUE)
             n == Len(rows) + 1
  <2>2. row \in OverrideRow /\ row.consumed = FALSE /\ row.status = "approved"
    BY <2>1 DEF NewRow, OverrideRow, OverridesInv, OverridesTypeOK, Rollout
  <2>3. DOMAIN rows = 1..Len(rows) /\ Len(rows) \in Nat
    BY DEF OverridesInv, OverridesTypeOK
  <2> HIDE DEF row
  <2>4. /\ \A v \in DOMAIN rows : rows'[v] = rows[v]
        /\ DOMAIN rows' = DOMAIN rows \cup {n}
        /\ rows'[n] = row
    BY <1>2, <2>2, Adding DEF OverridesInv, OverridesTypeOK, row
  <2>5. PendingRows = {}
    BY DEF InTurn, Adds, CommitRelease
  <2>6. PendingRows' = {}
    BY <2>2, <2>4, <2>5 DEF PendingRows
  <2>7. Waiting' \subseteq Waiting \cup {n}
    BY <2>4 DEF Waiting
  <2>8. \A v \in DOMAIN rows' : rows'[v].consumed => v \in DOMAIN rows /\ rows[v].consumed
    BY <2>2, <2>4
  <2>9. \A v \in DOMAIN rows' : rows'[v].consumed => rows'[v].status = "approved"
    BY <2>4, <2>8 DEF InTurn
  <2>10. ReplacedStaysAway'
    BY <2>3, <2>7, <2>8 DEF InTurn, ReplacedStaysAway
  <2> QED
    BY <2>6, <2>9, <2>10 DEF InTurn
<1> QED
  BY <1>1, <1>2 DEF CommitRelease

LEMMA DeliverInTurn ==
  ASSUME OverridesInv, InTurn, ~Overlap', NEW r \in Handlers,
         \/ \E k \in Rollouts : Fetch(r, k) \/ Report(r, k)
         \/ Pull(r) \/ FindPulled(r) \/ StartApply(r) \/ Apply(r)
  PROVE  InTurn'
<1>1. UNCHANGED rows
  BY DEF Fetch, Report, Pull, FindPulled, StartApply, Apply
<1>2. ASSUME NEW new, BeginRequest(r, new), new.pc \in {"idle", "pull", "find", "mark", "apply"}
      PROVE  InTurn'
  BY <1>1, <1>2, SerialRequest DEF BeginRequest
<1>3. CASE Finish(r)
  BY <1>1, <1>3, FinishInTurn
<1>4. CASE handling' = handling
  BY <1>1, <1>4, SerialStays DEF Adds
<1>5. ASSUME NEW k \in Rollouts, Fetch(r, k) \/ Report(r, k) PROVE InTurn'
  <2> DEFINE asked == [IdleRequest EXCEPT !.pc = "pull", !.version = Newest(Waiting),
                                          !.rollout = {k}]
             used == [IdleRequest EXCEPT !.pc = "find", !.time = rollout[k].pulled]
  <2>1. asked.pc = "pull" /\ used.pc = "find"
    BY DEF IdleRequest
  <2>2. BeginRequest(r, asked) \/ BeginRequest(r, used) \/ handling' = handling
    BY <1>5 DEF Fetch, Report
  <2> HIDE DEF asked, used
  <2> QED
    BY <1>2, <1>4, <2>1, <2>2
<1>6. CASE FindPulled(r)
  <2> DEFINE n == Newest({v \in Waiting : rows[v].decided < handling[r].time})
             new == [handling[r] EXCEPT !.pc = "mark", !.version = n]
  <2>1. Finish(r) \/ BeginRequest(r, new)
    BY <1>6 DEF FindPulled
  <2>2. new.pc = "mark"
    BY DEF OverridesInv, OverridesTypeOK, Request
  <2> HIDE DEF n, new
  <2> QED
    BY <1>2, <1>3, <2>1, <2>2
<1>7. CASE StartApply(r)
  <2> DEFINE new == [IdleRequest EXCEPT !.pc = "apply", !.version = Newest(Waiting)]
  <2>1. BeginRequest(r, new) /\ new.pc = "apply"
    BY <1>7 DEF StartApply, IdleRequest
  <2> HIDE DEF new
  <2> QED
    BY <1>2, <2>1
<1>8. CASE Apply(r) /\ Goto(r, "mark")
  <2> DEFINE new == [handling[r] EXCEPT !.pc = "mark"]
  <2>1. new.pc = "mark"
    BY DEF OverridesInv, OverridesTypeOK, Request
  <2>2. handling' = [handling EXCEPT ![r] = new]
    BY <1>8 DEF Goto
  <2> HIDE DEF new
  <2> QED
    BY <1>1, <2>1, <2>2, SerialRequest
<1> QED
  BY <1>3, <1>5, <1>6, <1>7, <1>8 DEF Pull, Apply

\* the row that was used and those before it: what still waits is newer
LEMMA MarkInTurn ==
  ASSUME OverridesInv, InTurn, ~Overlap', NEW r \in Handlers, Mark(r)
  PROVE  InTurn'
<1> DEFINE n == handling[r].version
           f == [v \in DOMAIN rows |->
                   [rows[v] EXCEPT !.consumed = @ \/ (v \in Waiting /\ v <= n)]]
<1>1. DOMAIN rows = 1..Len(rows) /\ Len(rows) \in Nat /\ n \in Nat
      /\ \A v \in DOMAIN rows : rows[v] \in OverrideRow
  BY DEF OverridesInv, OverridesTypeOK, Request
<1>2. ASSUME NEW v \in DOMAIN rows
      PROVE  /\ f[v] \in OverrideRow
             /\ f[v].status = rows[v].status
             /\ f[v].byRollout = rows[v].byRollout
             /\ f[v].consumed = (rows[v].consumed \/ (v \in Waiting /\ v <= n))
  BY <1>1 DEF OverrideRow
<1>3. rows' = f
  BY DEF Mark
<1>4. DOMAIN f = DOMAIN rows
  OBVIOUS
<1>5. f \in [1..Len(rows) -> OverrideRow]
  BY <1>1, <1>2
<1> HIDE DEF f, n
<1>6. Len(rows') = Len(rows)
  BY <1>1, <1>3, <1>5
<1>7. PendingRows' = PendingRows
  BY <1>2, <1>3, <1>4 DEF PendingRows
<1>8. \A v \in PendingRows' : v = Len(rows') /\ ~rows'[v].byRollout
  BY <1>2, <1>3, <1>6, <1>7 DEF InTurn, PendingRows
<1>9. \A v \in DOMAIN rows' : rows'[v].consumed => rows'[v].status = "approved"
  BY <1>2, <1>3, <1>4 DEF InTurn, Waiting
<1>10. ASSUME NEW v \in Waiting'
      PROVE  v \in Waiting /\ ~(v <= n)
  BY <1>2, <1>3, <1>4 DEF Waiting
<1>11. ReplacedStaysAway'
  <2> SUFFICES ASSUME NEW v \in Waiting', NEW w \in DOMAIN rows, f[w].consumed
               PROVE  w < v
    BY <1>3, <1>4 DEF ReplacedStaysAway
  <2>1. v \in Waiting /\ v \in Nat /\ n < v
    BY <1>1, <1>10 DEF Waiting
  <2>2. CASE rows[w].consumed
    BY <2>1, <2>2 DEF InTurn, ReplacedStaysAway
  <2>3. CASE w <= n
    BY <1>1, <2>1, <2>3
  <2> QED
    BY <1>2, <2>2, <2>3
<1>12. \A q \in Handlers : ~Adds(q)'
  BY LastEnds DEF Mark, IsIdle
<1> QED
  BY <1>8, <1>9, <1>11, <1>12 DEF InTurn

LEMMA NextInTurn ==
  ASSUME OverridesInv, InTurn, ~Overlap', [OverridesNext]_overrideVars
  PROVE  InTurn'
<1>1. ASSUME NEW r \in Handlers, Ask(r) \/ DecideOverride(r) \/ Drop(r) PROVE InTurn'
  <2>1. CASE \E v \in DOMAIN rows : StartApprove(r, v)
    <3>1. PICK v \in DOMAIN rows : StartApprove(r, v)
      BY <2>1
    <3> DEFINE new == [IdleRequest EXCEPT !.pc = "approve", !.version = v, !.time = clock]
    <3>2. handling' = [handling EXCEPT ![r] = new] /\ new.pc = "approve"
      BY <3>1 DEF StartApprove, BeginRequest, IdleRequest
    <3> HIDE DEF new
    <3> QED
      BY <3>1, <3>2, SerialRequest DEF StartApprove
  <2> QED
    BY <1>1, <2>1, AskInTurn, InsertInTurn, ApproveInTurn, FinishInTurn
    DEF Ask, DecideOverride, Drop
<1>2. ASSUME NEW r \in Handlers, ReleaseRollout(r) PROVE InTurn'
  BY <1>2, StartReleaseInTurn, ReadForReleaseInTurn, CommitReleaseInTurn
  DEF ReleaseRollout
<1>3. ASSUME NEW r \in Handlers, Deliver(r) PROVE InTurn'
  BY <1>3, DeliverInTurn, MarkInTurn DEF Deliver
<1>4. CASE \E k \in Rollouts : CreateRollout(k) \/ ApproveRollout(k)
  BY <1>4, SerialStays DEF CreateRollout, ApproveRollout, Adds
<1>5. CASE UNCHANGED overrideVars
  BY <1>5, SerialStays DEF overrideVars, Adds
<1> QED
  BY <1>1, <1>2, <1>3, <1>4, <1>5, RejectInTurn DEF OverridesNext

-----------------------------------------------------------------------------
(* Theorems *)

\* Override rows, rollouts and what requests have read keep their types; the
\* newest of any versions exists.
THEOREM OverrideTypes == OverridesSpec => []OverridesTypeOK
<1>1. OverridesInv => OverridesTypeOK
  BY DEF OverridesInv
<1> QED
  BY <1>1, OverridesAlways, PTL

\* The first of two decisions on a request counts and what was used stays used,
\* for any number of requests and rollouts that overlap (the conditional updates
\* of device.service.ts).
THEOREM FirstDecisionStands == OverridesSpec => DecisionsStand
<1>1. OverridesInv /\ [OverridesNext]_overrideVars =>
        [\A v \in DOMAIN rows :
           /\ rows[v].status # "pending" => rows'[v].status = rows[v].status
           /\ rows[v].consumed => rows'[v].consumed]_overrideVars
  BY NextKept DEF Kept, RowsGrow
<1> QED
  BY <1>1, OverridesAlways, PTL DEF OverridesSpec, DecisionsStand

\* What technicians apply is marked as used only if it, or a newer row, was given
\* to the device, however their requests overlap.
THEOREM AppliedIsGiven == OverridesSpec => []AppliedWasGiven
<1>1. OverridesInv => AppliedWasGiven
  BY DEF OverridesInv
<1> QED
  BY <1>1, OverridesAlways, PTL

\* As long as requests do not overlap, a technician's request is the only one
\* that is pending, no rollout puts its values over it, and a row that was
\* replaced by one that was used is not sent any more (the checks of
\* overrideDeviceConfig and persistDeviceValues, which nothing repeats).
THEOREM PrecedenceHoldsInTurn == SerialSpec => []SerialPrecedence
<1>1. SerialInit => SerialInv
  BY OverridesInitInv, SerialInitInv DEF SerialInit, SerialInv
<1>2. SerialInv /\ [SerialNext]_serialVars => SerialInv'
  <2> SUFFICES ASSUME SerialInv, [SerialNext]_serialVars PROVE SerialInv'
    OBVIOUS
  <2>1. [OverridesNext]_overrideVars
    BY DEF SerialNext, serialVars
  <2>2. OverridesInv'
    BY <2>1, NextKept DEF Kept, SerialInv
  <2>3. ASSUME ~overlapped' PROVE InTurn'
    <3>1. CASE SerialNext
      BY <2>1, <2>3, <3>1, NextInTurn DEF SerialNext, SerialInv
    <3>2. CASE UNCHANGED serialVars
      <4>1. InTurn /\ UNCHANGED overrideVars
        BY <2>3, <3>2 DEF serialVars, SerialInv
      <4>2. ~Overlap'
        BY <4>1 DEF InTurn, Overlap, Busy, IsIdle, overrideVars
      <4> QED
        BY <4>1, <4>2, NextInTurn DEF SerialInv
    <3> QED
      BY <3>1, <3>2
  <2> QED
    BY <2>2, <2>3 DEF SerialInv
<1>3. SerialInv => SerialPrecedence
  BY InTurnIsPrecedence DEF SerialInv, SerialPrecedence
<1> QED
  BY <1>1, <1>2, <1>3, PTL DEF SerialSpec

=============================================================================
