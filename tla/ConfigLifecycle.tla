-------------------------- MODULE ConfigLifecycle --------------------------
(***************************************************************************)
(* The life of a Config (src/backend/src/config/config.service.ts): it is  *)
(* created as a draft, decided, approved or sent back, referred to by      *)
(* rollouts, apply requests, override requests and tasks, and deleted,     *)
(* either by remove() or through a deletion request that the nightly sweep *)
(* opens (config-deletion.service.ts).                                     *)
(*                                                                         *)
(* Every handler is a call that reads first and writes later, in a         *)
(* transaction of its own; calls of several users interleave.  The row     *)
(* locks of config-lock.ts are the "locked" stages of calls: FOR SHARE for *)
(* who refers to the Config, FOR UPDATE for who removes it.  The content   *)
(* of a Config (its fields, its name, the device model) is left out: of a  *)
(* version only its number is kept.                                        *)
(***************************************************************************)
EXTENDS Integers

CONSTANTS
  Configs,      \* ids of Config rows, one for each create()
  Uses,         \* rows that may come to refer to a Config
  Callers,      \* handlers that may run at the same time
  Requests,     \* rows that may become deletion requests
  MaxVersions   \* bound on the versions of a Config

ASSUME BoundAssumption == MaxVersions \in Nat

VARIABLES
  config,    \* the Config rows
  versions,  \* the number of ConfigVersion rows of each Config
  use,       \* the rollouts, requests, overrides and tasks
  request,   \* the ConfigDeletionRequest rows
  sweep,     \* the candidates the running sweep has still to go through
  call       \* what each caller is doing

vars == <<config, versions, use, request, sweep, call>>

\* What may refer to a Config.
Kinds == {"rollout", "task", "request", "override"}

\* The calls that read a Config, and those that read a deletion request.
ConfigOps == {"decide", "approve", "reject", "update", "remove", "refer"}
RequestOps == {"grant", "refuse", "keep"}

\* "deleted" tells who set deletedAt, a column that only holds a time: remove()
\* or the approval of a deletion request.  "none": not created yet.  "erased":
\* the row itself was deleted.
Row == [status : {"none", "draft", "testing", "approved", "erased"},
        deleted : {"no", "removed", "granted"},
        idle : BOOLEAN]

\* What a row will refer to is fixed while it is still "none".  "again": a task
\* that Operation has set back to open.
Use == [config : Configs, kind : Kinds,
        stage : {"none", "open", "ended", "again"}]

DeletionRequest == [config : Configs,
                    status : {"none", "pending", "approved", "rejected",
                              "cancelled", "erased"},
                    cooling : BOOLEAN]

Idle == [op |-> "idle"]

\* "seen" is what the call remembers of its reads: the number of versions
\* counted, the use that is released, or the deletion request.
Call == {Idle} \cup
        [op : ConfigOps, config : Configs,
         at : {"read", "counted", "locked"}, seen : Nat] \cup
        [op : {"release"}, config : Configs, at : {"read"}, seen : Uses] \cup
        [op : RequestOps, config : Configs, at : {"read"},
         seen : Requests]

TypeOK ==
  /\ config \in [Configs -> Row]
  /\ versions \in [Configs -> Nat]
  /\ use \in [Uses -> Use]
  /\ request \in [Requests -> DeletionRequest]
  /\ sweep \subseteq Configs
  /\ call \in [Callers -> Call]

Init ==
  /\ config = [c \in Configs |->
                 [status |-> "none", deleted |-> "no", idle |-> FALSE]]
  /\ versions = [c \in Configs |-> 0]
  /\ use \in [Uses -> {u \in Use : u.stage = "none"}]
  /\ request \in [Requests -> {r \in DeletionRequest :
                                r.status = "none" /\ ~r.cooling}]
  /\ sweep = {}
  /\ call = [w \in Callers |-> Idle]

-----------------------------------------------------------------------------
(* What the handlers read and lock.                                        *)

\* The row is there, deleted softly or not.
Exists(c) == config[c].status \notin {"none", "erased"}

\* findOne: the row is there and has no deletedAt.
Live(c) == Exists(c) /\ config[c].deleted = "no"

Opened == {"open", "again"}

UsesOf(c) == {u \in Uses : use[u].config = c /\ use[u].stage # "none"}

\* assertNotInUse: an open rollout, request, override or task.
InUse(c) == \E u \in UsesOf(c) : use[u].stage \in Opened

\* hasAnyReference: any row at all.  An incident about a Config presupposes a
\* version of it.
HasAnyReference(c) == versions[c] > 0 \/ UsesOf(c) # {}

LockedBy(c, op) ==
  {w \in Callers : call[w].op = op /\ call[w].config = c
                   /\ call[w].at = "locked"}

\* No transaction holds a lock that the update of the row would wait for.
Unlocked(c) == LockedBy(c, "refer") = {} /\ LockedBy(c, "remove") = {}

Is(w, op, at) == call[w].op = op /\ call[w].at = at

Pending(r) == request[r].status = "pending"

\* Postgres and Prisma write updatedAt with every update of the row.
Touched(c, row) == [config EXCEPT ![c] = [row EXCEPT !.idle = FALSE]]

Return(w) == call' = [call EXCEPT ![w] = Idle]

Begin(w, op, c, seen) ==
  /\ call[w] = Idle
  /\ call' = [call EXCEPT ![w] = [op |-> op, config |-> c, at |-> "read",
                                  seen |-> seen]]

-----------------------------------------------------------------------------
(* create(), decide(), approve(), reject(), update().                      *)

Create(c) ==
  /\ config[c].status = "none"
  /\ config' = [config EXCEPT ![c].status = "draft"]
  /\ UNCHANGED <<versions, use, request, sweep, call>>

\* findOne and the check of the status, outside of the transaction.
Read(w, op, c) ==
  /\ Live(c)
  /\ CASE op \in {"decide", "update"} -> config[c].status = "draft"
       [] op \in {"approve", "reject"} -> config[c].status = "testing"
       [] op = "remove" -> TRUE
  /\ Begin(w, op, c, 0)
  /\ UNCHANGED <<config, versions, use, request, sweep>>

\* The write that follows a read: by id alone, whatever the row has become.
SetStatus(w, op, status) ==
  LET c == call[w].config IN
  /\ Is(w, op, "read")
  /\ Exists(c) /\ Unlocked(c)
  /\ config' = Touched(c, [config[c] EXCEPT !.status = status])
  /\ Return(w)
  /\ UNCHANGED <<versions, use, request, sweep>>

Decide(w) == SetStatus(w, "decide", "testing")
Reject(w) == SetStatus(w, "reject", "draft")

Update(w) ==
  LET c == call[w].config IN
  /\ Is(w, "update", "read")
  /\ Exists(c) /\ Unlocked(c)
  /\ config' = Touched(c, config[c])
  /\ Return(w)
  /\ UNCHANGED <<versions, use, request, sweep>>

\* The transaction of approve() counts the versions ...
CountVersions(w) ==
  /\ Is(w, "approve", "read")
  /\ call' = [call EXCEPT ![w].at = "counted",
                          ![w].seen = versions[call[w].config]]
  /\ UNCHANGED <<config, versions, use, request, sweep>>

\* ... and inserts the next one; the number is unique, so an approval that has
\* counted before another one committed fails (Fail).
Approve(w) ==
  LET c == call[w].config IN
  /\ Is(w, "approve", "counted")
  /\ Exists(c) /\ Unlocked(c)
  /\ call[w].seen = versions[c] /\ versions[c] < MaxVersions
  /\ versions' = [versions EXCEPT ![c] = @ + 1]
  /\ config' = Touched(c, [config[c] EXCEPT !.status = "approved"])
  /\ Return(w)
  /\ UNCHANGED <<use, request, sweep>>

\* A refusal, a deadlock or an error rolls the transaction back.
Fail(w) ==
  /\ call[w] # Idle
  /\ Return(w)
  /\ UNCHANGED <<config, versions, use, request, sweep>>

-----------------------------------------------------------------------------
(* Referring to a Config.                                                  *)

\* validateConfigPayload, assertConfigAssignable, assertApplicable and
\* getBaseConfigForDevice ask for an approved Config; a rollback takes the one
\* of an earlier rollout.
ReadToRefer(w, c) ==
  /\ \/ Exists(c) /\ config[c].status = "approved"
     \/ \E u \in UsesOf(c) : use[u].kind = "rollout"
  /\ Begin(w, "refer", c, 0)
  /\ UNCHANGED <<config, versions, use, request, sweep>>

\* Wrong on purpose: the lock alone, what became of the row is not looked at.
LockOnly(w) ==
  /\ Is(w, "refer", "read")
  /\ LockedBy(call[w].config, "remove") = {}
  /\ call' = [call EXCEPT ![w].at = "locked"]
  /\ UNCHANGED <<config, versions, use, request, sweep>>

\* lockConfigForReference: waits for who removes, then refuses a deleted row.
LockConfigForReference(w) ==
  LET c == call[w].config IN
  /\ Is(w, "refer", "read")
  /\ LockedBy(c, "remove") = {}
  /\ Live(c)
  /\ call' = [call EXCEPT ![w].at = "locked"]
  /\ UNCHANGED <<config, versions, use, request, sweep>>

\* The insert, in the transaction that holds the lock.
Refer(w, u) ==
  /\ Is(w, "refer", "locked")
  /\ use[u].stage = "none" /\ use[u].config = call[w].config
  /\ use' = [use EXCEPT ![u].stage = "open"]
  /\ Return(w)
  /\ UNCHANGED <<config, versions, request, sweep>>

\* The release of an apply request checks the Config again, without a lock ...
ReadToRelease(w, u) ==
  LET c == use[u].config IN
  /\ use[u].kind = "request" /\ use[u].stage = "open"
  /\ Live(c) /\ config[c].status = "approved"
  /\ Begin(w, "release", c, u)
  /\ UNCHANGED <<config, versions, use, request, sweep>>

\* ... and createFieldApplyRollout inserts its rollout.  The foreign key waits
\* for who removes.  The request was claimed by the same transaction.
Release(w, u) ==
  LET c == call[w].config IN
  /\ Is(w, "release", "read")
  /\ LockedBy(c, "remove") = {}
  /\ use[call[w].seen].stage = "open"
  /\ use[u].stage = "none" /\ use[u].config = c /\ use[u].kind = "rollout"
  /\ use' = [use EXCEPT ![u].stage = "open"]
  /\ Return(w)
  /\ UNCHANGED <<config, versions, request, sweep>>

\* A rollout closes, a request is decided, a task is completed or cancelled.
EndUse(u) ==
  /\ use[u].stage \in Opened
  /\ use' = [use EXCEPT ![u].stage = "ended"]
  /\ UNCHANGED <<config, versions, request, sweep, call>>

\* Operation sets the status of a task without naming its Config again: no lock
\* is taken and no Config is read.
ReopenTask(u) ==
  /\ use[u].kind = "task" /\ use[u].stage = "ended"
  /\ use' = [use EXCEPT ![u].stage = "again"]
  /\ UNCHANGED <<config, versions, request, sweep, call>>

-----------------------------------------------------------------------------
(* remove().                                                               *)

\* lockConfigForDelete waits for everybody and reads the row again.
LockConfigForDelete(w) ==
  LET c == call[w].config IN
  /\ Is(w, "remove", "read")
  /\ Unlocked(c) /\ Live(c)
  /\ call' = [call EXCEPT ![w].at = "locked"]
  /\ UNCHANGED <<config, versions, use, request, sweep>>

\* Requests of an erased Config go with it (onDelete: Cascade).
WithRequestsOf(c, from, to) ==
  [r \in Requests |->
     IF request[r].config = c /\ request[r].status \in from
     THEN [request[r] EXCEPT !.status = to] ELSE request[r]]

\* Wrong on purpose: a draft is erased whatever still refers to it.
EraseAnyDraft(w) ==
  LET c == call[w].config IN
  /\ Is(w, "remove", "locked")
  /\ ~InUse(c) /\ config[c].status = "draft"
  /\ config' = [config EXCEPT ![c].status = "erased"]
  /\ request' = WithRequestsOf(c, {"pending", "approved", "rejected",
                                   "cancelled"}, "erased")
  /\ Return(w)
  /\ UNCHANGED <<versions, use, sweep>>

RemoveErases(w) ==
  LET c == call[w].config IN
  /\ Is(w, "remove", "locked")
  /\ ~InUse(c)
  /\ config[c].status = "draft" /\ ~HasAnyReference(c)
  /\ config' = [config EXCEPT ![c].status = "erased"]
  /\ request' = WithRequestsOf(c, {"pending", "approved", "rejected",
                                   "cancelled"}, "erased")
  /\ Return(w)
  /\ UNCHANGED <<versions, use, sweep>>

RemoveHides(w) ==
  LET c == call[w].config IN
  /\ Is(w, "remove", "locked")
  /\ ~InUse(c)
  /\ ~(config[c].status = "draft" /\ ~HasAnyReference(c))
  /\ config' = Touched(c, [config[c] EXCEPT !.deleted = "removed"])
  /\ request' = WithRequestsOf(c, {"pending"}, "cancelled")
  /\ Return(w)
  /\ UNCHANGED <<versions, use, sweep>>

-----------------------------------------------------------------------------
(* Deletion requests.                                                      *)

\* Wrong on purpose: only the refused requests count.
CandidateUnlessRefused(c) ==
  /\ Live(c) /\ config[c].status = "draft" /\ config[c].idle
  /\ \A u \in UsesOf(c) : use[u].kind \notin {"task", "rollout"}
  /\ \A r \in Requests : request[r].config = c => ~request[r].cooling

\* What the sweep looks for.  Of what refers to a Config it asks only for tasks
\* and rollouts.  (Incidents would only make fewer candidates.)
Candidate(c) ==
  /\ Live(c) /\ config[c].status = "draft" /\ config[c].idle
  /\ \A u \in UsesOf(c) : use[u].kind \notin {"task", "rollout"}
  /\ \A r \in Requests :
       request[r].config = c => ~Pending(r) /\ ~request[r].cooling

\* One query finds all candidates; one sweep runs at a time.
StartSweep ==
  /\ sweep = {}
  /\ \E c \in Configs : Candidate(c)
  /\ sweep' = {c \in Configs : Candidate(c)}
  /\ UNCHANGED <<config, versions, use, request, call>>

\* A request is created for each, whatever has become of it since the query.
OpenRequest(c, r) ==
  /\ c \in sweep /\ Exists(c) /\ LockedBy(c, "remove") = {}
  /\ request[r].status = "none" /\ request[r].config = c
  /\ request' = [request EXCEPT ![r].status = "pending"]
  /\ sweep' = sweep \ {c}
  /\ UNCHANGED <<config, versions, use, call>>

\* The row is gone: the insert fails and the sweep ends with it.  So does a
\* restart.
AbandonSweep ==
  /\ sweep # {}
  /\ sweep' = {}
  /\ UNCHANGED <<config, versions, use, request, call>>

\* getPendingRequest, outside of the transaction.
ReadRequest(w, op, r) ==
  /\ Pending(r)
  /\ Begin(w, op, request[r].config, r)
  /\ UNCHANGED <<config, versions, use, request, sweep>>

\* The decision is written by id: the row only has to be there still.
DecideRequest(w, op, status) ==
  LET r == call[w].seen IN
  /\ Is(w, op, "read")
  /\ request[r].status # "erased"
  /\ request' = [request EXCEPT ![r].status = status,
                                ![r].cooling = @ \/ status = "rejected"]
  /\ Return(w)
  /\ UNCHANGED <<versions, use, sweep>>

\* approve(): deletedAt is set without lockConfigForDelete or assertNotInUse.
Grant(w) ==
  LET c == call[w].config IN
  /\ DecideRequest(w, "grant", "approved")
  /\ Exists(c) /\ Unlocked(c)
  /\ config' = Touched(c, [config[c] EXCEPT
                             !.deleted = IF @ = "no" THEN "granted" ELSE @])

Refuse(w) ==
  /\ DecideRequest(w, "refuse", "rejected")
  /\ UNCHANGED config

Keep(w) ==
  LET c == call[w].config IN
  /\ DecideRequest(w, "keep", "cancelled")
  /\ Exists(c) /\ Unlocked(c)
  /\ config' = Touched(c, config[c])

\* Ninety days without a change, and the end of the time a refused request is
\* not repeated.
GrowIdle(c) ==
  /\ Exists(c) /\ ~config[c].idle
  /\ config' = [config EXCEPT ![c].idle = TRUE]
  /\ UNCHANGED <<versions, use, request, sweep, call>>

EndCooling(r) ==
  /\ request[r].cooling
  /\ request' = [request EXCEPT ![r].cooling = FALSE]
  /\ UNCHANGED <<config, versions, use, sweep, call>>

-----------------------------------------------------------------------------
Next ==
  \/ \E c \in Configs : Create(c) \/ GrowIdle(c)
  \/ \E u \in Uses : EndUse(u) \/ ReopenTask(u)
  \/ \E r \in Requests : EndCooling(r) \/ \E c \in Configs : OpenRequest(c, r)
  \/ StartSweep
  \/ AbandonSweep
  \/ \E w \in Callers :
       \/ \E c \in Configs, op \in {"decide", "approve", "reject", "update",
                                    "remove"} : Read(w, op, c)
       \/ Decide(w) \/ Reject(w) \/ Update(w)
       \/ CountVersions(w) \/ Approve(w) \/ Fail(w)
       \/ \E c \in Configs : ReadToRefer(w, c)
       \/ LockConfigForReference(w)
       \/ \E u \in Uses : Refer(w, u) \/ ReadToRelease(w, u) \/ Release(w, u)
       \/ LockConfigForDelete(w) \/ RemoveErases(w) \/ RemoveHides(w)
       \/ \E r \in Requests, op \in RequestOps : ReadRequest(w, op, r)
       \/ Grant(w) \/ Refuse(w) \/ Keep(w)

Spec == Init /\ [][Next]_vars

-----------------------------------------------------------------------------
(* Properties.                                                             *)

\* config-lock.ts:8: nothing is left that refers to a deleted Config and is
\* still open.  Refuted: the approval of a deletion request does not look
\* (config-deletion.service.ts:140), and a task can be opened again.
DeletedIsUnused ==
  \A u \in Uses : use[u].stage \in Opened => Live(use[u].config)

\* What the locks do guarantee, whatever interleaves with remove(): a Config it
\* has deleted is used by nothing but a task that was opened again later.
RemovedIsUnused ==
  \A u \in Uses :
    use[u].stage = "open" =>
      /\ Exists(use[u].config)
      /\ config[use[u].config].deleted # "removed"

\* Whatever refers to a Config, open or ended, finds the row and a version of
\* it, also after races between approve(), reject() and remove().
UsesHaveVersions ==
  \A u \in Uses :
    use[u].stage # "none" =>
      Exists(use[u].config) /\ versions[use[u].config] > 0

\* Nobody is asked twice: at most one deletion request of a Config is pending,
\* although the sweep creates them from a list that may be old.
AskedOnce ==
  \A r, s \in Requests :
    Pending(r) /\ Pending(s) /\ request[r].config = request[s].config => r = s

\* schema.prisma:759: a Config with a version is approved and never a draft
\* again.  Refuted: reject() may write after the approval it raced with.
VersionedIsApproved ==
  \A c \in Configs :
    versions[c] > 0 => config[c].status \in {"none", "approved"}

\* config-deletion.service.ts:126: a request that is decided stays so.  Refuted:
\* two decisions may both read it pending.
DecidedOnce ==
  [][\A r \in Requests :
       request[r].status \in {"approved", "rejected", "cancelled"} =>
         request'[r].status \in {request[r].status, "erased"}]_vars

=============================================================================
