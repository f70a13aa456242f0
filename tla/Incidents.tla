------------------------------ MODULE Incidents ------------------------------
(***************************************************************************)
(* Incidents (src/backend/src/incident/incident.service.ts) and the two    *)
(* parts of the backend that raise them: the queue that writes approved    *)
(* Configs into the legacy system (config-sync-writer-queue.service.ts)    *)
(* and the outcomes of rollouts (campaign-rollout.service.ts).             *)
(*                                                                         *)
(* The incidents are rows; the queue and the events are in memory only.    *)
(* emit() does not wait for its listeners, so every listener is a handler  *)
(* of its own that looks for the incident first and writes it later, while *)
(* other handlers, Operation and the queue go on.  A restart forgets the   *)
(* queue, the calls and the handlers.  The text, severity and numbers of   *)
(* an incident are left out, and with them the handler that only refreshes *)
(* them.                                                                   *)
(***************************************************************************)
EXTENDS Integers, Sequences

CONSTANTS
  Configs,      \* ids of Configs
  Rollouts,     \* ids of CampaignRollouts
  Handlers,     \* listeners that may run at the same time
  MaxVersions,  \* bound on the versions of a Config
  MaxAttempts,  \* MAX_ATTEMPTS: attempts of one write
  MaxIncidents  \* bound on the incident rows

ASSUME BoundAssumption ==
  /\ MaxVersions \in Nat
  /\ MaxIncidents \in Nat
  /\ MaxAttempts \in Nat \ {0}

VARIABLES
  versions,  \* the number of ConfigVersion rows of each Config
  ordered,   \* writes a call has decided on and not enqueued yet
  chain,     \* runningByConfigId: the promise chain of each Config
  attempt,   \* failed attempts of the write at the head of each chain
  written,   \* writes the legacy system has confirmed
  rollout,   \* the rollouts, as far as their events go
  incident,  \* the Incident rows, in the order of createdAt
  handler,   \* the listeners that run, each with its event
  lost,      \* subjects of which a restart or a database error lost something
  overlap    \* rollouts two events of which were handled at the same time

vars == <<versions, ordered, chain, attempt, written, rollout, incident,
          handler, lost, overlap>>

queue == <<ordered, chain, attempt, written>>

\* A write of the legacy system: a Config and the number of its version.
Writes == Configs \X (1..MaxVersions)

Ids == 1..MaxIncidents

\* "bad": some device failed since the rollout was last resumed, or was
\* skipped.  "mended": the late results of the skipped ones were good.
Rollout == [status : {"active", "paused", "completed", "cancelled"},
            outcome : {"clean", "bad", "mended"},
            undone : BOOLEAN]

Statuses == {"none", "open", "investigating", "resolved", "dismissed",
             "rolled_back"}

Nobody == "nobody"

\* "about" is a write, a rollout or nothing; reviewedBy tells whether a person
\* closed the incident.
Incident == [status : Statuses,
             source : {"config-sync-writer", "rollout-failure", "field-report"},
             about : Writes \cup Rollouts \cup {Nobody},
             reviewedBy : {"operation", Nobody}]

Idle == [event |-> "idle"]

SyncEvents == {"sync-failed", "sync-succeeded"}
RolloutEvents == {"auto-pause", "completed", "rollout-failed",
                  "completed-clean", "resumed", "rolled-back"}

\* "emitting": the call that changed the rollout has not emitted the event yet.
\* "seen": the incidents that the handler found and will write.
Handler == {Idle} \cup
           [event : SyncEvents, about : Writes, at : {"emitted", "found"},
            seen : SUBSET Ids] \cup
           [event : RolloutEvents, about : Rollouts,
            at : {"emitting", "emitted", "found"}, seen : SUBSET Ids]

TypeOK ==
  /\ versions \in [Configs -> 0..MaxVersions]
  /\ ordered \subseteq Writes
  /\ chain \in [Configs -> Seq(1..MaxVersions)]
  /\ attempt \in [Configs -> 0..(MaxAttempts - 1)]
  /\ written \subseteq Writes
  /\ rollout \in [Rollouts -> Rollout]
  /\ incident \in [Ids -> Incident]
  /\ handler \in [Handlers -> Handler]
  /\ lost \subseteq Writes \cup Rollouts
  /\ overlap \subseteq Rollouts

Init ==
  /\ versions = [c \in Configs |-> 0]
  /\ ordered = {}
  /\ chain = [c \in Configs |-> <<>>]
  /\ attempt = [c \in Configs |-> 0]
  /\ written = {}
  /\ rollout = [r \in Rollouts |-> [status |-> "active", outcome |-> "clean",
                                    undone |-> FALSE]]
  /\ incident = [i \in Ids |->
                   [status |-> "none", source |-> "field-report",
                    about |-> Nobody, reviewedBy |-> Nobody]]
  /\ handler = [h \in Handlers |-> Idle]
  /\ lost = {}
  /\ overlap = {}

-----------------------------------------------------------------------------
(* Rows and handlers.                                                      *)

Active == {"open", "investigating"}

SyncRows(w) == {i \in Ids : incident[i].source = "config-sync-writer"
                            /\ incident[i].about = w
                            /\ incident[i].status # "none"}

RolloutRows(r) == {i \in Ids : incident[i].source = "rollout-failure"
                               /\ incident[i].about = r
                               /\ incident[i].status # "none"}

ActiveOf(rows) == {i \in rows : incident[i].status \in Active}

\* findFirst, the latest by createdAt.
Latest(rows) == {i \in rows : \A j \in rows : j <= i}

\* The id that the next row gets.
IsNext(i) == /\ incident[i].status = "none"
             /\ \A j \in 1..(i - 1) : incident[j].status # "none"

WithStatus(rows, status) ==
  [i \in Ids |-> IF i \in rows THEN [incident[i] EXCEPT !.status = status]
                               ELSE incident[i]]

Create(source, about) ==
  \E i \in Ids :
    /\ IsNext(i)
    /\ incident' = [incident EXCEPT ![i] =
                      [status |-> "open", source |-> source, about |-> about,
                       reviewedBy |-> Nobody]]

Handling(about) == {h \in Handlers : handler[h] # Idle
                                     /\ handler[h].about = about}

Is(h, event, at) == handler[h] # Idle /\ handler[h].event = event
                    /\ handler[h].at = at

\* A free handler starts with an event.
Start(h, event, about, at) ==
  /\ handler[h] = Idle
  /\ handler' = [handler EXCEPT ![h] = [event |-> event, about |-> about,
                                        at |-> at, seen |-> {}]]

End(h) == handler' = [handler EXCEPT ![h] = Idle]

-----------------------------------------------------------------------------
(* The queue of the writes into the legacy system.                         *)

\* approve() commits a version ...
Approve(c) ==
  /\ versions[c] < MaxVersions
  /\ versions' = [versions EXCEPT ![c] = @ + 1]
  /\ ordered' = ordered \cup {<<c, versions[c] + 1>>}
  /\ UNCHANGED <<chain, attempt, written, rollout, incident, handler, lost,
                 overlap>>

\* ... and it, or retrySync(), puts the write behind those of the same Config.
EnqueueConfigSync(w) ==
  /\ w \in ordered
  /\ ordered' = ordered \ {w}
  /\ chain' = [chain EXCEPT ![w[1]] = Append(@, w[2])]
  /\ UNCHANGED <<versions, attempt, written, rollout, incident, handler, lost,
                 overlap>>

\* The write at the head of the chain ends: the next one may run.
Leaves(c) ==
  /\ chain' = [chain EXCEPT ![c] = Tail(@)]
  /\ attempt' = [attempt EXCEPT ![c] = 0]

WriteSucceeds(c, h) ==
  /\ chain[c] # <<>>
  /\ written' = written \cup {<<c, Head(chain[c])>>}
  /\ Leaves(c)
  /\ Start(h, "sync-succeeded", <<c, Head(chain[c])>>, "emitted")
  /\ UNCHANGED <<versions, ordered, rollout, incident, lost, overlap>>

\* Another attempt follows after a pause.
AttemptFails(c) ==
  /\ chain[c] # <<>> /\ attempt[c] + 1 < MaxAttempts
  /\ attempt' = [attempt EXCEPT ![c] = @ + 1]
  /\ UNCHANGED <<versions, ordered, chain, written, rollout, incident, handler,
                 lost, overlap>>

WriteFails(c, h) ==
  /\ chain[c] # <<>> /\ attempt[c] + 1 = MaxAttempts
  /\ Leaves(c)
  /\ Start(h, "sync-failed", <<c, Head(chain[c])>>, "emitted")
  /\ UNCHANGED <<versions, ordered, written, rollout, incident, lost, overlap>>

-----------------------------------------------------------------------------
(* What Operation does with an incident.                                   *)

\* Wrong on purpose: an incident whose write is under way is taken too.
RetryActive(i) ==
  /\ incident[i].source = "config-sync-writer"
  /\ incident[i].status \in Active
  /\ incident' = WithStatus({i}, "investigating")
  /\ ordered' = ordered \cup {incident[i].about}
  /\ UNCHANGED <<versions, chain, attempt, written, rollout, handler, lost,
                 overlap>>

\* retrySync() claims an open incident of a write; what it read before cannot
\* change.
RetrySync(i) ==
  /\ incident[i].source = "config-sync-writer"
  /\ incident[i].status = "open"
  /\ incident' = WithStatus({i}, "investigating")
  /\ ordered' = ordered \cup {incident[i].about}
  /\ UNCHANGED <<versions, chain, attempt, written, rollout, handler, lost,
                 overlap>>

CreateFieldReport ==
  /\ Create("field-report", Nobody)
  /\ UNCHANGED <<versions, queue, rollout, handler, lost, overlap>>

\* decide(): resolve, dismiss, or promote a field report to a Campaign.
Decide(i, status) ==
  /\ IF incident[i].source = "field-report"
       THEN incident[i].status = "open"
       ELSE incident[i].status \in Active /\ status # "investigating"
  /\ incident' = [incident EXCEPT ![i].status = status,
                                  ![i].reviewedBy = "operation"]
  /\ UNCHANGED <<versions, queue, rollout, handler, lost, overlap>>

Outcomes == {"resolved", "dismissed", "investigating"}

-----------------------------------------------------------------------------
(* The rollouts and the events they emit.                                  *)

\* A call changes a rollout and goes on to emit an event.
Emits(r, event, h) ==
  /\ Start(h, event, r, "emitting")
  /\ overlap' = IF Handling(r) = {} THEN overlap ELSE overlap \cup {r}

\* recordTargetResult: too many devices failed, the others are still pending.
AutoPause(r, h) ==
  /\ rollout[r].status = "active"
  /\ rollout' = [rollout EXCEPT ![r].status = "paused", ![r].outcome = "bad"]
  /\ Emits(r, "auto-pause", h)
  /\ UNCHANGED <<versions, queue, incident, lost>>

\* The last pending device reports, is skipped or times out.  A pause was for devices
\* that failed; what was bad else may have been mended by devices that were skipped
\* and came back, of which recordLateTargetResult tells nobody while others wait.
Complete(r, outcome, h) ==
  /\ rollout[r].status \in {"active", "paused"}
  /\ rollout[r].status = "paused" => outcome = "bad"
  /\ rollout' = [rollout EXCEPT ![r].status = "completed",
                                ![r].outcome = outcome]
  /\ Emits(r, "completed", h)
  /\ UNCHANGED <<versions, queue, incident, lost>>

\* The failures before resume() do not count any more, the skipped devices do.
Resume(r, outcome, h) ==
  /\ rollout[r].status = "paused"
  /\ rollout' = [rollout EXCEPT ![r].status = "active",
                                ![r].outcome = outcome]
  /\ Emits(r, "resumed", h)
  /\ UNCHANGED <<versions, queue, incident, lost>>

Rollback(r, h) ==
  /\ rollout[r].status # "cancelled"
  /\ rollout' = [rollout EXCEPT ![r].status =
                   IF @ = "completed" THEN "completed" ELSE "cancelled",
                   ![r].undone = TRUE]
  /\ Emits(r, "rolled-back", h)
  /\ UNCHANGED <<versions, queue, incident, lost>>

\* recordLateTargetResult on a closed rollout: only numbers of the incident.
LateResult(r) ==
  /\ rollout[r].status = "completed" /\ rollout[r].outcome = "bad"
  /\ rollout' = [rollout EXCEPT ![r].outcome = "mended"]
  /\ UNCHANGED <<versions, queue, incident, handler, lost, overlap>>

\* emitFailureOutcome reads the rollout again; a pause is always a failure.
Outcome(h) ==
  CASE handler[h].event = "auto-pause" -> "rollout-failed"
    [] handler[h].event = "completed" ->
         IF rollout[handler[h].about].outcome = "bad" THEN "rollout-failed"
                                                      ELSE "completed-clean"
    [] OTHER -> handler[h].event

Emit(h) ==
  /\ handler[h] # Idle /\ handler[h].at = "emitting"
  /\ handler' = [handler EXCEPT ![h].event = Outcome(h), ![h].at = "emitted"]
  /\ UNCHANGED <<versions, queue, rollout, incident, lost, overlap>>

-----------------------------------------------------------------------------
(* The listeners: find, then write.                                        *)

\* Wrong on purpose: every row of the Config.
AnyVersion(w) ==
  {i \in Ids : \E v \in 1..MaxVersions : i \in SyncRows(<<w[1], v>>)}

\* The rows of older versions of the same Config, and of this one.
NotNewer(w) ==
  {i \in Ids : \E v \in 1..w[2] : i \in SyncRows(<<w[1], v>>)}

\* Wrong on purpose: only an incident that nobody has decided yet.
FindActiveIncident(r) == ActiveOf(Latest(RolloutRows(r)))

\* findRolloutIncident
FindRolloutIncident(r) == Latest(RolloutRows(r))

\* What the handler of an event is going to write.
Found(event, about) ==
  CASE event = "sync-failed" -> Latest(ActiveOf(SyncRows(about)))
    [] event = "sync-succeeded" -> ActiveOf(NotNewer(about))
    [] event \in {"rollout-failed", "rolled-back"} -> FindRolloutIncident(about)
    [] event = "resumed" ->
         {i \in FindRolloutIncident(about) : incident[i].status = "open"}
    [] event = "completed-clean" -> ActiveOf(FindRolloutIncident(about))
    [] OTHER -> {}

Find(h) ==
  /\ handler[h] # Idle /\ handler[h].at = "emitted"
  /\ handler' = [handler EXCEPT ![h].at = "found",
                   ![h].seen = Found(handler[h].event, handler[h].about)]
  /\ UNCHANGED <<versions, queue, rollout, incident, lost, overlap>>

\* An incident that was found is opened again, whatever it has become.
OpenAgainOrCreate(h, source) ==
  /\ IF handler[h].seen # {} THEN incident' = WithStatus(handler[h].seen, "open")
                             ELSE Create(source, handler[h].about)
  /\ End(h)
  /\ UNCHANGED <<versions, queue, rollout, lost, overlap>>

\* Wrong on purpose: an incident that is there already stays as it is.
CreateUnlessThere(h) ==
  /\ Is(h, "sync-failed", "found")
  /\ IF handler[h].seen # {} THEN incident' = incident
                             ELSE Create("config-sync-writer", handler[h].about)
  /\ End(h)
  /\ UNCHANGED <<versions, queue, rollout, lost, overlap>>

CreateFromSyncFailure(h) ==
  /\ Is(h, "sync-failed", "found")
  /\ OpenAgainOrCreate(h, "config-sync-writer")

HandleRolloutFailed(h) ==
  /\ Is(h, "rollout-failed", "found")
  /\ OpenAgainOrCreate(h, "rollout-failure")

\* updateMany with the status in its condition.
ResolveFromSyncSuccess(h) ==
  /\ Is(h, "sync-succeeded", "found")
  /\ incident' = WithStatus(ActiveOf(handler[h].seen), "resolved")
  /\ End(h)
  /\ UNCHANGED <<versions, queue, rollout, lost, overlap>>

NewStatus(event) == CASE event = "rolled-back" -> "rolled_back"
                      [] event = "resumed" -> "investigating"
                      [] event = "completed-clean" -> "resolved"

\* update by id alone.
HandleRolloutStatusChanged(h) ==
  /\ \E event \in {"rolled-back", "resumed", "completed-clean"} :
       /\ Is(h, event, "found")
       /\ incident' = WithStatus(handler[h].seen, NewStatus(event))
  /\ End(h)
  /\ UNCHANGED <<versions, queue, rollout, lost, overlap>>

\* The handlers log an error of the database and never throw.
HandlerFails(h) ==
  /\ handler[h] # Idle
  /\ lost' = lost \cup {handler[h].about}
  /\ End(h)
  /\ UNCHANGED <<versions, queue, rollout, incident, overlap>>

-----------------------------------------------------------------------------

Queued == {w \in Writes : \E k \in 1..Len(chain[w[1]]) : chain[w[1]][k] = w[2]}

Handled == {handler[h].about : h \in {g \in Handlers : handler[g] # Idle}}

\* The process stops and starts again: nothing in memory is saved.
Restart ==
  /\ lost' = lost \cup ordered \cup Queued \cup Handled
  /\ ordered' = {}
  /\ chain' = [c \in Configs |-> <<>>]
  /\ attempt' = [c \in Configs |-> 0]
  /\ handler' = [h \in Handlers |-> Idle]
  /\ UNCHANGED <<versions, written, rollout, incident, overlap>>

Advance(h) == \/ Emit(h) \/ Find(h) \/ HandlerFails(h)
              \/ CreateFromSyncFailure(h) \/ ResolveFromSyncSuccess(h)
              \/ HandleRolloutFailed(h) \/ HandleRolloutStatusChanged(h)

Write(c) == \/ AttemptFails(c)
            \/ \E h \in Handlers : WriteSucceeds(c, h) \/ WriteFails(c, h)

Next ==
  \/ \E c \in Configs : Approve(c) \/ Write(c)
  \/ \E w \in Writes : EnqueueConfigSync(w)
  \/ \E i \in Ids : RetrySync(i) \/ \E s \in Outcomes : Decide(i, s)
  \/ CreateFieldReport
  \/ \E r \in Rollouts, h \in Handlers :
       \/ AutoPause(r, h) \/ Rollback(r, h)
       \/ \E o \in {"clean", "bad"} : Complete(r, o, h)
       \/ \E o \in {"clean", "bad"} : Resume(r, o, h)
  \/ \E r \in Rollouts : LateResult(r)
  \/ \E h \in Handlers : Advance(h)
  \/ Restart

\* Every attempt of a write settles, and every handler ends.
Fairness ==
  /\ \A w \in Writes : WF_vars(EnqueueConfigSync(w))
  /\ \A c \in Configs : WF_vars(Write(c))
  /\ \A h \in Handlers : WF_vars(Advance(h))

Spec == Init /\ [][Next]_vars

FairSpec == Spec /\ Fairness

-----------------------------------------------------------------------------
(* Properties.                                                             *)

HandledAs(w, event) == {h \in Handling(w) : handler[h].event = event}

OpenRows(w) == {i \in SyncRows(w) : incident[i].status = "open"}

\* A write is given one chance at a time: it is about to be enqueued, or waits
\* or runs in the chain of its Config, once, or its failure is being recorded,
\* or one incident of it is open for Operation to retry; never two of these.
\* With two, Operation could write a version again while it is being written
\* (retrySync, incident.service.ts:520).
InChain(w) == {k \in 1..Len(chain[w[1]]) : chain[w[1]][k] = w[2]}

OneChance ==
  \A w \in Writes :
    /\ w \in ordered => InChain(w) = {}
    /\ w \in ordered \/ InChain(w) # {} =>
         HandledAs(w, "sync-failed") = {} /\ OpenRows(w) = {}
    /\ HandledAs(w, "sync-failed") # {} => OpenRows(w) = {}
    /\ \A k, l \in InChain(w) : k = l
    /\ \A g, h \in HandledAs(w, "sync-failed") : g = h
    /\ \A i, j \in OpenRows(w) : i = j

\* No approved version is forgotten: until it, or a newer one, is written, its
\* write is on its way, or an open incident asks for it, or a person closed an
\* incident of it.  Only a restart or an error of the database loses one.
Approved == {w \in Writes : w[2] <= versions[w[1]]}

Replaced(w) == \E v \in w[2]..MaxVersions : <<w[1], v>> \in written

NothingForgotten ==
  \A w \in Approved \ lost :
    \/ Replaced(w)
    \/ w \in ordered \/ InChain(w) # {}
    \/ HandledAs(w, "sync-failed") # {}
    \/ OpenRows(w) # {}
    \/ \E i \in SyncRows(w) : incident[i].reviewedBy = "operation"

\* "investigating" means that the write was ordered and its result is awaited
\* (incident.service.ts:525): the incident of a write does not stay so, unless
\* something of that write was lost.
RetryIsAnswered ==
  \A i \in Ids, w \in Writes :
    (i \in SyncRows(w) /\ incident[i].status = "investigating" /\ w \notin lost)
      ~> (incident[i].status # "investigating" \/ w \in lost)

\* When no event of a rollout is under way, its incident tells what became of
\* it: there is one at most, a rollout that paused by itself or ended badly has
\* one that was open until somebody decided it, one that was rolled back shows
\* it and one that ended well leaves none active.  Two events handled at a time
\* or an event that got lost may break it.
RolloutIncidentAgrees ==
  \A r \in Rollouts \ (overlap \cup lost) :
    Handling(r) = {} =>
      LET told == {incident[i].status : i \in RolloutRows(r)} IN
      /\ \A i, j \in RolloutRows(r) : i = j
      /\ IF rollout[r].undone
           THEN told \subseteq {"rolled_back"}
           ELSE CASE \/ rollout[r].status = "paused"
                     \/ rollout[r].status = "completed"
                        /\ rollout[r].outcome = "bad"
                       -> /\ told # {}
                          /\ told \subseteq {"open", "resolved", "dismissed"}
                  [] rollout[r].status = "completed"
                     /\ rollout[r].outcome = "clean"
                       -> told \cap Active = {}
                  [] OTHER -> TRUE

\* Not true: a retry of an older version that waits behind a newer one is
\* written over it, and so is an approval that was overtaken on its way.
NewestLast ==
  \A c \in Configs :
    chain[c] # <<>> => ~ \E v \in (Head(chain[c]) + 1)..MaxVersions :
                           <<c, v>> \in written

\* Not true: two events of one rollout both find no incident.
OneIncidentPerRollout ==
  \A r \in Rollouts : \A i, j \in RolloutRows(r) : i = j

=============================================================================
