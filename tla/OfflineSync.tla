----------------------------- MODULE OfflineSync -----------------------------
(***************************************************************************)
(* The phone of a technician: changes of tasks made offline wait in a      *)
(* local queue and are sent to the server, oldest first, by one flush at a *)
(* time, while screens read the same tasks, the session expires, the user  *)
(* signs out and somebody else signs in on the same phone.                 *)
(*                                                                         *)
(* Queue, cache of tasks, token and profile are stored on the phone; the   *)
(* flush, its generation and a running sign-in or sign-out are not, and a  *)
(* restart of the app drops them.  Dart runs one piece of code at a time   *)
(* up to its next await: each action is such a piece.  The local database  *)
(* answers within the three seconds stop() waits, the network need not.    *)
(***************************************************************************)
EXTENDS Integers, Sequences, FiniteSets

CONSTANTS
  Technicians, \* technicians who use the phone
  TaskIds,     \* tasks of the server
  Nobody,      \* no user
  NoTaskId,    \* stands for no task
  MaxChanges,  \* bound on the changes made on the phone
  MaxMishaps   \* bound on what crosses them: edits of Operation, lost
               \* requests and answers, ended sessions and restarts

ASSUME NobodyIsNoUser == Nobody \notin Technicians
ASSUME NoTaskIsNone == NoTaskId \notin TaskIds
ASSUME PhoneBounds == MaxChanges \in Nat /\ MaxMishaps \in Nat

VARIABLES
  taskRow,  \* the tasks on the server
  queue,    \* PendingActions: the status of each row (ids are in the order of
            \* createdAt and rowid, as the clock of the phone runs forward)
  cache,    \* the cached task rows
  session,  \* who is signed in; token and profile as stored
  auth,     \* the sign-in or sign-out under way
  gen,      \* _generation
  flush,    \* the flush: _inFlight, _flushAgain and where _drain is
  late,     \* requests the phone gave up and the server may still get
  read,     \* the answer to a screen that is on its way
  change,   \* history: the changes made, in order
  past,     \* history: what became of them, and what excuses foreign data
  mishaps   \* how many there were

phoneVars == <<taskRow, queue, cache, session, auth, gen, flush, late, read,
               change, past, mishaps>>

-----------------------------------------------------------------------------
(* State *)

TaskStatuses == {"pending", "in_progress", "completed", "cancelled"}
Final == {"completed", "cancelled"}
Tapped == {"in_progress", "completed"}

Ids == 1 .. MaxChanges
Somebody == Technicians \cup {Nobody}

RowStatus == {"none", "pending", "failed"}
CacheRows == [status : TaskStatuses, of : Technicians]
NoRow == [status |-> "none", of |-> Nobody]

\* kinds of an answer: the change was made, refused (a 4xx that is a verdict),
\* or there is no verdict (no answer, 5xx, 401, 408, 429)
NoAnswer == [kind |-> "none", row |-> NoRow]
Answers == [kind : {"none", "made", "refused"}, row : CacheRows \cup {NoRow}]

FlushSteps == {"idle", "read", "next", "check", "wait", "answered", "delete",
               "followers", "refetch", "refetched"}
\* rest is what the pass took and has not come to
Flushes == [at : FlushSteps, again : BOOLEAN, gen : Nat, rest : SUBSET Ids,
            id : Ids \cup {0}, as : Somebody, answer : Answers,
            last : {"all", "later", "stopped"}]
NoFlush == [at |-> "idle", again |-> FALSE, gen |-> 0, rest |-> {}, id |-> 0,
            as |-> Nobody, answer |-> NoAnswer, last |-> "stopped"]

NoRead == [task |-> NoTaskId, row |-> NoRow]
NoAuth == [at |-> "none", next |-> Nobody]

Changes == [user : Technicians, task : TaskIds, status : Tapped]
Excuses == {"crash", "again", "read"}
Pasts == [applied : Seq(Ids), dropped : SUBSET Ids, unheard : SUBSET Ids,
          excuses : SUBSET Excuses]

PhoneTypeOK ==
  /\ taskRow \in [TaskIds -> [status : TaskStatuses, who : Technicians]]
  /\ queue \in [Ids -> RowStatus]
  /\ cache \in [TaskIds -> CacheRows \cup {NoRow}]
  /\ session \in [user : Somebody, token : Somebody, profile : Somebody]
  /\ auth \in [at : {"none", "stop", "wait"}, next : Somebody]
  /\ gen \in Nat
  /\ flush \in Flushes
  /\ late \subseteq [id : Ids, as : Technicians]
  /\ read \in [task : TaskIds \cup {NoTaskId}, row : CacheRows \cup {NoRow}]
  /\ change \in Seq(Changes) /\ Len(change) <= MaxChanges
  /\ past \in Pasts
  /\ mishaps \in 0 .. MaxMishaps

PhoneInit ==
  /\ taskRow \in [TaskIds -> [status : {"pending"}, who : Technicians]]
  /\ queue = [id \in Ids |-> "none"]
  /\ cache = [t \in TaskIds |-> NoRow]
  /\ session = [user |-> Nobody, token |-> Nobody, profile |-> Nobody]
  /\ auth = NoAuth /\ gen = 0 /\ flush = NoFlush
  /\ late = {} /\ read = NoRead
  /\ change = <<>>
  /\ past = [applied |-> <<>>, dropped |-> {}, unheard |-> {}, excuses |-> {}]
  /\ mishaps = 0

\* the rows that are still to be sent (getPending), and those that failed
PendingIds == {id \in Ids : queue[id] = "pending"}
FailedIds == {id \in Ids : queue[id] = "failed"}
QueuedIds == PendingIds \cup FailedIds
Applied == {past.applied[i] : i \in DOMAIN past.applied}

\* what a screen shows of a task: the newest queued change over the cached row
Shown(t) ==
  LET mine == {id \in PendingIds : change[id].task = t}
  IN  IF mine = {} THEN cache[t].status
      ELSE change[CHOOSE id \in mine : \A other \in mine : other <= id].status

Mishap == mishaps < MaxMishaps /\ mishaps' = mishaps + 1

-----------------------------------------------------------------------------
(* The flush: one at a time, pass after pass *)

\* Wrong on purpose: a call that finds the flush running is forgotten
CalledOnce == IF flush.at = "idle"
              THEN [flush EXCEPT !.at = "read", !.again = FALSE, !.gen = gen]
              ELSE flush

\* flush(): starts a pass, or asks the running flush for one more
Called == IF flush.at = "idle"
          THEN [flush EXCEPT !.at = "read", !.again = FALSE, !.gen = gen]
          ELSE [flush EXCEPT !.again = TRUE]

\* the end of _drain: another pass under the generation of now, or idle
PassEnds(why, unheard) ==
  /\ flush' = IF flush.again
              THEN [NoFlush EXCEPT !.at = "read", !.gen = gen, !.last = why]
              ELSE [NoFlush EXCEPT !.last = why]
  /\ past' = [past EXCEPT !.unheard = @ \cup unheard,
                !.excuses = IF flush.again /\ auth.at = "wait"
                            THEN @ \cup {"again"} ELSE @]

\* the loop goes on with the next row
Onward == [flush EXCEPT !.at = "next", !.id = 0, !.as = Nobody,
                        !.answer = NoAnswer]

\* the pass takes what is pending now
ReadPending ==
  /\ flush.at = "read"
  /\ flush' = [flush EXCEPT !.at = "next", !.rest = PendingIds]
  /\ UNCHANGED <<taskRow, queue, cache, session, auth, gen, late, read, change,
                 past, mishaps>>

\* the loop over what it took, oldest first; stop() ends it
NextPending ==
  /\ flush.at = "next"
  /\ \/ /\ flush.rest = {}
        /\ PassEnds("all", {})
     \/ /\ flush.rest # {} /\ flush.gen # gen
        /\ PassEnds("stopped", {})
     \/ /\ flush.gen = gen
        /\ \E id \in flush.rest :
             /\ \A other \in flush.rest : id <= other
             /\ flush' = [flush EXCEPT !.at = "check", !.id = id, !.rest = @ \ {id}]
        /\ UNCHANGED past
  /\ UNCHANGED <<taskRow, queue, cache, session, auth, gen, late, read, change,
                 mishaps>>

\* a row that was failed or wiped since is passed over, the other one sent
SendPending ==
  /\ flush.at = "check"
  /\ flush' = IF flush.id \in PendingIds
              THEN [flush EXCEPT !.at = "wait", !.as = session.user]
              ELSE Onward
  /\ UNCHANGED <<taskRow, queue, cache, session, auth, gen, late, read, change,
                 past, mishaps>>

-----------------------------------------------------------------------------
(* The server *)

\* updateMany where assignedTo is the caller and the status is not final
Takes(id, as) ==
  /\ taskRow[change[id].task].who = as
  /\ taskRow[change[id].task].status \notin Final

Take(id) ==
  /\ taskRow' = [taskRow EXCEPT ![change[id].task].status = change[id].status]
  /\ past' = [past EXCEPT !.applied = Append(@, id)]

\* a completion is refused too while a request of the task is being sent
Refusable(id, as) == ~Takes(id, as) \/ change[id].status = "completed"

Answered(kind, id) ==
  LET row == [status |-> change[id].status, of |-> flush.as]
  IN  flush' = [flush EXCEPT !.at = "answered",
                             !.answer = [kind |-> kind, row |-> row]]

\* update of a task by its technician
ServerHandles ==
  /\ flush.at = "wait"
  /\ \/ /\ flush.as = Nobody
        /\ flush' = [flush EXCEPT !.at = "answered", !.answer = NoAnswer]
        /\ UNCHANGED <<taskRow, past>>
     \/ /\ flush.as # Nobody /\ Takes(flush.id, flush.as)
        /\ Take(flush.id)
        /\ Answered("made", flush.id)
     \/ /\ flush.as # Nobody /\ Refusable(flush.id, flush.as)
        /\ Answered("refused", flush.id)
        /\ UNCHANGED <<taskRow, past>>
  /\ UNCHANGED <<queue, cache, session, auth, gen, late, read, change, mishaps>>

\* the phone gives up before the server has the request, which may still come
GiveUp ==
  /\ flush.at = "wait" /\ flush.as # Nobody
  /\ Mishap
  /\ flush' = [flush EXCEPT !.at = "answered", !.answer = NoAnswer]
  /\ late' \in {late, late \cup {[id |-> flush.id, as |-> flush.as]}}
  /\ past' = [past EXCEPT !.unheard = @ \cup {flush.id}]
  /\ UNCHANGED <<taskRow, queue, cache, session, auth, gen, read, change>>

\* ... or the answer gets lost
LoseAnswer ==
  /\ flush.at = "answered" /\ flush.answer.kind # "none"
  /\ Mishap
  /\ flush' = [flush EXCEPT !.answer = NoAnswer]
  /\ past' = [past EXCEPT !.unheard = @ \cup {flush.id}]
  /\ UNCHANGED <<taskRow, queue, cache, session, auth, gen, late, read, change>>

LateRequestArrives ==
  /\ \E r \in late :
       /\ late' = late \ {r}
       /\ IF Takes(r.id, r.as) THEN Take(r.id) ELSE UNCHANGED <<taskRow, past>>
  /\ UNCHANGED <<queue, cache, session, auth, gen, flush, read, change,
                 mishaps>>

\* Operation sets any status, or hands the task to somebody else
OperationEdits ==
  /\ Mishap
  /\ \E t \in TaskIds :
       \/ \E s \in TaskStatuses : taskRow' = [taskRow EXCEPT ![t].status = s]
       \/ \E u \in Technicians : taskRow' = [taskRow EXCEPT ![t].who = u]
  /\ UNCHANGED <<queue, cache, session, auth, gen, flush, late, read, change,
                 past>>

-----------------------------------------------------------------------------
(* What the flush makes of an answer *)

\* an answer to a send of before stop() is dropped
AnswerIsOld ==
  /\ flush.at = "answered" /\ flush.gen # gen
  /\ PassEnds("later", {flush.id})
  /\ UNCHANGED <<taskRow, queue, cache, session, auth, gen, late, read, change,
                 mishaps>>

\* Wrong on purpose: the pass goes on with the next row
SkipsUnheard ==
  /\ flush.at = "answered" /\ flush.gen = gen /\ flush.answer.kind = "none"
  /\ flush' = Onward
  /\ UNCHANGED <<taskRow, queue, cache, session, auth, gen, late, read, change,
                 past, mishaps>>

NoVerdict ==
  /\ flush.at = "answered" /\ flush.gen = gen /\ flush.answer.kind = "none"
  /\ PassEnds("later", {})
  /\ UNCHANGED <<taskRow, queue, cache, session, auth, gen, late, read, change,
                 mishaps>>

\* Wrong on purpose: whatever the generation
MadeAnyTime ==
  /\ flush.at = "answered" /\ flush.answer.kind = "made"
  /\ cache' = [cache EXCEPT ![change[flush.id].task] = flush.answer.row]
  /\ flush' = [flush EXCEPT !.at = "delete"]
  /\ UNCHANGED <<taskRow, queue, session, auth, gen, late, read, change, past,
                 mishaps>>

\* the answer goes to the cache, then the row leaves the queue
Made ==
  /\ flush.at = "answered" /\ flush.gen = gen /\ flush.answer.kind = "made"
  /\ cache' = [cache EXCEPT ![change[flush.id].task] = flush.answer.row]
  /\ flush' = [flush EXCEPT !.at = "delete"]
  /\ UNCHANGED <<taskRow, queue, session, auth, gen, late, read, change, past,
                 mishaps>>

DeleteRow ==
  /\ flush.at = "delete"
  /\ queue' = [queue EXCEPT ![flush.id] = "none"]
  /\ flush' = Onward
  /\ UNCHANGED <<taskRow, cache, session, auth, gen, late, read, change, past,
                 mishaps>>

MarkFailed(ids) ==
  queue' = [id \in Ids |-> IF id \in ids \cap QueuedIds THEN "failed" ELSE queue[id]]

\* _reject: the row, then what is queued behind it for the same task
Refused ==
  /\ flush.at = "answered" /\ flush.gen = gen /\ flush.answer.kind = "refused"
  /\ MarkFailed({flush.id})
  /\ flush' = [flush EXCEPT !.at = "followers"]
  /\ UNCHANGED <<taskRow, cache, session, auth, gen, late, read, change, past,
                 mishaps>>

FailFollowers ==
  /\ flush.at = "followers"
  /\ MarkFailed({id \in PendingIds : change[id].task = change[flush.id].task})
  /\ flush' = [flush EXCEPT !.at = "refetch"]
  /\ UNCHANGED <<taskRow, cache, session, auth, gen, late, read, change, past,
                 mishaps>>

\* what the server shows of a task to a caller, NoRow when it hides it
ServerRow(t, as) ==
  IF taskRow[t].who = as THEN [status |-> taskRow[t].status, of |-> as] ELSE NoRow

\* _reject asks for the task as it is now; an error is ignored
Refetch ==
  /\ flush.at = "refetch"
  /\ \E row \in {NoRow, ServerRow(change[flush.id].task, session.user)} :
       flush' = [flush EXCEPT !.at = "refetched", !.answer.row = row]
  /\ UNCHANGED <<taskRow, queue, cache, session, auth, gen, late, read, change,
                 past, mishaps>>

CacheRefetched ==
  /\ flush.at = "refetched"
  /\ cache' = IF flush.answer.row # NoRow /\ flush.gen = gen
              THEN [cache EXCEPT ![change[flush.id].task] = flush.answer.row]
              ELSE cache
  /\ flush' = Onward
  /\ UNCHANGED <<taskRow, queue, session, auth, gen, late, read, change, past,
                 mishaps>>

Flush ==
  \/ ReadPending \/ NextPending \/ SendPending \/ AnswerIsOld \/ NoVerdict
  \/ Made \/ DeleteRow \/ Refused \/ FailFollowers \/ Refetch
  \/ CacheRefetched

-----------------------------------------------------------------------------
(* The user *)

\* what stop() waited for is over: the wipe follows before anything else runs
WipeIsNext == auth.at = "wait" /\ flush.at = "idle"

\* updateStatus and enqueueTaskStatus: the row is stored and a flush asked for
Tap(t, s) ==
  /\ session.user # Nobody /\ ~WipeIsNext
  /\ Len(change) < MaxChanges
  /\ cache[t] # NoRow
  /\ Shown(t) \notin {"completed", s}
  /\ change' = Append(change, [user |-> session.user, task |-> t, status |-> s])
  /\ queue' = [queue EXCEPT ![Len(change) + 1] = "pending"]
  /\ flush' = Called
  /\ UNCHANGED <<taskRow, cache, session, auth, gen, late, read, past, mishaps>>

\* the app is resumed, or the network is back
Trigger ==
  /\ session.user # Nobody /\ ~WipeIsNext
  /\ flush' = Called
  /\ UNCHANGED <<taskRow, queue, cache, session, auth, gen, late, read, change,
                 past, mishaps>>

\* the user has seen the failed changes
Dismiss ==
  /\ session.user # Nobody
  /\ FailedIds # {}
  /\ queue' = [id \in Ids |-> IF id \in FailedIds THEN "none" ELSE queue[id]]
  /\ past' = [past EXCEPT !.dropped = @ \cup FailedIds]
  /\ UNCHANGED <<taskRow, cache, session, auth, gen, flush, late, read, change,
                 mishaps>>

\* a screen asks for a task ...
ReadTask(t) ==
  /\ session.user # Nobody /\ read = NoRead
  /\ ServerRow(t, session.user) # NoRow
  /\ read' = [task |-> t, row |-> ServerRow(t, session.user)]
  /\ UNCHANGED <<taskRow, queue, cache, session, auth, gen, flush, late, change,
                 past, mishaps>>

\* ... and caches the answer whoever is signed in by then
CacheRead ==
  /\ read # NoRead
  /\ cache' = [cache EXCEPT ![read.task] = read.row]
  /\ read' = NoRead
  /\ UNCHANGED <<taskRow, queue, session, auth, gen, flush, late, change, past,
                 mishaps>>

-----------------------------------------------------------------------------
(* Sessions *)

\* the local data goes, and then the session is nobody's or the new user's
Wiped(u) ==
  /\ queue' = [id \in Ids |-> "none"]
  /\ cache' = [t \in TaskIds |-> NoRow]
  /\ past' = [past EXCEPT !.dropped = @ \cup QueuedIds,
                !.excuses = IF read # NoRead THEN @ \cup {"read"} ELSE @]
  /\ session' = [user |-> u, token |-> u, profile |-> u]
  /\ auth' = NoAuth

\* login: the data of another user goes first; being signed in starts a flush
Login(u) ==
  /\ session.user = Nobody /\ auth = NoAuth
  /\ \/ /\ session.profile \in {Nobody, u}
        /\ session' = [user |-> u, token |-> u, profile |-> u]
        /\ flush' = Called
        /\ UNCHANGED auth
     \/ /\ session.profile \notin {Nobody, u}
        /\ auth' = [at |-> "stop", next |-> u]
        /\ UNCHANGED <<session, flush>>
  /\ UNCHANGED <<taskRow, queue, cache, gen, late, read, change, past, mishaps>>

\* logout forgets token and profile, then stops the queue and wipes
Logout ==
  /\ session.user # Nobody /\ auth = NoAuth
  /\ Mishap
  /\ session' = [session EXCEPT !.token = Nobody, !.profile = Nobody]
  /\ auth' = [at |-> "stop", next |-> Nobody]
  /\ UNCHANGED <<taskRow, queue, cache, gen, flush, late, read, change, past>>

\* the flush that follows a sign-in
FlushAfter(u) == IF u = Nobody THEN flush ELSE Called

\* stop(): a new generation; with no flush running the wipe follows at once
Stop ==
  /\ auth.at = "stop"
  /\ gen' = gen + 1
  /\ IF flush.at = "idle"
     THEN /\ Wiped(auth.next)
          /\ flush' = IF auth.next = Nobody THEN flush
                      ELSE [flush EXCEPT !.at = "read", !.gen = gen + 1]
     ELSE /\ auth' = [auth EXCEPT !.at = "wait"]
          /\ UNCHANGED <<queue, cache, session, flush, past>>
  /\ UNCHANGED <<taskRow, late, read, change, mishaps>>

OnTheNetwork == flush.at \in {"wait", "answered", "refetch", "refetched"}

\* the flush has ended, or three seconds are over and it waits for the network
Wipe ==
  /\ auth.at = "wait"
  /\ flush.at = "idle" \/ OnTheNetwork
  /\ Wiped(auth.next)
  /\ flush' = FlushAfter(auth.next)
  /\ UNCHANGED <<taskRow, gen, late, read, change, mishaps>>

\* Wrong on purpose: an expired session is treated as a sign-out
ExpireWipes ==
  /\ session.user # Nobody /\ auth = NoAuth
  /\ Mishap
  /\ session' = [session EXCEPT !.user = Nobody, !.token = Nobody]
  /\ queue' = [id \in Ids |-> "none"]
  /\ UNCHANGED <<taskRow, cache, auth, gen, flush, late, read, change, past>>

\* expireSession: a request came back with 401; queue and profile stay
ExpireSession ==
  /\ session.user # Nobody /\ auth = NoAuth
  /\ Mishap
  /\ session' = [session EXCEPT !.user = Nobody, !.token = Nobody]
  /\ UNCHANGED <<taskRow, queue, cache, auth, gen, flush, late, read, change,
                 past>>

\* the app is killed and started again: the session of a stored token returns
RestartApp ==
  /\ Mishap
  /\ session' = [session EXCEPT !.user = session.token]
  /\ auth' = NoAuth /\ gen' = 0 /\ read' = NoRead
  /\ flush' = IF session.token = Nobody THEN NoFlush
              ELSE [NoFlush EXCEPT !.at = "read"]
  /\ late' \in {late} \cup
       IF flush.at = "wait" /\ flush.as # Nobody
       THEN {late \cup {[id |-> flush.id, as |-> flush.as]}} ELSE {}
  /\ past' = [past EXCEPT
       !.unheard = IF OnTheNetwork \/ flush.at = "delete"
                   THEN @ \cup {flush.id} ELSE @,
       !.excuses = IF auth # NoAuth THEN @ \cup {"crash"} ELSE @]
  /\ UNCHANGED <<taskRow, queue, cache, change>>

-----------------------------------------------------------------------------
PhoneNext ==
  \/ Flush
  \/ ServerHandles \/ GiveUp \/ LoseAnswer \/ LateRequestArrives
  \/ OperationEdits
  \/ \E t \in TaskIds : ReadTask(t) \/ \E s \in Tapped : Tap(t, s)
  \/ Trigger \/ Dismiss \/ CacheRead
  \/ \E u \in Technicians : Login(u)
  \/ Logout \/ Stop \/ Wipe \/ ExpireSession \/ RestartApp

PhoneSpec == PhoneInit /\ [][PhoneNext]_phoneVars

-----------------------------------------------------------------------------
(* Properties *)

\* A pass that went through everything leaves nothing waiting: a change made
\* while a flush runs (or a trigger that found it running) gets a pass of its
\* own, so that nothing waits for a trigger that will not come.
\* (sync_queue_service.dart: flush, _run)
NothingOverlooked ==
  flush.at = "idle" /\ flush.last = "all" => PendingIds = {}

\* A change stays on the phone until the server has it, unless the user signs
\* out, somebody else signs in, or the user dismisses it as failed; restarts,
\* lost answers and expired sessions take nothing away.  What is reported as
\* failed has not been made, unless the answer that said so was not heard.
\* (sync_queue_service.dart: _send, _reject; auth_controller.dart: expireSession)
KeptUntilVerdict ==
  /\ 1 .. Len(change) \subseteq QueuedIds \cup Applied \cup past.dropped
  /\ FailedIds \cap Applied \subseteq past.unheard

\* Whenever the server makes a change, it has made all older ones of the task,
\* whatever is sent again or handled after the phone gave up waiting (a change
\* reported as failed, or thrown away with a sign-out, has lost its place).
\* (sync_queue_service.dart: _drain, _reject)
MadeInOrder ==
  \A i \in DOMAIN past.applied : \A older \in 1 .. past.applied[i] - 1 :
    \/ change[older].task # change[past.applied[i]].task
    \/ older \in past.dropped \cup FailedIds
    \/ \E j \in 1 .. i - 1 : past.applied[j] = older

\* Queue and cache hold only what belongs to the user of the stored profile:
\* nobody sees or sends what the user before left behind.  Three windows are
\* excepted by name: a restart in the middle of a sign-out, a pass that a
\* running flush starts while stop() waits for it, and the read of a screen.
\* (auth_controller.dart: logout, login; sync_queue_service.dart: stop)
OnlyOwnData ==
  auth.at = "none" =>
    /\ \A t \in TaskIds : cache[t] = NoRow \/ cache[t].of = session.profile
    /\ \A id \in QueuedIds : change[id].user = session.profile
OwnDataUnlessExcused == past.excuses = {} => OnlyOwnData
=============================================================================
