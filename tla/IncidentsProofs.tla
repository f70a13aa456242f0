-------------------------- MODULE IncidentsProofs --------------------------
(* Proofs about Incidents, for any Configs, rollouts, handlers and bounds.  *)
EXTENDS Incidents, SequenceTheorems, TLAPS

-----------------------------------------------------------------------------
(* Types *)

LEMMA IdleIsIdle ==
  /\ Idle \in Handler
  /\ Idle.event = "idle"
BY DEF Idle, Handler

\* A handler that runs is in one of the two kinds.
LEMMA HandlerKinds ==
  ASSUME NEW x \in Handler, x # Idle
  PROVE  /\ x.seen \subseteq Ids
         /\ x.event \in SyncEvents => x.about \in Writes
         /\ x.event \in RolloutEvents => x.about \in Rollouts
         /\ x.event \in SyncEvents \/ x.event \in RolloutEvents
         /\ x.event \in SyncEvents => x.at \in {"emitted", "found"}
         /\ x.event # "idle"
BY DEF Handler, SyncEvents, RolloutEvents

LEMMA InitTypes == Init => TypeOK
<1> SUFFICES ASSUME Init PROVE TypeOK
  OBVIOUS
<1>1. /\ versions \in [Configs -> 0..MaxVersions]
      /\ attempt \in [Configs -> 0..(MaxAttempts - 1)]
      /\ ordered \subseteq Writes /\ written \subseteq Writes
      /\ lost \subseteq Writes \cup Rollouts /\ overlap \subseteq Rollouts
  BY BoundAssumption DEF Init
<1>2. chain \in [Configs -> Seq(1..MaxVersions)]
  BY DEF Init
<1>3. rollout \in [Rollouts -> Rollout] /\ incident \in [Ids -> Incident]
  BY DEF Init, Rollout, Incident, Statuses, Nobody
<1>4. handler \in [Handlers -> Handler]
  BY IdleIsIdle DEF Init
<1> QED
  BY <1>1, <1>2, <1>3, <1>4 DEF TypeOK

\* The parts of the state that a step leaves alone keep their types.
LEMMA RowTypes ==
  ASSUME TypeOK, NEW rows \in SUBSET Ids, NEW status \in Statuses,
         incident' = WithStatus(rows, status)
  PROVE  /\ incident' \in [Ids -> Incident]
         /\ \A i \in Ids :
              /\ incident'[i].source = incident[i].source
              /\ incident'[i].about = incident[i].about
              /\ incident'[i].reviewedBy = incident[i].reviewedBy
              /\ incident'[i].status = IF i \in rows THEN status
                                                     ELSE incident[i].status
<1>1. ASSUME NEW i \in Ids
      PROVE  /\ [incident[i] EXCEPT !.status = status] \in Incident
             /\ incident[i] \in Incident
  BY DEF TypeOK, Incident
<1>2. \A i \in Ids : incident'[i] =
        IF i \in rows THEN [incident[i] EXCEPT !.status = status]
                      ELSE incident[i]
  BY DEF WithStatus
<1>3. incident' \in [Ids -> Incident]
  BY <1>1, <1>2 DEF WithStatus
<1> QED
  BY <1>1, <1>2, <1>3 DEF Incident

\* A new row is open and was none before.
LEMMA CreateTypes ==
  ASSUME TypeOK, NEW source, NEW about, Create(source, about),
         source \in {"config-sync-writer", "rollout-failure", "field-report"},
         about \in Writes \cup Rollouts \cup {Nobody}
  PROVE  /\ incident' \in [Ids -> Incident]
         /\ \E i \in Ids :
              /\ incident[i].status = "none"
              /\ \A j \in Ids \ {i} : incident'[j] = incident[j]
              /\ incident'[i].status = "open"
              /\ incident'[i].source = source
              /\ incident'[i].about = about
              /\ incident'[i].reviewedBy = Nobody
<1>1. PICK i \in Ids :
        /\ IsNext(i)
        /\ incident' = [incident EXCEPT ![i] =
                          [status |-> "open", source |-> source,
                           about |-> about, reviewedBy |-> Nobody]]
  BY DEF Create
<1>2. [status |-> "open", source |-> source, about |-> about,
       reviewedBy |-> Nobody] \in Incident
  BY DEF Incident, Statuses
<1>3. incident' \in [Ids -> Incident]
  BY <1>1, <1>2 DEF TypeOK
<1> QED
  BY <1>1, <1>3 DEF TypeOK, IsNext

\* A handler that starts, ends or goes on keeps the type.
LEMMA StartTypes ==
  ASSUME TypeOK, NEW h \in Handlers, NEW event, NEW about, NEW at,
         Start(h, event, about, at),
         \/ event \in SyncEvents /\ about \in Writes /\ at = "emitted"
         \/ event \in RolloutEvents /\ about \in Rollouts /\ at = "emitting"
  PROVE  /\ handler' \in [Handlers -> Handler]
         /\ handler[h] = Idle
         /\ \A g \in Handlers \ {h} : handler'[g] = handler[g]
         /\ handler'[h] # Idle
         /\ handler'[h].event = event
         /\ handler'[h].about = about
         /\ handler'[h].at = at
         /\ handler'[h].seen = {}
<1> DEFINE new == [event |-> event, about |-> about, at |-> at, seen |-> {}]
<1>1. new \in Handler /\ new.event # "idle"
  BY DEF Handler, SyncEvents, RolloutEvents
<1>2. handler' = [handler EXCEPT ![h] = new]
  BY DEF Start
<1>3. handler'[h] = new /\ \A g \in Handlers \ {h} : handler'[g] = handler[g]
  BY <1>2 DEF TypeOK
<1> QED
  BY <1>1, <1>2, <1>3, IdleIsIdle DEF TypeOK, Start

LEMMA EndTypes ==
  ASSUME TypeOK, NEW h \in Handlers, End(h)
  PROVE  /\ handler' \in [Handlers -> Handler]
         /\ handler'[h] = Idle
         /\ \A g \in Handlers \ {h} : handler'[g] = handler[g]
BY IdleIsIdle DEF End, TypeOK

LEMMA FoundTypes ==
  ASSUME NEW event, NEW about
  PROVE  Found(event, about) \subseteq Ids
<1>1. FindRolloutIncident(about) \subseteq Ids
  BY DEF FindRolloutIncident, Latest, RolloutRows
<1>2. Latest(ActiveOf(SyncRows(about))) \subseteq Ids
  BY DEF Latest, ActiveOf, SyncRows
<1>3. ActiveOf(NotNewer(about)) \subseteq Ids
  BY DEF ActiveOf, NotNewer
<1>4. ActiveOf(FindRolloutIncident(about)) \subseteq Ids
  BY <1>1 DEF ActiveOf
<1> QED
  BY <1>1, <1>2, <1>3, <1>4 DEF Found

LEMMA FindTypes ==
  ASSUME TypeOK, NEW h \in Handlers, Find(h)
  PROVE  /\ handler' \in [Handlers -> Handler]
         /\ \A g \in Handlers \ {h} : handler'[g] = handler[g]
         /\ handler[h] # Idle
         /\ handler'[h] # Idle
         /\ handler'[h].event = handler[h].event
         /\ handler'[h].about = handler[h].about
         /\ handler'[h].seen = Found(handler[h].event, handler[h].about)
<1> DEFINE found == Found(handler[h].event, handler[h].about)
<1>1. found \subseteq Ids
  BY FoundTypes
<1> HIDE DEF found
<1> DEFINE new == [handler[h] EXCEPT !.at = "found", !.seen = found]
<1>2. /\ new \in Handler
      /\ new.event = handler[h].event /\ new.about = handler[h].about
      /\ new.seen = found
      /\ new.event # "idle"
  BY <1>1, ZenonT(60) DEF Find, TypeOK, Handler, SyncEvents, RolloutEvents
<1>3. handler' = [handler EXCEPT ![h] = new]
  BY DEF Find, found
<1> HIDE DEF new
<1> QED
  BY <1>2, <1>3, IdleIsIdle DEF TypeOK, Find, found

LEMMA EmitTypes ==
  ASSUME TypeOK, NEW h \in Handlers, Emit(h)
  PROVE  /\ handler' \in [Handlers -> Handler]
         /\ \A g \in Handlers \ {h} : handler'[g] = handler[g]
         /\ handler[h] # Idle
         /\ handler'[h] # Idle
         /\ handler[h].event \in RolloutEvents
         /\ handler'[h].event \in RolloutEvents
         /\ handler'[h].about = handler[h].about
         /\ handler'[h].seen = handler[h].seen
<1>1. handler[h] # Idle /\ handler[h].at = "emitting"
  BY DEF Emit
<1>2. handler[h].event \in RolloutEvents /\ handler[h] \in Handler
  BY <1>1, HandlerKinds DEF TypeOK, Handler
<1>3. Outcome(h) \in RolloutEvents
  BY <1>2 DEF Outcome, RolloutEvents
<1> DEFINE new == [handler[h] EXCEPT !.event = Outcome(h), !.at = "emitted"]
<1>4. /\ new \in Handler
      /\ new.event = Outcome(h) /\ new.about = handler[h].about
      /\ new.seen = handler[h].seen
      /\ new.event # "idle"
  <2> DEFINE o == Outcome(h)
  <2>1. o \in RolloutEvents
    BY <1>3
  <2> HIDE DEF o
  <2>2. [handler[h] EXCEPT !.event = o, !.at = "emitted"] \in Handler
    BY <1>1, <1>2, <2>1, HandlerKinds DEF Handler, SyncEvents, RolloutEvents
  <2> QED
    BY <1>1, <1>2, <2>1, <2>2 DEF o, Handler, SyncEvents, RolloutEvents
<1>5. handler' = [handler EXCEPT ![h] = new]
  BY DEF Emit
<1> HIDE DEF new
<1> QED
  BY <1>1, <1>2, <1>3, <1>4, <1>5, IdleIsIdle DEF TypeOK

-----------------------------------------------------------------------------
(* The inductive invariant *)

\* what is on its way, handled or recorded is a version that was approved
Known ==
  /\ ordered \subseteq Approved
  /\ \A w \in Writes : InChain(w) # {} => w \in Approved
  /\ \A h \in Handlers :
       handler[h].event \in SyncEvents => handler[h].about \in Approved
  /\ \A i \in Ids :
       /\ incident[i].source = "config-sync-writer"
       /\ incident[i].status # "none"
       => incident[i].about \in Approved

\* what a handler has found is what its event is about
SeenOf(h) ==
  /\ handler[h].event = "sync-failed" =>
       /\ handler[h].seen \subseteq SyncRows(handler[h].about)
       /\ \A i, j \in handler[h].seen : i = j
  /\ handler[h].event = "sync-succeeded" =>
       /\ handler[h].about \in written
       /\ handler[h].seen \subseteq NotNewer(handler[h].about)
  /\ handler[h].event \in RolloutEvents =>
       \A i \in handler[h].seen :
         incident[i].source = "rollout-failure" /\ incident[i].status # "none"

SeenKept == \A h \in Handlers : SeenOf(h)

IInv ==
  /\ TypeOK
  /\ Known
  /\ SeenKept
  /\ OneChance
  /\ NothingForgotten

OnItsWay(w) ==
  \/ w \in ordered
  \/ InChain(w) # {}
  \/ HandledAs(w, "sync-failed") # {}
  \/ OpenRows(w) # {}

Excused(w) ==
  \/ Replaced(w)
  \/ \E i \in SyncRows(w) : incident[i].reviewedBy = "operation"

\* Rows of a write stay rows of it, and a person's decision stays on them.
RowsPersist ==
  \A w \in Writes : \A i \in SyncRows(w) :
    /\ i \in SyncRows(w)'
    /\ incident[i].reviewedBy = "operation"
         => incident'[i].reviewedBy = "operation"

\* Nothing new is on its way: every write has still one chance at most.
LEMMA ChancesShrink ==
  ASSUME OneChance,
         \A w \in Writes :
           /\ w \in ordered' => w \in ordered
           /\ InChain(w)' \subseteq InChain(w)
           /\ HandledAs(w, "sync-failed")' \subseteq HandledAs(w, "sync-failed")
           /\ OpenRows(w)' \subseteq OpenRows(w)
  PROVE  OneChance'
BY DEF OneChance

\* What was on its way is so still, or is excused.
LEMMA NothingLeft ==
  ASSUME NothingForgotten, RowsPersist,
         lost \subseteq lost', written \subseteq written',
         \A w \in Approved' \ lost' : w \in Approved \/ OnItsWay(w)',
         \A w \in Writes \ lost' : OnItsWay(w) => OnItsWay(w)' \/ Excused(w)'
  PROVE  NothingForgotten'
<1> SUFFICES ASSUME NEW w \in Approved' \ lost'
             PROVE  OnItsWay(w)' \/ Excused(w)'
  BY DEF NothingForgotten, OnItsWay, Excused
<1>1. CASE w \in Approved
  <2>1. w \in Writes /\ w \notin lost
    BY <1>1 DEF Approved
  <2>2. OnItsWay(w) \/ Excused(w)
    BY <1>1, <2>1 DEF NothingForgotten, OnItsWay, Excused
  <2>3. Excused(w) => Excused(w)'
    BY <2>1 DEF Excused, Replaced, RowsPersist
  <2> QED
    BY <2>1, <2>2, <2>3
<1> QED
  BY <1>1

\* Handlers that stay keep what they have found, if no row disappears.
LEMMA FoundStays ==
  ASSUME IInv, RowsPersist, TypeOK',
         written \subseteq written',
         \A i \in Ids : incident[i].status # "none" =>
                          /\ incident'[i].status # "none"
                          /\ incident'[i].source = incident[i].source,
         NEW h \in Handlers, handler'[h] = handler[h]
  PROVE  SeenOf(h)'
<1>1. /\ handler[h] # Idle => handler[h].seen \subseteq Ids
      /\ handler[h].event \in SyncEvents => handler[h].about \in Writes
  BY HandlerKinds, IdleIsIdle DEF IInv, TypeOK, SyncEvents
<1>2. SeenOf(h)
  BY DEF IInv, SeenKept
<1>3. ASSUME handler[h].event = "sync-failed", NEW i \in handler[h].seen,
             NEW w, w = handler[h].about
      PROVE  i \in SyncRows(w)'
  BY <1>1, <1>2, <1>3 DEF SeenOf, RowsPersist, SyncEvents
<1>4. ASSUME handler[h].event = "sync-succeeded", NEW i \in handler[h].seen,
             NEW w, w = handler[h].about
      PROVE  i \in NotNewer(w)'
  <2>1. w \in Writes /\ i \in NotNewer(w)
    BY <1>1, <1>2, <1>4 DEF SeenOf, SyncEvents
  <2>2. ASSUME NEW v \in 1..w[2]
        PROVE  <<w[1], v>> \in Writes
    BY <2>1, BoundAssumption DEF Writes
  <2> QED
    BY <2>1, <2>2 DEF NotNewer, RowsPersist
<1>5. ASSUME handler[h].event \in RolloutEvents, NEW i \in handler[h].seen
      PROVE  incident'[i].source = "rollout-failure" /\ incident'[i].status # "none"
  <2>1. handler[h] # Idle
    BY <1>5, IdleIsIdle DEF RolloutEvents
  <2>2. i \in Ids
    BY <1>1, <2>1
  <2> QED
    BY <1>2, <1>5, <2>2 DEF SeenOf
<1> QED
  BY <1>2, <1>3, <1>4, <1>5 DEF SeenOf

-----------------------------------------------------------------------------
(* Steps that leave the rows, the queue and the versions alone *)

LEMMA HandledIs ==
  /\ \A w, h : h \in HandledAs(w, "sync-failed") <=>
       h \in Handlers /\ handler[h].event = "sync-failed" /\ handler[h].about = w
  /\ \A w, h : h \in HandledAs(w, "sync-failed")' <=>
       h \in Handlers /\ handler'[h].event = "sync-failed"
                     /\ handler'[h].about = w
BY IdleIsIdle DEF HandledAs, Handling

LEMMA SameRows ==
  ASSUME incident' = incident
  PROVE  /\ RowsPersist
         /\ \A w : OpenRows(w)' = OpenRows(w) /\ SyncRows(w)' = SyncRows(w)
BY DEF RowsPersist, OpenRows, SyncRows

\* A handler moves on, ends, or starts with the event of a rollout.
LEMMA HandlerStep ==
  ASSUME IInv, TypeOK', NEW h \in Handlers,
         UNCHANGED <<versions, queue, incident>>, lost \subseteq lost',
         \A g \in Handlers \ {h} : handler'[g] = handler[g],
         handler'[h].event = "sync-failed" =>
           /\ handler[h].event = "sync-failed"
           /\ handler'[h].about = handler[h].about,
         handler[h].event = "sync-failed" =>
           \/ /\ handler'[h].event = "sync-failed"
              /\ handler'[h].about = handler[h].about
           \/ handler[h].about \in lost',
         handler'[h].event \in SyncEvents => handler'[h].about \in Approved,
         SeenOf(h)'
  PROVE  IInv'
<1>1. \A w : InChain(w)' = InChain(w)
  BY DEF InChain, queue
<1>2. OneChance'
  <2>1. ASSUME NEW w \in Writes
        PROVE  /\ w \in ordered' => w \in ordered
               /\ InChain(w)' \subseteq InChain(w)
               /\ HandledAs(w, "sync-failed")' \subseteq HandledAs(w, "sync-failed")
               /\ OpenRows(w)' \subseteq OpenRows(w)
    BY <1>1, HandledIs, SameRows DEF queue
  <2> QED
    BY <2>1, ChancesShrink DEF IInv
<1>3. NothingForgotten'
  <2>1. ASSUME NEW w \in Writes \ lost', OnItsWay(w)
        PROVE  OnItsWay(w)'
    <3>1. CASE HandledAs(w, "sync-failed") # {}
      BY <3>1, HandledIs DEF OnItsWay
    <3> QED
      BY <2>1, <3>1, <1>1, SameRows DEF OnItsWay, queue
  <2>2. Approved' = Approved /\ written' = written
    BY DEF Approved, queue
  <2> QED
    BY <2>1, <2>2, SameRows, NothingLeft DEF IInv, Approved
<1>4. Known'
  <2>1. Approved' = Approved
    BY DEF Approved
  <2>2. \A g \in Handlers :
          handler'[g].event \in SyncEvents => handler'[g].about \in Approved
    BY DEF IInv, Known
  <2> QED
    BY <2>1, <2>2, <1>1 DEF IInv, Known, queue
<1>5. SeenKept'
  <2>1. \A g \in Handlers \ {h} : SeenOf(g)'
    BY FoundStays, SameRows DEF queue
  <2> QED
    BY <2>1 DEF SeenKept
<1> QED
  BY <1>2, <1>3, <1>4, <1>5 DEF IInv

LEMMA Emits1 ==
  ASSUME IInv, NEW h \in Handlers, Emit(h) PROVE IInv'
<1>1. TypeOK'
  BY EmitTypes DEF Emit, IInv, TypeOK, queue
<1>2. handler[h].event \notin SyncEvents /\ handler'[h].event \notin SyncEvents
  BY EmitTypes DEF IInv, SyncEvents, RolloutEvents
<1>3. SeenOf(h)'
  BY <1>2, EmitTypes DEF IInv, SeenKept, SeenOf, Emit, SyncEvents
<1> QED
  BY <1>1, <1>2, <1>3, EmitTypes, HandlerStep DEF Emit, IInv, SyncEvents

LEMMA Finds ==
  ASSUME IInv, NEW h \in Handlers, Find(h) PROVE IInv'
<1>1. TypeOK'
  BY FindTypes DEF Find, IInv, TypeOK, queue
<1>2. incident' = incident /\ written' = written
  BY DEF Find, queue
<1>3. SeenOf(h)'
  <2> DEFINE e == handler[h].event
             a == handler[h].about
  <2>1. /\ handler'[h].event = e /\ handler'[h].about = a
        /\ handler'[h].seen = Found(e, a)
    BY FindTypes DEF IInv
  <2>2. e = "sync-succeeded" => a \in written
    BY DEF IInv, SeenKept, SeenOf
  <2> HIDE DEF e, a
  <2>3. CASE e = "sync-failed"
    <3>1. Found(e, a) = Latest(ActiveOf(SyncRows(a)))
      BY <2>3 DEF Found
    <3>2. Found(e, a) \subseteq SyncRows(a) /\ \A i, j \in Found(e, a) : i = j
      <4>1. Found(e, a) \subseteq Ids /\ Ids \subseteq Int
        BY FoundTypes, BoundAssumption DEF Ids
      <4>2. \A i, j \in Found(e, a) : j <= i
        BY <3>1 DEF Latest
      <4>3. Found(e, a) \subseteq SyncRows(a)
        BY <3>1 DEF Latest, ActiveOf
      <4>4. ASSUME NEW i \in Found(e, a), NEW j \in Found(e, a)
            PROVE  i = j
        <5>1. i \in Int /\ j \in Int
          BY <4>1
        <5>2. i <= j /\ j <= i
          BY <4>2
        <5> QED
          BY <5>1, <5>2
      <4> QED
        BY <4>3, <4>4
    <3> QED
      BY <1>2, <2>1, <2>3, <3>2 DEF SeenOf, SyncRows, RolloutEvents
  <2>4. CASE e = "sync-succeeded"
    <3>1. Found(e, a) \subseteq NotNewer(a)
      BY <2>4 DEF Found, ActiveOf
    <3> QED
      BY <1>2, <2>1, <2>2, <2>4, <3>1 DEF SeenOf, NotNewer, SyncRows, RolloutEvents
  <2>5. CASE e \in RolloutEvents
    <3>1. Found(e, a) \subseteq RolloutRows(a)
      BY <2>5 DEF Found, FindRolloutIncident, Latest, ActiveOf, RolloutEvents
    <3> QED
      BY <1>2, <2>1, <2>5, <3>1 DEF SeenOf, RolloutRows, RolloutEvents
  <2> QED
    BY <2>1, <2>3, <2>4, <2>5 DEF SeenOf
<1>4. handler[h].event \in SyncEvents => handler[h].about \in Approved
  BY DEF IInv, Known
<1> QED
  BY <1>1, <1>3, <1>4, FindTypes, HandlerStep DEF Find, IInv

\* A handler that fails loses what its event is about.
LEMMA Fails ==
  ASSUME IInv, NEW h \in Handlers, HandlerFails(h) PROVE IInv'
<1>1. /\ handler' \in [Handlers -> Handler]
      /\ handler'[h] = Idle
      /\ \A g \in Handlers \ {h} : handler'[g] = handler[g]
  BY EndTypes DEF HandlerFails, IInv
<1>2. handler[h].about \in Writes \cup Rollouts
  BY HandlerKinds DEF HandlerFails, IInv, TypeOK
<1>3. TypeOK'
  BY <1>1, <1>2 DEF HandlerFails, IInv, TypeOK, queue
<1>4. handler'[h].event \notin SyncEvents /\ handler'[h].event \notin RolloutEvents
  BY <1>1, IdleIsIdle DEF SyncEvents, RolloutEvents
<1>5. SeenOf(h)'
  BY <1>4 DEF SeenOf, SyncEvents
<1> QED
  BY <1>1, <1>3, <1>4, <1>5, HandlerStep DEF HandlerFails, SyncEvents

\* The changes of a rollout.
LEMMA RolloutSteps ==
  ASSUME IInv, NEW r \in Rollouts, NEW h \in Handlers,
         \/ AutoPause(r, h) \/ Rollback(r, h)
         \/ \E o \in {"clean", "bad"} : Complete(r, o, h) \/ Resume(r, o, h)
  PROVE  IInv'
<1>1. PICK event \in RolloutEvents : Emits(r, event, h)
  BY DEF AutoPause, Rollback, Complete, Resume, RolloutEvents
<1>2. UNCHANGED <<versions, queue, incident, lost>>
  BY DEF AutoPause, Rollback, Complete, Resume
<1>3. /\ handler' \in [Handlers -> Handler]
      /\ handler[h] = Idle
      /\ \A g \in Handlers \ {h} : handler'[g] = handler[g]
      /\ handler'[h].event = event /\ handler'[h].seen = {}
  BY <1>1, StartTypes DEF Emits, IInv
<1>4. TypeOK'
  <2>1. rollout' \in [Rollouts -> Rollout]
    <3>1. ASSUME AutoPause(r, h) PROVE rollout' \in [Rollouts -> Rollout]
      BY <3>1 DEF AutoPause, IInv, TypeOK, Rollout
    <3>2. ASSUME Rollback(r, h) PROVE rollout' \in [Rollouts -> Rollout]
      BY <3>2, ZenonT(60) DEF Rollback, IInv, TypeOK, Rollout
    <3>3. ASSUME NEW o \in {"clean", "bad"}, Complete(r, o, h)
          PROVE  rollout' \in [Rollouts -> Rollout]
      BY <3>3 DEF Complete, IInv, TypeOK, Rollout
    <3>4. ASSUME NEW o \in {"clean", "bad"}, Resume(r, o, h)
          PROVE  rollout' \in [Rollouts -> Rollout]
      <4> DEFINE new == [rollout[r] EXCEPT !.status = "active", !.outcome = o]
      <4>1. new \in Rollout
        BY DEF IInv, TypeOK, Rollout
      <4>2. rollout' = [rollout EXCEPT ![r] = new]
        BY <3>4 DEF Resume, IInv, TypeOK, Rollout
      <4> QED
        BY <4>1, <4>2 DEF IInv, TypeOK
    <3> QED
      BY <3>1, <3>2, <3>3, <3>4
  <2>2. overlap' \subseteq Rollouts
    BY <1>1 DEF Emits, IInv, TypeOK
  <2> QED
    BY <1>2, <1>3, <2>1, <2>2 DEF IInv, TypeOK, queue
<1>5. event \notin SyncEvents /\ handler[h].event \notin SyncEvents
  BY <1>3, IdleIsIdle DEF SyncEvents, RolloutEvents
<1>6. SeenOf(h)'
  BY <1>3, <1>5 DEF SeenOf, SyncEvents
<1> QED
  BY <1>2, <1>3, <1>4, <1>5, <1>6, HandlerStep DEF SyncEvents

LEMMA LateResults ==
  ASSUME IInv, NEW r \in Rollouts, LateResult(r) PROVE IInv'
<1>1. rollout' \in [Rollouts -> Rollout]
  BY DEF LateResult, IInv, TypeOK, Rollout
<1>2. TypeOK'
  BY <1>1 DEF LateResult, IInv, TypeOK, queue
<1>3. UNCHANGED <<versions, ordered, chain, written, incident, handler, lost>>
  BY DEF LateResult, queue
<1> QED
  BY <1>2, <1>3
  DEF IInv, Known, SeenKept, SeenOf, OneChance, NothingForgotten, Approved,
      InChain, HandledAs, Handling, OpenRows, SyncRows, NotNewer, Replaced

-----------------------------------------------------------------------------
(* Steps that write rows and open no incident of a write *)

\* An open incident of a write that is closed is excused.
LEMMA RowsStep ==
  ASSUME IInv, TypeOK', UNCHANGED <<versions, queue, lost>>,
         \A g \in Handlers :
           \/ handler'[g] = handler[g]
           \/ handler'[g] = Idle /\ handler[g].event # "sync-failed",
         \A i \in Ids : incident[i].status # "none" =>
           /\ incident'[i].status # "none"
           /\ incident'[i].source = incident[i].source
           /\ incident'[i].about = incident[i].about
           /\ incident[i].reviewedBy = "operation"
                => incident'[i].reviewedBy = "operation",
         \A i \in Ids :
           incident'[i].source = "config-sync-writer" =>
             /\ incident'[i].status # "none" => incident[i].status # "none"
             /\ incident'[i].status = "open" => incident[i].status = "open",
         \A i \in Ids :
           /\ incident[i].source = "config-sync-writer"
           /\ incident[i].status = "open" /\ incident'[i].status # "open"
           => \/ incident'[i].reviewedBy = "operation"
              \/ \A w \in Writes : incident[i].about = w => Replaced(w)
  PROVE  IInv'
<1>1. \A w : InChain(w)' = InChain(w)
  BY DEF InChain, queue
<1>2. RowsPersist
  BY DEF RowsPersist, SyncRows
<1>3. \A w : HandledAs(w, "sync-failed")' = HandledAs(w, "sync-failed")
  BY HandledIs, IdleIsIdle
<1>4. OneChance'
  <2>1. \A w \in Writes : OpenRows(w)' \subseteq OpenRows(w)
    BY DEF OpenRows, SyncRows
  <2> QED
    BY <2>1, <1>1, <1>3, ChancesShrink DEF IInv, queue
<1>5. NothingForgotten'
  <2>1. ASSUME NEW w \in Writes, OnItsWay(w)
        PROVE  OnItsWay(w)' \/ Excused(w)'
    <3>1. ASSUME NEW i \in OpenRows(w)
          PROVE  OnItsWay(w)' \/ Excused(w)'
      <4>1. i \in Ids /\ incident[i].source = "config-sync-writer"
            /\ incident[i].about = w /\ incident[i].status = "open"
        BY <3>1 DEF OpenRows, SyncRows
      <4>2. incident'[i].status = "open" => i \in OpenRows(w)'
        BY <4>1 DEF OpenRows, SyncRows
      <4>3. incident'[i].reviewedBy = "operation" => Excused(w)'
        BY <4>1 DEF Excused, SyncRows
      <4>4. Replaced(w) => Excused(w)'
        BY DEF Excused, Replaced, queue
      <4> QED
        BY <4>1, <4>2, <4>3, <4>4 DEF OnItsWay
    <3> QED
      BY <2>1, <3>1, <1>1, <1>3 DEF OnItsWay, queue
  <2>2. Approved' = Approved /\ written' = written
    BY DEF Approved, queue
  <2> QED
    BY <2>1, <2>2, <1>2, NothingLeft DEF IInv
<1>6. Known'
  <2>1. Approved' = Approved
    BY DEF Approved
  <2>2. \A g \in Handlers :
          handler'[g].event \in SyncEvents => handler'[g].about \in Approved
    BY IdleIsIdle DEF IInv, Known, SyncEvents
  <2> QED
    BY <2>1, <2>2, <1>1 DEF IInv, Known, queue
<1>7. SeenKept'
  <2>1. ASSUME NEW g \in Handlers PROVE SeenOf(g)'
    <3>1. CASE handler'[g] = handler[g]
      BY <3>1, <1>2, FoundStays DEF queue
    <3>2. CASE handler'[g] = Idle
      BY <3>2, IdleIsIdle DEF SeenOf, RolloutEvents
    <3> QED
      BY <3>1, <3>2
  <2> QED
    BY <2>1 DEF SeenKept
<1> QED
  BY <1>4, <1>5, <1>6, <1>7 DEF IInv

LEMMA Resolves ==
  ASSUME IInv, NEW h \in Handlers, ResolveFromSyncSuccess(h) PROVE IInv'
<1> DEFINE a == handler[h].about
           rows == ActiveOf(handler[h].seen)
<1>1. /\ handler' \in [Handlers -> Handler]
      /\ handler'[h] = Idle
      /\ \A g \in Handlers \ {h} : handler'[g] = handler[g]
  BY EndTypes DEF ResolveFromSyncSuccess, IInv
<1>2. a \in Writes /\ a \in written /\ rows \subseteq NotNewer(a)
      /\ handler[h].event # "sync-failed"
  BY HandlerKinds
  DEF ResolveFromSyncSuccess, Is, IInv, TypeOK, SeenKept, SeenOf, SyncEvents,
      ActiveOf
<1>3. rows \subseteq Ids
  BY <1>2 DEF NotNewer
<1>4. /\ incident' \in [Ids -> Incident]
      /\ \A i \in Ids :
           /\ incident'[i].source = incident[i].source
           /\ incident'[i].about = incident[i].about
           /\ incident'[i].reviewedBy = incident[i].reviewedBy
           /\ incident'[i].status = IF i \in rows THEN "resolved"
                                                  ELSE incident[i].status
  BY <1>3, RowTypes DEF ResolveFromSyncSuccess, IInv, Statuses
<1>5. TypeOK'
  BY <1>1, <1>4 DEF ResolveFromSyncSuccess, IInv, TypeOK, queue
<1>6. \A i \in rows : incident[i].status \in Active
  BY DEF ActiveOf
<1>7. ASSUME NEW i \in rows, NEW w \in Writes, incident[i].about = w
      PROVE  Replaced(w)
  <2>1. PICK v \in 1..a[2] : i \in SyncRows(<<a[1], v>>)
    BY <1>2 DEF NotNewer
  <2>2. w = <<a[1], v>> /\ a = <<a[1], a[2]>> /\ a[2] \in v..MaxVersions
    BY <1>2, <1>7, <2>1, BoundAssumption DEF SyncRows, Writes
  <2> QED
    BY <1>2, <2>2 DEF Replaced
<1> HIDE DEF a, rows
<1> QED
  BY <1>1, <1>2, <1>4, <1>5, <1>6, <1>7, RowsStep
  DEF ResolveFromSyncSuccess, Active

LEMMA StatusChanges ==
  ASSUME IInv, NEW h \in Handlers, HandleRolloutStatusChanged(h) PROVE IInv'
<1> DEFINE rows == handler[h].seen
<1>1. /\ handler' \in [Handlers -> Handler]
      /\ handler'[h] = Idle
      /\ \A g \in Handlers \ {h} : handler'[g] = handler[g]
  BY EndTypes DEF HandleRolloutStatusChanged, IInv
<1>2. PICK event \in {"rolled-back", "resumed", "completed-clean"} :
        Is(h, event, "found") /\ incident' = WithStatus(rows, NewStatus(event))
  BY DEF HandleRolloutStatusChanged
<1>3. /\ handler[h].event # "sync-failed"
      /\ rows \subseteq Ids
      /\ \A i \in rows : incident[i].source = "rollout-failure"
  BY <1>2, HandlerKinds DEF Is, IInv, TypeOK, SeenKept, SeenOf, RolloutEvents
<1>4. NewStatus(event) \in Statuses \ {"none"}
  BY DEF NewStatus, Statuses
<1>5. /\ incident' \in [Ids -> Incident]
      /\ \A i \in Ids :
           /\ incident'[i].source = incident[i].source
           /\ incident'[i].about = incident[i].about
           /\ incident'[i].reviewedBy = incident[i].reviewedBy
           /\ incident'[i].status = IF i \in rows THEN NewStatus(event)
                                                  ELSE incident[i].status
  BY <1>2, <1>3, <1>4, RowTypes DEF IInv
<1>6. TypeOK'
  BY <1>1, <1>5 DEF HandleRolloutStatusChanged, IInv, TypeOK, queue
<1> HIDE DEF rows
<1> QED
  BY <1>1, <1>3, <1>4, <1>5, <1>6, RowsStep DEF HandleRolloutStatusChanged

\* The rows of rollouts and field reports are opened by other handlers.
LEMMA RolloutFails ==
  ASSUME IInv, NEW h \in Handlers, HandleRolloutFailed(h) PROVE IInv'
<1> DEFINE rows == handler[h].seen
<1>1. /\ handler' \in [Handlers -> Handler]
      /\ handler'[h] = Idle
      /\ \A g \in Handlers \ {h} : handler'[g] = handler[g]
  BY EndTypes DEF HandleRolloutFailed, OpenAgainOrCreate, IInv
<1>2. UNCHANGED <<versions, queue, rollout, lost, overlap>>
  BY DEF HandleRolloutFailed, OpenAgainOrCreate
<1>3. /\ handler[h].event # "sync-failed"
      /\ rows \subseteq Ids
      /\ \A i \in rows : incident[i].source = "rollout-failure"
      /\ handler[h].about \in Rollouts
  BY HandlerKinds
  DEF HandleRolloutFailed, Is, IInv, TypeOK, SeenKept, SeenOf, RolloutEvents
<1>4. CASE incident' = WithStatus(rows, "open")
  <2>1. /\ incident' \in [Ids -> Incident]
        /\ \A i \in Ids :
             /\ incident'[i].source = incident[i].source
             /\ incident'[i].about = incident[i].about
             /\ incident'[i].reviewedBy = incident[i].reviewedBy
             /\ incident'[i].status = IF i \in rows THEN "open"
                                                    ELSE incident[i].status
    BY <1>3, <1>4, RowTypes DEF IInv, Statuses
  <2>2. TypeOK'
    BY <1>1, <1>2, <2>1 DEF IInv, TypeOK, queue
  <2> HIDE DEF rows
  <2> QED
    BY <1>1, <1>2, <1>3, <2>1, <2>2, RowsStep
<1>5. CASE Create("rollout-failure", handler[h].about)
  <2>1. PICK i \in Ids :
          /\ incident' \in [Ids -> Incident]
          /\ incident[i].status = "none"
          /\ \A j \in Ids \ {i} : incident'[j] = incident[j]
          /\ incident'[i].status = "open"
          /\ incident'[i].source = "rollout-failure"
    BY <1>3, <1>5, CreateTypes DEF IInv
  <2>2. TypeOK'
    BY <1>1, <1>2, <2>1 DEF IInv, TypeOK, queue
  <2> QED
    BY <1>1, <1>2, <1>3, <2>1, <2>2, RowsStep
<1> QED
  BY <1>4, <1>5 DEF HandleRolloutFailed, OpenAgainOrCreate

LEMMA FieldReports ==
  ASSUME IInv, CreateFieldReport PROVE IInv'
<1>1. PICK i \in Ids :
        /\ incident' \in [Ids -> Incident]
        /\ incident[i].status = "none"
        /\ \A j \in Ids \ {i} : incident'[j] = incident[j]
        /\ incident'[i].status = "open"
        /\ incident'[i].source = "field-report"
  BY CreateTypes DEF CreateFieldReport, IInv
<1>2. TypeOK'
  BY <1>1 DEF CreateFieldReport, IInv, TypeOK, queue
<1> QED
  BY <1>1, <1>2, RowsStep DEF CreateFieldReport

LEMMA Decides ==
  ASSUME IInv, NEW i \in Ids, NEW s \in Outcomes, Decide(i, s) PROVE IInv'
<1> DEFINE row == [incident[i] EXCEPT !.status = s, !.reviewedBy = "operation"]
<1>1. /\ row \in Incident /\ row.status = s /\ row.reviewedBy = "operation"
      /\ row.source = incident[i].source /\ row.about = incident[i].about
      /\ s \notin {"none", "open"} /\ incident[i].status \in Active
  BY DEF Decide, IInv, TypeOK, Incident, Statuses, Outcomes, Active
<1>2. incident' = [incident EXCEPT ![i] = row]
  BY <1>1 DEF Decide, IInv, TypeOK, Incident
<1> HIDE DEF row
<1>3. \A j \in Ids : incident'[j] = IF j = i THEN row ELSE incident[j]
  BY <1>2 DEF IInv, TypeOK
<1>4. TypeOK'
  BY <1>1, <1>2 DEF Decide, IInv, TypeOK, queue
<1> QED
  BY <1>1, <1>3, <1>4, RowsStep DEF Decide, Active

-----------------------------------------------------------------------------
(* Steps that move the one chance of a write *)

OneAt(w) ==
  /\ w \in ordered => InChain(w) = {}
  /\ w \in ordered \/ InChain(w) # {} =>
       HandledAs(w, "sync-failed") = {} /\ OpenRows(w) = {}
  /\ HandledAs(w, "sync-failed") # {} => OpenRows(w) = {}
  /\ \A k, l \in InChain(w) : k = l
  /\ \A g, h \in HandledAs(w, "sync-failed") : g = h
  /\ \A i, j \in OpenRows(w) : i = j

LEMMA OneOfEach == OneChance <=> \A w \in Writes : OneAt(w)
BY DEF OneChance, OneAt

\* One write moves, of the others nothing new is on its way.
LEMMA OneMoves ==
  ASSUME OneChance, NEW moved \in Writes, OneAt(moved)',
         \A w \in Writes \ {moved} :
           /\ w \in ordered' => w \in ordered
           /\ InChain(w)' # {} => InChain(w) # {}
           /\ \A k, l \in InChain(w)' : k = l
           /\ HandledAs(w, "sync-failed")' \subseteq HandledAs(w, "sync-failed")
           /\ OpenRows(w)' \subseteq OpenRows(w)
  PROVE  OneChance'
<1>1. ASSUME NEW w \in Writes PROVE OneAt(w)'
  <2>1. CASE w = moved
    BY <2>1
  <2>2. CASE w # moved
    BY <2>2, OneOfEach DEF OneAt
  <2> QED
    BY <2>1, <2>2
<1> QED
  BY <1>1 DEF OneChance, OneAt

LEMMA SameHandlers ==
  ASSUME handler' = handler
  PROVE  \A w : HandledAs(w, "sync-failed")' = HandledAs(w, "sync-failed")
BY HandledIs

\* An approval orders a write that nothing knew of.
LEMMA Approves ==
  ASSUME IInv, NEW c \in Configs, Approve(c) PROVE IInv'
<1>1. versions[c] \in 0..MaxVersions /\ versions[c] < MaxVersions
  BY DEF Approve, IInv, TypeOK
<1>2. PICK new \in Writes : /\ new = <<c, versions[c] + 1>> /\ new \notin Approved
                            /\ new[1] = c /\ new[2] = versions[c] + 1
  <2> DEFINE n == <<c, versions[c] + 1>>
  <2>1. n[1] = c /\ n[2] = versions[c] + 1
    OBVIOUS
  <2>2. n \in Writes /\ n \notin Approved
    BY <1>1, <2>1, BoundAssumption DEF Writes, Approved
  <2> QED
    BY <2>1, <2>2
<1>3. /\ versions' = [versions EXCEPT ![c] = @ + 1]
      /\ ordered' = ordered \cup {new}
      /\ UNCHANGED <<chain, written, incident, handler, lost>>
  BY <1>2 DEF Approve
<1>4. TypeOK'
  <2>1. versions' \in [Configs -> 0..MaxVersions]
    BY <1>1, <1>3, BoundAssumption DEF IInv, TypeOK
  <2> QED
    BY <1>2, <1>3, <2>1 DEF Approve, IInv, TypeOK
<1>5. Approved' = Approved \cup {new}
  <2>1. ASSUME NEW w \in Writes
        PROVE  w[2] <= versions'[w[1]] <=> w[2] <= versions[w[1]] \/ w = new
    <3>1. w = <<w[1], w[2]>> /\ w[1] \in Configs /\ w[2] \in Nat
          /\ versions[w[1]] \in Nat
      BY BoundAssumption DEF Writes, IInv, TypeOK
    <3>2. versions'[w[1]] = IF w[1] = c THEN versions[c] + 1 ELSE versions[w[1]]
      BY <1>3, <3>1 DEF IInv, TypeOK
    <3> QED
      BY <1>1, <1>2, <3>1, <3>2
  <2> QED
    BY <1>2, <2>1 DEF Approved
<1>6. InChain(new) = {} /\ HandledAs(new, "sync-failed") = {} /\ SyncRows(new) = {}
  BY <1>2, HandledIs DEF IInv, Known, SyncRows, SyncEvents
<1>7. \A w : InChain(w)' = InChain(w)
  BY <1>3 DEF InChain
<1>8. OneChance'
  <2>1. OneAt(new)'
    BY <1>3, <1>6, <1>7, SameRows, SameHandlers DEF OneAt, OpenRows
  <2>2. \A w \in Writes : \A k, l \in InChain(w) : k = l
    BY DEF IInv, OneChance
  <2> QED
    BY <1>2, <1>3, <1>7, <2>1, <2>2, SameRows, SameHandlers, OneMoves DEF IInv
<1>9. NothingForgotten'
  <2>1. \A w : OnItsWay(w) => OnItsWay(w)'
    BY <1>3, <1>7, SameRows, SameHandlers DEF OnItsWay
  <2>2. \A w \in Approved' : w \in Approved \/ OnItsWay(w)'
    BY <1>3, <1>5 DEF OnItsWay
  <2> QED
    BY <1>3, <2>1, <2>2, SameRows, NothingLeft DEF IInv
<1>10. Known'
  BY <1>3, <1>5, <1>7 DEF IInv, Known
<1>11. SeenKept'
  BY <1>3, <1>4, SameRows, FoundStays DEF SeenKept
<1> QED
  BY <1>4, <1>8, <1>9, <1>10, <1>11 DEF IInv

\* retrySync() takes the one open incident of a write.
LEMMA Retries ==
  ASSUME IInv, NEW i \in Ids, RetrySync(i) PROVE IInv'
<1>1. PICK taken : /\ taken = incident[i].about /\ taken \in Approved
                   /\ taken \in Writes /\ i \in OpenRows(taken)
  BY DEF RetrySync, IInv, Known, Approved, OpenRows, SyncRows
<1>0. PICK rows \in SUBSET Ids : rows = {i}
  OBVIOUS
<1>2. /\ incident' \in [Ids -> Incident]
      /\ \A j \in Ids :
           /\ incident'[j].source = incident[j].source
           /\ incident'[j].about = incident[j].about
           /\ incident'[j].reviewedBy = incident[j].reviewedBy
           /\ incident'[j].status = IF j \in {i} THEN "investigating"
                                                 ELSE incident[j].status
  <2>1. incident' = WithStatus(rows, "investigating")
    BY <1>0 DEF RetrySync
  <2>2. "investigating" \in Statuses
    BY DEF Statuses
  <2> QED
    BY <1>0, <2>1, <2>2, RowTypes, ZenonT(60) DEF IInv
<1>3. /\ ordered' = ordered \cup {taken}
      /\ UNCHANGED <<versions, chain, written, handler, lost>>
      /\ incident[i].status = "open"
  BY <1>1 DEF RetrySync
<1>4. TypeOK'
  BY <1>1, <1>2, <1>3 DEF RetrySync, IInv, TypeOK
<1>5. RowsPersist
  BY <1>2 DEF RowsPersist, SyncRows
<1>6. \A w : InChain(w)' = InChain(w)
  BY <1>3 DEF InChain
<1>7. \A w : OpenRows(w)' = OpenRows(w) \ {i}
  BY <1>2, <1>3 DEF OpenRows, SyncRows
<1>8. OneAt(taken)
  BY <1>1, OneOfEach DEF IInv
<1>9. OneChance'
  <2>1. OneAt(taken)'
    BY <1>1, <1>3, <1>6, <1>7, <1>8, SameHandlers DEF OneAt
  <2>2. \A w \in Writes : \A k, l \in InChain(w) : k = l
    BY DEF IInv, OneChance
  <2> QED
    BY <1>1, <1>3, <1>6, <1>7, <2>1, <2>2, SameHandlers, OneMoves DEF IInv
<1>10. NothingForgotten'
  <2>1. ASSUME NEW w \in Writes, OnItsWay(w) PROVE OnItsWay(w)'
    <3>1. w # taken => i \notin OpenRows(w)
      BY <1>1 DEF OpenRows, SyncRows
    <3> QED
      BY <2>1, <3>1, <1>3, <1>6, <1>7, SameHandlers DEF OnItsWay
  <2>2. Approved' = Approved
    BY <1>3 DEF Approved
  <2> QED
    BY <1>3, <1>5, <2>1, <2>2, NothingLeft DEF IInv
<1>11. Known'
  <2>1. Approved' = Approved
    BY <1>3 DEF Approved
  <2>2. ordered' \subseteq Approved
    BY <1>1, <1>3 DEF IInv, Known
  <2>3. \A j \in Ids : /\ incident'[j].source = "config-sync-writer"
                       /\ incident'[j].status # "none"
                       => incident'[j].about \in Approved
    BY <1>2, <1>3 DEF IInv, Known
  <2> QED
    BY <1>3, <1>6, <2>1, <2>2, <2>3 DEF IInv, Known
<1>12. SeenKept'
  BY <1>2, <1>3, <1>4, <1>5, FoundStays DEF SeenKept
<1> QED
  BY <1>4, <1>9, <1>10, <1>11, <1>12 DEF IInv

\* The write joins the chain of its Config.
LEMMA Enqueues ==
  ASSUME IInv, NEW w0 \in Writes, EnqueueConfigSync(w0) PROVE IInv'
<1>1. /\ w0 \in ordered /\ ordered' = ordered \ {w0}
      /\ UNCHANGED <<versions, written, incident, handler, lost>>
  BY DEF EnqueueConfigSync
<1>2. w0 = <<w0[1], w0[2]>> /\ w0[1] \in Configs /\ w0[2] \in 1..MaxVersions
  BY DEF Writes
<1>3. \A c \in Configs :
        /\ chain[c] \in Seq(1..MaxVersions)
        /\ chain'[c] = IF c = w0[1] THEN Append(chain[c], w0[2]) ELSE chain[c]
  BY <1>2 DEF EnqueueConfigSync, IInv, TypeOK
<1>4. TypeOK'
  <2>1. chain' \in [Configs -> Seq(1..MaxVersions)]
    BY <1>2 DEF EnqueueConfigSync, IInv, TypeOK
  <2> QED
    BY <1>1, <2>1 DEF EnqueueConfigSync, IInv, TypeOK
<1>5. OneAt(w0) /\ InChain(w0) = {}
  BY <1>1, OneOfEach DEF IInv, OneAt
<1>6. ASSUME NEW w \in Writes, w # w0
      PROVE  InChain(w)' = InChain(w)
  <2>1. w[1] \in Configs /\ w = <<w[1], w[2]>>
    BY DEF Writes
  <2>2. CASE w[1] # w0[1]
    BY <1>3, <2>1, <2>2 DEF InChain
  <2>3. CASE w[1] = w0[1]
    <3>1. chain'[w[1]] = Append(chain[w[1]], w0[2]) /\ w[2] # w0[2]
      BY <1>2, <1>3, <1>6, <2>1, <2>3
    <3> QED
      BY <1>3, <2>1, <3>1 DEF InChain
  <2> QED
    BY <2>2, <2>3
<1>7. /\ InChain(w0)' # {} /\ \A k, l \in InChain(w0)' : k = l
  <2>1. chain'[w0[1]] = Append(chain[w0[1]], w0[2])
    BY <1>2, <1>3
  <2>2. \A k : k \in InChain(w0)' <=> k = Len(chain[w0[1]]) + 1
    BY <1>2, <1>3, <1>5, <2>1 DEF InChain
  <2>3. Len(chain[w0[1]]) + 1 \in InChain(w0)'
    BY <2>2
  <2>4. \A k, l \in InChain(w0)' : k = l
    BY <2>2
  <2> QED
    BY <2>3, <2>4
<1>8. OneChance'
  <2>1. OneAt(w0)'
    BY <1>1, <1>5, <1>7, SameRows, SameHandlers DEF OneAt
  <2>2. \A w \in Writes : \A k, l \in InChain(w) : k = l
    BY DEF IInv, OneChance
  <2> QED
    BY <1>1, <1>6, <2>1, <2>2, SameRows, SameHandlers, OneMoves DEF IInv
<1>9. NothingForgotten'
  <2>1. \A w \in Writes : OnItsWay(w) => OnItsWay(w)'
    BY <1>1, <1>6, <1>7, SameRows, SameHandlers DEF OnItsWay
  <2>2. Approved' = Approved
    BY <1>1 DEF Approved
  <2> QED
    BY <1>1, <2>1, <2>2, SameRows, NothingLeft DEF IInv
<1>10. Known'
  <2>1. Approved' = Approved /\ w0 \in Approved
    BY <1>1 DEF Approved, IInv, Known
  <2> QED
    BY <1>1, <1>6, <2>1 DEF IInv, Known
<1>11. SeenKept'
  BY <1>1, <1>4, SameRows, FoundStays DEF SeenKept
<1> QED
  BY <1>4, <1>8, <1>9, <1>10, <1>11 DEF IInv

\* The head of a chain leaves it; what is behind moves up.
LEMMA HeadLeaves ==
  ASSUME IInv, NEW c \in Configs, chain[c] # <<>>, Leaves(c),
         NEW head, head = <<c, Head(chain[c])>>
  PROVE  /\ chain' \in [Configs -> Seq(1..MaxVersions)]
         /\ attempt' \in [Configs -> 0..(MaxAttempts - 1)]
         /\ head \in Writes
         /\ InChain(head) # {}
         /\ InChain(head)' = {}
         /\ \A w \in Writes :
              /\ InChain(w)' # {} => InChain(w) # {}
              /\ \A k, l \in InChain(w)' : k = l
              /\ w # head => (InChain(w) # {} => InChain(w)' # {})
<1> PICK s \in Seq(1..MaxVersions) : s = chain[c]
  BY DEF IInv, TypeOK
<1>1. /\ s # <<>> /\ Len(s) \in Nat \ {0} /\ Head(s) \in 1..MaxVersions
      /\ Head(s) = s[1] /\ Tail(s) \in Seq(1..MaxVersions)
      /\ Len(Tail(s)) = Len(s) - 1
      /\ \A k \in 1..Len(Tail(s)) : Tail(s)[k] = s[k + 1]
  <2>1. s # <<>>
    OBVIOUS
  <2>2. Len(s) \in Nat \ {0}
    BY <2>1, EmptySeq
  <2>3. /\ Head(s) \in 1..MaxVersions /\ Tail(s) \in Seq(1..MaxVersions)
        /\ Len(Tail(s)) = Len(s) - 1
        /\ \A k \in 1..Len(Tail(s)) : Tail(s)[k] = s[k + 1]
    BY <2>1, HeadTailProperties
  <2>4. Head(s) = s[1]
    BY <2>2
  <2> QED
    BY <2>1, <2>2, <2>3, <2>4
<1>2. /\ chain' \in [Configs -> Seq(1..MaxVersions)]
      /\ attempt' \in [Configs -> 0..(MaxAttempts - 1)]
  BY <1>1, BoundAssumption DEF Leaves, IInv, TypeOK
<1>3. \A d \in Configs : chain'[d] = IF d = c THEN Tail(s) ELSE chain[d]
  BY DEF Leaves, IInv, TypeOK
<1>4. head \in Writes /\ head[1] = c /\ head[2] = s[1]
  BY <1>1 DEF Writes
<1>5. 1 \in InChain(head)
  BY <1>1, <1>4 DEF InChain
<1>6. \A w \in Writes : \A k, l \in InChain(w) : k = l
  BY DEF IInv, OneChance
<1>7. ASSUME NEW w \in Writes, w[1] = c, NEW k
      PROVE  k \in InChain(w)' <=> k \in Nat \ {0} /\ k + 1 \in InChain(w)
  <2>1. chain'[w[1]] = Tail(s) /\ chain[w[1]] = s
    BY <1>3, <1>7
  <2> QED
    BY <1>1, <2>1 DEF InChain
<1>8. ASSUME NEW w \in Writes, w[1] # c
      PROVE  InChain(w)' = InChain(w)
  <2>1. w[1] \in Configs
    BY DEF Writes
  <2> QED
    BY <1>3, <1>8, <2>1 DEF InChain
<1>9. InChain(head)' = {}
  <2>1. ASSUME NEW k \in InChain(head)' PROVE FALSE
    <3>1. k \in Nat \ {0} /\ k + 1 \in InChain(head)
      BY <1>4, <1>7
    <3>2. k + 1 = 1
      BY <1>4, <1>5, <1>6, <3>1
    <3> QED
      BY <3>1, <3>2
  <2> QED
    BY <2>1
<1>10. ASSUME NEW w \in Writes
       PROVE  /\ InChain(w)' # {} => InChain(w) # {}
              /\ \A k, l \in InChain(w)' : k = l
  <2>1. CASE w[1] = c
    <3>1. ASSUME NEW k \in InChain(w)', NEW l \in InChain(w)' PROVE k = l
      <4>1. k \in Nat /\ l \in Nat /\ k + 1 \in InChain(w) /\ l + 1 \in InChain(w)
        BY <1>7, <2>1
      <4>2. k + 1 = l + 1
        BY <1>6, <4>1
      <4> QED
        BY <4>1, <4>2
    <3> QED
      BY <1>7, <2>1, <3>1
  <2> QED
    BY <1>6, <1>8, <2>1
<1>11. ASSUME NEW w \in Writes, w # head, NEW k \in InChain(w)
       PROVE  InChain(w)' # {}
  <2>1. CASE w[1] = c
    <3>1. k \in 1..Len(s) /\ s[k] = w[2] /\ w = <<w[1], w[2]>>
      BY <2>1, <1>11 DEF InChain, Writes
    <3>2. k # 1
      BY <1>1, <1>11, <2>1, <3>1
    <3>3. k - 1 \in Nat \ {0} /\ (k - 1) + 1 = k
      BY <1>1, <3>1, <3>2
    <3> QED
      BY <1>7, <1>11, <2>1, <3>3
  <2> QED
    BY <1>8, <1>11, <2>1
<1> QED
  BY <1>2, <1>4, <1>5, <1>9, <1>10, <1>11

\* A write ends: it has succeeded, or its failure is to be recorded.
LEMMA WriteEnds ==
  ASSUME IInv, NEW c \in Configs, NEW h \in Handlers,
         WriteSucceeds(c, h) \/ WriteFails(c, h)
  PROVE  IInv'
<1>1. PICK head : head = <<c, Head(chain[c])>>
  OBVIOUS
<1>2. /\ chain[c] # <<>> /\ Leaves(c)
      /\ UNCHANGED <<versions, ordered, rollout, incident, lost, overlap>>
  BY DEF WriteSucceeds, WriteFails
<1>3. /\ chain' \in [Configs -> Seq(1..MaxVersions)]
      /\ attempt' \in [Configs -> 0..(MaxAttempts - 1)]
      /\ head \in Writes
      /\ InChain(head) # {} /\ InChain(head)' = {}
      /\ \A w \in Writes :
           /\ InChain(w)' # {} => InChain(w) # {}
           /\ \A k, l \in InChain(w)' : k = l
           /\ w # head => (InChain(w) # {} => InChain(w)' # {})
  BY <1>1, <1>2, HeadLeaves
<1>4. PICK event \in SyncEvents :
        /\ Start(h, event, head, "emitted")
        /\ event = "sync-succeeded" => written' = written \cup {head}
        /\ event = "sync-failed" => written' = written
  BY <1>1 DEF WriteSucceeds, WriteFails, SyncEvents
<1>5. /\ handler' \in [Handlers -> Handler]
      /\ handler[h] = Idle
      /\ \A g \in Handlers \ {h} : handler'[g] = handler[g]
      /\ handler'[h].event = event
      /\ handler'[h].about = head
      /\ handler'[h].seen = {}
  BY <1>3, <1>4, StartTypes DEF IInv
<1>6. TypeOK'
  BY <1>2, <1>3, <1>4, <1>5 DEF IInv, TypeOK, SyncEvents
<1>7. OneAt(head) /\ head \in Approved
  BY <1>3, OneOfEach DEF IInv, Known
<1>8. \A w \in Writes \ {head} :
        HandledAs(w, "sync-failed")' = HandledAs(w, "sync-failed")
  <2>1. ASSUME NEW w \in Writes \ {head}, NEW g
        PROVE  g \in HandledAs(w, "sync-failed")'
                 <=> g \in HandledAs(w, "sync-failed")
    <3>1. CASE g = h
      BY <1>5, <3>1, HandledIs, IdleIsIdle
    <3>2. CASE g # h
      BY <1>5, <3>2, HandledIs
    <3> QED
      BY <3>1, <3>2
  <2> QED
    BY <2>1
<1>9. HandledAs(head, "sync-failed")' = IF event = "sync-failed" THEN {h} ELSE {}
  <2>1. HandledAs(head, "sync-failed") = {}
    BY <1>3, <1>7 DEF OneAt
  <2> QED
    BY <1>5, <2>1, HandledIs, IdleIsIdle
<1>10. OneChance'
  <2>1. OneAt(head)'
    BY <1>2, <1>3, <1>7, <1>9, SameRows DEF OneAt
  <2> QED
    BY <1>2, <1>3, <1>8, <2>1, SameRows, OneMoves DEF IInv
<1>11. NothingForgotten'
  <2>1. ASSUME NEW w \in Writes, OnItsWay(w)
        PROVE  OnItsWay(w)' \/ Excused(w)'
    <3>1. CASE w # head
      BY <1>2, <1>3, <1>8, <2>1, <3>1, SameRows DEF OnItsWay
    <3>2. CASE w = head /\ event = "sync-failed"
      BY <1>9, <3>2 DEF OnItsWay
    <3>3. CASE w = head /\ event = "sync-succeeded"
      <4>1. head = <<head[1], head[2]>> /\ head[2] \in head[2]..MaxVersions
        BY <1>3, BoundAssumption DEF Writes
      <4> QED
        BY <1>4, <3>3, <4>1 DEF Excused, Replaced
    <3> QED
      BY <3>1, <3>2, <3>3 DEF SyncEvents
  <2>2. Approved' = Approved /\ written \subseteq written'
    BY <1>2, <1>4 DEF Approved, SyncEvents
  <2> QED
    BY <1>2, <2>1, <2>2, SameRows, NothingLeft DEF IInv
<1>12. Known'
  <2>1. Approved' = Approved
    BY <1>2 DEF Approved
  <2>2. \A g \in Handlers :
          handler'[g].event \in SyncEvents => handler'[g].about \in Approved
    BY <1>5, <1>7 DEF IInv, Known
  <2> QED
    BY <1>2, <1>3, <2>1, <2>2 DEF IInv, Known
<1>13. SeenKept'
  <2>1. \A g \in Handlers \ {h} : SeenOf(g)'
    BY <1>2, <1>4, <1>5, <1>6, SameRows, FoundStays DEF SyncEvents
  <2>2. SeenOf(h)'
    BY <1>4, <1>5 DEF SeenOf, SyncEvents
  <2> QED
    BY <2>1, <2>2 DEF SeenKept
<1> QED
  BY <1>6, <1>10, <1>11, <1>12, <1>13 DEF IInv

LEMMA Attempts ==
  ASSUME IInv, NEW c \in Configs, AttemptFails(c) PROVE IInv'
<1>1. attempt' \in [Configs -> 0..(MaxAttempts - 1)]
  BY BoundAssumption DEF AttemptFails, IInv, TypeOK
<1>2. TypeOK'
  BY <1>1 DEF AttemptFails, IInv, TypeOK
<1>3. UNCHANGED <<versions, ordered, chain, written, incident, handler, lost>>
  BY DEF AttemptFails
<1> QED
  BY <1>2, <1>3
  DEF IInv, Known, SeenKept, SeenOf, OneChance, NothingForgotten, Approved,
      InChain, HandledAs, Handling, OpenRows, SyncRows, NotNewer, Replaced

\* The failure of a write is recorded: one incident of it is open.
LEMMA Records ==
  ASSUME IInv, NEW h \in Handlers, CreateFromSyncFailure(h) PROVE IInv'
<1>1. /\ handler' \in [Handlers -> Handler]
      /\ handler'[h] = Idle
      /\ \A g \in Handlers \ {h} : handler'[g] = handler[g]
  BY EndTypes DEF CreateFromSyncFailure, OpenAgainOrCreate, IInv
<1>2. UNCHANGED <<versions, queue, rollout, lost, overlap>>
  BY DEF CreateFromSyncFailure, OpenAgainOrCreate
<1>3. PICK a, rows : a = handler[h].about /\ rows = handler[h].seen
  OBVIOUS
<1>4. /\ handler[h].event = "sync-failed"
      /\ a \in Writes /\ a \in Approved
      /\ rows \subseteq Ids /\ rows \subseteq SyncRows(a)
      /\ \A i, j \in rows : i = j
  BY <1>3, HandlerKinds
  DEF CreateFromSyncFailure, Is, IInv, TypeOK, Known, SeenKept, SeenOf, SyncEvents
<1>5. OneAt(a) /\ HandledAs(a, "sync-failed") = {h} /\ OpenRows(a) = {}
  <2>1. OneAt(a) /\ h \in HandledAs(a, "sync-failed")
    BY <1>3, <1>4, HandledIs, OneOfEach DEF IInv
  <2> QED
    BY <2>1 DEF OneAt
<1>6. \E i \in Ids :
        /\ incident' \in [Ids -> Incident]
        /\ \A j \in Ids \ {i} : incident'[j] = incident[j]
        /\ incident'[i].status = "open"
        /\ incident'[i].source = "config-sync-writer"
        /\ incident'[i].about = a
        /\ incident[i].status # "none" =>
             /\ i \in SyncRows(a)
             /\ incident'[i].reviewedBy = incident[i].reviewedBy
  <2>1. CASE rows # {}
    <3>1. PICK i \in Ids : rows = {i}
      BY <1>4, <2>1
    <3>2. incident' = WithStatus(rows, "open") /\ "open" \in Statuses
      BY <1>3, <2>1 DEF CreateFromSyncFailure, OpenAgainOrCreate, Statuses
    <3>3. /\ incident' \in [Ids -> Incident]
          /\ \A j \in Ids :
               /\ incident'[j].source = incident[j].source
               /\ incident'[j].about = incident[j].about
               /\ incident'[j].reviewedBy = incident[j].reviewedBy
               /\ incident'[j].status = IF j \in rows THEN "open"
                                                      ELSE incident[j].status
      BY <1>4, <3>2, RowTypes DEF IInv
    <3>4. \A j \in Ids \ {i} : incident'[j] = incident[j]
      BY <3>1, <3>2 DEF WithStatus
    <3>5. i \in SyncRows(a)
      BY <1>4, <3>1
    <3> QED
      BY <3>1, <3>3, <3>4, <3>5 DEF SyncRows
  <2>2. CASE rows = {}
    <3>1. Create("config-sync-writer", a)
      BY <1>3, <2>2 DEF CreateFromSyncFailure, OpenAgainOrCreate
    <3>2. \E i \in Ids :
            /\ incident' \in [Ids -> Incident]
            /\ incident[i].status = "none"
            /\ \A j \in Ids \ {i} : incident'[j] = incident[j]
            /\ incident'[i].status = "open"
            /\ incident'[i].source = "config-sync-writer"
            /\ incident'[i].about = a
      BY <1>4, <3>1, CreateTypes DEF IInv
    <3> QED
      BY <3>2
  <2> QED
    BY <2>1, <2>2
<1>7. PICK i \in Ids :
        /\ incident' \in [Ids -> Incident]
        /\ \A j \in Ids \ {i} : incident'[j] = incident[j]
        /\ incident'[i].status = "open"
        /\ incident'[i].source = "config-sync-writer"
        /\ incident'[i].about = a
        /\ incident[i].status # "none" =>
             /\ i \in SyncRows(a)
             /\ incident'[i].reviewedBy = incident[i].reviewedBy
  BY <1>6
<1>8. TypeOK'
  BY <1>1, <1>2, <1>7 DEF IInv, TypeOK, queue
<1>9. RowsPersist
  BY <1>7 DEF RowsPersist, SyncRows
<1>10. \A w : InChain(w)' = InChain(w)
  BY <1>2 DEF InChain, queue
<1>11. /\ HandledAs(a, "sync-failed")' = {}
       /\ \A w : HandledAs(w, "sync-failed")' = HandledAs(w, "sync-failed") \ {h}
  BY <1>1, <1>5, HandledIs, IdleIsIdle
<1>12. OpenRows(a)' = {i} /\ \A w \in Writes \ {a} : OpenRows(w)' = OpenRows(w)
  BY <1>5, <1>7 DEF OpenRows, SyncRows
<1>13. OneChance'
  <2>1. OneAt(a)'
    BY <1>2, <1>5, <1>10, <1>11, <1>12 DEF OneAt, queue
  <2>2. \A w \in Writes : \A k, l \in InChain(w) : k = l
    BY DEF IInv, OneChance
  <2> QED
    BY <1>2, <1>4, <1>10, <1>11, <1>12, <2>1, <2>2, OneMoves DEF IInv, queue
<1>14. NothingForgotten'
  <2>1. ASSUME NEW w \in Writes, OnItsWay(w) PROVE OnItsWay(w)'
    <3>1. CASE w = a
      BY <1>12, <3>1 DEF OnItsWay
    <3>2. CASE w # a
      <4>1. h \notin HandledAs(w, "sync-failed")
        BY <1>3, <3>2, HandledIs
      <4> QED
        BY <1>2, <1>10, <1>11, <1>12, <2>1, <3>2, <4>1 DEF OnItsWay, queue
    <3> QED
      BY <3>1, <3>2
  <2>2. Approved' = Approved /\ written' = written
    BY <1>2 DEF Approved, queue
  <2> QED
    BY <1>2, <1>9, <2>1, <2>2, NothingLeft DEF IInv
<1>15. Known'
  <2>1. Approved' = Approved
    BY <1>2 DEF Approved
  <2>2. \A g \in Handlers :
          handler'[g].event \in SyncEvents => handler'[g].about \in Approved
    BY <1>1, IdleIsIdle DEF IInv, Known, SyncEvents
  <2>3. \A j \in Ids : /\ incident'[j].source = "config-sync-writer"
                       /\ incident'[j].status # "none"
                       => incident'[j].about \in Approved
    BY <1>4, <1>7 DEF IInv, Known
  <2> QED
    BY <1>2, <1>10, <2>1, <2>2, <2>3 DEF IInv, Known, queue
<1>16. SeenKept'
  <2>1. \A j \in Ids : incident[j].status # "none" =>
                         /\ incident'[j].status # "none"
                         /\ incident'[j].source = incident[j].source
    BY <1>7 DEF SyncRows
  <2>2. \A g \in Handlers \ {h} : SeenOf(g)'
    BY <1>1, <1>2, <1>8, <1>9, <2>1, FoundStays DEF queue
  <2>3. SeenOf(h)'
    BY <1>1, IdleIsIdle DEF SeenOf, RolloutEvents
  <2> QED
    BY <2>2, <2>3 DEF SeenKept
<1> QED
  BY <1>8, <1>13, <1>14, <1>15, <1>16 DEF IInv

\* What a restart forgets is lost.
LEMMA Restarts ==
  ASSUME IInv, Restart PROVE IInv'
<1>1. /\ \A h \in Handlers : handler'[h] = Idle
      /\ handler' \in [Handlers -> Handler]
      /\ ordered' = {} /\ chain' = [c \in Configs |-> <<>>]
      /\ lost' = lost \cup ordered \cup Queued \cup Handled
      /\ UNCHANGED <<versions, written, rollout, incident, overlap>>
  BY IdleIsIdle DEF Restart
<1>2. TypeOK'
  <2>1. Handled \subseteq Writes \cup Rollouts
    BY HandlerKinds DEF Handled, IInv, TypeOK
  <2>2. lost' \subseteq Writes \cup Rollouts
    BY <1>1, <2>1 DEF Queued, IInv, TypeOK
  <2>3. chain' \in [Configs -> Seq(1..MaxVersions)]
    BY <1>1
  <2>4. attempt' \in [Configs -> 0..(MaxAttempts - 1)]
    BY BoundAssumption DEF Restart
  <2> QED
    BY <1>1, <2>2, <2>3, <2>4 DEF IInv, TypeOK
<1>3. \A w \in Writes : InChain(w)' = {}
  <2>1. ASSUME NEW w \in Writes PROVE InChain(w)' = {}
    <3>1. w[1] \in Configs
      BY DEF Writes
    <3>2. chain'[w[1]] = <<>>
      BY <1>1, <3>1
    <3> QED
      BY <3>2 DEF InChain
  <2> QED
    BY <2>1
<1>4. \A w : HandledAs(w, "sync-failed")' = {}
  BY <1>1, HandledIs, IdleIsIdle
<1>5. OneChance'
  <2>1. ASSUME NEW w \in Writes
        PROVE  /\ w \in ordered' => w \in ordered
               /\ InChain(w)' \subseteq InChain(w)
               /\ HandledAs(w, "sync-failed")' \subseteq HandledAs(w, "sync-failed")
               /\ OpenRows(w)' \subseteq OpenRows(w)
    BY <1>1, <1>3, <1>4, SameRows
  <2> QED
    BY <2>1, ChancesShrink DEF IInv
<1>6. NothingForgotten'
  <2>1. ASSUME NEW w \in Writes \ lost', OnItsWay(w)
        PROVE  OnItsWay(w)'
    <3>1. w \notin ordered /\ InChain(w) = {}
      BY <1>1 DEF Queued, InChain
    <3>2. HandledAs(w, "sync-failed") = {}
      BY <1>1, HandledIs DEF Handled, HandledAs, Handling
    <3> QED
      BY <1>1, <2>1, <3>1, <3>2, SameRows DEF OnItsWay
  <2>2. Approved' = Approved
    BY <1>1 DEF Approved
  <2> QED
    BY <1>1, <2>1, <2>2, SameRows, NothingLeft DEF IInv, Approved
<1>7. Known'
  <2>1. Approved' = Approved
    BY <1>1 DEF Approved
  <2> QED
    BY <1>1, <1>3, <2>1, IdleIsIdle DEF IInv, Known, SyncEvents
<1>8. SeenKept'
  BY <1>1, IdleIsIdle DEF SeenKept, SeenOf, RolloutEvents
<1> QED
  BY <1>2, <1>5, <1>6, <1>7, <1>8 DEF IInv

-----------------------------------------------------------------------------
(* The incident of a rollout *)

\* the handlers of the events of a rollout
Serving(r) == {h \in Handlers : handler[h].event \in RolloutEvents
                                /\ handler[h].about = r}

OneRow(r) == \A i, j \in RolloutRows(r) : i = j

Told(r) == {incident[i].status : i \in RolloutRows(r)}

\* what the incident tells when no event of the rollout is under way
Agrees(r) ==
  IF rollout[r].undone
    THEN Told(r) \subseteq {"rolled_back"}
    ELSE /\ \/ rollout[r].status = "paused"
            \/ rollout[r].status = "completed" /\ rollout[r].outcome = "bad"
            => /\ Told(r) # {}
               /\ Told(r) \subseteq {"open", "resolved", "dismissed"}
         /\ rollout[r].status = "completed" /\ rollout[r].outcome = "clean"
            => Told(r) \cap Active = {}

\* the rollout is still as the event says
StillSo(event, r) ==
  /\ event = "resumed" => rollout[r].status = "active"
  /\ event = "auto-pause" => rollout[r].status = "paused"
  /\ event = "completed" =>
       rollout[r].status = "completed" /\ ~ rollout[r].undone
  /\ event = "rollout-failed" =>
       /\ ~ rollout[r].undone
       /\ \/ rollout[r].status = "paused"
          \/ rollout[r].status = "completed" /\ rollout[r].outcome # "clean"
  /\ event = "completed-clean" =>
       /\ ~ rollout[r].undone
       /\ rollout[r].status = "completed" /\ rollout[r].outcome # "bad"
  /\ event = "rolled-back" => rollout[r].undone

\* what the handler has found is what it would find now, or more than has to
\* be written
StillFound(event, seen, r) ==
  /\ event \in {"rollout-failed", "rolled-back"} => seen = RolloutRows(r)
  /\ event = "completed-clean" => ActiveOf(RolloutRows(r)) \subseteq seen

ServesRightly(h, r) ==
  /\ StillSo(handler[h].event, r)
  /\ handler[h].at = "found" => StillFound(handler[h].event, handler[h].seen, r)

UndoneIsOver(r) ==
  rollout[r].undone => rollout[r].status \in {"completed", "cancelled"}

\* one event at a time, handled rightly, or none and the incident agrees
Settled(r) ==
  /\ OneRow(r)
  /\ \A g, h \in Serving(r) : g = h
  /\ \A h \in Serving(r) : ServesRightly(h, r)
  /\ Serving(r) = {} => Agrees(r)

Right(r) == /\ UndoneIsOver(r)
            /\ r \notin overlap \cup lost => Settled(r)

\* a handler finds rows of its own rollout only
Mine(h) == handler[h].event \in RolloutEvents =>
             handler[h].seen \subseteq RolloutRows(handler[h].about)

RInv == /\ \A h \in Handlers : Mine(h)
        /\ \A r \in Rollouts : Right(r)

\* No row comes or goes, and if one changes a person has decided about it.
RowsKept(r) ==
  /\ RolloutRows(r)' = RolloutRows(r)
  /\ \A i \in RolloutRows(r) :
       \/ incident'[i].status = incident[i].status
       \/ /\ incident[i].status \in Active
          /\ incident'[i].status \in {"resolved", "dismissed"}

HandlersKept(r) ==
  /\ Serving(r)' = Serving(r)
  /\ \A h \in Serving(r) : handler'[h] = handler[h]

LEMMA AgreesStill ==
  ASSUME NEW r \in Rollouts, Agrees(r), RowsKept(r), rollout'[r] = rollout[r]
  PROVE  Agrees(r)'
<1>1. \A s : s \in Told(r) <=> \E i \in RolloutRows(r) : incident[i].status = s
  BY DEF Told
<1>2. \A s : s \in Told(r)' <=> \E i \in RolloutRows(r) : incident'[i].status = s
  BY DEF Told, RowsKept
<1>3. \A s \in Told(r)' : \/ s \in Told(r)
                          \/ /\ s \in {"resolved", "dismissed"}
                             /\ \E t \in Told(r) : t \in Active
  BY <1>1, <1>2 DEF RowsKept
<1>4. Told(r) # {} => Told(r)' # {}
  BY <1>1, <1>2
<1> QED
  BY <1>3, <1>4 DEF Agrees, Active

LEMMA RightStill ==
  ASSUME NEW r \in Rollouts, Right(r), overlap \subseteq overlap',
         lost \subseteq lost', rollout'[r] = rollout[r],
         RowsKept(r), HandlersKept(r)
  PROVE  Right(r)'
<1>1. UndoneIsOver(r)'
  BY DEF Right, UndoneIsOver
<1>2. ASSUME r \notin overlap' \cup lost' PROVE Settled(r)'
  <2>1. Settled(r)
    BY <1>2 DEF Right
  <2>2. OneRow(r)' /\ (Serving(r)' = {} => Agrees(r)')
    BY <2>1, AgreesStill DEF Settled, OneRow, RowsKept, HandlersKept
  <2>3. \A g, h \in Serving(r)' : g = h
    BY <2>1 DEF Settled, HandlersKept
  <2>4. ASSUME NEW h \in Serving(r)' PROVE ServesRightly(h, r)'
    <3>1. handler'[h] = handler[h] /\ ServesRightly(h, r)
      BY <2>1, <2>4 DEF Settled, HandlersKept
    <3>2. ActiveOf(RolloutRows(r))' \subseteq ActiveOf(RolloutRows(r))
      BY DEF ActiveOf, RowsKept, Active
    <3>3. StillSo(handler[h].event, r)'
      BY <3>1 DEF StillSo, ServesRightly
    <3> QED
      BY <3>1, <3>2, <3>3 DEF ServesRightly, StillFound, RowsKept
  <2> QED
    BY <2>2, <2>3, <2>4 DEF Settled
<1> QED
  BY <1>1, <1>2 DEF Right

\* Rows that stay are still the handler's own.
LEMMA MineStill ==
  ASSUME IInv, NEW h \in Handlers, Mine(h), handler'[h] = handler[h],
         \A r \in Rollouts : RolloutRows(r) \subseteq RolloutRows(r)'
  PROVE  Mine(h)'
<1>1. handler[h].event \in RolloutEvents => handler[h].about \in Rollouts
  BY HandlerKinds, IdleIsIdle DEF IInv, TypeOK, RolloutEvents
<1>2. ASSUME NEW r \in Rollouts, handler[h].about = r
      PROVE  RolloutRows(handler[h].about)' = RolloutRows(r)'
  BY <1>2
<1> QED
  BY <1>1, <1>2 DEF Mine

\* A step that is not about rollouts.
LEMMA Aside ==
  ASSUME IInv, RInv, UNCHANGED <<rollout, overlap>>, lost \subseteq lost',
         \A r \in Rollouts : RowsKept(r),
         \A h \in Handlers : \/ handler'[h] = handler[h]
                             \/ /\ handler[h].event \notin RolloutEvents
                                /\ handler'[h].event \notin RolloutEvents
  PROVE  RInv'
<1>1. ASSUME NEW h \in Handlers PROVE Mine(h)'
  <2>1. \A r \in Rollouts : RolloutRows(r) \subseteq RolloutRows(r)'
    BY DEF RowsKept
  <2> QED
    BY <2>1, MineStill DEF RInv, Mine
<1>2. ASSUME NEW r \in Rollouts PROVE Right(r)'
  <2>1. HandlersKept(r)
    BY DEF HandlersKept, Serving
  <2> QED
    BY <2>1, RightStill DEF RInv
<1> QED
  BY <1>1, <1>2 DEF RInv

LEMMA RowsSame ==
  ASSUME incident' = incident
  PROVE  \A r \in Rollouts : RowsKept(r)
BY DEF RowsKept, RolloutRows

\* Rows of other sources do not matter here.
LEMMA OtherRows ==
  ASSUME \A i \in Ids :
           \/ incident'[i] = incident[i]
           \/ /\ incident[i].source # "rollout-failure" \/ incident[i].status = "none"
              /\ incident'[i].source # "rollout-failure"
  PROVE  \A r \in Rollouts : RowsKept(r)
BY DEF RowsKept, RolloutRows

-----------------------------------------------------------------------------
(* Steps of the queue and of Operation leave the rollouts alone *)

LEMMA AsideWrites ==
  ASSUME IInv, RInv, NEW c \in Configs,
         \/ Approve(c) \/ AttemptFails(c)
         \/ \E h \in Handlers : WriteSucceeds(c, h) \/ WriteFails(c, h)
  PROVE  RInv'
<1>1. /\ \A r \in Rollouts : RowsKept(r)
      /\ UNCHANGED <<rollout, overlap, lost>>
  BY RowsSame DEF Approve, AttemptFails, WriteSucceeds, WriteFails
<1>2. CASE Approve(c) \/ AttemptFails(c)
  <2>1. handler' = handler
    BY <1>2 DEF Approve, AttemptFails
  <2> QED
    BY <1>1, <2>1, Aside
<1>3. ASSUME NEW h \in Handlers, WriteSucceeds(c, h) \/ WriteFails(c, h)
      PROVE  RInv'
  <2>1. /\ handler[h] = Idle
        /\ \A g \in Handlers \ {h} : handler'[g] = handler[g]
        /\ handler'[h].event \in SyncEvents
    BY <1>3 DEF WriteSucceeds, WriteFails, Start, IInv, TypeOK, SyncEvents
  <2>2. /\ handler[h].event \notin RolloutEvents
        /\ handler'[h].event \notin RolloutEvents
    BY <2>1, IdleIsIdle DEF SyncEvents, RolloutEvents
  <2> QED
    BY <1>1, <2>1, <2>2, Aside
<1> QED
  BY <1>2, <1>3

LEMMA AsideEnqueue ==
  ASSUME IInv, RInv, NEW w \in Writes, EnqueueConfigSync(w)
  PROVE  RInv'
BY RowsSame, Aside DEF EnqueueConfigSync

LEMMA AsideRetry ==
  ASSUME IInv, RInv, NEW i \in Ids, RetrySync(i)
  PROVE  RInv'
<1>1. /\ incident' = WithStatus({i}, "investigating")
      /\ incident[i].source = "config-sync-writer"
      /\ UNCHANGED <<rollout, handler, lost, overlap>>
  BY DEF RetrySync
<1>2. \A j \in Ids : incident'[j].source = incident[j].source
  BY <1>1, RowTypes DEF IInv, Statuses
<1>3. \A j \in Ids \ {i} : incident'[j] = incident[j]
  BY <1>1 DEF WithStatus
<1>4. \A r \in Rollouts : RowsKept(r)
  BY <1>1, <1>2, <1>3, OtherRows
<1> QED
  BY <1>1, <1>4, Aside

LEMMA AsideReport ==
  ASSUME IInv, RInv, CreateFieldReport
  PROVE  RInv'
<1>1. PICK i \in Ids :
        /\ incident[i].status = "none"
        /\ \A j \in Ids \ {i} : incident'[j] = incident[j]
        /\ incident'[i].source = "field-report"
  BY CreateTypes DEF CreateFieldReport, IInv
<1>2. \A r \in Rollouts : RowsKept(r)
  BY <1>1, OtherRows
<1> QED
  BY <1>2, Aside DEF CreateFieldReport

LEMMA AsideDecide ==
  ASSUME IInv, RInv, NEW i \in Ids, NEW s \in Outcomes, Decide(i, s)
  PROVE  RInv'
<1>1. /\ \A j \in Ids \ {i} : incident'[j] = incident[j]
      /\ incident'[i].source = incident[i].source
      /\ incident'[i].about = incident[i].about
      /\ incident'[i].status = s
      /\ incident[i].status \in Active
      /\ incident[i].source # "field-report" => s # "investigating"
  BY DEF Decide, IInv, TypeOK, Incident, Active
<1>2. incident[i].status # "none" /\ s # "none"
  BY <1>1 DEF Active, Outcomes
<1>3. ASSUME NEW r \in Rollouts PROVE RowsKept(r)
  <2>1. RolloutRows(r)' = RolloutRows(r)
    BY <1>1, <1>2 DEF RolloutRows
  <2>2. i \in RolloutRows(r) => s \in {"resolved", "dismissed"}
    BY <1>1 DEF RolloutRows, Outcomes
  <2> QED
    BY <1>1, <2>1, <2>2 DEF RowsKept, RolloutRows
<1> QED
  BY <1>3, Aside DEF Decide

LEMMA AsideRecord ==
  ASSUME IInv, RInv, NEW h \in Handlers,
         CreateFromSyncFailure(h) \/ ResolveFromSyncSuccess(h)
  PROVE  RInv'
<1>1. /\ handler[h] # Idle /\ handler[h] \in Handler
      /\ handler[h].event \in SyncEvents
      /\ handler[h].seen \subseteq Ids /\ handler[h].about \in Writes
      /\ SeenOf(h) /\ End(h)
      /\ UNCHANGED <<rollout, lost, overlap>>
  <2>1. handler[h] # Idle /\ handler[h].event \in SyncEvents
    BY DEF CreateFromSyncFailure, ResolveFromSyncSuccess, Is, SyncEvents
  <2>2. End(h) /\ UNCHANGED <<rollout, lost, overlap>>
    BY DEF CreateFromSyncFailure, ResolveFromSyncSuccess, OpenAgainOrCreate
  <2> QED
    BY <2>1, <2>2, HandlerKinds DEF IInv, SeenKept, TypeOK
<1>2. \A g \in Handlers : \/ handler'[g] = handler[g]
                          \/ /\ handler[g].event \notin RolloutEvents
                             /\ handler'[g].event \notin RolloutEvents
  BY <1>1, EndTypes, IdleIsIdle DEF IInv, SyncEvents, RolloutEvents
<1>3. ASSUME NEW rows \in SUBSET Ids, NEW s \in {"open", "resolved"},
             incident' = WithStatus(rows, s),
             \A i \in rows : incident[i].source = "config-sync-writer"
      PROVE  \A r \in Rollouts : RowsKept(r)
  <2>1. \A i \in Ids : incident'[i].source = incident[i].source
    BY <1>3, RowTypes DEF IInv, Statuses
  <2>2. \A i \in Ids \ rows : incident'[i] = incident[i]
    BY <1>3 DEF WithStatus
  <2> QED
    BY <1>3, <2>1, <2>2, OtherRows
<1>4. CASE CreateFromSyncFailure(h) /\ handler[h].seen # {}
  <2>1. incident' = WithStatus(handler[h].seen, "open")
    BY <1>4 DEF CreateFromSyncFailure, OpenAgainOrCreate
  <2>2. \A i \in handler[h].seen : incident[i].source = "config-sync-writer"
    BY <1>1, <1>4 DEF CreateFromSyncFailure, Is, SeenOf, SyncRows
  <2> QED
    BY <1>1, <1>2, <1>3, <2>1, <2>2, Aside
<1>5. CASE CreateFromSyncFailure(h) /\ handler[h].seen = {}
  <2>1. Create("config-sync-writer", handler[h].about)
    BY <1>5 DEF CreateFromSyncFailure, OpenAgainOrCreate
  <2>2. PICK i \in Ids :
          /\ incident[i].status = "none"
          /\ \A j \in Ids \ {i} : incident'[j] = incident[j]
          /\ incident'[i].source = "config-sync-writer"
    BY <1>1, <2>1, CreateTypes DEF IInv
  <2>3. \A r \in Rollouts : RowsKept(r)
    BY <2>2, OtherRows
  <2> QED
    BY <1>1, <1>2, <2>3, Aside
<1>6. CASE ResolveFromSyncSuccess(h)
  <2>1. incident' = WithStatus(ActiveOf(handler[h].seen), "resolved")
    BY <1>6 DEF ResolveFromSyncSuccess
  <2>2. \A i \in handler[h].seen : incident[i].source = "config-sync-writer"
    BY <1>1, <1>6 DEF ResolveFromSyncSuccess, Is, SeenOf, NotNewer, SyncRows
  <2>3. ActiveOf(handler[h].seen) \in SUBSET Ids
    BY <1>1 DEF ActiveOf
  <2>4. \A i \in ActiveOf(handler[h].seen) :
          incident[i].source = "config-sync-writer"
    BY <2>2 DEF ActiveOf
  <2> QED
    BY <1>1, <1>2, <1>3, <2>1, <2>3, <2>4, Aside
<1> QED
  BY <1>4, <1>5, <1>6

-----------------------------------------------------------------------------
(* Steps of the rollouts *)

\* A call changes r and is going to emit an event.
LEMMA Emitting ==
  ASSUME IInv, RInv, NEW r \in Rollouts, NEW h \in Handlers,
         NEW event \in RolloutEvents, Emits(r, event, h),
         UNCHANGED <<incident, lost>>,
         \A q \in Rollouts \ {r} : rollout'[q] = rollout[q],
         UndoneIsOver(r)', StillSo(event, r)'
  PROVE  RInv'
<1>1. /\ handler[h] = Idle
      /\ \A g \in Handlers \ {h} : handler'[g] = handler[g]
      /\ handler'[h].event = event /\ handler'[h].about = r
      /\ handler'[h].at = "emitting" /\ handler'[h].seen = {}
  BY StartTypes DEF Emits, IInv
<1>2. /\ \A q \in Rollouts : RowsKept(q)
      /\ overlap \subseteq overlap' /\ lost = lost'
  BY RowsSame DEF Emits
<1>3. ASSUME NEW g \in Handlers PROVE Mine(g)'
  <2>1. CASE g = h
    BY <1>1, <2>1 DEF Mine
  <2>2. CASE g # h
    BY <1>1, <1>2, <2>2, MineStill DEF RInv, RowsKept
  <2> QED
    BY <2>1, <2>2
<1>4. ASSUME NEW q \in Rollouts, q # r PROVE Right(q)'
  <2>1. HandlersKept(q)
    BY <1>1, <1>4, IdleIsIdle DEF HandlersKept, Serving, RolloutEvents
  <2> QED
    BY <1>2, <1>4, <2>1, RightStill DEF RInv
<1>5. Right(r)'
  <2>1. SUFFICES ASSUME r \notin overlap' \cup lost' PROVE Settled(r)'
    BY DEF Right
  <2>2. Handling(r) = {} /\ Settled(r)
    BY <1>2, <2>1 DEF Emits, RInv, Right
  <2>3. \A g \in Handlers \ {h} : g \notin Serving(r)'
    BY <1>1, <2>2, IdleIsIdle DEF Handling, Serving, RolloutEvents
  <2>4. h \in Serving(r)'
    BY <1>1 DEF Serving
  <2>5. OneRow(r)'
    BY <1>2, <2>2 DEF Settled, OneRow, RowsKept
  <2>6. ServesRightly(h, r)'
    BY <1>1 DEF ServesRightly, StillSo
  <2>7. Serving(r)' \subseteq Handlers
    BY DEF Serving
  <2> QED
    BY <2>3, <2>4, <2>5, <2>6, <2>7 DEF Settled
<1> QED
  BY <1>3, <1>4, <1>5 DEF RInv

LEMMA RolloutMoves ==
  ASSUME IInv, RInv, NEW r \in Rollouts, NEW h \in Handlers,
         \/ AutoPause(r, h) \/ Rollback(r, h)
         \/ \E o \in {"clean", "bad"} : Complete(r, o, h)
         \/ \E o \in {"clean", "bad"} : Resume(r, o, h)
  PROVE  RInv'
<1>1. /\ rollout \in [Rollouts -> Rollout] /\ UndoneIsOver(r)
      /\ rollout[r] \in Rollout
      /\ UNCHANGED <<incident, lost>>
  BY DEF IInv, TypeOK, RInv, Right, AutoPause, Rollback, Complete, Resume
<1>2. CASE AutoPause(r, h)
  <2>1. /\ Emits(r, "auto-pause", h)
        /\ \A q \in Rollouts \ {r} : rollout'[q] = rollout[q]
        /\ rollout'[r].status = "paused" /\ ~ rollout'[r].undone
    BY <1>1, <1>2 DEF AutoPause, Rollout, UndoneIsOver
  <2>2. UndoneIsOver(r)' /\ StillSo("auto-pause", r)'
    BY <2>1 DEF UndoneIsOver, StillSo
  <2> QED
    BY <1>1, <2>1, <2>2, Emitting DEF RolloutEvents
<1>3. CASE Rollback(r, h)
  <2>1. /\ Emits(r, "rolled-back", h)
        /\ \A q \in Rollouts \ {r} : rollout'[q] = rollout[q]
        /\ rollout'[r].status \in {"completed", "cancelled"}
        /\ rollout'[r].undone
    BY <1>1, <1>3 DEF Rollback, Rollout
  <2>2. UndoneIsOver(r)' /\ StillSo("rolled-back", r)'
    BY <2>1 DEF UndoneIsOver, StillSo
  <2> QED
    BY <1>1, <2>1, <2>2, Emitting DEF RolloutEvents
<1>4. ASSUME NEW o \in {"clean", "bad"}, Complete(r, o, h) PROVE RInv'
  <2>1. /\ Emits(r, "completed", h)
        /\ \A q \in Rollouts \ {r} : rollout'[q] = rollout[q]
        /\ rollout'[r].status = "completed" /\ ~ rollout'[r].undone
    BY <1>1, <1>4 DEF Complete, Rollout, UndoneIsOver
  <2>2. UndoneIsOver(r)' /\ StillSo("completed", r)'
    BY <2>1 DEF UndoneIsOver, StillSo
  <2> QED
    BY <1>1, <2>1, <2>2, Emitting DEF RolloutEvents
<1>5. ASSUME NEW o \in {"clean", "bad"}, Resume(r, o, h) PROVE RInv'
  <2>1. /\ Emits(r, "resumed", h)
        /\ \A q \in Rollouts \ {r} : rollout'[q] = rollout[q]
        /\ rollout'[r].status = "active" /\ ~ rollout'[r].undone
    BY <1>1, <1>5 DEF Resume, Rollout, UndoneIsOver
  <2>2. UndoneIsOver(r)' /\ StillSo("resumed", r)'
    BY <2>1 DEF UndoneIsOver, StillSo
  <2> QED
    BY <1>1, <2>1, <2>2, Emitting DEF RolloutEvents
<1> QED
  BY <1>2, <1>3, <1>4, <1>5

\* A late result mends what nobody asks about any more.
LEMMA Mended ==
  ASSUME IInv, RInv, NEW r \in Rollouts, LateResult(r)
  PROVE  RInv'
<1>1. /\ rollout[r].status = "completed" /\ rollout[r].outcome = "bad"
      /\ rollout'[r].status = "completed" /\ rollout'[r].outcome = "mended"
      /\ rollout'[r].undone = rollout[r].undone
      /\ \A q \in Rollouts \ {r} : rollout'[q] = rollout[q]
      /\ UNCHANGED <<incident, handler, lost, overlap>>
  BY DEF LateResult, IInv, TypeOK, Rollout
<1>2. \A q \in Rollouts : RowsKept(q) /\ HandlersKept(q)
  BY <1>1, RowsSame DEF HandlersKept, Serving
<1>3. \A q \in Rollouts \ {r} : Right(q)'
  BY <1>1, <1>2, RightStill DEF RInv
<1>4. \A h \in Handlers : Mine(h)'
  BY <1>1, <1>2, MineStill DEF RInv, RowsKept
<1>5. Right(r)'
  <2>1. UndoneIsOver(r)'
    BY <1>1 DEF UndoneIsOver
  <2>2. ASSUME Settled(r) PROVE Settled(r)'
    <3>1. OneRow(r)' /\ \A g, h \in Serving(r)' : g = h
      BY <1>2, <2>2 DEF Settled, OneRow, RowsKept, HandlersKept
    <3>2. ASSUME NEW h \in Serving(r)' PROVE ServesRightly(h, r)'
      <4>1. ServesRightly(h, r)
        BY <1>2, <2>2, <3>2 DEF Settled, HandlersKept
      <4>2. StillSo(handler[h].event, r)'
        BY <1>1, <4>1 DEF ServesRightly, StillSo
      <4> QED
        BY <1>1, <4>1, <4>2 DEF ServesRightly, StillFound, ActiveOf, RolloutRows
    <3>3. ASSUME Serving(r)' = {} PROVE Agrees(r)'
      <4>1. Agrees(r)
        BY <1>2, <2>2, <3>3 DEF Settled, HandlersKept
      <4>2. Told(r)' = Told(r)
        BY <1>1 DEF Told, RolloutRows
      <4> QED
        BY <1>1, <4>1, <4>2 DEF Agrees
    <3> QED
      BY <3>1, <3>2, <3>3 DEF Settled
  <2> QED
    BY <1>1, <2>1, <2>2 DEF RInv, Right
<1> QED
  BY <1>3, <1>4, <1>5 DEF RInv

-----------------------------------------------------------------------------
(* Steps of the handlers *)

\* The handler of an event of r goes on or ends.
LEMMA OfOthers ==
  ASSUME IInv, RInv, NEW h \in Handlers, NEW r \in Rollouts,
         handler[h].about = r \/ handler[h].event \notin RolloutEvents,
         handler'[h].about = r \/ handler'[h].event \notin RolloutEvents,
         \A g \in Handlers \ {h} : handler'[g] = handler[g],
         UNCHANGED <<rollout, overlap>>, lost \subseteq lost',
         \A q \in Rollouts \ {r} : RowsKept(q)
  PROVE  \A q \in Rollouts \ {r} : Right(q)'
<1> SUFFICES ASSUME NEW q \in Rollouts \ {r} PROVE Right(q)'
  OBVIOUS
<1>1. HandlersKept(q)
  BY DEF HandlersKept, Serving
<1> QED
  BY <1>1, RightStill DEF RInv

\* Emitted is what the rollout says then.
LEMMA EmitsRight ==
  ASSUME IInv, RInv, NEW h \in Handlers, Emit(h)
  PROVE  RInv'
<1> PICK r : r = handler[h].about
  OBVIOUS
<1>1. /\ handler[h] # Idle /\ handler[h].at = "emitting"
      /\ handler[h].event \in RolloutEvents /\ r \in Rollouts
      /\ handler'[h].event \in RolloutEvents /\ handler'[h].about = r
      /\ handler'[h].seen = handler[h].seen
      /\ \A g \in Handlers \ {h} : handler'[g] = handler[g]
      /\ UNCHANGED <<rollout, incident, lost, overlap>>
  BY EmitTypes, HandlerKinds DEF Emit, IInv, TypeOK
<1>2. handler'[h].event = Outcome(h) /\ handler'[h].at = "emitted"
  BY <1>1 DEF Emit, IInv, TypeOK, Handler
<1>3. \A q \in Rollouts : RowsKept(q)
  BY <1>1, RowsSame
<1>4. \A q \in Rollouts \ {r} : Right(q)'
  BY <1>1, <1>3, OfOthers
<1>5. ASSUME NEW g \in Handlers PROVE Mine(g)'
  <2>1. CASE g = h
    BY <1>1, <2>1 DEF RInv, Mine, RolloutRows
  <2>2. CASE g # h
    BY <1>1, <1>3, <2>2, MineStill DEF RInv, RowsKept
  <2> QED
    BY <2>1, <2>2
<1>6. Right(r)'
  <2>1. h \in Serving(r) /\ Serving(r)' = Serving(r)
    BY <1>1 DEF Serving
  <2>2. ASSUME Settled(r) PROVE Settled(r)'
    <3>1. \A g \in Serving(r)' : g = h
      BY <2>1, <2>2 DEF Settled
    <3>2. StillSo(handler[h].event, r)
      BY <2>1, <2>2 DEF Settled, ServesRightly
    <3>3. StillSo(Outcome(h), r)
      <4>1. UndoneIsOver(r)
        BY <1>1 DEF RInv, Right
      <4>2. rollout[r].outcome \in {"clean", "bad", "mended"}
        BY <1>1 DEF IInv, TypeOK, Rollout
      <4>3. CASE handler[h].event = "auto-pause"
        <5>1. Outcome(h) = "rollout-failed"
          BY <4>3 DEF Outcome
        <5> QED
          BY <3>2, <4>1, <4>3, <5>1 DEF StillSo, UndoneIsOver
      <4>4. CASE handler[h].event = "completed"
        <5>1. Outcome(h) = IF rollout[r].outcome = "bad" THEN "rollout-failed"
                                                        ELSE "completed-clean"
          BY <4>4 DEF Outcome
        <5> QED
          BY <3>2, <4>2, <4>4, <5>1 DEF StillSo
      <4>5. CASE handler[h].event \notin {"auto-pause", "completed"}
        <5>1. Outcome(h) = handler[h].event
          BY <4>5 DEF Outcome
        <5> QED
          BY <3>2, <5>1
      <4> QED
        BY <4>3, <4>4, <4>5
    <3>4. StillSo(handler[h].event, r)'
      BY <1>1, <1>2, <3>3 DEF StillSo
    <3>5. ServesRightly(h, r)'
      BY <1>2, <3>4 DEF ServesRightly
    <3>6. OneRow(r)'
      BY <1>1, <1>3, <2>2 DEF Settled, OneRow, RowsKept
    <3> QED
      BY <2>1, <3>1, <3>5, <3>6 DEF Settled
  <2> QED
    BY <1>1, <2>2 DEF RInv, Right, UndoneIsOver
<1> QED
  BY <1>1, <1>4, <1>5, <1>6 DEF RInv

\* A single row is the latest.
LEMMA LatestOfOne ==
  ASSUME NEW r \in Rollouts, OneRow(r)
  PROVE  FindRolloutIncident(r) = RolloutRows(r)
<1>1. \A i \in RolloutRows(r) : i \in Int
  BY BoundAssumption DEF RolloutRows, Ids
<1> QED
  BY <1>1 DEF FindRolloutIncident, Latest, OneRow

LEMMA FindsRight ==
  ASSUME IInv, RInv, NEW h \in Handlers, Find(h)
  PROVE  RInv'
<1> PICK a : a = handler[h].about
  OBVIOUS
<1>1. /\ handler[h] # Idle /\ handler[h] \in Handler
      /\ handler'[h].event = handler[h].event
      /\ handler'[h].about = a
      /\ handler'[h].seen = Found(handler[h].event, a)
      /\ \A g \in Handlers \ {h} : handler'[g] = handler[g]
      /\ UNCHANGED <<rollout, incident, lost, overlap>>
  BY FindTypes DEF Find, IInv, TypeOK
<1>2. \A q \in Rollouts : RowsKept(q)
  BY <1>1, RowsSame
<1>3. CASE handler[h].event \notin RolloutEvents
  BY <1>1, <1>2, <1>3, Aside
<1>4. CASE handler[h].event \in RolloutEvents
  <2>1. a \in Rollouts
    BY <1>1, <1>4, HandlerKinds
  <2>2. \A q \in Rollouts \ {a} : Right(q)'
    BY <1>1, <1>2, <2>1, OfOthers
  <2>3. Found(handler[h].event, a) \subseteq RolloutRows(a)
    BY <1>4 DEF Found, FindRolloutIncident, Latest, ActiveOf, RolloutEvents
  <2>4. ASSUME NEW g \in Handlers PROVE Mine(g)'
    <3>1. CASE g = h
      BY <1>1, <2>3, <3>1 DEF Mine, RolloutRows
    <3>2. CASE g # h
      BY <1>1, <1>2, <3>2, MineStill DEF RInv, RowsKept
    <3> QED
      BY <3>1, <3>2
  <2>5. Right(a)'
    <3>1. h \in Serving(a) /\ Serving(a)' = Serving(a)
      BY <1>1, <1>4 DEF Serving
    <3>2. ASSUME Settled(a) PROVE Settled(a)'
      <4>1. \A g \in Serving(a)' : g = h
        BY <3>1, <3>2 DEF Settled
      <4>2. StillSo(handler[h].event, a)'
        BY <1>1, <3>1, <3>2 DEF Settled, ServesRightly, StillSo
      <4>3. FindRolloutIncident(a) = RolloutRows(a)
        BY <2>1, <3>2, LatestOfOne DEF Settled
      <4>4. StillFound(handler[h].event, Found(handler[h].event, a), a)
        BY <4>3 DEF StillFound, Found
      <4>5. StillFound(handler[h].event, handler[h].seen, a)'
        BY <1>1, <4>4 DEF StillFound, ActiveOf, RolloutRows
      <4>6. OneRow(a)'
        BY <1>1, <3>2 DEF Settled, OneRow, RolloutRows
      <4> QED
        BY <3>1, <4>1, <4>2, <4>5, <4>6 DEF Settled, ServesRightly
    <3> QED
      BY <1>1, <2>1, <3>2 DEF RInv, Right, UndoneIsOver
  <2> QED
    BY <2>1, <2>2, <2>4, <2>5 DEF RInv
<1> QED
  BY <1>3, <1>4

\* What an error of the database takes is excused.
LEMMA FailsRight ==
  ASSUME IInv, RInv, NEW h \in Handlers, HandlerFails(h)
  PROVE  RInv'
<1> PICK a : a = handler[h].about
  OBVIOUS
<1>1. /\ handler[h] # Idle /\ handler[h] \in Handler
      /\ handler'[h] = Idle
      /\ \A g \in Handlers \ {h} : handler'[g] = handler[g]
      /\ UNCHANGED <<rollout, incident, overlap>>
      /\ lost' = lost \cup {a}
  BY EndTypes DEF HandlerFails, IInv, TypeOK
<1>2. \A q \in Rollouts : RowsKept(q)
  BY <1>1, RowsSame
<1>3. CASE handler[h].event \notin RolloutEvents
  BY <1>1, <1>2, <1>3, IdleIsIdle, Aside DEF RolloutEvents
<1>4. CASE handler[h].event \in RolloutEvents
  <2>1. a \in Rollouts /\ handler'[h].event \notin RolloutEvents
    BY <1>1, <1>4, HandlerKinds, IdleIsIdle DEF RolloutEvents
  <2>2. \A q \in Rollouts \ {a} : Right(q)'
    BY <1>1, <1>2, <2>1, OfOthers
  <2>3. Right(a)'
    BY <1>1, <2>1 DEF RInv, Right, UndoneIsOver
  <2>4. ASSUME NEW g \in Handlers PROVE Mine(g)'
    <3>1. CASE g = h
      BY <2>1, <3>1 DEF Mine
    <3>2. CASE g # h
      BY <1>1, <1>2, <3>2, MineStill DEF RInv, RowsKept
    <3> QED
      BY <3>1, <3>2
  <2> QED
    BY <2>1, <2>2, <2>3, <2>4 DEF RInv
<1> QED
  BY <1>3, <1>4

\* The last step of a handler of r: afterwards the incident agrees.
LEMMA EndsRight ==
  ASSUME IInv, RInv, NEW h \in Handlers, NEW r \in Rollouts,
         handler[h].event \in RolloutEvents, handler[h].about = r, End(h),
         UNCHANGED <<rollout, lost, overlap>>,
         \A q \in Rollouts \ {r} : RowsKept(q),
         RolloutRows(r) \subseteq RolloutRows(r)',
         Settled(r) => OneRow(r)' /\ Agrees(r)'
  PROVE  RInv'
<1>1. /\ handler'[h] = Idle
      /\ \A g \in Handlers \ {h} : handler'[g] = handler[g]
  BY EndTypes DEF IInv
<1>2. handler'[h].event \notin RolloutEvents
  BY <1>1, IdleIsIdle DEF RolloutEvents
<1>3. \A q \in Rollouts \ {r} : Right(q)'
  BY <1>1, <1>2, OfOthers
<1>4. ASSUME NEW g \in Handlers PROVE Mine(g)'
  <2>1. CASE g = h
    BY <1>2, <2>1 DEF Mine
  <2>2. CASE g # h
    <3>1. \A q \in Rollouts : RolloutRows(q) \subseteq RolloutRows(q)'
      BY DEF RowsKept
    <3> QED
      BY <1>1, <2>2, <3>1, MineStill DEF RInv
  <2> QED
    BY <2>1, <2>2
<1>5. Right(r)'
  <2>1. ASSUME Settled(r) PROVE Settled(r)'
    <3>1. h \in Serving(r)
      BY DEF Serving
    <3>2. \A g \in Serving(r) : g = h
      BY <2>1, <3>1 DEF Settled
    <3>3. Serving(r)' = {}
      BY <1>1, <1>2, <3>2 DEF Serving
    <3> QED
      BY <2>1, <3>3 DEF Settled
  <2> QED
    BY <2>1 DEF RInv, Right, UndoneIsOver
<1> QED
  BY <1>3, <1>4, <1>5 DEF RInv

\* What a handler writes into the rows it has found.
LEMMA WritesOwn ==
  ASSUME IInv, RInv, NEW h \in Handlers, NEW r \in Rollouts,
         handler[h].event \in RolloutEvents, handler[h].about = r,
         NEW s \in Statuses \ {"none"}, incident' = WithStatus(handler[h].seen, s)
  PROVE  /\ \A q \in Rollouts \ {r} : RowsKept(q)
         /\ RolloutRows(r)' = RolloutRows(r)
         /\ \A i \in RolloutRows(r) :
              incident'[i].status = IF i \in handler[h].seen THEN s
                                    ELSE incident[i].status
<1>1. handler[h] # Idle /\ handler[h] \in Handler
  BY IdleIsIdle DEF RolloutEvents, IInv, TypeOK
<1>2. handler[h].seen \in SUBSET Ids /\ handler[h].seen \subseteq RolloutRows(r)
  BY <1>1, HandlerKinds DEF RInv, Mine
<1>3. \A i \in Ids :
        /\ incident'[i].source = incident[i].source
        /\ incident'[i].about = incident[i].about
        /\ incident'[i].status = IF i \in handler[h].seen THEN s
                                 ELSE incident[i].status
  BY <1>2, RowTypes DEF IInv
<1>4. \A q \in Rollouts : RolloutRows(q)' = RolloutRows(q)
  BY <1>2, <1>3 DEF RolloutRows
<1>5. \A q \in Rollouts \ {r} : RowsKept(q)
  BY <1>2, <1>3, <1>4 DEF RowsKept, RolloutRows
<1> QED
  BY <1>3, <1>4, <1>5 DEF RolloutRows

LEMMA FailureRecorded ==
  ASSUME IInv, RInv, NEW h \in Handlers, HandleRolloutFailed(h)
  PROVE  RInv'
<1> PICK r : r = handler[h].about
  OBVIOUS
<1>1. /\ handler[h].event = "rollout-failed" /\ handler[h].at = "found"
      /\ handler[h] # Idle /\ handler[h] \in Handler
      /\ handler[h].event \in RolloutEvents
      /\ End(h) /\ UNCHANGED <<rollout, lost, overlap>>
  BY DEF HandleRolloutFailed, Is, OpenAgainOrCreate, IInv, TypeOK, RolloutEvents
<1>2. r \in Rollouts /\ h \in Serving(r)
  BY <1>1, HandlerKinds DEF Serving
<1>3. ASSUME Settled(r)
      PROVE  /\ handler[h].seen = RolloutRows(r) /\ OneRow(r)
             /\ ~ rollout[r].undone
             /\ \/ rollout[r].status = "paused"
                \/ rollout[r].outcome # "clean"
  BY <1>1, <1>2, <1>3
  DEF Settled, ServesRightly, StillFound, StillSo
<1>4. CASE handler[h].seen # {}
  <2>1. incident' = WithStatus(handler[h].seen, "open")
    BY <1>4 DEF HandleRolloutFailed, OpenAgainOrCreate
  <2>2. /\ \A q \in Rollouts \ {r} : RowsKept(q)
        /\ RolloutRows(r)' = RolloutRows(r)
        /\ \A i \in RolloutRows(r) :
             incident'[i].status = IF i \in handler[h].seen THEN "open"
                                   ELSE incident[i].status
    BY <1>1, <1>2, <2>1, WritesOwn DEF Statuses
  <2>3. ASSUME Settled(r) PROVE OneRow(r)' /\ Agrees(r)'
    <3>1. /\ handler[h].seen = RolloutRows(r) /\ OneRow(r)
          /\ ~ rollout'[r].undone
          /\ rollout'[r].status = "paused" \/ rollout'[r].outcome # "clean"
      BY <1>1, <1>3, <2>3
    <3>2. Told(r)' = {"open"}
      BY <1>4, <2>2, <3>1 DEF Told
    <3>3. \E i \in RolloutRows(r)' : TRUE
      BY <1>4, <2>2, <3>1
    <3> QED
      BY <2>2, <3>1, <3>2 DEF OneRow, Agrees, Active
  <2> QED
    BY <1>1, <1>2, <2>2, <2>3, EndsRight
<1>5. CASE handler[h].seen = {}
  <2>1. Create("rollout-failure", r)
    BY <1>5 DEF HandleRolloutFailed, OpenAgainOrCreate
  <2>2. PICK i \in Ids :
          /\ incident[i].status = "none"
          /\ \A j \in Ids \ {i} : incident'[j] = incident[j]
          /\ incident'[i].status = "open"
          /\ incident'[i].source = "rollout-failure"
          /\ incident'[i].about = r
    BY <1>2, <2>1, CreateTypes DEF IInv
  <2>3. \A q \in Rollouts \ {r} : RowsKept(q)
    BY <2>2 DEF RowsKept, RolloutRows
  <2>4. RolloutRows(r)' = RolloutRows(r) \cup {i}
    BY <2>2 DEF RolloutRows
  <2>5. ASSUME Settled(r) PROVE OneRow(r)' /\ Agrees(r)'
    <3>1. /\ RolloutRows(r) = {}
          /\ ~ rollout'[r].undone
          /\ rollout'[r].status = "paused" \/ rollout'[r].outcome # "clean"
      BY <1>1, <1>3, <1>5, <2>5
    <3>2. Told(r)' = {"open"}
      BY <2>2, <2>4, <3>1 DEF Told
    <3> QED
      BY <2>4, <3>1, <3>2 DEF OneRow, Agrees, Active
  <2> QED
    BY <1>1, <1>2, <2>3, <2>4, <2>5, EndsRight
<1> QED
  BY <1>4, <1>5

LEMMA ChangeRecorded ==
  ASSUME IInv, RInv, NEW h \in Handlers, HandleRolloutStatusChanged(h)
  PROVE  RInv'
<1> PICK r, e : r = handler[h].about /\ e = handler[h].event
  OBVIOUS
<1>1. /\ e \in {"rolled-back", "resumed", "completed-clean"}
      /\ handler[h].at = "found"
      /\ handler[h] # Idle /\ handler[h] \in Handler
      /\ e \in RolloutEvents
      /\ incident' = WithStatus(handler[h].seen, NewStatus(e))
      /\ End(h) /\ UNCHANGED <<rollout, lost, overlap>>
  BY DEF HandleRolloutStatusChanged, Is, IInv, TypeOK, RolloutEvents
<1>2. r \in Rollouts /\ h \in Serving(r)
  BY <1>1, HandlerKinds DEF Serving
<1>3. NewStatus(e) \in Statuses \ {"none"}
  BY <1>1 DEF NewStatus, Statuses
<1>4. /\ \A q \in Rollouts \ {r} : RowsKept(q)
      /\ RolloutRows(r)' = RolloutRows(r)
      /\ \A i \in RolloutRows(r) :
           incident'[i].status = IF i \in handler[h].seen THEN NewStatus(e)
                                 ELSE incident[i].status
  BY <1>1, <1>2, <1>3, WritesOwn
<1>5. ASSUME Settled(r) PROVE OneRow(r)' /\ Agrees(r)'
  <2>1. /\ OneRow(r) /\ StillSo(e, r) /\ StillFound(e, handler[h].seen, r)
    BY <1>1, <1>2, <1>5 DEF Settled, ServesRightly
  <2>2. OneRow(r)'
    BY <1>4, <2>1 DEF OneRow
  <2>3. \A s : s \in Told(r)' <=> \E i \in RolloutRows(r) : incident'[i].status = s
    BY <1>4 DEF Told
  <2>4. CASE e = "rolled-back"
    <3>1. rollout'[r].undone /\ handler[h].seen = RolloutRows(r)
      BY <1>1, <2>1, <2>4 DEF StillSo, StillFound
    <3>2. Told(r)' \subseteq {"rolled_back"}
      BY <1>4, <2>3, <2>4, <3>1 DEF NewStatus
    <3> QED
      BY <2>2, <3>1, <3>2 DEF Agrees
  <2>5. CASE e = "resumed"
    <3>1. rollout'[r].status = "active"
      BY <1>1, <2>1, <2>5 DEF StillSo
    <3>2. ~ rollout'[r].undone
      BY <1>1, <1>2, <3>1 DEF RInv, Right, UndoneIsOver
    <3> QED
      BY <2>2, <3>1, <3>2 DEF Agrees
  <2>6. CASE e = "completed-clean"
    <3>1. /\ rollout'[r].status = "completed" /\ rollout'[r].outcome # "bad"
          /\ ~ rollout'[r].undone
          /\ ActiveOf(RolloutRows(r)) \subseteq handler[h].seen
      BY <1>1, <2>1, <2>6 DEF StillSo, StillFound
    <3>2. \A i \in RolloutRows(r) : incident'[i].status \notin Active
      BY <1>4, <2>6, <3>1 DEF ActiveOf, Active, NewStatus
    <3>3. Told(r)' \cap Active = {}
      BY <2>3, <3>2
    <3>4. (Told(r) \cap Active)' = Told(r)' \cap Active
      BY DEF Active
    <3> QED
      BY <2>2, <3>1, <3>3, <3>4 DEF Agrees
  <2> QED
    BY <1>1, <2>4, <2>5, <2>6
<1> QED
  BY <1>1, <1>2, <1>4, <1>5, EndsRight

\* A restart excuses the rollouts an event of which was under way.
LEMMA RestartRight ==
  ASSUME IInv, RInv, Restart
  PROVE  RInv'
<1>1. /\ UNCHANGED <<rollout, incident, overlap>>
      /\ lost \subseteq lost' /\ Handled \subseteq lost'
      /\ \A h \in Handlers : handler'[h] = Idle
  BY DEF Restart
<1>2. \A h \in Handlers : handler'[h].event \notin RolloutEvents
  BY <1>1, IdleIsIdle DEF RolloutEvents
<1>3. ASSUME NEW r \in Rollouts PROVE Right(r)'
  <2>1. CASE Serving(r) = {}
    <3>1. HandlersKept(r) /\ RowsKept(r)
      BY <1>1, <1>2, <2>1, RowsSame DEF HandlersKept, Serving
    <3> QED
      BY <1>1, <3>1, RightStill DEF RInv
  <2>2. CASE Serving(r) # {}
    <3>1. r \in Handled
      BY <2>2, IdleIsIdle DEF Serving, Handled, RolloutEvents
    <3> QED
      BY <1>1, <3>1 DEF RInv, Right, UndoneIsOver
  <2> QED
    BY <2>1, <2>2
<1> QED
  BY <1>2, <1>3 DEF RInv, Mine

-----------------------------------------------------------------------------
(* The theorems *)

LEMMA InitInv == Init => IInv
<1> SUFFICES ASSUME Init PROVE IInv
  OBVIOUS
<1>1. TypeOK
  BY InitTypes
<1>2. Approved = {}
  <2>1. \A w \in Writes : w[1] \in Configs /\ w[2] \in 1..MaxVersions
    BY DEF Writes
  <2>2. \A w \in Writes : versions[w[1]] = 0
    BY <2>1 DEF Init
  <2> QED
    BY <2>1, <2>2, BoundAssumption DEF Approved
<1>3. \A w \in Writes : InChain(w) = {}
  <2>1. ASSUME NEW w \in Writes PROVE InChain(w) = {}
    <3>1. chain[w[1]] = <<>>
      BY DEF Init, Writes
    <3> QED
      BY <3>1 DEF InChain
  <2> QED
    BY <2>1
<1>4. \A w : HandledAs(w, "sync-failed") = {} /\ OpenRows(w) = {}
  BY HandledIs, IdleIsIdle DEF Init, OpenRows, SyncRows
<1>5. OneChance
  BY <1>3, <1>4 DEF OneChance, Init
<1>6. NothingForgotten
  BY <1>2 DEF NothingForgotten
<1>7. Known
  BY <1>3, IdleIsIdle DEF Known, Init, SyncEvents
<1>8. SeenKept
  BY IdleIsIdle DEF SeenKept, SeenOf, Init, RolloutEvents
<1> QED
  BY <1>1, <1>5, <1>6, <1>7, <1>8 DEF IInv

LEMMA StepInv == IInv /\ [Next]_vars => IInv'
<1> SUFFICES ASSUME IInv, [Next]_vars PROVE IInv'
  OBVIOUS
<1>1. CASE UNCHANGED vars
  <2>1. TypeOK'
    BY <1>1 DEF vars, IInv, TypeOK
  <2>2. OneChance' /\ NothingForgotten'
    BY <1>1
    DEF vars, IInv, OneChance, NothingForgotten, Approved, InChain, HandledAs,
        Handling, OpenRows, SyncRows, Replaced
  <2>3. Known' /\ SeenKept'
    BY <1>1
    DEF vars, IInv, Known, SeenKept, SeenOf, Approved, InChain, SyncRows,
        NotNewer
  <2> QED
    BY <2>1, <2>2, <2>3 DEF IInv
<1>2. CASE Next
  <2>1. ASSUME NEW h \in Handlers, Advance(h) PROVE IInv'
    BY <2>1, Emits1, Finds, Fails, Records, Resolves, RolloutFails, StatusChanges
    DEF Advance
  <2>2. ASSUME NEW c \in Configs, Approve(c) \/ Write(c) PROVE IInv'
    BY <2>2, Approves, Attempts, WriteEnds DEF Write
  <2>3. ASSUME NEW i \in Ids, RetrySync(i) \/ \E s \in Outcomes : Decide(i, s)
        PROVE  IInv'
    BY <2>3, Retries, Decides
  <2>4. ASSUME NEW r \in Rollouts, NEW h \in Handlers,
               \/ AutoPause(r, h) \/ Rollback(r, h)
               \/ \E o \in {"clean", "bad"} : Complete(r, o, h)
               \/ \E o \in {"clean", "bad"} : Resume(r, o, h)
        PROVE  IInv'
    BY <2>4, RolloutSteps
  <2> QED
    BY <1>2, <2>1, <2>2, <2>3, <2>4, Enqueues, FieldReports, LateResults, Restarts
    DEF Next
<1> QED
  BY <1>1, <1>2

LEMMA InvAlways == Spec => []IInv
BY InitInv, StepInv, PTL DEF Spec

\* The queue of config-sync-writer-queue.service.ts, the incidents of
\* incident.service.ts and the listeners keep their types.
THEOREM IncidentTypes == Spec => []TypeOK
<1>1. IInv => TypeOK
  BY DEF IInv
<1> QED
  BY <1>1, InvAlways, PTL

\* A version is never written, recorded as failed and offered for a retry at the
\* same time, however approvals, retries, handlers and restarts interleave.
THEOREM OneChanceAtATime == Spec => []OneChance
<1>1. IInv => OneChance
  BY DEF IInv
<1> QED
  BY <1>1, InvAlways, PTL

\* An approved version that nobody decided about and no restart or database
\* error lost is written, replaced, on its way or asked for by an incident.
THEOREM NoVersionForgotten == Spec => []NothingForgotten
<1>1. IInv => NothingForgotten
  BY DEF IInv
<1> QED
  BY <1>1, InvAlways, PTL

LEMMA RInit == Init => RInv
<1> SUFFICES ASSUME Init PROVE RInv
  OBVIOUS
<1>1. \A h \in Handlers : handler[h].event \notin RolloutEvents
  BY IdleIsIdle DEF Init, RolloutEvents
<1>2. \A r \in Rollouts : RolloutRows(r) = {} /\ Serving(r) = {}
  BY <1>1 DEF Init, RolloutRows, Serving
<1>3. \A r \in Rollouts : rollout[r].status = "active" /\ ~ rollout[r].undone
  BY DEF Init
<1> QED
  BY <1>1, <1>2, <1>3
  DEF RInv, Mine, Right, UndoneIsOver, Settled, OneRow, Agrees

LEMMA RStep == IInv /\ RInv /\ [Next]_vars => RInv'
<1> SUFFICES ASSUME IInv, RInv, [Next]_vars PROVE RInv'
  OBVIOUS
<1>1. CASE UNCHANGED vars
  BY <1>1, RowsSame, Aside DEF vars
<1>2. CASE Next
  <2>1. ASSUME NEW h \in Handlers, Advance(h) PROVE RInv'
    BY <2>1, EmitsRight, FindsRight, FailsRight, AsideRecord, FailureRecorded,
       ChangeRecorded
    DEF Advance
  <2>2. ASSUME NEW c \in Configs, Approve(c) \/ Write(c) PROVE RInv'
    BY <2>2, AsideWrites DEF Write
  <2>3. ASSUME NEW i \in Ids, RetrySync(i) \/ \E s \in Outcomes : Decide(i, s)
        PROVE  RInv'
    BY <2>3, AsideRetry, AsideDecide
  <2>4. ASSUME NEW r \in Rollouts, NEW h \in Handlers,
               \/ AutoPause(r, h) \/ Rollback(r, h)
               \/ \E o \in {"clean", "bad"} : Complete(r, o, h)
               \/ \E o \in {"clean", "bad"} : Resume(r, o, h)
        PROVE  RInv'
    BY <2>4, RolloutMoves
  <2> QED
    BY <1>2, <2>1, <2>2, <2>3, <2>4, AsideEnqueue, AsideReport, Mended,
       RestartRight
    DEF Next
<1> QED
  BY <1>1, <1>2

\* The incident of a rollout tells what became of it whenever none of its
\* events is under way, unless two of them were handled at the same time or one
\* was lost: the listeners of incident.service.ts keep up with
\* campaign-rollout.service.ts one event at a time.
THEOREM RolloutsAreTold == Spec => []RolloutIncidentAgrees
<1>1. ASSUME RInv PROVE RolloutIncidentAgrees
  <2>1. SUFFICES ASSUME NEW r \in Rollouts \ (overlap \cup lost), Handling(r) = {}
                 PROVE  OneRow(r) /\ Agrees(r)
    BY DEF RolloutIncidentAgrees, OneRow, Agrees, Told
  <2>2. Serving(r) = {}
    BY <2>1, IdleIsIdle DEF Serving, Handling, RolloutEvents
  <2> QED
    BY <1>1, <2>2 DEF RInv, Right, Settled
<1>2. Init => RInv
  BY RInit
<1>3. IInv /\ RInv /\ [Next]_vars => RInv'
  BY RStep
<1> QED
  BY <1>1, <1>2, <1>3, InvAlways, PTL DEF Spec

=============================================================================
