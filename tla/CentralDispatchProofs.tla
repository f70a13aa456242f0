------------------------ MODULE CentralDispatchProofs ------------------------
(* Proofs about CentralDispatch: whatever devices, loops, attempts, restarts  *)
(* and lost answers there are, a retry is never lost, and without a restart   *)
(* no target of an active rollout is forgotten; a target that no two loops    *)
(* took on together is in one hand, is sent once for each attempt, and when   *)
(* it is recorded as failed nothing is applied later but by a command whose   *)
(* number was lost.                                                           *)
EXTENDS DispatchHistory, FiniteSetTheorems, TLAPS

-----------------------------------------------------------------------------
(* The inductive invariant *)

Holding == {"push", "save", "decide", "record"}

\* a loop that serves a target is not done with it; the command it saves is one
\* the central server has
LoopKnows(c, accepted) ==
  /\ c.pc \in Holding => c.at \in Devices /\ c.seen[c.at] # 0
  /\ c.pc = "save" => c.command \in DOMAIN accepted[c.at]

\* a poll that asks does so about commands the central server has
PollKnows(p, accepted) ==
  /\ p.pc \in {"decide", "record"} => p.at \in Devices
  /\ p.pc \in {"idle", "ask", "decide"} => ~p.claiming
  /\ ~p.claiming =>
       \A d \in Devices : p.seen[d] # 0 => p.value[d] \in DOMAIN accepted[d]

\* a row names no command that the central server does not have
RowsName == \A d \in Devices :
  target[d].command # 0 => target[d].command \in DOMAIN central[d]

LoopsKnow == \A w \in Workers : LoopKnows(loop[w], central)

\* only the poll is told of one target
LoopsTakeAll == \A l \in Loops : loop[l].only = NoDevice

Loose(row) == row.command = 0 /\ row.retry = 0
Has(l, d) == loop[l].pc = "read" \/ loop[l].seen[d] # 0

RemembersAll == crashes = 0 => NobodyForgotten

IInv ==
  /\ TypeOK
  /\ LoopsKnow
  /\ LoopsTakeAll
  /\ PollKnows(poll, central)
  /\ RowsName
  /\ RetryNeverLost
  /\ RemembersAll
-----------------------------------------------------------------------------
(* What a step may do *)

\* a row takes no second result, and one with a command or a retry keeps one of them
RowMoves(d) ==
  /\ target'[d].command # 0 => target'[d].command \in DOMAIN central'[d]
  /\ target'[d].status = "pending" => target[d].status = "pending"
  /\ Loose(target'[d]) => Loose(target[d]) /\ target'[d].attempts = target[d].attempts

RowsMove ==
  /\ target' \in [Devices -> Target]
  /\ \A d \in Devices : RowMoves(d)

CentralGrows ==
  /\ central' \in [Devices -> Seq(Outcomes)]
  /\ \A d \in Devices : DOMAIN central[d] \subseteq DOMAIN central'[d]

\* a target without command and retry stays with its loop, unless it gets its
\* result, the rollout stops or all loose targets are about to be read
Remembers ==
  /\ crashes' = 0 => crashes = 0
  /\ crashes' = 0 /\ rollout' = "active" =>
       \/ \E l \in Loops : loop'[l].pc = "read"
       \/ /\ rollout = "active"
          /\ \A d \in Devices :
               target'[d].status = "pending" /\ Loose(target'[d]) =>
                 \A l \in Loops : Has(l, d) => Has(l, d)'

OthersTyped ==
  /\ rollout' \in {"approved", "active", "paused", "completed", "cancelled"}
  /\ autoRetry' \in BOOLEAN
  /\ attempt' \in [Devices -> [1..MaxAttempts -> AttemptStatus]]
  /\ listed' \subseteq Devices
  /\ crashes' \in 0..MaxCrashes
  /\ switches' \in 0..MaxSwitches

LoopsStay == loop' \in [Workers -> Loop] /\ LoopsKnow' /\ LoopsTakeAll'
PollStays == poll' \in Polling /\ PollKnows(poll, central)'

LEMMA StepKept ==
  ASSUME IInv, RowsMove, CentralGrows, Remembers, OthersTyped, LoopsStay, PollStays
  PROVE  IInv'
<1>1. TypeOK'
  BY DEF RowsMove, CentralGrows, OthersTyped, LoopsStay, PollStays, TypeOK
<1>2. RowsName'
  BY DEF RowsMove, RowMoves, RowsName
<1>3. RetryNeverLost'
  <2> SUFFICES ASSUME NEW d \in Devices, target'[d].status = "pending",
                      target'[d].attempts > 1, Loose(target'[d])
               PROVE  FALSE
    BY DEF RetryNeverLost, Pending, Loose
  <2>1. /\ target[d].status = "pending"
        /\ Loose(target[d])
        /\ target'[d].attempts = target[d].attempts
    BY DEF RowsMove, RowMoves
  <2> QED
    BY <2>1 DEF IInv, RetryNeverLost, Pending, Loose
<1>4. RemembersAll'
  <2> SUFFICES ASSUME crashes' = 0, rollout' = "active",
                      NEW d \in Devices, target'[d].status = "pending", Loose(target'[d])
               PROVE  \E l \in Loops : Has(l, d)'
    BY DEF RemembersAll, NobodyForgotten, Pending, Loose, Has
  <2>1. CASE \E l \in Loops : loop'[l].pc = "read"
    BY <2>1 DEF Has
  <2>2. CASE /\ rollout = "active"
             /\ \A l \in Loops : Has(l, d) => Has(l, d)'
    <3>1. d \in Pending /\ Loose(target[d])
      BY DEF RowsMove, RowMoves, Pending
    <3>2. \E l \in Loops : Has(l, d)
      BY <2>2, <3>1 DEF Remembers, IInv, RemembersAll, NobodyForgotten, Loose, Has
    <3> QED
      BY <2>2, <3>2
  <2> QED
    BY <2>1, <2>2 DEF Remembers
<1> QED
  BY <1>1, <1>2, <1>3, <1>4 DEF IInv, LoopsStay, PollStays

-----------------------------------------------------------------------------
(* The parts of a step *)

LEMMA WorkersAre == Poll \in Workers /\ Loops \subseteq Workers
BY DEF Workers

\* one loop changes
LEMMA LoopChanges ==
  ASSUME IInv, CentralGrows, NEW w \in Workers, NEW new \in Loop,
         loop' = [loop EXCEPT ![w] = new],
         LoopKnows(new, central'), w \in Loops => new.only = NoDevice
  PROVE  LoopsStay
<1>1. \A v \in Workers : loop'[v] = IF v = w THEN new ELSE loop[v]
  BY DEF IInv, TypeOK
<1>2. loop' \in [Workers -> Loop]
  BY DEF IInv, TypeOK
<1>3. ASSUME NEW v \in Workers PROVE LoopKnows(loop'[v], central')
  <2>1. LoopKnows(loop[v], central)
    BY DEF IInv, LoopsKnow
  <2> QED
    BY <1>1, <2>1 DEF CentralGrows, LoopKnows, Holding
<1>4. LoopsTakeAll'
  BY <1>1, WorkersAre DEF IInv, LoopsTakeAll
<1> QED
  BY <1>2, <1>3, <1>4 DEF LoopsStay, LoopsKnow

LEMMA LoopsAlone ==
  ASSUME IInv, CentralGrows, loop' = loop
  PROVE  LoopsStay
<1>1. ASSUME NEW v \in Workers PROVE LoopKnows(loop'[v], central')
  <2>1. LoopKnows(loop[v], central)
    BY DEF IInv, LoopsKnow
  <2> QED
    BY <2>1 DEF CentralGrows, LoopKnows, Holding
<1> QED
  BY <1>1 DEF IInv, TypeOK, LoopsStay, LoopsKnow, LoopsTakeAll

LEMMA PollAlone ==
  ASSUME IInv, CentralGrows, poll' = poll
  PROVE  PollStays
BY DEF IInv, TypeOK, CentralGrows, PollStays, PollKnows

LEMMA CentralAlone ==
  ASSUME IInv, central' = central
  PROVE  CentralGrows
BY DEF IInv, TypeOK, CentralGrows

\* a row keeps its command and retry; it may get a result
LEMMA RowsAlone ==
  ASSUME IInv, CentralGrows, target' = target
  PROVE  RowsMove
BY DEF IInv, TypeOK, CentralGrows, RowsMove, RowMoves, RowsName

\* one row changes
LEMMA RowChanges ==
  ASSUME IInv, CentralGrows, NEW d \in Devices, NEW new \in Target,
         target' = [target EXCEPT ![d] = new],
         new.command # 0 => new.command \in DOMAIN central'[d],
         new.status = "pending" => target[d].status = "pending",
         Loose(new) => Loose(target[d]) /\ new.attempts = target[d].attempts
  PROVE  RowsMove
<1>1. \A e \in Devices : target'[e] = IF e = d THEN new ELSE target[e]
  BY DEF IInv, TypeOK
<1>2. target' \in [Devices -> Target]
  BY DEF IInv, TypeOK
<1>3. ASSUME NEW e \in Devices PROVE RowMoves(e)
  BY <1>1 DEF IInv, CentralGrows, RowMoves, RowsName
<1> QED
  BY <1>2, <1>3 DEF RowsMove

LEMMA AttemptChanges ==
  ASSUME TypeOK, NEW d, NEW n, NEW status \in AttemptStatus,
         attempt' = [attempt EXCEPT ![d][n] = status]
  PROVE  attempt' \in [Devices -> [1..MaxAttempts -> AttemptStatus]]
BY DEF TypeOK

\* every column of a row has its type
LEMMA RowTyped ==
  ASSUME TypeOK, NEW d \in Devices
  PROVE  /\ target[d] \in Target
         /\ target[d].status \in {"pending", "success", "failed", "skipped"}
         /\ target[d].command \in Nat
         /\ target[d].attempts \in 1..MaxAttempts
         /\ target[d].retry \in Nat
         /\ target[d].sets \in Nat
BY DEF TypeOK, Target

\* a new retry is one, and its end leaves none
LEMMA RetryRows ==
  ASSUME NEW row \in Target
  PROVE  /\ WithRetry(row) \in Target
         /\ NoRetry(row) \in Target
         /\ WithRetry(row).status = row.status
         /\ WithRetry(row).command = row.command
         /\ WithRetry(row).attempts = row.attempts
         /\ WithRetry(row).retry # 0
         /\ NoRetry(row).status = row.status
<1>1. row.sets + 1 \in Nat \ {0}
  BY DEF Target
<1>2. WithRetry(row) \in Target
  BY <1>1 DEF WithRetry, Target
<1>3. NoRetry(row) \in Target
  BY DEF NoRetry, Target
<1>4. WithRetry(row).retry = row.sets + 1
  BY DEF WithRetry, Target
<1>5. /\ WithRetry(row).status = row.status
      /\ WithRetry(row).command = row.command
      /\ WithRetry(row).attempts = row.attempts
  BY DEF WithRetry, Target
<1>6. NoRetry(row).status = row.status
  BY DEF NoRetry, Target
<1> QED
  BY <1>1, <1>2, <1>3, <1>4, <1>5, <1>6

\* a result takes a row out of those that wait; a rollout that goes on was active
\* before
Decided(d) ==
  /\ RowsMove
  /\ rollout' \in {"approved", "active", "paused", "completed", "cancelled"}
  /\ rollout' = "active" =>
       /\ rollout = "active"
       /\ \A e \in Devices : target'[e].status = "pending" => e # d

LEMMA ResultTaken ==
  ASSUME IInv, CentralGrows, NEW d \in Pending,
         NEW result \in {"success", "failed", "skipped"},
         target' = [target EXCEPT ![d].status = result]
  PROVE  RowsMove /\ \A e \in Devices : target'[e].status = "pending" => e # d
<1> DEFINE new == [target[d] EXCEPT !.status = result]
<1>1. d \in Devices /\ target[d].status = "pending"
  BY DEF Pending
<1>2. /\ new \in Target
      /\ new.command = target[d].command /\ new.retry = target[d].retry
      /\ new.attempts = target[d].attempts /\ new.status = result
  BY <1>1 DEF IInv, TypeOK, Target
<1>3. target[d].command # 0 => target[d].command \in DOMAIN central'[d]
  BY <1>1 DEF IInv, RowsName, CentralGrows
<1>4. target' = [target EXCEPT ![d] = new]
  OBVIOUS
<1>5. target'[d] = new
  BY <1>1, <1>4 DEF IInv, TypeOK
<1> HIDE DEF new
<1>6. Loose(new) => Loose(target[d]) /\ new.attempts = target[d].attempts
  BY <1>2 DEF Loose
<1>7. RowsMove
  BY <1>1, <1>2, <1>3, <1>4, <1>6, RowChanges, ZenonT(60)
<1> QED
  BY <1>2, <1>5, <1>7

LEMMA Recording ==
  ASSUME IInv, CentralGrows, NEW d \in Devices, NEW result \in {"success", "failed"},
         Record(d, result)
  PROVE  Decided(d)
<1>1. CASE d \in Pending /\ rollout \in {"active", "paused"}
  <2>1. target' = [target EXCEPT ![d].status = result]
    BY <1>1 DEF Record
  <2>2. rollout' \in IF Pending = {d} THEN {"completed"}
                     ELSE IF result = "failed" /\ rollout = "active"
                     THEN {"active", "paused"} ELSE {rollout}
    BY <1>1 DEF Record
  <2> QED
    BY <1>1, <2>1, <2>2, ResultTaken DEF Decided
<1>2. CASE ~(d \in Pending /\ rollout \in {"active", "paused"})
  <2>1. UNCHANGED <<target, rollout>>
    BY <1>2 DEF Record
  <2> QED
    BY <1>2, <2>1, RowsAlone DEF Decided, Pending, IInv, TypeOK
<1> QED
  BY <1>1, <1>2

LEMMA Skipped ==
  ASSUME IInv, CentralGrows, NEW d \in Devices, Skip(d)
  PROVE  Decided(d)
<1>1. CASE d \in Pending
  <2>1. target' = [target EXCEPT ![d].status = "skipped"]
    BY <1>1 DEF Skip
  <2>2. rollout' = IF Pending = {d} /\ rollout = "active" THEN "completed" ELSE rollout
    BY <1>1 DEF Skip
  <2> QED
    BY <1>1, <2>1, <2>2, ResultTaken DEF Decided, IInv, TypeOK
<1>2. CASE d \notin Pending
  <2>1. UNCHANGED <<target, rollout>>
    BY <1>2 DEF Skip
  <2> QED
    BY <1>2, <2>1, RowsAlone DEF Decided, Pending, IInv, TypeOK
<1> QED
  BY <1>1, <1>2

\* a target that is sent again gets a retry
LEMMA Scheduling ==
  ASSUME IInv, CentralGrows, NEW d \in Devices, Schedule(d)
  PROVE  RowsMove /\ \A e \in Devices : Loose(target'[e]) => e # d
<1> DEFINE new == [WithRetry(target[d]) EXCEPT !.command = 0]
<1>1. WithRetry(target[d]) \in Target
  BY RetryRows DEF IInv, TypeOK
<1>2. new \in Target /\ new.command = 0 /\ ~Loose(new)
  BY <1>1, RetryRows DEF IInv, TypeOK, Target, Loose
<1>3. new.status = target[d].status
  BY <1>1, RetryRows DEF IInv, TypeOK, Target
<1>4. target' = [target EXCEPT ![d] = new]
  BY DEF Schedule
<1>5. target'[d] = new
  BY <1>4 DEF IInv, TypeOK
<1> HIDE DEF new
<1> QED
  BY <1>2, <1>3, <1>4, <1>5, RowChanges
-----------------------------------------------------------------------------
(* What the loops remember *)

\* the columns of a loop have their types
LEMMA LoopTyped ==
  ASSUME TypeOK, NEW w \in Workers
  PROVE  /\ loop[w] \in Loop
         /\ loop[w].only \in Devices \cup {NoDevice}
         /\ loop[w].seen \in [Devices -> 0..MaxAttempts]
         /\ loop[w].command \in Nat
BY DEF TypeOK, Loop

LEMMA SeenTyped ==
  ASSUME TypeOK, NEW S
  PROVE  /\ Seen(S) \in [Devices -> 0..MaxAttempts]
         /\ \A d \in Devices : Seen(S)[d] # 0 <=> d \in S
<1>1. \A d \in Devices : target[d].attempts \in 1..MaxAttempts
  BY RowTyped
<1>2. \A d \in Devices : target[d].attempts \in 0..MaxAttempts /\ target[d].attempts # 0
  BY <1>1, AttemptsArePositive
<1>3. MaxAttempts \in Nat
  BY AttemptsArePositive
<1>4. ASSUME NEW d \in Devices
      PROVE  (IF d \in S THEN target[d].attempts ELSE 0) \in 0..MaxAttempts
  BY <1>2, <1>3
<1> QED
  BY <1>2, <1>4 DEF Seen

LEMMA IdleTyped ==
  /\ IdleLoop \in Loop /\ IdleLoop.pc = "idle" /\ IdleLoop.only = NoDevice
  /\ IdlePoll \in Polling /\ IdlePoll.pc = "idle" /\ ~IdlePoll.claiming
  /\ \A d \in Devices : IdlePoll.seen[d] = 0
<1>1. 0 \in 0..MaxAttempts
  BY AttemptsArePositive
<1>2. Nobody \in [Devices -> 0..MaxAttempts] /\ Nobody \in [Devices -> Nat]
  BY <1>1 DEF Nobody
<1>3. IdleLoop \in Loop
  BY <1>2 DEF IdleLoop, Loop
<1>4. IdlePoll \in Polling
  BY <1>2 DEF IdlePoll, Polling, Outcomes
<1> QED
  BY <1>3, <1>4 DEF IdleLoop, IdlePoll, Nobody

\* the loops do not change
LEMMA LoopsRemember ==
  ASSUME loop' = loop, crashes' = crashes, rollout' = "active" => rollout = "active"
  PROVE  Remembers
BY DEF Remembers, Has

\* one loop changes, and what it lets go of is not loose
LEMMA LoopRemembers ==
  ASSUME IInv, NEW w \in Workers, NEW new,
         loop' = [loop EXCEPT ![w] = new], crashes' = crashes,
         rollout' = "active" => rollout = "active",
         \A d \in Devices :
           rollout' = "active" /\ target'[d].status = "pending" /\ Loose(target'[d])
               /\ w \in Loops /\ Has(w, d)
             => new.pc = "read" \/ new.seen[d] # 0
  PROVE  Remembers
<1>1. \A v \in Workers : loop'[v] = IF v = w THEN new ELSE loop[v]
  BY DEF IInv, TypeOK
<1> QED
  BY <1>1, WorkersAre DEF Remembers, Has

\* a step of one loop
LEMMA LoopStepKept ==
  ASSUME IInv, NEW w \in Workers, NEW new \in Loop,
         loop' = [loop EXCEPT ![w] = new],
         CentralGrows, RowsMove, LoopKnows(new, central'),
         new.only = loop[w].only \/ new.only = NoDevice,
         rollout' \in {"approved", "active", "paused", "completed", "cancelled"},
         rollout' = "active" => rollout = "active",
         attempt' \in [Devices -> [1..MaxAttempts -> AttemptStatus]],
         UNCHANGED <<autoRetry, poll, listed, crashes, switches>>,
         \A d \in Devices :
           rollout' = "active" /\ target'[d].status = "pending" /\ Loose(target'[d])
               /\ w \in Loops /\ Has(w, d)
             => new.pc = "read" \/ new.seen[d] # 0
  PROVE  IInv'
<1>1. w \in Loops => new.only = NoDevice
  BY DEF IInv, LoopsTakeAll
<1>2. LoopsStay
  BY <1>1, LoopChanges
<1>3. PollStays
  BY PollAlone
<1>4. Remembers
  BY LoopRemembers
<1>5. OthersTyped
  BY DEF IInv, TypeOK, OthersTyped
<1> QED
  BY <1>2, <1>3, <1>4, <1>5, StepKept

\* a step of the poll
LEMMA PollStepKept ==
  ASSUME IInv, RowsMove, poll' \in Polling, PollKnows(poll', central),
         rollout' \in {"approved", "active", "paused", "completed", "cancelled"},
         rollout' = "active" => rollout = "active",
         attempt' \in [Devices -> [1..MaxAttempts -> AttemptStatus]],
         UNCHANGED <<autoRetry, central, loop, listed, crashes, switches>>
  PROVE  IInv'
<1>1. CentralGrows
  BY CentralAlone
<1>2. LoopsStay
  BY <1>1, LoopsAlone
<1>3. PollStays
  BY DEF PollStays
<1>4. Remembers
  BY LoopsRemember
<1>5. OthersTyped
  BY DEF IInv, TypeOK, OthersTyped
<1> QED
  BY <1>1, <1>2, <1>3, <1>4, <1>5, StepKept

-----------------------------------------------------------------------------
(* The loop *)

\* a loop starts when the rollout becomes active, and reads all that is loose
LEMMA StartKept ==
  ASSUME IInv, NEW l \in Loops, Release(l) \/ Resume(l)
  PROVE  IInv'
<1> DEFINE new == [IdleLoop EXCEPT !.pc = "read", !.only = NoDevice]
<1>1. new \in Loop /\ new.pc = "read" /\ new.only = NoDevice
  BY IdleTyped DEF Loop, IdleLoop
<1>2. loop' = [loop EXCEPT ![l] = new] /\ rollout' = "active"
  BY DEF Release, Resume, Start
<1>3. UNCHANGED <<autoRetry, target, attempt, central, poll, listed, crashes, switches>>
  BY DEF Release, Resume
<1> HIDE DEF new
<1>4. l \in Workers
  BY WorkersAre
<1>5. CentralGrows
  BY <1>3, CentralAlone
<1>6. LoopKnows(new, central')
  BY <1>1 DEF LoopKnows, Holding
<1>7. LoopsStay
  BY <1>1, <1>2, <1>4, <1>5, <1>6, LoopChanges
<1>8. loop'[l].pc = "read"
  BY <1>1, <1>2, <1>4 DEF IInv, TypeOK
<1>9. Remembers
  BY <1>3, <1>8 DEF Remembers
<1>10. RowsMove /\ PollStays
  BY <1>3, <1>5, RowsAlone, PollAlone
<1>11. OthersTyped
  BY <1>2, <1>3 DEF IInv, TypeOK, OthersTyped
<1> QED
  BY <1>5, <1>7, <1>9, <1>10, <1>11, StepKept

LEMMA ReadTargetsKept ==
  ASSUME IInv, NEW w \in Workers, ReadTargets(w)
  PROVE  IInv'
<1> DEFINE new == [loop[w] EXCEPT !.pc = "next", !.seen = Seen(Unsent(loop[w].only)),
                                  !.retrying = autoRetry]
<1>1. TypeOK
  BY DEF IInv
<1>2. /\ Seen(Unsent(loop[w].only)) \in [Devices -> 0..MaxAttempts]
      /\ autoRetry \in BOOLEAN
  BY <1>1, SeenTyped DEF TypeOK
<1>3. new \in Loop
  BY <1>1, <1>2, LoopTyped DEF Loop
<1>4. new.pc = "next" /\ new.only = loop[w].only
  BY <1>1, LoopTyped DEF Loop
<1>5. new.seen = Seen(Unsent(loop[w].only))
  BY <1>1, LoopTyped DEF Loop
<1>6. loop' = [loop EXCEPT ![w] = new]
  BY DEF ReadTargets
<1>7. UNCHANGED <<rollout, autoRetry, target, attempt, central, poll, listed, crashes, switches>>
  BY DEF ReadTargets
<1> HIDE DEF new
<1>8. CentralGrows /\ RowsMove
  BY <1>7, CentralAlone, RowsAlone
<1>9. LoopKnows(new, central')
  BY <1>4 DEF LoopKnows, Holding
<1>10. ASSUME NEW d \in Devices, target'[d].status = "pending", Loose(target'[d]),
              w \in Loops
       PROVE  new.seen[d] # 0
  <2>1. d \in Unsent(loop[w].only)
    BY <1>7, <1>10 DEF Unsent, Pending, Loose, IInv, LoopsTakeAll
  <2> QED
    BY <1>1, <1>5, <2>1, SeenTyped
<1> QED
  BY <1>1, <1>3, <1>4, <1>6, <1>7, <1>8, <1>9, <1>10, LoopStepKept DEF TypeOK

LEMMA NextTargetKept ==
  ASSUME IInv, NEW w \in Workers, NextTarget(w)
  PROVE  IInv'
<1>1. UNCHANGED <<rollout, autoRetry, target, attempt, central, poll, listed, crashes, switches>>
  BY DEF NextTarget
<1>2. CentralGrows /\ RowsMove
  BY <1>1, CentralAlone, RowsAlone
<1>3. TypeOK /\ loop[w].pc = "next"
  BY DEF IInv, NextTarget
<1>4. CASE loop' = [loop EXCEPT ![w] = IdleLoop]
           /\ (rollout = "active" => Listed(loop[w]) = {})
  <2>1. \A d \in Devices : rollout' = "active" => ~Has(w, d)
    BY <1>1, <1>3, <1>4 DEF Has, Listed
  <2>2. LoopKnows(IdleLoop, central')
    BY IdleTyped DEF LoopKnows, Holding
  <2> QED
    BY <1>1, <1>2, <1>3, <1>4, <2>1, <2>2, IdleTyped, LoopStepKept DEF TypeOK
<1>5. ASSUME NEW d \in Listed(loop[w]),
             loop' = [loop EXCEPT ![w].pc = "push", ![w].at = d]
      PROVE  IInv'
  <2> DEFINE new == [loop[w] EXCEPT !.pc = "push", !.at = d]
  <2>1. d \in Devices /\ loop[w].seen[d] # 0
    BY DEF Listed
  <2>2. new \in Loop /\ new.pc = "push" /\ new.at = d
    BY <1>3, <2>1, LoopTyped DEF Loop
  <2>3. new.only = loop[w].only /\ new.seen = loop[w].seen
    BY <1>3, LoopTyped DEF Loop
  <2>4. loop' = [loop EXCEPT ![w] = new]
    BY <1>5
  <2> HIDE DEF new
  <2>5. LoopKnows(new, central')
    BY <2>1, <2>2, <2>3 DEF LoopKnows, Holding
  <2>6. \A e \in Devices : Has(w, e) => new.seen[e] # 0
    BY <1>3, <2>3 DEF Has
  <2> QED
    BY <1>1, <1>2, <1>3, <2>2, <2>3, <2>4, <2>5, <2>6, LoopStepKept DEF TypeOK
<1> QED
  BY <1>4, <1>5 DEF NextTarget

\* a loop that has served its target
LEMMA ContinueKept ==
  ASSUME IInv, NEW w \in Workers, loop[w].pc \in Holding, Continue(w),
         RowsMove, central' = central,
         rollout' \in {"approved", "active", "paused", "completed", "cancelled"},
         rollout' = "active" => rollout = "active",
         attempt' \in [Devices -> [1..MaxAttempts -> AttemptStatus]],
         UNCHANGED <<autoRetry, poll, listed, crashes, switches>>,
         \A d \in Devices :
           rollout' = "active" /\ target'[d].status = "pending" /\ Loose(target'[d])
             => d # loop[w].at
  PROVE  IInv'
<1> DEFINE new == [loop[w] EXCEPT !.pc = "next", !.seen[loop[w].at] = 0, !.at = NoDevice]
<1>1. TypeOK
  BY DEF IInv
<1>2. 0 \in 0..MaxAttempts
  BY AttemptsArePositive
<1>3. new \in Loop /\ new.pc = "next" /\ new.only = loop[w].only
  BY <1>1, <1>2, LoopTyped DEF Loop
<1>4. new.seen = [loop[w].seen EXCEPT ![loop[w].at] = 0]
  BY <1>1, LoopTyped DEF Loop
<1>5. loop' = [loop EXCEPT ![w] = new]
  BY DEF Continue
<1> HIDE DEF new
<1>6. CentralGrows
  BY CentralAlone
<1>7. LoopKnows(new, central')
  BY <1>3 DEF LoopKnows, Holding
<1>8. \A d \in Devices : d # loop[w].at => new.seen[d] = loop[w].seen[d]
  BY <1>1, <1>4, LoopTyped
<1>9. \A d \in Devices : Has(w, d) => loop[w].seen[d] # 0
  BY DEF Has, Holding
<1> QED
  BY <1>3, <1>5, <1>6, <1>7, <1>8, <1>9, LoopStepKept

\* what a loop holds
LEMMA Holds ==
  ASSUME IInv, NEW w \in Workers, loop[w].pc \in Holding
  PROVE  loop[w].at \in Devices /\ loop[w].seen[loop[w].at] # 0
BY DEF IInv, LoopsKnow, LoopKnows

LEMMA RefuseKept ==
  ASSUME IInv, NEW w \in Workers, Refuse(w)
  PROVE  IInv'
<1>1. loop[w].pc \in Holding /\ Record(loop[w].at, "failed") /\ Continue(w)
  BY DEF Refuse, Holding
<1>2. UNCHANGED <<autoRetry, attempt, central, poll, listed, crashes, switches>>
  BY DEF Refuse
<1>3. Decided(loop[w].at)
  BY <1>1, <1>2, CentralAlone, Holds, Recording
<1> QED
  BY <1>1, <1>2, <1>3, ContinueKept DEF Decided, IInv, TypeOK

LEMMA RecordAfterPushKept ==
  ASSUME IInv, NEW w \in Workers, RecordAfterPush(w)
  PROVE  IInv'
<1>1. loop[w].pc \in Holding /\ Record(loop[w].at, "failed") /\ Continue(w)
  BY DEF RecordAfterPush, Holding
<1>2. UNCHANGED <<autoRetry, attempt, central, poll, listed, crashes, switches>>
  BY DEF RecordAfterPush
<1>3. Decided(loop[w].at)
  BY <1>1, <1>2, CentralAlone, Holds, Recording
<1> QED
  BY <1>1, <1>2, <1>3, ContinueKept DEF Decided, IInv, TypeOK

\* attempts keep their types
LEMMA AttemptBegun ==
  ASSUME TypeOK, NEW d, NEW n, NEW b \in BOOLEAN,
         IF b THEN BeginAttempt(d, n) ELSE UNCHANGED attempt
  PROVE  attempt' \in [Devices -> [1..MaxAttempts -> AttemptStatus]]
<1>1. "sent" \in AttemptStatus
  BY DEF AttemptStatus
<1>2. CASE attempt' = attempt
  BY <1>2 DEF TypeOK
<1>3. CASE attempt' = [attempt EXCEPT ![d][n] = "sent"]
  BY <1>1, <1>3, AttemptChanges
<1> QED
  BY <1>2, <1>3 DEF BeginAttempt

LEMMA AttemptSent ==
  ASSUME TypeOK, NEW d, NEW n, NEW b \in BOOLEAN,
         IF b THEN MarkSent(d, n) ELSE UNCHANGED attempt
  PROVE  attempt' \in [Devices -> [1..MaxAttempts -> AttemptStatus]]
<1>1. "resent" \in AttemptStatus
  BY DEF AttemptStatus, Finished
<1>2. CASE attempt' = attempt
  BY <1>2 DEF TypeOK
<1>3. CASE attempt' = [attempt EXCEPT ![d][n] = "resent"]
  BY <1>1, <1>3, AttemptChanges
<1> QED
  BY <1>2, <1>3 DEF MarkSent

LEMMA AttemptClosed ==
  ASSUME TypeOK, NEW d, NEW n, NEW b \in BOOLEAN,
         NEW status \in {"succeeded", "failed", "skipped"},
         IF b THEN CloseAttempt(d, n, status) ELSE UNCHANGED attempt
  PROVE  attempt' \in [Devices -> [1..MaxAttempts -> AttemptStatus]]
<1>1. status \in AttemptStatus
  BY DEF AttemptStatus, Finished
<1>2. CASE attempt' = attempt
  BY <1>2 DEF TypeOK
<1>3. CASE attempt' = [attempt EXCEPT ![d][n] = status]
  BY <1>1, <1>3, AttemptChanges
<1> QED
  BY <1>2, <1>3 DEF CloseAttempt

LEMMA RetryingIsBoolean ==
  ASSUME TypeOK, NEW w \in Workers
  PROVE  loop[w].retrying \in BOOLEAN /\ poll.retrying \in BOOLEAN
BY DEF TypeOK, Loop, Polling

\* a loop goes on with the target that it has, all else as it was
LEMMA GoesOnKept ==
  ASSUME IInv, NEW w \in Workers, loop[w].pc \in Holding, NEW new \in Loop,
         loop' = [loop EXCEPT ![w] = new],
         new.only = loop[w].only, new.at = loop[w].at, new.seen = loop[w].seen,
         new.pc \in Holding, LoopKnows(new, central'), CentralGrows,
         attempt' \in [Devices -> [1..MaxAttempts -> AttemptStatus]],
         UNCHANGED <<rollout, autoRetry, target, poll, listed, crashes, switches>>
  PROVE  IInv'
<1>1. RowsMove
  BY RowsAlone
<1>2. \A d \in Devices : Has(w, d) => new.seen[d] # 0
  BY DEF Has, Holding
<1>3. rollout' \in {"approved", "active", "paused", "completed", "cancelled"}
  BY DEF IInv, TypeOK
<1> QED
  BY <1>1, <1>2, <1>3, LoopStepKept

LEMMA SendKept ==
  ASSUME IInv, NEW w \in Workers, Send(w)
  PROVE  IInv'
<1> DEFINE d == loop[w].at
           saving == [loop[w] EXCEPT !.pc = "save", !.command = Len(central[d]) + 1]
           deciding == [loop[w] EXCEPT !.pc = "decide", !.failure = "unavailable"]
<1>1. TypeOK /\ loop[w].pc \in Holding
  BY DEF IInv, Send, Holding
<1>2. d \in Devices /\ loop[w].seen[d] # 0
  BY <1>1, Holds
<1>3. central[d] \in Seq(Outcomes) /\ "open" \in Outcomes
  BY <1>1, <1>2 DEF TypeOK, Outcomes
<1>4. central' = [central EXCEPT ![d] = Append(central[d], "open")]
  BY DEF Send
<1>5. /\ Append(central[d], "open") \in Seq(Outcomes)
      /\ DOMAIN Append(central[d], "open") = 1..(Len(central[d]) + 1)
      /\ DOMAIN central[d] = 1..Len(central[d])
      /\ Len(central[d]) \in Nat
  BY <1>3
<1>6. central'[d] = Append(central[d], "open") /\ \A e \in Devices : e # d => central'[e] = central[e]
  BY <1>1, <1>2, <1>4 DEF TypeOK
<1>7. CentralGrows
  <2>1. central' \in [Devices -> Seq(Outcomes)]
    BY <1>1, <1>4, <1>5 DEF TypeOK
  <2>2. DOMAIN central[d] \subseteq DOMAIN central'[d]
    BY <1>5, <1>6
  <2> QED
    BY <1>6, <2>1, <2>2 DEF CentralGrows
<1>8. attempt' \in [Devices -> [1..MaxAttempts -> AttemptStatus]]
  BY <1>1, AttemptBegun, RetryingIsBoolean DEF Send
<1>9. UNCHANGED <<rollout, autoRetry, target, poll, listed, crashes, switches>>
  BY DEF Send
<1>10. CASE loop' = [loop EXCEPT ![w].pc = "save", ![w].command = Len(central[d]) + 1]
  <2>1. loop' = [loop EXCEPT ![w] = saving]
    BY <1>10
  <2>2. Len(central[d]) + 1 \in Nat
    BY <1>5
  <2>3. saving \in Loop
    BY <1>1, <2>2, LoopTyped DEF Loop
  <2>4. /\ saving.only = loop[w].only /\ saving.at = loop[w].at /\ saving.seen = loop[w].seen
        /\ saving.pc = "save" /\ saving.command = Len(central[d]) + 1
    BY <1>1, LoopTyped DEF Loop
  <2>5. Len(central[d]) + 1 \in DOMAIN central'[d]
    BY <1>5, <1>6
  <2> HIDE DEF saving
  <2>6. LoopKnows(saving, central') /\ saving.pc \in Holding
    BY <1>2, <2>4, <2>5 DEF LoopKnows, Holding
  <2> HIDE DEF d
  <2> QED
    BY <1>1, <1>7, <1>8, <1>9, <2>1, <2>3, <2>4, <2>6, GoesOnKept
<1>11. CASE loop' = [loop EXCEPT ![w].pc = "decide", ![w].failure = "unavailable"]
  <2>1. loop' = [loop EXCEPT ![w] = deciding]
    BY <1>11
  <2>2. deciding \in Loop
    BY <1>1, LoopTyped DEF Loop
  <2>3. /\ deciding.only = loop[w].only /\ deciding.at = loop[w].at /\ deciding.seen = loop[w].seen
        /\ deciding.pc = "decide"
    BY <1>1, LoopTyped DEF Loop
  <2> HIDE DEF deciding
  <2>4. LoopKnows(deciding, central') /\ deciding.pc \in Holding
    BY <1>2, <2>3 DEF LoopKnows, Holding
  <2> HIDE DEF d
  <2> QED
    BY <1>1, <1>7, <1>8, <1>9, <2>1, <2>2, <2>3, <2>4, GoesOnKept
<1> QED
  BY <1>10, <1>11 DEF Send

LEMMA SendInVainKept ==
  ASSUME IInv, NEW w \in Workers, SendInVain(w)
  PROVE  IInv'
<1>1. TypeOK /\ loop[w].pc \in Holding
  BY DEF IInv, SendInVain, Holding
<1>2. PICK failure \in {"unavailable", "rejected"} :
        loop' = [loop EXCEPT ![w].pc = "decide", ![w].failure = failure]
  BY DEF SendInVain
<1> DEFINE new == [loop[w] EXCEPT !.pc = "decide", !.failure = failure]
<1>3. new \in Loop
  BY <1>1, LoopTyped DEF Loop
<1>4. /\ new.only = loop[w].only /\ new.at = loop[w].at /\ new.seen = loop[w].seen
      /\ new.pc = "decide"
  BY <1>1, LoopTyped DEF Loop
<1>5. loop' = [loop EXCEPT ![w] = new]
  BY <1>2
<1>6. attempt' \in [Devices -> [1..MaxAttempts -> AttemptStatus]]
  BY <1>1, AttemptBegun, RetryingIsBoolean DEF SendInVain
<1>7. UNCHANGED <<rollout, autoRetry, target, central, poll, listed, crashes, switches>>
  BY DEF SendInVain
<1>8. CentralGrows
  BY <1>7, CentralAlone
<1> HIDE DEF new
<1>9. LoopKnows(new, central') /\ new.pc \in Holding
  BY <1>1, <1>4, Holds DEF LoopKnows, Holding
<1> QED
  BY <1>1, <1>3, <1>4, <1>5, <1>6, <1>7, <1>8, <1>9, GoesOnKept

\* the row gets a command that the central server has
LEMMA SaveCommandKept ==
  ASSUME IInv, NEW w \in Workers, SaveCommand(w)
  PROVE  IInv'
<1> DEFINE d == loop[w].at
           row == [NoRetry(target[d]) EXCEPT !.command = loop[w].command]
<1>1. TypeOK /\ loop[w].pc \in Holding /\ loop[w].pc = "save"
  BY DEF IInv, SaveCommand, Holding
<1>2. d \in Devices /\ loop[w].command \in DOMAIN central[d]
  BY <1>1, Holds DEF IInv, LoopsKnow, LoopKnows
<1>3. loop[w].command \in Nat /\ loop[w].command # 0
  BY <1>1, <1>2 DEF TypeOK
<1>4. NoRetry(target[d]) \in Target /\ NoRetry(target[d]).status = target[d].status
  BY <1>1, <1>2, RetryRows DEF TypeOK
<1>5. row \in Target
  BY <1>3, <1>4 DEF Target
<1>6. row.command = loop[w].command /\ row.status = target[d].status
  BY <1>4 DEF Target
<1>7. target' = [target EXCEPT ![d] = row]
  BY DEF SaveCommand
<1>8. UNCHANGED <<rollout, autoRetry, central, poll, listed, crashes, switches>>
  BY DEF SaveCommand
<1>9. target'[d] = row
  BY <1>1, <1>2, <1>7 DEF TypeOK
<1>10. attempt' \in [Devices -> [1..MaxAttempts -> AttemptStatus]]
  BY <1>1, AttemptSent, RetryingIsBoolean DEF SaveCommand
<1>11. CentralGrows
  BY <1>8, CentralAlone
<1> HIDE DEF row
<1>12. ~Loose(row)
  BY <1>3, <1>6 DEF Loose
<1>13. RowsMove
  BY <1>2, <1>5, <1>6, <1>7, <1>8, <1>11, <1>12, RowChanges
<1>14. \A e \in Devices : Loose(target'[e]) => e # d
  BY <1>9, <1>12
<1> DEFINE new == [loop[w] EXCEPT !.pc = "next", !.command = 0, !.seen[d] = 0, !.at = NoDevice]
<1>15. 0 \in 0..MaxAttempts
  BY AttemptsArePositive
<1>16. new \in Loop /\ new.pc = "next" /\ new.only = loop[w].only
  BY <1>1, <1>15, LoopTyped DEF Loop
<1>17. new.seen = [loop[w].seen EXCEPT ![d] = 0]
  BY <1>1, LoopTyped DEF Loop
<1>18. loop' = [loop EXCEPT ![w] = new]
  BY DEF SaveCommand
<1> HIDE DEF new
<1>19. LoopKnows(new, central')
  BY <1>16 DEF LoopKnows, Holding
<1>20. \A e \in Devices : e # d => new.seen[e] = loop[w].seen[e]
  BY <1>1, <1>17, LoopTyped
<1>21. \A e \in Devices : Has(w, e) => loop[w].seen[e] # 0
  BY <1>1 DEF Has
<1>22. \A e \in Devices : Loose(target'[e]) /\ Has(w, e) => new.seen[e] # 0
  BY <1>14, <1>20, <1>21
<1>23. rollout' \in {"approved", "active", "paused", "completed", "cancelled"}
  BY <1>1, <1>8 DEF TypeOK
<1> HIDE DEF d
<1> QED
  BY <1>8, <1>10, <1>11, <1>13, <1>16, <1>18, <1>19, <1>22, <1>23, LoopStepKept

LEMMA DecideAfterPushKept ==
  ASSUME IInv, NEW w \in Workers, DecideAfterPush(w)
  PROVE  IInv'
<1> DEFINE d == loop[w].at
<1>1. TypeOK /\ loop[w].pc \in Holding
  BY DEF IInv, DecideAfterPush, Holding
<1>2. d \in Devices /\ loop[w].seen[d] # 0
  BY <1>1, Holds
<1>3. attempt' \in [Devices -> [1..MaxAttempts -> AttemptStatus]]
  BY <1>1, AttemptClosed, RetryingIsBoolean DEF DecideAfterPush
<1>4. UNCHANGED <<rollout, autoRetry, central, poll, listed, crashes, switches>>
  BY DEF DecideAfterPush
<1>5. CentralGrows
  BY <1>4, CentralAlone
<1>6. CASE Schedule(d) /\ Continue(w)
  <2>1. RowsMove /\ \A e \in Devices : Loose(target'[e]) => e # d
    BY <1>2, <1>5, <1>6, Scheduling
  <2> QED
    BY <1>1, <1>3, <1>4, <1>6, <2>1, ContinueKept DEF TypeOK
<1>7. CASE Goto(w, "record") /\ UNCHANGED target
  <2> DEFINE new == [loop[w] EXCEPT !.pc = "record"]
  <2>1. new \in Loop
    BY <1>1, LoopTyped DEF Loop
  <2>2. /\ new.only = loop[w].only /\ new.at = loop[w].at /\ new.seen = loop[w].seen
        /\ new.pc = "record"
    BY <1>1, LoopTyped DEF Loop
  <2>3. loop' = [loop EXCEPT ![w] = new]
    BY <1>7 DEF Goto
  <2> HIDE DEF new
  <2>4. LoopKnows(new, central') /\ new.pc \in Holding
    BY <1>2, <2>2 DEF LoopKnows, Holding
  <2> HIDE DEF d
  <2> QED
    BY <1>1, <1>3, <1>4, <1>5, <1>7, <2>1, <2>2, <2>3, <2>4, GoesOnKept
<1> QED
  BY <1>6, <1>7 DEF DecideAfterPush

-----------------------------------------------------------------------------
(* The poll *)

LEMMA PollTyped ==
  ASSUME IInv
  PROVE  /\ poll \in Polling
         /\ poll.seen \in [Devices -> 0..MaxAttempts]
         /\ poll.value \in [Devices -> Nat]
         /\ poll.claiming \in BOOLEAN
         /\ poll.retrying \in BOOLEAN
BY DEF IInv, TypeOK, Polling

\* a target less to ask about
LEMMA DropKnows ==
  ASSUME IInv, NEW d
  PROVE  /\ Drop(d) \in Polling
         /\ Drop(d).pc = poll.pc /\ Drop(d).value = poll.value
         /\ Drop(d).claiming = poll.claiming
         /\ \A e \in Devices : Drop(d).seen[e] # 0 => poll.seen[e] # 0
<1>1. 0 \in 0..MaxAttempts
  BY AttemptsArePositive
<1>2. Drop(d) \in Polling
  BY <1>1, PollTyped DEF Drop, Polling
<1>3. /\ Drop(d).pc = poll.pc /\ Drop(d).value = poll.value
      /\ Drop(d).claiming = poll.claiming
  BY PollTyped DEF Drop, Polling
<1>4. Drop(d).seen = [poll.seen EXCEPT ![d] = 0]
  BY PollTyped DEF Drop, Polling
<1> QED
  BY <1>2, <1>3, <1>4, PollTyped

\* the poll goes on to another step, having dropped a target or not
LEMMA PollGoes ==
  ASSUME IInv, NEW p \in Polling,
         NEW pc \in {"idle", "ask", "decide", "due", "push", "record"},
         \/ p = poll
         \/ \E d \in Devices : p = Drop(d),
         pc \in {"idle", "ask", "decide"} => ~poll.claiming,
         pc \in {"decide", "record"} => p.at \in Devices
  PROVE  /\ [p EXCEPT !.pc = pc] \in Polling
         /\ PollKnows([p EXCEPT !.pc = pc], central)
<1> DEFINE q == [p EXCEPT !.pc = pc]
<1>1. q \in Polling
  BY DEF Polling
<1>2. /\ q.pc = pc /\ q.at = p.at /\ q.seen = p.seen
      /\ q.value = p.value /\ q.claiming = p.claiming
  BY DEF Polling
<1>3. /\ p.value = poll.value /\ p.claiming = poll.claiming
      /\ \A e \in Devices : p.seen[e] # 0 => poll.seen[e] # 0
  BY DropKnows
<1>4. ~poll.claiming =>
        \A e \in Devices : poll.seen[e] # 0 => poll.value[e] \in DOMAIN central[e]
  BY DEF IInv, PollKnows
<1> HIDE DEF q
<1>5. PollKnows(q, central)
  BY <1>2, <1>3, <1>4 DEF PollKnows
<1> QED
  BY <1>1, <1>5 DEF q

\* ... and all else is as it was
LEMMA PollOnlyKept ==
  ASSUME IInv, poll' \in Polling, PollKnows(poll', central),
         UNCHANGED <<rollout, autoRetry, target, attempt, central, loop, listed, crashes, switches>>
  PROVE  IInv'
<1>1. RowsMove
  BY CentralAlone, RowsAlone
<1> QED
  BY <1>1, PollStepKept DEF IInv, TypeOK

LEMMA PollStartKept ==
  ASSUME IInv, PollStart
  PROVE  IInv'
<1> DEFINE sent == IF rollout \in {"active", "paused"}
                   THEN {d \in Pending : target[d].command # 0} ELSE {}
           value == [d \in Devices |-> IF d \in sent THEN target[d].command ELSE 0]
           new == [poll EXCEPT !.pc = "ask", !.seen = Seen(sent), !.retrying = autoRetry,
                               !.value = value]
<1>1. /\ Seen(sent) \in [Devices -> 0..MaxAttempts]
      /\ \A d \in Devices : Seen(sent)[d] # 0 <=> d \in sent
  BY SeenTyped DEF IInv
<1>2. value \in [Devices -> Nat]
  BY RowTyped DEF IInv
<1>3. \A d \in Devices : d \in sent => value[d] = target[d].command /\ target[d].command # 0
  OBVIOUS
<1>4. autoRetry \in BOOLEAN /\ poll.pc = "idle" /\ ~poll.claiming
  BY DEF IInv, TypeOK, PollStart, PollKnows
<1>5. poll' = new
  BY DEF PollStart
<1>6. UNCHANGED <<rollout, autoRetry, target, attempt, central, loop, listed, crashes, switches>>
  BY DEF PollStart
<1> HIDE DEF value, sent
<1>7. new \in Polling
  BY <1>1, <1>2, <1>4, PollTyped DEF Polling
<1>8. new.pc = "ask" /\ new.seen = Seen(sent) /\ new.value = value /\ ~new.claiming
  BY <1>4, PollTyped DEF Polling
<1> HIDE DEF new
<1>9. PollKnows(new, central)
  BY <1>1, <1>3, <1>8 DEF PollKnows, IInv, RowsName
<1> QED
  BY <1>5, <1>6, <1>7, <1>9, PollOnlyKept

LEMMA PollLearnsNothingKept ==
  ASSUME IInv, NEW d \in Devices, PollLearnsNothing(d) \/ ClaimNothing(d)
  PROVE  IInv'
<1>1. poll' = Drop(d) /\ poll.pc \in {"ask", "due"}
  BY DEF PollLearnsNothing, ClaimNothing
<1>2. UNCHANGED <<rollout, autoRetry, target, attempt, central, loop, listed, crashes, switches>>
  BY DEF PollLearnsNothing, ClaimNothing
<1>3. PollKnows(Drop(d), central)
  BY <1>1, DropKnows DEF PollKnows, IInv
<1> QED
  BY <1>1, <1>2, <1>3, DropKnows, PollOnlyKept

LEMMA PollLearnsKept ==
  ASSUME IInv, NEW d \in Devices, PollLearns(d)
  PROVE  IInv'
<1> DEFINE outcome == central[d][poll.value[d]]
           pc == IF outcome # "success" /\ poll.retrying THEN "decide" ELSE "record"
           new == [poll EXCEPT !.at = d, !.outcome = outcome, !.pc = pc]
<1>1. ~poll.claiming /\ poll.seen[d] # 0
  BY DEF PollLearns, Listed, IInv, PollKnows
<1>2. poll.value[d] \in DOMAIN central[d] /\ central[d] \in Seq(Outcomes)
  BY <1>1 DEF IInv, TypeOK, PollKnows
<1>3. outcome \in Outcomes
  BY <1>2
<1>4. poll' = new
  BY DEF PollLearns
<1>5. UNCHANGED <<rollout, autoRetry, target, attempt, central, loop, listed, crashes, switches>>
  BY DEF PollLearns
<1>6. pc \in {"decide", "record"}
  OBVIOUS
<1> HIDE DEF outcome, pc
<1>7. new \in Polling
  BY <1>3, <1>6, PollTyped DEF Polling
<1>8. /\ new.pc = pc /\ new.at = d /\ new.seen = poll.seen
      /\ new.value = poll.value /\ new.claiming = poll.claiming
  BY PollTyped DEF Polling
<1> HIDE DEF new
<1>9. PollKnows(new, central)
  BY <1>1, <1>6, <1>8 DEF PollKnows, IInv
<1> QED
  BY <1>4, <1>5, <1>7, <1>9, PollOnlyKept

LEMMA DecideAfterOutcomeKept ==
  ASSUME IInv, DecideAfterOutcome
  PROVE  IInv'
<1> DEFINE d == poll.at
<1>1. d \in Devices /\ ~poll.claiming
  BY DEF DecideAfterOutcome, IInv, PollKnows
<1>2. attempt' \in [Devices -> [1..MaxAttempts -> AttemptStatus]]
  <2>1. CloseAttempt(d, poll.seen[d], IF Skipping THEN "skipped" ELSE "failed")
    BY DEF DecideAfterOutcome
  <2>2. (IF Skipping THEN "skipped" ELSE "failed") \in {"succeeded", "failed", "skipped"}
    OBVIOUS
  <2>3. IF TRUE THEN CloseAttempt(d, poll.seen[d], IF Skipping THEN "skipped" ELSE "failed")
                ELSE UNCHANGED attempt
    BY <2>1
  <2> HIDE DEF d
  <2> QED
    BY <2>2, <2>3, AttemptClosed DEF IInv
<1>3. UNCHANGED <<rollout, autoRetry, central, loop, listed, crashes, switches>>
  BY DEF DecideAfterOutcome
<1>4. CentralGrows
  BY <1>3, CentralAlone
<1>5. CASE Schedule(d) /\ poll' = [Drop(d) EXCEPT !.pc = "ask"]
  <2>1. RowsMove
    BY <1>1, <1>4, <1>5, Scheduling
  <2>2. poll' \in Polling /\ PollKnows(poll', central)
    BY <1>1, <1>5, DropKnows, PollGoes
  <2> QED
    BY <1>2, <1>3, <2>1, <2>2, PollStepKept DEF IInv, TypeOK
<1>6. CASE UNCHANGED target /\ poll' = [poll EXCEPT !.pc = "record"]
  <2>1. RowsMove
    BY <1>4, <1>6, RowsAlone
  <2>2. poll' \in Polling /\ PollKnows(poll', central)
    BY <1>1, <1>6, PollTyped, PollGoes
  <2> QED
    BY <1>2, <1>3, <2>1, <2>2, PollStepKept DEF IInv, TypeOK
<1> QED
  BY <1>5, <1>6 DEF DecideAfterOutcome

LEMMA RecordOutcomeKept ==
  ASSUME IInv, RecordOutcome
  PROVE  IInv'
<1> DEFINE d == poll.at
<1>1. d \in Devices
  BY DEF RecordOutcome, IInv, PollKnows
<1>2. attempt' \in [Devices -> [1..MaxAttempts -> AttemptStatus]]
  <2>1. \/ CloseAttempt(d, Latest(d), "succeeded")
        \/ UNCHANGED attempt
    BY DEF RecordOutcome
  <2> HIDE DEF d
  <2>2. CASE CloseAttempt(d, Latest(d), "succeeded")
    <3>1. IF TRUE THEN CloseAttempt(d, Latest(d), "succeeded") ELSE UNCHANGED attempt
      BY <2>2
    <3> QED
      BY <3>1, AttemptClosed DEF IInv
  <2> QED
    BY <2>1, <2>2 DEF IInv, TypeOK
<1>3. UNCHANGED <<autoRetry, central, loop, listed, crashes, switches>>
  BY DEF RecordOutcome
<1>4. Decided(d)
  <2>1. CASE Skip(d)
    BY <1>1, <1>3, <2>1, CentralAlone, Skipped
  <2>2. ASSUME NEW result \in {"success", "failed"}, Record(d, result)
        PROVE  Decided(d)
    BY <1>1, <1>3, <2>2, CentralAlone, Recording
  <2> QED
    BY <2>1, <2>2 DEF RecordOutcome
<1>5. poll' \in Polling /\ PollKnows(poll', central)
  <2>1. poll' = [Drop(d) EXCEPT !.pc = IF poll.claiming THEN "due" ELSE "ask"]
    BY DEF RecordOutcome
  <2>2. CASE poll.claiming
    BY <1>1, <2>1, <2>2, DropKnows, PollGoes
  <2>3. CASE ~poll.claiming
    BY <1>1, <2>1, <2>3, DropKnows, PollGoes
  <2> QED
    BY <2>2, <2>3
<1> QED
  BY <1>2, <1>3, <1>4, <1>5, PollStepKept DEF Decided

LEMMA FindDueKept ==
  ASSUME IInv, FindDue
  PROVE  IInv'
<1> DEFINE due == {d \in Pending : rollout = "active" /\ Due(d)}
           value == [d \in Devices |-> IF d \in due THEN target[d].retry ELSE 0]
           new == [poll EXCEPT !.pc = "due", !.claiming = TRUE, !.seen = Seen(due),
                               !.retrying = autoRetry, !.value = value]
<1>1. Seen(due) \in [Devices -> 0..MaxAttempts]
  BY SeenTyped DEF IInv
<1>2. value \in [Devices -> Nat]
  BY RowTyped DEF IInv
<1>3. autoRetry \in BOOLEAN
  BY DEF IInv, TypeOK
<1>4. poll' = new
  BY DEF FindDue
<1>5. UNCHANGED <<rollout, autoRetry, target, attempt, central, loop, listed, crashes, switches>>
  BY DEF FindDue
<1> HIDE DEF value, due
<1>6. new \in Polling
  BY <1>1, <1>2, <1>3, PollTyped DEF Polling
<1>7. new.pc = "due" /\ new.claiming
  BY PollTyped DEF Polling
<1> HIDE DEF new
<1>8. PollKnows(new, central)
  BY <1>7 DEF PollKnows
<1> QED
  BY <1>4, <1>5, <1>6, <1>8, PollOnlyKept

LEMMA PollGoesOnKept ==
  ASSUME IInv, PollGoesOn \/ PollEnd
  PROVE  IInv'
<1>1. UNCHANGED <<rollout, autoRetry, target, attempt, central, loop, listed, crashes, switches>>
  BY DEF PollGoesOn, PollEnd
<1>2. CASE poll' = [poll EXCEPT !.pc = "due"]
  BY <1>1, <1>2, PollTyped, PollGoes, PollOnlyKept
<1>3. CASE poll' = IdlePoll
  <2>1. PollKnows(IdlePoll, central)
    BY IdleTyped DEF PollKnows
  <2> QED
    BY <1>1, <1>3, <2>1, IdleTyped, PollOnlyKept
<1> QED
  BY <1>2, <1>3 DEF PollGoesOn, PollEnd

-----------------------------------------------------------------------------
(* Claims *)

LEMMA StuckClosed ==
  ASSUME IInv, NEW d, NEW n
  PROVE  CloseStuck(d, n) \in [Devices -> [1..MaxAttempts -> AttemptStatus]]
<1>1. "failed" \in AttemptStatus
  BY DEF AttemptStatus, Finished
<1>2. [attempt EXCEPT ![d][n] = "failed"] \in [Devices -> [1..MaxAttempts -> AttemptStatus]]
  BY <1>1 DEF IInv, TypeOK
<1> QED
  BY <1>2 DEF CloseStuck, IInv, TypeOK

\* a claim leaves the row with a retry: the lease
LEMMA Claiming ==
  ASSUME IInv, CentralGrows, NEW d \in Devices, NEW n \in 1..MaxAttempts,
         \/ target' = [target EXCEPT ![d] = Lease(@)]
         \/ target' = [target EXCEPT ![d] = [Lease(@) EXCEPT !.attempts = n]]
  PROVE  RowsMove
<1>1. target[d] \in Target
  BY RowTyped DEF IInv
<1>2. target[d].command # 0 => target[d].command \in DOMAIN central'[d]
  BY DEF IInv, RowsName, CentralGrows
<1> DEFINE leased == Lease(target[d])
           raised == [Lease(target[d]) EXCEPT !.attempts = n]
<1>3. /\ leased \in Target /\ leased.command = target[d].command
      /\ leased.status = target[d].status /\ leased.retry # 0
  BY <1>1, RetryRows DEF Lease
<1>4. /\ raised \in Target /\ raised.command = leased.command
      /\ raised.status = leased.status /\ raised.retry = leased.retry
  BY <1>3 DEF Target
<1>5. CASE target' = [target EXCEPT ![d] = leased]
  <2> HIDE DEF leased
  <2> QED
    BY <1>2, <1>3, <1>5, RowChanges DEF Loose
<1>6. CASE target' = [target EXCEPT ![d] = raised]
  <2> HIDE DEF leased, raised
  <2> QED
    BY <1>2, <1>3, <1>4, <1>6, RowChanges DEF Loose
<1> QED
  BY <1>5, <1>6

LEMMA ClaimToFinishKept ==
  ASSUME IInv, NEW d \in Devices, ClaimToFinish(d)
  PROVE  IInv'
<1> DEFINE outcome == IF Latest(d) # 0 /\ attempt[d][Latest(d)] = "skipped"
                      THEN "skipped" ELSE "failed"
           new == [poll EXCEPT !.pc = "record", !.at = d, !.outcome = outcome]
<1>1. UNCHANGED <<rollout, autoRetry, central, loop, listed, crashes, switches>>
  BY DEF ClaimToFinish
<1>2. 1 \in 1..MaxAttempts
  BY AttemptsArePositive
<1>3. RowsMove
  BY <1>1, <1>2, CentralAlone, Claiming DEF ClaimToFinish
<1>4. attempt' \in [Devices -> [1..MaxAttempts -> AttemptStatus]]
  BY StuckClosed DEF ClaimToFinish
<1>5. poll' = new
  BY DEF ClaimToFinish
<1>6. outcome \in Outcomes
  BY DEF Outcomes
<1> HIDE DEF outcome
<1>7. new \in Polling
  BY <1>6, PollTyped DEF Polling
<1>8. /\ new.pc = "record" /\ new.at = d /\ new.seen = poll.seen
      /\ new.value = poll.value /\ new.claiming = poll.claiming
  BY PollTyped DEF Polling
<1> HIDE DEF new
<1>9. PollKnows(new, central)
  BY <1>8 DEF PollKnows, IInv
<1> QED
  BY <1>1, <1>3, <1>4, <1>5, <1>7, <1>9, PollStepKept DEF IInv, TypeOK

LEMMA ClaimToSendKept ==
  ASSUME IInv, NEW d \in Devices, ClaimToSend(d)
  PROVE  IInv'
<1> DEFINE n == poll.seen[d] + 1
           closed == CloseStuck(d, poll.seen[d])
           new == [IdleLoop EXCEPT !.pc = "read", !.only = d]
<1>1. UNCHANGED <<rollout, autoRetry, central, listed, crashes, switches>>
  BY DEF ClaimToSend
<1>2. n \in 1..MaxAttempts
  BY PollTyped, AttemptsArePositive DEF ClaimToSend
<1>3. CentralGrows
  BY <1>1, CentralAlone
<1>4. RowsMove
  BY <1>2, <1>3, Claiming DEF ClaimToSend
<1>5. attempt' \in [Devices -> [1..MaxAttempts -> AttemptStatus]]
  <2>1. closed \in [Devices -> [1..MaxAttempts -> AttemptStatus]]
    BY StuckClosed
  <2>2. "sent" \in AttemptStatus
    BY DEF AttemptStatus
  <2>3. attempt' = IF closed[d][n] = "none" THEN [closed EXCEPT ![d][n] = "sent"] ELSE closed
    BY DEF ClaimToSend
  <2> HIDE DEF closed, n
  <2>4. [closed EXCEPT ![d][n] = "sent"] \in [Devices -> [1..MaxAttempts -> AttemptStatus]]
    BY <2>1, <2>2
  <2> QED
    BY <2>1, <2>3, <2>4
<1>6. PollStays
  <2>1. poll' = [Drop(d) EXCEPT !.pc = "push"]
    BY DEF ClaimToSend
  <2>2. poll' \in Polling /\ PollKnows(poll', central)
    BY <2>1, DropKnows, PollGoes
  <2> QED
    BY <1>1, <2>2 DEF PollStays
<1>7. loop' = [loop EXCEPT ![Poll] = new]
  BY DEF ClaimToSend, Start
<1>8. new \in Loop /\ new.pc = "read"
  BY IdleTyped DEF Loop
<1> HIDE DEF new
<1>9. LoopKnows(new, central')
  BY <1>8 DEF LoopKnows, Holding
<1>10. LoopsStay
  BY <1>3, <1>7, <1>8, <1>9, LoopChanges, WorkersAre, PollIsNoRequest
<1>11. Remembers
  BY <1>1, <1>7, <1>8, LoopRemembers, WorkersAre
<1>12. OthersTyped
  BY <1>1, <1>5 DEF IInv, TypeOK, OthersTyped
<1> QED
  BY <1>3, <1>4, <1>6, <1>10, <1>11, <1>12, StepKept

-----------------------------------------------------------------------------
(* The others *)

LEMMA CancelKept ==
  ASSUME IInv, Cancel
  PROVE  IInv'
<1>1. UNCHANGED <<autoRetry, attempt, central, loop, poll, crashes, switches>>
  BY DEF Cancel
<1>2. CentralGrows
  BY <1>1, CentralAlone
<1>3. ASSUME NEW d \in Devices
      PROVE  target'[d] \in Target /\ RowMoves(d)
  <2>1. target[d] \in Target /\ (target[d].command # 0 => target[d].command \in DOMAIN central'[d])
    BY <1>1, RowTyped DEF IInv, RowsName
  <2>2. CASE target'[d] = target[d]
    BY <2>1, <2>2 DEF RowMoves
  <2>3. CASE target'[d] = [target[d] EXCEPT !.status = "failed"]
    <3>1. /\ target'[d] \in Target
          /\ target'[d].command = target[d].command /\ target'[d].retry = target[d].retry
          /\ target'[d].attempts = target[d].attempts /\ target'[d].status = "failed"
      BY <2>1, <2>3 DEF Target
    <3> QED
      BY <2>1, <3>1 DEF RowMoves, Loose
  <2> QED
    BY <2>2, <2>3 DEF Cancel
<1>4. target' = [d \in Devices |-> target'[d]]
  BY DEF Cancel
<1>5. RowsMove
  BY <1>3, <1>4 DEF RowsMove
<1>6. rollout' = "cancelled" /\ listed' \subseteq Devices
  BY DEF Cancel
<1>7. LoopsStay /\ PollStays /\ Remembers
  BY <1>1, <1>2, <1>6, LoopsAlone, PollAlone, LoopsRemember
<1>8. OthersTyped
  BY <1>1, <1>6 DEF IInv, TypeOK, OthersTyped
<1> QED
  BY <1>2, <1>5, <1>7, <1>8, StepKept

LEMMA SwitchKept ==
  ASSUME IInv, Switch
  PROVE  IInv'
<1>1. UNCHANGED <<rollout, target, attempt, central, loop, poll, listed, crashes>>
  BY DEF Switch
<1>2. CentralGrows
  BY <1>1, CentralAlone
<1>3. RowsMove /\ LoopsStay /\ PollStays /\ Remembers
  BY <1>1, <1>2, RowsAlone, LoopsAlone, PollAlone, LoopsRemember
<1>4. switches' \in 0..MaxSwitches /\ autoRetry' \in BOOLEAN
  BY BoundsAreNumbers DEF Switch, IInv, TypeOK
<1>5. OthersTyped
  BY <1>1, <1>4 DEF IInv, TypeOK, OthersTyped
<1> QED
  BY <1>2, <1>3, <1>5, StepKept

LEMMA TimePassesKept ==
  ASSUME IInv, NEW d \in Devices, TimePasses(d)
  PROVE  IInv'
<1> DEFINE new == [target[d] EXCEPT !.due = TRUE]
<1>1. UNCHANGED <<rollout, autoRetry, attempt, central, loop, poll, listed, crashes, switches>>
  BY DEF TimePasses
<1>2. CentralGrows
  BY <1>1, CentralAlone
<1>3. target' = [target EXCEPT ![d] = new]
  BY DEF TimePasses
<1>4. /\ new \in Target /\ new.command = target[d].command /\ new.retry = target[d].retry
      /\ new.attempts = target[d].attempts /\ new.status = target[d].status
  BY RowTyped DEF IInv, Target
<1>5. target[d].command # 0 => target[d].command \in DOMAIN central'[d]
  BY <1>1 DEF IInv, RowsName
<1> HIDE DEF new
<1>6. RowsMove
  BY <1>2, <1>3, <1>4, <1>5, RowChanges DEF Loose
<1>7. LoopsStay /\ PollStays /\ Remembers
  BY <1>1, <1>2, LoopsAlone, PollAlone, LoopsRemember
<1>8. OthersTyped
  BY <1>1 DEF IInv, TypeOK, OthersTyped
<1> QED
  BY <1>2, <1>6, <1>7, <1>8, StepKept

LEMMA CommandEndsKept ==
  ASSUME IInv, NEW d \in Devices, CommandEnds(d)
  PROVE  IInv'
<1>1. UNCHANGED <<rollout, autoRetry, target, attempt, loop, poll, listed, crashes, switches>>
  BY DEF CommandEnds
<1>2. PICK c \in DOMAIN central[d], outcome \in Outcomes \ {"open"} :
        central' = [central EXCEPT ![d][c] = outcome]
  BY DEF CommandEnds
<1>3. central[d] \in Seq(Outcomes)
  BY DEF IInv, TypeOK
<1>4. [central[d] EXCEPT ![c] = outcome] \in Seq(Outcomes)
  BY <1>3
<1>5. DOMAIN [central[d] EXCEPT ![c] = outcome] = DOMAIN central[d]
  OBVIOUS
<1>6. \A e \in Devices : central'[e] = IF e = d THEN [central[d] EXCEPT ![c] = outcome]
                                       ELSE central[e]
  BY <1>2 DEF IInv, TypeOK
<1>7. central' \in [Devices -> Seq(Outcomes)]
  BY <1>2, <1>4 DEF IInv, TypeOK
<1>8. CentralGrows
  BY <1>5, <1>6, <1>7 DEF CentralGrows
<1>9. RowsMove /\ LoopsStay /\ PollStays /\ Remembers
  BY <1>1, <1>8, RowsAlone, LoopsAlone, PollAlone, LoopsRemember
<1>10. OthersTyped
  BY <1>1 DEF IInv, TypeOK, OthersTyped
<1> QED
  BY <1>8, <1>9, <1>10, StepKept

\* a restart forgets, but only what is in memory
LEMMA CrashKept ==
  ASSUME IInv, Crash
  PROVE  IInv'
<1>1. UNCHANGED <<rollout, autoRetry, target, attempt, central, listed, switches>>
  BY DEF Crash
<1>2. CentralGrows
  BY <1>1, CentralAlone
<1>3. RowsMove
  BY <1>1, <1>2, RowsAlone
<1>4. crashes' \in 0..MaxCrashes /\ crashes' # 0
  BY BoundsAreNumbers DEF Crash, IInv, TypeOK
<1>5. Remembers
  BY <1>4 DEF Remembers
<1>6. loop' = [w \in Workers |-> IdleLoop] /\ poll' = IdlePoll
  BY DEF Crash
<1>7. LoopKnows(IdleLoop, central') /\ PollKnows(IdlePoll, central')
  BY IdleTyped DEF LoopKnows, PollKnows, Holding
<1>8. LoopsStay
  BY <1>6, <1>7, IdleTyped, WorkersAre DEF LoopsStay, LoopsKnow, LoopsTakeAll
<1>9. PollStays
  BY <1>6, <1>7, IdleTyped DEF PollStays
<1>10. OthersTyped
  BY <1>1, <1>4 DEF IInv, TypeOK, OthersTyped
<1> QED
  BY <1>2, <1>3, <1>5, <1>8, <1>9, <1>10, StepKept

-----------------------------------------------------------------------------
(* Every step *)

LEMMA InitKept == Init => IInv
<1> SUFFICES ASSUME Init PROVE IInv
  OBVIOUS
<1> DEFINE row == [status |-> "pending", command |-> 0, attempts |-> 1,
                   retry |-> 0, sets |-> 0, due |-> FALSE]
<1>1. row \in Target
  BY AttemptsArePositive DEF Target
<1>2. \A d \in Devices : target[d] = row
  BY DEF Init
<1>3. target \in [Devices -> Target]
  BY <1>1 DEF Init
<1>4. attempt \in [Devices -> [1..MaxAttempts -> AttemptStatus]]
  BY DEF Init, AttemptStatus
<1>5. TypeOK
  BY <1>3, <1>4, IdleTyped, BoundsAreNumbers DEF Init, TypeOK
<1>6. LoopsKnow /\ LoopsTakeAll
  BY IdleTyped, WorkersAre DEF Init, LoopsKnow, LoopsTakeAll, LoopKnows, Holding
<1>7. PollKnows(poll, central)
  BY IdleTyped DEF Init, PollKnows
<1>8. RowsName /\ RetryNeverLost
  BY <1>2 DEF RowsName, RetryNeverLost, Pending
<1>9. RemembersAll
  BY DEF Init, RemembersAll, NobodyForgotten
<1> QED
  BY <1>5, <1>6, <1>7, <1>8, <1>9 DEF IInv

LEMMA NextKept == IInv /\ [Next]_vars => IInv'
<1> SUFFICES ASSUME IInv, [Next]_vars PROVE IInv'
  OBVIOUS
<1>1. ASSUME NEW w \in Workers, LoopStep(w) PROVE IInv'
  BY <1>1, ReadTargetsKept, NextTargetKept, RefuseKept, SendKept, SendInVainKept,
     SaveCommandKept, DecideAfterPushKept, RecordAfterPushKept DEF LoopStep
<1>2. CASE PollStep
  BY <1>2, PollStartKept, DecideAfterOutcomeKept, RecordOutcomeKept, FindDueKept,
     PollGoesOnKept, PollLearnsNothingKept, PollLearnsKept, ClaimToFinishKept,
     ClaimToSendKept DEF PollStep
<1>3. CASE UNCHANGED vars
  <2>1. UNCHANGED <<rollout, autoRetry, target, attempt, central, loop, poll, listed,
                    crashes, switches>>
    BY <1>3 DEF vars
  <2>2. poll \in Polling /\ PollKnows(poll, central)
    BY DEF IInv, TypeOK
  <2> QED
    BY <2>1, <2>2, PollOnlyKept
<1> QED
  BY <1>1, <1>2, <1>3, StartKept, CancelKept, SwitchKept, CrashKept, TimePassesKept,
     CommandEndsKept DEF Next

LEMMA InvAlways == Spec => []IInv
BY InitKept, NextKept, PTL DEF Spec

-----------------------------------------------------------------------------
(* Theorems *)

\* Rows, attempts, loops and poll keep their types; the poll asks about commands
\* that the central server has.
THEOREM DispatchTypes == Spec => []TypeOK
<1>1. IInv => TypeOK
  BY DEF IInv
<1> QED
  BY <1>1, InvAlways, PTL

\* The lease of claimOne: whatever overlaps, whatever answers are lost and however
\* often the backend restarts, a target that was sent again keeps a command or a
\* retry until it has its result.
THEOREM LeaseHolds == Spec => []RetryNeverLost
<1>1. IInv => RetryNeverLost
  BY DEF IInv
<1> QED
  BY <1>1, InvAlways, PTL

\* Only a restart forgets: before the first one a target of an active rollout has
\* a loop that will send it, a command the poll asks about, or a retry.
THEOREM OnlyRestartForgets == Spec => [](crashes = 0 => NobodyForgotten)
<1>1. IInv => (crashes = 0 => NobodyForgotten)
  BY DEF IInv, RemembersAll
<1> QED
  BY <1>1, InvAlways, PTL

-----------------------------------------------------------------------------
(* Who has a target in hand.  Two loops overlap when a rollout is resumed while *)
(* a loop from before its pause is still sending; both may then have the same    *)
(* targets before them (shared).  Any other target is in one hand, which is what *)
(* its attempts count and what its commands tell, but for those whose numbers    *)
(* were lost (unheard).                                                          *)

Waiting(row) == row.command = 0 /\ row.retry # 0
Live(outcome) == outcome \in {"open", "success"}

\* a loop lists targets once it has read them, serves one that it lists, and lists
\* no other than the one it was told of
LoopShape(c) ==
  /\ c.pc \in {"idle", "read"} => \A d \in Devices : c.seen[d] = 0
  /\ c.at # NoDevice => c.pc \in Holding
  /\ c.only # NoDevice => \A d \in Devices : c.seen[d] # 0 => d = c.only

\* the poll records or decides on what it lists; what it was told of a command
\* stays true
PollShape(p, cmds) ==
  /\ p.at # NoDevice => p.pc \in {"decide", "record"}
  /\ p.pc \in {"decide", "record"} => p.seen[p.at] # 0
  /\ p.pc \in {"due", "push"} => p.claiming
  /\ p.pc = "record" /\ p.claiming => ~Live(p.outcome)
  /\ p.pc = "decide" => p.outcome # "success"
  /\ p.pc \in {"decide", "record"} /\ ~p.claiming =>
       p.outcome # "open" /\ p.outcome = cmds[p.at][p.value[p.at]]

\* nobody sends before the release, and a closed rollout has decided all
RolloutShape ==
  /\ rollout = "approved" => \A l \in Loops : loop[l].pc = "idle"
  /\ rollout \in {"completed", "cancelled"} => Pending = {}

PollWaits == loop[Poll].pc # "idle" => poll.pc = "push" /\ loop[Poll].only # NoDevice

Shape ==
  /\ PollShape(poll, central) /\ RolloutShape /\ PollWaits
  /\ \A w \in Workers : LoopShape(loop[w])

\* no two loops have d before them
Alone(d) == \A l, m \in Loops : OnList(loop[l], d) /\ OnList(loop[m], d) => l = m

\* the retry of d is being sent or about to be read
Retries(c, d) == c.seen[d] # 0 \/ (c.pc = "read" /\ c.only = d)

\* the row tells whose target it is: the loops' while it is loose, the poll's while
\* it has a command or a retry
Theirs(d) ==
  /\ \A l \in Loops : loop[l].seen[d] # 0 => Loose(target[d])
  /\ Retries(loop[Poll], d) =>
       loop[Poll].only = d /\ Waiting(target[d]) /\ poll.seen[d] = 0
  /\ poll.seen[d] # 0 => IF poll.claiming THEN Waiting(target[d])
                         ELSE target[d].command # 0 /\ poll.value[d] = target[d].command
  /\ rollout # "cancelled" =>
       /\ \A w \in Workers : loop[w].seen[d] # 0 => d \in Pending
       /\ poll.seen[d] # 0 => d \in Pending

\* l is past the push of d
Past(c, d) == c.at = d /\ c.pc \in {"save", "decide", "record"}

\* the command of the current attempt of d may still be sent: by a loop that reads
\* or has read the loose row, or by the loop of the retry
MaySend(d) ==
  \/ /\ Loose(target[d])
     /\ d \in Pending \/ \E l \in Loops : loop[l].seen[d] # 0
     /\ \A l \in Loops : ~Past(loop[l], d)
  \/ loop[Poll].pc = "read" /\ loop[Poll].only = d
  \/ loop[Poll].pc \in {"next", "push"} /\ loop[Poll].seen[d] # 0

Credit(d) ==
  /\ Len(central[d]) <= target[d].attempts + crashes
  /\ MaySend(d) => Len(central[d]) < target[d].attempts + crashes

\* a command that may be applied is known to the row or about to be, or its number
\* was lost
Known(d) ==
  /\ \A n \in DOMAIN central[d] : Live(central[d][n]) =>
       n = target[d].command \/ ToBeSaved(d, n) \/ n \in unheard[d]
  /\ rollout # "cancelled" /\ target[d].status \in {"failed", "skipped"} =>
       \A n \in DOMAIN central[d] : Live(central[d][n]) => n \in unheard[d]

Held(d) == Theirs(d) /\ Credit(d) /\ Known(d)
Hand(d) == d \in shared \/ (Alone(d) /\ Held(d))

Hands == Shape /\ \A d \in Devices : Hand(d)

\* what the history keeps
GoesOn ==
  /\ shared \subseteq shared'
  /\ \A d \in Devices : d \notin shared' => Alone(d)'
  /\ \A d \in Devices : unheard[d] \cup Given(d) \subseteq unheard'[d]

LEMMA Remembering == ASSUME Remember PROVE GoesOn
BY DEF Remember, GoesOn, Alone

-----------------------------------------------------------------------------
(* Targets that a step does not touch *)

LoopFrame(c, new, d) ==
  /\ new.seen[d] # 0 => c.seen[d] # 0
  /\ Past(c, d) => Past(new, d)
  /\ \A n : Saves(c, d, n) => Saves(new, d, n)

RetryFrame(c, new, d) ==
  /\ new.seen[d] # 0 => new.only = c.only
  /\ new.pc = "read" /\ new.only = d => c.pc = "read" /\ c.only = d
  /\ new.pc \in {"next", "push"} /\ new.seen[d] # 0 => c.pc \in {"next", "push"}

PollFrame(d) ==
  poll'.seen[d] # 0 =>
    poll.seen[d] # 0 /\ poll'.claiming = poll.claiming /\ poll'.value[d] = poll.value[d]

RowFrame(d) ==
  /\ target'[d].command = target[d].command /\ target'[d].retry = target[d].retry
  /\ target'[d].attempts = target[d].attempts /\ target'[d].status = target[d].status

LoopsFrame(d) ==
  /\ \A w \in Workers : LoopFrame(loop[w], loop'[w], d)
  /\ RetryFrame(loop[Poll], loop'[Poll], d)

Untouched(d) ==
  /\ RowFrame(d) /\ LoopsFrame(d) /\ PollFrame(d)
  /\ central'[d] = central[d] /\ crashes' = crashes
  /\ rollout' # "cancelled" => rollout # "cancelled"

LEMMA SavingNext ==
  ASSUME NEW d, NEW n
  PROVE  ToBeSaved(d, n)' <=> \E w \in Workers : Saves(loop'[w], d, n)
BY DEF ToBeSaved, Saves

LEMMA UntouchedKept ==
  ASSUME IInv, GoesOn, NEW d \in Devices, Hand(d), Untouched(d)
  PROVE  Hand(d)'
<1> SUFFICES ASSUME d \notin shared' PROVE Held(d)'
  BY DEF GoesOn, Hand
<1>0. Held(d)
  BY DEF GoesOn, Hand
<1>1. /\ Loose(target[d])' <=> Loose(target[d])
      /\ Waiting(target[d])' <=> Waiting(target[d])
      /\ (d \in Pending)' <=> d \in Pending
  BY DEF Untouched, RowFrame, Loose, Waiting, Pending
<1>2. Retries(loop'[Poll], d) => Retries(loop[Poll], d) /\ loop'[Poll].only = loop[Poll].only
  BY WorkersAre DEF Untouched, LoopsFrame, LoopFrame, RetryFrame, Retries
<1>3. Theirs(d)'
  <2>1. Retries(loop'[Poll], d) = Retries(loop[Poll], d)'
    BY DEF Retries
  <2>2. \A w \in Workers : loop'[w].seen[d] # 0 => loop[w].seen[d] # 0
    BY DEF Untouched, LoopsFrame, LoopFrame
  <2> QED
    BY <1>0, <1>1, <1>2, <2>1, <2>2, WorkersAre DEF Held, Theirs, Untouched, PollFrame, RowFrame
<1>4. MaySend(d)' => MaySend(d)
  BY <1>1, <1>2, WorkersAre
  DEF MaySend, Untouched, LoopsFrame, LoopFrame, RetryFrame
<1>5. Credit(d)'
  BY <1>0, <1>4 DEF Held, Credit, Untouched, RowFrame
<1>6. Known(d)'
  <2>1. \A n : ToBeSaved(d, n) => ToBeSaved(d, n)'
    BY SavingNext DEF Untouched, LoopsFrame, LoopFrame, ToBeSaved
  <2> QED
    BY <1>0, <2>1 DEF Held, Known, GoesOn, Untouched, RowFrame
<1> QED
  BY <1>3, <1>5, <1>6 DEF Held

\* the loops but w stay as they are
OthersStay(w) == \A v \in Workers \ {w} : loop'[v] = loop[v]

LEMMA LoopsFramed ==
  ASSUME NEW d \in Devices, NEW w \in Workers, OthersStay(w),
         LoopFrame(loop[w], loop'[w], d),
         w = Poll => RetryFrame(loop[w], loop'[w], d)
  PROVE  LoopsFrame(d)
<1>1. \A v \in Workers : LoopFrame(loop[v], loop'[v], d)
  BY DEF OthersStay, LoopFrame
<1>2. RetryFrame(loop[Poll], loop'[Poll], d)
  BY WorkersAre DEF OthersStay, RetryFrame
<1> QED
  BY <1>1, <1>2 DEF LoopsFrame

LEMMA LoopsFramedSame == ASSUME loop' = loop, NEW d PROVE LoopsFrame(d)
BY DEF LoopsFrame, LoopFrame, RetryFrame

-----------------------------------------------------------------------------
(* A target is in one hand *)

LEMMA HeldOnce ==
  ASSUME IInv, Hands, NEW d \in Devices, d \notin shared
  PROVE  /\ \A v, w \in Workers : loop[v].seen[d] # 0 /\ loop[w].seen[d] # 0 => v = w
         /\ \A w \in Workers : loop[w].seen[d] # 0 => poll.seen[d] = 0
<1>0. Alone(d) /\ Theirs(d)
  BY DEF Hands, Hand, Held
<1>1. \A l \in Loops : loop[l].seen[d] # 0 =>
        /\ Loose(target[d])
        /\ loop[Poll].seen[d] = 0 /\ poll.seen[d] = 0
        /\ \A m \in Loops : loop[m].seen[d] # 0 => l = m
  BY <1>0, WorkersAre DEF Alone, OnList, Theirs, Retries, Loose, Waiting
<1>2. loop[Poll].seen[d] # 0 => poll.seen[d] = 0
  BY <1>0 DEF Theirs, Retries
<1> QED
  BY <1>1, <1>2 DEF Workers

\* a loop that serves d lists it, and it is the only one
LEMMA ServedOnce ==
  ASSUME IInv, Hands, NEW d \in Devices, d \notin shared, NEW w \in Workers, loop[w].at = d
  PROVE  /\ loop[w].pc \in Holding /\ loop[w].seen[d] # 0
         /\ target[d].command = 0
         /\ w \in Loops => Loose(target[d])
         /\ w = Poll => Waiting(target[d]) /\ loop[Poll].only = d
         /\ \A v \in Workers : v # w => loop[v].seen[d] = 0 /\ loop[v].at # d
         /\ poll.seen[d] = 0 /\ poll.at # d
         /\ rollout # "cancelled" => d \in Pending
<1>1. d # NoDevice
  BY NoDeviceIsNone
<1>2. loop[w].pc \in Holding /\ loop[w].seen[d] # 0
  BY <1>1, Holds DEF Hands, Shape, LoopShape
<1>3. \A v \in Workers : v # w => loop[v].seen[d] = 0 /\ loop[v].at # d
  BY <1>1, <1>2, HeldOnce, Holds DEF Hands, Shape, LoopShape
<1>4. poll.seen[d] = 0
  BY <1>2, HeldOnce
<1>5. poll.at # d
  BY <1>1, <1>4 DEF Hands, Shape, PollShape
<1> QED
  BY <1>2, <1>3, <1>4, <1>5 DEF Hands, Hand, Held, Theirs, Retries, Loose, Waiting, Workers

\* a target in the hands of a loop that is not about to save its command has none
\* that may be applied, but for lost ones
LEMMA NoneLive ==
  ASSUME IInv, Hands, NEW d \in Devices, d \notin shared, NEW w \in Workers, loop[w].at = d,
         loop[w].pc # "save"
  PROVE  \A n \in DOMAIN central[d] : Live(central[d][n]) => n \in unheard[d]
<1>1. \A n : ~ToBeSaved(d, n)
  BY ServedOnce DEF ToBeSaved, Saves
<1>2. central[d] \in Seq(Outcomes)
  BY DEF IInv, TypeOK
<1>3. \A n \in DOMAIN central[d] : n # 0
  BY <1>2
<1> QED
  BY <1>1, <1>3, ServedOnce DEF Hands, Hand, Held, Known

\* ... and one in the hands of the poll has at most the one that the poll asks about,
\* but for lost ones
LEMMA PollServes ==
  ASSUME IInv, Hands, NEW d \in Devices, d \notin shared, poll.seen[d] # 0
  PROVE  /\ \A w \in Workers : loop[w].seen[d] = 0 /\ loop[w].at # d
         /\ ~Loose(target[d])
         /\ \A n \in DOMAIN central[d] : Live(central[d][n]) =>
              n \in unheard[d] \/ (~poll.claiming /\ n = poll.value[d])
<1>1. \A w \in Workers : loop[w].seen[d] = 0 /\ loop[w].at # d
  BY HeldOnce, ServedOnce
<1>2. ~Loose(target[d])
  BY DEF Hands, Hand, Held, Theirs, Loose, Waiting
<1>3. \A n : ~ToBeSaved(d, n)
  BY <1>1 DEF ToBeSaved, Saves
<1>4. central[d] \in Seq(Outcomes)
  BY DEF IInv, TypeOK
<1>5. \A n \in DOMAIN central[d] : n # 0
  BY <1>4
<1> QED
  BY <1>1, <1>2, <1>3, <1>5 DEF Hands, Hand, Held, Known, Theirs, Waiting


-----------------------------------------------------------------------------
(* What keeps the shape *)

CentralKeeps == \A d \in Devices : \A n \in DOMAIN central[d] :
  n \in DOMAIN central'[d] /\ central'[d][n] = central[d][n]

\* no rollout becomes approved again, and one that closes leaves no target pending
RolloutGoesOn ==
  /\ rollout' = "approved" => rollout = "approved"
  /\ rollout' \in {"completed", "cancelled"} => Pending' = {}

\* a step of a loop that works
LEMMA LoopStepShape ==
  ASSUME IInv, Shape, NEW w \in Workers, loop[w].pc # "idle", OthersStay(w),
         LoopShape(loop'[w]), loop'[w].pc # "idle" => loop'[w].only = loop[w].only,
         CentralKeeps, RolloutGoesOn, poll' = poll
  PROVE  Shape'
<1>2. PollShape(poll, central)'
  <2>1. poll.pc \in {"decide", "record"} /\ ~poll.claiming =>
          poll.at \in Devices /\ poll.value[poll.at] \in DOMAIN central[poll.at]
    BY DEF IInv, PollKnows, Shape, PollShape
  <2> QED
    BY <2>1 DEF Shape, PollShape, CentralKeeps
<1>3. RolloutShape'
  BY WorkersAre DEF Shape, RolloutShape, RolloutGoesOn, OthersStay
<1>4. PollWaits'
  BY WorkersAre DEF Shape, PollWaits, OthersStay
<1>5. \A v \in Workers : LoopShape(loop'[v])
  BY DEF Shape, OthersStay
<1> QED
  BY <1>2, <1>3, <1>4, <1>5 DEF Shape, LoopShape

\* a step that leaves the loops alone
LEMMA PollStepShape ==
  ASSUME Shape, loop' = loop, PollShape(poll', central'), RolloutGoesOn,
         loop[Poll].pc # "idle" => poll'.pc = "push" \/ poll' = poll
  PROVE  Shape'
<1>1. PollWaits' /\ PollShape(poll, central)'
  BY DEF Shape, PollWaits, PollShape
<1>2. RolloutShape'
  BY DEF Shape, RolloutShape, RolloutGoesOn
<1> QED
  BY <1>1, <1>2 DEF Shape, LoopShape

LEMMA CentralSame == ASSUME central' = central PROVE CentralKeeps
BY DEF CentralKeeps

LEMMA RolloutSame ==
  ASSUME Shape, rollout' = rollout, \A d \in Devices : target'[d].status = target[d].status
  PROVE  RolloutGoesOn
BY DEF RolloutGoesOn, Shape, RolloutShape, Pending

\* a step that touches no target keeps them all, one that touches one keeps the others
LEMMA NoneTouched ==
  ASSUME IInv, Hands, GoesOn, Shape', \A d \in Devices : Untouched(d)
  PROVE  Hands'
<1>1. \A d \in Devices : Hand(d)'
  BY UntouchedKept DEF Hands
<1> QED
  BY <1>1 DEF Hands

LEMMA OneTouched ==
  ASSUME IInv, Hands, GoesOn, Shape', NEW d \in Devices,
         d \notin shared /\ d \notin shared' => Held(d)',
         \A e \in Devices : e # d => Untouched(e)
  PROVE  Hands'
<1>1. ASSUME NEW e \in Devices PROVE Hand(e)'
  BY UntouchedKept DEF Hands, Hand, GoesOn
<1> QED
  BY <1>1 DEF Hands

\* a target that nobody has in hand and no loop will read
LEMMA OutOfHand ==
  ASSUME NEW d \in Devices, \A w \in Workers : loop'[w].seen[d] = 0,
         poll'.seen[d] = 0, ~(loop'[Poll].pc = "read" /\ loop'[Poll].only = d),
         ~(Loose(target'[d]) /\ target'[d].status = "pending"),
         Len(central'[d]) <= target'[d].attempts + crashes', Known(d)'
  PROVE  Held(d)'
<1>1. Theirs(d)'
  BY WorkersAre DEF Theirs, Retries
<1>2. ~MaySend(d)'
  BY WorkersAre DEF MaySend, Pending, Loose
<1> QED
  BY <1>1, <1>2 DEF Held, Credit

\* while a loop has a target, the loop of the poll will not read it
LEMMA NotToBeRead ==
  ASSUME IInv, Hands, NEW d \in Devices, d \notin shared, NEW w \in Workers, loop[w].at = d
  PROVE  ~(loop[Poll].pc = "read" /\ loop[Poll].only = d)
<1>1. CASE w = Poll
  BY <1>1, ServedOnce DEF Holding
<1>2. CASE w # Poll
  <2>1. Loose(target[d])
    BY <1>2, ServedOnce DEF Workers
  <2> QED
    BY <2>1 DEF Hands, Hand, Held, Theirs, Retries, Loose, Waiting
<1> QED
  BY <1>1, <1>2

-----------------------------------------------------------------------------
(* Steps of a loop *)

LEMMA ReleaseHands ==
  ASSUME IInv, Hands, GoesOn, NEW l \in Loops, Release(l) \/ Resume(l)
  PROVE  Hands'
<1> DEFINE new == [IdleLoop EXCEPT !.pc = "read", !.only = NoDevice]
<1>1. new.pc = "read" /\ new.at = NoDevice /\ \A d \in Devices : new.seen[d] = 0
  BY DEF IdleLoop, Nobody
<1>2. loop' = [loop EXCEPT ![l] = new] /\ rollout' = "active" /\ rollout # "cancelled"
  BY DEF Release, Resume, Start
<1>3. UNCHANGED <<autoRetry, target, attempt, central, poll, listed, crashes, switches>>
  BY DEF Release, Resume
<1> HIDE DEF new
<1>4. l \in Workers /\ l # Poll
  BY WorkersAre, PollIsNoRequest
<1>5. loop[l].pc = "idle"
  BY DEF Release, Resume
<1>6. loop'[l] = new /\ OthersStay(l)
  BY <1>2, <1>4 DEF IInv, TypeOK, OthersStay
<1>7. LoopShape(new)
  BY <1>1 DEF LoopShape
<1>8. Shape'
  <2>2. PollShape(poll, central)' /\ RolloutShape' /\ PollWaits'
    BY <1>2, <1>3, <1>4, <1>6, WorkersAre
    DEF Hands, Shape, PollShape, RolloutShape, PollWaits, OthersStay
  <2>3. \A v \in Workers : LoopShape(loop'[v])
    BY <1>6, <1>7 DEF Hands, Shape, OthersStay
  <2> QED
    BY <2>2, <2>3 DEF Shape, LoopShape
<1>9. ASSUME NEW d \in Devices PROVE Untouched(d)
  <2>1. LoopFrame(loop[l], loop'[l], d)
    BY <1>1, <1>5, <1>6 DEF LoopFrame, Past, Saves
  <2>2. LoopsFrame(d)
    BY <1>4, <1>6, <2>1, LoopsFramed
  <2> QED
    BY <1>2, <1>3, <2>2 DEF Untouched, RowFrame, PollFrame
<1> QED
  BY <1>8, <1>9, NoneTouched

LEMMA ReadTargetsHands ==
  ASSUME IInv, Hands, GoesOn, NEW w \in Workers, ReadTargets(w)
  PROVE  Hands'
<1> DEFINE new == [loop[w] EXCEPT !.pc = "next", !.seen = Seen(Unsent(loop[w].only)),
                                  !.retrying = autoRetry]
<1>1. TypeOK /\ loop[w].pc = "read"
  BY DEF IInv, ReadTargets
<1>2. loop' = [loop EXCEPT ![w] = new]
  BY DEF ReadTargets
<1>3. /\ new.pc = "next" /\ new.only = loop[w].only /\ new.at = loop[w].at
      /\ \A d \in Devices : new.seen[d] # 0 <=> d \in Unsent(loop[w].only)
  <2>1. new.seen = Seen(Unsent(loop[w].only))
    BY <1>1, LoopTyped DEF Loop
  <2>2. new.pc = "next" /\ new.only = loop[w].only /\ new.at = loop[w].at
    BY <1>1, LoopTyped DEF Loop
  <2> HIDE DEF new
  <2> QED
    BY <1>1, <2>1, <2>2, SeenTyped
<1>4. UNCHANGED <<rollout, autoRetry, target, attempt, central, poll, listed, crashes, switches>>
  BY DEF ReadTargets
<1> HIDE DEF new
<1>5. loop'[w] = new /\ OthersStay(w)
  BY <1>1, <1>2 DEF TypeOK, OthersStay
<1>6. loop[w].at = NoDevice
  BY <1>1 DEF Hands, Shape, LoopShape, Holding
<1>7. Shape'
  <2>1. LoopShape(loop'[w])
    BY <1>3, <1>5, <1>6 DEF LoopShape, Unsent
  <2> QED
    BY <1>1, <1>3, <1>4, <1>5, <2>1, LoopStepShape, CentralSame, RolloutSame DEF Hands
<1>8. ASSUME NEW d \in Devices, d \notin shared' PROVE Held(d)'
  <2>0. d \notin shared /\ Held(d) /\ Alone(d)'
    BY <1>8 DEF Hands, Hand, GoesOn
  <2> DEFINE only == loop[w].only
  <2>1. w \in Loops => only = NoDevice
    BY DEF IInv, LoopsTakeAll
  <2>2. d \in Unsent(only) =>
          d \in Pending /\ (w \in Loops => Loose(target[d])) /\ (only # NoDevice => d = only)
    BY <2>1 DEF Unsent, Loose
  <2>3. CASE w \in Loops
    <3>1. loop'[Poll] = loop[Poll] /\ \A l \in Loops : l # w => loop'[l] = loop[l]
      BY <1>5, <2>3, PollIsNoRequest, WorkersAre DEF OthersStay
    <3>2. loop'[w].seen[d] # 0 => Loose(target[d]) /\ d \in Pending
      BY <1>3, <1>5, <2>2, <2>3
    <3>3. Theirs(d)'
      BY <1>4, <2>0, <3>1, <3>2 DEF Held, Theirs, Retries, Waiting, Loose, Pending, Workers
    <3>4. MaySend(d)' => MaySend(d)
      BY <1>1, <1>4, <2>3, <3>1, <3>2 DEF MaySend, Past, Loose, Pending
    <3>5. Known(d)'
      <4>1. \A n : ToBeSaved(d, n) => ToBeSaved(d, n)'
        BY <1>1, <1>5, SavingNext DEF OthersStay, Saves, ToBeSaved
      <4> QED
        BY <1>4, <2>0, <4>1 DEF Held, Known, GoesOn
    <3> QED
      BY <1>4, <2>0, <3>3, <3>4, <3>5 DEF Held, Credit
  <2>4. CASE w = Poll
    <3>1. \A l \in Loops : loop'[l] = loop[l]
      BY <1>5, <2>4, PollIsNoRequest, WorkersAre DEF OthersStay
    <3>2. only # NoDevice
      BY <1>1, <2>4 DEF Hands, Shape, PollWaits
    <3>3. loop'[Poll].seen[d] # 0 => d \in Pending /\ d = only
      BY <1>3, <1>5, <2>2, <2>4, <3>2
    <3>4. loop'[Poll].pc = "next" /\ loop'[Poll].only = only
      BY <1>3, <1>5, <2>4
    <3>5. d = only => Retries(loop[Poll], d)
      BY <1>1, <2>4 DEF Retries
    <3>6. Theirs(d)'
      BY <1>4, <2>0, <2>4, <3>1, <3>3, <3>4, <3>5, WorkersAre
      DEF Held, Theirs, Retries, Waiting, Loose, Pending, Workers
    <3>7. MaySend(d)' => MaySend(d)
      BY <1>1, <1>4, <2>4, <3>1, <3>3, <3>4 DEF MaySend, Pending
    <3>8. Known(d)'
      <4>1. \A n : ToBeSaved(d, n) => ToBeSaved(d, n)'
        BY <1>1, <1>5, SavingNext DEF OthersStay, Saves, ToBeSaved
      <4> QED
        BY <1>4, <2>0, <4>1 DEF Held, Known, GoesOn
    <3> QED
      BY <1>4, <2>0, <3>6, <3>7, <3>8 DEF Held, Credit
  <2> QED
    BY <2>3, <2>4 DEF Workers
<1> QED
  BY <1>7, <1>8 DEF Hands, Hand, GoesOn

\* a loop chooses what it serves next
LEMMA NextTargetHands ==
  ASSUME IInv, Hands, GoesOn, NEW w \in Workers, NextTarget(w)
  PROVE  Hands'
<1>1. TypeOK /\ loop[w].pc = "next"
  BY DEF IInv, NextTarget
<1>2. UNCHANGED <<rollout, autoRetry, target, attempt, central, poll, listed, crashes, switches>>
  BY DEF NextTarget
<1>3. loop[w].at = NoDevice
  BY <1>1 DEF Hands, Shape, LoopShape, Holding
<1>4. CASE loop' = [loop EXCEPT ![w] = IdleLoop]
  <2>1. loop'[w] = IdleLoop /\ OthersStay(w)
    BY <1>1, <1>4 DEF TypeOK, OthersStay
  <2>2. IdleLoop.pc = "idle" /\ IdleLoop.at = NoDevice /\ \A d \in Devices : IdleLoop.seen[d] = 0
    BY DEF IdleLoop, Nobody
  <2>3. Shape'
    <3>1. LoopShape(loop'[w])
      BY <2>1, <2>2, IdleTyped DEF LoopShape
    <3> QED
      BY <1>1, <1>2, <2>1, <2>2, <3>1, LoopStepShape, CentralSame, RolloutSame DEF Hands
  <2>4. ASSUME NEW d \in Devices PROVE Untouched(d)
    <3>1. LoopFrame(loop[w], loop'[w], d) /\ RetryFrame(loop[w], loop'[w], d)
      BY <1>1, <2>1, <2>2 DEF LoopFrame, RetryFrame, Past, Saves
    <3> QED
      BY <1>2, <2>1, <3>1, LoopsFramed DEF Untouched, RowFrame, PollFrame
  <2> QED
    BY <2>3, <2>4, NoneTouched
<1>5. CASE \E e \in Listed(loop[w]) : loop' = [loop EXCEPT ![w].pc = "push", ![w].at = e]
  <2>1. PICK e \in Listed(loop[w]) : loop' = [loop EXCEPT ![w].pc = "push", ![w].at = e]
    BY <1>5
  <2> DEFINE new == [loop[w] EXCEPT !.pc = "push", !.at = e]
  <2>2. /\ new.pc = "push" /\ new.only = loop[w].only /\ new.at = e
        /\ new.seen = loop[w].seen
    BY <1>1, LoopTyped DEF Loop
  <2>3. loop' = [loop EXCEPT ![w] = new]
    BY <2>1
  <2> HIDE DEF new
  <2>4. loop'[w] = new /\ OthersStay(w)
    BY <1>1, <2>3 DEF TypeOK, OthersStay
  <2>5. Shape'
    <3>1. LoopShape(loop'[w])
      BY <2>2, <2>4 DEF Hands, Shape, LoopShape, Holding
    <3> QED
      BY <1>1, <1>2, <2>2, <2>4, <3>1, LoopStepShape, CentralSame, RolloutSame DEF Hands
  <2>6. ASSUME NEW d \in Devices PROVE Untouched(d)
    <3>1. LoopFrame(loop[w], loop'[w], d) /\ RetryFrame(loop[w], loop'[w], d)
      BY <1>1, <2>2, <2>4 DEF LoopFrame, RetryFrame, Past, Saves
    <3> QED
      BY <1>2, <2>4, <3>1, LoopsFramed DEF Untouched, RowFrame, PollFrame
  <2> QED
    BY <2>5, <2>6, NoneTouched
<1> QED
  BY <1>4, <1>5 DEF NextTarget

\* a loop keeps what it has in hand and only goes on with it
LEMMA GoesOnFramed ==
  ASSUME IInv, Hands, NEW w \in Workers, loop[w].pc \in Holding, NEW new,
         loop' = [loop EXCEPT ![w] = new],
         new.only = loop[w].only, new.at = loop[w].at, new.seen = loop[w].seen,
         new.pc \in {"save", "decide", "record"}
  PROVE  /\ OthersStay(w) /\ loop'[w] = new /\ LoopShape(loop'[w])
         /\ loop'[w].only = loop[w].only
         /\ \A d \in Devices : d # loop[w].at \/ loop[w].pc # "save" => LoopsFrame(d)
<1>1. OthersStay(w) /\ loop'[w] = new
  BY DEF IInv, TypeOK, OthersStay
<1>2. LoopShape(new)
  BY DEF Hands, Shape, LoopShape, Holding
<1>3. ASSUME NEW d \in Devices, d # loop[w].at \/ loop[w].pc # "save"
      PROVE  LoopsFrame(d)
  <2>1. LoopFrame(loop[w], new, d) /\ RetryFrame(loop[w], new, d)
    BY <1>3 DEF LoopFrame, RetryFrame, Past, Saves, Holding
  <2> QED
    BY <1>1, <2>1, LoopsFramed
<1> QED
  BY <1>1, <1>2, <1>3

LEMMA SendInVainHands ==
  ASSUME IInv, Hands, GoesOn, NEW w \in Workers, SendInVain(w)
  PROVE  Hands'
<1>1. TypeOK /\ loop[w].pc \in Holding /\ loop[w].pc = "push"
  BY DEF IInv, SendInVain, Holding
<1>2. PICK failure \in {"unavailable", "rejected"} :
        loop' = [loop EXCEPT ![w].pc = "decide", ![w].failure = failure]
  BY DEF SendInVain
<1> DEFINE new == [loop[w] EXCEPT !.pc = "decide", !.failure = failure]
<1>3. /\ new.only = loop[w].only /\ new.at = loop[w].at /\ new.seen = loop[w].seen
      /\ new.pc = "decide"
  BY <1>1, LoopTyped DEF Loop
<1>4. loop' = [loop EXCEPT ![w] = new]
  BY <1>2
<1>5. UNCHANGED <<rollout, autoRetry, target, central, poll, listed, crashes, switches>>
  BY DEF SendInVain
<1> HIDE DEF new
<1>6. /\ OthersStay(w) /\ LoopShape(loop'[w]) /\ loop'[w].only = loop[w].only
      /\ \A d \in Devices : LoopsFrame(d)
  BY <1>1, <1>3, <1>4, GoesOnFramed
<1>7. Shape'
  BY <1>1, <1>5, <1>6, LoopStepShape, CentralSame, RolloutSame DEF Hands
<1>8. \A d \in Devices : Untouched(d)
  BY <1>5, <1>6 DEF Untouched, RowFrame, PollFrame
<1> QED
  BY <1>7, <1>8, NoneTouched

\* the one command of an attempt
LEMMA SendHands ==
  ASSUME IInv, Hands, GoesOn, NEW w \in Workers, Send(w)
  PROVE  Hands'
<1>1. TypeOK /\ loop[w].pc \in Holding /\ loop[w].pc = "push"
  BY DEF IInv, Send, Holding
<1>2. PICK d \in Devices : d = loop[w].at
  BY <1>1, Holds
<1> DEFINE saving == [loop[w] EXCEPT !.pc = "save", !.command = Len(central[d]) + 1]
           deciding == [loop[w] EXCEPT !.pc = "decide", !.failure = "unavailable"]
<1>3. central[d] \in Seq(Outcomes)
  BY <1>1, <1>2 DEF TypeOK
<1>4. /\ central'[d] = Append(central[d], "open")
      /\ \A e \in Devices : e # d => central'[e] = central[e]
  BY <1>1, <1>2 DEF Send, TypeOK
<1>5. /\ Len(central[d]) \in Nat /\ Len(central'[d]) = Len(central[d]) + 1
      /\ DOMAIN central[d] = 1..Len(central[d])
      /\ DOMAIN central'[d] = 1..(Len(central[d]) + 1)
      /\ \A n \in DOMAIN central[d] : central'[d][n] = central[d][n]
  BY <1>3, <1>4
<1>6. UNCHANGED <<rollout, autoRetry, target, poll, listed, crashes, switches>>
  BY DEF Send
<1>7. PICK new : /\ loop' = [loop EXCEPT ![w] = new]
                 /\ new.only = loop[w].only /\ new.at = loop[w].at /\ new.seen = loop[w].seen
                 /\ \/ new.pc = "save" /\ new.command = Len(central[d]) + 1
                    \/ new.pc = "decide"
  <2>1. /\ saving.only = loop[w].only /\ saving.at = loop[w].at /\ saving.seen = loop[w].seen
        /\ saving.pc = "save" /\ saving.command = Len(central[d]) + 1
    BY <1>1, LoopTyped DEF Loop
  <2>2. /\ deciding.only = loop[w].only /\ deciding.at = loop[w].at /\ deciding.seen = loop[w].seen
        /\ deciding.pc = "decide"
    BY <1>1, LoopTyped DEF Loop
  <2>3. \/ loop' = [loop EXCEPT ![w] = saving]
        \/ loop' = [loop EXCEPT ![w] = deciding]
    BY <1>2 DEF Send
  <2> HIDE DEF saving, deciding
  <2> QED
    BY <2>1, <2>2, <2>3
<1>8. /\ OthersStay(w) /\ loop'[w] = new /\ LoopShape(loop'[w]) /\ loop'[w].only = loop[w].only
      /\ \A e \in Devices : LoopsFrame(e)
  BY <1>1, <1>7, GoesOnFramed
<1>9. Shape'
  <2>1. CentralKeeps
    BY <1>4, <1>5 DEF CentralKeeps
  <2> QED
    BY <1>1, <1>6, <1>8, <2>1, LoopStepShape, RolloutSame DEF Hands
<1>10. \A e \in Devices : e # d => Untouched(e)
  BY <1>4, <1>6, <1>8 DEF Untouched, RowFrame, PollFrame
<1> HIDE DEF saving, deciding
<1> SUFFICES ASSUME d \notin shared, d \notin shared' PROVE Held(d)'
  BY <1>2, <1>9, <1>10, OneTouched
<1>0. Held(d)
  BY DEF Hands, Hand
<1>11. loop[w].at = d /\ loop'[w].at = d /\ Past(loop'[w], d)
  BY <1>2, <1>7, <1>8 DEF Past
<1>12. \A v \in Workers : loop'[v].seen = loop[v].seen
  BY <1>7, <1>8 DEF OthersStay
<1>13. loop[Poll].pc = "read" /\ loop[Poll].only = d <=> loop'[Poll].pc = "read" /\ loop'[Poll].only = d
  <2>1. CASE w = Poll
    BY <1>1, <1>7, <1>8, <2>1
  <2>2. CASE w # Poll
    BY <1>8, <2>2, WorkersAre DEF OthersStay
  <2> QED
    BY <2>1, <2>2
<1>14. Theirs(d)'
  <2>1. Retries(loop'[Poll], d) => Retries(loop[Poll], d)
    BY <1>12, <1>13, WorkersAre DEF Retries
  <2>2. loop'[Poll].only = loop[Poll].only
    BY <1>8, WorkersAre DEF OthersStay
  <2>3. Theirs(d)
    BY <1>0 DEF Held
  <2> QED
    BY <1>6, <1>12, <2>1, <2>2, <2>3, WorkersAre DEF Theirs, Retries, Loose, Waiting, Pending
<1>15. MaySend(d)
  <2>1. CASE w = Poll
    BY <1>1, <1>2, <1>11, <2>1, ServedOnce DEF MaySend
  <2>2. CASE w # Poll
    <3>1. w \in Loops
      BY <2>2 DEF Workers
    <3>2. \A v \in Workers : ~Past(loop[v], d)
      BY <1>1, <1>2, <1>11, ServedOnce DEF Past
    <3> QED
      BY <1>2, <1>11, <3>1, <3>2, ServedOnce, WorkersAre DEF MaySend
  <2> QED
    BY <2>1, <2>2
<1>16. ~MaySend(d)'
  <2>1. ~(loop'[Poll].pc = "read" /\ loop'[Poll].only = d)
    BY <1>2, <1>11, <1>13, NotToBeRead
  <2>2. ~(loop'[Poll].pc \in {"next", "push"} /\ loop'[Poll].seen[d] # 0)
    <3>1. CASE w = Poll
      BY <1>7, <1>8, <3>1
    <3>2. CASE w # Poll
      BY <1>2, <1>11, <1>12, <3>2, ServedOnce, WorkersAre
    <3> QED
      BY <3>1, <3>2
  <2>3. ~(Loose(target[d]) /\ \A l \in Loops : ~Past(loop'[l], d))
    <3>1. CASE w = Poll
      BY <1>2, <1>11, <3>1, ServedOnce DEF Loose, Waiting
    <3>2. CASE w # Poll
      BY <1>11, <3>2 DEF Workers
    <3> QED
      BY <3>1, <3>2
  <2> QED
    BY <1>6, <2>1, <2>2, <2>3 DEF MaySend, Loose, Past
<1>17. Credit(d)'
  <2>1. Len(central[d]) < target[d].attempts + crashes
    BY <1>0, <1>15 DEF Held, Credit
  <2>2. target[d].attempts \in Nat /\ crashes \in Nat
    BY <1>1, <1>2, RowTyped DEF TypeOK
  <2>3. Len(central[d]) + 1 <= target[d].attempts + crashes
    BY <1>5, <2>1, <2>2
  <2> QED
    BY <1>5, <1>6, <1>16, <2>3 DEF Credit
<1>18. Known(d)'
  <2>1. \A n \in DOMAIN central[d] : Live(central[d][n]) => n \in unheard[d]
    BY <1>1, <1>2, <1>11, NoneLive
  <2>0. PICK m \in Nat : m = Len(central[d]) + 1
    BY <1>5
  <2>2. /\ m \in DOMAIN central'[d] /\ m \notin DOMAIN central[d] /\ m # 0
        /\ \A n \in DOMAIN central'[d] : n \in DOMAIN central[d] \/ n = m
    BY <1>5, <2>0
  <2>3. ToBeSaved(d, m)' \/ m \in unheard'[d]
    <3>1. CASE new.pc = "save"
      <4>1. Saves(loop'[w], d, m)
        BY <1>7, <1>8, <1>11, <2>0, <3>1 DEF Saves
      <4> QED
        BY <4>1, SavingNext
    <3>2. CASE new.pc = "decide"
      <4>1. ~ToBeSaved(d, m)'
        <5>1. ASSUME NEW v \in Workers PROVE ~Saves(loop'[v], d, m)
          <6>1. CASE v = w
            BY <1>8, <3>2, <6>1 DEF Saves
          <6>2. CASE v # w
            BY <1>8, <1>11, <6>2, ServedOnce DEF Saves, OthersStay
          <6> QED
            BY <6>1, <6>2
        <5> QED
          BY <5>1, SavingNext
      <4>2. target'[d].command = 0
        BY <1>6, <1>11, ServedOnce
      <4>3. m \in Given(d)
        BY <2>2, <4>1, <4>2 DEF Given
      <4> QED
        BY <4>3 DEF GoesOn
    <3> QED
      BY <1>7, <3>1, <3>2
  <2>4. rollout # "cancelled" => target'[d].status = "pending"
    BY <1>6, <1>11, ServedOnce DEF Pending
  <2>5. \A n \in DOMAIN central'[d] : Live(central'[d][n]) => ToBeSaved(d, n)' \/ n \in unheard'[d]
    BY <1>5, <2>1, <2>2, <2>3 DEF GoesOn
  <2> QED
    BY <1>6, <2>4, <2>5 DEF Known
<1> QED
  BY <1>14, <1>17, <1>18 DEF Held

\* a loop is done with its target
Leaves(w) ==
  /\ OthersStay(w)
  /\ loop'[w].pc = "next" /\ loop'[w].only = loop[w].only /\ loop'[w].at = NoDevice
  /\ \A d \in Devices : loop'[w].seen[d] = IF d = loop[w].at THEN 0 ELSE loop[w].seen[d]

LEMMA ContinueLeaves ==
  ASSUME IInv, NEW w \in Workers, Continue(w)
  PROVE  Leaves(w)
<1> DEFINE new == [loop[w] EXCEPT !.pc = "next", !.seen[loop[w].at] = 0, !.at = NoDevice]
<1>1. TypeOK
  BY DEF IInv
<1>2. new.pc = "next" /\ new.only = loop[w].only /\ new.at = NoDevice
  BY <1>1, LoopTyped DEF Loop
<1>3. new.seen = [loop[w].seen EXCEPT ![loop[w].at] = 0]
  BY <1>1, LoopTyped DEF Loop
<1>4. loop' = [loop EXCEPT ![w] = new]
  BY DEF Continue
<1> HIDE DEF new
<1>5. loop'[w] = new /\ OthersStay(w)
  BY <1>1, <1>4 DEF TypeOK, OthersStay
<1> QED
  BY <1>1, <1>2, <1>3, <1>5, LoopTyped DEF Leaves

\* the loop of the retry has no other target; a loop of a release keeps the others
LEMMA LeavesFramed ==
  ASSUME IInv, Hands, NEW w \in Workers, loop[w].pc \in Holding, Leaves(w)
  PROVE  /\ OthersStay(w) /\ LoopShape(loop'[w]) /\ loop[w].pc # "idle"
         /\ \A d \in Devices : d # loop[w].at => LoopsFrame(d)
         /\ loop[w].at \notin shared =>
              /\ \A v \in Workers : loop'[v].seen[loop[w].at] = 0
              /\ ~(loop'[Poll].pc = "read" /\ loop'[Poll].only = loop[w].at)
<1>1. loop[w].at \in Devices
  BY Holds
<1>2. LoopShape(loop'[w])
  BY DEF Hands, Shape, Leaves, LoopShape
<1>3. ASSUME NEW d \in Devices, d # loop[w].at PROVE LoopsFrame(d)
  <2>1. LoopFrame(loop[w], loop'[w], d)
    BY <1>3 DEF LoopFrame, Past, Saves, Leaves
  <2>2. w = Poll => loop[w].seen[d] = 0
    <3> SUFFICES ASSUME w = Poll, loop[Poll].seen[d] # 0 PROVE FALSE
      OBVIOUS
    <3>1. loop[Poll].only # NoDevice
      BY DEF Hands, Shape, PollWaits, Holding
    <3>2. loop[Poll].seen[loop[w].at] # 0
      BY DEF IInv, LoopsKnow, LoopKnows
    <3> QED
      BY <1>1, <1>3, <3>1, <3>2, WorkersAre DEF Hands, Shape, LoopShape
  <2>3. w = Poll => RetryFrame(loop[w], loop'[w], d)
    BY <1>3, <2>2 DEF RetryFrame, Leaves
  <2> QED
    BY <2>1, <2>3, LoopsFramed DEF Leaves
<1>4. ASSUME loop[w].at \notin shared, NEW v \in Workers PROVE loop'[v].seen[loop[w].at] = 0
  BY <1>1, <1>4, ServedOnce DEF Leaves, OthersStay
<1>5. ASSUME loop[w].at \notin shared
      PROVE  ~(loop'[Poll].pc = "read" /\ loop'[Poll].only = loop[w].at)
  <2>1. CASE w = Poll
    BY <2>1 DEF Leaves
  <2>2. CASE w # Poll
    BY <1>1, <1>5, <2>2, NotToBeRead, WorkersAre DEF Leaves, OthersStay
  <2> QED
    BY <2>1, <2>2
<1> QED
  BY <1>2, <1>3, <1>4, <1>5 DEF Leaves, Holding

\* the target that the loop leaves is out of hand
LEMMA LeavesHands ==
  ASSUME IInv, Hands, GoesOn, NEW w \in Workers, loop[w].pc \in Holding, Leaves(w),
         NEW d \in Devices, d = loop[w].at,
         \A e \in Devices : e # d => RowFrame(e),
         RolloutGoesOn, rollout' # "cancelled" => rollout # "cancelled",
         d \notin shared =>
           /\ ~(Loose(target'[d]) /\ target'[d].status = "pending")
           /\ target'[d].attempts = target[d].attempts
           /\ Known(d)',
         UNCHANGED <<central, poll, crashes>>
  PROVE  Hands'
<1>1. /\ OthersStay(w) /\ LoopShape(loop'[w]) /\ loop[w].pc # "idle"
      /\ \A e \in Devices : e # d => LoopsFrame(e)
      /\ d \notin shared =>
           /\ \A v \in Workers : loop'[v].seen[d] = 0
           /\ ~(loop'[Poll].pc = "read" /\ loop'[Poll].only = d)
  BY LeavesFramed
<1>2. Shape'
  BY <1>1, LoopStepShape, CentralSame DEF Hands, Leaves
<1>3. \A e \in Devices : e # d => Untouched(e)
  BY <1>1 DEF Untouched, PollFrame
<1> SUFFICES ASSUME d \notin shared, d \notin shared' PROVE Held(d)'
  BY <1>2, <1>3, OneTouched
<1>4. poll.seen[d] = 0
  BY ServedOnce
<1>5. Len(central[d]) <= target[d].attempts + crashes
  BY DEF Hands, Hand, Held, Credit
<1> QED
  BY <1>1, <1>4, <1>5, OutOfHand

\* a result is all that a row gets, and it leaves no doubt whether the target waits
Resulted(d, result) ==
  /\ \A e \in Devices : e # d => RowFrame(e)
  /\ target'[d].command = target[d].command /\ target'[d].retry = target[d].retry
  /\ target'[d].attempts = target[d].attempts
  /\ target'[d].status \in {target[d].status, result}
  /\ target'[d].status = "pending" => rollout = "approved"
  /\ d \in Pending => target'[d].status \in {"pending", result}
  /\ RolloutGoesOn
  /\ rollout' # "cancelled" => rollout # "cancelled"

LEMMA RowGetsResult ==
  ASSUME IInv, NEW d \in Devices, NEW result,
         target' = [target EXCEPT ![d].status = result]
  PROVE  /\ \A e \in Devices : e # d => target'[e] = target[e]
         /\ target'[d].command = target[d].command /\ target'[d].retry = target[d].retry
         /\ target'[d].attempts = target[d].attempts /\ target'[d].status = result
<1> DEFINE new == [target[d] EXCEPT !.status = result]
<1>1. /\ new.command = target[d].command /\ new.retry = target[d].retry
      /\ new.attempts = target[d].attempts /\ new.status = result
  BY DEF IInv, TypeOK, Target
<1>2. target' = [target EXCEPT ![d] = new]
  OBVIOUS
<1> HIDE DEF new
<1>3. target'[d] = new /\ \A e \in Devices : e # d => target'[e] = target[e]
  BY <1>2 DEF IInv, TypeOK
<1> QED
  BY <1>1, <1>3

LEMMA RecordResults ==
  ASSUME IInv, Hands, NEW d \in Devices, NEW result \in {"success", "failed"},
         Record(d, result)
  PROVE  Resulted(d, result)
<1>1. CASE d \in Pending /\ rollout \in {"active", "paused"}
  <2>1. target' = [target EXCEPT ![d].status = result]
    BY <1>1 DEF Record
  <2>2. /\ \A e \in Devices : e # d => target'[e] = target[e]
        /\ target'[d].command = target[d].command /\ target'[d].retry = target[d].retry
        /\ target'[d].attempts = target[d].attempts /\ target'[d].status = result
    BY <2>1, RowGetsResult
  <2>3. rollout' \in IF Pending = {d} THEN {"completed"}
                     ELSE IF result = "failed" /\ rollout = "active"
                     THEN {"active", "paused"} ELSE {rollout}
    BY <1>1 DEF Record
  <2>4. rollout' \in {"active", "paused", "completed"}
    BY <1>1, <2>3
  <2>5. rollout' = "completed" => Pending' = {}
    <3>1. rollout' = "completed" => Pending = {d}
      BY <1>1, <2>3
    <3>2. Pending = {d} => \A e \in Devices : target'[e].status # "pending"
      BY <2>2 DEF Pending
    <3> QED
      BY <3>1, <3>2 DEF Pending
  <2> QED
    BY <1>1, <2>2, <2>4, <2>5 DEF Resulted, RowFrame, RolloutGoesOn
<1>2. CASE ~(d \in Pending /\ rollout \in {"active", "paused"})
  <2>1. UNCHANGED <<target, rollout>>
    BY <1>2 DEF Record
  <2>2. RolloutGoesOn
    BY <2>1, RolloutSame DEF Hands
  <2>3. target[d].status = "pending" => rollout = "approved"
    BY <1>2 DEF Pending, Hands, Shape, RolloutShape, IInv, TypeOK
  <2> QED
    BY <2>1, <2>2, <2>3 DEF Resulted, RowFrame, Pending
<1> QED
  BY <1>1, <1>2

\* a loop that works belongs to a rollout that was released
LEMMA LoopReleased ==
  ASSUME IInv, Hands, NEW w \in Workers, loop[w].pc \in Holding, rollout = "approved"
  PROVE  w = Poll
BY DEF Hands, Shape, RolloutShape, Holding, Workers

\* a target that a loop could not send to has failed
LEMMA FailHands ==
  ASSUME IInv, Hands, GoesOn, NEW w \in Workers, loop[w].pc \in Holding, loop[w].pc # "save",
         Record(loop[w].at, "failed"), Continue(w),
         UNCHANGED <<central, poll, crashes>>
  PROVE  Hands'
<1>1. PICK d \in Devices : d = loop[w].at
  BY Holds
<1>2. Resulted(d, "failed")
  BY <1>1, RecordResults
<1>3. Leaves(w)
  BY ContinueLeaves
<1>4. d \notin shared => ~(Loose(target'[d]) /\ target'[d].status = "pending")
  <2> SUFFICES ASSUME d \notin shared, Loose(target'[d]), rollout = "approved" PROVE FALSE
    BY <1>2 DEF Resulted
  <2>1. w = Poll
    BY LoopReleased
  <2> QED
    BY <1>1, <1>2, <2>1, ServedOnce DEF Resulted, Loose, Waiting
<1>5. d \notin shared => Known(d)'
  BY <1>1, NoneLive DEF Known, GoesOn
<1> QED
  BY <1>1, <1>2, <1>3, <1>4, <1>5, LeavesHands DEF Resulted

LEMMA RefuseHands ==
  ASSUME IInv, Hands, GoesOn, NEW w \in Workers, Refuse(w) \/ RecordAfterPush(w)
  PROVE  Hands'
BY FailHands DEF Refuse, RecordAfterPush, Holding

LEMMA SaveCommandHands ==
  ASSUME IInv, Hands, GoesOn, NEW w \in Workers, SaveCommand(w)
  PROVE  Hands'
<1>1. TypeOK /\ loop[w].pc \in Holding /\ loop[w].pc = "save"
  BY DEF IInv, SaveCommand, Holding
<1>2. PICK d \in Devices : d = loop[w].at
  BY <1>1, Holds
<1>3. loop[w].command \in DOMAIN central[d] /\ loop[w].command \in Nat /\ loop[w].command # 0
  BY <1>1, <1>2 DEF IInv, LoopsKnow, LoopKnows, TypeOK
<1> DEFINE row == [NoRetry(target[d]) EXCEPT !.command = loop[w].command]
           new == [loop[w] EXCEPT !.pc = "next", !.command = 0, !.seen[d] = 0, !.at = NoDevice]
<1>4. NoRetry(target[d]) \in Target
  BY <1>1, <1>2, RetryRows DEF TypeOK
<1>5. NoRetry(target[d]).status = target[d].status /\ NoRetry(target[d]).attempts = target[d].attempts
  BY <1>1, <1>2 DEF TypeOK, NoRetry, Target
<1>6. /\ row.command = loop[w].command /\ row.status = target[d].status
      /\ row.attempts = target[d].attempts
  BY <1>4, <1>5 DEF Target
<1>7. target' = [target EXCEPT ![d] = row] /\ loop' = [loop EXCEPT ![w] = new]
  BY <1>2 DEF SaveCommand
<1>8. new.pc = "next" /\ new.only = loop[w].only /\ new.at = NoDevice
  BY <1>1, LoopTyped DEF Loop
<1>9. new.seen = [loop[w].seen EXCEPT ![d] = 0]
  BY <1>1, LoopTyped DEF Loop
<1> HIDE DEF row, new
<1>10. target'[d] = row /\ \A e \in Devices : e # d => target'[e] = target[e]
  BY <1>1, <1>7 DEF TypeOK
<1>11. Leaves(w)
  <2>1. loop'[w] = new /\ OthersStay(w)
    BY <1>1, <1>7 DEF TypeOK, OthersStay
  <2> QED
    BY <1>1, <1>2, <1>8, <1>9, <2>1, LoopTyped DEF Leaves
<1>12. UNCHANGED <<rollout, autoRetry, central, poll, listed, crashes, switches>>
  BY DEF SaveCommand
<1>13. RolloutGoesOn
  BY <1>6, <1>10, <1>12, RolloutSame DEF Hands
<1>14. d \notin shared => Known(d)'
  <2> SUFFICES ASSUME d \notin shared
               PROVE  /\ \A n \in DOMAIN central[d] : Live(central[d][n]) =>
                           n = target'[d].command \/ n \in unheard[d]
                      /\ rollout # "cancelled" => target'[d].status = "pending"
    BY <1>12 DEF Known, GoesOn
  <2>1. ASSUME NEW n \in DOMAIN central[d], Live(central[d][n]), n \notin unheard[d]
        PROVE  n = loop[w].command
    <3>1. target[d].command = 0
      BY <1>2, ServedOnce
    <3>2. n # 0
      BY <1>1 DEF TypeOK
    <3>3. \E v \in Workers : Saves(loop[v], d, n)
      BY <2>1, <3>1, <3>2 DEF Hands, Hand, Held, Known, ToBeSaved
    <3> QED
      BY <1>2, <3>3, ServedOnce DEF Saves
  <2>2. rollout # "cancelled" => target[d].status = "pending"
    BY <1>2, ServedOnce DEF Pending
  <2> QED
    BY <1>6, <1>10, <2>1, <2>2
<1> QED
  BY <1>1, <1>2, <1>3, <1>6, <1>10, <1>11, <1>12, <1>13, <1>14, LeavesHands
  DEF RowFrame, Loose

\* a target that is sent again waits for the poll
LEMMA ScheduledRow ==
  ASSUME IInv, NEW d \in Devices, Schedule(d)
  PROVE  /\ \A e \in Devices : e # d => target'[e] = target[e]
         /\ target'[d].command = 0 /\ target'[d].retry # 0
         /\ target'[d].attempts = target[d].attempts /\ target'[d].status = target[d].status
<1> DEFINE new == [WithRetry(target[d]) EXCEPT !.command = 0]
<1>1. WithRetry(target[d]) \in Target
  BY RetryRows DEF IInv, TypeOK
<1>2. /\ new.command = 0 /\ new.retry # 0
      /\ new.attempts = target[d].attempts /\ new.status = target[d].status
  BY <1>1, RetryRows DEF IInv, TypeOK, Target
<1>3. target' = [target EXCEPT ![d] = new]
  BY DEF Schedule
<1> HIDE DEF new
<1>4. target'[d] = new /\ \A e \in Devices : e # d => target'[e] = target[e]
  BY <1>3 DEF IInv, TypeOK
<1> QED
  BY <1>2, <1>4

LEMMA DecideAfterPushHands ==
  ASSUME IInv, Hands, GoesOn, NEW w \in Workers, DecideAfterPush(w)
  PROVE  Hands'
<1>1. TypeOK /\ loop[w].pc \in Holding /\ loop[w].pc = "decide"
  BY DEF IInv, DecideAfterPush, Holding
<1>2. PICK d \in Devices : d = loop[w].at
  BY <1>1, Holds
<1>3. UNCHANGED <<rollout, autoRetry, central, poll, listed, crashes, switches>>
  BY DEF DecideAfterPush
<1>4. CASE Schedule(d) /\ Continue(w)
  <2>1. /\ \A e \in Devices : e # d => target'[e] = target[e]
        /\ target'[d].command = 0 /\ target'[d].retry # 0
        /\ target'[d].attempts = target[d].attempts /\ target'[d].status = target[d].status
    BY <1>4, ScheduledRow
  <2>2. Leaves(w)
    BY <1>4, ContinueLeaves
  <2>3. RolloutGoesOn
    BY <1>3, <2>1, RolloutSame DEF Hands
  <2>4. d \notin shared => Known(d)'
    BY <1>1, <1>2, <1>3, NoneLive DEF Known, GoesOn
  <2> QED
    BY <1>1, <1>2, <1>3, <2>1, <2>2, <2>3, <2>4, LeavesHands DEF RowFrame, Loose
<1>5. CASE Goto(w, "record") /\ UNCHANGED target
  <2> DEFINE new == [loop[w] EXCEPT !.pc = "record"]
  <2>1. /\ new.only = loop[w].only /\ new.at = loop[w].at /\ new.seen = loop[w].seen
        /\ new.pc = "record"
    BY <1>1, LoopTyped DEF Loop
  <2>2. loop' = [loop EXCEPT ![w] = new]
    BY <1>5 DEF Goto
  <2> HIDE DEF new
  <2>3. /\ OthersStay(w) /\ LoopShape(loop'[w]) /\ loop'[w].only = loop[w].only
        /\ \A e \in Devices : LoopsFrame(e)
    BY <1>1, <2>1, <2>2, GoesOnFramed
  <2>4. Shape'
    BY <1>1, <1>3, <1>5, <2>3, LoopStepShape, CentralSame, RolloutSame DEF Hands
  <2>5. \A e \in Devices : Untouched(e)
    BY <1>3, <1>5, <2>3 DEF Untouched, RowFrame, PollFrame
  <2> QED
    BY <2>4, <2>5, NoneTouched
<1> QED
  BY <1>2, <1>4, <1>5 DEF DecideAfterPush

-----------------------------------------------------------------------------
(* Steps of the poll *)

\* a poll that drops d, on to another step or not
LEMMA Dropped ==
  ASSUME IInv, NEW d, NEW pc,
         (poll' = Drop(d) /\ pc = poll.pc) \/ poll' = [Drop(d) EXCEPT !.pc = pc]
  PROVE  /\ poll'.pc = pc /\ poll'.at = NoDevice /\ poll'.claiming = poll.claiming
         /\ poll'.value = poll.value /\ poll'.outcome = poll.outcome
         /\ \A e \in Devices : poll'.seen[e] = IF e = d THEN 0 ELSE poll.seen[e]
<1> DEFINE q == Drop(d)
           r == [Drop(d) EXCEPT !.pc = pc]
<1>1. /\ q.pc = poll.pc /\ q.at = NoDevice /\ q.claiming = poll.claiming
      /\ q.value = poll.value /\ q.outcome = poll.outcome
      /\ q.seen = [poll.seen EXCEPT ![d] = 0]
  BY PollTyped DEF Drop, Polling
<1>2. q \in Polling
  BY DropKnows
<1>3. /\ r.pc = pc /\ r.at = q.at /\ r.claiming = q.claiming
      /\ r.value = q.value /\ r.outcome = q.outcome /\ r.seen = q.seen
  BY <1>2 DEF Polling
<1>4. (poll' = q /\ pc = poll.pc) \/ poll' = r
  OBVIOUS
<1> HIDE DEF q, r
<1>5. /\ poll'.pc = pc /\ poll'.at = NoDevice /\ poll'.claiming = poll.claiming
      /\ poll'.value = poll.value /\ poll'.outcome = poll.outcome
      /\ poll'.seen = [poll.seen EXCEPT ![d] = 0]
  BY <1>1, <1>3, <1>4
<1> QED
  BY <1>5, PollTyped

\* only the poll changes, and takes no target in hand
LEMMA PollOnlyHands ==
  ASSUME IInv, Hands, GoesOn, UNCHANGED <<rollout, target, central, loop, crashes>>,
         \A d \in Devices : PollFrame(d), PollShape(poll', central),
         loop[Poll].pc # "idle" => poll'.pc = "push"
  PROVE  Hands'
<1>1. Shape'
  BY PollStepShape, RolloutSame DEF Hands
<1>2. \A d \in Devices : Untouched(d)
  BY LoopsFramedSame DEF Untouched, RowFrame
<1> QED
  BY <1>1, <1>2, NoneTouched

\* the loops know nothing of what the poll takes in hand
LEMMA PollTakesHands ==
  ASSUME IInv, Hands, GoesOn, UNCHANGED <<rollout, target, central, loop, crashes>>,
         loop[Poll].pc = "idle", PollShape(poll', central),
         \A d \in Devices : poll'.seen[d] # 0 =>
           /\ d \in Pending
           /\ IF poll'.claiming THEN Waiting(target[d])
              ELSE target[d].command # 0 /\ poll'.value[d] = target[d].command
  PROVE  Hands'
<1>1. Shape'
  BY PollStepShape, RolloutSame DEF Hands
<1>2. ASSUME NEW d \in Devices, d \notin shared' PROVE Held(d)'
  <2>0. Held(d)
    BY <1>2 DEF Hands, Hand, GoesOn
  <2>1. ~Retries(loop[Poll], d)
    BY WorkersAre DEF Hands, Shape, LoopShape, Retries
  <2>2. Theirs(d)'
    BY <2>0, <2>1 DEF Held, Theirs, Retries, Loose, Waiting, Pending
  <2>3. MaySend(d)' = MaySend(d)
    BY DEF MaySend, Loose, Pending, Past
  <2>4. Known(d)'
    BY <2>0 DEF Held, Known, ToBeSaved, Saves, GoesOn
  <2> QED
    BY <2>0, <2>2, <2>3, <2>4 DEF Held, Credit
<1> QED
  BY <1>1, <1>2 DEF Hands, Hand, GoesOn

LEMMA PollStartHands ==
  ASSUME IInv, Hands, GoesOn, PollStart
  PROVE  Hands'
<1> DEFINE sent == IF rollout \in {"active", "paused"}
                   THEN {d \in Pending : target[d].command # 0} ELSE {}
           value == [d \in Devices |-> IF d \in sent THEN target[d].command ELSE 0]
           new == [poll EXCEPT !.pc = "ask", !.seen = Seen(sent), !.retrying = autoRetry,
                               !.value = value]
<1>1. poll.pc = "idle" /\ poll' = new
  BY DEF PollStart
<1>2. UNCHANGED <<rollout, target, central, loop, crashes>>
  BY DEF PollStart
<1>3. /\ new.pc = "ask" /\ new.at = poll.at /\ new.claiming = poll.claiming
      /\ new.seen = Seen(sent) /\ new.value = value
  BY PollTyped DEF Polling
<1>4. ~poll.claiming /\ poll.at = NoDevice
  BY <1>1 DEF IInv, PollKnows, Hands, Shape, PollShape
<1> HIDE DEF new
<1>5. \A d \in Devices : Seen(sent)[d] # 0 => d \in sent
  BY SeenTyped DEF IInv
<1>6. \A d \in Devices : d \in sent => d \in Pending /\ target[d].command # 0 /\ value[d] = target[d].command
  OBVIOUS
<1> HIDE DEF sent, value
<1>7. PollShape(poll', central)
  BY <1>1, <1>3, <1>4 DEF PollShape
<1>8. loop[Poll].pc = "idle"
  BY <1>1 DEF Hands, Shape, PollWaits
<1> QED
  BY <1>1, <1>2, <1>3, <1>4, <1>5, <1>6, <1>7, <1>8, PollTakesHands

LEMMA FindDueHands ==
  ASSUME IInv, Hands, GoesOn, FindDue
  PROVE  Hands'
<1> DEFINE due == {d \in Pending : rollout = "active" /\ Due(d)}
           value == [d \in Devices |-> IF d \in due THEN target[d].retry ELSE 0]
           new == [poll EXCEPT !.pc = "due", !.claiming = TRUE, !.seen = Seen(due),
                               !.retrying = autoRetry, !.value = value]
<1>1. poll.pc = "ask" /\ poll' = new
  BY DEF FindDue
<1>2. UNCHANGED <<rollout, target, central, loop, crashes>>
  BY DEF FindDue
<1>3. /\ new.pc = "due" /\ new.at = poll.at /\ new.claiming
      /\ new.seen = Seen(due)
  BY PollTyped DEF Polling
<1>4. poll.at = NoDevice
  BY <1>1 DEF Hands, Shape, PollShape
<1> HIDE DEF new
<1>5. \A d \in Devices : Seen(due)[d] # 0 => d \in due
  BY SeenTyped DEF IInv
<1>6. \A d \in Devices : d \in due => d \in Pending /\ Waiting(target[d])
  BY DEF Due, Waiting
<1> HIDE DEF due
<1>7. PollShape(poll', central)
  BY <1>1, <1>3, <1>4 DEF PollShape
<1>8. loop[Poll].pc = "idle"
  BY <1>1 DEF Hands, Shape, PollWaits
<1> QED
  BY <1>1, <1>2, <1>3, <1>5, <1>6, <1>7, <1>8, PollTakesHands

\* a target that the poll has nothing to do for
LEMMA PollDropsHands ==
  ASSUME IInv, Hands, GoesOn, NEW d \in Devices, PollLearnsNothing(d) \/ ClaimNothing(d)
  PROVE  Hands'
<1>1. poll' = Drop(d) /\ poll.pc \in {"ask", "due"}
  BY DEF PollLearnsNothing, ClaimNothing
<1>2. UNCHANGED <<rollout, target, central, loop, crashes>>
  BY DEF PollLearnsNothing, ClaimNothing
<1>3. /\ poll'.pc = poll.pc /\ poll'.at = NoDevice /\ poll'.claiming = poll.claiming
      /\ poll'.value = poll.value
      /\ \A e \in Devices : poll'.seen[e] = IF e = d THEN 0 ELSE poll.seen[e]
  BY <1>1, Dropped
<1>4. PollShape(poll', central)
  BY <1>1, <1>3 DEF Hands, Shape, PollShape
<1>5. \A e \in Devices : PollFrame(e)
  BY <1>3 DEF PollFrame
<1>6. loop[Poll].pc = "idle"
  BY <1>1 DEF Hands, Shape, PollWaits
<1> QED
  BY <1>2, <1>4, <1>5, <1>6, PollOnlyHands

\* an answer is that of the command of the row
LEMMA PollLearnsHands ==
  ASSUME IInv, Hands, GoesOn, NEW d \in Devices, PollLearns(d)
  PROVE  Hands'
<1> DEFINE outcome == central[d][poll.value[d]]
           pc == IF outcome # "success" /\ poll.retrying THEN "decide" ELSE "record"
           new == [poll EXCEPT !.at = d, !.outcome = outcome, !.pc = pc]
<1>1. poll.pc = "ask" /\ poll.seen[d] # 0 /\ outcome # "open" /\ poll' = new
  BY DEF PollLearns, Listed
<1>2. UNCHANGED <<rollout, target, central, loop, crashes>>
  BY DEF PollLearns
<1>3. /\ new.pc = pc /\ new.at = d /\ new.claiming = poll.claiming
      /\ new.seen = poll.seen /\ new.value = poll.value /\ new.outcome = outcome
  BY PollTyped DEF Polling
<1>4. ~poll.claiming
  BY <1>1 DEF IInv, PollKnows
<1>5. pc \in {"decide", "record"} /\ (pc = "decide" => outcome # "success")
  OBVIOUS
<1> HIDE DEF new, pc
<1>6. PollShape(poll', central)
  BY <1>1, <1>3, <1>4, <1>5 DEF PollShape
<1>7. \A e \in Devices : PollFrame(e)
  BY <1>1, <1>3 DEF PollFrame
<1>8. loop[Poll].pc = "idle"
  BY <1>1 DEF Hands, Shape, PollWaits
<1> QED
  BY <1>2, <1>6, <1>7, <1>8, PollOnlyHands

LEMMA PollGoesOnHands ==
  ASSUME IInv, Hands, GoesOn, PollGoesOn \/ PollEnd
  PROVE  Hands'
<1>1. UNCHANGED <<rollout, target, central, loop, crashes>>
  BY DEF PollGoesOn, PollEnd
<1>2. loop[Poll].pc = "idle"
  BY DEF PollGoesOn, PollEnd, Hands, Shape, PollWaits
<1>3. CASE PollGoesOn
  <2> DEFINE new == [poll EXCEPT !.pc = "due"]
  <2>1. /\ new.pc = "due" /\ new.at = poll.at /\ new.claiming = poll.claiming
        /\ new.seen = poll.seen /\ new.value = poll.value
    BY PollTyped DEF Polling
  <2>2. poll' = new /\ poll.pc = "push"
    BY <1>3 DEF PollGoesOn
  <2> HIDE DEF new
  <2>3. PollShape(poll', central)
    BY <2>1, <2>2 DEF Hands, Shape, PollShape
  <2>4. \A d \in Devices : PollFrame(d)
    BY <2>1, <2>2 DEF PollFrame
  <2> QED
    BY <1>1, <1>2, <2>3, <2>4, PollOnlyHands
<1>4. CASE PollEnd
  <2>1. poll' = IdlePoll
    BY <1>4 DEF PollEnd
  <2>2. IdlePoll.at = NoDevice
    BY DEF IdlePoll
  <2>3. PollShape(poll', central)
    BY <2>1, <2>2, IdleTyped DEF PollShape
  <2>4. \A d \in Devices : PollFrame(d)
    BY <2>1, IdleTyped DEF PollFrame
  <2> QED
    BY <1>1, <1>2, <2>3, <2>4, PollOnlyHands
<1> QED
  BY <1>3, <1>4

\* the poll lets go of a target
LEMMA PollLeavesHands ==
  ASSUME IInv, Hands, GoesOn, NEW d \in Devices, poll.seen[d] # 0,
         \A e \in Devices : e # d => RowFrame(e) /\ PollFrame(e),
         poll'.seen[d] = 0, PollShape(poll', central), RolloutGoesOn,
         rollout' # "cancelled" => rollout # "cancelled",
         d \notin shared =>
           ~Loose(target'[d]) /\ target'[d].attempts = target[d].attempts /\ Known(d)',
         loop[Poll].pc = "idle", UNCHANGED <<central, loop, crashes>>
  PROVE  Hands'
<1>1. Shape'
  BY PollStepShape DEF Hands
<1>2. \A e \in Devices : e # d => Untouched(e)
  BY LoopsFramedSame DEF Untouched
<1> SUFFICES ASSUME d \notin shared, d \notin shared' PROVE Held(d)'
  BY <1>1, <1>2, OneTouched
<1>3. \A w \in Workers : loop'[w].seen[d] = 0
  BY PollServes
<1>4. Len(central[d]) <= target[d].attempts + crashes
  BY DEF Hands, Hand, Held, Credit
<1> QED
  BY <1>3, <1>4, OutOfHand

\* ... and will send it again: what it was told of says that its command is not applied
LEMMA DecideAfterOutcomeHands ==
  ASSUME IInv, Hands, GoesOn, DecideAfterOutcome
  PROVE  Hands'
<1>1. poll.pc = "decide" /\ ~poll.claiming /\ loop[Poll].pc = "idle"
  BY DEF DecideAfterOutcome, IInv, PollKnows, Hands, Shape, PollWaits
<1>2. PICK d \in Devices : d = poll.at /\ poll.seen[d] # 0
  BY <1>1 DEF IInv, PollKnows, Hands, Shape, PollShape
<1>3. UNCHANGED <<rollout, autoRetry, central, loop, listed, crashes, switches>>
  BY DEF DecideAfterOutcome
<1>4. CASE SendsAgain(d, poll.seen[d], poll.outcome \in {"failed", "skipped"})
           /\ Schedule(d) /\ poll' = [Drop(d) EXCEPT !.pc = "ask"]
  <2>1. /\ \A e \in Devices : e # d => target'[e] = target[e]
        /\ target'[d].command = 0 /\ target'[d].retry # 0
        /\ target'[d].attempts = target[d].attempts /\ target'[d].status = target[d].status
    BY <1>4, ScheduledRow
  <2>2. /\ poll'.pc = "ask" /\ poll'.at = NoDevice /\ poll'.claiming = poll.claiming
        /\ poll'.value = poll.value
        /\ \A e \in Devices : poll'.seen[e] = IF e = d THEN 0 ELSE poll.seen[e]
    BY <1>4, Dropped
  <2>3. PollShape(poll', central)
    BY <2>2 DEF PollShape
  <2>4. RolloutGoesOn
    BY <1>3, <2>1, RolloutSame DEF Hands
  <2>5. d \notin shared => Known(d)'
    <3> SUFFICES ASSUME d \notin shared PROVE Known(d)'
      OBVIOUS
    <3>1. ~Live(poll.outcome) /\ poll.outcome = central[d][poll.value[d]]
      BY <1>1, <1>2, <1>4 DEF Hands, Shape, PollShape, SendsAgain, Live
    <3>2. \A n \in DOMAIN central[d] : Live(central[d][n]) => n \in unheard[d]
      BY <1>2, <3>1, PollServes
    <3> QED
      BY <1>3, <3>2 DEF Known, GoesOn
  <2> QED
    BY <1>1, <1>2, <1>3, <2>1, <2>2, <2>3, <2>4, <2>5, PollLeavesHands
    DEF RowFrame, PollFrame, Loose
<1>5. CASE UNCHANGED target /\ poll' = [poll EXCEPT !.pc = "record"]
  <2> DEFINE new == [poll EXCEPT !.pc = "record"]
  <2>1. /\ new.pc = "record" /\ new.at = poll.at /\ new.claiming = poll.claiming
        /\ new.seen = poll.seen /\ new.value = poll.value /\ new.outcome = poll.outcome
    BY PollTyped DEF Polling
  <2>2. poll' = new
    BY <1>5
  <2> HIDE DEF new
  <2>3. PollShape(poll', central)
    BY <1>1, <2>1, <2>2 DEF Hands, Shape, PollShape
  <2>4. \A e \in Devices : PollFrame(e)
    BY <2>1, <2>2 DEF PollFrame
  <2> QED
    BY <1>1, <1>3, <1>5, <2>3, <2>4, PollOnlyHands
<1> QED
  BY <1>2, <1>4, <1>5 DEF DecideAfterOutcome

LEMMA SkipResults ==
  ASSUME IInv, Hands, NEW d \in Devices, Skip(d)
  PROVE  /\ \A e \in Devices : e # d => RowFrame(e)
         /\ target'[d].command = target[d].command /\ target'[d].retry = target[d].retry
         /\ target'[d].attempts = target[d].attempts
         /\ RolloutGoesOn
         /\ rollout' # "cancelled" => rollout # "cancelled"
<1>1. CASE d \in Pending
  <2>1. target' = [target EXCEPT ![d].status = "skipped"]
    BY <1>1 DEF Skip
  <2>2. /\ \A e \in Devices : e # d => target'[e] = target[e]
        /\ target'[d].command = target[d].command /\ target'[d].retry = target[d].retry
        /\ target'[d].attempts = target[d].attempts /\ target'[d].status = "skipped"
    BY <2>1, RowGetsResult
  <2>3. rollout' = IF Pending = {d} /\ rollout = "active" THEN "completed" ELSE rollout
    BY <1>1 DEF Skip
  <2>4. rollout' \in {"completed", "cancelled"} => Pending' = {}
    <3>1. Pending' = Pending \ {d}
      BY <2>2 DEF Pending
    <3>2. rollout' \in {"completed", "cancelled"} => Pending = {d} \/ Pending = {}
      BY <2>3 DEF Hands, Shape, RolloutShape
    <3> QED
      BY <3>1, <3>2
  <2> QED
    BY <2>2, <2>3, <2>4 DEF RowFrame, RolloutGoesOn
<1>2. CASE d \notin Pending
  <2>1. UNCHANGED <<target, rollout>>
    BY <1>2 DEF Skip
  <2> QED
    BY <2>1, RolloutSame DEF RowFrame, Hands
<1> QED
  BY <1>1, <1>2

\* a result other than success is recorded when no command is left to be applied
LEMMA RecordOutcomeHands ==
  ASSUME IInv, Hands, GoesOn, RecordOutcome
  PROVE  Hands'
<1>1. poll.pc = "record" /\ loop[Poll].pc = "idle"
  BY DEF RecordOutcome, Hands, Shape, PollWaits
<1>2. PICK d \in Devices : d = poll.at /\ poll.seen[d] # 0
  BY <1>1 DEF IInv, PollKnows, Hands, Shape, PollShape
<1>3. UNCHANGED <<autoRetry, central, loop, listed, crashes, switches>>
  BY DEF RecordOutcome
<1> DEFINE pc == IF poll.claiming THEN "due" ELSE "ask"
<1>4. /\ poll'.pc = pc
      /\ poll'.at = NoDevice /\ poll'.claiming = poll.claiming
      /\ poll'.value = poll.value
      /\ \A e \in Devices : poll'.seen[e] = IF e = d THEN 0 ELSE poll.seen[e]
  <2>1. poll' = [Drop(d) EXCEPT !.pc = pc]
    BY <1>2 DEF RecordOutcome
  <2> HIDE DEF pc
  <2> QED
    BY <2>1, Dropped
<1>5. PollShape(poll', central)
  BY <1>4 DEF PollShape
<1>6. /\ \A e \in Devices : e # d => RowFrame(e)
      /\ target'[d].command = target[d].command /\ target'[d].retry = target[d].retry
      /\ target'[d].attempts = target[d].attempts
      /\ RolloutGoesOn
      /\ rollout' # "cancelled" => rollout # "cancelled"
  <2>1. CASE Skipping
    BY <1>2, <2>1, SkipResults DEF RecordOutcome
  <2>2. CASE ~Skipping
    BY <1>2, <2>2, RecordResults DEF RecordOutcome, Resulted
  <2> QED
    BY <2>1, <2>2
<1> SUFFICES ASSUME d \notin shared PROVE ~Loose(target'[d]) /\ Known(d)'
  BY <1>1, <1>2, <1>3, <1>4, <1>5, <1>6, PollLeavesHands DEF PollFrame
<1>7. ~Loose(target'[d])
  BY <1>2, <1>6, PollServes DEF Loose
<1>8. rollout' # "cancelled" /\ target'[d].status \in {"failed", "skipped"} =>
        \A n \in DOMAIN central[d] : Live(central[d][n]) => n \in unheard[d]
  <2> SUFFICES ASSUME rollout' # "cancelled", target'[d].status \in {"failed", "skipped"},
                      NEW n \in DOMAIN central[d], Live(central[d][n]), n \notin unheard[d]
               PROVE  FALSE
    OBVIOUS
  <2>1. ~poll.claiming /\ n = poll.value[d]
    BY <1>2, PollServes
  <2>2. Live(poll.outcome) /\ poll.outcome # "open"
    BY <1>1, <1>2, <2>1 DEF Hands, Shape, PollShape
  <2>3. poll.outcome = "success" /\ ~Skipping
    BY <2>2 DEF Live, Skipping
  <2>4. Resulted(d, "success")
    BY <1>2, <2>3, RecordResults DEF RecordOutcome
  <2>5. d \in Pending
    BY <1>2, <1>6 DEF Hands, Hand, Held, Theirs
  <2> QED
    BY <2>4, <2>5 DEF Resulted
<1>9. Known(d)'
  <2>1. \A n : ToBeSaved(d, n) = ToBeSaved(d, n)'
    BY <1>3 DEF ToBeSaved, Saves
  <2> QED
    BY <1>3, <1>6, <1>8, <2>1 DEF Hands, Hand, Held, Known, GoesOn
<1> QED
  BY <1>7, <1>9

\* a claim leaves a retry, of this attempt or the next
LEMMA ClaimedRow ==
  ASSUME IInv, NEW d \in Devices, NEW n,
         \/ target' = [target EXCEPT ![d] = Lease(@)] /\ n = target[d].attempts
         \/ target' = [target EXCEPT ![d] = [Lease(@) EXCEPT !.attempts = n]]
  PROVE  /\ \A e \in Devices : e # d => target'[e] = target[e]
         /\ target'[d].command = target[d].command /\ target'[d].retry # 0
         /\ target'[d].attempts = n /\ target'[d].status = target[d].status
<1> DEFINE leased == Lease(target[d])
           raised == [Lease(target[d]) EXCEPT !.attempts = n]
<1>1. target[d] \in Target
  BY RowTyped DEF IInv
<1>2. /\ leased \in Target /\ leased.command = target[d].command
      /\ leased.status = target[d].status /\ leased.retry # 0
      /\ leased.attempts = target[d].attempts
  BY <1>1, RetryRows DEF Lease
<1>3. /\ raised.command = leased.command /\ raised.attempts = n
      /\ raised.status = leased.status /\ raised.retry = leased.retry
  BY <1>2 DEF Target
<1>4. \/ target' = [target EXCEPT ![d] = leased] /\ n = target[d].attempts
      \/ target' = [target EXCEPT ![d] = raised]
  OBVIOUS
<1> HIDE DEF leased, raised
<1>5. /\ \A e \in Devices : e # d => target'[e] = target[e]
      /\ (target'[d] = leased /\ n = target[d].attempts) \/ target'[d] = raised
  BY <1>4 DEF IInv, TypeOK
<1> QED
  BY <1>2, <1>3, <1>5

LEMMA ClaimToFinishHands ==
  ASSUME IInv, Hands, GoesOn, NEW d \in Devices, ClaimToFinish(d)
  PROVE  Hands'
<1> DEFINE outcome == IF Latest(d) # 0 /\ attempt[d][Latest(d)] = "skipped"
                      THEN "skipped" ELSE "failed"
           new == [poll EXCEPT !.pc = "record", !.at = d, !.outcome = outcome]
<1>1. poll.pc = "due" /\ poll.seen[d] # 0 /\ Claimable(d) /\ poll' = new
  BY DEF ClaimToFinish, Listed
<1>2. UNCHANGED <<rollout, autoRetry, central, loop, listed, crashes, switches>>
  BY DEF ClaimToFinish
<1>3. /\ new.pc = "record" /\ new.at = d /\ new.claiming = poll.claiming
      /\ new.seen = poll.seen /\ new.value = poll.value /\ new.outcome = outcome
  BY PollTyped DEF Polling
<1>4. ~Live(outcome)
  BY DEF Live
<1> HIDE DEF outcome, new
<1>5. poll.claiming /\ loop[Poll].pc = "idle"
  BY <1>1 DEF Hands, Shape, PollShape, PollWaits
<1>6. /\ \A e \in Devices : e # d => target'[e] = target[e]
      /\ target'[d].command = target[d].command /\ target'[d].retry # 0
      /\ target'[d].attempts = target[d].attempts /\ target'[d].status = target[d].status
  BY ClaimedRow DEF ClaimToFinish
<1>7. target[d].command = 0
  BY <1>1 DEF Claimable
<1>8. PollShape(poll', central)
  BY <1>1, <1>3, <1>4, <1>5 DEF PollShape
<1>9. Shape'
  <2>1. RolloutGoesOn
    BY <1>2, <1>6, RolloutSame DEF Hands
  <2> QED
    BY <1>2, <1>5, <1>8, <2>1, PollStepShape DEF Hands
<1>10. \A e \in Devices : e # d => Untouched(e)
  BY <1>1, <1>2, <1>3, <1>6, LoopsFramedSame DEF Untouched, RowFrame, PollFrame
<1> SUFFICES ASSUME d \notin shared, d \notin shared' PROVE Held(d)'
  BY <1>9, <1>10, OneTouched
<1>0. Held(d)
  BY DEF Hands, Hand
<1>11. \A w \in Workers : loop[w].seen[d] = 0
  BY <1>1, PollServes
<1>12. loop[Poll].pc # "read"
  BY <1>5
<1>13. Theirs(d)'
  <2>1. Waiting(target'[d])
    BY <1>6, <1>7 DEF Waiting
  <2>2. (d \in Pending)'
    BY <1>1, <1>6 DEF Claimable, Pending
  <2> QED
    BY <1>1, <1>2, <1>3, <1>5, <1>11, <1>12, <2>1, <2>2, WorkersAre DEF Theirs, Retries, Waiting
<1>14. ~MaySend(d)'
  BY <1>2, <1>6, <1>11, <1>12, WorkersAre DEF MaySend, Loose
<1>15. Credit(d)'
  BY <1>0, <1>2, <1>6, <1>14 DEF Held, Credit
<1>16. Known(d)'
  <2>1. \A n : ToBeSaved(d, n) = ToBeSaved(d, n)'
    BY <1>2 DEF ToBeSaved, Saves
  <2> QED
    BY <1>0, <1>2, <1>6, <2>1 DEF Held, Known, GoesOn
<1> QED
  BY <1>13, <1>15, <1>16 DEF Held

\* the loop of the retry may send one command more, for an attempt more
LEMMA ClaimToSendHands ==
  ASSUME IInv, Hands, GoesOn, NEW d \in Devices, ClaimToSend(d)
  PROVE  Hands'
<1> DEFINE new == [IdleLoop EXCEPT !.pc = "read", !.only = d]
<1>1. /\ poll.pc = "due" /\ poll.seen[d] # 0 /\ Claimable(d)
      /\ poll' = [Drop(d) EXCEPT !.pc = "push"]
      /\ loop' = [loop EXCEPT ![Poll] = new]
  BY DEF ClaimToSend, Listed, Start
<1>2. UNCHANGED <<rollout, autoRetry, central, listed, crashes, switches>>
  BY DEF ClaimToSend
<1>3. /\ new.pc = "read" /\ new.only = d /\ new.at = NoDevice
      /\ \A e \in Devices : new.seen[e] = 0
  BY DEF IdleLoop, Nobody
<1> HIDE DEF new
<1>4. loop'[Poll] = new /\ \A v \in Workers : v # Poll => loop'[v] = loop[v]
  BY <1>1, WorkersAre DEF IInv, TypeOK
<1>5. /\ poll'.pc = "push" /\ poll'.at = NoDevice /\ poll'.claiming = poll.claiming
      /\ poll'.value = poll.value
      /\ \A e \in Devices : poll'.seen[e] = IF e = d THEN 0 ELSE poll.seen[e]
  BY <1>1, Dropped
<1>6. poll.claiming /\ loop[Poll].pc = "idle"
  BY <1>1 DEF Hands, Shape, PollShape, PollWaits
<1>7. /\ \A e \in Devices : e # d => target'[e] = target[e]
      /\ target'[d].command = target[d].command /\ target'[d].retry # 0
      /\ target'[d].attempts = poll.seen[d] + 1 /\ target'[d].status = target[d].status
  BY ClaimedRow DEF ClaimToSend
<1>8. target[d].command = 0 /\ d \in Pending /\ target[d].attempts = poll.seen[d]
  BY <1>1 DEF Claimable
<1>9. d # NoDevice
  BY NoDeviceIsNone
<1>10. Shape'
  <2>2. PollShape(poll, central)'
    BY <1>5, <1>6 DEF PollShape
  <2>3. RolloutShape'
    BY <1>2, <1>4, <1>7, WorkersAre, PollIsNoRequest DEF Hands, Shape, RolloutShape, Pending
  <2>4. PollWaits'
    BY <1>3, <1>4, <1>5, <1>9 DEF PollWaits
  <2>5. \A v \in Workers : LoopShape(loop'[v])
    BY <1>3, <1>4 DEF Hands, Shape, LoopShape
  <2> QED
    BY <2>2, <2>3, <2>4, <2>5 DEF Shape, LoopShape
<1>11. ASSUME NEW e \in Devices, e # d PROVE Untouched(e)
  <2>1. LoopFrame(loop[Poll], loop'[Poll], e) /\ RetryFrame(loop[Poll], loop'[Poll], e)
    BY <1>3, <1>4, <1>6, <1>11 DEF LoopFrame, RetryFrame, Past, Saves
  <2>2. LoopsFrame(e)
    BY <1>4, <2>1, WorkersAre, LoopsFramed DEF OthersStay
  <2> QED
    BY <1>2, <1>5, <1>7, <1>11, <2>2 DEF Untouched, RowFrame, PollFrame
<1> SUFFICES ASSUME d \notin shared, d \notin shared' PROVE Held(d)'
  BY <1>10, <1>11, OneTouched
<1>0. Held(d)
  BY DEF Hands, Hand
<1>12. \A w \in Workers : loop[w].seen[d] = 0 /\ loop[w].at # d /\ loop'[w].seen[d] = 0
  BY <1>1, <1>3, <1>4, PollServes
<1>13. Theirs(d)'
  <2>1. Waiting(target'[d])
    BY <1>7, <1>8 DEF Waiting
  <2> QED
    BY <1>3, <1>4, <1>5, <1>12, <2>1, WorkersAre DEF Theirs, Retries, Waiting
<1>14. Credit(d)'
  <2>1. Len(central[d]) <= target[d].attempts + crashes
    BY <1>0 DEF Held, Credit
  <2>2. target[d].attempts \in Nat /\ crashes \in Nat /\ Len(central[d]) \in Nat
    BY RowTyped DEF IInv, TypeOK
  <2>3. Len(central[d]) < target'[d].attempts + crashes
    BY <1>7, <1>8, <2>1, <2>2
  <2> QED
    BY <1>2, <1>7, <1>8, <2>2, <2>3 DEF Credit
<1>15. Known(d)'
  <2>1. \A n : ~ToBeSaved(d, n)
    BY <1>12 DEF ToBeSaved, Saves
  <2> QED
    BY <1>0, <1>2, <1>7, <2>1 DEF Held, Known, GoesOn
<1> QED
  BY <1>13, <1>14, <1>15 DEF Held

-----------------------------------------------------------------------------
(* The other steps *)

\* a rollout that is cancelled decides all its targets, whoever serves them
LEMMA CancelHands ==
  ASSUME IInv, Hands, GoesOn, Cancel
  PROVE  Hands'
<1>1. UNCHANGED <<autoRetry, attempt, central, loop, poll, crashes, switches>>
  BY DEF Cancel
<1>2. rollout' = "cancelled"
  BY DEF Cancel
<1>3. ASSUME NEW d \in Devices
      PROVE  /\ target'[d].command = target[d].command /\ target'[d].retry = target[d].retry
             /\ target'[d].attempts = target[d].attempts
             /\ target'[d].status # "pending"
  <2>1. CASE d \in Pending
    <3>1. target'[d] = [target[d] EXCEPT !.status = "failed"]
      BY <2>1 DEF Cancel
    <3> QED
      BY <3>1, RowTyped DEF IInv, Target
  <2>2. CASE d \notin Pending
    <3>1. target'[d] = target[d]
      BY <2>2 DEF Cancel
    <3> QED
      BY <2>2, <3>1 DEF Pending
  <2> QED
    BY <2>1, <2>2
<1>4. Shape'
  <2>1. RolloutGoesOn
    BY <1>2, <1>3 DEF RolloutGoesOn, Pending
  <2>2. PollShape(poll', central') /\ (loop[Poll].pc # "idle" => poll'.pc = "push")
    BY <1>1 DEF Hands, Shape, PollShape, PollWaits
  <2> QED
    BY <1>1, <2>1, <2>2, PollStepShape DEF Hands
<1>5. ASSUME NEW d \in Devices, d \notin shared' PROVE Held(d)'
  <2>0. Held(d)
    BY <1>5 DEF Hands, Hand, GoesOn
  <2>1. Theirs(d)'
    BY <1>1, <1>2, <1>3, <2>0 DEF Held, Theirs, Retries, Loose, Waiting
  <2>2. MaySend(d)' => MaySend(d)
    BY <1>1, <1>3 DEF MaySend, Loose, Pending, Past
  <2>3. Known(d)'
    <3>1. \A n : ToBeSaved(d, n) = ToBeSaved(d, n)'
      BY <1>1 DEF ToBeSaved, Saves
    <3> QED
      BY <1>1, <1>2, <1>3, <2>0, <3>1 DEF Held, Known, GoesOn
  <2> QED
    BY <1>1, <1>3, <2>0, <2>1, <2>2, <2>3 DEF Held, Credit
<1> QED
  BY <1>4, <1>5 DEF Hands, Hand, GoesOn

\* nothing that matters here changes
LEMMA QuietHands ==
  ASSUME IInv, Hands, GoesOn, UNCHANGED <<rollout, central, loop, poll, crashes>>,
         \A d \in Devices : RowFrame(d)
  PROVE  Hands'
<1>1. Shape'
  <2>1. RolloutGoesOn
    BY RolloutSame DEF Hands, RowFrame
  <2>2. PollShape(poll', central') /\ (loop[Poll].pc # "idle" => poll'.pc = "push")
    BY DEF Hands, Shape, PollShape, PollWaits
  <2> QED
    BY <2>1, <2>2, PollStepShape DEF Hands
<1>2. \A d \in Devices : Untouched(d)
  BY LoopsFramedSame DEF Untouched, PollFrame
<1> QED
  BY <1>1, <1>2, NoneTouched

LEMMA TimePassesHands ==
  ASSUME IInv, Hands, GoesOn, NEW d \in Devices, TimePasses(d)
  PROVE  Hands'
<1> DEFINE new == [target[d] EXCEPT !.due = TRUE]
<1>1. UNCHANGED <<rollout, central, loop, poll, crashes>>
  BY DEF TimePasses
<1>2. target' = [target EXCEPT ![d] = new]
  BY DEF TimePasses
<1>3. /\ new.command = target[d].command /\ new.retry = target[d].retry
      /\ new.attempts = target[d].attempts /\ new.status = target[d].status
  BY RowTyped DEF IInv, Target
<1> HIDE DEF new
<1>4. \A e \in Devices : target'[e] = IF e = d THEN new ELSE target[e]
  BY <1>2 DEF IInv, TypeOK
<1>5. \A e \in Devices : RowFrame(e)
  BY <1>3, <1>4 DEF RowFrame
<1> QED
  BY <1>1, <1>5, QuietHands

\* a command that ends may have been applied only if it might before
LEMMA CommandEndsHands ==
  ASSUME IInv, Hands, GoesOn, NEW d \in Devices, CommandEnds(d)
  PROVE  Hands'
<1>1. UNCHANGED <<rollout, autoRetry, target, attempt, loop, poll, listed, crashes, switches>>
  BY DEF CommandEnds
<1>2. PICK c \in DOMAIN central[d], outcome \in Outcomes \ {"open"} :
        central[d][c] = "open" /\ central' = [central EXCEPT ![d][c] = outcome]
  BY DEF CommandEnds
<1>3. central[d] \in Seq(Outcomes)
  BY DEF IInv, TypeOK
<1>4. \A e \in Devices : central'[e] = IF e = d THEN [central[d] EXCEPT ![c] = outcome]
                                       ELSE central[e]
  BY <1>2 DEF IInv, TypeOK
<1>5. [central[d] EXCEPT ![c] = outcome] \in Seq(Outcomes)
      /\ Len([central[d] EXCEPT ![c] = outcome]) = Len(central[d])
  BY <1>3
<1>6. \A e \in Devices : /\ Len(central'[e]) = Len(central[e])
                         /\ DOMAIN central'[e] = DOMAIN central[e]
  BY <1>4, <1>5
<1>7. \A e \in Devices : \A n \in DOMAIN central[e] :
        /\ Live(central'[e][n]) => Live(central[e][n])
        /\ central[e][n] # "open" => central'[e][n] = central[e][n]
  BY <1>2, <1>4 DEF Live
<1>8. Shape'
  <2>1. RolloutGoesOn
    BY <1>1, RolloutSame DEF Hands
  <2>2. poll.pc \in {"decide", "record"} /\ ~poll.claiming =>
          poll.at \in Devices /\ poll.value[poll.at] \in DOMAIN central[poll.at]
    BY DEF IInv, PollKnows, Hands, Shape, PollShape
  <2>3. PollShape(poll', central') /\ (loop[Poll].pc # "idle" => poll'.pc = "push")
    BY <1>1, <1>7, <2>2 DEF Hands, Shape, PollShape, PollWaits
  <2> QED
    BY <1>1, <2>1, <2>3, PollStepShape DEF Hands
<1>9. ASSUME NEW e \in Devices, e \notin shared' PROVE Held(e)'
  <2>0. Held(e)
    BY <1>9 DEF Hands, Hand, GoesOn
  <2>1. Theirs(e)'
    BY <1>1, <2>0 DEF Held, Theirs, Retries, Loose, Waiting, Pending
  <2>2. MaySend(e)' = MaySend(e)
    BY <1>1 DEF MaySend, Loose, Pending, Past
  <2>3. Known(e)'
    <3>1. \A n : ToBeSaved(e, n) = ToBeSaved(e, n)'
      BY <1>1 DEF ToBeSaved, Saves
    <3> QED
      BY <1>1, <1>6, <1>7, <2>0, <3>1 DEF Held, Known, GoesOn
  <2> QED
    BY <1>1, <1>6, <2>0, <2>1, <2>2, <2>3 DEF Held, Credit
<1> QED
  BY <1>8, <1>9 DEF Hands, Hand, GoesOn

\* a restart lets go of every target, and each may get one command more
LEMMA CrashHands ==
  ASSUME IInv, Hands, GoesOn, Crash
  PROVE  Hands'
<1>1. UNCHANGED <<rollout, autoRetry, target, attempt, central, listed, switches>>
  BY DEF Crash
<1>2. /\ \A w \in Workers : loop'[w] = IdleLoop
      /\ poll' = IdlePoll /\ crashes' = crashes + 1
  BY DEF Crash
<1>3. /\ IdleLoop.pc = "idle" /\ IdleLoop.at = NoDevice /\ IdlePoll.at = NoDevice
      /\ \A d \in Devices : IdleLoop.seen[d] = 0
  BY DEF IdleLoop, IdlePoll, Nobody
<1>4. crashes \in Nat
  BY DEF IInv, TypeOK
<1>5. Shape'
  <2>1. PollShape(poll, central)'
    BY <1>2, <1>3, IdleTyped DEF PollShape
  <2>2. PollWaits' /\ \A w \in Workers : LoopShape(loop'[w])
    BY <1>2, <1>3, WorkersAre DEF PollWaits, LoopShape
  <2>3. RolloutShape'
    BY <1>1, <1>2, <1>3, WorkersAre DEF Hands, Shape, RolloutShape, Pending
  <2> QED
    BY <2>1, <2>2, <2>3 DEF Shape, LoopShape
<1>6. ASSUME NEW d \in Devices, d \notin shared' PROVE Held(d)'
  <2>0. Held(d)
    BY <1>6 DEF Hands, Hand, GoesOn
  <2>1. Theirs(d)'
    BY <1>2, <1>3, IdleTyped, WorkersAre DEF Theirs, Retries
  <2>2. Credit(d)'
    <3>1. Len(central[d]) <= target[d].attempts + crashes
      BY <2>0 DEF Held, Credit
    <3>2. target[d].attempts \in Nat /\ Len(central[d]) \in Nat
      BY RowTyped DEF IInv, TypeOK
    <3>3. Len(central[d]) < target[d].attempts + (crashes + 1)
      BY <1>4, <3>1, <3>2
    <3> QED
      BY <1>1, <1>2, <1>4, <3>2, <3>3 DEF Credit
  <2>3. Known(d)'
    <3>1. \A n : ~ToBeSaved(d, n)'
      BY <1>2, <1>3, SavingNext DEF Saves
    <3>2. \A n \in DOMAIN central[d] : ToBeSaved(d, n) => n = target[d].command \/ n \in Given(d)
      BY <1>1, <3>1 DEF Given
    <3> QED
      BY <1>1, <2>0, <3>2 DEF Held, Known, GoesOn
  <2> QED
    BY <2>1, <2>2, <2>3 DEF Held
<1> QED
  BY <1>5, <1>6 DEF Hands, Hand, GoesOn

-----------------------------------------------------------------------------
(* Every step *)

LEMMA InitHands == HistoryInit => Hands
<1> SUFFICES ASSUME HistoryInit PROVE Hands
  OBVIOUS
<1>1. /\ \A w \in Workers : loop[w] = IdleLoop
      /\ poll = IdlePoll /\ crashes = 0 /\ rollout = "approved"
      /\ \A d \in Devices : /\ central[d] = <<>>
                            /\ target[d].attempts = 1 /\ target[d].status = "pending"
  BY DEF HistoryInit, Init
<1>2. /\ IdleLoop.pc = "idle" /\ IdleLoop.at = NoDevice /\ IdlePoll.at = NoDevice
      /\ \A d \in Devices : IdleLoop.seen[d] = 0
  BY DEF IdleLoop, IdlePoll, Nobody
<1>3. Shape
  BY <1>1, <1>2, IdleTyped, WorkersAre
  DEF Shape, PollShape, RolloutShape, PollWaits, LoopShape
<1>4. ASSUME NEW d \in Devices PROVE Alone(d) /\ Held(d)
  <2>1. Len(central[d]) = 0 /\ DOMAIN central[d] = {}
    BY <1>1
  <2>2. Theirs(d)
    BY <1>1, <1>2, IdleTyped, WorkersAre DEF Theirs, Retries
  <2>3. Alone(d)
    BY <1>1, <1>2, WorkersAre DEF Alone, OnList
  <2> QED
    BY <1>1, <2>1, <2>2, <2>3 DEF Held, Credit, Known
<1> QED
  BY <1>3, <1>4 DEF Hands, Hand

LEMMA NextHands == ASSUME IInv, Hands, GoesOn, Next PROVE Hands'
<1>1. ASSUME NEW w \in Workers, LoopStep(w) PROVE Hands'
  BY <1>1, ReadTargetsHands, NextTargetHands, RefuseHands, SendHands, SendInVainHands,
     SaveCommandHands, DecideAfterPushHands DEF LoopStep
<1>2. CASE PollStep
  BY <1>2, PollStartHands, DecideAfterOutcomeHands, RecordOutcomeHands, FindDueHands,
     PollGoesOnHands, PollDropsHands, PollLearnsHands, ClaimToFinishHands,
     ClaimToSendHands DEF PollStep
<1>3. CASE Switch
  BY <1>3, QuietHands DEF Switch, RowFrame
<1> QED
  BY <1>1, <1>2, <1>3, ReleaseHands, CancelHands, CrashHands, TimePassesHands,
     CommandEndsHands DEF Next

LEMMA StutterHands == ASSUME Hands, UNCHANGED historyVars PROVE Hands'
<1>1. UNCHANGED <<rollout, target, central, loop, poll, crashes, shared, unheard>>
  BY DEF historyVars, history, vars
<1>2. Shape'
  BY <1>1 DEF Hands, Shape, PollShape, RolloutShape, PollWaits, LoopShape, Pending
<1>3. ASSUME NEW d \in Devices PROVE Hand(d)'
  <2>1. Alone(d)' = Alone(d)
    BY <1>1 DEF Alone, OnList
  <2>2. Theirs(d)' = Theirs(d)
    BY <1>1 DEF Theirs, Retries, Loose, Waiting, Pending
  <2>3. Credit(d)' = Credit(d)
    BY <1>1 DEF Credit, MaySend, Loose, Pending, Past
  <2>4. Known(d)' = Known(d)
    BY <1>1 DEF Known, ToBeSaved, Saves
  <2> QED
    BY <1>1, <2>1, <2>2, <2>3, <2>4 DEF Hands, Hand, Held
<1> QED
  BY <1>2, <1>3 DEF Hands

LEMMA HandsAlways == HistorySpec => [](IInv /\ Hands)
<1>1. HistoryInit => IInv /\ Hands
  BY InitKept, InitHands DEF HistoryInit
<1>2. IInv /\ Hands /\ [HistoryNext]_historyVars => IInv' /\ Hands'
  <2> SUFFICES ASSUME IInv, Hands, [HistoryNext]_historyVars PROVE IInv' /\ Hands'
    OBVIOUS
  <2>1. CASE Next /\ Remember
    BY <2>1, NextKept, NextHands, Remembering
  <2>2. CASE UNCHANGED historyVars
    BY <2>2, NextKept, StutterHands DEF historyVars
  <2> QED
    BY <2>1, <2>2 DEF HistoryNext, Next
<1> QED
  BY <1>1, <1>2, PTL DEF HistorySpec

\* However many requests release and resume the rollout, whatever answers are lost
\* and however often the backend restarts: a target that no two loops had before
\* them together is in the hands of at most one loop or the poll, because
\* autoApplyConfig takes rows without centralCommandId and nextRetryAt, poll and
\* processDueRetries those with one.
THEOREM OneHand == HistorySpec => []OneHolderInTurn
<1>1. ASSUME IInv, Hands, NEW d \in Devices, d \notin shared
      PROVE  HasOneHolder(d)
  <2>1. CASE \E w \in Workers : loop[w].at = d
    <3>1. PICK w \in Workers : loop[w].at = d
      BY <2>1
    <3>2. {v \in Workers : loop[v].at = d} = {w} /\ poll.at # d
      BY <1>1, <3>1, ServedOnce
    <3>3. Cardinality({v \in Workers : loop[v].at = d}) = 1
      BY <3>2, FS_Singleton
    <3> QED
      BY <3>2, <3>3 DEF HasOneHolder
  <2>2. CASE ~\E w \in Workers : loop[w].at = d
    <3>1. {v \in Workers : loop[v].at = d} = {}
      BY <2>2
    <3>2. Cardinality({v \in Workers : loop[v].at = d}) = 0
      BY <3>1, FS_EmptySet
    <3> QED
      BY <3>2 DEF HasOneHolder
  <2> QED
    BY <2>1, <2>2
<1>2. IInv /\ Hands => OneHolderInTurn
  BY <1>1 DEF OneHolderInTurn
<1> QED
  BY <1>2, HandsAlways, PTL

\* Such a target leads to no more commands than it has attempts and the backend
\* had restarts: a command is sent only on the credit of an attempt, and a row that
\* was sent and may be sent again is counted up first (claimOne).
THEOREM OneCommandPerAttempt == HistorySpec => []SentOnceInTurn
<1>1. Hands => SentOnceInTurn
  BY DEF Hands, Hand, Held, Credit, SentOnceInTurn, IsSentOncePerAttempt
<1> QED
  BY <1>1, HandsAlways, PTL

\* Before the first restart no target of an active rollout is forgotten.  Such a
\* target that is recorded as failed or skipped is applied by its device only
\* through a command whose number was lost, with the answer to the PUT
\* (CentralDeviceService.pushConfig) or by a restart before it was saved.
THEOREM HarmIsExplained == HistorySpec => []HarmHasItsCause
<1>1. IInv /\ Hands => HarmHasItsCause
  <2>1. IInv => (crashes = 0 => NobodyForgotten)
    BY DEF IInv, RemembersAll
  <2>2. Hands => AppliedOnlyUnheard
    BY DEF Hands, Hand, Held, Known, Live, AppliedOnlyUnheard
  <2> QED
    BY <2>1, <2>2 DEF HarmHasItsCause
<1> QED
  BY <1>1, HandsAlways, PTL
=============================================================================
