------------------------ MODULE RolloutResultsProofs ------------------------
(* Proofs about RolloutResults and, at the end, SerialResults, for any number *)
(* of devices and workers.                                                    *)
EXTENDS SerialResults, FiniteSetTheorems, TLAPS

\* How many targets have a status, in any view of them, is a number, and it is
\* zero exactly when none has it
LEMMA HavingCount ==
  ASSUME NEW view \in [Devices -> Target], NEW s
  PROVE  /\ Cardinality(Having(view, s)) \in Nat
         /\ Cardinality(Having(view, s)) = 0 <=> Having(view, s) = {}
<1>1. IsFiniteSet(Having(view, s))
  BY DevicesFinite, FS_Subset DEF Having
<1> QED
  BY <1>1, FS_CardinalityType, FS_EmptySet

\* A transaction sees well-formed targets
LEMMA SeenType ==
  ASSUME TypeOK, NEW w \in Workers, worker[w].dev \in Devices
  PROVE  /\ ClaimedTarget(w) \in Target
         /\ Seen(w) \in [Devices -> Target]
<1>1. worker[w] \in Worker /\ target[worker[w].dev] \in Target
  BY DEF TypeOK
<1>2. ClaimedTarget(w) \in Target
  BY <1>1 DEF ClaimedTarget, Target, Worker
<1> QED
  BY <1>2 DEF Seen, TypeOK

LEMMA RecentCount ==
  ASSUME TypeOK, NEW w \in Workers, worker[w].dev \in Devices
  PROVE  Cardinality(RecentFailures(w)) \in Nat
<1>1. RecentFailures(w) \subseteq Devices
  BY DEF RecentFailures, Having
<1> QED
  BY <1>1, DevicesFinite, FS_Subset, FS_CardinalityType

-----------------------------------------------------------------------------
(* The inductive invariant, on worker records *)

\* a worker's operation fits the step it is at, and it serves a device
Fits(r) ==
  /\ r.pc # "idle" => r.dev \in Devices
  /\ r.pc = "mark" => r.op \in {"pull", "report"}
  /\ r.pc = "find" => r.op \in {"report", "expire"}
  /\ r.pc \in {"claim"} \cup InTx => r.op \in {"report", "expire", "late", "skip"}
  /\ r.pc \in {"mark", "find", "claim"} \cup InTx =>
       (r.result = "skipped_offline" <=> r.op = "skip")

\* a transaction's target keeps, for all others, the status that was claimed
Holds(r) ==
  r.pc \in InTx =>
    /\ target[r.dev].status = IF r.op = "late" THEN "skipped_offline" ELSE "pending"
    /\ r.op = "skip" => ~target[r.dev].pulled

\* a transaction that counted nobody waiting is right about all the others
CountsRight(r) ==
  r.pc \in {"recent", "write"} /\ r.pending = 0 =>
    \A d \in Devices \ {r.dev} : target[d].status # "pending"

RowsAreHeldOnce ==
  \A v, w \in Workers :
    v # w /\ worker[v].pc \in InTx /\ worker[w].pc \in InTx => worker[v].dev # worker[w].dev

CancelsOpen == RolloutLocked => rollout.status \in Open

HandedOutIsPulled ==
  \A d \in delivered : target[d].status = "pending" => target[d].pulled

IInv ==
  /\ TypeOK
  /\ \A w \in Workers : Fits(worker[w]) /\ Holds(worker[w]) /\ CountsRight(worker[w])
  /\ RowsAreHeldOnce
  /\ NoneWaitsInClosed
  /\ CancelsOpen
  /\ HandedOutIsPulled

LEMMA IdleIsFine == /\ IdleWorker \in Worker
                    /\ Fits(IdleWorker)
                    /\ IdleWorker.pc = "idle"
BY DEF IdleWorker, Worker, Fits, InTx, Decided, Open

LEMMA InitInv == Init => IInv
<1> SUFFICES ASSUME Init PROVE IInv
  OBVIOUS
<1>1. TypeOK
  BY IdleIsFine DEF Init, TypeOK, Rollout, Target, Open, Closed, Decided
<1>2. \A w \in Workers : Fits(worker[w]) /\ Holds(worker[w]) /\ CountsRight(worker[w])
  BY IdleIsFine DEF Init, Holds, CountsRight, InTx
<1>3. RowsAreHeldOnce
  BY IdleIsFine DEF Init, RowsAreHeldOnce, InTx
<1>4. NoneWaitsInClosed /\ CancelsOpen /\ HandedOutIsPulled
  BY DEF Init, NoneWaitsInClosed, CancelsOpen, HandedOutIsPulled, RolloutLocked, Closed, Open
<1> QED
  BY <1>1, <1>2, <1>3, <1>4 DEF IInv

-----------------------------------------------------------------------------
(* Steps that only change the record of one worker *)

\* They keep the invariant if the new record fits and, when it is in a
\* transaction, holds a row nobody else holds
LEMMA RecordStep ==
  ASSUME IInv, NEW w \in Workers, NEW new \in Worker,
         worker' = [worker EXCEPT ![w] = new],
         UNCHANGED <<rollout, target, delivered, rollback>>,
         Fits(new), Holds(new), CountsRight(new),
         new.pc \in InTx =>
           \A v \in Workers \ {w} : worker[v].pc \in InTx => worker[v].dev # new.dev
  PROVE  IInv'
<1>1. TypeOK'
  BY DEF IInv, TypeOK
<1>2. \A v \in Workers : worker'[v] = IF v = w THEN new ELSE worker[v]
  BY DEF IInv, TypeOK
<1>3. \A v \in Workers : Fits(worker'[v])
  BY <1>2 DEF IInv, Fits
<1>4. \A v \in Workers : Holds(worker[v])'
  BY <1>2 DEF IInv, Holds
<1>5. \A v \in Workers : CountsRight(worker[v])'
  BY <1>2 DEF IInv, CountsRight
<1>6. RowsAreHeldOnce'
  BY <1>2 DEF IInv, RowsAreHeldOnce
<1>7. NoneWaitsInClosed' /\ CancelsOpen' /\ HandedOutIsPulled'
  BY DEF IInv, NoneWaitsInClosed, CancelsOpen, HandedOutIsPulled, RolloutLocked
<1>8. (\A v \in Workers : Fits(worker[v]))'
  BY <1>3 DEF Fits
<1> QED
  BY <1>1, <1>4, <1>5, <1>6, <1>7, <1>8 DEF IInv

\* the record a request leaves its worker with
Starts(new) ==
  /\ new \in Worker /\ new.dev \in Devices
  /\ \/ new.pc = "mark" /\ new.op \in {"pull", "report"} /\ new.result # "skipped_offline"
     \/ new.pc = "find" /\ new.op \in {"report", "expire"} /\ new.result # "skipped_offline"
     \/ new.pc = "claim" /\ new.op = "late" /\ new.result # "skipped_offline"
     \/ new.pc = "claim" /\ new.op = "skip" /\ new.result = "skipped_offline"
     \/ new.pc = "note"

\* Whatever a request reads first, the record it starts with is well formed
LEMMA RequestStarts ==
  ASSUME NEW w \in Workers, Request(w)
  PROVE  /\ \E new : Starts(new) /\ worker' = [worker EXCEPT ![w] = new]
         /\ UNCHANGED <<rollout, target, delivered, rollback>>
<1> USE DEF Begin
<1>1. PICK d \in Devices :
        \/ ListJob(w, d) \/ RefuseJob(w, d)
        \/ \E result \in {"success", "failed"} :
             ReportPending(w, d, result) \/ ReportSkipped(w, d, result)
        \/ ReportClosed(w, d)
        \/ SkipOverdue(w, d) \/ ExpireSilent(w, d)
  BY DEF Request
<1>2. ASSUME NEW pc \in {"mark", "find", "claim", "note"},
             NEW op \in {"pull", "report", "expire", "late", "skip"}, NEW result \in Decided
      PROVE  /\ Job(pc, op, d, result) \in Worker
             /\ Job(pc, op, d, result).pc = pc
             /\ Job(pc, op, d, result).op = op
             /\ Job(pc, op, d, result).dev = d
             /\ Job(pc, op, d, result).result = result
  BY <1>2 DEF Job, IdleWorker, Worker, Decided, Open
<1>3. CASE ListJob(w, d)
  <2>1. worker' = [worker EXCEPT ![w] = Job("mark", "pull", d, "failed")]
    BY <1>3 DEF ListJob
  <2>2. Starts(Job("mark", "pull", d, "failed"))
    BY <1>2 DEF Starts, Decided
  <2> QED
    BY <2>1, <2>2, <1>3 DEF ListJob
<1>4. CASE RefuseJob(w, d)
  <2>1. worker' = [worker EXCEPT ![w] = Job("find", "expire", d, "failed")]
    BY <1>4 DEF RefuseJob
  <2>2. Starts(Job("find", "expire", d, "failed"))
    BY <1>2 DEF Starts, Decided
  <2> QED
    BY <2>1, <2>2, <1>4 DEF RefuseJob
<1>5. ASSUME NEW result \in {"success", "failed"}, ReportPending(w, d, result)
      PROVE  /\ \E new : Starts(new) /\ worker' = [worker EXCEPT ![w] = new]
             /\ UNCHANGED <<rollout, target, delivered, rollback>>
  <2>1. PICK pc \in {"mark", "find"} : worker' = [worker EXCEPT ![w] = Job(pc, "report", d, result)]
    BY <1>5 DEF ReportPending
  <2>2. Starts(Job(pc, "report", d, result))
    BY <1>2 DEF Starts, Decided
  <2> QED
    BY <2>1, <2>2, <1>5 DEF ReportPending
<1>6. ASSUME NEW result \in {"success", "failed"}, ReportSkipped(w, d, result)
      PROVE  /\ \E new : Starts(new) /\ worker' = [worker EXCEPT ![w] = new]
             /\ UNCHANGED <<rollout, target, delivered, rollback>>
  <2>1. worker' = [worker EXCEPT ![w] = Job("claim", "late", d, result)]
    BY <1>6 DEF ReportSkipped
  <2>2. Starts(Job("claim", "late", d, result))
    BY <1>2 DEF Starts, Decided
  <2> QED
    BY <2>1, <2>2, <1>6 DEF ReportSkipped
<1>7. CASE ReportClosed(w, d)
  <2>1. worker' = [worker EXCEPT ![w] = Job("note", "report", d, "failed")]
    BY <1>7 DEF ReportClosed
  <2>2. Starts(Job("note", "report", d, "failed"))
    BY <1>2 DEF Starts, Decided
  <2> QED
    BY <2>1, <2>2, <1>7 DEF ReportClosed
<1>8. CASE SkipOverdue(w, d)
  <2>1. worker' = [worker EXCEPT ![w] = Job("claim", "skip", d, "skipped_offline")]
    BY <1>8 DEF SkipOverdue
  <2>2. Starts(Job("claim", "skip", d, "skipped_offline"))
    BY <1>2 DEF Starts, Decided
  <2> QED
    BY <2>1, <2>2, <1>8 DEF SkipOverdue
<1>9. CASE ExpireSilent(w, d)
  <2>1. worker' = [worker EXCEPT ![w] = Job("find", "expire", d, "failed")]
    BY <1>9 DEF ExpireSilent
  <2>2. Starts(Job("find", "expire", d, "failed"))
    BY <1>2 DEF Starts, Decided
  <2> QED
    BY <2>1, <2>2, <1>9 DEF ExpireSilent
<1> QED
  BY <1>1, <1>3, <1>4, <1>5, <1>6, <1>7, <1>8, <1>9

LEMMA RequestInv == ASSUME IInv, NEW w \in Workers, Request(w) PROVE IInv'
<1>1. PICK new : Starts(new) /\ worker' = [worker EXCEPT ![w] = new]
  BY RequestStarts
<1>2. UNCHANGED <<rollout, target, delivered, rollback>>
  BY RequestStarts
<1>3. new \in Worker /\ new.pc \notin InTx /\ Fits(new)
  BY <1>1 DEF Starts, Fits, InTx
<1> QED
  BY <1>1, <1>2, <1>3, RecordStep DEF Holds, CountsRight, InTx

\* A request that records nothing ends, or goes on to note what it was told
LEMMA GiveUpInv ==
  ASSUME IInv, NEW w \in Workers, worker[w].pc # "idle", GiveUp(w),
         UNCHANGED <<rollout, target, delivered, rollback>>
  PROVE  IInv'
<1>1. worker[w].dev \in Devices
  BY DEF IInv, Fits
<1>2. LET note == Job("note", "report", worker[w].dev, "failed")
      IN  note \in Worker /\ note.pc = "note" /\ Fits(note)
  BY <1>1 DEF Job, IdleWorker, Worker, Fits, InTx, Decided, Open
<1>3. CASE worker[w].op = "report"
  BY <1>2, <1>3, RecordStep DEF GiveUp, Holds, CountsRight, InTx
<1>4. CASE worker[w].op # "report"
  BY <1>4, IdleIsFine, RecordStep DEF GiveUp, Holds, CountsRight, InTx
<1> QED
  BY <1>3, <1>4

LEMMA FindInv == ASSUME IInv, NEW w \in Workers, FindTarget(w) PROVE IInv'
<1>1. worker[w] \in Worker /\ worker[w].pc = "find" /\ Fits(worker[w])
  BY DEF IInv, TypeOK, FindTarget
<1>2. CASE GiveUp(w)
  BY <1>1, <1>2, GiveUpInv DEF FindTarget
<1>3. CASE ~GiveUp(w)
  <2> DEFINE new == [worker[w] EXCEPT !.pc = "claim", !.status = rollout.status,
                                      !.window = rollout.window]
  <2>1. worker' = [worker EXCEPT ![w] = new] /\ rollout.status \in Open
    BY <1>3 DEF FindTarget, Begin
  <2>2. new \in Worker /\ new.pc = "claim"
    BY <1>1, <2>1 DEF IInv, TypeOK, Rollout, Worker
  <2>3. Fits(new)
    BY <1>1 DEF Fits, Worker
  <2> QED
    BY <2>1, <2>2, <2>3, RecordStep DEF FindTarget, Holds, CountsRight, InTx
<1> QED
  BY <1>2, <1>3

\* The claim succeeds on a row that has the wanted status and that nobody holds
LEMMA ClaimInv == ASSUME IInv, NEW w \in Workers, ClaimTarget(w) PROVE IInv'
<1>1. /\ worker[w] \in Worker /\ worker[w].pc = "claim" /\ Fits(worker[w])
      /\ worker[w].dev \in Devices
  BY DEF IInv, TypeOK, ClaimTarget, Fits
<1>2. CASE GiveUp(w)
  BY <1>1, <1>2, GiveUpInv DEF ClaimTarget
<1>3. CASE ~GiveUp(w)
  <2>1. PICK pc \in {"success", "pending"} :
          worker' = [worker EXCEPT ![w] = [worker[w] EXCEPT !.pc = pc, !.stamp = rollout.window]]
    BY <1>3 DEF ClaimTarget, Begin
  <2> DEFINE new == [worker[w] EXCEPT !.pc = pc, !.stamp = rollout.window]
  <2>2. /\ target[worker[w].dev].status = ClaimedFrom(w)
        /\ worker[w].op = "skip" => ~target[worker[w].dev].pulled
        /\ ~Locked(worker[w].dev)
    BY <1>3 DEF ClaimTarget
  <2>3. new \in Worker /\ new.pc = pc /\ new.dev = worker[w].dev /\ new.op = worker[w].op
    BY <1>1 DEF IInv, TypeOK, Rollout, Worker, InTx
  <2>4. Fits(new) /\ Holds(new) /\ CountsRight(new)
    BY <1>1, <2>2, <2>3 DEF Fits, Holds, CountsRight, ClaimedFrom, InTx, Worker
  <2>5. \A v \in Workers \ {w} : worker[v].pc \in InTx => worker[v].dev # new.dev
    BY <2>2, <2>3 DEF Locked
  <2> QED
    BY <2>1, <2>3, <2>4, <2>5, RecordStep DEF ClaimTarget
<1> QED
  BY <1>2, <1>3

\* Counting changes what the worker knows, and nothing else
LEMMA CountInv == ASSUME IInv, NEW w \in Workers, Count(w) PROVE IInv'
<1>1. /\ worker[w] \in Worker /\ worker[w].pc \in InTx /\ Fits(worker[w]) /\ Holds(worker[w])
      /\ CountsRight(worker[w]) /\ worker[w].dev \in Devices
  BY DEF IInv, TypeOK, Count, CountSuccess, CountFailure, CountPending, CountRecent, Fits, InTx
<1>2. \A s : Cardinality(Having(Seen(w), s)) \in Nat
  BY <1>1, SeenType, HavingCount DEF IInv
<1>3. UNCHANGED <<rollout, target, delivered, rollback>>
  BY DEF Count, CountSuccess, CountFailure, CountPending, CountRecent
<1>4. \A v \in Workers \ {w} : worker[v].pc \in InTx => worker[v].dev # worker[w].dev
  BY <1>1 DEF IInv, RowsAreHeldOnce
<1>5. CASE CountSuccess(w)
  <2> DEFINE new == [worker[w] EXCEPT !.pc = "failure",
                                      !.success = Cardinality(Having(Seen(w), "success"))]
  <2>1. new \in Worker /\ new.pc = "failure" /\ new.dev = worker[w].dev
    BY <1>1, <1>2 DEF Worker, InTx
  <2>2. Fits(new) /\ Holds(new) /\ CountsRight(new)
    BY <1>1 DEF Worker, Fits, Holds, CountsRight, InTx
  <2> QED
    BY <1>3, <1>4, <1>5, <2>1, <2>2, RecordStep DEF CountSuccess, Begin
<1>6. CASE CountFailure(w)
  <2> DEFINE new == [worker[w] EXCEPT !.pc = "pending",
                                      !.failure = Cardinality(Having(Seen(w), "failed"))]
  <2>1. new \in Worker /\ new.pc = "pending" /\ new.dev = worker[w].dev
    BY <1>1, <1>2 DEF Worker, InTx
  <2>2. Fits(new) /\ Holds(new) /\ CountsRight(new)
    BY <1>1 DEF Worker, Fits, Holds, CountsRight, InTx
  <2> QED
    BY <1>3, <1>4, <1>6, <2>1, <2>2, RecordStep DEF CountFailure, Begin
<1>7. CASE CountPending(w)
  <2>1. PICK pc \in {"recent", "write"} :
          worker' = [worker EXCEPT ![w] =
            [worker[w] EXCEPT !.pc = pc, !.pending = Cardinality(Having(Seen(w), "pending"))]]
    BY <1>7 DEF CountPending, Begin
  <2> DEFINE new == [worker[w] EXCEPT !.pc = pc,
                                      !.pending = Cardinality(Having(Seen(w), "pending"))]
  <2>2. new \in Worker /\ new.pc = pc /\ new.dev = worker[w].dev
        /\ new.pending = Cardinality(Having(Seen(w), "pending"))
    BY <1>1, <1>2 DEF Worker, InTx
  <2>3. Fits(new) /\ Holds(new)
    BY <1>1 DEF Worker, Fits, Holds, InTx
  <2>4. ASSUME new.pending = 0, NEW d \in Devices \ {worker[w].dev}
        PROVE  target[d].status # "pending"
    <3>1. Having(Seen(w), "pending") = {}
      BY <1>1, <2>2, <2>4, SeenType, HavingCount DEF IInv
    <3>2. Seen(w)[d] = target[d]
      BY DEF Seen, IInv, TypeOK
    <3> QED
      BY <3>1, <3>2 DEF Having
  <2>5. CountsRight(new)
    BY <2>2, <2>4 DEF CountsRight
  <2> QED
    BY <1>3, <1>4, <2>1, <2>2, <2>3, <2>5, RecordStep
<1>8. CASE CountRecent(w)
  <2> DEFINE new == [worker[w] EXCEPT !.pc = "write", !.recent = Cardinality(RecentFailures(w))]
  <2>1. new \in Worker /\ new.pc = "write" /\ new.dev = worker[w].dev
    BY <1>1, RecentCount DEF Worker, InTx, IInv
  <2>2. Fits(new) /\ Holds(new) /\ CountsRight(new)
    BY <1>1, <1>8 DEF CountRecent, Worker, Fits, Holds, CountsRight, InTx
  <2> QED
    BY <1>3, <1>4, <1>8, <2>1, <2>2, RecordStep DEF CountRecent, Begin
<1> QED
  BY <1>5, <1>6, <1>7, <1>8 DEF Count

-----------------------------------------------------------------------------
(* Steps that change rows *)

\* what a worker may go idle from or to without disturbing the others
LEMMA OthersStay ==
  ASSUME IInv, NEW w \in Workers, NEW new \in Worker, new.pc \notin InTx, Fits(new),
         worker' = [worker EXCEPT ![w] = new]
  PROVE  /\ worker' \in [Workers -> Worker]
         /\ (\A v \in Workers : Fits(worker[v]))'
         /\ RowsAreHeldOnce'
         /\ \A v \in Workers : worker'[v].pc \in InTx => v # w /\ worker'[v] = worker[v]
<1>1. \A v \in Workers : worker'[v] = IF v = w THEN new ELSE worker[v]
  BY DEF IInv, TypeOK
<1>2. worker' \in [Workers -> Worker]
  BY DEF IInv, TypeOK
<1>3. (\A v \in Workers : Fits(worker[v]))'
  BY <1>1 DEF IInv, Fits
<1>4. RowsAreHeldOnce'
  BY <1>1 DEF IInv, RowsAreHeldOnce
<1> QED
  BY <1>1, <1>2, <1>3, <1>4

LEMMA MarkInv == ASSUME IInv, NEW w \in Workers, MarkPulled(w) PROVE IInv'
<1> DEFINE d == worker[w].dev
<1>1. /\ worker[w] \in Worker /\ worker[w].pc = "mark" /\ Fits(worker[w]) /\ d \in Devices
      /\ worker[w].op \in {"pull", "report"}
  BY DEF IInv, TypeOK, MarkPulled, Fits
<1>2. PICK new : /\ new \in Worker /\ new.pc \in {"idle", "find"} /\ Fits(new)
                 /\ worker' = [worker EXCEPT ![w] = new]
  <2>1. CASE worker[w].op = "pull"
    BY <2>1, IdleIsFine DEF MarkPulled, Finish
  <2>2. CASE worker[w].op = "report"
    <3> DEFINE new == [worker[w] EXCEPT !.pc = "find"]
    <3>1. new \in Worker /\ new.pc = "find" /\ Fits(new)
      BY <1>1, <2>2 DEF Worker, Fits, InTx
    <3> QED
      BY <2>2, <3>1 DEF MarkPulled, Begin
  <2> QED
    BY <1>1, <2>1, <2>2
<1>3. new.pc \notin InTx
  BY <1>2 DEF InTx
<1>4. /\ target' \in [Devices -> Target]
      /\ \A e \in Devices : target'[e].status = target[e].status
      /\ \A e \in Devices : target[e].pulled => target'[e].pulled
      /\ \A e \in Devices : e # d => target'[e] = target[e]
      /\ target'[d] # target[d] => ~Locked(d)
      /\ target[d].status = "pending" => target'[d].pulled
  <2> DEFINE marked == [target[d] EXCEPT !.pulled = TRUE, !.stamp = rollout.window]
  <2>1. target \in [Devices -> Target] /\ target[d] \in Target /\ rollout.window \in Nat
    BY <1>1 DEF IInv, TypeOK, Rollout
  <2>2. marked \in Target /\ marked.status = target[d].status /\ marked.pulled
    BY <2>1 DEF Target
  <2>3. CASE target' = target /\ (target[d].status = "pending" => target[d].pulled)
    BY <2>1, <2>3
  <2>4. CASE target' = [target EXCEPT ![d] = marked] /\ ~Locked(d)
    BY <1>1, <2>1, <2>2, <2>4
  <2>5. \/ target' = target /\ (target[d].status = "pending" => target[d].pulled)
        \/ target' = [target EXCEPT ![d] = marked] /\ ~Locked(d)
    BY <1>1, <2>1 DEF MarkPulled, Target
  <2> QED
    BY <2>3, <2>4, <2>5
<1>5. /\ delivered' \subseteq Devices /\ delivered' \subseteq delivered \cup {d}
      /\ UNCHANGED <<rollout, rollback>>
  BY <1>1 DEF IInv, TypeOK, MarkPulled
<1>6. TypeOK'
  BY <1>2, <1>3, <1>4, <1>5, OthersStay DEF IInv, TypeOK
<1>7. (\A v \in Workers : Fits(worker[v]))' /\ RowsAreHeldOnce'
  BY <1>2, <1>3, OthersStay
<1>8. (\A v \in Workers : Holds(worker[v]))'
  <2> SUFFICES ASSUME NEW v \in Workers, worker'[v].pc \in InTx
               PROVE  Holds(worker[v])'
    BY DEF Holds
  <2>1. v # w /\ worker'[v] = worker[v] /\ worker[v].dev \in Devices /\ Holds(worker[v])
    BY <1>2, <1>3, OthersStay DEF IInv, Fits, InTx
  <2>2. target'[worker[v].dev] = target[worker[v].dev]
    BY <1>4, <2>1 DEF Locked
  <2> QED
    BY <2>1, <2>2 DEF Holds
<1>9. (\A v \in Workers : CountsRight(worker[v]))'
  BY <1>2, <1>3, <1>4, OthersStay DEF IInv, CountsRight, InTx
<1>10. NoneWaitsInClosed' /\ CancelsOpen'
  BY <1>4, <1>5 DEF IInv, NoneWaitsInClosed, CancelsOpen, RolloutLocked
<1>11. HandedOutIsPulled'
  BY <1>4, <1>5 DEF IInv, TypeOK, HandedOutIsPulled
<1> QED
  BY <1>6, <1>7, <1>8, <1>9, <1>10, <1>11 DEF IInv

LEMMA NoteInv == ASSUME IInv, NEW w \in Workers, AppendLateReport(w) PROVE IInv'
<1>1. worker[w].dev \in Devices /\ worker' = [worker EXCEPT ![w] = IdleWorker]
  BY DEF IInv, AppendLateReport, Fits, Finish
<1>2. IdleWorker \in Worker /\ Fits(IdleWorker) /\ IdleWorker.pc \notin InTx
  BY IdleIsFine DEF InTx
<1>3. /\ target' \in [Devices -> Target]
      /\ \A e \in Devices : target'[e].status = target[e].status
      /\ \A e \in Devices : target'[e].pulled = target[e].pulled
      /\ UNCHANGED <<rollout, delivered, rollback>>
  BY <1>1, ZenonT(60) DEF IInv, TypeOK, Target, Rollout, AppendLateReport
<1>4. TypeOK'
  BY <1>1, <1>2, <1>3, OthersStay DEF IInv, TypeOK
<1>5. (\A v \in Workers : Fits(worker[v]))' /\ RowsAreHeldOnce'
  BY <1>1, <1>2, OthersStay
<1>6. (\A v \in Workers : Holds(worker[v]))'
  BY <1>1, <1>2, <1>3, OthersStay DEF IInv, Holds, Fits, InTx
<1>7. (\A v \in Workers : CountsRight(worker[v]))'
  BY <1>1, <1>2, <1>3, OthersStay DEF IInv, CountsRight, InTx
<1>8. NoneWaitsInClosed' /\ CancelsOpen' /\ HandedOutIsPulled'
  BY <1>3 DEF IInv, TypeOK, NoneWaitsInClosed, CancelsOpen, HandedOutIsPulled, RolloutLocked
<1> QED
  BY <1>4, <1>5, <1>6, <1>7, <1>8 DEF IInv

\* What a commit makes of its target and of the rollout: the target is decided,
\* and the rollout completes only if nobody waits then
LEMMA CommitEffect ==
  ASSUME IInv, NEW w \in Workers, WriteAndCommit(w)
  PROVE  /\ worker[w].dev \in Devices
         /\ worker' = [worker EXCEPT ![w] = IdleWorker]
         /\ UNCHANGED <<delivered, rollback>>
         /\ target' \in [Devices -> Target]
         /\ \A e \in Devices : e # worker[w].dev => target'[e] = target[e]
         /\ target'[worker[w].dev].status = worker[w].result
         /\ target'[worker[w].dev].status # "pending"
         /\ rollout' \in Rollout
         /\ rollout.status \in Closed => rollout'.status = rollout.status
         /\ rollout'.status \in Closed => \A e \in Devices : target'[e].status # "pending"
         /\ RolloutLocked => rollout' = rollout
         /\ rollout.status \in Open => rollout'.status \in Open \cup {"completed"}
<1> DEFINE d == worker[w].dev
<1>1. /\ worker[w] \in Worker /\ worker[w].pc = "write" /\ Fits(worker[w]) /\ Holds(worker[w])
      /\ CountsRight(worker[w]) /\ d \in Devices /\ rollout \in Rollout
  BY DEF IInv, TypeOK, WriteAndCommit, Fits
<1>2. /\ worker[w].op \in {"report", "expire", "late", "skip"} /\ worker[w].result # "pending"
      /\ worker[w].status \in Open
      /\ worker[w].success \in Nat /\ worker[w].failure \in Nat /\ worker[w].pending \in Nat
  BY <1>1 DEF Fits, InTx, Worker, Decided
<1>3. /\ target' \in [Devices -> Target] /\ target' = Seen(w)
      /\ worker' = [worker EXCEPT ![w] = IdleWorker]
      /\ UNCHANGED <<delivered, rollback>>
  BY <1>1, SeenType DEF IInv, WriteAndCommit, Finish
<1>4. /\ \A e \in Devices : e # d => target'[e] = target[e]
      /\ target'[d].status = worker[w].result
  BY <1>1, <1>3 DEF Seen, ClaimedTarget, IInv, TypeOK, Target
<1>5. rollout' = RolloutAfter(w) /\ (WritesRollout(w) => ~RolloutLocked)
  BY DEF WriteAndCommit
<1>6. worker[w].pending = 0 => \A e \in Devices : target'[e].status # "pending"
  BY <1>1, <1>2, <1>4 DEF CountsRight
<1>7. worker[w].op # "late" => rollout.status \in Open
  <2>1. worker[w].op # "late" => target[d].status = "pending"
    BY <1>1 DEF Holds, InTx
  <2> QED
    BY <1>1, <2>1 DEF IInv, NoneWaitsInClosed, Rollout
<1>8. CASE worker[w].op \in {"report", "expire"}
  <2>1. rollout' = [rollout EXCEPT !.success = worker[w].success, !.failure = worker[w].failure,
                                   !.status = StatusAfter(w)]
    BY <1>5, <1>8 DEF RolloutAfter
  <2>2. /\ StatusAfter(w) \in Open \cup {"completed"}
        /\ StatusAfter(w) = "completed" => worker[w].pending = 0
    BY <1>2 DEF StatusAfter, Open
  <2>3. rollout' \in Rollout /\ rollout'.status = StatusAfter(w)
    BY <1>1, <1>2, <2>1, <2>2 DEF Rollout, Closed
  <2>4. ~RolloutLocked
    BY <1>5, <1>8 DEF WritesRollout
  <2> QED
    BY <1>1, <1>2, <1>3, <1>4, <1>6, <1>7, <1>8, <2>2, <2>3, <2>4 DEF Open, Closed
<1>9. CASE worker[w].op = "late"
  <2>1. rollout' = [rollout EXCEPT !.success = worker[w].success, !.failure = worker[w].failure,
                                   !.status = IF ClosesActive(w) THEN "completed" ELSE rollout.status]
    BY <1>5, <1>9 DEF RolloutAfter
  <2>2. rollout' \in Rollout
        /\ rollout'.status = IF ClosesActive(w) THEN "completed" ELSE rollout.status
    BY <1>1, <1>2, <2>1 DEF Rollout, Closed
  <2>3. ~RolloutLocked
    BY <1>5, <1>9 DEF WritesRollout
  <2>4. rollout.status \in Closed => \A e \in Devices : target'[e].status # "pending"
    BY <1>2, <1>4 DEF IInv, NoneWaitsInClosed
  <2> QED
    BY <1>1, <1>2, <1>3, <1>4, <1>6, <2>2, <2>3, <2>4 DEF ClosesActive, Open, Closed
<1>10. CASE worker[w].op = "skip"
  <2>1. rollout' = IF ClosesActive(w) THEN [rollout EXCEPT !.status = "completed"] ELSE rollout
    BY <1>5, <1>10 DEF RolloutAfter
  <2>2. rollout' \in Rollout
        /\ rollout'.status = IF ClosesActive(w) THEN "completed" ELSE rollout.status
    BY <1>1, <2>1 DEF Rollout, Closed
  <2>3. RolloutLocked => rollout' = rollout
    BY <1>5, <1>10, <2>1 DEF WritesRollout
  <2> QED
    BY <1>1, <1>2, <1>3, <1>4, <1>6, <1>7, <1>10, <2>2, <2>3 DEF ClosesActive, Open, Closed
<1> QED
  BY <1>2, <1>8, <1>9, <1>10

LEMMA CommitInv == ASSUME IInv, NEW w \in Workers, WriteAndCommit(w) PROVE IInv'
<1> DEFINE d == worker[w].dev
<1>1. /\ worker[w].pc \in InTx /\ Holds(worker[w])
      /\ IdleWorker \in Worker /\ Fits(IdleWorker) /\ IdleWorker.pc \notin InTx
  BY IdleIsFine DEF IInv, WriteAndCommit, InTx
<1>2. TypeOK'
  BY <1>1, CommitEffect, OthersStay DEF IInv, TypeOK
<1>3. (\A v \in Workers : Fits(worker[v]))' /\ RowsAreHeldOnce'
  BY <1>1, CommitEffect, OthersStay
<1>4. (\A v \in Workers : Holds(worker[v]))'
  <2> SUFFICES ASSUME NEW v \in Workers, worker'[v].pc \in InTx
               PROVE  Holds(worker[v])'
    BY DEF Holds
  <2>1. v # w /\ worker'[v] = worker[v] /\ worker[v].dev \in Devices /\ Holds(worker[v])
    BY <1>1, CommitEffect, OthersStay DEF IInv, Fits, InTx
  <2>2. worker[v].dev # d
    BY <1>1, <2>1 DEF IInv, RowsAreHeldOnce
  <2>3. target'[worker[v].dev] = target[worker[v].dev]
    BY <2>1, <2>2, CommitEffect
  <2> QED
    BY <2>1, <2>3 DEF Holds
<1>5. (\A v \in Workers : CountsRight(worker[v]))'
  <2> SUFFICES ASSUME NEW v \in Workers, worker'[v].pc \in InTx
               PROVE  CountsRight(worker[v])'
    BY DEF CountsRight, InTx
  <2>1. worker'[v] = worker[v] /\ CountsRight(worker[v])
    BY <1>1, CommitEffect, OthersStay DEF IInv
  <2>2. \A e \in Devices : target'[e].status = "pending" => target[e].status = "pending"
    BY CommitEffect
  <2> QED
    BY <2>1, <2>2 DEF CountsRight
<1>6. NoneWaitsInClosed'
  BY CommitEffect DEF NoneWaitsInClosed
<1>7. CancelsOpen'
  BY CommitEffect DEF IInv, CancelsOpen, RolloutLocked
<1>8. HandedOutIsPulled'
  BY CommitEffect DEF IInv, TypeOK, HandedOutIsPulled
<1> QED
  BY <1>2, <1>3, <1>4, <1>5, <1>6, <1>7, <1>8 DEF IInv

LEMMA WaitingCount == ASSUME TypeOK PROVE Cardinality(Having(target, "pending")) \in Nat
BY HavingCount DEF TypeOK

\* What the commit of a rollback does: it fails exactly the targets that wait
LEMMA CancelEffect ==
  ASSUME IInv, CommitCancel
  PROVE  /\ rollout.status \in Open
         /\ rollout' \in Rollout /\ rollout'.status = "cancelled"
         /\ target' \in [Devices -> Target]
         /\ \A e \in Devices : IF target[e].status = "pending" THEN target'[e].status = "failed"
                                                               ELSE target'[e] = target[e]
         /\ \A e \in Devices : Locked(e) => target[e].status # "pending"
         /\ UNCHANGED <<delivered, worker>>
         /\ rollback' = [rollback EXCEPT !.pc = "done"]
<1>1. rollout \in Rollout /\ Cardinality(Having(target, "pending")) \in Nat
  BY WaitingCount DEF IInv, TypeOK
<1>2. rollout' = [rollout EXCEPT !.status = "cancelled",
                                 !.failure = rollout.failure + Cardinality(Having(target, "pending"))]
  BY DEF CommitCancel
<1>3. rollout' \in Rollout /\ rollout'.status = "cancelled"
  <2>1. PICK n \in Nat : rollout' = [rollout EXCEPT !.status = "cancelled",
                                                    !.failure = rollout.failure + n]
    BY <1>1, <1>2
  <2>2. rollout.failure + n \in Nat
    BY <1>1 DEF Rollout
  <2> QED
    BY <1>1, <2>1, <2>2 DEF Rollout, Closed
<1>4. \A e \in Devices :
        target'[e] = IF target[e].status = "pending"
                     THEN [target[e] EXCEPT !.status = "failed", !.stamp = rollout.window,
                                            !.since = rollout.window, !.noted = FALSE]
                     ELSE target[e]
  BY DEF CommitCancel, CancelTargets, Having
<1>5. \A e \in Devices : target[e] \in Target
  BY DEF IInv, TypeOK
<1>6. \A e \in Devices :
        /\ target'[e] \in Target
        /\ target[e].status = "pending" => target'[e].status = "failed"
  BY <1>1, <1>4, <1>5, ZenonT(60) DEF Target, Rollout, Decided
<1>7. target' \in [Devices -> Target]
  BY <1>6 DEF CommitCancel, CancelTargets
<1> QED
  BY <1>3, <1>4, <1>6, <1>7 DEF CommitCancel, IInv, CancelsOpen, RolloutLocked, Having

LEMMA CancelInv == ASSUME IInv, CommitCancel PROVE IInv'
<1>1. TypeOK'
  BY CancelEffect DEF IInv, TypeOK
<1>2. (\A v \in Workers : Fits(worker[v]))' /\ RowsAreHeldOnce'
  BY CancelEffect DEF IInv, Fits, RowsAreHeldOnce
<1>3. (\A v \in Workers : Holds(worker[v]))'
  <2> SUFFICES ASSUME NEW v \in Workers, worker[v].pc \in InTx
               PROVE  Holds(worker[v])'
    BY CancelEffect DEF Holds
  <2>1. worker[v].dev \in Devices /\ Holds(worker[v])
    BY DEF IInv, Fits, InTx
  <2>2. target'[worker[v].dev] = target[worker[v].dev]
    BY <2>1, CancelEffect DEF Locked
  <2> QED
    BY <2>1, <2>2, CancelEffect DEF Holds
<1>4. (\A v \in Workers : CountsRight(worker[v]))'
  BY CancelEffect DEF IInv, CountsRight
<1>5. NoneWaitsInClosed'
  BY CancelEffect DEF NoneWaitsInClosed
<1>6. CancelsOpen'
  BY CancelEffect DEF IInv, TypeOK, CancelsOpen, RolloutLocked
<1>7. HandedOutIsPulled'
  BY CancelEffect DEF IInv, TypeOK, HandedOutIsPulled
<1> QED
  BY <1>1, <1>2, <1>3, <1>4, <1>5, <1>6, <1>7 DEF IInv

LEMMA ResumeInv == ASSUME IInv, Resume PROVE IInv'
<1>1. /\ rollout' \in Rollout /\ rollout'.status = "active" /\ rollout.status = "paused"
      /\ UNCHANGED <<target, delivered, worker, rollback>>
  <2>1. rollout' = [rollout EXCEPT !.status = "active", !.window = rollout.window + 1]
    BY DEF Resume
  <2>2. rollout \in Rollout /\ rollout.window + 1 \in Nat
    BY DEF IInv, TypeOK, Rollout
  <2>3. rollout' \in Rollout /\ rollout'.status = "active"
    BY <2>1, <2>2 DEF Rollout, Open
  <2> QED
    BY <2>3 DEF Resume
<1>2. (\A v \in Workers : Fits(worker[v]) /\ Holds(worker[v]) /\ CountsRight(worker[v]))'
  BY <1>1 DEF IInv, Fits, Holds, CountsRight
<1> QED
  BY <1>1, <1>2 DEF IInv, TypeOK, RowsAreHeldOnce, NoneWaitsInClosed, CancelsOpen,
                    HandedOutIsPulled, RolloutLocked, Open, Closed

\* The other steps of a rollback only change what it has read
LEMMA RollbackInv ==
  ASSUME IInv, LoadRollback \/ ListAffected \/ BeginCancel \/ AbortCancel
  PROVE  IInv'
<1>1. UNCHANGED <<rollout, target, delivered, worker>>
  BY DEF LoadRollback, ListAffected, BeginCancel, AbortCancel
<1>2. /\ rollback' \in [pc : {"idle", "loaded", "ready", "cancelling", "done"},
                        status : Open \cup {"completed"}, affected : SUBSET Devices]
      /\ rollback'.pc = "cancelling" => rollout.status \in Open
  <2>1. CASE LoadRollback
    BY <2>1 DEF IInv, TypeOK, LoadRollback, Rollout, Open, Closed
  <2>2. CASE ListAffected
    <3>1. Affected \subseteq Devices
      BY DEF Affected
    <3> QED
      BY <2>2, <3>1 DEF IInv, TypeOK, ListAffected
  <2>3. CASE BeginCancel
    BY <2>3 DEF IInv, TypeOK, BeginCancel
  <2>4. CASE AbortCancel
    BY <2>4 DEF IInv, TypeOK, AbortCancel
  <2> QED
    BY <2>1, <2>2, <2>3, <2>4
<1>3. (\A v \in Workers : Fits(worker[v]) /\ Holds(worker[v]) /\ CountsRight(worker[v]))'
  BY <1>1 DEF IInv, Fits, Holds, CountsRight
<1> QED
  BY <1>1, <1>2, <1>3 DEF IInv, TypeOK, RowsAreHeldOnce, NoneWaitsInClosed, CancelsOpen,
                          HandedOutIsPulled, RolloutLocked

LEMMA CrashInv == ASSUME IInv, Crash PROVE IInv'
<1>1. /\ \A v \in Workers : worker'[v] = IdleWorker
      /\ worker' \in [Workers -> Worker]
      /\ UNCHANGED <<rollout, target, delivered>>
  BY IdleIsFine DEF Crash
<1>2. /\ rollback' \in [pc : {"idle", "loaded", "ready", "cancelling", "done"},
                        status : Open \cup {"completed"}, affected : SUBSET Devices]
      /\ rollback'.pc # "cancelling"
  BY DEF IInv, TypeOK, Crash
<1>3. (\A v \in Workers : Fits(worker[v]) /\ Holds(worker[v]) /\ CountsRight(worker[v]))'
  BY <1>1, IdleIsFine DEF Fits, Holds, CountsRight, InTx
<1> QED
  BY <1>1, <1>2, <1>3, IdleIsFine
  DEF IInv, TypeOK, RowsAreHeldOnce, NoneWaitsInClosed, CancelsOpen, HandedOutIsPulled,
      RolloutLocked, InTx

\* Every step keeps the invariant
LEMMA NextInv == ASSUME IInv, [Next]_vars PROVE IInv'
<1>1. ASSUME NEW w \in Workers, Request(w) PROVE IInv'
  BY <1>1, RequestInv
<1>2. ASSUME NEW w \in Workers, MarkPulled(w) PROVE IInv'
  BY <1>2, MarkInv
<1>3. ASSUME NEW w \in Workers, AppendLateReport(w) PROVE IInv'
  BY <1>3, NoteInv
<1>4. ASSUME NEW w \in Workers, FindTarget(w) PROVE IInv'
  BY <1>4, FindInv
<1>5. ASSUME NEW w \in Workers, ClaimTarget(w) PROVE IInv'
  BY <1>5, ClaimInv
<1>6. ASSUME NEW w \in Workers, Count(w) PROVE IInv'
  BY <1>6, CountInv
<1>7. ASSUME NEW w \in Workers, WriteAndCommit(w) PROVE IInv'
  BY <1>7, CommitInv
<1>8. ASSUME NEW w \in Workers, AbortTransaction(w) PROVE IInv'
  BY <1>8, GiveUpInv DEF AbortTransaction, InTx
<1>9. CASE Resume
  BY <1>9, ResumeInv
<1>10. CASE CommitCancel
  BY <1>10, CancelInv
<1>11. CASE LoadRollback \/ ListAffected \/ BeginCancel \/ AbortCancel
  BY <1>11, RollbackInv
<1>12. CASE Crash
  BY <1>12, CrashInv
<1>13. CASE UNCHANGED vars
  BY <1>13 DEF vars, IInv, TypeOK, Fits, Holds, CountsRight, RowsAreHeldOnce,
               NoneWaitsInClosed, CancelsOpen, HandedOutIsPulled, RolloutLocked
<1> QED
  BY <1>1, <1>2, <1>3, <1>4, <1>5, <1>6, <1>7, <1>8, <1>9, <1>10, <1>11, <1>12, <1>13
  DEF Next, Serve, Rollback

\* In every reachable state the rows, the requests and the locks agree as IInv says
THEOREM Invariance == Spec => []IInv
<1>1. IInv /\ [Next]_vars => IInv'
  BY NextInv
<1> QED
  BY InitInv, <1>1, PTL DEF Spec

\* Type correctness: rows, workers and the rollback are always what they should be
THEOREM TypeCorrect == Spec => []TypeOK
<1>1. IInv => TypeOK
  BY DEF IInv
<1> QED
  BY Invariance, <1>1, PTL

\* A rollout, once completed or cancelled, has decided every one of its targets
THEOREM ClosedDecidesAll == Spec => []NoneWaitsInClosed
<1>1. IInv => NoneWaitsInClosed
  BY DEF IInv
<1> QED
  BY Invariance, <1>1, PTL

-----------------------------------------------------------------------------
(* What a step may do to a target and to the rollout *)

\* Only four kinds of step change a status; all others leave them alone
LEMMA QuietStep ==
  ASSUME IInv, [Next]_vars,
         ~Resume, ~CommitCancel, \A w \in Workers : ~WriteAndCommit(w)
  PROVE  /\ rollout' = rollout
         /\ \A d \in Devices : target'[d].status = target[d].status
         /\ Having(target, "pending")' = Having(target, "pending")
<1>1. rollout' = rollout /\ \A d \in Devices : target'[d].status = target[d].status
  <2>1. ASSUME NEW w \in Workers, Request(w) PROVE UNCHANGED <<rollout, target>>
    BY <2>1, RequestStarts
  <2>2. ASSUME NEW w \in Workers, MarkPulled(w) \/ AppendLateReport(w)
        PROVE  rollout' = rollout /\ \A d \in Devices : target'[d].status = target[d].status
    BY <2>2 DEF MarkPulled, AppendLateReport, IInv, TypeOK, Target
  <2>3. ASSUME NEW w \in Workers,
               FindTarget(w) \/ ClaimTarget(w) \/ Count(w) \/ AbortTransaction(w)
        PROVE  UNCHANGED <<rollout, target>>
    BY <2>3 DEF FindTarget, ClaimTarget, Count, CountSuccess, CountFailure, CountPending,
                CountRecent, AbortTransaction
  <2>4. CASE LoadRollback \/ ListAffected \/ BeginCancel \/ AbortCancel \/ Crash
    BY <2>4 DEF LoadRollback, ListAffected, BeginCancel, AbortCancel, Crash
  <2>5. CASE UNCHANGED vars
    BY <2>5 DEF vars
  <2> QED
    BY <2>1, <2>2, <2>3, <2>4, <2>5 DEF Next, Serve, Rollback
<1> QED
  BY <1>1 DEF Having

\* No step, whatever it read before, reopens a closed rollout
THEOREM ClosedStaysClosed == Spec => ClosedIsFinal
<1>1. ASSUME IInv, [Next]_vars, rollout.status \in Closed
      PROVE  rollout'.status = rollout.status
  <2>1. ~Resume
    BY <1>1 DEF Resume, Closed
  <2>2. ~CommitCancel
    BY <1>1, CancelEffect DEF Open, Closed
  <2>3. ASSUME NEW w \in Workers, WriteAndCommit(w) PROVE rollout'.status = rollout.status
    BY <1>1, <2>3, CommitEffect
  <2> QED
    BY <1>1, <2>1, <2>2, <2>3, QuietStep
<1>2. IInv /\ [Next]_vars
        => [rollout.status \in Closed => rollout'.status = rollout.status]_vars
  BY <1>1
<1> QED
  BY Invariance, <1>2, PTL DEF Spec, ClosedIsFinal

\* the status of a target changes in one of two ways
Final ==
  \A d \in Devices :
    target'[d].status # target[d].status =>
      \/ target[d].status = "pending"
      \/ target[d].status = "skipped_offline" /\ target'[d].status \in {"success", "failed"}

LEMMA StepIsFinal == ASSUME IInv, [Next]_vars PROVE Final
<1>1. CASE Resume
  BY <1>1 DEF Resume, Final
<1>2. CASE CommitCancel
  BY <1>2, CancelEffect DEF Final
<1>3. ASSUME NEW w \in Workers, WriteAndCommit(w) PROVE Final
  <2>1. /\ worker[w] \in Worker /\ worker[w].pc \in InTx
        /\ Fits(worker[w]) /\ Holds(worker[w])
    BY <1>3 DEF IInv, TypeOK, WriteAndCommit, InTx
  <2>2. \/ target[worker[w].dev].status = "pending"
        \/ /\ target[worker[w].dev].status = "skipped_offline"
           /\ worker[w].result \in {"success", "failed"}
    BY <2>1 DEF Holds, Fits, Worker, Decided
  <2> QED
    BY <1>3, <2>2, CommitEffect DEF Final
<1> QED
  BY <1>1, <1>2, <1>3, QuietStep DEF Final

\* A target is decided once, and only a skipped one may still get a real result
THEOREM ResultsAreFinal == Spec => ResultIsFinal
<1>1. IInv /\ [Next]_vars => [Final]_vars
  BY StepIsFinal
<1> QED
  BY Invariance, <1>1, PTL DEF Spec, ResultIsFinal, Final

\* A device that was handed the payload is never skipped as offline
THEOREM HoldersAreNotSkipped == Spec => FetchedNeverSkipped
<1> DEFINE NotSkipped == \A d \in delivered :
                           target[d].status = "pending" => target'[d].status # "skipped_offline"
<1>1. ASSUME IInv, [Next]_vars PROVE NotSkipped
  <2> SUFFICES ASSUME NEW d \in delivered, target[d].status = "pending"
               PROVE  target'[d].status # "skipped_offline"
    OBVIOUS
  <2>1. d \in Devices /\ target[d].pulled
    BY <1>1 DEF IInv, TypeOK, HandedOutIsPulled
  <2>2. CASE Resume
    BY <2>2 DEF Resume
  <2>3. CASE CommitCancel
    BY <1>1, <2>1, <2>3, CancelEffect
  <2>4. ASSUME NEW w \in Workers, WriteAndCommit(w)
        PROVE  target'[d].status # "skipped_offline"
    <3>1. /\ worker[w].pc \in InTx /\ Fits(worker[w]) /\ Holds(worker[w])
      BY <1>1, <2>4 DEF IInv, WriteAndCommit, InTx
    <3>2. CASE worker[w].dev = d
      BY <1>1, <2>1, <2>4, <3>1, <3>2, CommitEffect DEF Fits, Holds
    <3>3. CASE worker[w].dev # d
      BY <1>1, <2>1, <2>4, <3>3, CommitEffect
    <3> QED
      BY <3>2, <3>3
  <2> QED
    BY <1>1, <2>1, <2>2, <2>3, <2>4, QuietStep
<1>2. IInv /\ [Next]_vars => [NotSkipped]_vars
  BY <1>1
<1> QED
  BY Invariance, <1>2, PTL DEF Spec, FetchedNeverSkipped

-----------------------------------------------------------------------------
(* The counters.  A recorder that counts the successes, and then the failures, *)
(* counts what is committed plus its own result; nobody takes a result back, so *)
(* what it counted is there when it writes it down.                             *)

\* what a recorder counted is no more than what it would count now
CountsLow(w) ==
  worker[w].op # "skip" =>
    /\ worker[w].pc \in {"failure", "pending", "recent", "write"} =>
         worker[w].success <= Cardinality(Having(Seen(w), "success"))
    /\ worker[w].pc \in {"pending", "recent", "write"} =>
         worker[w].failure <= Cardinality(Having(Seen(w), "failed"))

CountsInv == CountersNeverOverstate /\ \A w \in Workers : CountsLow(w)

\* More targets with a status in another view count at least as many
LEMMA HavingGrows ==
  ASSUME NEW view \in [Devices -> Target], NEW later \in [Devices -> Target], NEW s,
         Having(view, s) \subseteq Having(later, s)
  PROVE  Cardinality(Having(view, s)) <= Cardinality(Having(later, s))
<1>1. IsFiniteSet(Having(later, s))
  BY DevicesFinite, FS_Subset DEF Having
<1> QED
  BY <1>1, FS_Subset

\* A result that was turned in stays, in the rows and in what a transaction that
\* goes on sees of them
LEMMA ResultsStay ==
  ASSUME IInv, IInv', Final, NEW s \in {"success", "failed"}
  PROVE  /\ Cardinality(Having(target, s)) <= Cardinality(Having(target', s))
         /\ \A w \in Workers :
              worker[w].pc \in InTx /\ worker'[w].dev = worker[w].dev
                /\ worker'[w].result = worker[w].result =>
              Cardinality(Having(Seen(w), s)) <= Cardinality(Having(Seen(w), s)')
<1>1. target \in [Devices -> Target] /\ target' \in [Devices -> Target]
  BY DEF IInv, TypeOK
<1>2. Having(target, s) \subseteq Having(target', s)
  BY DEF Final, Having
<1>3. ASSUME NEW w \in Workers, worker[w].pc \in InTx,
             worker'[w].dev = worker[w].dev, worker'[w].result = worker[w].result
      PROVE  Cardinality(Having(Seen(w), s)) <= Cardinality(Having(Seen(w), s)')
  <2>1. worker[w].dev \in Devices /\ worker'[w].dev \in Devices
    BY <1>3 DEF IInv, Fits, InTx
  <2>2. Seen(w) \in [Devices -> Target]
    BY <2>1, SeenType DEF IInv
  <2>3. Seen(w)' \in [Devices -> Target]
    <3>1. worker'[w] \in Worker /\ target'[worker'[w].dev] \in Target
      BY <1>1, <2>1 DEF IInv, TypeOK
    <3>2. ClaimedTarget(w)' \in Target
      BY <3>1 DEF ClaimedTarget, Target, Worker
    <3> QED
      BY <1>1, <3>2 DEF Seen
  <2>4. \A e \in Devices :
          /\ Seen(w)[e].status =
               IF e = worker[w].dev THEN worker[w].result ELSE target[e].status
          /\ Seen(w)'[e].status =
               IF e = worker[w].dev THEN worker[w].result ELSE target'[e].status
    BY <1>1, <1>3, <2>1 DEF Seen, ClaimedTarget, Target
  <2>5. Having(Seen(w), s) \subseteq Having(Seen(w)', s)
    BY <2>4 DEF Final, Having
  <2>6. Cardinality(Having(Seen(w), s)) <= Cardinality(Having(Seen(w)', s))
    BY <2>2, <2>3, <2>5, HavingGrows
  <2>7. Having(Seen(w), s)' = Having(Seen(w)', s)
    BY DEF Having
  <2> QED
    BY <2>6, <2>7
<1> QED
  BY <1>1, <1>2, <1>3, HavingGrows

Counting == {"failure", "pending", "recent", "write"}

\* A worker that goes on counting was left alone or made one count itself
LEMMA WhoCounts ==
  ASSUME IInv, [Next]_vars, NEW w \in Workers, worker'[w].pc \in Counting
  PROVE  worker'[w] = worker[w] \/ Count(w) \/ (ClaimTarget(w) /\ worker'[w].op = "skip")
<1>1. worker \in [Workers -> Worker] /\ worker[w] \in Worker
  BY DEF IInv, TypeOK
<1>2. ASSUME NEW v \in Workers, NEW new, worker' = [worker EXCEPT ![v] = new], new.pc \notin Counting
      PROVE  worker'[w] = worker[w]
  BY <1>1, <1>2
<1>3. \A d : Job("note", "report", d, "failed").pc = "note" /\ IdleWorker.pc = "idle"
  BY DEF Job, IdleWorker
<1>4. ASSUME NEW v \in Workers, GiveUp(v) PROVE worker'[w] = worker[w]
  BY <1>2, <1>3, <1>4 DEF GiveUp, Counting
<1>5. ASSUME NEW v \in Workers, Finish(v) PROVE worker'[w] = worker[w]
  BY <1>2, <1>3, <1>5 DEF Finish, Counting
<1>6. ASSUME NEW v \in Workers, Request(v) PROVE worker'[w] = worker[w]
  BY <1>2, <1>6, RequestStarts DEF Starts, Counting
<1>7. ASSUME NEW v \in Workers, MarkPulled(v) PROVE worker'[w] = worker[w]
  <2>1. CASE worker[v].op = "pull"
    BY <1>5, <1>7, <2>1 DEF MarkPulled
  <2>2. CASE worker[v].op # "pull"
    <3> DEFINE new == [worker[v] EXCEPT !.pc = "find"]
    <3>1. worker' = [worker EXCEPT ![v] = new] /\ new.pc = "find"
      BY <1>7, <2>2 DEF MarkPulled, Begin, IInv, TypeOK, Worker
    <3> QED
      BY <1>2, <3>1 DEF Counting
  <2> QED
    BY <2>1, <2>2
<1>8. ASSUME NEW v \in Workers, AppendLateReport(v) \/ WriteAndCommit(v)
      PROVE  worker'[w] = worker[w]
  BY <1>5, <1>8 DEF AppendLateReport, WriteAndCommit
<1>9. ASSUME NEW v \in Workers, FindTarget(v) PROVE worker'[w] = worker[w]
  <2>1. CASE GiveUp(v)
    BY <1>4, <2>1
  <2>2. CASE ~GiveUp(v)
    <3> DEFINE new == [worker[v] EXCEPT !.pc = "claim", !.status = rollout.status,
                                        !.window = rollout.window]
    <3>1. worker' = [worker EXCEPT ![v] = new] /\ new.pc = "claim"
      BY <1>9, <2>2 DEF FindTarget, Begin, IInv, TypeOK, Worker
    <3> QED
      BY <1>2, <3>1 DEF Counting
  <2> QED
    BY <2>1, <2>2
<1>10. ASSUME NEW v \in Workers, ClaimTarget(v)
       PROVE  worker'[w] = worker[w] \/ (v = w /\ worker'[w].op = "skip")
  <2>1. CASE GiveUp(v)
    BY <1>4, <2>1
  <2>2. CASE ~GiveUp(v)
    <3>1. worker' = [worker EXCEPT ![v] =
            [worker[v] EXCEPT !.pc = IF worker[v].op = "skip" THEN "pending" ELSE "success",
                              !.stamp = rollout.window]]
      BY <1>10, <2>2 DEF ClaimTarget, Begin
    <3>2. CASE v = w
      BY <1>1, <3>1, <3>2 DEF Worker, Counting
    <3> QED
      BY <1>1, <3>1, <3>2
  <2> QED
    BY <2>1, <2>2
<1>11. ASSUME NEW v \in Workers, Count(v) PROVE worker'[w] = worker[w] \/ v = w
  BY <1>1, <1>11 DEF Count, CountSuccess, CountFailure, CountPending, CountRecent, Begin
<1>12. ASSUME NEW v \in Workers, AbortTransaction(v) PROVE worker'[w] = worker[w]
  BY <1>4, <1>12 DEF AbortTransaction
<1>13. CASE Resume \/ Rollback
  BY <1>13 DEF Resume, Rollback, LoadRollback, ListAffected, BeginCancel, CommitCancel, AbortCancel
<1>14. CASE Crash
  BY <1>3, <1>14 DEF Crash, Counting
<1>15. CASE UNCHANGED vars
  BY <1>15 DEF vars
<1> QED
  BY <1>6, <1>7, <1>8, <1>9, <1>10, <1>11, <1>12, <1>13, <1>14, <1>15 DEF Next, Serve

\* What one more count leaves a recorder with
LEMMA CountWrites ==
  ASSUME IInv, NEW w \in Workers, Count(w)
  PROVE  /\ \A v \in Workers : v # w => worker'[v] = worker[v]
         /\ worker'[w].op = worker[w].op /\ worker'[w].dev = worker[w].dev
         /\ worker'[w].result = worker[w].result /\ worker'[w].status = worker[w].status
         /\ worker'[w].window = worker[w].window /\ worker'[w].stamp = worker[w].stamp
         /\ \/ /\ worker[w].pc = "success" /\ worker'[w].pc = "failure"
               /\ worker'[w].success = Cardinality(Having(Seen(w), "success"))
            \/ /\ worker[w].pc = "failure" /\ worker'[w].pc = "pending"
               /\ worker'[w].success = worker[w].success
               /\ worker'[w].failure = Cardinality(Having(Seen(w), "failed"))
            \/ /\ worker[w].pc = "pending"
               /\ worker'[w].pc = IF worker[w].op \in {"skip", "late"} THEN "write" ELSE "recent"
               /\ worker'[w].success = worker[w].success
               /\ worker'[w].failure = worker[w].failure
               /\ worker'[w].pending = Cardinality(Having(Seen(w), "pending"))
            \/ /\ worker[w].pc = "recent" /\ worker'[w].pc = "write"
               /\ worker'[w].success = worker[w].success
               /\ worker'[w].failure = worker[w].failure
               /\ worker'[w].pending = worker[w].pending
               /\ worker'[w].recent = Cardinality(RecentFailures(w))
<1>1. worker \in [Workers -> Worker] /\ worker[w] \in Worker
  BY DEF IInv, TypeOK
<1>2. CASE CountSuccess(w)
  <2>1. PICK n : /\ n = Cardinality(Having(Seen(w), "success"))
                 /\ worker' = [worker EXCEPT ![w] = [worker[w] EXCEPT !.pc = "failure", !.success = n]]
    BY <1>2 DEF CountSuccess, Begin
  <2> QED
    BY <1>1, <1>2, <2>1 DEF Worker, CountSuccess
<1>3. CASE CountFailure(w)
  <2>1. PICK n : /\ n = Cardinality(Having(Seen(w), "failed"))
                 /\ worker' = [worker EXCEPT ![w] = [worker[w] EXCEPT !.pc = "pending", !.failure = n]]
    BY <1>3 DEF CountFailure, Begin
  <2> QED
    BY <1>1, <1>3, <2>1 DEF Worker, CountFailure
<1>4. CASE CountPending(w)
  <2>1. PICK n, pc :
          /\ n = Cardinality(Having(Seen(w), "pending"))
          /\ pc = IF worker[w].op \in {"skip", "late"} THEN "write" ELSE "recent"
          /\ worker' = [worker EXCEPT ![w] = [worker[w] EXCEPT !.pc = pc, !.pending = n]]
    BY <1>4 DEF CountPending, Begin
  <2> QED
    BY <1>1, <1>4, <2>1 DEF Worker, CountPending
<1>5. CASE CountRecent(w)
  <2>1. PICK n : /\ n = Cardinality(RecentFailures(w))
                 /\ worker' = [worker EXCEPT ![w] = [worker[w] EXCEPT !.pc = "write", !.recent = n]]
    BY <1>5 DEF CountRecent, Begin
  <2> QED
    BY <1>1, <1>5, <2>1 DEF Worker, CountRecent
<1> QED
  BY <1>2, <1>3, <1>4, <1>5 DEF Count

\* A recorder's counts are still low after any step
LEMMA CountsStayLow ==
  ASSUME IInv, IInv', [Next]_vars, NEW w \in Workers, CountsLow(w)
  PROVE  CountsLow(w)'
<1> SUFFICES ASSUME worker'[w].pc \in Counting, worker'[w].op # "skip"
             PROVE  CountsLow(w)'
  BY DEF CountsLow, Counting
<1>1. worker[w] \in Worker /\ worker'[w] \in Worker
  BY DEF IInv, TypeOK
<1>2. Final
  BY StepIsFinal
<1>3. worker'[w] = worker[w] \/ Count(w)
  BY WhoCounts
<1>4. /\ worker[w].pc \in InTx
      /\ worker'[w].dev = worker[w].dev /\ worker'[w].result = worker[w].result
      /\ worker'[w].op = worker[w].op
  BY <1>3, CountWrites DEF Counting, InTx
<1>5. ASSUME NEW s \in {"success", "failed"}
      PROVE  /\ Cardinality(Having(Seen(w), s)) <= Cardinality(Having(Seen(w), s)')
             /\ Cardinality(Having(Seen(w), s)) \in Nat
             /\ Cardinality(Having(Seen(w), s)') \in Nat
  <2>1. worker[w].dev \in Devices /\ worker'[w].dev \in Devices
    BY <1>4 DEF IInv, Fits, InTx
  <2>2. Cardinality(Having(Seen(w), s)) <= Cardinality(Having(Seen(w), s)')
    BY <1>2, <1>4, ResultsStay
  <2>3. Cardinality(Having(Seen(w), s)) \in Nat
    BY <2>1, SeenType, HavingCount DEF IInv
  <2>4. Having(Seen(w), s)' \subseteq Devices
    BY DEF Having
  <2>5. Cardinality(Having(Seen(w), s)') \in Nat
    BY <2>4, DevicesFinite, FS_Subset, FS_CardinalityType
  <2> QED
    BY <2>2, <2>3, <2>5
<1>6. worker[w].success \in Nat /\ worker[w].failure \in Nat
  BY <1>1 DEF Worker
<1>7. /\ Cardinality(Having(Seen(w), "success")) <= Cardinality(Having(Seen(w), "success"))'
      /\ Cardinality(Having(Seen(w), "failed")) <= Cardinality(Having(Seen(w), "failed"))'
      /\ Cardinality(Having(Seen(w), "success")) \in Nat
      /\ Cardinality(Having(Seen(w), "success"))' \in Nat
      /\ Cardinality(Having(Seen(w), "failed")) \in Nat
      /\ Cardinality(Having(Seen(w), "failed"))' \in Nat
  BY <1>5
<1>8. CASE worker'[w] = worker[w]
  BY <1>6, <1>7, <1>8 DEF CountsLow
<1>9. CASE Count(w)
  <2>1. \/ /\ worker'[w].pc = "failure"
           /\ worker'[w].success = Cardinality(Having(Seen(w), "success"))
        \/ /\ worker'[w].pc = "pending" /\ worker[w].pc = "failure"
           /\ worker'[w].failure = Cardinality(Having(Seen(w), "failed"))
           /\ worker'[w].success = worker[w].success
        \/ /\ worker'[w].pc \in {"recent", "write"} /\ worker[w].pc \in {"pending", "recent"}
           /\ worker'[w].success = worker[w].success
           /\ worker'[w].failure = worker[w].failure
    BY <1>9, CountWrites
  <2> QED
    BY <1>4, <1>6, <1>7, <2>1 DEF CountsLow
<1> QED
  BY <1>3, <1>8, <1>9

\* The counters do not overstate after any step
LEMMA CountersStayLow ==
  ASSUME IInv, IInv', CountsInv, [Next]_vars
  PROVE  CountersNeverOverstate'
<1>1. Final
  BY StepIsFinal
<1>2. \A s \in {"success", "failed"} :
        /\ Cardinality(Having(target, s)) <= Cardinality(Having(target', s))
        /\ Cardinality(Having(target, s)) \in Nat
        /\ Cardinality(Having(target', s)) \in Nat
  BY <1>1, ResultsStay, HavingCount DEF IInv, TypeOK
<1>3. rollout \in Rollout /\ rollout.success \in Nat /\ rollout.failure \in Nat
  BY DEF IInv, TypeOK, Rollout
<1>4. \A s : Having(target, s)' = Having(target', s)
  BY DEF Having
<1>5. CASE rollout'.success = rollout.success /\ rollout'.failure = rollout.failure
  <2>1. rollout.success <= Cardinality(Having(target, "success"))
        /\ rollout.failure <= Cardinality(Having(target, "failed"))
    BY DEF CountsInv, CountersNeverOverstate
  <2>2. rollout'.success <= Cardinality(Having(target', "success"))
        /\ rollout'.failure <= Cardinality(Having(target', "failed"))
    BY <1>2, <1>3, <1>5, <2>1
  <2> QED
    BY <1>4, <2>2 DEF CountersNeverOverstate
<1>6. ASSUME NEW w \in Workers, WriteAndCommit(w), worker[w].op # "skip"
      PROVE  CountersNeverOverstate'
  <2>1. /\ rollout'.success = worker[w].success /\ rollout'.failure = worker[w].failure
        /\ target' = Seen(w) /\ worker[w].pc = "write"
    BY <1>3, <1>6 DEF WriteAndCommit, RolloutAfter, Rollout
  <2>2. /\ worker[w].success <= Cardinality(Having(Seen(w), "success"))
        /\ worker[w].failure <= Cardinality(Having(Seen(w), "failed"))
    BY <1>6, <2>1 DEF CountsInv, CountsLow
  <2> QED
    BY <1>4, <2>1, <2>2 DEF CountersNeverOverstate
<1>7. ASSUME NEW w \in Workers, WriteAndCommit(w), worker[w].op = "skip"
      PROVE  rollout'.success = rollout.success /\ rollout'.failure = rollout.failure
  BY <1>3, <1>7 DEF WriteAndCommit, RolloutAfter, Rollout
<1>8. CASE CommitCancel
  <2> DEFINE waiting == Having(target, "pending")
             failed == Having(target, "failed")
  <2>1. /\ rollout'.success = rollout.success
        /\ rollout'.failure = rollout.failure + Cardinality(waiting)
    BY <1>3, <1>8 DEF CommitCancel, Rollout
  <2>2. IsFiniteSet(waiting) /\ IsFiniteSet(failed)
    BY DevicesFinite, FS_Subset DEF Having
  <2>3. failed \cap waiting = {} /\ failed \cup waiting = Having(target', "failed")
    BY <1>8, CancelEffect DEF Having
  <2>4. Cardinality(failed \cup waiting) = Cardinality(failed) + Cardinality(waiting) - 0
    BY <2>2, <2>3, FS_Union, FS_EmptySet
  <2>5. Cardinality(waiting) \in Nat /\ Cardinality(failed) \in Nat
    BY <2>2, FS_CardinalityType
  <2>6. rollout'.failure <= Cardinality(Having(target', "failed"))
    <3>1. rollout.failure <= Cardinality(failed)
      BY DEF CountsInv, CountersNeverOverstate
    <3>2. \A f, n, m \in Nat : f <= n => f + m <= n + m - 0
      OBVIOUS
    <3>3. rollout.failure + Cardinality(waiting) <= Cardinality(failed \cup waiting)
      BY <1>3, <2>4, <2>5, <3>1, <3>2
    <3> QED
      BY <2>1, <2>3, <3>3
  <2>7. rollout'.success <= Cardinality(Having(target', "success"))
    BY <1>2, <1>3, <2>1 DEF CountsInv, CountersNeverOverstate
  <2> QED
    BY <1>4, <2>6, <2>7 DEF CountersNeverOverstate
<1>9. CASE Resume
  BY <1>3, <1>5, <1>9 DEF Resume, Rollout
<1> QED
  BY <1>5, <1>6, <1>7, <1>8, <1>9, QuietStep

\* The counters shown for the rollout never report a success or a failure that
\* is not there, however the recorders, the sweep and a rollback interleave
THEOREM CountersAreBackedUp == Spec => []CountersNeverOverstate
<1>1. Init => CountsInv
  <2> SUFFICES ASSUME Init PROVE CountsInv
    OBVIOUS
  <2>1. /\ Cardinality(Having(target, "success")) \in Nat
        /\ Cardinality(Having(target, "failed")) \in Nat
    BY InitInv, HavingCount DEF IInv, TypeOK
  <2>2. CountersNeverOverstate
    BY <2>1 DEF Init, CountersNeverOverstate
  <2>3. \A w \in Workers : CountsLow(w)
    BY IdleIsFine DEF Init, CountsLow
  <2> QED
    BY <2>2, <2>3 DEF CountsInv
<1>2. IInv /\ IInv' /\ CountsInv /\ [Next]_vars => CountsInv'
  BY CountsStayLow, CountersStayLow DEF CountsInv
<1>3. CountsInv => CountersNeverOverstate
  BY DEF CountsInv
<1> QED
  BY Invariance, <1>1, <1>2, <1>3, PTL DEF Spec

-----------------------------------------------------------------------------
(* Recording implements RolloutContract *)

\* The steps that change no status are stutters of the contract
LEMMA QuietKeepsPromise ==
  ASSUME IInv, [Next]_vars,
         ~Resume, ~CommitCancel, \A w \in Workers : ~WriteAndCommit(w)
  PROVE  UNCHANGED Promise!contractVars
BY QuietStep DEF Promise!contractVars, Undecided

\* A commit decides its target, or updates a target that was decided before
LEMMA CommitKeepsPromise ==
  ASSUME IInv, NEW w \in Workers, WriteAndCommit(w)
  PROVE  [Promise!Advance]_Promise!contractVars
<1> DEFINE d == worker[w].dev
<1>1. /\ worker[w] \in Worker /\ worker[w].pc \in InTx /\ Fits(worker[w]) /\ Holds(worker[w])
      /\ d \in Devices
  BY DEF IInv, TypeOK, WriteAndCommit, InTx, Fits
<1>2. Undecided' = Undecided \ {d}
  BY <1>1, CommitEffect DEF Undecided, Having
<1>3. rollout.status \in Open \cup Closed
  BY DEF IInv, TypeOK, Rollout
<1>4. CASE rollout.status \in Closed
  <2>1. d \notin Undecided
    BY <1>1, <1>4 DEF IInv, NoneWaitsInClosed, Undecided, Having
  <2> QED
    BY <1>2, <1>4, <2>1, CommitEffect DEF Promise!contractVars
<1>5. CASE rollout.status \in Open
  <2>1. Promise!GoesOn
    <3>1. CASE rollout'.status = "completed"
      <4>1. \A e \in Devices : target'[e].status # "pending"
        BY <3>1, CommitEffect DEF Closed
      <4>2. Undecided' = {}
        BY <4>1 DEF Undecided, Having
      <4> QED
        BY <3>1, <4>2 DEF Promise!GoesOn
    <3>2. CASE rollout'.status \in Open
      BY <3>2 DEF Promise!GoesOn, Promise!Going, Open
    <3> QED
      BY <1>5, <3>1, <3>2, CommitEffect
  <2>2. CASE d \in Undecided
    <3>1. /\ d \notin Devices \ Undecided
          /\ (Devices \ Undecided)' = (Devices \ Undecided) \cup {d}
      BY <1>1, <1>2, <2>2 DEF Undecided, Having
    <3>2. Promise!Decide(d)
      BY <1>5, <2>1, <3>1 DEF Promise!Decide, Promise!Going, Open
    <3> QED
      BY <1>1, <3>2 DEF Promise!Advance
  <2>3. CASE d \notin Undecided
    <3>1. (Devices \ Undecided)' = Devices \ Undecided
      BY <1>2, <2>3
    <3>2. Promise!Update
      BY <1>5, <2>1, <3>1 DEF Promise!Update, Promise!Going, Open
    <3> QED
      BY <3>2 DEF Promise!Advance
  <2> QED
    BY <2>2, <2>3
<1> QED
  BY <1>3, <1>4, <1>5

LEMMA CancelKeepsPromise == ASSUME IInv, CommitCancel PROVE Promise!Advance
<1>1. Undecided' = {}
  BY CancelEffect DEF Undecided, Having
<1>2. Promise!Cancel
  BY <1>1, CancelEffect DEF Promise!Cancel, Promise!Going, Open
<1> QED
  BY <1>2 DEF Promise!Advance

LEMMA ResumeKeepsPromise == ASSUME IInv, Resume PROVE Promise!Advance
<1>1. rollout.status = "paused" /\ rollout'.status = "active" /\ UNCHANGED target
  BY DEF Resume, IInv, TypeOK, Rollout
<1>2. Promise!Update
  BY <1>1 DEF Promise!Update, Promise!GoesOn, Promise!Going, Undecided, Having
<1> QED
  BY <1>2 DEF Promise!Advance

\* However requests interleave, abort and crash, the rollout keeps its contract
THEOREM ContractKept == Spec => KeepsContract
<1>1. Init => Promise!Start
  BY DEF Init, Promise!Start, Undecided, Having
<1>2. ASSUME IInv, [Next]_vars PROVE [Promise!Advance]_Promise!contractVars
  <2>1. CASE Resume
    BY <1>2, <2>1, ResumeKeepsPromise
  <2>2. CASE CommitCancel
    BY <1>2, <2>2, CancelKeepsPromise
  <2>3. CASE \E w \in Workers : WriteAndCommit(w)
    BY <1>2, <2>3, CommitKeepsPromise
  <2> QED
    BY <1>2, <2>1, <2>2, <2>3, QuietKeepsPromise
<1>3. IInv /\ [Next]_vars => [Promise!Advance]_Promise!contractVars
  BY <1>2
<1> QED
  BY Invariance, <1>1, <1>3, PTL DEF Spec, KeepsContract, Promise!Contract

-----------------------------------------------------------------------------
(* Requests that do not overlap                                               *)

\* no time is later than the window that is open, and a row is touched when its
\* result is recorded
TimesFit ==
  /\ \A d \in Devices : target[d].since <= target[d].stamp /\ target[d].stamp <= rollout.window
  /\ \A w \in Workers : worker[w].stamp <= rollout.window

Recording == {"claim"} \cup InTx

\* what a recorder has read or counted is still so
KnowsStill(w) ==
  /\ worker[w].pc \in Recording =>
       /\ worker[w].op \in {"report", "expire"} =>
            worker[w].status = rollout.status /\ worker[w].window = rollout.window
       /\ worker[w].op = "late" => rollout.status \in {"active", "completed"}
       /\ worker[w].op = "skip" => rollout.status = "active"
  /\ worker[w].pc \in {"failure", "pending", "recent", "write"} /\ worker[w].op # "skip" =>
       worker[w].success = Cardinality(Having(Seen(w), "success"))
  /\ worker[w].pc \in {"pending", "recent", "write"} /\ worker[w].op # "skip" =>
       worker[w].failure = Cardinality(Having(Seen(w), "failed"))
  /\ worker[w].pc \in {"recent", "write"} =>
       worker[w].pending = Cardinality(Having(Seen(w), "pending"))
  /\ worker[w].pc = "write" /\ worker[w].op \in {"report", "expire"} =>
       worker[w].recent = Cardinality(RecentFailures(w))

\* the rollout says what its targets do, and an open one waits for somebody
RowAgrees ==
  /\ rollout.success = Cardinality(Having(target, "success"))
  /\ rollout.failure = Cardinality(Having(target, "failed"))
  /\ rollout.status \in Open => Having(target, "pending") # {}

\* nobody has come to hold the payload since the rollback listed who does
ListKept == rollback.pc \in {"ready", "cancelling"} => Affected \subseteq rollback.affected

InTurn == ~Overlap /\ RowAgrees /\ ListKept /\ \A w \in Workers : KnowsStill(w)

SerialInv == IInv /\ TimesFit /\ (overlapped \/ InTurn)

\* What a request has read when it starts
LEMMA RequestReads ==
  ASSUME IInv, NEW w \in Workers, Request(w)
  PROVE  /\ worker'[w].stamp = 0 /\ worker'[w].pc # "idle"
         /\ \A v \in Workers : v # w => worker'[v] = worker[v]
         /\ worker'[w].pc \in Recording =>
              /\ worker'[w].pc = "claim"
              /\ \/ worker'[w].op = "late" /\ rollout.status \in {"active", "completed"}
                 \/ worker'[w].op = "skip" /\ rollout.status = "active"
<1> USE DEF Begin, Recording, InTx
<1>0. worker \in [Workers -> Worker]
  BY DEF IInv, TypeOK
<1>1. PICK d \in Devices :
        \/ ListJob(w, d) \/ RefuseJob(w, d)
        \/ \E result \in {"success", "failed"} :
             ReportPending(w, d, result) \/ ReportSkipped(w, d, result)
        \/ ReportClosed(w, d)
        \/ SkipOverdue(w, d) \/ ExpireSilent(w, d)
  BY DEF Request
<1>2. ASSUME NEW pc, NEW op, NEW result
      PROVE  /\ Job(pc, op, d, result).pc = pc
             /\ Job(pc, op, d, result).op = op
             /\ Job(pc, op, d, result).stamp = 0
  BY DEF Job, IdleWorker
<1>3. PICK pc, op, result :
        /\ worker' = [worker EXCEPT ![w] = Job(pc, op, d, result)]
        /\ \/ pc \in {"mark", "find", "note"}
           \/ pc = "claim" /\ op = "late" /\ rollout.status \in {"active", "completed"}
           \/ pc = "claim" /\ op = "skip" /\ rollout.status = "active"
  <2>1. CASE ListJob(w, d) \/ RefuseJob(w, d) \/ ReportClosed(w, d) \/ ExpireSilent(w, d)
    BY <2>1 DEF ListJob, RefuseJob, ReportClosed, ExpireSilent
  <2>2. CASE SkipOverdue(w, d)
    BY <2>2 DEF SkipOverdue
  <2>3. ASSUME NEW r \in {"success", "failed"}, ReportSkipped(w, d, r)
        PROVE  /\ worker' = [worker EXCEPT ![w] = Job("claim", "late", d, r)]
               /\ rollout.status \in {"active", "completed"}
    BY <2>3 DEF ReportSkipped
  <2>4. ASSUME NEW r \in {"success", "failed"}, ReportPending(w, d, r)
        PROVE  \E pc \in {"mark", "find"} :
                 worker' = [worker EXCEPT ![w] = Job(pc, "report", d, r)]
    BY <2>4 DEF ReportPending
  <2> QED
    BY <1>1, <2>1, <2>2, <2>3, <2>4
<1>4. /\ worker'[w] = Job(pc, op, d, result)
      /\ \A v \in Workers : v # w => worker'[v] = worker[v]
  BY <1>0, <1>3
<1> QED
  BY <1>2, <1>3, <1>4

\* A step of one worker leaves the others alone
LEMMA ServeOne ==
  ASSUME IInv, NEW w \in Workers, Serve(w) \/ AbortTransaction(w)
  PROVE  /\ worker[w].pc # "idle"
         /\ \A v \in Workers : v # w => worker'[v] = worker[v]
         /\ rollback' = rollback
<1>1. worker \in [Workers -> Worker]
  BY DEF IInv, TypeOK
<1>2. /\ worker[w].pc # "idle" /\ rollback' = rollback
      /\ \E new : worker' = [worker EXCEPT ![w] = new]
  <2>1. CASE MarkPulled(w) \/ AppendLateReport(w)
    BY <2>1 DEF MarkPulled, AppendLateReport, Begin, Finish
  <2>2. CASE FindTarget(w) \/ ClaimTarget(w)
    BY <2>2 DEF FindTarget, ClaimTarget, Begin, GiveUp
  <2>3. CASE Count(w)
    BY <2>3 DEF Count, CountSuccess, CountFailure, CountPending, CountRecent, Begin
  <2>4. CASE WriteAndCommit(w)
    BY <2>4 DEF WriteAndCommit, Finish
  <2>5. CASE AbortTransaction(w)
    BY <2>5 DEF AbortTransaction, GiveUp, InTx
  <2> QED
    BY <2>1, <2>2, <2>3, <2>4, <2>5 DEF Serve
<1> QED
  BY <1>1, <1>2

\* While requests do not overlap, all that happens to one that is being served,
\* or to what it has read, are its own steps
LEMMA OnlyItsSteps ==
  ASSUME IInv, ~Overlap, ~Overlap', ~ResumeBetween, [Next]_vars,
         NEW w \in Workers, worker'[w].pc # "idle"
  PROVE  UNCHANGED vars \/ Request(w) \/ Serve(w) \/ AbortTransaction(w)
<1>1. ASSUME NEW v \in Workers, v # w, Request(v) PROVE FALSE
  BY <1>1, RequestReads DEF Overlap, Busy
<1>2. ASSUME NEW v \in Workers, v # w, Serve(v) \/ AbortTransaction(v) PROVE FALSE
  BY <1>2, ServeOne DEF Overlap, Busy
<1>3. CASE Resume
  <2>1. rollout.window' # rollout.window /\ worker' = worker
    BY <1>3 DEF Resume, IInv, TypeOK, Rollout
  <2> QED
    BY <2>1 DEF ResumeBetween, Busy
<1>4. CASE Rollback
  <2>1. worker' = worker /\ (RollingBack \/ RollingBack')
    BY <1>4 DEF Rollback, LoadRollback, ListAffected, BeginCancel, CommitCancel, AbortCancel,
                RollingBack, IInv, TypeOK
  <2> QED
    BY <2>1 DEF Overlap, Busy
<1>5. CASE Crash
  BY <1>5, IdleIsFine DEF Crash
<1> QED
  BY <1>1, <1>2, <1>3, <1>4, <1>5 DEF Next

-----------------------------------------------------------------------------
(* Times *)

\* a worker takes no time but that of the open window
LEMMA StampStep ==
  ASSUME IInv, IInv', [Next]_vars, NEW v \in Workers
  PROVE  worker'[v].stamp \in {worker[v].stamp, 0, rollout.window}
<1> DEFINE OK == worker'[v].stamp \in {worker[v].stamp, 0, rollout.window}
<1>0. worker \in [Workers -> Worker] /\ \A w \in Workers : worker[w] \in Worker
  BY DEF IInv, TypeOK
<1>1. ASSUME NEW w \in Workers, Request(w) PROVE OK
  BY <1>1, RequestReads
<1>2. ASSUME NEW w \in Workers, NEW new, worker' = [worker EXCEPT ![w] = new],
             new.stamp \in {worker[w].stamp, 0, rollout.window}
      PROVE  OK
  BY <1>0, <1>2
<1>3. ASSUME NEW w \in Workers, GiveUp(w) PROVE OK
  <2>1. IdleWorker.stamp = 0 /\ \A d : Job("note", "report", d, "failed").stamp = 0
    BY DEF Job, IdleWorker
  <2> QED
    BY <1>2, <1>3, <2>1 DEF GiveUp
<1>4. ASSUME NEW w \in Workers, Finish(w) PROVE OK
  BY <1>2, <1>4 DEF Finish, IdleWorker
<1>5. ASSUME NEW w \in Workers, MarkPulled(w) \/ AppendLateReport(w) \/ WriteAndCommit(w)
      PROVE  OK
  <2>1. CASE Finish(w)
    BY <1>4, <2>1
  <2>2. CASE Begin(w, [worker[w] EXCEPT !.pc = "find"])
    BY <1>0, <2>2 DEF Begin, Worker
  <2> QED
    BY <1>5, <2>1, <2>2 DEF MarkPulled, AppendLateReport, WriteAndCommit
<1>6. ASSUME NEW w \in Workers, FindTarget(w) \/ ClaimTarget(w) \/ AbortTransaction(w)
      PROVE  OK
  <2>1. CASE GiveUp(w)
    BY <1>3, <2>1
  <2>2. CASE FindTarget(w) /\ ~GiveUp(w)
    <3> DEFINE new == [worker[w] EXCEPT !.pc = "claim", !.status = rollout.status,
                                        !.window = rollout.window]
    <3>1. worker' = [worker EXCEPT ![w] = new]
      BY <2>2 DEF FindTarget, Begin
    <3>2. new.stamp = worker[w].stamp
      BY <1>0 DEF Worker
    <3> HIDE DEF new
    <3> QED
      BY <1>2, <3>1, <3>2
  <2>3. CASE ClaimTarget(w) /\ ~GiveUp(w)
    <3> DEFINE new == [worker[w] EXCEPT !.pc = IF worker[w].op = "skip" THEN "pending" ELSE "success",
                                        !.stamp = rollout.window]
    <3>1. worker' = [worker EXCEPT ![w] = new]
      BY <2>3 DEF ClaimTarget, Begin
    <3>2. new.stamp = rollout.window
      BY <1>0 DEF Worker
    <3> HIDE DEF new
    <3> QED
      BY <1>2, <3>1, <3>2
  <2> QED
    BY <1>6, <2>1, <2>2, <2>3 DEF AbortTransaction
<1>7. ASSUME NEW w \in Workers, Count(w) PROVE OK
  BY <1>7, CountWrites
<1>8. CASE Resume \/ Rollback \/ UNCHANGED vars
  BY <1>8 DEF Resume, Rollback, LoadRollback, ListAffected, BeginCancel, CommitCancel,
              AbortCancel, vars
<1>9. CASE Crash
  BY <1>9 DEF Crash, IdleWorker
<1> QED
  BY <1>1, <1>5, <1>6, <1>7, <1>8, <1>9 DEF Next, Serve

\* the window that is open does not go back
LEMMA WindowStep ==
  ASSUME IInv, [Next]_vars
  PROVE  rollout'.window = rollout.window \/ (Resume /\ rollout'.window = rollout.window + 1)
<1>0. rollout \in Rollout
  BY DEF IInv, TypeOK
<1>1. CASE Resume
  BY <1>0, <1>1 DEF Resume, Rollout
<1>2. CASE CommitCancel
  BY <1>0, <1>2 DEF CommitCancel, Rollout
<1>3. ASSUME NEW w \in Workers, WriteAndCommit(w) PROVE rollout'.window = rollout.window
  BY <1>0, <1>3 DEF WriteAndCommit, RolloutAfter, Rollout
<1> QED
  BY <1>1, <1>2, <1>3, QuietStep

\* a row that a step touches gets the time of the open window, or that at which
\* its target was claimed
LEMMA TouchStep ==
  ASSUME IInv, TimesFit, [Next]_vars, NEW d \in Devices
  PROVE  /\ target'[d].since <= target'[d].stamp
         /\ target'[d].stamp <= rollout.window
<1> DEFINE OK == target'[d].since <= target'[d].stamp /\ target'[d].stamp <= rollout.window
<1>0. /\ target \in [Devices -> Target] /\ target[d] \in Target /\ rollout.window \in Nat
      /\ target[d].stamp \in Nat /\ target[d].since \in Nat
      /\ target[d].since <= target[d].stamp /\ target[d].stamp <= rollout.window
  BY DEF IInv, TypeOK, Rollout, Target, TimesFit
<1>1. CASE target'[d] = target[d]
  BY <1>0, <1>1
<1>2. ASSUME target'[d].stamp = rollout.window, target'[d].since = target[d].since PROVE OK
  BY <1>0, <1>2
<1>3. ASSUME NEW w \in Workers, MarkPulled(w) PROVE OK
  <2>1. target'[d] = target[d] \/ target'[d] = [target[d] EXCEPT !.pulled = TRUE, !.stamp = rollout.window]
    BY <1>0, <1>3 DEF MarkPulled, Target
  <2> QED
    BY <1>0, <1>1, <1>2, <2>1 DEF Target
<1>4. ASSUME NEW w \in Workers, AppendLateReport(w) PROVE OK
  <2>1. target'[d] = target[d] \/ target'[d] = [target[d] EXCEPT !.noted = TRUE, !.stamp = rollout.window]
    BY <1>0, <1>4 DEF AppendLateReport, Target
  <2> QED
    BY <1>0, <1>1, <1>2, <2>1 DEF Target
<1>5. ASSUME NEW w \in Workers, WriteAndCommit(w) PROVE OK
  <2>1. target' = Seen(w) /\ worker[w].dev \in Devices
    BY <1>5, CommitEffect DEF WriteAndCommit
  <2>2. CASE d = worker[w].dev
    <3>1. target'[d] = ClaimedTarget(w)
      BY <1>0, <2>1, <2>2 DEF Seen
    <3>2. target'[d].stamp = worker[w].stamp /\ target'[d].since = worker[w].stamp
      BY <1>0, <2>2, <3>1 DEF ClaimedTarget, Target
    <3>3. worker[w].stamp \in Nat /\ worker[w].stamp <= rollout.window
      BY DEF IInv, TypeOK, Worker, TimesFit
    <3> QED
      BY <3>2, <3>3
  <2> QED
    BY <1>0, <1>1, <2>1, <2>2 DEF Seen
<1>6. CASE CommitCancel
  <2>1. target'[d] = target[d] \/ target'[d] = [target[d] EXCEPT !.status = "failed",
          !.stamp = rollout.window, !.since = rollout.window, !.noted = FALSE]
    BY <1>6 DEF CommitCancel, CancelTargets
  <2>2. CASE target'[d] = [target[d] EXCEPT !.status = "failed",
          !.stamp = rollout.window, !.since = rollout.window, !.noted = FALSE]
    <3>1. target'[d].stamp = rollout.window /\ target'[d].since = rollout.window
      BY <1>0, <2>2 DEF Target
    <3> QED
      BY <1>0, <3>1
  <2> QED
    BY <1>1, <2>1, <2>2
<1>7. ASSUME NEW w \in Workers, Request(w) PROVE target' = target
  BY <1>7, RequestStarts
<1>8. ASSUME NEW w \in Workers, FindTarget(w) \/ ClaimTarget(w) \/ Count(w) \/ AbortTransaction(w)
      PROVE  target' = target
  BY <1>8 DEF FindTarget, ClaimTarget, Count, CountSuccess, CountFailure, CountPending,
              CountRecent, AbortTransaction
<1>9. CASE Resume \/ LoadRollback \/ ListAffected \/ BeginCancel \/ AbortCancel \/ Crash
  BY <1>1, <1>9 DEF Resume, LoadRollback, ListAffected, BeginCancel, AbortCancel, Crash
<1> QED
  BY <1>1, <1>3, <1>4, <1>5, <1>6, <1>7, <1>8, <1>9 DEF Next, Serve, Rollback, vars

LEMMA TimesKept ==
  ASSUME IInv, IInv', TimesFit, [Next]_vars
  PROVE  TimesFit'
<1>1. rollout.window \in Nat /\ rollout'.window \in Nat /\ rollout.window <= rollout'.window
  BY WindowStep DEF IInv, TypeOK, Rollout
<1>2. ASSUME NEW d \in Devices
      PROVE  target'[d].since <= target'[d].stamp /\ target'[d].stamp <= rollout'.window
  <2>1. target'[d].stamp \in Nat
    BY DEF IInv, TypeOK, Target
  <2> QED
    BY <1>1, <2>1, TouchStep
<1>3. ASSUME NEW v \in Workers PROVE worker'[v].stamp <= rollout'.window
  <2>1. worker[v].stamp \in Nat /\ worker[v].stamp <= rollout.window
    BY DEF IInv, TypeOK, Worker, TimesFit
  <2> QED
    BY <1>1, <2>1, StampStep
<1> QED
  BY <1>2, <1>3 DEF TimesFit

-----------------------------------------------------------------------------
(* What a recorder knows *)

\* what a transaction sees depends on the rows and on what it will write
LEMMA SeesTheSame ==
  ASSUME NEW w \in Workers, target' = target,
         worker'[w].dev = worker[w].dev, worker'[w].result = worker[w].result,
         worker'[w].stamp = worker[w].stamp, worker'[w].window = worker[w].window
  PROVE  /\ \A s : Cardinality(Having(Seen(w), s))' = Cardinality(Having(Seen(w), s))
         /\ RecentFailures(w)' = RecentFailures(w)
BY DEF Seen, ClaimedTarget, Having, RecentFailures

LEMMA KnowsKept ==
  ASSUME IInv, IInv', ~Overlap, ~Overlap', ~ResumeBetween, [Next]_vars,
         NEW w \in Workers, KnowsStill(w)
  PROVE  KnowsStill(w)'
<1> SUFFICES ASSUME worker'[w].pc \in Recording PROVE KnowsStill(w)'
  BY DEF KnowsStill, Recording, InTx
<1>0. worker \in [Workers -> Worker] /\ worker[w] \in Worker
  BY DEF IInv, TypeOK
<1>1. UNCHANGED vars \/ Request(w) \/ Serve(w) \/ AbortTransaction(w)
  <2>1. worker'[w].pc # "idle"
    BY DEF Recording, InTx
  <2> QED
    BY <2>1, OnlyItsSteps
<1>2. CASE UNCHANGED vars
  <2>1. worker'[w] = worker[w] /\ rollout' = rollout /\ target' = target
    BY <1>2 DEF vars
  <2> QED
    BY <2>1, SeesTheSame DEF KnowsStill
<1>3. CASE Request(w)
  <2>1. rollout' = rollout
    BY <1>3, RequestStarts
  <2> QED
    BY <1>3, <2>1, RequestReads DEF KnowsStill, Recording, InTx
<1>4. ~GiveUp(w) /\ ~Finish(w)
  <2>1. ASSUME NEW new, worker' = [worker EXCEPT ![w] = new], new.pc \in {"idle", "note"}
        PROVE  FALSE
    BY <1>0, <2>1 DEF Recording, InTx
  <2>2. /\ IdleWorker.pc = "idle"
        /\ \A d : Job("note", "report", d, "failed").pc = "note"
    BY DEF Job, IdleWorker
  <2> QED
    BY <2>1, <2>2 DEF GiveUp, Finish
<1>5. CASE FindTarget(w)
  <2>1. worker' = [worker EXCEPT ![w] = [worker[w] EXCEPT !.pc = "claim",
                     !.status = rollout.status, !.window = rollout.window]]
    BY <1>4, <1>5 DEF FindTarget, Begin
  <2>2. /\ worker'[w].pc = "claim" /\ worker'[w].op = worker[w].op
        /\ worker'[w].status = rollout.status /\ worker'[w].window = rollout.window
    BY <1>0, <2>1 DEF Worker
  <2>3. worker[w].op \in {"report", "expire"} /\ rollout' = rollout
    BY <1>5 DEF FindTarget, IInv, Fits
  <2> QED
    BY <2>2, <2>3 DEF KnowsStill
<1>6. CASE ClaimTarget(w)
  <2>1. worker' = [worker EXCEPT ![w] =
            [worker[w] EXCEPT !.pc = IF worker[w].op = "skip" THEN "pending" ELSE "success",
                              !.stamp = rollout.window]]
    BY <1>4, <1>6 DEF ClaimTarget, Begin
  <2>2. /\ worker'[w].pc = IF worker[w].op = "skip" THEN "pending" ELSE "success"
        /\ worker'[w].op = worker[w].op
        /\ worker'[w].status = worker[w].status /\ worker'[w].window = worker[w].window
    BY <1>0, <2>1 DEF Worker
  <2>3. rollout' = rollout /\ worker[w].pc \in Recording
    BY <1>6 DEF ClaimTarget, Recording
  <2> QED
    BY <2>2, <2>3 DEF KnowsStill
<1>7. CASE Count(w)
  <2>1. UNCHANGED <<rollout, target>> /\ worker[w].pc \in Recording
    BY <1>7 DEF Count, CountSuccess, CountFailure, CountPending, CountRecent, Recording, InTx
  <2>2. /\ \A s : Cardinality(Having(Seen(w), s))' = Cardinality(Having(Seen(w), s))
        /\ Cardinality(RecentFailures(w))' = Cardinality(RecentFailures(w))
    BY <1>7, <2>1, CountWrites, SeesTheSame
  <2> QED
    BY <1>7, <2>1, <2>2, CountWrites DEF KnowsStill
<1>8. CASE MarkPulled(w)
  BY <1>0, <1>4, <1>8 DEF MarkPulled, Begin, Recording, InTx, Worker
<1> QED
  BY <1>1, <1>2, <1>3, <1>4, <1>5, <1>6, <1>7, <1>8
  DEF Serve, AppendLateReport, WriteAndCommit, AbortTransaction

-----------------------------------------------------------------------------
(* What the rollout says of its targets *)

LEMMA SameStatuses ==
  ASSUME \A d \in Devices : target'[d].status = target[d].status
  PROVE  \A s : Having(target, s)' = Having(target, s)
BY DEF Having

\* a recorder that still knows what it counted writes what is so
LEMMA CommitAgrees ==
  ASSUME IInv, RowAgrees, NEW w \in Workers, KnowsStill(w), WriteAndCommit(w)
  PROVE  RowAgrees'
<1> DEFINE d == worker[w].dev
           wait == worker[w].pending
<1>1. /\ worker[w] \in Worker /\ worker[w].pc = "write" /\ Fits(worker[w]) /\ Holds(worker[w])
      /\ rollout \in Rollout /\ d \in Devices /\ target \in [Devices -> Target]
  BY CommitEffect DEF IInv, TypeOK, WriteAndCommit
<1>2. /\ target' = Seen(w) /\ rollout' = RolloutAfter(w)
      /\ Seen(w) \in [Devices -> Target]
  BY <1>1, SeenType DEF WriteAndCommit, IInv
<1>3. \A s : Having(target, s)' = Having(Seen(w), s)
  BY <1>2 DEF Having
<1>4. wait = 0 <=> Having(target, "pending")' = {}
  <2>1. wait = Cardinality(Having(Seen(w), "pending"))
    BY <1>1 DEF KnowsStill
  <2> QED
    BY <1>2, <1>3, <2>1, HavingCount
<1>5. wait \in Nat
  BY <1>1 DEF Worker
<1>6. CASE worker[w].op # "skip"
  <2>1. worker[w].success = Cardinality(Having(target, "success"))'
        /\ worker[w].failure = Cardinality(Having(target, "failed"))'
    BY <1>1, <1>3, <1>6 DEF KnowsStill
  <2>2. rollout'.success = worker[w].success /\ rollout'.failure = worker[w].failure
        /\ rollout'.status = IF worker[w].op = "late"
                             THEN IF ClosesActive(w) THEN "completed" ELSE rollout.status
                             ELSE StatusAfter(w)
    BY <1>1, <1>2, <1>6 DEF RolloutAfter, Rollout
  <2>3. rollout'.status \in Open => wait # 0
    <3>1. CASE worker[w].op = "late"
      <4>1. rollout.status \in {"active", "completed"}
        BY <1>1, <3>1 DEF KnowsStill, Recording, InTx
      <4> QED
        BY <2>2, <3>1, <4>1 DEF ClosesActive, Open
    <3>2. CASE worker[w].op # "late"
      BY <2>2, <3>2 DEF StatusAfter, Open
    <3> QED
      BY <3>1, <3>2
  <2> QED
    BY <1>4, <2>1, <2>2, <2>3 DEF RowAgrees
<1>7. CASE worker[w].op = "skip"
  <2>1. /\ rollout.status = "active" /\ worker[w].result = "skipped_offline"
        /\ target[d].status = "pending"
    BY <1>1, <1>7 DEF KnowsStill, Recording, InTx, Fits, Holds
  <2>2. \A e \in Devices : Seen(w)[e].status = IF e = d THEN "skipped_offline" ELSE target[e].status
    BY <1>1, <2>1 DEF Seen, ClaimedTarget, Target
  <2>3. /\ Having(Seen(w), "success") = Having(target, "success")
        /\ Having(Seen(w), "failed") = Having(target, "failed")
    BY <2>1, <2>2 DEF Having
  <2>4. rollout'.success = rollout.success /\ rollout'.failure = rollout.failure
        /\ rollout'.status = IF wait = 0 THEN "completed" ELSE rollout.status
    BY <1>1, <1>2, <1>7, <2>1 DEF RolloutAfter, ClosesActive, Rollout
  <2> QED
    BY <1>3, <1>4, <2>3, <2>4 DEF RowAgrees, Open
<1> QED
  BY <1>6, <1>7

LEMMA CancelAgrees ==
  ASSUME IInv, RowAgrees, CommitCancel
  PROVE  RowAgrees'
<1> DEFINE waiting == Having(target, "pending")
           failed == Having(target, "failed")
<1>1. rollout'.success = rollout.success
      /\ rollout'.failure = rollout.failure + Cardinality(waiting)
  BY DEF CommitCancel, IInv, TypeOK, Rollout
<1>2. IsFiniteSet(waiting) /\ IsFiniteSet(failed)
  BY DevicesFinite, FS_Subset DEF Having
<1>3. /\ failed \cap waiting = {} /\ Having(target, "failed")' = failed \cup waiting
      /\ Having(target, "success")' = Having(target, "success")
  BY CancelEffect DEF Having
<1>4. Cardinality(failed \cup waiting) = Cardinality(failed) + Cardinality(waiting) - 0
  BY <1>2, <1>3, FS_Union, FS_EmptySet
<1>5. Cardinality(waiting) \in Nat /\ Cardinality(failed) \in Nat
  BY <1>2, FS_CardinalityType
<1>6. Cardinality(failed \cup waiting) = Cardinality(failed) + Cardinality(waiting)
  BY <1>4, <1>5
<1> QED
  BY <1>1, <1>3, <1>6, CancelEffect DEF RowAgrees, Open

LEMMA AgreesKept ==
  ASSUME IInv, RowAgrees, [Next]_vars, \A w \in Workers : KnowsStill(w)
  PROVE  RowAgrees'
<1>1. CASE Resume
  <2>1. /\ rollout'.success = rollout.success /\ rollout'.failure = rollout.failure
        /\ rollout.status = "paused" /\ target' = target
    BY <1>1 DEF Resume, IInv, TypeOK, Rollout
  <2>2. \A s : Having(target, s)' = Having(target, s)
    BY <2>1 DEF Having
  <2> QED
    BY <2>1, <2>2 DEF RowAgrees, Open
<1>2. CASE ~Resume /\ ~CommitCancel /\ \A w \in Workers : ~WriteAndCommit(w)
  BY <1>2, QuietStep, SameStatuses DEF RowAgrees
<1> QED
  BY <1>1, <1>2, CommitAgrees, CancelAgrees

-----------------------------------------------------------------------------
(* What a rollback has listed *)

LEMMA ListStaysKept ==
  ASSUME IInv, ListKept, ~Overlap, ~Overlap', [Next]_vars
  PROVE  ListKept'
<1> SUFFICES ASSUME rollback'.pc \in {"ready", "cancelling"}
             PROVE  Affected' \subseteq rollback'.affected
  BY DEF ListKept
<1>1. RollingBack'
  BY DEF RollingBack
<1>2. ASSUME NEW w \in Workers, Request(w) PROVE FALSE
  BY <1>1, <1>2, RequestReads DEF Overlap, Busy
<1>3. ASSUME NEW w \in Workers, Serve(w) \/ AbortTransaction(w) PROVE FALSE
  <2>1. RollingBack /\ w \in Busy
    BY <1>1, <1>3, ServeOne DEF RollingBack, Busy
  <2> QED
    BY <2>1 DEF Overlap
<1>4. CASE Resume \/ UNCHANGED vars
  <2>1. target' = target /\ rollback' = rollback
    BY <1>4 DEF Resume, vars
  <2> QED
    BY <2>1 DEF ListKept, Affected
<1>5. CASE LoadRollback \/ CommitCancel \/ AbortCancel \/ Crash
  BY <1>5 DEF LoadRollback, CommitCancel, AbortCancel, Crash, IInv, TypeOK
<1>6. CASE ListAffected
  BY <1>6 DEF ListAffected, IInv, TypeOK, Affected
<1>7. CASE BeginCancel
  <2>1. rollback.pc = "ready" /\ rollback'.affected = rollback.affected /\ target' = target
    BY <1>7 DEF BeginCancel, IInv, TypeOK
  <2> QED
    BY <2>1 DEF ListKept, Affected
<1> QED
  BY <1>2, <1>3, <1>4, <1>5, <1>6, <1>7 DEF Next, Rollback

LEMMA InTurnKept ==
  ASSUME IInv, IInv', InTurn, [Next]_vars, ~Overlap', ~ResumeBetween
  PROVE  InTurn'
<1>1. \A w \in Workers : KnowsStill(w)'
  BY KnowsKept DEF InTurn
<1>2. RowAgrees' /\ ListKept'
  BY AgreesKept, ListStaysKept DEF InTurn
<1> QED
  BY <1>1, <1>2 DEF InTurn

LEMMA SerialAlways == SerialSpec => []SerialInv
<1>1. SerialInit => SerialInv
  <2> SUFFICES ASSUME SerialInit PROVE SerialInv
    OBVIOUS
  <2>1. IInv /\ \A w \in Workers : worker[w] = IdleWorker
    BY InitInv DEF SerialInit, Init
  <2>2. TimesFit
    BY <2>1 DEF SerialInit, Init, TimesFit, IdleWorker
  <2>3. ~Overlap
    BY <2>1, IdleIsFine DEF Overlap, Busy
  <2>4. RowAgrees
    <3>1. Having(target, "success") = {} /\ Having(target, "failed") = {}
          /\ Having(target, "pending") = Devices
      BY DEF SerialInit, Init, Having
    <3> QED
      BY <3>1, FS_EmptySet, HasDevices DEF SerialInit, Init, RowAgrees
  <2>5. ListKept
    BY DEF SerialInit, Init, ListKept
  <2>6. \A w \in Workers : KnowsStill(w)
    BY <2>1, IdleIsFine DEF KnowsStill, Recording, InTx
  <2> QED
    BY <2>1, <2>2, <2>3, <2>4, <2>5, <2>6 DEF SerialInv, InTurn
<1>2. SerialInv /\ [SerialNext]_serialVars => SerialInv'
  <2> SUFFICES ASSUME SerialInv, [SerialNext]_serialVars PROVE SerialInv'
    OBVIOUS
  <2>1. [Next]_vars
    BY DEF SerialNext, serialVars
  <2>2. IInv' /\ TimesFit'
    BY <2>1, NextInv, TimesKept DEF SerialInv
  <2>3. ASSUME ~overlapped' PROVE InTurn'
    <3>1. CASE SerialNext
      BY <2>1, <2>2, <2>3, <3>1, InTurnKept DEF SerialNext, SerialInv
    <3>2. CASE UNCHANGED serialVars
      <4>1. InTurn /\ UNCHANGED vars
        BY <2>3, <3>2 DEF serialVars, SerialInv
      <4>2. ~Overlap' /\ ~ResumeBetween
        BY <4>1 DEF InTurn, Overlap, Busy, RollingBack, ResumeBetween, vars
      <4> QED
        BY <2>1, <2>2, <4>1, <4>2, InTurnKept DEF SerialInv
    <3> QED
      BY <3>1, <3>2
  <2> QED
    BY <2>2, <2>3 DEF SerialInv
<1> QED
  BY <1>1, <1>2, PTL DEF SerialSpec

-----------------------------------------------------------------------------
\* As long as requests do not overlap, a rollout whose devices are all done is
\* closed, its counters are exact after each recording, and a paused one still
\* waits for somebody (recordTargetResult and the two others that record).
THEOREM PromisesHoldInTurn == SerialSpec => []SerialPromises
<1>1. SerialInv => SerialPromises
  <2> SUFFICES ASSUME IInv, InTurn PROVE AllDecidedCloses /\ CountersExact /\ PausedStillWaits
    BY DEF SerialInv, SerialPromises
  <2>1. rollout.status \in Open \cup Closed
    BY DEF IInv, TypeOK, Rollout
  <2>2. (\A d \in Devices : target[d].status # "pending") => Having(target, "pending") = {}
    BY DEF Having
  <2>3. rollout.status = "paused" => \E d \in Devices : target[d].status = "pending"
    BY DEF InTurn, RowAgrees, Having, Open
  <2> QED
    BY <2>1, <2>2, <2>3 DEF InTurn, RowAgrees, AllDecidedCloses, CountersExact, PausedStillWaits
<1> QED
  BY <1>1, SerialAlways, PTL

\* more failures are over the threshold if some of them are
LEMMA OverGrows ==
  ASSUME NEW m \in Nat, NEW n \in Nat, m <= n, OverThreshold(m)
  PROVE  OverThreshold(n)
<1>1. m * ThresholdDen <= n * ThresholdDen
  BY ThresholdIsFraction
<1>2. Cardinality(Devices) \in Nat
  BY DevicesFinite, FS_CardinalityType
<1>3. ThresholdNum * Cardinality(Devices) \in Nat
  BY <1>2, ThresholdIsFraction
<1>4. m * ThresholdDen \in Nat /\ n * ThresholdDen \in Nat
  BY ThresholdIsFraction
<1> QED
  BY <1>1, <1>3, <1>4 DEF OverThreshold

LEMMA CommitLeavesWithin ==
  ASSUME IInv, IInv', TimesFit', NEW w \in Workers, KnowsStill(w), WriteAndCommit(w)
  PROVE  LeavesWithinThreshold
<1> DEFINE d == worker[w].dev
           late == {e \in Having(target, "failed")' : target'[e].since >= rollout.window}
<1> SUFFICES ASSUME \E e \in Devices : target[e].status = "pending"
                                        /\ target'[e].status \in {"success", "failed"},
                    rollout'.status = "active", Having(target, "pending")' # {},
                    OverThreshold(Cardinality(late))
             PROVE  FALSE
  BY DEF LeavesWithinThreshold
<1>1. /\ worker[w] \in Worker /\ worker[w].pc = "write" /\ Fits(worker[w]) /\ Holds(worker[w])
      /\ rollout \in Rollout /\ d \in Devices /\ target' = Seen(w)
  BY CommitEffect DEF IInv, TypeOK, WriteAndCommit
<1>2. target[d].status = "pending" /\ worker[w].result \in {"success", "failed"}
  BY CommitEffect
<1>3. worker[w].op \in {"report", "expire"}
  BY <1>1, <1>2 DEF Fits, Holds, InTx
<1>4. /\ worker[w].status = rollout.status /\ worker[w].window = rollout.window
      /\ worker[w].pending = Cardinality(Having(Seen(w), "pending"))
      /\ worker[w].recent = Cardinality(RecentFailures(w))
  BY <1>1, <1>3 DEF KnowsStill, Recording, InTx
<1>5. rollout'.status = StatusAfter(w)
  BY <1>1, <1>3 DEF WriteAndCommit, RolloutAfter, Rollout
<1>6. worker[w].pending > 0
  <2>1. Having(Seen(w), "pending") # {} /\ Seen(w) \in [Devices -> Target]
    BY <1>1, SeenType DEF Having, IInv
  <2> QED
    BY <1>4, <2>1, HavingCount
<1>7. ~OverThreshold(worker[w].recent)
  BY <1>5, <1>6 DEF StatusAfter
<1>8. late \subseteq RecentFailures(w)
  <2>1. \A e \in Devices : /\ target'[e].since \in Nat /\ target'[e].stamp \in Nat
                           /\ target'[e].since <= target'[e].stamp
    BY DEF IInv, TypeOK, Target, TimesFit
  <2>2. rollout.window \in Nat
    BY <1>1 DEF Rollout
  <2> QED
    BY <1>1, <1>4, <2>1, <2>2 DEF RecentFailures, Having
<1>9. Cardinality(late) <= Cardinality(RecentFailures(w)) /\ Cardinality(late) \in Nat
      /\ Cardinality(RecentFailures(w)) \in Nat
  <2>1. IsFiniteSet(RecentFailures(w))
    BY DevicesFinite, FS_Subset DEF RecentFailures, Having
  <2> HIDE DEF late
  <2> QED
    BY <1>8, <2>1, FS_Subset, FS_CardinalityType
<1> HIDE DEF late
<1> QED
  BY <1>4, <1>7, <1>9, OverGrows

LEMMA StepLeavesWithin ==
  ASSUME IInv, IInv', TimesFit', InTurn, [Next]_vars
  PROVE  LeavesWithinThreshold
<1>1. CASE Resume
  BY <1>1 DEF Resume, LeavesWithinThreshold
<1>2. CASE CommitCancel
  BY <1>2, CancelEffect DEF LeavesWithinThreshold
<1>3. CASE ~Resume /\ ~CommitCancel /\ \A w \in Workers : ~WriteAndCommit(w)
  BY <1>3, QuietStep DEF LeavesWithinThreshold
<1> QED
  BY <1>1, <1>2, <1>3, CommitLeavesWithin DEF InTurn

LEMMA StepLists ==
  ASSUME IInv, ListKept
  PROVE  ListsHolders
BY DEF ListsHolders, ListKept, IInv, TypeOK, HandedOutIsPulled, Fetched, Affected

\* As long as requests do not overlap, a result that leaves the failures of the
\* window over the threshold pauses the rollout (recordTargetResult), and a
\* rollback goes to every device that fetched the payload and succeeded or did not
\* answer yet (rollback, which lists them before its transaction).
THEOREM StepsHoldInTurn == SerialSpec => SerialSteps
<1>1. ASSUME SerialInv, SerialInv', [SerialNext]_serialVars
      PROVE  [overlapped' \/ (LeavesWithinThreshold /\ ListsHolders)]_serialVars
  <2> SUFFICES ASSUME SerialNext, ~overlapped'
               PROVE  LeavesWithinThreshold /\ ListsHolders
    BY <1>1
  <2>1. InTurn /\ IInv /\ IInv' /\ TimesFit' /\ [Next]_vars
    BY <1>1 DEF SerialNext, SerialInv
  <2> QED
    BY <2>1, StepLeavesWithin, StepLists DEF InTurn
<1>2. SerialInv /\ SerialInv' /\ [SerialNext]_serialVars
        => [overlapped' \/ (LeavesWithinThreshold /\ ListsHolders)]_serialVars
  BY <1>1
<1> QED
  BY <1>2, SerialAlways, PTL DEF SerialSpec, SerialSteps
=============================================================================
