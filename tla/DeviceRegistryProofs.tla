------------------------ MODULE DeviceRegistryProofs ------------------------
(* Proofs about DeviceRegistry, for any devices, customers, numbers, names,  *)
(* tasks and callers.                                                        *)
EXTENDS DeviceRegistry, TLAPS

-----------------------------------------------------------------------------
(* The inductive invariant *)

\* what a call is about, by its kind
Fits(c) ==
  /\ c.op \in {"register", "update"} =>
       c.device \in Devices /\ c.value \in Numbers \cup {None}
  /\ c.op = "register" => c.value # None
  /\ c.pc = "link" =>
       c.op \in {"register", "update"} /\ c.customer \in Customers
  /\ c.pc = "number" => c.op \in {"register", "update"} /\ c.value # None
  /\ c.op \in {"retire", "confirm", "ask", "task"} => c.device \in Devices
  /\ c.op = "task" => c.task \in Tasks
  /\ c.op \in {"create", "rename", "remove"} => c.customer \in Customers
  /\ c.op \in {"create", "rename"} => c.value \in Names

\* no work but what Operation has opened again
CutOff(d) ==
  /\ ~asked[d]
  /\ \A t \in Tasks : task[t].device = d /\ task[t].open => task[t].reopened

\* a number that is about to be written
WritesNumber(c) == /\ c.op \in {"register", "update"}
                   /\ c.value # None /\ c.pc = "write"

\* a customer that is about to be linked, and locked
Links(c) == c.op \in {"register", "update"} /\ c.pc # "link"

\* what a call has read is still so when it writes
Knows(c) ==
  /\ c.op \in {"update", "retire", "confirm"} => device[c.device].status # "none"
  /\ c.op \in {"ask", "task"} => IsLive(c.device)
  /\ c.op = "retire" => CutOff(c.device)
  /\ WritesNumber(c) =>
       \A e \in Devices \ {c.device} : device[e].number # c.value
  /\ Links(c) /\ c.customer # None => customer[c.customer].status = "active"
  /\ c.op \in {"create", "rename"} => NameFree(c.customer, c.value)
  /\ c.op = "rename" => IsCustomer(c.customer)
  /\ c.op = "remove" => \A d \in Devices : device[d].customer # c.customer

\* what the locks keep apart
Apart(b, c) ==
  /\ b.op \in {"update", "retire"} /\ c.op \in {"update", "retire", "ask", "task"}
     => b.device # c.device
  /\ b.op \in {"rename", "remove"} /\ (c.op \in {"rename", "remove"} \/ Links(c))
     => b.customer # c.customer
  /\ ~(WritesNumber(b) /\ WritesNumber(c))
  /\ ~(b.op \in {"create", "rename"} /\ c.op \in {"create", "rename"})

\* rows that are not there have nothing, rows of retired devices have the time
RowsFit ==
  /\ \A d \in Devices : /\ device[d].status = "none" => device[d].customer = None
                        /\ device[d].status = "decommissioned" => device[d].retiredAt
  /\ \A c \in Customers : ~IsCustomer(c) => customer[c].name = None

IInv ==
  /\ TypeOK
  /\ \A w \in Callers : Fits(call[w]) /\ Knows(call[w])
  /\ \A v, w \in Callers : v # w => Apart(call[v], call[w])
  /\ RowsFit
  /\ RetiredIsCutOff

\* what LinksHold says of a step
Linked ==
  \A d \in Devices : device'[d].customer # device[d].customer =>
    /\ device'[d].customer # None
    /\ customer'[device'[d].customer].status = "active"

\* what NothingBecomesShared says of a step
NewlyShared ==
  \/ \E d, e \in Devices :
       /\ d # e /\ device'[d].number = device'[e].number /\ device'[d].number # None
       /\ device[d].number # device[e].number
  \/ \E b, c \in Customers :
       /\ b # c /\ customer'[b].name = customer'[c].name /\ customer'[b].name # None
       /\ customer[b].name # customer[c].name

Kept == IInv' /\ Linked /\ KeysStay /\ ~NewlyShared

-----------------------------------------------------------------------------
(* Calls that begin, read on or end *)

LEMMA IdleCall ==
  /\ Idle \in Call
  /\ Idle.op = "idle" /\ Idle.pc = "write"
  /\ Fits(Idle) /\ Knows(Idle)
  /\ \A c \in Call : Apart(c, Idle) /\ Apart(Idle, c)
BY DEF Idle, Call, Fits, Knows, Apart, WritesNumber, Links

\* A step of one call that writes nothing.
LEMMA CallMoves ==
  ASSUME IInv, NEW w \in Callers, NEW new \in Call,
         call' = [call EXCEPT ![w] = new],
         UNCHANGED <<device, customer, task, asked>>,
         Fits(new), Knows(new),
         \A v \in Callers \ {w} : Apart(call[v], new) /\ Apart(new, call[v])
  PROVE  Kept
<1>1. /\ call' \in [Callers -> Call] /\ call'[w] = new
      /\ \A v \in Callers \ {w} : call'[v] = call[v]
  BY DEF IInv, TypeOK
<1>2. TypeOK'
  BY <1>1 DEF IInv, TypeOK
<1>3. ASSUME NEW v \in Callers PROVE (Fits(call[v]) /\ Knows(call[v]))'
  <2>1. PICK c : c = call'[v]
    OBVIOUS
  <2>2. Fits(c) /\ Knows(c)
    BY <1>1, <2>1 DEF IInv
  <2>3. Knows(c)'
    BY <2>2 DEF Knows, IsLive, CutOff, NameFree, IsCustomer
  <2>4. Knows(call[v])' = Knows(c)'
    BY <2>1 DEF Knows
  <2> QED
    BY <2>1, <2>2, <2>3, <2>4 DEF Fits
<1>4. ASSUME NEW u \in Callers, NEW v \in Callers, u # v
      PROVE  Apart(call[u], call[v])'
  BY <1>1, <1>4 DEF IInv, Apart, WritesNumber, Links
<1>5. RowsFit' /\ RetiredIsCutOff'
  BY DEF IInv, RowsFit, IsCustomer, RetiredIsCutOff
<1>6. Linked /\ KeysStay /\ ~NewlyShared
  BY DEF Linked, KeysStay, IsKeyless, IsLive, NewlyShared
<1> QED
  BY <1>2, <1>3, <1>4, <1>5, <1>6 DEF Kept, IInv

LEMMA CallEnds ==
  ASSUME IInv, NEW w \in Callers, End(w),
         UNCHANGED <<device, customer, task, asked>>
  PROVE  Kept
<1>1. \A v \in Callers : Apart(call[v], Idle) /\ Apart(Idle, call[v])
  BY IdleCall DEF IInv, TypeOK
<1> QED
  BY <1>1, IdleCall, CallMoves DEF End

\* The fields of a call that begins.
LEMMA Beginning ==
  ASSUME NEW op \in {"register", "update", "retire", "confirm", "ask", "task",
                     "create", "rename", "remove"},
         NEW pc \in {"link", "number", "write"},
         NEW d \in Devices \cup {None}, NEW c \in Customers \cup {None},
         NEW n \in Numbers \cup Names \cup {None}, NEW t \in Tasks \cup {None}
  PROVE  [op |-> op, pc |-> pc, device |-> d, customer |-> c, value |-> n,
          task |-> t] \in Call
BY DEF Call

LEMMA RegisterBegins ==
  ASSUME IInv, NEW w \in Callers, NEW d \in Devices,
         NEW c \in Customers \cup {None}, NEW n \in Numbers,
         StartRegister(w, d, c, n)
  PROVE  Kept
<1> DEFINE new == LinkAndNumber("register", d, c, n)
<1>1. new \in Call
  BY Beginning DEF LinkAndNumber
<1>2. call' = [call EXCEPT ![w] = new]
  BY DEF StartRegister, Begin
<1>3. /\ new.op = "register" /\ new.device = d /\ new.customer = c
      /\ new.value = n
  BY DEF LinkAndNumber
<1>4. n # None /\ new.pc # "write" /\ (new.pc = "link" => c \in Customers)
      /\ (new.pc # "link" => c = None)
  BY NoneIsNothing DEF LinkAndNumber
<1> HIDE DEF new
<1>5. Fits(new) /\ Knows(new)
  BY <1>3, <1>4 DEF Fits, Knows, WritesNumber, Links
<1>6. ASSUME NEW v \in Callers \ {w} PROVE Apart(call[v], new) /\ Apart(new, call[v])
  <2>1. Fits(call[v])
    BY DEF IInv
  <2>2. call[v].op \in {"rename", "remove"} => call[v].customer # None
    BY <2>1, NoneIsNothing DEF Fits
  <2> QED
    BY <1>3, <1>4, <2>2 DEF Apart, WritesNumber, Links
<1> QED
  BY <1>1, <1>2, <1>5, <1>6, CallMoves DEF StartRegister

LEMMA UpdateBegins ==
  ASSUME IInv, NEW w \in Callers, NEW d \in Devices,
         NEW c \in Customers \cup {None}, NEW n \in Numbers \cup {None},
         StartUpdate(w, d, c, n)
  PROVE  Kept
<1> DEFINE new == LinkAndNumber("update", d, c, n)
<1>1. new \in Call
  BY Beginning DEF LinkAndNumber
<1>2. call' = [call EXCEPT ![w] = new]
  BY DEF StartUpdate, Begin
<1>3. /\ new.op = "update" /\ new.device = d /\ new.customer = c
      /\ new.value = n
  BY DEF LinkAndNumber
<1>4. /\ new.pc # "write" /\ (new.pc = "link" => c \in Customers)
      /\ (new.pc # "link" => c = None)
      /\ (new.pc = "number" => n # None)
  BY DEF StartUpdate, LinkAndNumber
<1> HIDE DEF new
<1>5. IsLive(d) /\ FreeToChange(d)
  BY DEF StartUpdate
<1>6. Fits(new) /\ Knows(new)
  BY <1>3, <1>4, <1>5 DEF Fits, Knows, WritesNumber, Links, IsLive, Live
<1>7. ASSUME NEW v \in Callers \ {w} PROVE Apart(call[v], new) /\ Apart(new, call[v])
  <2>1. Fits(call[v])
    BY DEF IInv
  <2>2. call[v].op \in {"rename", "remove"} => call[v].customer # None
    BY <2>1, NoneIsNothing DEF Fits
  <2>3. call[v].op \in {"update", "retire", "ask", "task"} => call[v].device # d
    BY <1>5 DEF FreeToChange, IsChanged, IsUsed
  <2> QED
    BY <1>3, <1>4, <2>2, <2>3 DEF Apart, WritesNumber, Links
<1> QED
  BY <1>1, <1>2, <1>6, <1>7, CallMoves DEF StartUpdate

\* Calls about one device that only write.
LEMMA DeviceCallBegins ==
  ASSUME IInv, NEW w \in Callers, NEW d \in Devices, NEW t \in Tasks \cup {None},
         \/ StartRetire(w, d) \/ StartConfirm(w, d) \/ StartAsk(w, d)
         \/ t \in Tasks /\ StartTask(w, t, d)
  PROVE  Kept
<1>1. PICK op \in {"retire", "confirm", "ask", "task"},
           k \in Tasks \cup {None} :
        /\ call' = [call EXCEPT ![w] =
             [op |-> op, pc |-> "write", device |-> d, customer |-> None,
              value |-> None, task |-> k]]
        /\ op = "task" => k \in Tasks
        /\ op = "retire" => FreeToChange(d) /\ IsLive(d) /\ ~HasWork(d)
        /\ op \in {"ask", "task"} => ~IsChanged(d) /\ IsLive(d)
        /\ op = "confirm" => device[d].status = "registered"
  BY ZenonT(60) DEF StartRetire, StartConfirm, StartAsk, StartTask, Begin, Idle
<1> DEFINE new == [op |-> op, pc |-> "write", device |-> d, customer |-> None,
                   value |-> None, task |-> k]
<1>2. new \in Call
  BY Beginning
<1>3. /\ new.op = op /\ new.device = d /\ new.customer = None
      /\ new.value = None /\ new.pc = "write" /\ new.task = k
  OBVIOUS
<1>4. call' = [call EXCEPT ![w] = new]
  BY <1>1
<1> HIDE DEF new
<1>5. Fits(new)
  BY <1>1, <1>3 DEF Fits
<1>6. Knows(new)
  BY <1>1, <1>3 DEF Knows, WritesNumber, Links, IsLive, Live, HasWork, CutOff
<1>7. ASSUME NEW v \in Callers \ {w} PROVE Apart(call[v], new) /\ Apart(new, call[v])
  BY <1>1, <1>3 DEF Apart, WritesNumber, Links, FreeToChange, IsChanged, IsUsed
<1>8. UNCHANGED <<device, customer, task, asked>>
  BY DEF StartRetire, StartConfirm, StartAsk, StartTask
<1> QED
  BY <1>2, <1>4, <1>5, <1>6, <1>7, <1>8, CallMoves

\* Calls about a customer.
LEMMA CustomerCallBegins ==
  ASSUME IInv, NEW w \in Callers, NEW c \in Customers, NEW op, NEW n,
         \/ op = "remove" /\ n = None /\ StartRemove(w, c)
         \/ op = "create" /\ n \in Names /\ StartCreate(w, c, n)
         \/ op = "rename" /\ n \in Names /\ StartRename(w, c, n)
  PROVE  Kept
<1> DEFINE new == [op |-> op, pc |-> "write", device |-> None, customer |-> c,
                   value |-> n, task |-> None]
<1>1. new \in Call
  BY Beginning
<1>2. call' = [call EXCEPT ![w] = new]
  BY DEF StartRemove, StartCreate, StartRename, Begin, Idle
<1>3. /\ new.op = op /\ new.customer = c /\ new.value = n /\ new.pc = "write"
  OBVIOUS
<1> HIDE DEF new
<1>4. Fits(new)
  BY <1>3 DEF Fits
<1>5. Knows(new)
  BY <1>3 DEF Knows, WritesNumber, Links, StartRemove, StartCreate, StartRename
<1>6. ASSUME NEW v \in Callers \ {w} PROVE Apart(call[v], new) /\ Apart(new, call[v])
  <2>1. op \in {"rename", "remove"} => FreeToWrite(c)
    BY DEF StartRemove, StartRename
  <2>2. op \in {"create", "rename"} => ~NamesLocked
    BY DEF StartCreate, StartRename
  <2>3. op \in {"create", "rename", "remove"}
    OBVIOUS
  <2> QED
    BY <1>3, <2>1, <2>2, <2>3
    DEF Apart, WritesNumber, Links, FreeToWrite, IsLinked, IsWritten, NamesLocked
<1>7. UNCHANGED <<device, customer, task, asked>>
  BY DEF StartRemove, StartCreate, StartRename
<1> QED
  BY <1>1, <1>2, <1>4, <1>5, <1>6, <1>7, CallMoves

\* A call that goes on to pc: what it is about stays the same.
LEMMA GoneOn ==
  ASSUME IInv, NEW w \in Callers, NEW pc \in {"link", "number", "write"}, Goto(w, pc)
  PROVE  \E new \in Call :
           /\ call' = [call EXCEPT ![w] = new]
           /\ new.op = call[w].op /\ new.device = call[w].device
           /\ new.customer = call[w].customer /\ new.value = call[w].value
           /\ new.task = call[w].task /\ new.pc = pc
<1> DEFINE new == [call[w] EXCEPT !.pc = pc]
<1>1. new \in Call
  BY DEF IInv, TypeOK, Call
<1>2. /\ new.op = call[w].op /\ new.device = call[w].device
      /\ new.customer = call[w].customer /\ new.value = call[w].value
      /\ new.task = call[w].task /\ new.pc = pc
  BY DEF IInv, TypeOK, Call
<1>3. call' = [call EXCEPT ![w] = new]
  BY DEF Goto
<1> HIDE DEF new
<1> QED
  BY <1>1, <1>2, <1>3

LEMMA LinkKept ==
  ASSUME IInv, NEW w \in Callers, Link(w)
  PROVE  Kept
<1>1. /\ call[w].op \in {"register", "update"} /\ call[w].customer \in Customers
      /\ call[w].pc = "link" /\ Fits(call[w]) /\ Knows(call[w])
      /\ ~IsWritten(call[w].customer)
      /\ UNCHANGED <<device, customer, task, asked>>
  BY DEF Link, IInv, Fits
<1>2. CASE customer[call[w].customer].status = "active"
  <2> DEFINE pc == IF call[w].value = None THEN "write" ELSE "number"
  <2>1. Goto(w, pc)
    BY <1>2 DEF Link
  <2>2. PICK new \in Call :
          /\ call' = [call EXCEPT ![w] = new]
          /\ new.op = call[w].op /\ new.device = call[w].device
          /\ new.customer = call[w].customer /\ new.value = call[w].value
          /\ new.task = call[w].task /\ new.pc = pc
    BY <2>1, GoneOn
  <2>3. Fits(new)
    BY <1>1, <2>2 DEF Fits
  <2>4. ~WritesNumber(new) /\ Links(new)
    BY <1>1, <2>2 DEF WritesNumber, Links
  <2>5. Knows(new)
    BY <1>1, <1>2, <2>2, <2>4 DEF Knows
  <2>6. ASSUME NEW v \in Callers \ {w} PROVE Apart(call[v], new) /\ Apart(new, call[v])
    <3>1. Apart(call[v], call[w]) /\ Apart(call[w], call[v])
      BY DEF IInv
    <3>2. call[v].op \in {"rename", "remove"} => call[v].customer # call[w].customer
      BY <1>1 DEF IsWritten
    <3> QED
      BY <1>1, <2>2, <2>4, <3>1, <3>2 DEF Apart
  <2> QED
    BY <1>1, <2>2, <2>3, <2>5, <2>6, CallMoves
<1>3. CASE customer[call[w].customer].status # "active"
  BY <1>1, <1>3, CallEnds DEF Link
<1> QED
  BY <1>2, <1>3

LEMMA CheckKept ==
  ASSUME IInv, NEW w \in Callers, CheckNumbers(w)
  PROVE  Kept
<1>1. /\ call[w].op \in {"register", "update"} /\ call[w].value # None
      /\ call[w].pc = "number" /\ Fits(call[w]) /\ Knows(call[w])
      /\ ~NumbersLocked
      /\ UNCHANGED <<device, customer, task, asked>>
  BY DEF CheckNumbers, IInv, Fits
<1> DEFINE taken == \E e \in Devices \ {call[w].device} :
                      device[e].number = call[w].value
<1>2. CASE ~taken
  <2>1. Goto(w, "write")
    BY <1>2 DEF CheckNumbers
  <2>2. PICK new \in Call :
          /\ call' = [call EXCEPT ![w] = new]
          /\ new.op = call[w].op /\ new.device = call[w].device
          /\ new.customer = call[w].customer /\ new.value = call[w].value
          /\ new.task = call[w].task /\ new.pc = "write"
    BY <2>1, GoneOn
  <2>3. Fits(new)
    BY <1>1, <2>2 DEF Fits
  <2>4. WritesNumber(new) /\ Links(new) /\ Links(call[w])
    BY <1>1, <2>2 DEF WritesNumber, Links
  <2>5. Knows(new)
    BY <1>1, <1>2, <2>2, <2>4 DEF Knows
  <2>6. ASSUME NEW v \in Callers \ {w} PROVE Apart(call[v], new) /\ Apart(new, call[v])
    <3>1. Apart(call[v], call[w]) /\ Apart(call[w], call[v])
      BY DEF IInv
    <3>2. ~WritesNumber(call[v])
      BY <1>1 DEF WritesNumber, NumbersLocked
    <3> QED
      BY <1>1, <2>2, <2>4, <3>1, <3>2 DEF Apart
  <2> QED
    BY <1>1, <2>2, <2>3, <2>5, <2>6, CallMoves
<1>3. CASE taken
  BY <1>1, <1>3, CallEnds DEF CheckNumbers
<1> QED
  BY <1>2, <1>3

-----------------------------------------------------------------------------
(* Writes *)

\* Calls end or stay as they are, and those that stay know as much.
CallsStay ==
  /\ call' \in [Callers -> Call]
  /\ \A v \in Callers : call'[v] = call[v] \/ call'[v] = Idle

LEMMA Ending ==
  ASSUME IInv, NEW w \in Callers, End(w)
  PROVE  /\ CallsStay /\ call'[w] = Idle
         /\ \A v \in Callers \ {w} : call'[v] = call[v]
BY IdleCall DEF End, CallsStay, IInv, TypeOK

LEMMA CallsKnow ==
  ASSUME IInv, CallsStay,
         \A v \in Callers : call'[v] = call[v] /\ call[v].op # "idle"
                              => Knows(call[v])'
  PROVE  /\ \A v \in Callers : (Fits(call[v]) /\ Knows(call[v]))'
         /\ \A u, v \in Callers : u # v => Apart(call[u], call[v])'
<1>1. ASSUME NEW v \in Callers PROVE (Fits(call[v]) /\ Knows(call[v]))'
  <2>1. CASE call'[v].op # "idle"
    <3>1. call'[v] = call[v] /\ call[v].op # "idle"
      BY <2>1, IdleCall DEF CallsStay
    <3>2. Fits(call[v])' = Fits(call[v])
      BY <3>1 DEF Fits
    <3> QED
      BY <3>1, <3>2 DEF IInv
  <2>2. CASE call'[v].op = "idle"
    <3>1. (call[v].op = "idle" /\ call'[v] = call[v]) \/ call'[v] = Idle
      BY <2>2 DEF CallsStay
    <3>2. Fits(call[v])'
      BY <3>1, IdleCall DEF IInv, Fits
    <3>3. ~WritesNumber(call[v])' /\ ~Links(call[v])'
      BY <2>2 DEF WritesNumber, Links
    <3>4. Knows(call[v])'
      BY <2>2, <3>3 DEF Knows
    <3> QED
      BY <3>2, <3>4
  <2> QED
    BY <2>1, <2>2
<1>2. ASSUME NEW u \in Callers, NEW v \in Callers, u # v
      PROVE  Apart(call[u], call[v])'
  <2>1. PICK b, c : b = call'[u] /\ c = call'[v]
    OBVIOUS
  <2>2. b \in Call /\ c \in Call
    BY <2>1 DEF CallsStay
  <2>3. Apart(b, c)
    BY <1>2, <2>1, <2>2, IdleCall DEF CallsStay, IInv
  <2> QED
    BY <2>1, <2>3 DEF Apart, WritesNumber, Links
<1> QED
  BY <1>1, <1>2

\* A step that writes one device.
LEMMA DeviceKept ==
  ASSUME IInv, CallsStay, UNCHANGED <<customer, task, asked>>,
         NEW d \in Devices, NEW new \in Device,
         device' = [device EXCEPT ![d] = new],
         new.status # "none",
         new.status = "decommissioned" => ~new.key /\ new.retiredAt /\ CutOff(d),
         new.status \in Live /\ ~new.key => IsKeyless(d) \/ new.retiredAt,
         \/ new.customer = device[d].customer
         \/ /\ new.customer # None /\ customer[new.customer].status = "active"
            /\ \A v \in Callers : call[v].op = "remove" =>
                                    call[v].customer # new.customer,
         \/ new.number = device[d].number
         \/ /\ \A e \in Devices \ {d} : device[e].number # new.number
            /\ \A v \in Callers : call'[v] = call[v] => ~WritesNumber(call[v]),
         \A v \in Callers : /\ call'[v] = call[v]
                            /\ call[v].op \in {"ask", "task"}
                            /\ call[v].device = d
                            => new.status \in Live
  PROVE  Kept
<1>1. /\ device' \in [Devices -> Device] /\ device'[d] = new
      /\ \A e \in Devices \ {d} : device'[e] = device[e]
  BY DEF IInv, TypeOK
<1>2. TypeOK'
  BY <1>1 DEF IInv, TypeOK, CallsStay
<1>3. ASSUME NEW v \in Callers, call'[v] = call[v]
      PROVE  Knows(call[v])'
  <2>1. PICK c : c = call[v]
    OBVIOUS
  <2>2. Knows(c) /\ Fits(c)
    BY <2>1 DEF IInv
  <2>3. /\ c.op \in {"update", "retire", "confirm"} => device'[c.device].status # "none"
        /\ c.op \in {"ask", "task"} => device'[c.device].status \in Live
    BY <1>1, <1>3, <2>1, <2>2 DEF Knows, Fits, IsLive
  <2>4. ASSUME WritesNumber(c), NEW e \in Devices \ {c.device}
        PROVE  device'[e].number # c.value
    BY <1>1, <1>3, <2>1, <2>2, <2>4 DEF Knows
  <2>5. ASSUME c.op = "remove", NEW e \in Devices
        PROVE  device'[e].customer # c.customer
    BY <1>1, <2>1, <2>2, <2>5 DEF Knows
  <2>6. Knows(c)'
    BY <2>2, <2>3, <2>4, <2>5
    DEF Knows, CutOff, NameFree, IsCustomer, WritesNumber, Links, IsLive, Live
  <2> QED
    BY <1>3, <2>1, <2>6 DEF Knows
<1>4. RowsFit'
  BY <1>1 DEF IInv, RowsFit, IsCustomer
<1>5. RetiredIsCutOff'
  <2>1. ASSUME NEW e \in Devices, device'[e].status = "decommissioned"
        PROVE  /\ ~device'[e].key /\ ~asked[e]
               /\ \A t \in Tasks : task[t].device = e /\ task[t].open
                                     => task[t].reopened
    BY <1>1, <2>1 DEF IInv, RetiredIsCutOff, CutOff
  <2> QED
    BY <2>1 DEF RetiredIsCutOff
<1>6. KeysStay /\ ~NewlyShared
  <2>1. KeysStay
    BY <1>1 DEF KeysStay, IsKeyless, IsLive
  <2>2. ASSUME NEW e \in Devices, NEW f \in Devices, e # f,
               device'[e].number = device'[f].number, device[e].number # device[f].number
        PROVE  FALSE
    BY <1>1, <2>2
  <2> QED
    BY <2>1, <2>2 DEF NewlyShared
<1>7. Linked
  BY <1>1 DEF Linked
<1> QED
  BY <1>2, <1>3, <1>4, <1>5, <1>6, <1>7, CallsKnow DEF Kept, IInv

\* The row of a device after an update.
LEMMA UpdateKept ==
  ASSUME IInv, NEW w \in Callers, UpdateWrite(w)
  PROVE  Kept
<1>1. PICK c : c = call[w]
  OBVIOUS
<1>2. PICK d : d = c.device
  OBVIOUS
<1>3. /\ c \in Call /\ d \in Devices /\ c.op = "update" /\ c.pc = "write"
      /\ Fits(c) /\ Knows(c) /\ Links(c)
      /\ c.value \in Numbers \cup {None}
      /\ UNCHANGED <<customer, task, asked>> /\ End(w)
  BY <1>1, <1>2 DEF UpdateWrite, At, IInv, TypeOK, Fits, Links
<1>4. PICK row \in Device : row = device[d]
  BY <1>3 DEF IInv, TypeOK
<1> DEFINE new == [row EXCEPT !.customer = Changed(row.customer, c.customer),
                              !.number = Changed(row.number, c.value)]
<1>5. device' = [device EXCEPT ![d] = new]
  <2>1. device' = [device EXCEPT ![d].customer = Changed(row.customer, c.customer),
                                 ![d].number = Changed(row.number, c.value)]
    BY <1>1, <1>2, <1>4 DEF UpdateWrite
  <2> QED
    BY <1>3, <1>4, <2>1 DEF IInv, TypeOK
<1>6. Changed(row.customer, c.customer) \in Customers \cup {None}
  BY <1>3, <1>4 DEF Changed, Call, Device
<1>7. Changed(row.number, c.value) \in Numbers \cup {None}
  BY <1>3, <1>4 DEF Changed, Call, Device
<1>8. /\ new \in Device
      /\ new.status = row.status /\ new.key = row.key
      /\ new.retiredAt = row.retiredAt
      /\ new.customer = Changed(row.customer, c.customer)
      /\ new.number = Changed(row.number, c.value)
  BY <1>4, <1>6, <1>7 DEF Device
<1> HIDE DEF new
<1>9. /\ new.status # "none"
      /\ new.status = "decommissioned" => ~new.key /\ new.retiredAt /\ CutOff(d)
      /\ new.status \in Live /\ ~new.key => IsKeyless(d)
  BY <1>2, <1>3, <1>4, <1>8
  DEF Knows, IInv, RowsFit, RetiredIsCutOff, IsKeyless, IsLive, CutOff
<1>10. \A v \in Callers \ {w} : Apart(call[v], c) /\ Apart(c, call[v])
  BY <1>1 DEF IInv
<1>11. CallsStay /\ call'[w] = Idle
  BY <1>3, Ending
<1>12. \A v \in Callers : call'[v] = call[v] => call[v].op # "update" \/ v # w
  BY <1>11, IdleCall
<1>13. ASSUME new.customer # row.customer
       PROVE  /\ new.customer # None /\ customer[new.customer].status = "active"
              /\ \A v \in Callers : call[v].op = "remove" =>
                                      call[v].customer # new.customer
  <2>1. new.customer = c.customer /\ c.customer # None
    BY <1>8, <1>13 DEF Changed
  <2>2. customer[c.customer].status = "active"
    BY <1>3, <2>1 DEF Knows
  <2>3. ASSUME NEW v \in Callers, call[v].op = "remove"
        PROVE  call[v].customer # c.customer
    BY <1>1, <1>3, <1>10, <2>3 DEF Apart
  <2> QED
    BY <2>1, <2>2, <2>3
<1>14. ASSUME new.number # row.number
       PROVE  /\ \A e \in Devices \ {d} : device[e].number # new.number
              /\ \A v \in Callers : call'[v] = call[v] => ~WritesNumber(call[v])
  <2>1. new.number = c.value /\ c.value # None
    BY <1>8, <1>14 DEF Changed
  <2>2. WritesNumber(c)
    BY <1>3, <2>1 DEF WritesNumber
  <2>3. \A e \in Devices \ {d} : device[e].number # new.number
    BY <1>2, <1>3, <2>1, <2>2 DEF Knows
  <2>4. ASSUME NEW v \in Callers, call'[v] = call[v]
        PROVE  ~WritesNumber(call[v])
    <3>1. v # w
      BY <1>1, <1>3, <1>12, <2>4
    <3> QED
      BY <1>10, <2>2, <3>1 DEF Apart
  <2> QED
    BY <2>3, <2>4
<1>15. ASSUME NEW v \in Callers, call[v].op \in {"ask", "task"}, call[v].device = d
       PROVE  new.status \in Live
  BY <1>4, <1>8, <1>15 DEF IInv, Knows, IsLive
<1>16. \/ new.customer = device[d].customer
       \/ /\ new.customer # None /\ customer[new.customer].status = "active"
          /\ \A v \in Callers : call[v].op = "remove" =>
                                  call[v].customer # new.customer
  BY <1>4, <1>13
<1>17. \/ new.number = device[d].number
       \/ /\ \A e \in Devices \ {d} : device[e].number # new.number
          /\ \A v \in Callers : call'[v] = call[v] => ~WritesNumber(call[v])
  BY <1>4, <1>14
<1> QED
  <2>1. new \in Device
    BY <1>8
  <2>2. \A v \in Callers : /\ call'[v] = call[v]
                           /\ call[v].op \in {"ask", "task"}
                           /\ call[v].device = d
                           => new.status \in Live
    BY <1>15
  <2> QED
    BY <1>3, <1>5, <2>1, <2>2, <1>9, <1>11, <1>16, <1>17, DeviceKept

LEMMA RegisterKept ==
  ASSUME IInv, NEW w \in Callers, RegisterWrite(w)
  PROVE  Kept
<1>1. PICK c : c = call[w]
  OBVIOUS
<1>2. PICK d : d = c.device
  OBVIOUS
<1>3. /\ c \in Call /\ d \in Devices /\ c.op = "register" /\ c.pc = "write"
      /\ Fits(c) /\ Knows(c) /\ Links(c) /\ WritesNumber(c)
      /\ c.value \in Numbers \cup {None}
      /\ device[d].status = "none" /\ device[d].customer = None
      /\ UNCHANGED <<customer, task, asked>> /\ End(w)
  BY <1>1, <1>2
  DEF RegisterWrite, At, IInv, TypeOK, Fits, Links, WritesNumber, RowsFit
<1> DEFINE new == [status |-> "registered", key |-> TRUE, retiredAt |-> FALSE,
                   customer |-> c.customer, number |-> c.value]
<1>4. device' = [device EXCEPT ![d] = new]
  BY <1>1, <1>2 DEF RegisterWrite
<1>5. /\ new \in Device
      /\ new.status = "registered" /\ new.key /\ ~new.retiredAt
      /\ new.customer = c.customer /\ new.number = c.value
  BY <1>3 DEF Device, Call
<1> HIDE DEF new
<1>6. /\ new.status # "none" /\ new.status # "decommissioned"
      /\ new.status \in Live
  BY <1>5 DEF Live
<1>7. \A v \in Callers \ {w} : Apart(call[v], c) /\ Apart(c, call[v])
  BY <1>1 DEF IInv
<1>8. CallsStay /\ call'[w] = Idle
  BY <1>3, Ending
<1>9. ASSUME new.customer # device[d].customer
      PROVE  /\ new.customer # None /\ customer[new.customer].status = "active"
             /\ \A v \in Callers : call[v].op = "remove" =>
                                     call[v].customer # new.customer
  <2>1. new.customer = c.customer /\ c.customer # None
    BY <1>3, <1>5, <1>9
  <2>2. customer[c.customer].status = "active"
    BY <1>3, <2>1 DEF Knows
  <2>3. ASSUME NEW v \in Callers, call[v].op = "remove"
        PROVE  call[v].customer # c.customer
    BY <1>1, <1>3, <1>7, <2>3 DEF Apart
  <2> QED
    BY <2>1, <2>2, <2>3
<1>10. /\ \A e \in Devices \ {d} : device[e].number # new.number
       /\ \A v \in Callers : call'[v] = call[v] => ~WritesNumber(call[v])
  <2>1. \A e \in Devices \ {d} : device[e].number # new.number
    BY <1>2, <1>3, <1>5 DEF Knows
  <2>2. ASSUME NEW v \in Callers, call'[v] = call[v]
        PROVE  ~WritesNumber(call[v])
    <3>1. v # w
      BY <1>1, <1>3, <1>8, <2>2, IdleCall
    <3> QED
      BY <1>3, <1>7, <3>1 DEF Apart
  <2> QED
    BY <2>1, <2>2
<1> QED
  BY <1>3, <1>4, <1>5, <1>6, <1>8, <1>9, <1>10, DeviceKept

\* A call that ends with a write of its device that sets neither customer nor number.
LEMMA RetireKept ==
  ASSUME IInv, NEW w \in Callers, RetireWrite(w)
  PROVE  Kept
<1>1. PICK c : c = call[w]
  OBVIOUS
<1>2. PICK d : d = c.device
  OBVIOUS
<1>3. /\ c \in Call /\ d \in Devices /\ c.op = "retire" /\ Knows(c)
      /\ UNCHANGED <<customer, task, asked>> /\ End(w)
  BY <1>1, <1>2 DEF RetireWrite, IInv, TypeOK, Fits
<1>4. PICK row \in Device : row = device[d]
  BY <1>3 DEF IInv, TypeOK
<1> DEFINE new == [row EXCEPT !.status = "decommissioned", !.key = FALSE,
                              !.retiredAt = TRUE]
<1>5. device' = [device EXCEPT ![d] = new]
  BY <1>1, <1>2, <1>4 DEF RetireWrite
<1>6. /\ new \in Device
      /\ new.status = "decommissioned" /\ ~new.key /\ new.retiredAt
      /\ new.customer = row.customer /\ new.number = row.number
  BY <1>4 DEF Device
<1> HIDE DEF new
<1>7. new.status # "none" /\ new.status \notin Live /\ CutOff(d)
  BY <1>2, <1>3, <1>6 DEF Knows, Live
<1>8. CallsStay /\ call'[w] = Idle
  BY <1>3, Ending
<1>9. ASSUME NEW v \in Callers, call'[v] = call[v],
             call[v].op \in {"ask", "task"}, call[v].device = d
      PROVE  FALSE
  <2>1. v # w
    BY <1>1, <1>3, <1>9
  <2> QED
    BY <1>1, <1>2, <1>3, <1>9, <2>1 DEF IInv, Apart
<1> QED
  BY <1>3, <1>4, <1>5, <1>6, <1>7, <1>8, <1>9, DeviceKept

LEMMA ConfirmKept ==
  ASSUME IInv, NEW w \in Callers, ConfirmWrite(w)
  PROVE  Kept
<1>1. PICK d : d = call[w].device
  OBVIOUS
<1>2. /\ d \in Devices
      /\ UNCHANGED <<customer, task, asked>> /\ End(w)
      /\ device[d].status # "none" /\ ~IsChanged(d)
  BY <1>1 DEF ConfirmWrite, IInv, Fits, Knows
<1>3. PICK row \in Device : row = device[d]
  BY <1>2 DEF IInv, TypeOK
<1> DEFINE new == [row EXCEPT !.status = "installed"]
<1>4. device' = [device EXCEPT ![d] = new]
  BY <1>1, <1>3 DEF ConfirmWrite
<1>5. /\ new \in Device
      /\ new.status = "installed" /\ new.key = row.key
      /\ new.retiredAt = row.retiredAt
      /\ new.customer = row.customer /\ new.number = row.number
  BY <1>3 DEF Device
<1> HIDE DEF new
<1>6. CallsStay
  BY <1>2, Ending
<1>7. ~new.key => IsKeyless(d) \/ new.retiredAt
  BY <1>2, <1>3, <1>5 DEF IInv, RowsFit, IsKeyless, IsLive, Live, Device
<1>8. new.status # "none" /\ new.status # "decommissioned" /\ new.status \in Live
  BY <1>5 DEF Live
<1> QED
  BY <1>2, <1>3, <1>4, <1>5, <1>6, <1>7, <1>8, DeviceKept

LEMMA ReactivateKept ==
  ASSUME IInv, NEW d \in Devices, Reactivate(d) \/ RotateKey(d)
  PROVE  Kept
<1>1. PICK row \in Device : row = device[d]
  BY DEF IInv, TypeOK
<1>2. /\ UNCHANGED <<customer, task, asked, call>>
      /\ row.status # "none" /\ FreeToChange(d)
  BY <1>1 DEF Reactivate, RotateKey, IsLive, Live
<1>3. PICK status \in Live, retiredAt \in BOOLEAN :
        device' = [device EXCEPT ![d] = [row EXCEPT !.status = status, !.key = TRUE,
                                                    !.retiredAt = retiredAt]]
  <2>1. CASE Reactivate(d)
    <3>1. device' = [device EXCEPT ![d] = [row EXCEPT !.status = "registered", !.key = TRUE,
                                                      !.retiredAt = FALSE]]
      BY <1>1, <2>1 DEF Reactivate
    <3> QED
      BY <3>1 DEF Live
  <2>2. CASE RotateKey(d)
    <3>1. row.status \in Live /\ row.retiredAt \in BOOLEAN
      BY <1>1, <2>2 DEF RotateKey, IsLive, Device
    <3>2. [row EXCEPT !.status = row.status, !.key = TRUE, !.retiredAt = row.retiredAt]
            = [row EXCEPT !.key = TRUE]
      BY <1>1 DEF Device
    <3>3. device' = [device EXCEPT ![d] = [row EXCEPT !.key = TRUE]]
      BY <1>1, <2>2 DEF RotateKey
    <3> QED
      BY <3>1, <3>2, <3>3
  <2> QED
    BY <2>1, <2>2
<1> DEFINE new == [row EXCEPT !.status = status, !.key = TRUE, !.retiredAt = retiredAt]
<1>4. device' = [device EXCEPT ![d] = new]
  BY <1>3
<1>5. /\ new \in Device
      /\ new.status = status /\ new.key
      /\ new.customer = row.customer /\ new.number = row.number
  BY <1>1, <1>3 DEF Device, Live
<1> HIDE DEF new
<1>6. new.status # "none" /\ new.status # "decommissioned" /\ new.status \in Live
  BY <1>5 DEF Live
<1>7. CallsStay
  BY <1>2 DEF CallsStay, IInv, TypeOK
<1> QED
  BY <1>1, <1>2, <1>4, <1>5, <1>6, <1>7, DeviceKept

\* A step that writes no device keeps every link, key and number.
LEMMA NoDeviceWritten ==
  ASSUME UNCHANGED device
  PROVE  /\ Linked /\ KeysStay
         /\ UNCHANGED customer => ~NewlyShared
BY DEF Linked, KeysStay, IsKeyless, IsLive, NewlyShared

\* A step that writes only whether a device has open requests.
LEMMA AskedKept ==
  ASSUME IInv, CallsStay, UNCHANGED <<device, customer, task>>,
         NEW d \in Devices, NEW b \in BOOLEAN,
         asked' = [asked EXCEPT ![d] = b],
         b => /\ IsLive(d)
              /\ \A v \in Callers : call[v].op = "retire" => call[v].device # d
  PROVE  Kept
<1>1. /\ asked' \in [Devices -> BOOLEAN] /\ asked'[d] = b
      /\ \A e \in Devices \ {d} : asked'[e] = asked[e]
  BY DEF IInv, TypeOK
<1>2. TypeOK'
  BY <1>1 DEF IInv, TypeOK, CallsStay
<1>3. ASSUME NEW v \in Callers, call'[v] = call[v]
      PROVE  Knows(call[v])'
  <2>1. PICK c : c = call[v]
    OBVIOUS
  <2>2. Knows(c) /\ Fits(c)
    BY <2>1 DEF IInv
  <2>3. c.op = "retire" => CutOff(c.device)'
    BY <1>1, <2>1, <2>2 DEF Knows, Fits, CutOff
  <2>4. Knows(c)'
    BY <2>2, <2>3
    DEF Knows, NameFree, IsCustomer, WritesNumber, Links, IsLive
  <2> QED
    BY <1>3, <2>1, <2>4 DEF Knows
<1>4. RowsFit'
  BY DEF IInv, RowsFit, IsCustomer
<1>5. RetiredIsCutOff'
  BY <1>1 DEF IInv, RetiredIsCutOff, IsLive, Live
<1> QED
  BY <1>2, <1>3, <1>4, <1>5, NoDeviceWritten, CallsKnow DEF Kept, IInv

LEMMA AskKept ==
  ASSUME IInv, NEW w \in Callers, AskWrite(w)
  PROVE  Kept
<1>1. PICK d : d = call[w].device
  OBVIOUS
<1>2. /\ d \in Devices /\ IsLive(d) /\ call[w].op = "ask" /\ End(w)
      /\ asked' = [asked EXCEPT ![d] = TRUE]
      /\ UNCHANGED <<device, customer, task>>
  BY <1>1 DEF AskWrite, IInv, Fits, Knows
<1>3. ASSUME NEW v \in Callers, call[v].op = "retire"
      PROVE  call[v].device # d
  BY <1>1, <1>2, <1>3 DEF IInv, Apart
<1>4. CallsStay
  BY <1>2, Ending
<1> QED
  BY <1>2, <1>3, <1>4, AskedKept

LEMMA AnswerKept ==
  ASSUME IInv, NEW d \in Devices, Answer(d)
  PROVE  Kept
<1>1. CallsStay
  BY DEF Answer, CallsStay, IInv, TypeOK
<1> QED
  BY <1>1, AskedKept DEF Answer

\* A step that writes only one task.
LEMMA OneTaskKept ==
  ASSUME IInv, CallsStay, UNCHANGED <<device, customer, asked>>,
         NEW t \in Tasks, NEW new \in Task,
         task' = [task EXCEPT ![t] = new],
         ASSUME NEW d \in Devices, new.device = d, new.open, ~new.reopened
         PROVE  /\ IsLive(d)
                /\ \A v \in Callers : call[v].op = "retire" => call[v].device # d
  PROVE  Kept
<1>1. /\ task' \in [Tasks -> Task] /\ task'[t] = new
      /\ \A u \in Tasks \ {t} : task'[u] = task[u]
  BY DEF IInv, TypeOK
<1>2. TypeOK'
  BY <1>1 DEF IInv, TypeOK, CallsStay
<1>3. ASSUME NEW v \in Callers, call'[v] = call[v]
      PROVE  Knows(call[v])'
  <2>1. PICK c : c = call[v]
    OBVIOUS
  <2>2. Knows(c) /\ Fits(c)
    BY <2>1 DEF IInv
  <2>3. c.op = "retire" => CutOff(c.device)'
    BY <1>1, <2>1, <2>2 DEF Knows, Fits, CutOff
  <2>4. Knows(c)'
    BY <2>2, <2>3
    DEF Knows, NameFree, IsCustomer, WritesNumber, Links, IsLive
  <2> QED
    BY <1>3, <2>1, <2>4 DEF Knows
<1>4. RowsFit'
  BY DEF IInv, RowsFit, IsCustomer
<1>5. RetiredIsCutOff'
  <2>1. ASSUME NEW d \in Devices, device[d].status = "decommissioned",
               NEW u \in Tasks, task'[u].device = d, task'[u].open
        PROVE  task'[u].reopened
    BY <1>1, <2>1 DEF IInv, RetiredIsCutOff, IsLive, Live
  <2> QED
    BY <2>1 DEF IInv, RetiredIsCutOff
<1> QED
  BY <1>2, <1>3, <1>4, <1>5, NoDeviceWritten, CallsKnow DEF Kept, IInv

LEMMA TaskWriteKept ==
  ASSUME IInv, NEW w \in Callers, TaskWrite(w)
  PROVE  Kept
<1>1. PICK d, t : d = call[w].device /\ t = call[w].task
  OBVIOUS
<1>2. PICK open \in BOOLEAN :
        task' = [task EXCEPT ![t] = [device |-> d, open |-> open, reopened |-> FALSE]]
  BY <1>1 DEF TaskWrite
<1>3. /\ d \in Devices /\ t \in Tasks /\ IsLive(d) /\ call[w].op = "task" /\ End(w)
      /\ UNCHANGED <<device, customer, asked>>
  BY <1>1 DEF TaskWrite, IInv, Fits, Knows
<1> DEFINE new == [device |-> d, open |-> open, reopened |-> FALSE]
<1>4. new \in Task /\ new.device = d /\ task' = [task EXCEPT ![t] = new]
  BY <1>2, <1>3 DEF Task
<1> HIDE DEF new
<1>5. ASSUME NEW v \in Callers, call[v].op = "retire"
      PROVE  call[v].device # d
  BY <1>1, <1>3, <1>5 DEF IInv, Apart
<1>6. CallsStay
  BY <1>3, Ending
<1> QED
  BY <1>3, <1>4, <1>5, <1>6, OneTaskKept

LEMMA SetTaskKept ==
  ASSUME IInv, NEW t \in Tasks, SetTask(t)
  PROVE  Kept
<1>1. PICK row \in Task : row = task[t]
  BY DEF IInv, TypeOK
<1> DEFINE new == [row EXCEPT !.open = ~row.open, !.reopened = ~row.open]
<1>2. task' = [task EXCEPT ![t] = new]
  BY <1>1 DEF SetTask, IInv, TypeOK
<1>3. new \in Task /\ (new.open => new.reopened)
  BY <1>1 DEF Task
<1> HIDE DEF new
<1>4. CallsStay /\ UNCHANGED <<device, customer, asked>>
  BY DEF SetTask, CallsStay, IInv, TypeOK
<1> QED
  BY <1>2, <1>3, <1>4, OneTaskKept

-----------------------------------------------------------------------------
(* Customers *)

\* A step that writes one customer, none of whose devices it leaves behind.
LEMMA CustomerKept ==
  ASSUME IInv, CallsStay, UNCHANGED <<device, task, asked>>,
         NEW c \in Customers, NEW new \in Customer,
         customer' = [customer EXCEPT ![c] = new],
         new.status \notin {"active", "inactive"} => new.name = None,
         \A v \in Callers : call'[v] = call[v] =>
           /\ call[v].op \in {"create", "rename"} /\ new.status \in {"active", "inactive"}
                => call[v].customer = c \/ call[v].value # new.name
           /\ call[v].op = "rename" /\ call[v].customer = c
                => new.status \in {"active", "inactive"}
           /\ Links(call[v]) /\ call[v].customer = c => new.status = "active",
         \/ new.name = customer[c].name \/ new.name = None
         \/ NameFree(c, new.name)
  PROVE  Kept
<1>1. /\ customer' \in [Customers -> Customer] /\ customer'[c] = new
      /\ \A b \in Customers \ {c} : customer'[b] = customer[b]
  BY DEF IInv, TypeOK
<1>2. TypeOK'
  BY <1>1 DEF IInv, TypeOK, CallsStay
<1>3. ASSUME NEW v \in Callers, call'[v] = call[v]
      PROVE  Knows(call[v])'
  <2>1. PICK k : k = call[v]
    OBVIOUS
  <2>2. Knows(k) /\ Fits(k) /\ k \in Call
    BY <2>1 DEF IInv, TypeOK
  <2>3. ASSUME Links(k), k.customer # None
        PROVE  customer'[k.customer].status = "active"
    <3>1. k.customer \in Customers
      BY <2>2, <2>3 DEF Call
    <3> QED
      BY <1>1, <1>3, <2>1, <2>2, <2>3, <3>1 DEF Knows
  <2>4. ASSUME k.op \in {"create", "rename"}, NEW b \in Customers \ {k.customer},
               customer'[b].status \in {"active", "inactive"}
        PROVE  customer'[b].name # k.value
    BY <1>1, <1>3, <2>1, <2>2, <2>4 DEF Knows, NameFree, IsCustomer
  <2>5. k.op = "rename" => customer'[k.customer].status \in {"active", "inactive"}
    BY <1>1, <1>3, <2>1, <2>2 DEF Knows, Fits, IsCustomer
  <2>6. Knows(k)'
    BY <2>2, <2>3, <2>4, <2>5
    DEF Knows, CutOff, NameFree, IsCustomer, WritesNumber, Links, IsLive
  <2> QED
    BY <1>3, <2>1, <2>6 DEF Knows
<1>4. RowsFit'
  BY <1>1 DEF IInv, RowsFit, IsCustomer
<1>5. RetiredIsCutOff'
  BY DEF IInv, RetiredIsCutOff
<1>6. ~NewlyShared
  <2>1. ASSUME NEW a \in Customers, NEW b \in Customers, a # b,
               customer'[a].name = customer'[b].name, customer'[a].name # None
        PROVE  customer[a].name = customer[b].name
    <3>1. NameFree(c, new.name) =>
            \A e \in Customers \ {c} : customer[e].name = new.name => new.name = None
      BY DEF NameFree, IInv, RowsFit
    <3> QED
      BY <1>1, <2>1, <3>1
  <2> QED
    BY <2>1 DEF NewlyShared
<1> QED
  BY <1>2, <1>3, <1>4, <1>5, <1>6, NoDeviceWritten, CallsKnow DEF Kept, IInv

LEMMA NameWriteKept ==
  ASSUME IInv, NEW w \in Callers, NameWrite(w)
  PROVE  Kept
<1>1. PICK k : k = call[w]
  OBVIOUS
<1>2. PICK c : c = k.customer
  OBVIOUS
<1>3. /\ k.op \in {"create", "rename"} /\ k.value \in Names /\ c \in Customers
      /\ k.pc \in {"link", "number", "write"}
      /\ Knows(k) /\ End(w) /\ UNCHANGED <<device, task, asked>>
  BY <1>1, <1>2 DEF NameWrite, IInv, TypeOK, Call, Fits
<1>4. PICK row \in Customer : row = customer[c]
  BY <1>3 DEF IInv, TypeOK
<1>5. PICK status \in {"active", "inactive"} :
        /\ customer' = [customer EXCEPT ![c] = [status |-> status, name |-> k.value]]
        /\ status = "active" \/ status = row.status
  <2>1. CASE k.op = "create"
    <3>1. customer' = [customer EXCEPT ![c] = [status |-> "active", name |-> k.value]]
      BY <1>1, <1>2, <2>1 DEF NameWrite
    <3> QED
      BY <3>1
  <2>2. CASE k.op = "rename"
    <3>1. customer' = [customer EXCEPT ![c] = [status |-> row.status, name |-> k.value]]
      BY <1>1, <1>2, <1>4, <2>2 DEF NameWrite
    <3>2. row.status \in {"active", "inactive"}
      BY <1>2, <1>3, <1>4, <2>2 DEF Knows, IsCustomer
    <3> QED
      BY <3>1, <3>2
  <2> QED
    BY <1>3, <2>1, <2>2
<1> DEFINE new == [status |-> status, name |-> k.value]
<1>6. /\ new \in Customer /\ new.status = status /\ new.name = k.value
      /\ customer' = [customer EXCEPT ![c] = new]
  BY <1>3, <1>5 DEF Customer
<1> HIDE DEF new
<1>7. CallsStay /\ call'[w] = Idle
  BY <1>3, Ending
<1>8. ASSUME NEW v \in Callers, call'[v] = call[v], call[v].op # "idle"
      PROVE  /\ call[v].op \notin {"create", "rename"}
             /\ Links(call[v]) /\ call[v].customer = c => status = "active"
  <2>1. v # w
    BY <1>7, <1>8, IdleCall
  <2>2. Apart(call[v], k) /\ Knows(call[v])
    BY <1>1, <2>1 DEF IInv
  <2>3. call[v].op \notin {"create", "rename"}
    BY <1>3, <2>2 DEF Apart
  <2>4. ASSUME Links(call[v]), call[v].customer = c
        PROVE  status = "active"
    <3>1. customer[c].status = "active"
      BY <1>3, <2>2, <2>4, NoneIsNothing DEF Knows
    <3> QED
      BY <1>4, <1>5, <3>1
  <2> QED
    BY <2>3, <2>4
<1>9. NameFree(c, new.name)
  BY <1>2, <1>3, <1>6 DEF Knows
<1>10. \A v \in Callers : call[v].op = "idle" => ~Links(call[v])
  BY DEF Links
<1>11. ASSUME NEW v \in Callers, call'[v] = call[v]
       PROVE  /\ call[v].op \notin {"create", "rename"}
              /\ Links(call[v]) /\ call[v].customer = c => new.status = "active"
  BY <1>6, <1>8, <1>10, <1>11
<1> QED
  BY <1>3, <1>5, <1>6, <1>7, <1>9, <1>11, CustomerKept

LEMMA SwitchKept ==
  ASSUME IInv, NEW c \in Customers, SwitchCustomer(c)
  PROVE  Kept
<1>1. PICK row \in Customer : row = customer[c]
  BY DEF IInv, TypeOK
<1>2. PICK status \in {"active", "inactive"} :
        customer' = [customer EXCEPT ![c] = [row EXCEPT !.status = status]]
  BY <1>1 DEF SwitchCustomer
<1> DEFINE new == [row EXCEPT !.status = status]
<1>3. /\ new \in Customer /\ new.status = status /\ new.name = row.name
      /\ customer' = [customer EXCEPT ![c] = new]
  BY <1>1, <1>2 DEF Customer
<1> HIDE DEF new
<1>4. CallsStay /\ UNCHANGED <<device, task, asked>> /\ FreeToWrite(c) /\ IsCustomer(c)
  BY DEF SwitchCustomer, CallsStay, IInv, TypeOK
<1>5. ASSUME NEW v \in Callers, Links(call[v])
      PROVE  call[v].customer # c
  BY <1>4, <1>5 DEF FreeToWrite, IsLinked, Links
<1>6. ASSUME NEW v \in Callers, call[v].op \in {"create", "rename"}
      PROVE  call[v].customer = c \/ call[v].value # new.name
  BY <1>1, <1>3, <1>4, <1>6 DEF IInv, Knows, NameFree
<1> QED
  BY <1>1, <1>2, <1>3, <1>4, <1>5, <1>6, CustomerKept

\* No device has a customer that is removed: its row is all that is written.
LEMMA RemoveKept ==
  ASSUME IInv, NEW w \in Callers, RemoveWrite(w)
  PROVE  Kept
<1>1. PICK c : c = call[w].customer
  OBVIOUS
<1>2. /\ c \in Customers /\ call[w].op = "remove"
      /\ \A d \in Devices : device[d].customer # c
      /\ customer' = [customer EXCEPT ![c] = [status |-> "removed", name |-> None]]
      /\ End(w) /\ UNCHANGED <<task, asked>>
  BY <1>1 DEF RemoveWrite, IInv, Fits, Knows
<1>3. device' = device
  <2>1. device' = [d \in Devices |-> device[d]]
    BY <1>1, <1>2 DEF RemoveWrite
  <2> QED
    BY <2>1 DEF IInv, TypeOK
<1> DEFINE new == [status |-> "removed", name |-> None]
<1>4. /\ new \in Customer /\ new.status = "removed" /\ new.name = None
      /\ customer' = [customer EXCEPT ![c] = new]
  BY <1>2 DEF Customer
<1> HIDE DEF new
<1>5. CallsStay /\ call'[w] = Idle
  BY <1>2, Ending
<1>6. ASSUME NEW v \in Callers, call'[v] = call[v],
             call[v].op = "rename" \/ Links(call[v])
      PROVE  call[v].customer # c
  <2>1. v # w
    BY <1>5, <1>6, IdleCall DEF Links
  <2> QED
    BY <1>1, <1>2, <1>6, <2>1 DEF IInv, Apart
<1> QED
  BY <1>2, <1>3, <1>4, <1>5, <1>6, CustomerKept

-----------------------------------------------------------------------------
(* The proof *)

LEMMA InitInv == Init => IInv
<1> SUFFICES ASSUME Init PROVE IInv
  OBVIOUS
<1>1. TypeOK
  <2>1. device \in [Devices -> Device]
    <3>1. NoDevice \in Device
      BY DEF NoDevice, Device
    <3> QED
      BY <3>1 DEF Init
  <2>2. customer \in [Customers -> Customer]
    BY DEF Init, Customer
  <2>3. task \in [Tasks -> Task]
    BY DEF Init, Task
  <2> QED
    BY <2>1, <2>2, <2>3, IdleCall DEF Init, TypeOK
<1>2. \A w \in Callers : call[w] = Idle
  BY DEF Init
<1>3. \A v, w \in Callers : Apart(call[v], call[w])
  BY <1>2, IdleCall
<1>4. \A w \in Callers : Fits(call[w]) /\ Knows(call[w])
  BY <1>2, IdleCall
<1>5. ASSUME NEW d \in Devices
      PROVE  device[d] = NoDevice \/ device[d].status \in Live
  BY DEF Init, Live
<1>6. RowsFit
  BY <1>5 DEF Init, RowsFit, NoDevice, IsCustomer, Live
<1>7. RetiredIsCutOff
  BY <1>5 DEF RetiredIsCutOff, NoDevice, Live
<1> QED
  BY <1>1, <1>3, <1>4, <1>6, <1>7 DEF IInv

LEMMA StutterKept ==
  ASSUME IInv, UNCHANGED vars
  PROVE  Kept
<1>1. UNCHANGED <<device, customer, task, asked>> /\ CallsStay
  BY DEF vars, CallsStay, IInv, TypeOK
<1>2. ASSUME NEW v \in Callers, call'[v] = call[v]
      PROVE  Knows(call[v])'
  <2>1. PICK c : c = call[v] /\ Knows(c)
    BY DEF IInv
  <2>2. Knows(c)'
    BY <1>1, <2>1
    DEF Knows, CutOff, NameFree, IsCustomer, WritesNumber, Links, IsLive
  <2> QED
    BY <1>2, <2>1, <2>2 DEF Knows
<1>3. TypeOK' /\ RowsFit' /\ RetiredIsCutOff'
  BY <1>1 DEF IInv, TypeOK, CallsStay, RowsFit, IsCustomer, RetiredIsCutOff
<1> QED
  BY <1>1, <1>2, <1>3, NoDeviceWritten, CallsKnow DEF Kept, IInv

LEMMA StepKept ==
  ASSUME IInv, [Next]_vars
  PROVE  Kept
<1>1. ASSUME NEW w \in Callers, Start(w) PROVE Kept
  <2>1. ASSUME NEW d \in Devices, NEW c \in Customers \cup {None}, NEW n \in Numbers,
               StartRegister(w, d, c, n)
        PROVE  Kept
    BY <2>1, RegisterBegins
  <2>2. ASSUME NEW d \in Devices, NEW c \in Customers \cup {None},
               NEW n \in Numbers \cup {None}, StartUpdate(w, d, c, n)
        PROVE  Kept
    BY <2>2, UpdateBegins
  <2>3. ASSUME NEW d \in Devices,
               StartRetire(w, d) \/ StartConfirm(w, d) \/ StartAsk(w, d)
        PROVE  Kept
    BY <2>3, DeviceCallBegins
  <2>4. ASSUME NEW d \in Devices, NEW t \in Tasks, StartTask(w, t, d) PROVE Kept
    BY <2>4, DeviceCallBegins
  <2>5. ASSUME NEW c \in Customers, StartRemove(w, c) PROVE Kept
    BY <2>5, CustomerCallBegins
  <2>6. ASSUME NEW c \in Customers, NEW n \in Names,
               StartCreate(w, c, n) \/ StartRename(w, c, n)
        PROVE  Kept
    BY <2>6, CustomerCallBegins
  <2> QED
    BY <1>1, <2>1, <2>2, <2>3, <2>4, <2>5, <2>6 DEF Start
<1>2. ASSUME NEW w \in Callers, Step(w) PROVE Kept
  <2>1. Abort(w) => Kept
    BY CallEnds DEF Abort
  <2> QED
    BY <1>2, <2>1, LinkKept, CheckKept, RegisterKept, UpdateKept, RetireKept,
       ConfirmKept, AskKept, TaskWriteKept, NameWriteKept, RemoveKept DEF Step
<1>3. ASSUME NEW d \in Devices, Reactivate(d) \/ RotateKey(d) \/ Answer(d) PROVE Kept
  BY <1>3, ReactivateKept, AnswerKept
<1>4. ASSUME NEW c \in Customers, SwitchCustomer(c) PROVE Kept
  BY <1>4, SwitchKept
<1>5. ASSUME NEW t \in Tasks, SetTask(t) PROVE Kept
  BY <1>5, SetTaskKept
<1>6. CASE UNCHANGED vars
  BY <1>6, StutterKept
<1> QED
  BY <1>1, <1>2, <1>3, <1>4, <1>5, <1>6 DEF Next

LEMMA Invariant == Spec => []IInv
<1>1. IInv /\ [Next]_vars => IInv'
  BY StepKept DEF Kept
<1> QED
  BY <1>1, InitInv, PTL DEF Spec

-----------------------------------------------------------------------------
(* Theorems *)

\* Every row, task and call has its type.
THEOREM RegistryTypes == Spec => []TypeOK
<1>1. IInv => TypeOK
  BY DEF IInv
<1> QED
  BY <1>1, Invariant, PTL

\* However calls interleave, a device that decommission retired has no key and no
\* work but what Operation opened again: the lock of the device (device-lock.ts)
\* keeps whoever retires it and whoever gives it work apart.  No step takes the key
\* of a device in use but a confirmation written over a retirement.
THEOREM StatusStaysMeant == Spec => StatusIsMeant
<1>1. IInv /\ [Next]_vars => [RetiredIsCutOff' /\ KeysStay]_vars
  BY StepKept DEF Kept, IInv
<1> QED
  BY <1>1, Invariant, PTL DEF Spec, StatusIsMeant

\* Whatever old rows share, no step gives two devices the same number or two
\* customers the same name, by the locks alone (lockDeviceIdentifiers,
\* lockCustomerNames): no unique index is needed for it.
THEOREM NumbersAndNamesStayApart == Spec => NothingBecomesShared
<1>1. IInv /\ [Next]_vars =>
        [/\ \A d, e \in Devices :
              d # e /\ device'[d].number = device'[e].number /\ device'[d].number # None
                => device[d].number = device[e].number
         /\ \A b, c \in Customers :
              b # c /\ customer'[b].name = customer'[c].name /\ customer'[b].name # None
                => customer[b].name = customer[c].name]_vars
  BY StepKept DEF Kept, NewlyShared
<1> QED
  BY <1>1, Invariant, PTL DEF Spec, NothingBecomesShared

\* A device is linked to a customer only while that customer is active, and removing
\* a customer takes no device's customer away (customer-lock.ts).
THEOREM LinksAlwaysHold == Spec => LinksHold
<1>1. IInv /\ [Next]_vars =>
        [\A d \in Devices : device'[d].customer # device[d].customer =>
           /\ device'[d].customer # None
           /\ customer'[device'[d].customer].status = "active"]_vars
  BY StepKept DEF Kept, Linked
<1> QED
  BY <1>1, Invariant, PTL DEF Spec, LinksHold
=============================================================================
