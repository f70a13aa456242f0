---------------------------- MODULE DeviceRegistry ----------------------------
(***************************************************************************)
(* The registry of devices and of the customers they belong to: who may    *)
(* retire a device, give it work, link it to a customer, or take a number  *)
(* or a name, while others do the same.                                    *)
(*                                                                         *)
(* Every call is one transaction under READ COMMITTED.  It is cut between  *)
(* what it reads and what it writes.  A lock is taken together with the    *)
(* read that follows it, as waiting for the read would only keep others    *)
(* out for longer, and is held until the call is over: who holds what can  *)
(* be read off the calls.                                                  *)
(*                                                                         *)
(* The numbers of a device (IMEI, serial number, blackbox id) are one      *)
(* number here.  The unique index on SIM numbers, the rollouts a device    *)
(* waits in and the firmware or Config a call refers to can only refuse    *)
(* more: Abort stands for them, as for errors and restarts.                *)
(***************************************************************************)
EXTENDS Naturals

CONSTANTS
  Devices,    \* deviceIds
  Customers,  \* ids of customers
  Numbers,    \* identification numbers
  Names,      \* company names, as far as they differ in more than case
  Tasks,      \* ids of tasks
  Callers,    \* requests served at the same time
  None        \* no device, customer, number, name or task

ASSUME NoneIsNothing ==
  None \notin Devices \cup Customers \cup Numbers \cup Names \cup Tasks

VARIABLES
  device,     \* the rows of devices
  customer,   \* the rows of customers
  task,       \* the rows of tasks
  asked,      \* whether a request or an override of the device is still open
  call        \* the transactions under way

vars == <<device, customer, task, asked, call>>

-----------------------------------------------------------------------------
(* State *)

\* key says that apiKeyHash is set, retiredAt that decommissionedAt is
Device == [status : {"none", "registered", "installed", "decommissioned"},
           key : BOOLEAN, retiredAt : BOOLEAN,
           customer : Customers \cup {None}, number : Numbers \cup {None}]

Customer == [status : {"none", "active", "inactive", "removed"},
             name : Names \cup {None}]

\* reopened: opened again by Operation since it was last closed
Task == [device : Devices \cup {None}, open : BOOLEAN, reopened : BOOLEAN]

\* value is the number or the name that the call writes, None for the old one
Call == [op : {"idle", "register", "update", "retire", "confirm", "ask", "task",
               "create", "rename", "remove"},
         pc : {"link", "number", "write"},
         device : Devices \cup {None}, customer : Customers \cup {None},
         value : Numbers \cup Names \cup {None}, task : Tasks \cup {None}]

Idle == [op |-> "idle", pc |-> "write", device |-> None, customer |-> None,
         value |-> None, task |-> None]

NoDevice == [status |-> "none", key |-> FALSE, retiredAt |-> FALSE,
             customer |-> None, number |-> None]

TypeOK ==
  /\ device \in [Devices -> Device]
  /\ customer \in [Customers -> Customer]
  /\ task \in [Tasks -> Task]
  /\ asked \in [Devices -> BOOLEAN]
  /\ call \in [Callers -> Call]

\* devices and customers of before, without work: a device from before the keys has
\* none, an old one may lack its number, and old ones may share theirs, as old
\* customers may share a name that differs in case
Init ==
  /\ device \in [Devices -> {NoDevice} \cup
                   {d \in Device : d.status \in {"registered", "installed"} /\ ~d.retiredAt}]
  /\ customer \in [Customers -> {[status |-> "none", name |-> None]} \cup
                     {c \in Customer : c.status = "active" /\ c.name # None}]
  /\ \A d \in Devices : device[d].customer # None
                          => customer[device[d].customer].status = "active"
  /\ task = [t \in Tasks |-> [device |-> None, open |-> FALSE, reopened |-> FALSE]]
  /\ asked = [d \in Devices |-> FALSE]
  /\ call = [w \in Callers |-> Idle]

Live == {"registered", "installed"}
IsLive(d) == device[d].status \in Live
IsCustomer(c) == customer[c].status \in {"active", "inactive"}

-----------------------------------------------------------------------------
(* Locks *)

\* lockDeviceForChange: FOR UPDATE on the device
IsChanged(d) == \E w \in Callers : call[w].op \in {"update", "retire"} /\ call[w].device = d

\* lockDeviceForUse: FOR KEY SHARE on the device
IsUsed(d) == \E w \in Callers : call[w].op \in {"ask", "task"} /\ call[w].device = d

\* lockCustomerForReference: FOR SHARE on the customer
IsLinked(c) == \E w \in Callers : /\ call[w].op \in {"register", "update"}
                                  /\ call[w].customer = c
                                  /\ call[w].pc # "link"

\* lockCustomerForWrite: FOR UPDATE on the customer
IsWritten(c) == \E w \in Callers : /\ call[w].op \in {"rename", "remove"}
                                   /\ call[w].customer = c

\* lockDeviceIdentifiers
NumbersLocked == \E w \in Callers : /\ call[w].op \in {"register", "update"}
                                    /\ call[w].value # None
                                    /\ call[w].pc = "write"

\* lockCustomerNames
NamesLocked == \E w \in Callers : call[w].op \in {"create", "rename"}

\* lockTask: FOR UPDATE on the task
TaskLocked(t) == \E w \in Callers : call[w].task = t

FreeToChange(d) == ~IsChanged(d) /\ ~IsUsed(d)
FreeToWrite(c) == ~IsLinked(c) /\ ~IsWritten(c)

Begin(w, c) == call[w].op = "idle" /\ call' = [call EXCEPT ![w] = c]
Goto(w, pc) == call' = [call EXCEPT ![w].pc = pc]
End(w) == call' = [call EXCEPT ![w] = Idle]
At(w, op, pc) == call[w].op = op /\ call[w].pc = pc

-----------------------------------------------------------------------------
(* Registration and changes of a device *)

\* the customer is read first, then the number
LinkAndNumber(op, d, c, n) ==
  [op |-> op, pc |-> IF c = None THEN "number" ELSE "link", device |-> d,
   customer |-> c, value |-> n, task |-> None]

StartRegister(w, d, c, n) ==
  /\ Begin(w, LinkAndNumber("register", d, c, n))
  /\ UNCHANGED <<device, customer, task, asked>>

\* what does not change is not sent; c and n are not both None
StartUpdate(w, d, c, n) ==
  /\ FreeToChange(d)
  /\ IsLive(d)
  /\ c # device[d].customer \/ c = None
  /\ n # device[d].number
  /\ c # None \/ n # None
  /\ Begin(w, LinkAndNumber("update", d, c, n))
  /\ UNCHANGED <<device, customer, task, asked>>

\* Wrong on purpose: reads the customer without a lock
LinkUnlocked(w) ==
  LET c == call[w].customer IN
  /\ call[w].pc = "link"
  /\ IF customer[c].status = "active"
     THEN Goto(w, IF call[w].value = None THEN "write" ELSE "number")
     ELSE End(w)
  /\ UNCHANGED <<device, customer, task, asked>>

\* lockCustomerForReference
Link(w) ==
  LET c == call[w].customer IN
  /\ call[w].pc = "link"
  /\ ~IsWritten(c)
  /\ IF customer[c].status = "active"
     THEN Goto(w, IF call[w].value = None THEN "write" ELSE "number")
     ELSE End(w)
  /\ UNCHANGED <<device, customer, task, asked>>

\* Wrong on purpose: no lock before the check
CheckUnlocked(w) ==
  /\ call[w].pc = "number"
  /\ IF \E e \in Devices \ {call[w].device} : device[e].number = call[w].value
     THEN End(w) ELSE Goto(w, "write")
  /\ UNCHANGED <<device, customer, task, asked>>

\* assertDeviceIdentifiersFree: retired devices keep their numbers
CheckNumbers(w) ==
  /\ call[w].pc = "number"
  /\ ~NumbersLocked
  /\ IF \E e \in Devices \ {call[w].device} : device[e].number = call[w].value
     THEN End(w) ELSE Goto(w, "write")
  /\ UNCHANGED <<device, customer, task, asked>>

\* a deviceId that exists is refused by its unique key
RegisterWrite(w) ==
  LET d == call[w].device IN
  /\ At(w, "register", "write")
  /\ device[d].status = "none"
  /\ device' = [device EXCEPT ![d] = [status |-> "registered", key |-> TRUE, retiredAt |-> FALSE,
                                      customer |-> call[w].customer, number |-> call[w].value]]
  /\ End(w)
  /\ UNCHANGED <<customer, task, asked>>

Changed(old, new) == IF new = None THEN old ELSE new

UpdateWrite(w) ==
  LET d == call[w].device IN
  /\ At(w, "update", "write")
  /\ device' = [device EXCEPT ![d].customer = Changed(@, call[w].customer),
                              ![d].number = Changed(@, call[w].value)]
  /\ End(w)
  /\ UNCHANGED <<customer, task, asked>>

-----------------------------------------------------------------------------
(* Retirement, reactivation, keys, confirmation *)

HasWork(d) == asked[d] \/ \E t \in Tasks : task[t].device = d /\ task[t].open

\* the work is counted after the lock
StartRetire(w, d) ==
  /\ FreeToChange(d)
  /\ IsLive(d)
  /\ ~HasWork(d)
  /\ Begin(w, [Idle EXCEPT !.op = "retire", !.device = d])
  /\ UNCHANGED <<device, customer, task, asked>>

RetireWrite(w) ==
  /\ call[w].op = "retire"
  /\ device' = [device EXCEPT ![call[w].device] =
                  [@ EXCEPT !.status = "decommissioned", !.key = FALSE, !.retiredAt = TRUE]]
  /\ End(w)
  /\ UNCHANGED <<customer, task, asked>>

Reactivate(d) ==
  /\ FreeToChange(d)
  /\ device[d].status = "decommissioned"
  /\ device' = [device EXCEPT ![d] =
                  [@ EXCEPT !.status = "registered", !.key = TRUE, !.retiredAt = FALSE]]
  /\ UNCHANGED <<customer, task, asked, call>>

RotateKey(d) ==
  /\ FreeToChange(d)
  /\ IsLive(d)
  /\ device' = [device EXCEPT ![d].key = TRUE]
  /\ UNCHANGED <<customer, task, asked, call>>

\* confirmInstalled reads the status before its transaction ...
StartConfirm(w, d) ==
  /\ device[d].status = "registered"
  /\ Begin(w, [Idle EXCEPT !.op = "confirm", !.device = d])
  /\ UNCHANGED <<device, customer, task, asked>>

\* ... which writes by deviceId, whatever the status is by then
ConfirmWrite(w) ==
  LET d == call[w].device IN
  /\ call[w].op = "confirm"
  /\ ~IsChanged(d)
  /\ device' = [device EXCEPT ![d].status = "installed"]
  /\ End(w)
  /\ UNCHANGED <<customer, task, asked>>

-----------------------------------------------------------------------------
(* Work for a device *)

\* Wrong on purpose: looks at the device without a lock
StartAskUnlocked(w, d) ==
  /\ IsLive(d)
  /\ Begin(w, [Idle EXCEPT !.op = "ask", !.device = d])
  /\ UNCHANGED <<device, customer, task, asked>>

\* a request to send a Config or firmware, or an override
StartAsk(w, d) ==
  /\ ~IsChanged(d)
  /\ IsLive(d)
  /\ Begin(w, [Idle EXCEPT !.op = "ask", !.device = d])
  /\ UNCHANGED <<device, customer, task, asked>>

AskWrite(w) ==
  /\ call[w].op = "ask"
  /\ asked' = [asked EXCEPT ![call[w].device] = TRUE]
  /\ End(w)
  /\ UNCHANGED <<device, customer, task>>

\* decided, withdrawn, expired, or its result is there
Answer(d) ==
  /\ asked[d]
  /\ asked' = [asked EXCEPT ![d] = FALSE]
  /\ UNCHANGED <<device, customer, task, call>>

\* a task is created, started, or moved to another device
StartTask(w, t, d) ==
  /\ ~TaskLocked(t)
  /\ task[t].device # d
  /\ ~IsChanged(d)
  /\ IsLive(d)
  /\ Begin(w, [Idle EXCEPT !.op = "task", !.device = d, !.task = t])
  /\ UNCHANGED <<device, customer, task, asked>>

\* a new task is open, one that moves may get another status on the way
TaskWrite(w) ==
  LET t == call[w].task IN
  /\ call[w].op = "task"
  /\ \E open \in IF task[t].device = None THEN {TRUE} ELSE BOOLEAN :
       task' = [task EXCEPT ![t] = [device |-> call[w].device, open |-> open,
                                    reopened |-> FALSE]]
  /\ End(w)
  /\ UNCHANGED <<device, customer, asked>>

\* any other update; Operation may open a task again, and no device is locked
SetTask(t) ==
  /\ ~TaskLocked(t)
  /\ task[t].device # None
  /\ task' = [task EXCEPT ![t].open = ~@, ![t].reopened = ~task[t].open]
  /\ UNCHANGED <<device, customer, asked, call>>

-----------------------------------------------------------------------------
(* Customers *)

\* assertNameFree: customers that are not active keep their names
NameFree(c, n) ==
  \A b \in Customers \ {c} : IsCustomer(b) => customer[b].name # n

StartCreate(w, c, n) ==
  /\ ~NamesLocked
  /\ customer[c].status = "none"
  /\ NameFree(c, n)
  /\ Begin(w, [Idle EXCEPT !.op = "create", !.customer = c, !.value = n])
  /\ UNCHANGED <<device, customer, task, asked>>

StartRename(w, c, n) ==
  /\ ~NamesLocked
  /\ FreeToWrite(c)
  /\ IsCustomer(c)
  /\ NameFree(c, n)
  /\ Begin(w, [Idle EXCEPT !.op = "rename", !.customer = c, !.value = n])
  /\ UNCHANGED <<device, customer, task, asked>>

NameWrite(w) ==
  /\ call[w].op \in {"create", "rename"}
  /\ customer' = [customer EXCEPT ![call[w].customer] =
                    [status |-> IF call[w].op = "create" THEN "active" ELSE @.status,
                     name |-> call[w].value]]
  /\ End(w)
  /\ UNCHANGED <<device, task, asked>>

\* update without a name: switched on or off, at any time
SwitchCustomer(c) ==
  /\ FreeToWrite(c)
  /\ IsCustomer(c)
  /\ \E status \in {"active", "inactive"} :
       customer' = [customer EXCEPT ![c].status = status]
  /\ UNCHANGED <<device, task, asked, call>>

StartRemove(w, c) ==
  /\ FreeToWrite(c)
  /\ IsCustomer(c)
  /\ \A d \in Devices : device[d].customer # c
  /\ Begin(w, [Idle EXCEPT !.op = "remove", !.customer = c])
  /\ UNCHANGED <<device, customer, task, asked>>

\* the foreign key of the devices is set to null
RemoveWrite(w) ==
  LET c == call[w].customer IN
  /\ call[w].op = "remove"
  /\ customer' = [customer EXCEPT ![c] = [status |-> "removed", name |-> None]]
  /\ device' = [d \in Devices |-> IF device[d].customer = c
                                  THEN [device[d] EXCEPT !.customer = None] ELSE device[d]]
  /\ End(w)
  /\ UNCHANGED <<task, asked>>

\* an error, an index or a restart undoes the transaction
Abort(w) ==
  /\ call[w].op # "idle"
  /\ End(w)
  /\ UNCHANGED <<device, customer, task, asked>>

-----------------------------------------------------------------------------

Step(w) ==
  \/ Link(w) \/ CheckNumbers(w) \/ RegisterWrite(w) \/ UpdateWrite(w)
  \/ RetireWrite(w) \/ ConfirmWrite(w) \/ AskWrite(w) \/ TaskWrite(w)
  \/ NameWrite(w) \/ RemoveWrite(w)
  \/ Abort(w)

Start(w) ==
  \/ \E d \in Devices, c \in Customers \cup {None} :
       \/ \E n \in Numbers : StartRegister(w, d, c, n)
       \/ \E n \in Numbers \cup {None} : StartUpdate(w, d, c, n)
  \/ \E d \in Devices : StartRetire(w, d) \/ StartConfirm(w, d) \/ StartAsk(w, d)
                          \/ \E t \in Tasks : StartTask(w, t, d)
  \/ \E c \in Customers : StartRemove(w, c)
                            \/ \E n \in Names : StartCreate(w, c, n) \/ StartRename(w, c, n)

Next ==
  \/ \E w \in Callers : Start(w) \/ Step(w)
  \/ \E d \in Devices : Reactivate(d) \/ RotateKey(d) \/ Answer(d)
  \/ \E c \in Customers : SwitchCustomer(c)
  \/ \E t \in Tasks : SetTask(t)

Spec == Init /\ [][Next]_vars

-----------------------------------------------------------------------------
(* Properties *)

RetiredIsCutOff ==
  \A d \in Devices : device[d].status = "decommissioned" =>
    /\ ~device[d].key
    /\ ~asked[d]
    /\ \A t \in Tasks : task[t].device = d /\ task[t].open => task[t].reopened

IsKeyless(d) == IsLive(d) /\ ~device[d].key

KeysStay ==
  \A d \in Devices : IsKeyless(d)' => IsKeyless(d) \/ device'[d].retiredAt

\* No step leaves a retired device with a key, or with work but for tasks that
\* Operation opened again (device-lock.ts, decommission); and none leaves a device
\* in use without a key that was not so before (devices from before the keys are,
\* until rotateKey), but for a confirmation written over a retirement, of which
\* the row keeps the time.
StatusIsMeant == [][RetiredIsCutOff' /\ KeysStay]_vars

\* No step gives two devices the same number, retired ones included, or two
\* customers the same name, inactive ones included; no index compares without case.
NothingBecomesShared ==
  [][/\ \A d, e \in Devices :
          d # e /\ device'[d].number = device'[e].number /\ device'[d].number # None
            => device[d].number = device[e].number
     /\ \A b, c \in Customers :
          b # c /\ customer'[b].name = customer'[c].name /\ customer'[b].name # None
            => customer[b].name = customer[c].name]_vars

\* A device is linked only to a customer that is active at that moment, and no
\* device loses its customer (the foreign key would take it away silently).
LinksHold ==
  [][\A d \in Devices : device'[d].customer # device[d].customer =>
       /\ device'[d].customer # None
       /\ customer'[device'[d].customer].status = "active"]_vars
=============================================================================
