--------------------------- MODULE MCDeviceRegistry ---------------------------
(* DeviceRegistry on small instances.                                          *)
EXTENDS DeviceRegistry, TLC

CONSTANTS d1, d2, c1, c2, n1, n2, m1, t1, w1, w2

TwoDevices == {d1, d2}
TwoCustomers == {c1, c2}
TwoNumbers == {n1, n2}
OneName == {m1}
OneTask == {t1}
TwoCallers == {w1, w2}

\* Devices are looked at with customers, or with what no customer matters to: tasks,
\* and devices of before that have no key or no number of their own
Plain(d) ==
  /\ IsLive(d) => device[d].key
  /\ \A e \in Devices \ {d} : device[e].number # device[d].number \/ device[e] = NoDevice
  /\ device[d].number # None \/ device[d] = NoDevice

CustomersApart == \/ \A c \in Customers : customer[c].status = "none"
              \/ /\ \A t \in Tasks : task[t].device = None
                 /\ \A d \in Devices : Plain(d)

Symmetry == Permutations(Devices) \cup Permutations(Numbers) \cup Permutations(Customers)
              \cup Permutations(Callers)
=============================================================================
