------------------------- MODULE MCFirmwareInstalls -------------------------
(* A small instance of FirmwareHistory for TLC, in four parts. *)
EXTENDS FirmwareHistory, FiniteSets, TLC

Symmetry == Permutations(Firmware) \cup Permutations(Rollouts)
            \cup Permutations(Callers) \cup Permutations(Devices)

VARIABLE part  \* what the behaviour is about

\* Four parts: one device with overrides and removals; one with rollbacks and
\* removals; one with rounds of installs and rollbacks, but no removals; two
\* devices without losses and confirmations.  The last two have a history.
Parts == {"use", "undo", "rounds", "group"}
Remembers == part \in {"rounds", "group"}

OneDevice == Cardinality({d \in Devices : device'[d].there}) <= 1
Kept == /\ firmware' = firmware /\ override' = override
        /\ \A w \in Callers : call'[w].op # "remove"

Part ==
  /\ part # "group" => OneDevice
  /\ part \in {"use", "undo"} => (losses' # losses => firmware' # firmware)
  /\ part = "use" => \A w \in Callers : call'[w].op # "rollback"
  /\ part = "undo" => override' = override
  /\ part = "rounds" => Kept
  /\ part = "group" => /\ Kept /\ losses' = losses
                       /\ \A w \in Callers : call'[w].op # "confirm"

MCInit ==
  /\ Init /\ HistoryInit
  /\ part \in Parts
  /\ mode = "central" => part # "group"

MCNext ==
  /\ Next /\ Part
  /\ part' = part
  /\ IF Remembers THEN Remember ELSE UNCHANGED history

MCSpec == MCInit /\ [][MCNext]_<<vars, history, part>>

=============================================================================
