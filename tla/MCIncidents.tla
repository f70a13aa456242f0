----------------------------- MODULE MCIncidents -----------------------------
(* A small instance of Incidents for TLC.                                  *)
EXTENDS Incidents

\* Writes, rollouts and field reports share nothing but the table of their
\* incidents: each behaviour is about one of the three.
VARIABLE part

Part == /\ part # "writes" => versions' = versions
        /\ part # "rollouts" => rollout' = rollout
        /\ part # "reports" => \A i \in Ids : incident'[i].status # "none" =>
                                 incident'[i].source # "field-report"

MCInit == Init /\ part \in {"writes", "rollouts", "reports"}

MCSpec == MCInit /\ [][Next /\ Part /\ part' = part]_<<vars, part>> /\ Fairness

=============================================================================
