------------------------- MODULE MCCampaignRollouts -------------------------
(* CampaignRollouts on small instances.  Two devices give a group that can   *)
(* lose and gain a member; an operator and a SuperAdmin are every pair of    *)
(* creator and approver that the decision tells apart.                       *)
EXTENDS CampaignRollouts, TLC

CONSTANTS d1, d2, operator, admin, r1, r2

TwoDevices == {d1, d2}
AdminOnly == {admin}
OperatorAndAdmin == {operator, admin}
TwoRequests == {r1, r2}

Symmetry ==
  Permutations(Devices) \cup Permutations(Requests) \cup Permutations(Users \ SuperAdmins)

\* Bound: deciding does not look at the group and editing it does not look at
\* who decided, so a group of two members or one that was edited has one user
OneUser ==
  /\ \A r \in Requests : request[r].user \in {NoUser, admin}
  /\ \A i \in DOMAIN rollouts : rollouts[i].creator = admin

OneUserInEditedGroups ==
  campaign.version > 0 \/ Cardinality(campaign.members) > 1 => OneUser
=============================================================================
