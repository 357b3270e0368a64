--------------------------- MODULE MCCampaignSync ---------------------------
(***************************************************************************)
(* Instances of CampaignSync for TLC.                                      *)
(***************************************************************************)
EXTENDS CampaignSync, TLC

(* Nothing tells two campaigns, two requests or two lines of a file apart. *)
Perms == Permutations(Ids) \cup Permutations(Requests) \cup Permutations(Contacts)
=============================================================================
