------------------------- MODULE MCCampaignService -------------------------
(***************************************************************************)
(* Instances of CampaignService for TLC.                                   *)
(***************************************************************************)
EXTENDS CampaignService

CONSTANTS c1, c2

(* One creation with all the contacts, or none.                            *)
OneBatch == <<Contacts>>

(* Nothing tells two requests, two pools or two goroutines apart.          *)
Perms == Permutations(Dials) \cup Permutations(Pools) \cup Permutations(Requests)
=============================================================================
