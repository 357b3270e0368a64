------------------------------ MODULE MCCalls -------------------------------
(***************************************************************************)
(* Instances of Calls for TLC.                                             *)
(***************************************************************************)
EXTENDS Calls

(* Every provider whose status map is in the repository and is read.       *)
AllProviders == {"twilio", "telnyx", "bandwidth"}
=============================================================================
