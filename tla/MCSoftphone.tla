----------------------------- MODULE MCSoftphone -----------------------------
(***************************************************************************)
(* Instances of Softphone for TLC.                                         *)
(***************************************************************************)
EXTENDS Softphone, TLC

(* Handlers and devices are told apart by nothing but their history.       *)
Perms == Permutations(Handlers) \cup Permutations(Devices) \cup Permutations(Calls)
=============================================================================
