------------------------------ MODULE MCNumbers ------------------------------
(***************************************************************************)
(* Instances of Numbers for TLC.                                           *)
(***************************************************************************)
EXTENDS Numbers, TLC

(* Users, numbers, purchases and requests have no identity of their own.   *)
Perms == Permutations(Users) \cup Permutations(Digits)
         \cup Permutations(Sids) \cup Permutations(Requests)
=============================================================================
