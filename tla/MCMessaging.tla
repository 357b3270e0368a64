---------------------------- MODULE MCMessaging -----------------------------
(***************************************************************************)
(* Instances of Messaging for TLC.                                         *)
(***************************************************************************)
EXTENDS Messaging, TLC

(* Nothing tells two messages, texts, requests, webhooks or runs apart.    *)
Perms == Permutations(Msgs) \cup Permutations(Sids) \cup Permutations(Senders)
           \cup Permutations(Runs) \cup Permutations(Hooks)
=============================================================================
