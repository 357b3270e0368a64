----------------------------- MODULE MCSessions -----------------------------
(***************************************************************************)
(* Instances of Sessions for TLC.                                          *)
(***************************************************************************)
EXTENDS Sessions

CONSTANT t1

(* The requests of one tab, so that one can wait for the refresh of another.*)
OneTab == [r \in Requests |-> t1]
=============================================================================
