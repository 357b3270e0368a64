----------------------------- MODULE DialPromise -----------------------------
(***************************************************************************)
(* What a campaign promises about its requests to the telephone provider,  *)
(* with nothing said of queues, goroutines or databases: it has at most    *)
(* Limit requests in progress, it never asks for a contact it is already   *)
(* asking for, it asks for nobody more than Budget times, and once it has  *)
(* been closed it makes no further request than those already on their     *)
(* way, which together with those in progress are no more than Limit. How  *)
(* long the calls last that the provider creates is not its concern.       *)
(***************************************************************************)
EXTENDS Naturals, FiniteSets

CONSTANTS
  Contacts,  (* the contacts of the campaign                              *)
  Limit,     (* most requests in progress at once                         *)
  Budget,    (* most requests ever made for one contact                   *)
  Heeds      (* is a request not made once the campaign has been closed?  *)

VARIABLES
  asking,    (* the contacts the provider is being asked to call          *)
  asked,     (* how often it was asked to call each contact               *)
  closed,    (* has the campaign been stopped?                            *)
  grace      (* requests that may still be made after that                *)

vars == <<asking, asked, closed, grace>>

Init ==
  /\ asking = {}
  /\ asked \in [Contacts -> Nat]
  /\ closed = FALSE
  /\ grace = 0

Begin(c) ==
  /\ closed => grace > 0
  /\ c \notin asking
  /\ Cardinality(asking) < Limit
  /\ asked[c] < Budget
  /\ asking' = asking \cup {c}
  /\ asked' = [asked EXCEPT ![c] = @ + 1]
  /\ grace' = IF closed THEN grace - 1 ELSE grace
  /\ UNCHANGED closed

End(c) ==
  /\ c \in asking
  /\ asking' = asking \ {c}
  /\ UNCHANGED <<asked, closed, grace>>

Close ==
  /\ ~closed
  /\ closed' = TRUE
  /\ grace' \in 0..(IF Heeds THEN 0 ELSE Limit - Cardinality(asking))
  /\ UNCHANGED <<asking, asked>>

Next == Close \/ \E c \in Contacts : Begin(c) \/ End(c)

Spec == Init /\ [][Next]_vars
=============================================================================
