---------------------------- MODULE MCWorkerPool ----------------------------
(***************************************************************************)
(* Instances of WorkerPool for TLC.                                        *)
(***************************************************************************)
EXTENDS WorkerPool

CONSTANTS c1, c2

Row(status, attempts) == [status |-> status, attempts |-> attempts]
NoDials == [dialed |-> 0, tally |-> ZeroTally]
ThreeDials == [dialed |-> 3, tally |-> [ZeroTally EXCEPT !["answered"] = 1, !["no-answer"] = 2]]

(* A campaign that is started for the first time.                          *)
Fresh2 ==
  [counts |-> NoDials, stored |-> NoDials, total |-> 2, status |-> "running",
   rows |-> [c \in Contacts |-> Row("pending", 0)], queue |-> <<c1, c2>>]

(* One that is resumed by a new process: two contacts, three dials, one    *)
(* contact left to be dialed again.                                        *)
Resumed ==
  [counts |-> ThreeDials, stored |-> ThreeDials, total |-> 2, status |-> "paused",
   rows |-> [c \in Contacts |-> IF c = c1 THEN Row("no-answer", 1) ELSE Row("answered", 2)],
   queue |-> <<c1>>]

(* One that is started again while its row has the counters of before.     *)
Restarted ==
  [counts |-> NoDials, stored |-> ThreeDials, total |-> 1, status |-> "running",
   rows |-> [c \in Contacts |-> IF c = c1 THEN Row("pending", 0) ELSE Row("failed", 1)],
   queue |-> <<c1>>]

AnyStart == {Fresh2, Resumed, Restarted}
FirstStart == {Fresh2}

(* A day of three minutes of which the middle one is inside the window.    *)
MiddleOfDay == [start |-> 1, end |-> 1]
=============================================================================
