---------------------------- MODULE NumbersProofs ----------------------------
(***************************************************************************)
(* The invariants of Numbers, for every set of customers, numbers,         *)
(* purchases and requests, and every number of faults.                     *)
(***************************************************************************)
EXTENDS Numbers, FiniteSetTheorems, TLAPS

(* The start: nothing is held, nothing has a row, nobody asks.             *)
LEMMA InitIInv == Init => IInv
<1> SUFFICES ASSUME Init PROVE IInv
  OBVIOUS
<1> USE DEF Init, Idle, At
<1>1. TypeOK
  BY LimitAssumption DEF TypeOK, OrNone, Steps
<1>2. Placed /\ PastReleased
  BY DEF Placed, Purchasing, Knows, GivenBack, PastReleased
<1>3. Mismatched = {}
  BY DEF Mismatched, IsActive, HasRow
<1>4. IsFiniteSet(Mismatched) /\ InventoryAgrees
  BY <1>3, FS_EmptySet DEF InventoryAgrees
<1>5. RoutedToOwner
  BY DEF RoutedToOwner, IsActive, HasRow
<1>6. QED
  BY <1>1, <1>2, <1>4, <1>5 DEF IInv

(* A request that goes on or ends keeps its type.                          *)
WorkTyped ==
  /\ work \in [Requests -> [step : Steps, user : OrNone(Users),
                            number : OrNone(Digits), sid : OrNone(Sids)]]
  /\ \A r \in Requests : ~At(r, "idle") =>
       /\ work[r].user # None /\ work[r].number # None
       /\ ~At(r, "buy") => work[r].sid # None

LEMMA WorkKept ==
  ASSUME WorkTyped, NEW r \in Requests, ~At(r, "idle"), ~At(r, "buy"),
         Done(r) \/ Goto(r, "update") \/ Goto(r, "forget")
  PROVE  WorkTyped'
<1> USE DEF WorkTyped, At, Steps, OrNone
<1>1. CASE Done(r)
  BY <1>1 DEF Done, Idle
<1>2. CASE Goto(r, "update")
  BY <1>2 DEF Goto
<1>3. CASE Goto(r, "forget")
  BY <1>3 DEF Goto
<1>4. QED
  BY <1>1, <1>2, <1>3

(* Types are kept: a request past its purchase has a purchase.             *)
LEMMA TypeKept == TypeOK /\ Placed /\ PastReleased /\ [Next]_vars => TypeOK'
<1> SUFFICES ASSUME TypeOK, Placed, PastReleased, [Next]_vars PROVE TypeOK'
  OBVIOUS
<1> USE NoneAssumption, LimitAssumption DEF TypeOK, OrNone, Row, Steps, At
<1>1. ASSUME NEW r \in Requests, NEW u \in Users, NEW n \in Digits, Provision(r, u, n)
      PROVE  TypeOK'
  BY <1>1 DEF Provision, stores, history
<1>2. ASSUME NEW r \in Requests, Buy(r) PROVE TypeOK'
  BY <1>2 DEF Buy, Done, Idle, FailedCall, Fault, history
<1>3. ASSUME NEW r \in Requests, Insert(r) PROVE TypeOK'
  BY <1>3 DEF Insert, Goto, Done, Idle, FailedCall, Fault, history
<1>4. ASSUME NEW r \in Requests, SetEntry(r) PROVE TypeOK'
  BY <1>4 DEF SetEntry, Done, Idle, Fault, IsActive
<1>5. ASSUME NEW r \in Requests, NEW s \in Sids, Release(r, s) PROVE TypeOK'
  BY <1>5 DEF Release, IsActive, HasRow, stores, history
<1>6. ASSUME NEW r \in Requests, GiveBack(r) PROVE TypeOK'
  <2>1. WorkTyped /\ ~At(r, "idle") /\ ~At(r, "buy")
    BY <1>6 DEF GiveBack, WorkTyped
  <2>2. WorkTyped'
    BY <1>6, <2>1, WorkKept DEF GiveBack
  <2>3. work[r].sid \in Sids
    BY <2>1 DEF WorkTyped
  <2>4. QED
    BY <1>6, <2>2, <2>3 DEF WorkTyped, GiveBack, FailedCall, Fault, history
<1>7. ASSUME NEW r \in Requests, MarkReleasing(r) PROVE TypeOK'
  <2>1. WorkTyped /\ ~At(r, "idle") /\ ~At(r, "buy")
    BY <1>7 DEF MarkReleasing, WorkTyped
  <2>2. WorkTyped'
    BY <1>7, <2>1, WorkKept DEF MarkReleasing
  <2>3. work[r].sid \in Sids /\ rows[work[r].sid] # None
    BY <1>7, <2>1 DEF WorkTyped, Placed, Knows, HasRow, MarkReleasing
  <2>4. rows' \in [Sids -> OrNone(Row)]
    BY <1>7, <2>3 DEF MarkReleasing
  <2>5. QED
    BY <1>7, <2>2, <2>3, <2>4 DEF WorkTyped, MarkReleasing, FailedCall, Fault, history
<1>8. ASSUME NEW r \in Requests, Forget(r) PROVE TypeOK'
  BY <1>8 DEF Forget, Done, Idle, Fault
<1>9. ASSUME NEW r \in Requests, NEW n \in Digits, Lookup(r, n) PROVE TypeOK'
  BY <1>9 DEF Lookup, IsActive, HasRow, stores, history
<1>10. ASSUME NEW n \in Digits, EntryExpires(n) PROVE TypeOK'
  BY <1>10 DEF EntryExpires
<1>11. ASSUME NEW s \in Sids, WeekPasses(s) PROVE TypeOK'
  BY <1>11 DEF WeekPasses, history
<1>12. ASSUME GracePeriodJob PROVE TypeOK'
  BY <1>12 DEF PastReleased, HasRow, GracePeriodJob, history
<1>13. CASE UNCHANGED vars
  BY <1>13 DEF vars, stores, history
<1>14. QED
  BY <1>1, <1>2, <1>3, <1>4, <1>5, <1>6, <1>7, <1>8, <1>9, <1>10, <1>11, <1>12, <1>13
     DEF Next, Step

(* A change of status leaves a row its owner and its number.               *)
SameOwner(s) ==
  /\ HasRow(s) <=> rows'[s] # None
  /\ HasRow(s) => rows'[s].user = rows[s].user /\ rows'[s].number = rows[s].number

LEMMA RowsMarked ==
  ASSUME TypeOK, NEW s \in Sids, HasRow(s), NEW status \in {"releasing", "released"},
         rows' = [rows EXCEPT ![s].status = status]
  PROVE  /\ \A q \in Sids : SameOwner(q)
         /\ rows'[s].status = status
         /\ \A q \in Sids \ {s} : rows'[q] = rows[q]
<1>1. rows[s] \in Row /\ rows'[s] = [rows[s] EXCEPT !.status = status]
  BY DEF TypeOK, OrNone, HasRow
<1>2. rows'[s] \in Row /\ rows'[s].status = status
      /\ rows'[s].user = rows[s].user /\ rows'[s].number = rows[s].number
  BY <1>1 DEF Row
<1>3. \A q \in Sids \ {s} : rows'[q] = rows[q]
  BY DEF TypeOK
<1>4. SameOwner(s)
  BY <1>2, NoneAssumption DEF SameOwner, HasRow
<1>5. \A q \in Sids \ {s} : SameOwner(q)
  BY <1>3 DEF SameOwner, HasRow
<1>6. QED
  BY <1>2, <1>3, <1>4, <1>5

(* A purchase under way stays without a row, a request about a row knows   *)
(* it, and what was given back is not held.                                *)
LEMMA PlacedKept == TypeOK /\ Placed /\ PastReleased /\ [Next]_vars => Placed'
<1> SUFFICES ASSUME TypeOK, Placed, PastReleased, [Next]_vars,
                    NEW q \in Requests
             PROVE  Purchasing(q)' /\ Knows(q)' /\ GivenBack(q)'
  BY DEF Placed
<1>0. /\ Purchasing(q) /\ Knows(q) /\ GivenBack(q)
      /\ ~At(q, "idle") /\ ~At(q, "buy") => work[q].sid \in Sids
  BY DEF Placed, TypeOK, OrNone
<1> USE DEF At, Purchasing, Knows, GivenBack, HasRow
<1>1. ASSUME NEW r \in Requests, NEW u \in Users, NEW n \in Digits, Provision(r, u, n)
      PROVE  Purchasing(q)' /\ Knows(q)' /\ GivenBack(q)'
  BY <1>0, <1>1 DEF Provision, stores, TypeOK
<1>2. ASSUME NEW r \in Requests, Buy(r)
      PROVE  Purchasing(q)' /\ Knows(q)' /\ GivenBack(q)'
  BY <1>0, <1>2, NoneAssumption DEF Buy, Done, Idle, TypeOK, OrNone, Placed
<1>3. ASSUME NEW r \in Requests, Insert(r)
      PROVE  Purchasing(q)' /\ Knows(q)' /\ GivenBack(q)'
  <2> DEFINE s == work[r].sid
  <2>1. /\ s \in Sids /\ rows[s] = None /\ held[s] # None
        /\ q # r /\ (Purchasing(q) \/ Knows(q)) /\ work[q].sid = s
             => work[q].step \notin {"insert", "cache", "release", "update", "forget"}
    BY <1>0, <1>3 DEF Insert, Placed, TypeOK, OrNone
  <2>2. CASE Goto(r, "cache") /\ rows' = [rows EXCEPT ![s] =
                [user |-> work[r].user, status |-> "active", number |-> work[r].number]]
    <3>1. CASE q = r
      <4>1. /\ work'[q].step = "cache" /\ work'[q].sid = s
            /\ work'[q].user = work[r].user /\ work'[q].number = work[r].number
        BY <2>2, <3>1 DEF Goto, TypeOK
      <4>2. rows'[s] = [user |-> work[r].user, status |-> "active",
                        number |-> work[r].number]
        BY <2>1, <2>2 DEF TypeOK
      <4>3. rows'[s] # None
        BY <1>3, <4>2, NoneAssumption DEF Insert, TypeOK, OrNone, Row
      <4>4. QED
        BY <4>1, <4>2, <4>3
    <3>2. CASE q # r
      BY <1>0, <1>3, <2>1, <2>2, <3>2 DEF Insert, Goto, TypeOK, Placed
    <3>3. QED
      BY <3>1, <3>2
  <2>3. CASE Done(r) /\ UNCHANGED rows
    BY <1>0, <1>3, <2>3 DEF Insert, Done, Idle, TypeOK, Placed
  <2>4. QED
    BY <1>3, <2>2, <2>3 DEF Insert
<1>4. ASSUME NEW r \in Requests, SetEntry(r)
      PROVE  Purchasing(q)' /\ Knows(q)' /\ GivenBack(q)'
  BY <1>0, <1>4 DEF SetEntry, Done, Idle, TypeOK
<1>5. ASSUME NEW r \in Requests, NEW s \in Sids, Release(r, s)
      PROVE  Purchasing(q)' /\ Knows(q)' /\ GivenBack(q)'
  BY <1>0, <1>5 DEF Release, IsActive, stores, TypeOK
<1>6. ASSUME NEW r \in Requests, GiveBack(r)
      PROVE  Purchasing(q)' /\ Knows(q)' /\ GivenBack(q)'
  BY <1>0, <1>6 DEF GiveBack, Goto, Done, Idle, TypeOK, OrNone, Placed
<1>7. ASSUME NEW r \in Requests, MarkReleasing(r)
      PROVE  Purchasing(q)' /\ Knows(q)' /\ GivenBack(q)'
  <2>1. work[r].sid \in Sids /\ rows[work[r].sid] # None
    BY <1>7 DEF MarkReleasing, Placed, TypeOK, OrNone
  <2>2. CASE Goto(r, "forget") /\ rows' = [rows EXCEPT ![work[r].sid].status = "releasing"]
    <3>1. \A s \in Sids : SameOwner(s)
      BY <2>1, <2>2, RowsMarked
    <3>2. QED
      BY <1>0, <1>7, <2>2, <3>1 DEF MarkReleasing, Goto, TypeOK, SameOwner, Placed
  <2>3. CASE Done(r) /\ UNCHANGED rows
    BY <1>0, <1>7, <2>3 DEF MarkReleasing, Done, Idle, TypeOK, Placed
  <2>4. QED
    BY <1>7, <2>2, <2>3 DEF MarkReleasing
<1>8. ASSUME NEW r \in Requests, Forget(r)
      PROVE  Purchasing(q)' /\ Knows(q)' /\ GivenBack(q)'
  BY <1>0, <1>8 DEF Forget, Done, Idle, TypeOK
<1>9. ASSUME NEW r \in Requests, NEW n \in Digits, Lookup(r, n)
      PROVE  Purchasing(q)' /\ Knows(q)' /\ GivenBack(q)'
  BY <1>0, <1>9 DEF Lookup, IsActive, stores, TypeOK
<1>10. ASSUME NEW n \in Digits, EntryExpires(n)
       PROVE  Purchasing(q)' /\ Knows(q)' /\ GivenBack(q)'
  BY <1>0, <1>10 DEF EntryExpires
<1>11. ASSUME NEW s \in Sids, WeekPasses(s)
       PROVE  Purchasing(q)' /\ Knows(q)' /\ GivenBack(q)'
  BY <1>0, <1>11 DEF WeekPasses
<1>12. ASSUME GracePeriodJob
       PROVE  Purchasing(q)' /\ Knows(q)' /\ GivenBack(q)'
  <2>1. \A s \in Sids : SameOwner(s)
    <3>1. ASSUME NEW s \in Sids, s \notin past PROVE SameOwner(s)
      BY <1>12, <3>1 DEF GracePeriodJob, SameOwner
    <3>2. ASSUME NEW s \in Sids, s \in past PROVE SameOwner(s)
      <4>1. rows[s] \in Row /\ rows'[s] = [rows[s] EXCEPT !.status = "released"]
        BY <1>12, <3>2 DEF GracePeriodJob, PastReleased, TypeOK, OrNone
      <4>2. QED
        BY <4>1, NoneAssumption DEF Row, SameOwner
    <3>3. QED
      BY <3>1, <3>2
  <2>2. \A s \in Sids : s \notin past => held'[s] = held[s]
    BY <1>12 DEF GracePeriodJob
  <2>3. \A s \in past : held'[s] = None /\ rows[s] # None
    BY <1>12 DEF GracePeriodJob, PastReleased, TypeOK
  <2>4. QED
    BY <1>0, <1>12, <2>1, <2>2, <2>3 DEF GracePeriodJob, SameOwner, TypeOK, Placed
<1>13. CASE UNCHANGED vars
  BY <1>0, <1>13 DEF vars, stores
<1>14. QED
  BY <1>1, <1>2, <1>3, <1>4, <1>5, <1>6, <1>7, <1>8, <1>9, <1>10, <1>11, <1>12, <1>13
     DEF Next, Step

(* What the daily job will end is released and stays so.                   *)
LEMMA PastKept == TypeOK /\ Placed /\ PastReleased /\ [Next]_vars => PastReleased'
<1> SUFFICES ASSUME TypeOK, Placed, PastReleased, [Next]_vars PROVE PastReleased'
  OBVIOUS
<1> USE DEF PastReleased, HasRow
<1>1. ASSUME NEW r \in Requests, NEW u \in Users, NEW n \in Digits, Provision(r, u, n)
      PROVE  PastReleased'
  BY <1>1 DEF Provision, stores
<1>2. ASSUME NEW r \in Requests, Buy(r)
      PROVE  PastReleased'
  BY <1>2 DEF Buy
<1>3. ASSUME NEW r \in Requests, Insert(r)
      PROVE  PastReleased'
  <2>1. work[r].sid \in Sids \ past
    BY <1>3 DEF Insert, Placed, Purchasing, At, TypeOK, OrNone
  <2>2. QED
    BY <1>3, <2>1 DEF Insert, TypeOK
<1>4. ASSUME NEW r \in Requests, SetEntry(r)
      PROVE  PastReleased'
  BY <1>4 DEF SetEntry
<1>5. ASSUME NEW r \in Requests, NEW s \in Sids, Release(r, s)
      PROVE  PastReleased'
  BY <1>5 DEF Release, stores
<1>6. ASSUME NEW r \in Requests, GiveBack(r)
      PROVE  PastReleased'
  BY <1>6 DEF GiveBack
<1>7. ASSUME NEW r \in Requests, MarkReleasing(r)
      PROVE  PastReleased'
  <2>1. work[r].sid \in Sids /\ HasRow(work[r].sid)
    BY <1>7 DEF MarkReleasing, Placed, Knows, At, TypeOK, OrNone
  <2>2. CASE rows' = [rows EXCEPT ![work[r].sid].status = "releasing"]
    <3>1. rows'[work[r].sid].status = "releasing" /\ rows'[work[r].sid] # None
      BY <2>1, <2>2, RowsMarked DEF SameOwner
    <3>2. \A s \in Sids \ {work[r].sid} : rows'[s] = rows[s]
      BY <2>1, <2>2, RowsMarked
    <3>3. past' = past /\ past \subseteq Sids
      BY <1>7 DEF MarkReleasing, TypeOK
    <3>4. QED
      BY <3>1, <3>2, <3>3
  <2>3. CASE UNCHANGED rows
    BY <1>7, <2>3 DEF MarkReleasing
  <2>4. QED
    BY <1>7, <2>2, <2>3 DEF MarkReleasing
<1>8. ASSUME NEW r \in Requests, Forget(r)
      PROVE  PastReleased'
  BY <1>8 DEF Forget
<1>9. ASSUME NEW r \in Requests, NEW n \in Digits, Lookup(r, n)
      PROVE  PastReleased'
  BY <1>9 DEF Lookup, stores
<1>10. ASSUME NEW n \in Digits, EntryExpires(n)
       PROVE  PastReleased'
  BY <1>10 DEF EntryExpires
<1>11. ASSUME NEW s \in Sids, WeekPasses(s)
       PROVE  PastReleased'
  BY <1>11 DEF WeekPasses
<1>12. ASSUME GracePeriodJob
       PROVE  PastReleased'
  BY <1>12 DEF GracePeriodJob
<1>13. CASE UNCHANGED vars
  BY <1>13 DEF vars, stores
<1>14. QED
  BY <1>1, <1>2, <1>3, <1>4, <1>5, <1>6, <1>7, <1>8, <1>9, <1>10, <1>11, <1>12, <1>13
     DEF Next, Step

(* Inventory and rows go together: a purchase changes one of them while a  *)
(* request about it is under way, and a call that fails leaves one purchase*)
(* behind.                                                                 *)
Differ(s) == Quiet(s) /\ (held[s] # None) # IsActive(s)

OneMore == \E p \in Sids : faults' = faults + 1 /\ \A s \in Sids \ {p} : Differ(s)' => Differ(s)
NoMore == faults' >= faults /\ \A s \in Sids : Differ(s)' => Differ(s)

LEMMA MismatchStep ==
  TypeOK /\ Placed /\ PastReleased /\ [Next]_vars => OneMore \/ NoMore
<1> SUFFICES ASSUME TypeOK, Placed, PastReleased, [Next]_vars PROVE OneMore \/ NoMore
  OBVIOUS
<1>0. faults \in Nat /\ (faults' = faults + 1 => faults' >= faults)
  BY LimitAssumption DEF TypeOK
<1> USE NoneAssumption DEF Differ, Quiet, IsActive, HasRow, At
<1>1. ASSUME NEW r \in Requests, NEW u \in Users, NEW n \in Digits, Provision(r, u, n)
      PROVE  NoMore
  BY <1>0, <1>1 DEF NoMore, Provision, stores, history, TypeOK
<1>2. ASSUME NEW r \in Requests, Buy(r) PROVE OneMore \/ NoMore
  <2>1. CASE Done(r) /\ UNCHANGED <<held, history>>
    BY <1>0, <1>2, <2>1 DEF NoMore, Buy, Done, Idle, history, TypeOK
  <2>2. CASE \E s \in Sids :
               /\ held[s] = None /\ ~HasRow(s)
               /\ held' = [held EXCEPT ![s] = work[r].number]
               /\ \/ /\ work' = [work EXCEPT ![r] =
                                [step |-> "insert", user |-> work[r].user,
                                 number |-> work[r].number, sid |-> s]]
                     /\ UNCHANGED history
                  \/ FailedCall /\ Done(r)
    <3>1. PICK p \in Sids :
               /\ held[p] = None /\ ~HasRow(p)
               /\ held' = [held EXCEPT ![p] = work[r].number]
               /\ \/ /\ work' = [work EXCEPT ![r] =
                                [step |-> "insert", user |-> work[r].user,
                                 number |-> work[r].number, sid |-> p]]
                     /\ UNCHANGED history
                  \/ FailedCall /\ Done(r)
      BY <2>2
    <3>2. CASE UNCHANGED history /\ work' = [work EXCEPT ![r] =
                                [step |-> "insert", user |-> work[r].user,
                                 number |-> work[r].number, sid |-> p]]
      BY <1>0, <1>2, <3>1, <3>2 DEF NoMore, Buy, history, TypeOK
    <3>3. CASE FailedCall /\ Done(r)
      BY <1>2, <3>1, <3>3 DEF OneMore, Buy, Done, Idle, FailedCall, Fault, TypeOK
    <3>4. QED
      BY <3>1, <3>2, <3>3
  <2>3. QED
    BY <1>2, <2>1, <2>2 DEF Buy
<1>3. ASSUME NEW r \in Requests, Insert(r) PROVE OneMore \/ NoMore
  <2>1. work[r].sid \in Sids /\ held[work[r].sid] # None
    BY <1>3 DEF Insert, Placed, Purchasing, TypeOK, OrNone
  <2>2. \A s \in Sids \ {work[r].sid} : Differ(s)' => Differ(s)
    BY <1>3 DEF Insert, Goto, Done, Idle, TypeOK
  <2>3. CASE FailedCall
    BY <2>1, <2>2, <2>3 DEF OneMore, FailedCall, Fault
  <2>4. CASE UNCHANGED history /\ rows' = [rows EXCEPT ![work[r].sid] =
               [user |-> work[r].user, status |-> "active", number |-> work[r].number]]
    <3>1. rows'[work[r].sid].status = "active" /\ rows'[work[r].sid] \in Row
      BY <1>3, <2>1, <2>4 DEF Insert, TypeOK, OrNone, Row
    <3>2. PICK p \in Sids : p = work[r].sid
      BY <2>1
    <3>3. ~Differ(p)'
      BY <1>3, <2>1, <3>1, <3>2 DEF Insert
    <3>4. QED
      BY <1>0, <2>2, <2>4, <3>2, <3>3 DEF NoMore, history
  <2>5. QED
    BY <1>3, <2>3, <2>4 DEF Insert
<1>4. ASSUME NEW r \in Requests, SetEntry(r) PROVE NoMore
  BY <1>0, <1>4 DEF NoMore, SetEntry, Done, Idle, Fault, TypeOK
<1>5. ASSUME NEW r \in Requests, NEW p \in Sids, Release(r, p) PROVE NoMore
  BY <1>0, <1>5 DEF NoMore, Release, stores, history, TypeOK
<1>6. ASSUME NEW r \in Requests, GiveBack(r) PROVE OneMore \/ NoMore
  <2>1. work[r].sid \in Sids
    BY <1>6 DEF GiveBack, TypeOK, OrNone
  <2>2. \A s \in Sids \ {work[r].sid} : Differ(s)' => Differ(s)
    BY <1>6 DEF GiveBack, Goto, Done, Idle, TypeOK
  <2>3. CASE FailedCall
    BY <2>1, <2>2, <2>3 DEF OneMore, FailedCall, Fault
  <2>4. CASE held[work[r].sid] = None /\ Done(r) /\ UNCHANGED history
    BY <1>0, <1>6, <2>1, <2>2, <2>4 DEF NoMore, GiveBack, Done, Idle, history, TypeOK
  <2>5. CASE Goto(r, "update") /\ UNCHANGED history
    BY <1>0, <1>6, <2>1, <2>2, <2>5 DEF NoMore, GiveBack, Goto, history, TypeOK
  <2>6. QED
    BY <1>6, <2>3, <2>4, <2>5 DEF GiveBack
<1>7. ASSUME NEW r \in Requests, MarkReleasing(r) PROVE OneMore \/ NoMore
  <2>1. work[r].sid \in Sids /\ held[work[r].sid] = None /\ rows[work[r].sid] # None
    BY <1>7 DEF MarkReleasing, Placed, Knows, GivenBack, TypeOK, OrNone
  <2>2. \A s \in Sids \ {work[r].sid} : Differ(s)' => Differ(s)
    BY <1>7 DEF MarkReleasing, Goto, Done, Idle, TypeOK
  <2>3. CASE FailedCall
    BY <2>1, <2>2, <2>3 DEF OneMore, FailedCall, Fault
  <2>4. CASE UNCHANGED history /\ rows' = [rows EXCEPT ![work[r].sid].status = "releasing"]
    <3>1. rows'[work[r].sid].status = "releasing"
      BY <2>1, <2>4, RowsMarked
    <3>2. PICK p \in Sids : p = work[r].sid
      BY <2>1
    <3>3. ~Differ(p)'
      BY <1>7, <2>1, <3>1, <3>2 DEF MarkReleasing
    <3>4. QED
      BY <1>0, <2>2, <2>4, <3>2, <3>3 DEF NoMore, history
  <2>5. QED
    BY <1>7, <2>3, <2>4 DEF MarkReleasing
<1>8. ASSUME NEW r \in Requests, Forget(r) PROVE NoMore
  BY <1>0, <1>8 DEF NoMore, Forget, Done, Idle, Fault, TypeOK
<1>9. ASSUME NEW r \in Requests, NEW n \in Digits, Lookup(r, n) PROVE NoMore
  BY <1>0, <1>9 DEF NoMore, Lookup, stores, history, TypeOK
<1>10. ASSUME NEW n \in Digits, EntryExpires(n) PROVE NoMore
  BY <1>0, <1>10 DEF NoMore, EntryExpires
<1>11. ASSUME NEW p \in Sids, WeekPasses(p) PROVE NoMore
  BY <1>0, <1>11 DEF NoMore, WeekPasses, history
<1>12. ASSUME GracePeriodJob PROVE NoMore
  BY <1>0, <1>12 DEF NoMore, GracePeriodJob, PastReleased, history, TypeOK
<1>13. CASE UNCHANGED vars
  BY <1>0, <1>13 DEF NoMore, vars, stores, history
<1>14. QED
  BY <1>1, <1>2, <1>3, <1>4, <1>5, <1>6, <1>7, <1>8, <1>9, <1>10, <1>11, <1>12, <1>13
     DEF Next, Step

(* The bound follows the steps: a set grows by one element at most when a  *)
(* call fails, and not otherwise.                                          *)
LEMMA InventoryKept ==
  ASSUME TypeOK, Placed, PastReleased, IsFiniteSet(Mismatched), InventoryAgrees, [Next]_vars
  PROVE  IsFiniteSet(Mismatched)' /\ InventoryAgrees'
<1>1. Mismatched = {s \in Sids : Differ(s)} /\ Mismatched' = {s \in Sids : Differ(s)'}
  BY DEF Mismatched, Differ
<1>2. faults \in Nat /\ Cardinality(Mismatched) \in Nat /\ Cardinality(Mismatched) <= faults
  BY FS_CardinalityType, LimitAssumption DEF InventoryAgrees, TypeOK
<1>3. CASE NoMore
  <2>1. Mismatched' \subseteq Mismatched
    BY <1>1, <1>3 DEF NoMore
  <2>2. IsFiniteSet(Mismatched') /\ Cardinality(Mismatched') <= Cardinality(Mismatched)
    BY <2>1, FS_Subset
  <2>3. faults' \in Nat /\ Cardinality(Mismatched') \in Nat
    BY <2>2, FS_CardinalityType, TypeKept, LimitAssumption DEF TypeOK
  <2>4. QED
    BY <1>2, <1>3, <2>2, <2>3 DEF NoMore, InventoryAgrees
<1>4. CASE OneMore
  <2>1. PICK p \in Sids : faults' = faults + 1 /\ \A s \in Sids \ {p} : Differ(s)' => Differ(s)
    BY <1>4 DEF OneMore
  <2>2. Mismatched' \subseteq Mismatched \cup {p}
    BY <1>1, <2>1
  <2>3. /\ IsFiniteSet(Mismatched \cup {p})
        /\ Cardinality(Mismatched \cup {p}) <= Cardinality(Mismatched) + 1
    BY <1>2, FS_AddElement
  <2>4. IsFiniteSet(Mismatched') /\ Cardinality(Mismatched') <= Cardinality(Mismatched \cup {p})
    BY <2>2, <2>3, FS_Subset
  <2>5. Cardinality(Mismatched') \in Nat /\ Cardinality(Mismatched \cup {p}) \in Nat
    BY <2>3, <2>4, FS_CardinalityType
  <2>6. QED
    BY <1>2, <2>1, <2>3, <2>4, <2>5 DEF InventoryAgrees
<1>5. QED
  BY <1>3, <1>4, MismatchStep

(* An entry in Redis has an active row behind it, or a request on its way  *)
(* to remove it.                                                           *)
Routed(n) ==
  \/ \E s \in Sids : IsActive(s) /\ rows[s].number = n /\ rows[s].user = cache[n]
  \/ \E r \in Requests : At(r, "forget") /\ work[r].number = n

LEMMA RoutedKept ==
  TypeOK /\ Placed /\ PastReleased /\ RoutedToOwner /\ [Next]_vars => RoutedToOwner'
<1> SUFFICES ASSUME TypeOK, Placed, PastReleased, RoutedToOwner, [Next]_vars,
                    NEW n \in Digits, n \notin stale', cache'[n] # None
             PROVE  Routed(n)'
  BY DEF RoutedToOwner, Routed
<1>0. n \notin stale /\ cache[n] # None => Routed(n)
  BY DEF RoutedToOwner, Routed
<1> USE NoneAssumption DEF Routed, IsActive, HasRow, At
<1>1. ASSUME NEW r \in Requests, NEW u \in Users, NEW m \in Digits, Provision(r, u, m)
      PROVE  Routed(n)'
  BY <1>0, <1>1 DEF Provision, stores, history, TypeOK
<1>2. ASSUME NEW r \in Requests, Buy(r)
      PROVE  Routed(n)'
  BY <1>0, <1>2 DEF Buy, Done, Idle, FailedCall, history, TypeOK
<1>3. ASSUME NEW r \in Requests, Insert(r)
      PROVE  Routed(n)'
  <2>1. work[r].sid \in Sids /\ rows[work[r].sid] = None
    BY <1>3 DEF Insert, Placed, Purchasing, TypeOK, OrNone
  <2>2. \A p \in Sids : rows[p] # None => rows'[p] = rows[p]
    BY <1>3, <2>1 DEF Insert, TypeOK
  <2>3. \A q \in Requests : At(q, "forget") => work'[q] = work[q]
    BY <1>3 DEF Insert, Goto, Done, TypeOK
  <2>4. cache[n] # None /\ n \notin stale
    BY <1>3 DEF Insert, FailedCall, history
  <2>5. QED
    BY <1>0, <1>3, <2>2, <2>3, <2>4 DEF Insert
<1>4. ASSUME NEW r \in Requests, SetEntry(r)
      PROVE  Routed(n)'
  <2>1. \A q \in Requests : At(q, "forget") => work'[q] = work[q]
    BY <1>4 DEF SetEntry, Done, TypeOK
  <2>2. CASE cache'[n] = cache[n]
    BY <1>0, <1>4, <2>1, <2>2 DEF SetEntry
  <2>3. CASE cache'[n] # cache[n]
    <3>1. n = work[r].number /\ cache'[n] = work[r].user /\ IsActive(work[r].sid)
      BY <1>4, <2>3 DEF SetEntry, TypeOK
    <3>2. work[r].sid \in Sids /\ rows[work[r].sid].user = work[r].user
          /\ rows[work[r].sid].number = work[r].number
      BY <1>4 DEF SetEntry, Placed, Knows, TypeOK, OrNone
    <3>3. QED
      BY <1>4, <3>1, <3>2 DEF SetEntry
  <2>4. QED
    BY <2>2, <2>3
<1>5. ASSUME NEW r \in Requests, NEW p \in Sids, Release(r, p)
      PROVE  Routed(n)'
  BY <1>0, <1>5 DEF Release, stores, history, TypeOK
<1>6. ASSUME NEW r \in Requests, GiveBack(r)
      PROVE  Routed(n)'
  BY <1>0, <1>6 DEF GiveBack, Goto, Done, Idle, FailedCall, history, TypeOK
<1>7. ASSUME NEW r \in Requests, MarkReleasing(r)
      PROVE  Routed(n)'
  <2>1. work[r].sid \in Sids /\ HasRow(work[r].sid)
        /\ rows[work[r].sid].number = work[r].number
    BY <1>7 DEF MarkReleasing, Placed, Knows, TypeOK, OrNone
  <2>2. cache[n] # None /\ cache'[n] = cache[n] /\ n \notin stale
    BY <1>7 DEF MarkReleasing, FailedCall, history
  <2>3. \A q \in Requests : At(q, "forget") => work'[q] = work[q]
    BY <1>7 DEF MarkReleasing, Goto, Done, TypeOK
  <2>4. \A p \in Sids : p # work[r].sid => rows'[p] = rows[p]
    BY <1>7 DEF MarkReleasing, TypeOK
  <2>5. CASE UNCHANGED rows
    BY <1>0, <2>2, <2>3, <2>5
  <2>6. CASE At(r, "forget")' /\ work'[r].number = work[r].number
    BY <1>0, <2>1, <2>2, <2>3, <2>4, <2>6
  <2>7. QED
    BY <1>7, <2>5, <2>6 DEF MarkReleasing, Goto, TypeOK
<1>8. ASSUME NEW r \in Requests, Forget(r)
      PROVE  Routed(n)'
  <2>1. rows' = rows /\ n \notin stale /\ cache'[n] = cache[n] /\ n # work[r].number
    BY <1>8 DEF Forget, TypeOK
  <2>2. \A q \in Requests : q # r => work'[q] = work[q]
    BY <1>8 DEF Forget, Done, TypeOK
  <2>3. QED
    BY <1>0, <2>1, <2>2
<1>9. ASSUME NEW r \in Requests, NEW m \in Digits, Lookup(r, m)
      PROVE  Routed(n)'
  BY <1>0, <1>9 DEF Lookup, stores, history, TypeOK
<1>10. ASSUME NEW m \in Digits, EntryExpires(m)
       PROVE  Routed(n)'
  BY <1>0, <1>10 DEF EntryExpires, TypeOK
<1>11. ASSUME NEW p \in Sids, WeekPasses(p)
       PROVE  Routed(n)'
  BY <1>0, <1>11 DEF WeekPasses, history
<1>12. ASSUME GracePeriodJob
       PROVE  Routed(n)'
  <2>1. \A p \in Sids : IsActive(p) => rows'[p] = rows[p]
    BY <1>12 DEF GracePeriodJob, PastReleased
  <2>2. QED
    BY <1>0, <1>12, <2>1 DEF GracePeriodJob, history
<1>13. CASE UNCHANGED vars
  BY <1>0, <1>13 DEF vars, stores, history
<1>14. QED
  BY <1>1, <1>2, <1>3, <1>4, <1>5, <1>6, <1>7, <1>8, <1>9, <1>10, <1>11, <1>12, <1>13
     DEF Next, Step

LEMMA Invariance == Spec => []IInv
<1>1. Init => IInv
  BY InitIInv
<1>2. IInv /\ [Next]_vars => IInv'
  BY TypeKept, PlacedKept, PastKept, InventoryKept, RoutedKept DEF IInv
<1>3. QED
  BY <1>1, <1>2, PTL DEF Spec

(* Every variable keeps its type, and a request in the middle of a         *)
(* purchase or a release knows whose it is and which (numbers.service.ts). *)
THEOREM TypeCorrect == Spec => []TypeOK
<1>1. IInv => TypeOK
  BY DEF IInv
<1>2. QED
  BY <1>1, Invariance, PTL

(* The purchases that the provider and the active rows disagree about, and *)
(* that no request is working on, are no more than the calls that failed   *)
(* (numbers.service.ts:79, :127), however many requests run beside each    *)
(* other and the daily job.                                                *)
THEOREM InventoryHolds == Spec => []InventoryAgrees
<1>1. IInv => InventoryAgrees
  BY DEF IInv
<1>2. QED
  BY <1>1, Invariance, PTL

(* A call or a text to a number finds its owner or nobody, but for entries *)
(* written late or not deleted (numbers.service.ts:139, :157).             *)
THEOREM RoutedHolds == Spec => []RoutedToOwner
<1>1. IInv => RoutedToOwner
  BY DEF IInv
<1>2. QED
  BY <1>1, Invariance, PTL
=============================================================================
