------------------------- MODULE CampaignSyncProofs -------------------------
(***************************************************************************)
(* The invariants of CampaignSync, for files of any length, any number of  *)
(* campaigns, requests and reports on their way.                           *)
(***************************************************************************)
EXTENDS CampaignSync, FiniteSetTheorems, TLAPS

(* What a write to the columns of rows keeps.                              *)
RowsKept ==
  /\ row' \in [Ids -> Row \cup {None}]
  /\ \A j \in Ids : /\ row'[j] = None <=> row[j] = None
                    /\ row[j] # None => row'[j].total = row[j].total

LEMMA StatusSet ==
  ASSUME TypeOK, NEW i \in Ids, row[i] # None, NEW s \in CampaignStatus, SetStatus(i, s)
  PROVE  /\ RowsKept /\ row'[i].status = s /\ row'[i].dialed = row[i].dialed
         /\ \A j \in Ids \ {i} : row'[j] = row[j]
<1>. DEFINE new == [row[i] EXCEPT !.status = s]
<1>1. row \in [Ids -> Row \cup {None}] /\ row[i] \in Row
  BY DEF TypeOK
<1>2. new \in Row /\ new.total = row[i].total /\ new.dialed = row[i].dialed /\ new.status = s
  BY <1>1 DEF Row
<1>3. new # None
  BY <1>2, NoneAssumption
<1>4. row' = [row EXCEPT ![i] = new]
  BY DEF SetStatus
<1>. HIDE DEF new
<1>. QED  BY <1>1, <1>2, <1>3, <1>4 DEF RowsKept

LEMMA DialedSet ==
  ASSUME TypeOK, NEW i \in Ids, row[i] # None, NEW n \in Nat,
         row' = [row EXCEPT ![i].dialed = n]
  PROVE  /\ RowsKept /\ row'[i].dialed = n /\ row'[i].status = row[i].status
         /\ \A j \in Ids \ {i} : row'[j] = row[j]
<1>. DEFINE new == [row[i] EXCEPT !.dialed = n]
<1>1. row \in [Ids -> Row \cup {None}] /\ row[i] \in Row
  BY DEF TypeOK
<1>2. new \in Row /\ new.total = row[i].total /\ new.dialed = n /\ new.status = row[i].status
  BY <1>1 DEF Row
<1>3. new # None
  BY <1>2, NoneAssumption
<1>4. row' = [row EXCEPT ![i] = new]
  OBVIOUS
<1>. HIDE DEF new
<1>. QED  BY <1>1, <1>2, <1>3, <1>4 DEF RowsKept

LEMMA Counted ==
  ASSUME NEW S \in SUBSET Contacts
  PROVE  Cardinality(S) \in 0..Cardinality(Contacts)
BY FileAssumption, FS_Subset, FS_CardinalityType

LEMMA LossCounts ==
  ASSUME TypeOK, Loss PROVE lost' \in 0..MaxLost /\ lost' # 0
BY BoundsAssumption DEF TypeOK, Loss

LEMMA RequestOver ==
  ASSUME TypeOK, NEW r \in Requests, Over(r)
  PROVE  /\ req' \in [Requests -> Request \cup {None}]
         /\ req'[r] = None /\ \A t \in Requests \ {r} : req'[t] = req[t]
BY DEF TypeOK, Over

LEMMA RequestIs ==
  ASSUME TypeOK, NEW r \in Requests, req[r] # None
  PROVE  /\ req[r] \in Request /\ req[r].id \in Ids /\ req[r].rows \in SUBSET Contacts
BY DEF TypeOK, Request

LEMMA PoolIs ==
  ASSUME TypeOK, NEW i \in Ids, pool[i] # None
  PROVE  pool[i] \in Pool
BY DEF TypeOK

LEMMA ReportIs ==
  ASSUME TypeOK, NEW m \in reports
  PROVE  m \in Report /\ m.id \in Ids /\ m.dialed \in Nat
BY DEF TypeOK, Report
-----------------------------------------------------------------------------
(* The dials of a pool as a finite set: no two have the same contact and   *)
(* number, those with a number above one are the retries, and there is one *)
(* with the number one for every contact that was dialed.                  *)
LEMMA Finite ==
  ASSUME NEW p \in Pool
  PROVE  /\ IsFiniteSet(p.list) /\ Cardinality(p.list) \in Nat
         /\ IsFiniteSet(Undialed(p)) /\ Cardinality(Undialed(p)) \in Nat
         /\ IsFiniteSet(Placed(p)) /\ Cardinality(Placed(p)) \in Nat
         /\ IsFiniteSet(Repeats(p)) /\ Cardinality(Repeats(p)) \in Nat
<1>1. p.list \in SUBSET Contacts /\ RetryMax + 1 \in Int
  BY BoundsAssumption DEF Pool
<1>2. IsFiniteSet(p.list)
  BY <1>1, FileAssumption, FS_Subset
<1>3. IsFiniteSet(p.list \X (1..RetryMax + 1)) /\ IsFiniteSet(p.list \X (2..RetryMax + 1))
  <2>1. IsFiniteSet(1..RetryMax + 1) /\ IsFiniteSet(2..RetryMax + 1)
    BY <1>1, FS_Interval
  <2>2. \A S : IsFiniteSet(S) => IsFiniteSet(p.list \X S)
    BY <1>2, FS_Product
  <2>. QED  BY <2>1, <2>2
<1>4. IsFiniteSet(Undialed(p))
  <2>1. Undialed(p) \in SUBSET p.list
    BY DEF Undialed
  <2>. QED  BY <1>2, <2>1, FS_Subset
<1>5. IsFiniteSet(Placed(p)) /\ IsFiniteSet(Repeats(p))
  <2>1. /\ Placed(p) \in SUBSET (p.list \X (1..RetryMax + 1))
        /\ Repeats(p) \in SUBSET (p.list \X (2..RetryMax + 1))
    BY DEF Placed, Repeats
  <2>. HIDE DEF Placed, Repeats
  <2>. QED  BY <1>3, <2>1, FS_Subset
<1>. QED  BY <1>2, <1>4, <1>5, FS_CardinalityType

(* A pool that was dialed as often as it has contacts has no more contacts *)
(* undialed than retries made.                                             *)
LEMMA DialsReach ==
  ASSUME NEW p \in Pool, Cardinality(Placed(p)) >= Cardinality(p.list)
  PROVE  Reaches(p)
<1>. DEFINE D == p.list \ Undialed(p)
            F == {d \in Placed(p) : d[2] = 1}
            f == [c \in D |-> <<c, 1>>]
<1>1. p.tries \in [Contacts -> 0..RetryMax + 1] /\ p.list \in SUBSET Contacts /\ RetryMax \in Nat
  BY BoundsAssumption DEF Pool
<1>2. f \in Bijection(D, F)
  <2>1. \A c \in D : f[c] \in F
    BY <1>1 DEF Undialed, Placed
  <2>2. \A d \in F : d[1] \in D /\ d = f[d[1]]
    BY <1>1 DEF Undialed, Placed
  <2>. QED  BY <2>1, <2>2 DEF Bijection, Injection, Surjection, IsInjective
<1>3. IsFiniteSet(D) /\ Cardinality(D) = Cardinality(p.list) - Cardinality(Undialed(p))
  <2>1. p.list \cap Undialed(p) = Undialed(p)
    BY DEF Undialed
  <2>2. IsFiniteSet(p.list)
    BY Finite
  <2>3. /\ IsFiniteSet(p.list \ Undialed(p))
        /\ Cardinality(p.list \ Undialed(p))
             = Cardinality(p.list) - Cardinality(p.list \cap Undialed(p))
    BY <2>2, FS_Difference
  <2>. QED  BY <2>1, <2>3
<1>4. IsFiniteSet(F) /\ Cardinality(F) = Cardinality(D)
  BY <1>2, <1>3, FS_Bijection DEF ExistsBijection
<1>5. Placed(p) = F \cup Repeats(p) /\ F \cap Repeats(p) = {}
  BY <1>1 DEF Placed, Repeats
<1>6. Cardinality(Placed(p)) = Cardinality(F) + Cardinality(Repeats(p))
  <2>1. Cardinality(F \cap Repeats(p)) = 0
    BY <1>5, FS_EmptySet
  <2>2. Cardinality(F \cup Repeats(p))
          = Cardinality(F) + Cardinality(Repeats(p)) - Cardinality(F \cap Repeats(p))
    BY <1>4, Finite, FS_Union
  <2>3. Cardinality(F) \in Nat /\ Cardinality(Repeats(p)) \in Nat
    BY <1>4, Finite, FS_CardinalityType
  <2>. HIDE DEF F
  <2>. QED  BY <1>5, <2>1, <2>2, <2>3
<1>. HIDE DEF D, F, f
<1>. QED  BY <1>3, <1>4, <1>6, Finite, FS_CardinalityType DEF Reaches

(* The longer a pool dials, the fewer are undialed and the more retries.   *)
LEMMA ReachesOn ==
  ASSUME NEW p \in Pool, NEW q \in Pool, q.list = p.list,
         \A c \in p.list : q.tries[c] >= p.tries[c], Reaches(p)
  PROVE  Reaches(q)
<1>1. p.tries \in [Contacts -> 0..RetryMax + 1] /\ q.tries \in [Contacts -> 0..RetryMax + 1]
      /\ p.list \in SUBSET Contacts /\ RetryMax \in Nat
  BY BoundsAssumption DEF Pool
<1>2. Undialed(q) \subseteq Undialed(p)
  <2>. SUFFICES ASSUME NEW c \in p.list, q.tries[c] = 0 PROVE p.tries[c] = 0
    BY DEF Undialed
  <2>. QED  BY <1>1
<1>3. Repeats(p) \subseteq Repeats(q)
  <2>. SUFFICES ASSUME NEW c \in p.list, NEW n \in 2..RetryMax + 1, n <= p.tries[c]
                PROVE  n <= q.tries[c]
    BY DEF Repeats
  <2>. QED  BY <1>1
<1>4. /\ Cardinality(Undialed(q)) <= Cardinality(Undialed(p))
      /\ Cardinality(Repeats(p)) <= Cardinality(Repeats(q))
  BY <1>2, <1>3, Finite, FS_Subset
<1>. QED  BY <1>4, Finite DEF Reaches

(* A pool whose dials and contacts are as before is as sound as before.    *)
LEMMA SameDials ==
  ASSUME NEW p \in Pool, NEW q \in Pool, q.list = p.list, q.tries = p.tries
  PROVE  /\ Undialed(q) = Undialed(p) /\ Repeats(q) = Repeats(p) /\ Placed(q) = Placed(p)
         /\ Reaches(q) <=> Reaches(p)
BY DEF Undialed, Repeats, Placed, Reaches
-----------------------------------------------------------------------------
(* Steps that touch neither rows nor pools nor reports.                    *)
LEMMA Aside ==
  ASSUME IInv, UNCHANGED <<row, contacts, pool, reports, lost>>,
         dnc' \subseteq Contacts, req' \in [Requests -> Request \cup {None}],
         \A r \in Requests : req'[r] # None =>
           /\ row[req'[r].id] # None
           /\ req'[r].kind = "create" => row[req'[r].id].total = Cardinality(req'[r].rows)
  PROVE  IInv'
<1>1. TypeOK'
  BY DEF IInv, TypeOK
<1>2. Based'
  BY DEF IInv, Based
<1>3. PoolsSound' /\ ReportsHeld' /\ Settling' /\ TotalIsContacts' /\ NotCompletedEarly'
  BY DEF IInv, PoolsSound, ReportsHeld, Settling, Settled, TotalIsContacts, NotCompletedEarly
<1>. QED  BY <1>1, <1>2, <1>3 DEF IInv

LEMMA BlockStep ==
  ASSUME IInv, NEW c \in Contacts, Block(c) \/ Unblock(c) PROVE IInv'
<1>1. dnc' \subseteq Contacts /\ UNCHANGED <<row, contacts, pool, reports, req, lost>>
  BY DEF IInv, TypeOK, Block, Unblock
<1>. QED  BY <1>1, Aside DEF IInv, TypeOK, Based

LEMMA ClickStep ==
  ASSUME IInv, NEW r \in Requests, NEW i \in Ids,
         NEW k \in {"start", "pause", "resume", "stop"}, Click(r, i, k)
  PROVE  IInv'
<1>. DEFINE new == [kind |-> k, id |-> i, rows |-> {}]
<1>1. new \in Request /\ new.id = i /\ new.kind # "create"
  BY DEF Request
<1>2. req' = [req EXCEPT ![r] = new] /\ row[i] # None
      /\ UNCHANGED <<dnc, row, contacts, pool, reports, lost>>
  BY DEF Click
<1>. HIDE DEF new
<1>3. req' \in [Requests -> Request \cup {None}] /\ req'[r] = new
      /\ \A t \in Requests \ {r} : req'[t] = req[t]
  BY <1>1, <1>2 DEF IInv, TypeOK
<1>4. \A t \in Requests : req'[t] # None =>
        /\ row[req'[t].id] # None
        /\ req'[t].kind = "create" => row[req'[t].id].total = Cardinality(req'[t].rows)
  BY <1>1, <1>2, <1>3 DEF IInv, Based
<1>. QED  BY <1>2, <1>3, <1>4, Aside DEF IInv, TypeOK

LEMMA RefusedStep ==
  ASSUME IInv, NEW r \in Requests, Refused(r) PROVE IInv'
<1>1. TypeOK /\ Based
  BY DEF IInv
<1>2. UNCHANGED <<dnc, row, contacts, pool, reports, lost>>
      /\ req' \in [Requests -> Request \cup {None}]
      /\ req'[r] = None /\ \A t \in Requests \ {r} : req'[t] = req[t]
  BY <1>1, RequestOver DEF Refused
<1>3. \A t \in Requests : req'[t] # None =>
        /\ row[req'[t].id] # None
        /\ req'[t].kind = "create" => row[req'[t].id].total = Cardinality(req'[t].rows)
  BY <1>1, <1>2 DEF Based
<1>. QED  BY <1>1, <1>2, <1>3, Aside DEF TypeOK

(* A file is uploaded.                                                     *)
LEMMA CreateStep ==
  ASSUME IInv, NEW r \in Requests, NEW i \in Ids, NEW f \in File, Create(r, i, f)
  PROVE  IInv'
<1>. DEFINE draft == [status |-> "draft", dialed |-> 0, total |-> Validate(f)]
            new == [kind |-> "create", id |-> i, rows |-> ContactsOf(f)]
<1>1. TypeOK /\ Based /\ PoolsSound /\ ReportsHeld /\ Settling /\ TotalIsContacts
      /\ NotCompletedEarly
  BY DEF IInv
<1>2. row[i] = None /\ pool[i] = None /\ contacts[i] = {}
  BY <1>1 DEF Create, Unused, Based
<1>3. Validate(f) = Cardinality(ContactsOf(f)) /\ ContactsOf(f) \in SUBSET Contacts
  <2>1. f.header # "other"
    BY DEF Create, Validate
  <2>2. {c \in Contacts : InFormat(f, c)} \ dnc = ContactsOf(f)
    BY DEF ContactsOf
  <2>. QED  BY <2>1, <2>2 DEF Validate
<1>4. draft \in Row /\ draft.total = Cardinality(ContactsOf(f)) /\ draft.status = "draft"
      /\ draft.dialed = 0
  BY <1>3, Counted DEF Row, CampaignStatus
<1>5. new \in Request /\ new.id = i /\ new.rows = ContactsOf(f)
  BY <1>3 DEF Request
<1>6. row' = [row EXCEPT ![i] = draft] /\ req' = [req EXCEPT ![r] = new]
      /\ UNCHANGED <<dnc, contacts, pool, reports, lost>>
  BY DEF Create
<1>. HIDE DEF draft, new
<1>7. draft # None
  BY <1>4, NoneAssumption
<1>8. /\ row' \in [Ids -> Row \cup {None}] /\ row'[i] = draft
      /\ \A j \in Ids \ {i} : row'[j] = row[j]
      /\ req' \in [Requests -> Request \cup {None}] /\ req'[r] = new
      /\ \A t \in Requests \ {r} : req'[t] = req[t]
  BY <1>1, <1>4, <1>5, <1>6 DEF TypeOK
<1>9. TypeOK'
  BY <1>1, <1>6, <1>8 DEF TypeOK
<1>10. Based'
  BY <1>1, <1>2, <1>4, <1>5, <1>6, <1>7, <1>8, RequestIs, ReportIs DEF Based
<1>11. PoolsSound' /\ ReportsHeld' /\ Settling' /\ NotCompletedEarly'
  BY <1>1, <1>2, <1>6, <1>8, ReportIs
     DEF Based, PoolsSound, ReportsHeld, Settling, Settled, NotCompletedEarly
<1>12. TotalIsContacts'
  BY <1>1, <1>2, <1>6, <1>8 DEF TotalIsContacts
<1>. QED  BY <1>9, <1>10, <1>11, <1>12 DEF IInv

LEMMA InsertStep ==
  ASSUME IInv, NEW r \in Requests, Insert(r) PROVE IInv'
<1>. DEFINE i == req[r].id
<1>1. TypeOK /\ Based /\ PoolsSound /\ ReportsHeld /\ Settling /\ TotalIsContacts
      /\ NotCompletedEarly
  BY DEF IInv
<1>2. /\ req[r] # None /\ i \in Ids /\ row[i] # None /\ req[r].rows \in SUBSET Contacts
      /\ row[i].total = Cardinality(req[r].rows)
  BY <1>1, RequestIs DEF Insert, Based
<1>3. UNCHANGED <<dnc, row, pool, reports>>
      /\ req' \in [Requests -> Request \cup {None}]
      /\ req'[r] = None /\ \A t \in Requests \ {r} : req'[t] = req[t]
  BY <1>1, RequestOver DEF Insert
<1>4. /\ contacts' \in [Ids -> SUBSET Contacts]
      /\ \A j \in Ids : contacts'[j] # contacts[j] => j = i /\ contacts'[j] = req[r].rows
      /\ lost' \in 0..MaxLost /\ (lost' = 0 => lost = 0)
  BY <1>1, <1>2, LossCounts DEF Insert, TypeOK
<1>5. TypeOK'
  BY <1>1, <1>3, <1>4 DEF TypeOK
<1>6. Based'
  BY <1>1, <1>2, <1>3, <1>4 DEF Based
<1>7. PoolsSound' /\ ReportsHeld' /\ NotCompletedEarly'
  BY <1>1, <1>3 DEF PoolsSound, ReportsHeld, NotCompletedEarly
<1>8. Settling'
  BY <1>1, <1>3, <1>4 DEF Settling, Settled
<1>9. TotalIsContacts'
  BY <1>1, <1>2, <1>3, <1>4 DEF TotalIsContacts
<1>. QED  BY <1>5, <1>6, <1>7, <1>8, <1>9 DEF IInv
-----------------------------------------------------------------------------
(* The parts of Based: what rows, pools and reports say of each other, and *)
(* what requests say of rows.                                              *)
Rooted ==
  /\ \A i \in Ids :
       /\ row[i] = None => pool[i] = None /\ contacts[i] = {}
       /\ row[i] # None /\ pool[i] = None => row[i].dialed = 0 /\ row[i].status # "completed"
  /\ \A m \in reports : pool[m.id] # None

Asked ==
  \A r \in Requests : req[r] # None =>
    /\ row[req[r].id] # None
    /\ req[r].kind = "create" => row[req[r].id].total = Cardinality(req[r].rows)

(* Requests that are not new stay about rows that stay.                    *)
LEMMA AskedKept ==
  ASSUME TypeOK, Asked,
         \A j \in Ids : row[j] # None => row'[j] # None /\ row'[j].total = row[j].total,
         \A r \in Requests : req'[r] # None =>
           /\ req[r] # None /\ req'[r].id = req[r].id
           /\ req'[r].kind = "create" => req[r].kind = "create" /\ req'[r].rows = req[r].rows
  PROVE  Asked'
BY RequestIs DEF Asked

(* The other parts of the invariant, and what a step of the dialer's       *)
(* requests keeps of them.                                                 *)
Rest == Rooted /\ PoolsSound /\ ReportsHeld /\ Settling /\ TotalIsContacts /\ NotCompletedEarly

LEMMA Parts == IInv <=> TypeOK /\ Asked /\ Rest
BY DEF IInv, Based, Rooted, Asked, Rest

LEMMA PartsNext == IInv' <=> TypeOK' /\ Asked' /\ Rest'
BY DEF IInv, Based, Rooted, Asked, Rest

(* A pool that has made no dial, with all its contacts in the queue.       *)
LEMMA NewSound ==
  ASSUME NEW i \in Ids, NEW S \in SUBSET Contacts, NEW n \in Nat, Cardinality(S) <= n
  PROVE  LET p == NewPool(i, S, n, 0) IN p \in Pool /\ Sound(p) /\ p # None
<1>. DEFINE p == NewPool(i, S, n, 0)
<1>1. p \in Pool
  BY BoundsAssumption DEF NewPool, Pool, CampaignStatus
<1>2. /\ p.list = S /\ p.todo = S /\ p.remaining = n /\ p.loop = "run"
      /\ \A c \in Contacts : p.tries[c] = 0
  BY DEF NewPool
<1>. HIDE DEF p
<1>3. Placed(p) = {}
  BY <1>2 DEF Placed
<1>4. Cardinality(Placed(p)) = 0 /\ Cardinality(S) \in Nat
  BY <1>3, FS_EmptySet, FileAssumption, FS_Subset, FS_CardinalityType
<1>5. Undialed(p) \subseteq p.todo
  BY <1>2 DEF Undialed
<1>6. Sound(p)
  BY <1>2, <1>4, <1>5, BoundsAssumption DEF Sound
<1>7. p # None
  BY <1>1, NoneAssumption
<1>. QED  BY <1>1, <1>6, <1>7 DEF p

LEMMA StartKeeps ==
  ASSUME IInv, NEW i \in Ids, DialerStart(i), UNCHANGED <<contacts, reports>>,
         lost' = 0 => lost = 0
  PROVE  /\ Rest' /\ row' \in [Ids -> Row \cup {None}] /\ pool' \in [Ids -> Pool \cup {None}]
         /\ \A j \in Ids : row[j] # None => row'[j] = row[j]
<1>. DEFINE n == Cardinality(contacts[i])
<1>1. TypeOK /\ Rooted /\ PoolsSound /\ ReportsHeld /\ Settling /\ TotalIsContacts
      /\ NotCompletedEarly
  BY Parts DEF Rest
<1>2. contacts[i] \in SUBSET Contacts
  BY <1>1 DEF TypeOK
<1>3. n \in 0..Cardinality(Contacts) /\ n \in Nat
  BY <1>2, Counted, FileAssumption, FS_CardinalityType
<1>. DEFINE new == [status |-> "running", dialed |-> 0, total |-> n]
            p == NewPool(i, contacts[i], n, 0)
<1>4. PICK j \in Unused : row' = [row EXCEPT ![j] = new] /\ pool' = [pool EXCEPT ![j] = p]
  BY DEF DialerStart
<1>5. new \in Row /\ new.total = n /\ new.dialed = 0 /\ new.status = "running"
  BY <1>3 DEF Row, CampaignStatus
<1>6. p \in Pool /\ Sound(p) /\ p # None
  BY <1>2, <1>3, NewSound
<1>7. new # None /\ p.loop = "run"
  BY <1>5, NoneAssumption DEF NewPool
<1>. HIDE DEF new, p, n
<1>8. j \in Ids /\ row[j] = None /\ pool[j] = None /\ contacts[j] = {}
  BY <1>1 DEF Unused, Rooted
<1>9. /\ row' \in [Ids -> Row \cup {None}] /\ row'[j] = new
      /\ \A k \in Ids \ {j} : row'[k] = row[k]
      /\ pool' \in [Ids -> Pool \cup {None}] /\ pool'[j] = p
      /\ \A k \in Ids \ {j} : pool'[k] = pool[k]
  BY <1>1, <1>4, <1>5, <1>6, <1>8 DEF TypeOK
<1>10. Rooted'
  BY <1>1, <1>6, <1>7, <1>8, <1>9, ReportIs DEF Rooted
<1>11. PoolsSound' /\ NotCompletedEarly'
  BY <1>1, <1>5, <1>6, <1>8, <1>9 DEF PoolsSound, NotCompletedEarly
<1>12. \A m \in reports : m.id # j
  BY <1>1, <1>8 DEF Rooted
<1>13. ReportsHeld'
  BY <1>1, <1>9, <1>12, ReportIs DEF ReportsHeld
<1>14. Settling'
  BY <1>1, <1>7, <1>8, <1>9, ReportIs DEF Settling, Settled
<1>15. TotalIsContacts'
  BY <1>1, <1>8, <1>9 DEF TotalIsContacts
<1>. QED  BY <1>8, <1>9, <1>10, <1>11, <1>13, <1>14, <1>15 DEF Rest

LEMMA TargetIs ==
  ASSUME NEW k \in {"start", "pause", "resume", "stop"}
  PROVE  Target(k) \in CampaignStatus \ {"completed", "draft"}
BY DEF Target, CampaignStatus

(* What a pool is after it was told to pause, resume or stop.              *)
LEMMA TurnedIs ==
  ASSUME NEW p \in Pool, NEW k \in {"pause", "resume", "stop"}, Sound(p)
  PROVE  LET q == Turned(p, k)
         IN  /\ q \in Pool /\ q # None /\ Sound(q)
             /\ q.list = p.list /\ q.tries = p.tries /\ q.dialed = p.dialed
             /\ q.todo \subseteq p.todo /\ q.loop = p.loop
             /\ ~q.cancelled => ~p.cancelled
<1>. DEFINE q == Turned(p, k)
<1>1. Target(k) \in CampaignStatus
  BY TargetIs
<1>2. q \in Pool /\ q # None
  BY <1>1, NoneAssumption DEF Turned, Pool
<1>3. /\ q.list = p.list /\ q.tries = p.tries /\ q.dialed = p.dialed
      /\ q.remaining = p.remaining /\ q.loop = p.loop
      /\ q.todo = IF k = "stop" THEN {} ELSE p.todo
      /\ q.cancelled = (p.cancelled \/ k = "stop")
  BY DEF Turned, Pool
<1>. HIDE DEF q
<1>4. Undialed(q) = Undialed(p) /\ Placed(q) = Placed(p)
  BY <1>2, <1>3, SameDials
<1>5. Sound(q)
  BY <1>3, <1>4 DEF Sound
<1>. QED  BY <1>2, <1>3, <1>5 DEF q

LEMMA ControlKeeps ==
  ASSUME IInv, NEW i \in Ids, NEW k \in {"pause", "resume", "stop"}, DialerControl(i, k),
         row[i] # None, UNCHANGED <<contacts, reports>>, lost' = 0 => lost = 0
  PROVE  Rest' /\ RowsKept /\ pool' \in [Ids -> Pool \cup {None}]
<1>1. TypeOK /\ Rooted /\ PoolsSound /\ ReportsHeld /\ Settling /\ TotalIsContacts
      /\ NotCompletedEarly
  BY Parts DEF Rest
<1>2. Target(k) \in CampaignStatus \ {"completed", "draft"}
  BY TargetIs
<1>3. CASE pool[i] # None
  <2>. DEFINE p == Turned(pool[i], k)
  <2>1. pool' = [pool EXCEPT ![i] = p] /\ SetStatus(i, Target(k))
    BY <1>3 DEF DialerControl
  <2>2. /\ p \in Pool /\ p # None /\ Sound(p)
        /\ p.list = pool[i].list /\ p.tries = pool[i].tries /\ p.dialed = pool[i].dialed
        /\ p.todo \subseteq pool[i].todo /\ p.loop = pool[i].loop
        /\ ~p.cancelled => ~pool[i].cancelled
    BY <1>1, <1>3, PoolIs, TurnedIs DEF PoolsSound
  <2>3. Reaches(p) <=> Reaches(pool[i])
    BY <1>1, <1>3, <2>2, PoolIs, SameDials
  <2>. HIDE DEF p
  <2>4. /\ RowsKept /\ row'[i].status = Target(k) /\ row'[i].dialed = row[i].dialed
        /\ \A j \in Ids \ {i} : row'[j] = row[j]
    BY <1>1, <1>2, <2>1, StatusSet
  <2>5. /\ pool' \in [Ids -> Pool \cup {None}] /\ pool'[i] = p
        /\ \A j \in Ids \ {i} : pool'[j] = pool[j]
    BY <1>1, <2>1, <2>2 DEF TypeOK
  <2>6. Rooted'
    BY <1>1, <1>3, <2>2, <2>4, <2>5, ReportIs DEF Rooted, RowsKept
  <2>7. PoolsSound' /\ NotCompletedEarly'
    BY <1>1, <1>2, <2>2, <2>4, <2>5 DEF PoolsSound, NotCompletedEarly
  <2>8. ReportsHeld'
    <3>1. \A m \in reports : Held(m, pool'[m.id])
      <4>. SUFFICES ASSUME NEW m \in reports, m.id = i PROVE Held(m, p)
        BY <1>1, <2>5, ReportIs DEF ReportsHeld
      <4>1. Held(m, pool[i])
        BY <1>1 DEF ReportsHeld
      <4>. QED  BY <2>2, <2>3, <4>1 DEF Held
    <3>. QED  BY <1>1, <3>1 DEF ReportsHeld
  <2>9. Settling'
    BY <1>1, <1>3, <2>2, <2>4, <2>5, ReportIs DEF Settling, Settled
  <2>10. TotalIsContacts'
    BY <1>1, <2>4 DEF TotalIsContacts, RowsKept, Rooted
  <2>. QED  BY <2>4, <2>5, <2>6, <2>7, <2>8, <2>9, <2>10 DEF Rest
<1>4. CASE pool[i] = None /\ k = "resume"
  <2>. DEFINE p == NewPool(i, {}, row[i].total, 0)
  <2>1. row[i].dialed = 0 /\ row[i].status # "completed" /\ row[i].total \in Nat
    <3>1. row[i] \in Row
      BY <1>1 DEF TypeOK
    <3>2. Cardinality(Contacts) \in Nat
      BY FileAssumption, FS_CardinalityType
    <3>. QED  BY <1>1, <1>4, <3>1, <3>2 DEF Rooted, Row
  <2>2. pool' = [pool EXCEPT ![i] = p] /\ UNCHANGED row
    BY <1>4, <2>1 DEF DialerControl
  <2>3. p \in Pool /\ Sound(p) /\ p # None /\ p.loop = "run"
    <3>1. Cardinality({}) <= row[i].total
      BY <2>1, FS_EmptySet
    <3>. QED  BY <2>1, <3>1, NewSound DEF NewPool
  <2>. HIDE DEF p
  <2>4. /\ pool' \in [Ids -> Pool \cup {None}] /\ pool'[i] = p
        /\ \A j \in Ids \ {i} : pool'[j] = pool[j]
    BY <1>1, <2>2, <2>3 DEF TypeOK
  <2>5. \A m \in reports : m.id # i
    BY <1>1, <1>4 DEF Rooted
  <2>6. RowsKept
    BY <1>1, <2>2 DEF RowsKept, TypeOK
  <2>7. Rooted'
    BY <1>1, <2>2, <2>3, <2>4, ReportIs DEF Rooted
  <2>8. PoolsSound' /\ NotCompletedEarly'
    BY <1>1, <2>1, <2>2, <2>3, <2>4 DEF PoolsSound, NotCompletedEarly
  <2>9. ReportsHeld' /\ Settling'
    BY <1>1, <2>2, <2>3, <2>4, <2>5, ReportIs DEF ReportsHeld, Settling, Settled
  <2>10. TotalIsContacts'
    BY <1>1, <2>2 DEF TotalIsContacts
  <2>. QED  BY <2>4, <2>6, <2>7, <2>8, <2>9, <2>10 DEF Rest
<1>5. CASE pool[i] = None /\ k # "resume"
  <2>1. SetStatus(i, Target(k)) /\ UNCHANGED pool
    BY <1>5 DEF DialerControl
  <2>2. /\ RowsKept /\ row'[i].status = Target(k) /\ row'[i].dialed = row[i].dialed
        /\ \A j \in Ids \ {i} : row'[j] = row[j]
    BY <1>1, <1>2, <2>1, StatusSet
  <2>3. Rooted'
    BY <1>1, <1>2, <1>5, <2>1, <2>2 DEF Rooted, RowsKept
  <2>4. PoolsSound' /\ ReportsHeld' /\ NotCompletedEarly'
    BY <1>1, <1>5, <2>1, <2>2 DEF PoolsSound, ReportsHeld, NotCompletedEarly
  <2>5. Settling'
    BY <1>1, <1>5, <2>1, <2>2, ReportIs DEF Settling, Settled
  <2>6. TotalIsContacts'
    BY <1>1, <2>2 DEF TotalIsContacts, RowsKept, Rooted
  <2>. QED  BY <1>1, <2>1, <2>2, <2>3, <2>4, <2>5, <2>6 DEF Rest, TypeOK
<1>. QED  BY <1>3, <1>4, <1>5

LEMMA ForwardStep ==
  ASSUME IInv, NEW r \in Requests, Forward(r) PROVE IInv'
<1>. DEFINE k == req[r].kind
            i == req[r].id
<1>1. TypeOK /\ Asked /\ Rest
  BY Parts
<1>2. req[r] # None /\ k \in {"start", "pause", "resume", "stop"} /\ i \in Ids
      /\ row[i] # None /\ req[r] \in Request
  BY <1>1, RequestIs DEF Forward, Asked
<1>3. Target(k) \in CampaignStatus \ {"completed", "draft"}
  BY <1>2, TargetIs
<1>4. /\ req' \in [Requests -> Request \cup {None}]
      /\ \A t \in Requests : req'[t] # None =>
           /\ req[t] # None /\ req'[t].id = req[t].id
           /\ req'[t].kind = "create" => req[t].kind = "create" /\ req'[t].rows = req[t].rows
      /\ lost' \in 0..MaxLost /\ (lost' = 0 => lost = 0)
  <2>1. CASE req' = [req EXCEPT ![r].kind = Target(k)] /\ UNCHANGED lost
    <3>. DEFINE new == [req[r] EXCEPT !.kind = Target(k)]
    <3>1. new \in Request /\ new.id = i /\ new.kind = Target(k)
      BY <1>2, <1>3 DEF Request
    <3>2. Target(k) # "create"
      BY <1>3 DEF CampaignStatus
    <3>3. req' = [req EXCEPT ![r] = new]
      BY <2>1
    <3>. HIDE DEF new
    <3>. QED  BY <1>1, <1>2, <2>1, <3>1, <3>2, <3>3 DEF TypeOK
  <2>2. CASE Loss /\ Over(r)
    BY <1>1, <2>2, LossCounts, RequestOver
  <2>. QED  BY <2>1, <2>2 DEF Forward
<1>5. UNCHANGED <<dnc, contacts, reports>>
  BY DEF Forward
<1>6. /\ Rest' /\ row' \in [Ids -> Row \cup {None}] /\ pool' \in [Ids -> Pool \cup {None}]
      /\ \A j \in Ids : row[j] # None => row'[j] # None /\ row'[j].total = row[j].total
  <2>1. CASE k = "start"
    BY <1>2, <1>4, <1>5, <2>1, StartKeeps DEF Forward
  <2>2. CASE k # "start"
    <3>1. DialerControl(i, k) /\ k \in {"pause", "resume", "stop"}
      BY <1>2, <2>2 DEF Forward
    <3>. QED  BY <1>2, <1>4, <1>5, <3>1, ControlKeeps DEF RowsKept
  <2>. QED  BY <2>1, <2>2
<1>7. Asked'
  BY <1>1, <1>4, <1>6, AskedKept
<1>8. TypeOK'
  BY <1>1, <1>4, <1>5, <1>6 DEF TypeOK
<1>. QED  BY <1>6, <1>7, <1>8, PartsNext

LEMMA RecordStep ==
  ASSUME IInv, NEW r \in Requests, Record(r) PROVE IInv'
<1>. DEFINE i == req[r].id
            k == req[r].kind
<1>1. TypeOK /\ Asked /\ Rooted /\ PoolsSound /\ ReportsHeld /\ Settling /\ TotalIsContacts
      /\ NotCompletedEarly
  BY Parts DEF Rest
<1>2. i \in Ids /\ row[i] # None /\ k \in CampaignStatus /\ k # "completed"
  BY <1>1, RequestIs DEF Record, Asked, CampaignStatus
<1>3. /\ RowsKept /\ row'[i].status = k /\ row'[i].dialed = row[i].dialed
      /\ \A j \in Ids \ {i} : row'[j] = row[j]
  BY <1>1, <1>2, StatusSet DEF Record
<1>4. UNCHANGED <<dnc, contacts, pool, reports, lost>>
      /\ req' \in [Requests -> Request \cup {None}]
      /\ req'[r] = None /\ \A t \in Requests \ {r} : req'[t] = req[t]
  BY <1>1, RequestOver DEF Record
<1>5. TypeOK'
  BY <1>1, <1>3, <1>4 DEF TypeOK, RowsKept
<1>6. Asked'
  BY <1>1, <1>3, <1>4, AskedKept DEF RowsKept
<1>7. Rooted'
  BY <1>1, <1>2, <1>3, <1>4 DEF Rooted, RowsKept
<1>8. PoolsSound' /\ ReportsHeld'
  BY <1>1, <1>4 DEF PoolsSound, ReportsHeld
<1>9. Settling'
  BY <1>1, <1>3, <1>4 DEF Settling, Settled
<1>10. TotalIsContacts'
  BY <1>1, <1>3, <1>4 DEF TotalIsContacts, RowsKept, Rooted
<1>11. NotCompletedEarly'
  BY <1>1, <1>2, <1>3, <1>4 DEF NotCompletedEarly, RowsKept
<1>. QED  BY <1>5, <1>6, <1>7, <1>8, <1>9, <1>10, <1>11, PartsNext DEF Rest
-----------------------------------------------------------------------------
(* The dialer. What a pool is after one more dial.                         *)
LEMMA TallyIs ==
  ASSUME NEW p \in Pool, Sound(p), NEW c \in p.todo
  PROVE  LET q == Tally(p, c)
         IN  /\ q \in Pool /\ q # None /\ Sound(q)
             /\ q.list = p.list /\ q.todo = p.todo \ {c} /\ q.loop = p.loop
             /\ q.cancelled = p.cancelled
             /\ q.tries[c] = p.tries[c] + 1
             /\ \A x \in Contacts \ {c} : q.tries[x] = p.tries[x]
             /\ (q.remaining = 0 => Reaches(q)) /\ (Reaches(p) => Reaches(q))
<1>. DEFINE q == Tally(p, c)
            n == p.tries[c] + 1
<1>1. /\ p.tries \in [Contacts -> 0..RetryMax + 1] /\ p.list \in SUBSET Contacts
      /\ p.todo \in SUBSET Contacts /\ p.dialed \in Nat /\ p.remaining \in Int
      /\ RetryMax \in Nat /\ c \in Contacts /\ c \in p.list /\ p.tries[c] <= RetryMax
  BY BoundsAssumption DEF Pool, Sound
<1>2. n \in 1..RetryMax + 1
  BY <1>1
<1>3. /\ q.list = p.list /\ q.todo = p.todo \ {c} /\ q.loop = p.loop
      /\ q.cancelled = p.cancelled
      /\ q.tries = [p.tries EXCEPT ![c] = n] /\ q.dialed = p.dialed + 1
      /\ q.remaining = IF p.remaining > 0 THEN p.remaining - 1 ELSE p.remaining
  BY DEF Tally, Pool
<1>4. q \in Pool
  <2>. DEFINE t == [p.tries EXCEPT ![c] = n]
              d == p.dialed + 1
              k == IF p.remaining > 0 THEN p.remaining - 1 ELSE p.remaining
              o == p.todo \ {c}
  <2>1. t \in [Contacts -> 0..RetryMax + 1] /\ d \in Nat /\ k \in Int /\ o \in SUBSET Contacts
    BY <1>1, <1>2
  <2>2. [p EXCEPT !.todo = p.todo \ {c}].tries = p.tries
    BY DEF Pool
  <2>3. q = [p EXCEPT !.todo = o, !.tries = t, !.dialed = d, !.remaining = k]
    BY <2>2 DEF Tally
  <2>. HIDE DEF q, t, d, k, o
  <2>. QED  BY <2>1, <2>3 DEF Pool
<1>. HIDE DEF q
<1>5. /\ q.tries[c] = n /\ \A x \in Contacts \ {c} : q.tries[x] = p.tries[x]
      /\ \A x \in Contacts : q.tries[x] \in Nat /\ p.tries[x] \in Nat
  BY <1>1, <1>2, <1>3
<1>6. Placed(q) = Placed(p) \cup {<<c, n>>} /\ <<c, n>> \notin Placed(p)
  <2>1. \A x \in p.list, k \in 1..RetryMax + 1 :
          k <= q.tries[x] <=> k <= p.tries[x] \/ (x = c /\ k = n)
    BY <1>1, <1>5
  <2>2. ~(n <= p.tries[c])
    BY <1>1
  <2>. QED  BY <1>1, <1>2, <1>3, <2>1, <2>2 DEF Placed
<1>7. Cardinality(Placed(q)) = Cardinality(Placed(p)) + 1
  BY <1>6, Finite, FS_AddElement
<1>8. /\ q.remaining >= 0
      /\ q.remaining + Cardinality(Placed(q)) >= Cardinality(q.list)
  BY <1>1, <1>3, <1>7, Finite DEF Sound
<1>9. Undialed(q) = Undialed(p) \ {c}
  BY <1>1, <1>2, <1>3, <1>5 DEF Undialed
<1>10. \A x \in q.todo : q.tries[x] <= RetryMax
  BY <1>1, <1>3, <1>5 DEF Sound
<1>11. Sound(q)
  BY <1>3, <1>8, <1>9, <1>10 DEF Sound
<1>12. q.remaining = 0 => Reaches(q)
  BY <1>4, <1>8, Finite, DialsReach
<1>13. Reaches(p) => Reaches(q)
  <2>1. \A x \in p.list : q.tries[x] >= p.tries[x]
    BY <1>1, <1>5
  <2>. QED  BY <1>3, <1>4, <2>1, ReachesOn
<1>14. q # None
  BY <1>4, NoneAssumption
<1>. QED  BY <1>3, <1>4, <1>5, <1>11, <1>12, <1>13, <1>14 DEF q

LEMMA DialStep ==
  ASSUME IInv, NEW i \in Ids, NEW c \in Contacts, Dial(i, c) PROVE IInv'
<1>1. TypeOK /\ Asked /\ Rooted /\ PoolsSound /\ ReportsHeld /\ Settling /\ TotalIsContacts
      /\ NotCompletedEarly
  BY Parts DEF Rest
<1>. DEFINE p == Tally(pool[i], c)
<1>2. /\ pool[i] # None /\ pool[i].loop = "run" /\ c \in pool[i].todo /\ row[i] # None
      /\ pool[i] \in Pool /\ Sound(pool[i])
      /\ UNCHANGED <<dnc, row, contacts, req, lost>>
  BY <1>1, PoolIs DEF Dial, PoolsSound, Rooted
<1>3. PICK outcome \in {"answered", "no-answer"} :
        LET again == c \notin dnc /\ ShouldRetry(outcome, p.tries[c], RetryMax)
        IN  /\ pool' = [pool EXCEPT ![i] = p]
            /\ reports' = reports \cup
                 {[id |-> i, contact |-> c, again |-> again, dialed |-> p.dialed,
                   remaining |-> p.remaining, at |-> "row"]}
  BY DEF Dial
<1>. DEFINE again == c \notin dnc /\ ShouldRetry(outcome, p.tries[c], RetryMax)
            m == [id |-> i, contact |-> c, again |-> again, dialed |-> p.dialed,
                  remaining |-> p.remaining, at |-> "row"]
<1>4. /\ p \in Pool /\ p # None /\ Sound(p)
      /\ p.list = pool[i].list /\ p.todo = pool[i].todo \ {c} /\ p.loop = "run"
      /\ \A x \in Contacts \ {c} : p.tries[x] = pool[i].tries[x]
      /\ (p.remaining = 0 => Reaches(p)) /\ (Reaches(pool[i]) => Reaches(p))
  BY <1>2, TallyIs
<1>5. again \in BOOLEAN /\ (again => p.tries[c] <= RetryMax)
  <2>1. p.tries[c] \in Nat /\ RetryMax \in Nat
    BY <1>4, BoundsAssumption DEF Pool
  <2>. QED  BY <2>1 DEF ShouldRetry
<1>6. /\ m \in Report /\ m.id = i /\ m.contact = c /\ m.again = again
      /\ m.remaining = p.remaining /\ m.at = "row"
  BY <1>4, <1>5 DEF Report, Pool
<1>7. pool' = [pool EXCEPT ![i] = p] /\ reports' = reports \cup {m}
  BY <1>3
<1>8. c # None /\ c \in p.list \ p.todo
  BY <1>2, <1>4, NoneAssumption DEF Sound
<1>. HIDE DEF p, m, again
<1>9. Held(m, p)
  BY <1>4, <1>5, <1>6, <1>8 DEF Held
<1>10. /\ pool' \in [Ids -> Pool \cup {None}] /\ pool'[i] = p
       /\ \A j \in Ids \ {i} : pool'[j] = pool[j]
  BY <1>1, <1>4, <1>7 DEF TypeOK
<1>11. TypeOK'
  BY <1>1, <1>2, <1>6, <1>7, <1>10 DEF TypeOK
<1>12. Asked'
  BY <1>1, <1>2 DEF Asked
<1>13. Rooted'
  BY <1>1, <1>2, <1>4, <1>6, <1>7, <1>10, ReportIs DEF Rooted
<1>14. PoolsSound'
  BY <1>1, <1>4, <1>10 DEF PoolsSound
<1>15. \A n \in reports : n.id = i => n.contact # c /\ Held(n, p)
  <2>. SUFFICES ASSUME NEW n \in reports, n.id = i PROVE n.contact # c /\ Held(n, p)
    OBVIOUS
  <2>1. Held(n, pool[i]) /\ n.contact \in Contacts \cup {None}
    BY <1>1, ReportIs DEF ReportsHeld, Report
  <2>2. n.contact # c
    BY <1>2, <1>8, <2>1 DEF Held
  <2>. QED  BY <1>4, <2>1, <2>2 DEF Held
<1>16. ReportsHeld'
  <2>1. \A n \in reports' : Held(n, pool'[n.id])
    BY <1>1, <1>6, <1>7, <1>9, <1>10, <1>15, ReportIs DEF ReportsHeld
  <2>2. \A n \in reports : ~(n.id = m.id /\ n.contact = m.contact)
    BY <1>6, <1>15
  <2>3. \A n, l \in reports' : n.id = l.id /\ n.contact = l.contact => n = l
    BY <1>1, <1>7, <2>2 DEF ReportsHeld
  <2>. QED  BY <2>1, <2>3 DEF ReportsHeld
<1>17. Settling'
  BY <1>1, <1>2, <1>4, <1>6, <1>7, <1>10, ReportIs DEF Settling, Settled
<1>18. TotalIsContacts'
  BY <1>1, <1>2 DEF TotalIsContacts
<1>19. NotCompletedEarly'
  BY <1>1, <1>2, <1>4, <1>10 DEF NotCompletedEarly
<1>. QED
  BY <1>11, <1>12, <1>13, <1>14, <1>16, <1>17, <1>18, <1>19, PartsNext DEF Rest

(* A report that moves on, or is gone, is held as before.                  *)
Advances(m) ==
  /\ reports' \subseteq Report
  /\ \A n \in reports' : \E l \in reports :
       n.id = l.id /\ n.contact = l.contact /\ n.dialed = l.dialed
  /\ \A n \in reports \ {m} : n \in reports'
  /\ \A n \in reports' : n.id # m.id => n \in reports

LEMMA MovedKeeps ==
  ASSUME IInv, UNCHANGED pool, NEW m \in reports, NEW at \in {"post", "status", "retry"},
         Move(m, at), at = "status" => m.remaining = 0, at = "retry" => m.again
  PROVE  Advances(m) /\ ReportsHeld' /\ \A n \in reports' : n \in reports \/ n.at = at
<1>. DEFINE n == [m EXCEPT !.at = at]
<1>1. TypeOK /\ ReportsHeld
  BY DEF IInv
<1>2. /\ n \in Report /\ n.id = m.id /\ n.contact = m.contact /\ n.again = m.again
      /\ n.dialed = m.dialed /\ n.remaining = m.remaining /\ n.at = at
  BY <1>1, ReportIs DEF Report
<1>3. reports' = (reports \ {m}) \cup {n}
  BY DEF Move
<1>. HIDE DEF n
<1>4. Held(n, pool[n.id])
  <2>1. Held(m, pool[m.id])
    BY <1>1 DEF ReportsHeld
  <2>. QED  BY <1>2, <2>1 DEF Held
<1>5. \A l \in reports \ {m} : ~(l.id = n.id /\ l.contact = n.contact)
  BY <1>1, <1>2 DEF ReportsHeld
<1>6. \A l, k \in reports' : l.id = k.id /\ l.contact = k.contact => l = k
  BY <1>1, <1>3, <1>5 DEF ReportsHeld
<1>7. \A l \in reports' : Held(l, pool[l.id])
  BY <1>1, <1>3, <1>4 DEF ReportsHeld
<1>8. Advances(m)
  BY <1>1, <1>2, <1>3 DEF Advances, TypeOK
<1>. QED  BY <1>2, <1>3, <1>6, <1>7, <1>8 DEF ReportsHeld

LEMMA GoneKeeps ==
  ASSUME IInv, UNCHANGED pool, NEW m \in reports, reports' = reports \ {m}
  PROVE  Advances(m) /\ ReportsHeld' /\ \A n \in reports' : n \in reports
BY DEF IInv, TypeOK, Advances, ReportsHeld

LEMMA ReportedKeeps ==
  ASSUME IInv, UNCHANGED pool, NEW m \in reports, Reported(m)
  PROVE  Advances(m) /\ ReportsHeld' /\ \A n \in reports' : n \in reports \/ n.at = "retry"
<1>1. CASE m.again
  BY <1>1, MovedKeeps DEF Reported
<1>2. CASE ~m.again
  BY <1>2, GoneKeeps DEF Reported
<1>. QED  BY <1>1, <1>2

(* Where a report stands matters to no part but Settling.                  *)
LEMMA ReportsKept ==
  ASSUME IInv, RowsKept, UNCHANGED <<dnc, contacts, pool, req>>, lost' \in 0..MaxLost,
         NEW m \in reports, Advances(m), ReportsHeld', Settling', NotCompletedEarly',
         \A j \in Ids : pool[j] = None => row'[j] = row[j]
  PROVE  IInv'
<1>1. TypeOK /\ Asked /\ Rooted /\ PoolsSound /\ TotalIsContacts
  BY Parts DEF Rest
<1>2. TypeOK'
  BY <1>1 DEF TypeOK, RowsKept, Advances
<1>3. Asked'
  BY <1>1, AskedKept DEF RowsKept
<1>4. Rooted'
  BY <1>1 DEF Rooted, RowsKept, Advances
<1>5. PoolsSound'
  BY <1>1 DEF PoolsSound
<1>6. TotalIsContacts'
  BY <1>1 DEF TotalIsContacts, RowsKept, Rooted
<1>. QED  BY <1>2, <1>3, <1>4, <1>5, <1>6, PartsNext DEF Rest

LEMMA IncrementStep ==
  ASSUME IInv, NEW m \in reports, Increment(m) PROVE IInv'
<1>. DEFINE i == m.id
<1>1. TypeOK /\ Rooted /\ ReportsHeld /\ Settling /\ NotCompletedEarly
  BY Parts DEF Rest
<1>2. i \in Ids /\ pool[i] # None /\ row[i] # None /\ m.at = "row" /\ row[i].dialed + 1 \in Nat
  BY <1>1, ReportIs DEF Increment, Rooted, TypeOK, Row
<1>3. /\ RowsKept /\ row'[i].status = row[i].status
      /\ \A j \in Ids \ {i} : row'[j] = row[j]
      /\ lost' \in 0..MaxLost /\ (lost' = 0 => lost = 0)
  <2>1. CASE row' = [row EXCEPT ![i].dialed = @ + 1] /\ UNCHANGED lost
    BY <1>1, <1>2, <2>1, DialedSet DEF TypeOK
  <2>2. CASE Loss /\ UNCHANGED row
    BY <1>1, <2>2, LossCounts DEF RowsKept, TypeOK
  <2>. QED  BY <2>1, <2>2 DEF Increment
<1>4. m.contact # None
  BY <1>1, <1>2 DEF ReportsHeld, Held
<1>5. ~(pool[i].loop = "done" /\ ~pool[i].cancelled)
  BY <1>1, <1>2, <1>4 DEF Settling, Settled
<1>6. UNCHANGED <<dnc, contacts, pool, req>>
  BY DEF Increment
<1>7. Advances(m) /\ ReportsHeld'
  BY <1>6, MovedKeeps, ReportedKeeps DEF Increment
<1>8. Settling'
  BY <1>1, <1>3, <1>5, <1>6, <1>7, ReportIs DEF Settling, Settled, Advances
<1>9. NotCompletedEarly'
  BY <1>1, <1>3, <1>6 DEF NotCompletedEarly, RowsKept, Rooted
<1>. QED  BY <1>2, <1>3, <1>6, <1>7, <1>8, <1>9, ReportsKept

LEMMA PostStep ==
  ASSUME IInv, NEW m \in reports, Post(m) PROVE IInv'
<1>. DEFINE i == m.id
<1>1. TypeOK /\ Rooted /\ ReportsHeld /\ Settling /\ NotCompletedEarly
  BY Parts DEF Rest
<1>2. i \in Ids /\ pool[i] # None /\ row[i] # None /\ m.at = "post" /\ m.dialed \in Nat
  BY <1>1, ReportIs DEF Post, Rooted
<1>3. UNCHANGED <<dnc, contacts, pool, req>>
  BY DEF Post
<1>4. Advances(m) /\ ReportsHeld'
  BY <1>3, MovedKeeps, ReportedKeeps DEF Post
<1>5. CASE row' = [row EXCEPT ![i].dialed = m.dialed] /\ UNCHANGED lost
  <2>1. /\ RowsKept /\ row'[i].status = row[i].status /\ row'[i].dialed = m.dialed
        /\ \A j \in Ids \ {i} : row'[j] = row[j]
    BY <1>1, <1>2, <1>5, DialedSet
  <2>2. Settling'
    <3>1. \A j \in Ids \ {i} : pool[j] # None /\ pool[j].loop = "done" /\ ~pool[j].cancelled
                                 => Settled(j)'
      BY <1>1, <1>3, <1>4, <1>5, <2>1 DEF Settling, Settled, Advances
    <3>2. pool[i].loop = "done" /\ ~pool[i].cancelled => Settled(i)'
      BY <1>1, <1>2, <1>3, <1>4, <2>1 DEF Settling, Settled, Advances
    <3>. QED  BY <1>3, <3>1, <3>2 DEF Settling
  <2>3. NotCompletedEarly'
    BY <1>1, <1>3, <2>1 DEF NotCompletedEarly, RowsKept, Rooted
  <2>. QED  BY <1>1, <1>2, <1>3, <1>4, <1>5, <2>1, <2>2, <2>3, ReportsKept DEF TypeOK
<1>6. CASE Loss /\ UNCHANGED row
  <2>1. RowsKept
    BY <1>1, <1>6 DEF RowsKept, TypeOK
  <2>2. lost' \in 0..MaxLost /\ lost' # 0
    BY <1>1, <1>6, LossCounts
  <2>3. Settling' /\ NotCompletedEarly'
    BY <1>1, <1>3, <1>4, <1>6, <2>2 DEF Settling, Settled, NotCompletedEarly, Advances
  <2>. QED  BY <1>3, <1>4, <1>6, <2>1, <2>2, <2>3, ReportsKept
<1>. QED  BY <1>5, <1>6 DEF Post

LEMMA CompleteStep ==
  ASSUME IInv, NEW m \in reports, Complete(m) PROVE IInv'
<1>. DEFINE i == m.id
<1>1. TypeOK /\ Rooted /\ ReportsHeld /\ Settling /\ NotCompletedEarly
  BY Parts DEF Rest
<1>2. i \in Ids /\ pool[i] # None /\ row[i] # None /\ "completed" \in CampaignStatus
  BY <1>1, ReportIs DEF Rooted, CampaignStatus
<1>3. /\ RowsKept /\ row'[i].dialed = row[i].dialed
      /\ \A j \in Ids \ {i} : row'[j] = row[j]
  BY <1>1, <1>2, StatusSet DEF Complete
<1>4. UNCHANGED <<dnc, contacts, pool, req, lost>> /\ m.at = "status"
  BY DEF Complete
<1>5. Advances(m) /\ ReportsHeld' /\ \A n \in reports' : n \in reports \/ n.at = "retry"
  BY <1>4, ReportedKeeps DEF Complete
<1>6. Settling'
  BY <1>1, <1>3, <1>4, <1>5 DEF Settling, Settled, Advances
<1>7. Reaches(pool[i])
  BY <1>1, <1>4 DEF ReportsHeld, Held
<1>8. NotCompletedEarly'
  BY <1>1, <1>2, <1>3, <1>4, <1>7 DEF NotCompletedEarly
<1>. QED  BY <1>1, <1>2, <1>3, <1>4, <1>5, <1>6, <1>8, ReportsKept DEF TypeOK

(* The contact of a goroutine goes back to a queue it is not in.           *)
LEMMA RequeueStep ==
  ASSUME IInv, NEW m \in reports, Requeue(m) PROVE IInv'
<1>. DEFINE i == m.id
            p == [pool[i] EXCEPT !.todo = @ \cup {m.contact}]
<1>1. TypeOK /\ Asked /\ Rooted /\ PoolsSound /\ ReportsHeld /\ Settling /\ TotalIsContacts
      /\ NotCompletedEarly
  BY Parts DEF Rest
<1>2. /\ i \in Ids /\ pool[i] # None /\ row[i] # None /\ m.at = "retry" /\ m.again
      /\ m.contact # None /\ m.contact \in pool[i].list \ pool[i].todo
      /\ pool[i].tries[m.contact] <= RetryMax
      /\ pool[i] \in Pool /\ Sound(pool[i])
  BY <1>1, ReportIs, PoolIs DEF Requeue, Rooted, PoolsSound, ReportsHeld, Held
<1>3. UNCHANGED <<dnc, row, contacts, req>> /\ reports' = reports \ {m}
  BY DEF Requeue
<1>4. CASE ~pool[i].cancelled /\ pool' = [pool EXCEPT ![i] = p] /\ UNCHANGED lost
  <2>1. /\ p \in Pool /\ p # None /\ p.list = pool[i].list /\ p.tries = pool[i].tries
        /\ p.todo = pool[i].todo \cup {m.contact} /\ p.loop = pool[i].loop
        /\ p.cancelled = pool[i].cancelled /\ p.remaining = pool[i].remaining
        /\ p.dialed = pool[i].dialed
    BY <1>2, NoneAssumption DEF Pool
  <2>. HIDE DEF p
  <2>2. /\ Undialed(p) = Undialed(pool[i]) /\ Repeats(p) = Repeats(pool[i])
        /\ Placed(p) = Placed(pool[i])
    BY <2>1 DEF Undialed, Repeats, Placed
  <2>3. Sound(p) /\ (Reaches(p) <=> Reaches(pool[i]))
    BY <1>2, <2>1, <2>2 DEF Sound, Reaches
  <2>4. /\ pool' \in [Ids -> Pool \cup {None}] /\ pool'[i] = p
        /\ \A j \in Ids \ {i} : pool'[j] = pool[j]
    BY <1>1, <1>2, <1>4, <2>1 DEF TypeOK
  <2>5. TypeOK'
    BY <1>1, <1>3, <1>4, <2>4 DEF TypeOK
  <2>6. Asked'
    BY <1>1, <1>3 DEF Asked
  <2>7. Rooted'
    BY <1>1, <1>2, <1>3, <2>1, <2>4, ReportIs DEF Rooted
  <2>8. PoolsSound'
    BY <1>1, <2>3, <2>4 DEF PoolsSound
  <2>9. ReportsHeld'
    <3>1. \A n \in reports \ {m} : n.id = i => n.contact # m.contact
      BY <1>1 DEF ReportsHeld
    <3>2. \A n \in reports \ {m} : Held(n, pool[n.id])
      BY <1>1 DEF ReportsHeld
    <3>3. \A n \in reports \ {m} : n.id = i => Held(n, p)
      BY <2>1, <2>3, <3>1, <3>2 DEF Held
    <3>4. \A n \in reports' : Held(n, pool'[n.id])
      BY <1>1, <1>3, <2>4, <3>2, <3>3, ReportIs
    <3>. QED  BY <1>1, <1>3, <3>4 DEF ReportsHeld
  <2>10. Settling'
    <3>1. ~(pool[i].loop = "done" /\ ~pool[i].cancelled)
      BY <1>1, <1>2 DEF Settling, Settled
    <3>. QED  BY <1>1, <1>3, <1>4, <2>1, <2>4, <3>1 DEF Settling, Settled
  <2>11. TotalIsContacts'
    BY <1>1, <1>3 DEF TotalIsContacts
  <2>12. NotCompletedEarly'
    BY <1>1, <1>2, <1>3, <2>3, <2>4 DEF NotCompletedEarly
  <2>. QED
    BY <2>5, <2>6, <2>7, <2>8, <2>9, <2>10, <2>11, <2>12, PartsNext DEF Rest
<1>5. CASE UNCHANGED pool /\ lost' \in 0..MaxLost /\ (lost' = 0 => lost = 0)
  <2>1. RowsKept
    BY <1>1, <1>3 DEF RowsKept, TypeOK
  <2>2. Advances(m) /\ ReportsHeld' /\ \A n \in reports' : n \in reports
    BY <1>3, <1>5, GoneKeeps
  <2>3. Settling'
    BY <1>1, <1>2, <1>3, <1>5, <2>2 DEF Settling, Settled
  <2>4. NotCompletedEarly'
    BY <1>1, <1>3, <1>5 DEF NotCompletedEarly
  <2>. QED  BY <1>3, <1>5, <2>1, <2>2, <2>3, <2>4, ReportsKept
<1>. QED  BY <1>1, <1>4, <1>5, LossCounts DEF Requeue, TypeOK

(* A pool whose loop or state alone changes, and ends as it says.          *)
LEMMA LoopKeeps ==
  ASSUME TypeOK, NEW i \in Ids, pool[i] # None, Sound(pool[i]),
         NEW loop \in {"run", "drain", "done"}, NEW s \in CampaignStatus,
         ~pool[i].cancelled /\ loop # "run" => Undialed(pool[i]) = {},
         pool' = [pool EXCEPT ![i].loop = loop, ![i].state = s]
  PROVE  /\ pool' \in [Ids -> Pool \cup {None}] /\ pool'[i] # None /\ Sound(pool'[i])
         /\ pool'[i].loop = loop /\ pool'[i].cancelled = pool[i].cancelled
         /\ pool'[i].dialed = pool[i].dialed
         /\ (Reaches(pool[i]) => Reaches(pool'[i]))
         /\ \A n : Held(n, pool[i]) => Held(n, pool'[i])
         /\ \A j \in Ids \ {i} : pool'[j] = pool[j]
<1>. DEFINE p == [pool[i] EXCEPT !.loop = loop, !.state = s]
<1>1. /\ p \in Pool /\ p # None /\ p.list = pool[i].list /\ p.tries = pool[i].tries
      /\ p.todo = pool[i].todo /\ p.loop = loop /\ p.cancelled = pool[i].cancelled
      /\ p.remaining = pool[i].remaining /\ p.dialed = pool[i].dialed
  BY PoolIs, NoneAssumption DEF Pool
<1>2. pool' = [pool EXCEPT ![i] = p]
  BY DEF TypeOK
<1>. HIDE DEF p
<1>3. /\ Undialed(p) = Undialed(pool[i]) /\ Repeats(p) = Repeats(pool[i])
      /\ Placed(p) = Placed(pool[i])
  BY <1>1 DEF Undialed, Repeats, Placed
<1>4. Sound(p) /\ (Reaches(pool[i]) => Reaches(p))
  BY <1>1, <1>3 DEF Sound, Reaches
<1>5. \A n : Held(n, pool[i]) => Held(n, p)
  BY <1>1, <1>4 DEF Held
<1>6. /\ pool' \in [Ids -> Pool \cup {None}] /\ pool'[i] = p
      /\ \A j \in Ids \ {i} : pool'[j] = pool[j]
  BY <1>1, <1>2 DEF TypeOK
<1>. QED  BY <1>1, <1>4, <1>5, <1>6

(* What a step that changes the loop of one pool alone leaves to prove.    *)
LEMMA LoopStep ==
  ASSUME IInv, NEW i \in Ids, pool[i] # None, NEW loop \in {"drain", "done"},
         ~pool[i].cancelled => Undialed(pool[i]) = {} /\ loop = "drain",
         pool' = [pool EXCEPT ![i].loop = loop], pool[i].loop = "run",
         UNCHANGED <<dnc, row, contacts, reports, req, lost>>
  PROVE  IInv'
<1>1. TypeOK /\ Asked /\ Rooted /\ PoolsSound /\ ReportsHeld /\ Settling /\ TotalIsContacts
      /\ NotCompletedEarly
  BY Parts DEF Rest
<1>2. pool' = [pool EXCEPT ![i].loop = loop, ![i].state = pool[i].state]
      /\ pool[i].state \in CampaignStatus
  BY <1>1, PoolIs DEF TypeOK, Pool
<1>3. /\ pool' \in [Ids -> Pool \cup {None}] /\ pool'[i] # None /\ Sound(pool'[i])
      /\ pool'[i].loop = loop /\ pool'[i].cancelled = pool[i].cancelled
      /\ (Reaches(pool[i]) => Reaches(pool'[i]))
      /\ \A n : Held(n, pool[i]) => Held(n, pool'[i])
      /\ \A j \in Ids \ {i} : pool'[j] = pool[j]
  BY <1>1, <1>2, LoopKeeps DEF PoolsSound
<1>4. TypeOK' /\ Asked' /\ Rooted' /\ PoolsSound'
  BY <1>1, <1>3 DEF TypeOK, Asked, Rooted, PoolsSound
<1>5. ReportsHeld'
  BY <1>1, <1>3, ReportIs DEF ReportsHeld
<1>6. Settling'
  BY <1>1, <1>3 DEF Settling, Settled
<1>7. TotalIsContacts' /\ NotCompletedEarly'
  BY <1>1, <1>3 DEF TotalIsContacts, NotCompletedEarly, Rooted
<1>. QED  BY <1>4, <1>5, <1>6, <1>7, PartsNext DEF Rest

LEMMA DrainStep ==
  ASSUME IInv, NEW i \in Ids, Drain(i) PROVE IInv'
<1>1. pool[i] # None /\ Sound(pool[i]) /\ pool[i].todo = {}
  BY Parts DEF Rest, PoolsSound, Drain
<1>2. ~pool[i].cancelled => Undialed(pool[i]) = {}
  BY <1>1 DEF Sound
<1>. QED  BY <1>1, <1>2, LoopStep DEF Drain

LEMMA ReturnStep ==
  ASSUME IInv, NEW i \in Ids, Return(i) PROVE IInv'
BY LoopStep DEF Return

LEMMA FinishStep ==
  ASSUME IInv, NEW i \in Ids, Finish(i) PROVE IInv'
<1>. DEFINE m == [id |-> i, contact |-> None, again |-> FALSE, dialed |-> pool[i].dialed,
                  remaining |-> 0, at |-> "post"]
<1>1. TypeOK /\ Asked /\ Rooted /\ PoolsSound /\ ReportsHeld /\ Settling /\ TotalIsContacts
      /\ NotCompletedEarly
  BY Parts DEF Rest
<1>2. /\ pool[i] # None /\ pool[i].loop = "drain" /\ row[i] # None /\ pool[i] \in Pool
      /\ Sound(pool[i]) /\ (\A n \in reports : n.id # i)
      /\ UNCHANGED <<dnc, contacts, req>> /\ "completed" \in CampaignStatus
      /\ pool' = [pool EXCEPT ![i].loop = "done", ![i].state = "completed"]
  BY <1>1, PoolIs DEF Finish, FinishWith, Outstanding, PoolsSound, Rooted, CampaignStatus
<1>3. ~pool[i].cancelled => Undialed(pool[i]) = {}
  BY <1>2 DEF Sound
<1>4. /\ pool' \in [Ids -> Pool \cup {None}] /\ pool'[i] # None /\ Sound(pool'[i])
      /\ pool'[i].loop = "done" /\ pool'[i].cancelled = pool[i].cancelled
      /\ pool'[i].dialed = pool[i].dialed
      /\ (Reaches(pool[i]) => Reaches(pool'[i]))
      /\ \A n : Held(n, pool[i]) => Held(n, pool'[i])
      /\ \A j \in Ids \ {i} : pool'[j] = pool[j]
  BY <1>1, <1>2, <1>3, LoopKeeps
<1>5. CASE pool[i].cancelled
  <2>1. UNCHANGED <<row, reports, lost>>
    BY <1>5 DEF Finish, FinishWith
  <2>2. TypeOK' /\ Asked' /\ Rooted' /\ PoolsSound'
    <3>1. TypeOK' /\ Asked'
      BY <1>1, <1>2, <1>4, <2>1 DEF TypeOK, Asked
    <3>2. Rooted'
      BY <1>1, <1>2, <1>4, <2>1, ReportIs DEF Rooted
    <3>3. PoolsSound'
      BY <1>1, <1>4 DEF PoolsSound
    <3>. QED  BY <3>1, <3>2, <3>3
  <2>3. ReportsHeld'
    BY <1>1, <1>4, <2>1, ReportIs DEF ReportsHeld
  <2>4. Settling'
    <3>1. \A j \in Ids \ {i} : pool[j] # None /\ pool[j].loop = "done" /\ ~pool[j].cancelled
                                 => Settled(j)'
      BY <1>1, <1>4, <2>1 DEF Settling, Settled
    <3>. QED  BY <1>4, <1>5, <3>1 DEF Settling
  <2>5. TotalIsContacts' /\ NotCompletedEarly'
    BY <1>1, <1>2, <1>4, <2>1 DEF TotalIsContacts, NotCompletedEarly, Rooted
  <2>. QED  BY <2>2, <2>3, <2>4, <2>5, PartsNext DEF Rest
<1>6. CASE ~pool[i].cancelled
  <2>1. /\ (SetStatus(i, "completed") /\ UNCHANGED lost) \/ (Loss /\ UNCHANGED row)
        /\ reports' = reports \cup {m}
    BY <1>6 DEF Finish, FinishWith
  <2>2. /\ m \in Report /\ m.id = i /\ m.contact = None /\ ~m.again /\ m.at = "post"
        /\ m.dialed = pool[i].dialed
    BY <1>2 DEF Report, Pool
  <2>. HIDE DEF m
  <2>3. Reaches(pool[i]) /\ Reaches(pool'[i])
    <3>1. Cardinality(Undialed(pool[i])) = 0
      BY <1>3, <1>6, FS_EmptySet
    <3>. QED  BY <1>2, <1>4, <3>1, Finite DEF Reaches
  <2>4. Held(m, pool'[i])
    BY <2>2, <2>3 DEF Held
  <2>5. /\ RowsKept /\ \A j \in Ids \ {i} : row'[j] = row[j]
        /\ lost' \in 0..MaxLost /\ (lost' = 0 => lost = 0)
    BY <1>1, <1>2, <2>1, StatusSet, LossCounts DEF RowsKept, TypeOK
  <2>6. TypeOK'
    BY <1>1, <1>2, <1>4, <2>1, <2>2, <2>5 DEF TypeOK, RowsKept
  <2>7. Asked'
    BY <1>1, <1>2, <2>5, AskedKept DEF RowsKept
  <2>8. Rooted'
    <3>1. \A n \in reports' : pool'[n.id] # None
      BY <1>1, <1>4, <2>1, <2>2, ReportIs DEF Rooted
    <3>2. \A j \in Ids : row'[j] = None => pool'[j] = None /\ contacts'[j] = {}
      BY <1>1, <1>2, <1>4, <2>5 DEF Rooted, RowsKept
    <3>3. \A j \in Ids \ {i} :
            row'[j] # None /\ pool'[j] = None => row'[j].dialed = 0 /\ row'[j].status # "completed"
      BY <1>1, <1>4, <2>5 DEF Rooted
    <3>. QED  BY <1>4, <3>1, <3>2, <3>3 DEF Rooted
  <2>9. PoolsSound'
    BY <1>1, <1>4 DEF PoolsSound
  <2>10. ReportsHeld'
    <3>1. \A n \in reports : n.id # m.id
      BY <1>2, <2>2
    <3>2. \A n \in reports' : Held(n, pool'[n.id])
      BY <1>1, <1>4, <2>1, <2>2, <2>4, ReportIs DEF ReportsHeld
    <3>3. \A n, l \in reports' : n.id = l.id /\ n.contact = l.contact => n = l
      BY <1>1, <2>1, <3>1 DEF ReportsHeld
    <3>. QED  BY <3>2, <3>3 DEF ReportsHeld
  <2>11. Settling'
    <3>1. \A j \in Ids \ {i} : pool[j] # None /\ pool[j].loop = "done" /\ ~pool[j].cancelled
                                 => Settled(j)'
      BY <1>1, <1>4, <2>1, <2>2, <2>5 DEF Settling, Settled
    <3>2. Settled(i)'
      BY <1>2, <1>4, <2>1, <2>2 DEF Settled
    <3>. QED  BY <1>4, <3>1, <3>2 DEF Settling
  <2>12. TotalIsContacts'
    BY <1>1, <1>2, <2>5 DEF TotalIsContacts, RowsKept, Rooted
  <2>13. NotCompletedEarly'
    BY <1>1, <1>4, <2>3, <2>5 DEF NotCompletedEarly, RowsKept
  <2>. QED
    BY <2>6, <2>7, <2>8, <2>9, <2>10, <2>11, <2>12, <2>13, PartsNext DEF Rest
<1>. QED  BY <1>5, <1>6
-----------------------------------------------------------------------------
LEMMA InitHolds == Init => IInv
<1>. SUFFICES ASSUME Init PROVE IInv
  OBVIOUS
<1>1. TypeOK
  BY BoundsAssumption DEF Init, TypeOK
<1>2. Based /\ PoolsSound /\ ReportsHeld /\ Settling /\ TotalIsContacts /\ NotCompletedEarly
  BY DEF Init, Based, PoolsSound, ReportsHeld, Settling, TotalIsContacts, NotCompletedEarly
<1>. QED  BY <1>1, <1>2 DEF IInv

LEMMA StutterHolds == ASSUME IInv, UNCHANGED vars PROVE IInv'
<1>1. UNCHANGED <<dnc, row, contacts, pool, reports, req, lost>>
  BY DEF vars
<1>. QED  BY <1>1, Aside DEF IInv, TypeOK, Based

LEMMA StepHolds == IInv /\ [Next]_vars => IInv'
<1>. SUFFICES ASSUME IInv, [Next]_vars PROVE IInv'
  OBVIOUS
<1>1. CASE \E r \in Requests, i \in Ids, f \in File : Create(r, i, f)
  BY <1>1, CreateStep
<1>2. CASE \E r \in Requests, i \in Ids, k \in {"start", "pause", "resume", "stop"} :
             Click(r, i, k)
  BY <1>2, ClickStep
<1>3. CASE \E r \in Requests : Insert(r) \/ Forward(r) \/ Refused(r) \/ Record(r)
  BY <1>3, InsertStep, ForwardStep, RefusedStep, RecordStep
<1>4. CASE \E i \in Ids : \/ Drain(i) \/ Return(i) \/ Finish(i)
                      \/ \E c \in Contacts : Dial(i, c)
  BY <1>4, DrainStep, ReturnStep, FinishStep, DialStep
<1>5. CASE \E c \in Contacts : Block(c) \/ Unblock(c)
  BY <1>5, BlockStep
<1>6. CASE \E m \in reports : Increment(m) \/ Post(m) \/ Complete(m) \/ Requeue(m)
  BY <1>6, IncrementStep, PostStep, CompleteStep, RequeueStep
<1>7. CASE UNCHANGED vars
  BY <1>7, StutterHolds
<1>. QED  BY <1>1, <1>2, <1>3, <1>4, <1>5, <1>6, <1>7 DEF Next

LEMMA Invariance == Spec => []IInv
BY InitHolds, StepHolds, PTL DEF Spec

(* The state keeps its types: a pool tries a contact RetryMax + 1 times at *)
(* most, over every pause, resume and failed call (retry.go:8).            *)
THEOREM TypeCorrect == Spec => []TypeOK
<1>1. IInv => TypeOK
  BY DEF IInv
<1>. QED  BY <1>1, Invariance, PTL

(* The total of a row is the number of contacts inserted for it, and once  *)
(* a pool has ended without being stopped, in any state, over any queue,   *)
(* and all its reports have arrived, the row counts its dials, though the  *)
(* dialer increments the column and the backend overwrites it              *)
(* (worker_pool.go:231, :258, dialer.service.ts:289).                      *)
THEOREM CountsHold == Spec => []RowCounts
<1>1. IInv => RowCounts
  <2>. SUFFICES ASSUME IInv PROVE CompletedCounted
    BY DEF IInv, RowCounts
  <2>. QED  BY DEF IInv, Settling, Settled, CompletedCounted, Outstanding
<1>. QED  BY <1>1, Invariance, PTL

(* A row that says completed has had every contact of its pool's queue     *)
(* dialed or skipped, but for as many as retries took their count,         *)
(* whatever order the writes of the dialer, its callbacks and the backend  *)
(* come in, whether the pool is at its end or not, and whatever was lost   *)
(* (worker_pool.go:119-127, :211, :245, dialer.service.ts:307).            *)
THEOREM NotEarlyHolds == Spec => []NotCompletedEarly
<1>1. IInv => NotCompletedEarly
  BY DEF IInv
<1>. QED  BY <1>1, Invariance, PTL
=============================================================================
