----------------------- MODULE CampaignServiceProofs -----------------------
(***************************************************************************)
(* Theorems about CampaignService, for every number of contacts, requests, *)
(* pools, goroutines, restarts and failing calls.                          *)
(***************************************************************************)
EXTENDS CampaignService, FiniteSetTheorems, TLAPS

(* The list that Enqueue pushes has each contact of the set once.          *)
LEMMA SetToSeqIs ==
  ASSUME NEW T, NEW S \in SUBSET T, IsFiniteSet(S)
  PROVE  /\ SetToSeq(S) \in Seq(T) /\ IsInjective(SetToSeq(S))
         /\ Len(SetToSeq(S)) \in Nat /\ DOMAIN SetToSeq(S) = 1..Len(SetToSeq(S))
         /\ \A i \in DOMAIN SetToSeq(S) : SetToSeq(S)[i] \in S
         /\ \A c \in S : \E i \in DOMAIN SetToSeq(S) : SetToSeq(S)[i] = c
<1> DEFINE n == Cardinality(S)
           s == SetToSeq(S)
<1>1. n \in Nat /\ ExistsBijection(1..n, S)
  BY FS_CardinalityType
<1>2. \E f \in [1..n -> S] : IsInjective(f)
  BY <1>1 DEF ExistsBijection, Bijection, Injection, IsInjective
<1>3. s \in [1..n -> S] /\ IsInjective(s)
  BY <1>2 DEF SetToSeq
<1>4. s \in Injection(1..n, S)
  BY <1>3 DEF Injection, IsInjective
<1>5. Cardinality(1..n) = n
  BY <1>1, FS_Interval
<1>6. s \in Surjection(1..n, S)
  BY <1>4, <1>5, FS_Injection
<1>. HIDE DEF s, n
<1>7. s \in Seq(T) /\ Len(s) = n /\ DOMAIN s = 1..n
  BY <1>1, <1>3
<1>8. \A c \in S : \E i \in 1..n : s[i] = c
  BY <1>6 DEF Surjection
<1>. QED  BY <1>1, <1>3, <1>7, <1>8 DEF s

-----------------------------------------------------------------------------
(* Types.                                                                  *)
TInv == TypeOK /\ Shape

USE DEF api, pools, dials, stored, history, Frame

Bounds ==
  /\ MaxRequests \in Nat /\ MaxCrashes \in Nat /\ MaxFaults \in Nat /\ RetryMax \in Nat
  /\ Len(Batches) \in Nat /\ HasHours \in BOOLEAN

LEMMA BoundsTyped == Bounds
BY SizesAssumption, LimitsAssumption, OutcomesAssumption, BatchesAssumption DEF Bounds

LEMMA AttemptTyped ==
  faults \in 0..MaxFaults =>
    /\ \A ok \in BOOLEAN : Attempt(ok) => faults' \in 0..MaxFaults
    /\ \A p \in Pools, ok \in BOOLEAN : AttemptOf(p, ok) => faults' \in 0..MaxFaults
BY BoundsTyped DEF Bounds, Attempt, AttemptOf

LEMMA SavedTyped ==
  dbStatus \in CampaignStatus \cup {"absent"} =>
    \A ok \in BOOLEAN, status \in CampaignStatus :
      Saved(ok, status) \in CampaignStatus \cup {"absent"}
BY DEF Saved

(* A write of a contact's row: it changes that row only, and makes none    *)
(* where there is none.                                                    *)
LEMMA RowWritten ==
  ASSUME row \in [Contacts -> [status : ContactStatus \cup {"absent"}, attempts : Nat]],
         NEW c \in Contacts, NEW ok \in BOOLEAN, NEW o \in ContactStatus, NEW n \in Nat,
         row' = SavedRow(c, ok, o, n)
  PROVE  /\ row' \in [Contacts -> [status : ContactStatus \cup {"absent"}, attempts : Nat]]
         /\ \A d \in Contacts \ {c} : row'[d] = row[d]
         /\ \A d \in Contacts : row[d].status # "absent" => row'[d].status # "absent"
         /\ row[c].status # "absent" /\ ok => row'[c] = [status |-> o, attempts |-> n]
         /\ ~ok \/ row[c].status = "absent" => row' = row
<1> DEFINE new == [status |-> o, attempts |-> n]
<1>1. new \in [status : ContactStatus \cup {"absent"}, attempts : Nat] /\ new.status # "absent"
  BY DEF ContactStatus
<1>. HIDE DEF new
<1>2. row' = IF ok /\ row[c].status # "absent" THEN [row EXCEPT ![c] = new] ELSE row
  BY DEF SavedRow, new
<1>3. /\ row' \in [Contacts -> [status : ContactStatus \cup {"absent"}, attempts : Nat]]
      /\ \A d \in Contacts \ {c} : row'[d] = row[d]
      /\ \A d \in Contacts : row[d].status # "absent" => row'[d].status # "absent"
      /\ row[c].status # "absent" /\ ok => row'[c] = new
      /\ ~ok \/ row[c].status = "absent" => row' = row
  BY <1>1, <1>2
<1>. QED  BY <1>3 DEF new

LEMMA TypeInit == Init => TInv
<1> SUFFICES ASSUME Init PROVE TInv
  OBVIOUS
<1>1. row \in [Contacts -> [status : ContactStatus \cup {"absent"}, attempts : Nat]]
  BY DEF Init, Unborn, Pending, ContactStatus
<1>2. TypeOK
  <2>1. /\ registry \in Pools \cup {None}
        /\ at \in [Requests -> {"idle", "look", "mark", "insert", "contacts", "enqueue",
                                "register", "pause", "resume", "stop", "close"}]
        /\ target \in [Requests -> Pools \cup {None}]
        /\ ids \in [Requests -> SUBSET Contacts]
        /\ hours \in [Requests -> BOOLEAN]
    BY DEF Init, NoRequests, Nobody, Never
  <2>2. /\ state \in [Pools -> CampaignStatus]
        /\ loop \in [Pools -> {"unused", "start", "check", "dequeue", "acquire", "drain",
                               "record", "done"}]
        /\ cancelled \in [Pools -> BOOLEAN] /\ timed \in [Pools -> BOOLEAN]
        /\ hand \in [Pools -> Contacts \cup {None}]
    BY DEF Init, Nobody, Never, CampaignStatus
  <2>3. /\ pc \in [Dials -> {"idle", "get", "begin", "calling", "retry", "release"}]
        /\ owner \in [Dials -> Pools \cup {None}]
        /\ contact \in [Dials -> Contacts \cup {None}]
        /\ tries \in [Dials -> Nat]
        /\ outcome \in [Dials -> ContactStatus]
    BY DEF Init, Nobody, ContactStatus
  <2>4. queue \in Seq(Contacts) /\ calls \in [Contacts -> Nat]
    BY DEF Init
  <2>5. dbStatus \in CampaignStatus \cup {"absent"} /\ dbHours \in BOOLEAN
    BY OutcomesAssumption DEF Init, CampaignStatus
  <2>6. /\ creates \in 0..Len(Batches) /\ asked \in 0..MaxRequests
        /\ crashes \in 0..MaxCrashes /\ faults \in 0..MaxFaults
    BY BoundsTyped DEF Init, Bounds
  <2>7. /\ orderly \in BOOLEAN /\ halted \in BOOLEAN
        /\ pushed \subseteq Contacts /\ dropped \subseteq Contacts
    BY DEF Init
  <2>. QED  BY <1>1, <2>1, <2>2, <2>3, <2>4, <2>5, <2>6, <2>7 DEF TypeOK
<1>3. Shape
  BY NoneAssumption DEF Init, Shape, Nobody, Never
<1>. QED  BY <1>2, <1>3 DEF TInv

LEMMA TypeAsk ==
  ASSUME TInv, NEW r \in Requests, AskCreate(r) \/ AskPause(r) \/ AskResume(r) \/ AskStop(r)
  PROVE  TInv'
<1> USE BoundsTyped DEF TInv, TypeOK, Shape, Bounds, Goto
<1>1. CASE AskCreate(r)
  <2>1. \A batch \in {Batches[creates + 1], {}} : batch \in SUBSET Contacts
    BY <1>1, BatchesAssumption DEF AskCreate
  <2>2. ids' \in [Requests -> SUBSET Contacts]
    BY <1>1, <2>1 DEF AskCreate
  <2>3. creates' \in 0..Len(Batches)
    BY <1>1 DEF AskCreate
  <2>4. orderly' \in BOOLEAN
    BY <1>1 DEF AskCreate, Alone
  <2>. QED  BY <1>1, <2>2, <2>3, <2>4 DEF AskCreate
<1>2. CASE \E place \in {"pause", "resume", "stop"} : Ask(r, place)
  <2>1. orderly' \in BOOLEAN
    BY <1>2 DEF Ask, Alone
  <2>2. asked' \in 0..MaxRequests
    BY <1>2 DEF Ask
  <2>. QED  BY <1>2, <2>1, <2>2 DEF Ask
<1>. QED  BY <1>1, <1>2 DEF AskPause, AskResume, AskStop

LEMMA TypeServe ==
  ASSUME TInv, NEW r \in Requests, Serve(r) PROVE TInv'
<1> USE BoundsTyped DEF TInv, TypeOK, Shape, Bounds, Goto, Proceed, Return
<1>1. CASE LookUp(r)  BY <1>1, AttemptTyped DEF LookUp
<1>2. CASE MarkRunning(r)
  BY <1>2, AttemptTyped, SavedTyped DEF MarkRunning, CampaignStatus
<1>3. CASE InsertCampaign(r)
  <2>1. faults' \in 0..MaxFaults
    <3>1. Attempt(TRUE) \/ Attempt(FALSE)
      BY <1>3 DEF InsertCampaign
    <3>. QED  BY <3>1, AttemptTyped
  <2>2. dbStatus' \in CampaignStatus \cup {"absent"}
    BY <1>3 DEF InsertCampaign, CampaignStatus
  <2>. QED  BY <1>3, <2>1, <2>2 DEF InsertCampaign
<1>4. CASE AddContacts(r)
  <2>1. faults' \in 0..MaxFaults
    BY <1>4, AttemptTyped DEF AddContacts
  <2>2. ids' \in [Requests -> SUBSET Contacts]
    <3>1. {c \in Contacts : row[c].status = "pending"} \in SUBSET Contacts
      OBVIOUS
    <3>. QED  BY <1>4, <3>1 DEF AddContacts
  <2>3. /\ row' \in [Contacts -> [status : ContactStatus \cup {"absent"}, attempts : Nat]]
        /\ \A c \in Contacts : row[c].status # "absent" => row'[c].status # "absent"
    <3>1. Pending \in [status : ContactStatus \cup {"absent"}, attempts : Nat]
          /\ Pending.status # "absent"
      BY DEF Pending, ContactStatus
    <3>2. row' = row \/ row' = [c \in Contacts |-> IF c \in ids[r] THEN Pending ELSE row[c]]
      BY <1>4 DEF AddContacts
    <3>3. ASSUME row' = [c \in Contacts |-> IF c \in ids[r] THEN Pending ELSE row[c]]
          PROVE  /\ row' \in [Contacts -> [status : ContactStatus \cup {"absent"}, attempts : Nat]]
                 /\ \A c \in Contacts : row[c].status # "absent" => row'[c].status # "absent"
      <4>. HIDE DEF Pending
      <4>. QED  BY <3>1, <3>3
    <3>. QED  BY <3>2, <3>3
  <2>4. at' = [at EXCEPT ![r] = "enqueue"]
        /\ UNCHANGED <<registry, target, hours, pools, dials, queue, dbStatus, dbHours, creates,
                       asked, crashes, orderly, halted, pushed, calls, dropped>>
    BY <1>4 DEF AddContacts
  <2>5. TypeOK'
    BY <2>1, <2>2, <2>3, <2>4
  <2>6. Shape'
    BY <2>3, <2>4
  <2>. QED  BY <2>5, <2>6
<1>5. CASE Enqueue(r)
  <2>1. faults' \in 0..MaxFaults
    <3>1. Attempt(TRUE) \/ Attempt(FALSE)
      BY <1>5 DEF Enqueue
    <3>. QED  BY <3>1, AttemptTyped
  <2>2. queue' \in Seq(Contacts) /\ pushed' \subseteq Contacts
    <3>1. ids[r] \in SUBSET Contacts /\ IsFiniteSet(ids[r])
      BY ContactsAssumption, FS_Subset
    <3>2. SetToSeq(ids[r]) \in Seq(Contacts)
      BY <3>1, SetToSeqIs
    <3>3. queue \o SetToSeq(ids[r]) \in Seq(Contacts)
      BY <3>2
    <3>. QED  BY <1>5, <3>1, <3>3 DEF Enqueue
  <2>3. /\ UNCHANGED <<registry, pools, dials, row, dbStatus, dbHours, creates, asked, crashes,
                       orderly, halted, calls, dropped>>
        /\ Proceed(r, "register") \/ Return(r)
    BY <1>5 DEF Enqueue
  <2>. QED  BY <2>1, <2>2, <2>3
<1>6. CASE Register(r)
  <2>1. PICK p \in Pools :
          /\ loop[p] = "unused" /\ registry' = p
          /\ loop' = [loop EXCEPT ![p] = "start"] /\ timed' = [timed EXCEPT ![p] = hours[r]]
    BY <1>6 DEF Register
  <2>2. hand[p] = None
    BY <2>1
  <2>. QED  BY <1>6, <2>1, <2>2 DEF Register
<1>7. CASE Pause(r)
  <2>1. faults' \in 0..MaxFaults /\ dbStatus' \in CampaignStatus \cup {"absent"}
    BY <1>7, AttemptTyped, SavedTyped DEF Pause, CampaignStatus
  <2>2. state' \in [Pools -> CampaignStatus]
    BY <1>7 DEF Pause, CampaignStatus
  <2>. QED  BY <1>7, <2>1, <2>2 DEF Pause
<1>8. CASE ResumePool(r)
  <2>1. faults' \in 0..MaxFaults /\ dbStatus' \in CampaignStatus \cup {"absent"}
    BY <1>8, AttemptTyped, SavedTyped DEF ResumePool, CampaignStatus
  <2>2. state' \in [Pools -> CampaignStatus]
    BY <1>8 DEF ResumePool, CampaignStatus
  <2>. QED  BY <1>8, <2>1, <2>2 DEF ResumePool
<1>9. CASE ResumeRow(r)
  <2>1. faults' \in 0..MaxFaults
    BY <1>9, AttemptTyped DEF ResumeRow
  <2>2. /\ at' \in [Requests -> {"idle", "look", "mark", "insert", "contacts", "enqueue",
                                 "register", "pause", "resume", "stop", "close"}]
        /\ target' \in [Requests -> Pools \cup {None}]
        /\ ids' \in [Requests -> SUBSET Contacts] /\ hours' \in [Requests -> BOOLEAN]
    <3>1. CASE Return(r)  BY <3>1
    <3>2. CASE /\ at' = [at EXCEPT ![r] = "register"] /\ hours' = [hours EXCEPT ![r] = dbHours]
               /\ UNCHANGED <<target, ids>>
      BY <3>2
    <3>. QED  BY <1>9, <3>1, <3>2 DEF ResumeRow
  <2>3. UNCHANGED <<registry, pools, dials, stored, creates, asked, crashes, orderly,
                    halted, pushed, calls, dropped>>
    BY <1>9 DEF ResumeRow
  <2>. QED  BY <2>1, <2>2, <2>3
<1>10. CASE StopPool(r)
  <2>1. /\ faults' \in 0..MaxFaults /\ dbStatus' \in CampaignStatus \cup {"absent"}
        /\ queue' \in Seq(Contacts)
    <3>1. CASE UNCHANGED <<faults, dbStatus, queue>>  BY <3>1
    <3>2. CASE ~UNCHANGED <<faults, dbStatus, queue>>
      <4>1. PICK a \in BOOLEAN, b \in BOOLEAN :
              /\ faults' = faults + (IF a THEN 0 ELSE 1) + (IF b THEN 0 ELSE 1)
              /\ faults' <= MaxFaults
              /\ dbStatus' = Saved(a, "stopped")
              /\ queue' = IF b THEN <<>> ELSE queue
        BY <1>10, <3>2 DEF StopPool
      <4>. QED  BY <4>1, SavedTyped DEF CampaignStatus
    <3>. QED  BY <3>1, <3>2
  <2>2. /\ state' \in [Pools -> CampaignStatus] /\ cancelled' \in [Pools -> BOOLEAN]
        /\ halted' \in BOOLEAN /\ \A p \in Pools : cancelled'[p] => halted'
    <3>1. CASE UNCHANGED <<state, cancelled, halted>>  BY <3>1
    <3>2. CASE /\ state' = [state EXCEPT ![target[r]] = "stopped"] /\ halted' = TRUE
               /\ cancelled' = [cancelled EXCEPT ![target[r]] = loop[target[r]] # "start"]
      <4>1. "stopped" \in CampaignStatus
        BY DEF CampaignStatus
      <4>. QED  BY <3>2, <4>1
    <3>3. UNCHANGED <<state, cancelled, halted>> \/
            /\ state' = [state EXCEPT ![target[r]] = "stopped"] /\ halted' = TRUE
            /\ cancelled' = [cancelled EXCEPT ![target[r]] = loop[target[r]] # "start"]
      BY <1>10 DEF StopPool
    <3>. QED  BY <3>1, <3>2, <3>3
  <2>. QED  BY <1>10, <2>1, <2>2 DEF StopPool
<1>11. CASE StopClear(r)
  BY <1>11, AttemptTyped DEF StopClear
<1>12. CASE StopRecord(r)
  BY <1>12, AttemptTyped, SavedTyped DEF StopRecord, CampaignStatus
<1>. QED
  BY <1>1, <1>2, <1>3, <1>4, <1>5, <1>6, <1>7, <1>8, <1>9, <1>10, <1>11, <1>12 DEF Serve

(* A loop that goes on, and nothing else.                                  *)
LEMMA LoopMoves ==
  ASSUME TInv, NEW p \in Pools, NEW place \in {"check", "dequeue", "drain", "record", "done"},
         loop[p] # "acquire", loop' = [loop EXCEPT ![p] = place],
         UNCHANGED <<state, cancelled, hand, timed, dials, Frame>>
  PROVE  TInv'
<1>1. loop'[p] = place /\ \A q \in Pools \ {p} : loop'[q] = loop[q]
  BY DEF TInv, TypeOK
<1>2. TypeOK'
  BY DEF TInv, TypeOK
<1>3. \A q \in Pools : loop'[q] = "acquire" <=> hand[q] # None
  BY <1>1 DEF TInv, Shape
<1>4. \A g \in Dials : pc[g] # "idle" => loop'[owner[g]] \notin {"unused", "start"}
  BY <1>1 DEF TInv, Shape
<1>. QED  BY <1>2, <1>3, <1>4 DEF TInv, Shape

LEMMA TypeRun ==
  ASSUME TInv, NEW p \in Pools, Run(p) PROVE TInv'
<1> USE BoundsTyped DEF TInv, TypeOK, Shape, Bounds, LoopTo
<1>1. CASE Start(p)  BY <1>1 DEF Start, CampaignStatus
<1>2. CASE Check(p)
  <2>1. loop' = [loop EXCEPT ![p] = "done"] \/ loop' = [loop EXCEPT ![p] = "dequeue"]
    BY <1>2 DEF Check
  <2>2. loop[p] = "check" /\ UNCHANGED <<state, cancelled, hand, timed, dials, Frame>>
    BY <1>2 DEF Check
  <2>3. loop[p] # "acquire"
    BY <2>2
  <2>. QED  BY <2>1, <2>2, <2>3, LoopMoves
<1>3. CASE Dequeue(p)
  <2>1. Head(queue) \in Contacts /\ Tail(queue) \in Seq(Contacts)
    BY <1>3 DEF Dequeue
  <2>. QED  BY <1>3, <2>1, NoneAssumption DEF Dequeue
<1>4. CASE DequeueNothing(p)
  <2>1. loop' = [loop EXCEPT ![p] = "done"] \/ loop' = [loop EXCEPT ![p] = "drain"]
    BY <1>4 DEF DequeueNothing
  <2>2. loop[p] = "dequeue" /\ UNCHANGED <<state, cancelled, hand, timed, dials, Frame>>
    BY <1>4 DEF DequeueNothing
  <2>3. loop[p] # "acquire"
    BY <2>2
  <2>. QED  BY <2>1, <2>2, <2>3, LoopMoves
<1>5. ASSUME NEW g \in Dials, Launch(p, g) PROVE TInv'
  <2>1. hand[p] \in Contacts /\ hand[p] # None
    BY <1>5 DEF Launch
  <2>. QED  BY <1>5, <2>1 DEF Launch
<1>6. CASE Abandon(p)  BY <1>6 DEF Abandon
<1>7. CASE Finish(p)  BY <1>7 DEF Finish, CampaignStatus
<1>8. CASE FinishRecord(p)
  BY <1>8, AttemptTyped, SavedTyped DEF FinishRecord, CampaignStatus
<1>. QED  BY <1>1, <1>2, <1>3, <1>4, <1>5, <1>6, <1>7, <1>8 DEF Run

(* What a goroutine of dialOne leaves alone.                               *)
LEMMA DialFrame ==
  ASSUME TInv, NEW g \in Dials, DialOne(g)
  PROVE  /\ UNCHANGED <<api, pools, dbStatus, dbHours, creates, asked, crashes, orderly, halted,
                        pushed, dropped>>
         /\ pc[g] # "idle" /\ contact[g] \in Contacts /\ owner[g] \in Pools
         /\ loop[owner[g]] \notin {"unused", "start"}
         /\ faults' \in 0..MaxFaults
         /\ \A h \in Dials \ {g} :
              /\ pc'[h] = pc[h] /\ owner'[h] = owner[h] /\ contact'[h] = contact[h]
              /\ tries'[h] = tries[h] /\ outcome'[h] = outcome[h]
<1>1. /\ UNCHANGED <<api, pools, dbStatus, dbHours, creates, asked, crashes, orderly, halted,
                     pushed, dropped>>
      /\ pc[g] # "idle"
  BY DEF DialOne, GetContact, BeginCall, EndCall, Requeue, Release
<1>2. /\ contact[g] \in Contacts /\ owner[g] \in Pools
      /\ loop[owner[g]] \notin {"unused", "start"}
  BY <1>1 DEF TInv, Shape
<1>3. faults' \in 0..MaxFaults
  <2>1. UNCHANGED faults \/ \E ok \in BOOLEAN : AttemptOf(owner[g], ok)
    BY DEF DialOne, GetContact, BeginCall, EndCall, Requeue, Release
  <2>. QED  BY <1>2, <2>1, AttemptTyped DEF TInv, TypeOK
<1>4. \E place : pc' = [pc EXCEPT ![g] = place]
  BY DEF DialOne, GetContact, BeginCall, EndCall, Requeue, Release, DialTo
<1>5. (owner' = owner /\ contact' = contact)
        \/ (owner' = [owner EXCEPT ![g] = None] /\ contact' = [contact EXCEPT ![g] = None])
  BY DEF DialOne, GetContact, BeginCall, EndCall, Requeue, Release
<1>6. tries' = tries \/ \E n : tries' = [tries EXCEPT ![g] = n]
  BY DEF DialOne, GetContact, BeginCall, EndCall, Requeue, Release
<1>7. outcome' = outcome \/ \E o : outcome' = [outcome EXCEPT ![g] = o]
  BY DEF DialOne, GetContact, BeginCall, EndCall, Requeue, Release
<1>8. \A h \in Dials \ {g} :
        /\ pc'[h] = pc[h] /\ owner'[h] = owner[h] /\ contact'[h] = contact[h]
        /\ tries'[h] = tries[h] /\ outcome'[h] = outcome[h]
  BY <1>4, <1>5, <1>6, <1>7 DEF TInv, TypeOK
<1>. QED  BY <1>1, <1>2, <1>3, <1>8

(* What each step of dialOne does, in the terms the invariants use.        *)
LEMMA DialDoes ==
  ASSUME TInv, NEW g \in Dials, DialOne(g)
  PROVE  \/ /\ GetContact(g) /\ pc[g] = "get" /\ UNCHANGED <<contact, owner, outcome, queue, row, calls>>
            /\ \/ /\ pc'[g] = "begin" /\ row[contact[g]].status # "absent"
                  /\ tries' = [tries EXCEPT ![g] = row[contact[g]].attempts]
               \/ pc'[g] = "release" /\ tries' = tries
         \/ /\ BeginCall(g) /\ pc[g] = "begin" /\ pc'[g] = "calling"
            /\ UNCHANGED <<contact, owner, tries, queue>>
            /\ \E ok \in BOOLEAN :
                 AttemptOf(owner[g], ok) /\ row' = SavedRow(contact[g], ok, "dialing", tries[g] + 1)
            /\ calls' = IF cancelled[owner[g]] THEN calls
                        ELSE [calls EXCEPT ![contact[g]] = @ + 1]
            /\ \E o \in ContactStatus : outcome' = [outcome EXCEPT ![g] = o]
         \/ /\ EndCall(g) /\ pc[g] = "calling" /\ pc'[g] = "retry"
            /\ UNCHANGED <<contact, owner, queue, calls>>
            /\ tries' = [tries EXCEPT ![g] = tries[g] + 1]
            /\ \E ok \in BOOLEAN, o \in CallOutcome :
                 /\ AttemptOf(owner[g], ok) /\ row' = SavedRow(contact[g], ok, o, tries[g] + 1)
                 /\ outcome' = [outcome EXCEPT ![g] = o]
         \/ /\ Requeue(g) /\ pc[g] = "retry" /\ pc'[g] = "release"
            /\ UNCHANGED <<contact, owner, tries, outcome, row, calls>>
            /\ \/ /\ ShouldRetry(outcome[g], tries[g], RetryMax)
                  /\ \E ok \in BOOLEAN :
                       /\ AttemptOf(owner[g], ok)
                       /\ queue' = IF ok THEN Append(queue, contact[g]) ELSE queue
               \/ ~ShouldRetry(outcome[g], tries[g], RetryMax) /\ UNCHANGED <<queue, faults>>
         \/ /\ Release(g) /\ pc[g] = "release" /\ pc'[g] = "idle" /\ UNCHANGED <<queue, row, calls>>
            /\ contact'[g] = None /\ owner'[g] = None /\ tries'[g] = 0 /\ outcome'[g] = "pending"
<1> USE DEF TInv, TypeOK, DialTo
<1>1. CASE GetContact(g)  BY <1>1 DEF GetContact
<1>2. CASE BeginCall(g)
  <2>1. \E o \in ContactStatus : outcome' = [outcome EXCEPT ![g] = o]
    <3>1. "failed" \in ContactStatus /\ "dialing" \in ContactStatus
      BY DEF ContactStatus
    <3>. QED  BY <1>2, <3>1 DEF BeginCall
  <2>. QED  BY <1>2, <2>1 DEF BeginCall
<1>3. CASE EndCall(g)
  <2>1. Outcomes \cup {"failed"} \subseteq CallOutcome
    BY OutcomesAssumption DEF CallOutcome
  <2>. QED  BY <1>3, <2>1 DEF EndCall
<1>4. CASE Requeue(g)  BY <1>4 DEF Requeue
<1>5. CASE Release(g)  BY <1>5 DEF Release
<1>. QED  BY <1>1, <1>2, <1>3, <1>4, <1>5 DEF DialOne

LEMMA TypeDial ==
  ASSUME TInv, NEW g \in Dials, DialOne(g) PROVE TInv'
<1> DEFINE c == contact[g]
<1>1. /\ UNCHANGED <<api, pools, dbStatus, dbHours, creates, asked, crashes, orderly, halted,
                     pushed, dropped>>
      /\ c \in Contacts /\ owner[g] \in Pools /\ faults' \in 0..MaxFaults
      /\ loop[owner[g]] \notin {"unused", "start"} /\ loop' = loop
      /\ \A h \in Dials \ {g} :
           /\ pc'[h] = pc[h] /\ owner'[h] = owner[h] /\ contact'[h] = contact[h]
           /\ tries'[h] = tries[h] /\ outcome'[h] = outcome[h]
  BY DialFrame
<1>2. /\ tries[g] \in Nat /\ row[c].attempts \in Nat /\ row[c].status \in ContactStatus \cup {"absent"}
      /\ row \in [Contacts -> [status : ContactStatus \cup {"absent"}, attempts : Nat]]
      /\ calls \in [Contacts -> Nat] /\ queue \in Seq(Contacts)
      /\ CallOutcome \subseteq ContactStatus
  BY <1>1 DEF TInv, TypeOK, CallOutcome, ContactStatus
<1>3. /\ row' \in [Contacts -> [status : ContactStatus \cup {"absent"}, attempts : Nat]]
      /\ \A d \in Contacts : row[d].status # "absent" => row'[d].status # "absent"
  <2>1. CASE row' = row  BY <1>2, <2>1
  <2>2. ASSUME NEW ok \in BOOLEAN, NEW o \in ContactStatus, row' = SavedRow(c, ok, o, tries[g] + 1)
        PROVE  /\ row' \in [Contacts -> [status : ContactStatus \cup {"absent"}, attempts : Nat]]
               /\ \A d \in Contacts : row[d].status # "absent" => row'[d].status # "absent"
    <3>1. tries[g] + 1 \in Nat
      BY <1>2
    <3>. QED  BY <1>1, <1>2, <2>2, <3>1, RowWritten
  <2>3. "dialing" \in ContactStatus
    BY DEF ContactStatus
  <2>. QED  BY <1>2, <2>1, <2>2, <2>3, DialDoes
<1>4. calls' \in [Contacts -> Nat]
  <2>1. [calls EXCEPT ![c] = @ + 1] \in [Contacts -> Nat]
    BY <1>1, <1>2
  <2>. QED  BY <1>2, <2>1, DialDoes
<1>5. queue' \in Seq(Contacts)
  <2>1. Append(queue, c) \in Seq(Contacts)
    BY <1>1, <1>2
  <2>. QED  BY <1>2, <2>1, DialDoes
<1>6. /\ pc' \in [Dials -> {"idle", "get", "begin", "calling", "retry", "release"}]
      /\ owner' \in [Dials -> Pools \cup {None}]
      /\ contact' \in [Dials -> Contacts \cup {None}]
  BY DEF DialOne, GetContact, BeginCall, EndCall, Requeue, Release, DialTo, TInv, TypeOK
<1>7. tries' \in [Dials -> Nat]
  <2>1. tries \in [Dials -> Nat]
    BY DEF TInv, TypeOK
  <2>2. \E n \in Nat : tries' = [tries EXCEPT ![g] = n]
    <3>1. tries = [tries EXCEPT ![g] = tries[g]] /\ tries[g] + 1 \in Nat
      BY <1>2, <2>1
    <3>. QED
      BY <1>2, <3>1 DEF DialOne, GetContact, BeginCall, EndCall, Requeue, Release
  <2>. QED  BY <2>1, <2>2
<1>8. outcome' \in [Dials -> ContactStatus]
  <2>1. outcome \in [Dials -> ContactStatus] /\ {"failed", "dialing", "pending"} \subseteq ContactStatus
    BY DEF TInv, TypeOK, ContactStatus
  <2>2. Outcomes \cup {"failed"} \subseteq ContactStatus
    BY <1>2, <2>1, OutcomesAssumption
  <2>. QED
    BY <2>1, <2>2 DEF DialOne, GetContact, BeginCall, EndCall, Requeue, Release
<1>9. TypeOK'
  BY <1>1, <1>3, <1>4, <1>5, <1>6, <1>7, <1>8 DEF TInv, TypeOK
<1>10. Shape'
  <2>1. ASSUME NEW h \in Dials
        PROVE  /\ pc'[h] # "idle" => /\ contact'[h] \in Contacts /\ owner'[h] \in Pools
                                     /\ loop'[owner'[h]] \notin {"unused", "start"}
               /\ pc'[h] \in {"begin", "calling", "retry"} => row'[contact'[h]].status # "absent"
               /\ pc'[h] = "retry" => outcome'[h] \in CallOutcome
    <3>1. CASE h # g
      BY <1>1, <1>3, <3>1 DEF TInv, Shape
    <3>2. CASE h = g
      <4>1. pc'[g] # "idle" => contact'[g] = c /\ owner'[g] = owner[g]
        BY DialDoes
      <4>2. pc'[g] \in {"begin", "calling", "retry"} => row[c].status # "absent"
        BY DialDoes DEF TInv, Shape
      <4>3. pc'[g] = "retry" => outcome'[g] \in CallOutcome
        BY DialDoes DEF TInv, TypeOK
      <4>. HIDE DEF c
      <4>4. pc'[g] \in {"begin", "calling", "retry"} => row'[c].status # "absent" /\ pc'[g] # "idle"
        BY <1>1, <1>3, <4>2
      <4>. QED  BY <1>1, <3>2, <4>1, <4>3, <4>4
    <3>. QED  BY <3>1, <3>2
  <2>2. UNCHANGED <<loop, hand, cancelled, halted>>
    BY <1>1
  <2>. QED  BY <2>1, <2>2 DEF TInv, Shape
<1>. QED  BY <1>9, <1>10 DEF TInv

LEMMA TypeCrash == TInv /\ Crash => TInv'
<1> SUFFICES ASSUME TInv, Crash PROVE TInv'
  OBVIOUS
<1>1. InFlight \subseteq Contacts
  BY DEF InFlight, Working, TInv, TypeOK, Shape
<1>2. /\ crashes' \in 0..MaxCrashes /\ dropped' \subseteq Contacts
      /\ UNCHANGED <<stored, creates, asked, faults, orderly, halted, pushed, calls>>
  BY <1>1, BoundsTyped DEF Crash, Bounds, TInv, TypeOK
<1>3. /\ registry' \in Pools \cup {None}
      /\ at' \in [Requests -> {"idle", "look", "mark", "insert", "contacts", "enqueue",
                               "register", "pause", "resume", "stop", "close"}]
      /\ target' \in [Requests -> Pools \cup {None}]
      /\ ids' \in [Requests -> SUBSET Contacts]
      /\ hours' \in [Requests -> BOOLEAN]
  BY DEF Crash, Forget, NoRequests, Nobody, Never
<1>4. /\ state' \in [Pools -> CampaignStatus]
      /\ loop' \in [Pools -> {"unused", "start", "check", "dequeue", "acquire", "drain",
                              "record", "done"}]
      /\ cancelled' \in [Pools -> BOOLEAN] /\ timed' \in [Pools -> BOOLEAN]
      /\ hand' \in [Pools -> Contacts \cup {None}]
  BY DEF Crash, Forget, Nobody, Never, CampaignStatus
<1>5. /\ pc' \in [Dials -> {"idle", "get", "begin", "calling", "retry", "release"}]
      /\ owner' \in [Dials -> Pools \cup {None}]
      /\ contact' \in [Dials -> Contacts \cup {None}]
      /\ tries' \in [Dials -> Nat]
      /\ outcome' \in [Dials -> ContactStatus]
  BY DEF Crash, Forget, Nobody, ContactStatus
<1>6. TypeOK'
  BY <1>2, <1>3, <1>4, <1>5 DEF TInv, TypeOK
<1>7. Shape'
  BY DEF Crash, Forget, Nobody, Never, Shape
<1>. QED  BY <1>6, <1>7 DEF TInv

LEMMA TypeStep == TInv /\ [Next]_vars => TInv'
<1> SUFFICES ASSUME TInv, [Next]_vars PROVE TInv'
  OBVIOUS
<1>1. CASE UNCHANGED vars
  BY <1>1 DEF vars, TInv, TypeOK, Shape
<1>. QED  BY <1>1, TypeAsk, TypeServe, TypeRun, TypeDial, TypeCrash DEF Next

(* Type correctness, and that a loop holds a contact exactly while it      *)
(* waits for a slot: BRPOP's answer is looked at before it is used         *)
(* (worker_pool.go:119-134).                                               *)
THEOREM TypeCorrect == Spec => []TypeOK
BY TypeInit, TypeStep, PTL DEF Spec, TInv

-----------------------------------------------------------------------------
(* Pools of one campaign.                                                  *)
OInv == Serial /\ OnePool

(* A step of a pool makes no pool live that was not, and asks for nothing. *)
LEMMA LoopsOn ==
  ASSUME TInv, (\E p \in Pools : Run(p)) \/ (\E g \in Dials : DialOne(g)) \/ UNCHANGED vars
  PROVE  /\ UNCHANGED <<registry, at, target, creates, orderly>>
         /\ \A q \in Pools : Live(q)' => Live(q)
<1>1. ASSUME NEW p \in Pools, Run(p)
      PROVE  /\ UNCHANGED <<registry, at, target, creates, orderly>>
             /\ \A q \in Pools : Live(q)' => Live(q)
  <2>1. UNCHANGED <<registry, at, target, creates, orderly>>
    BY <1>1 DEF Run, Start, Check, Dequeue, DequeueNothing, Launch, Abandon, Finish, FinishRecord
  <2>2. Live(p) /\ \E place : loop' = [loop EXCEPT ![p] = place]
    BY <1>1 DEF Run, Start, Check, Dequeue, DequeueNothing, Launch, Abandon, Finish, FinishRecord,
       LoopTo, Live
  <2>3. \A q \in Pools \ {p} : loop'[q] = loop[q]
    BY <2>2 DEF TInv, TypeOK
  <2>. QED  BY <2>1, <2>2, <2>3 DEF Live
<1>2. ASSUME NEW g \in Dials, DialOne(g)
      PROVE  UNCHANGED <<registry, at, target, creates, orderly, loop>>
  BY <1>2, DialFrame
<1>3. CASE UNCHANGED vars
  BY <1>3 DEF vars, Live
<1>. QED  BY <1>1, <1>2, <1>3 DEF Live

(* What a request that is served does to the map and to itself.            *)
LEMMA ServeFrame ==
  ASSUME TInv, NEW r \in Requests, Serve(r)
  PROVE  /\ UNCHANGED <<creates, orderly>> /\ at[r] # "idle"
         /\ \A s \in Requests \ {r} : at'[s] = at[s] /\ target'[s] = target[s] /\ ids'[s] = ids[s]
         /\ Creating(r)' => Creating(r) /\ at'[r] # at[r]
         /\ at'[r] = "register" => Creating(r) \/ (at[r] = "resume" /\ target[r] = None)
         /\ at'[r] # "resume"
         /\ \/ UNCHANGED <<registry, loop>>
            \/ /\ at[r] = "register" /\ at'[r] = "idle"
               /\ \E p \in Pools :
                    loop[p] = "unused" /\ registry' = p /\ loop' = [loop EXCEPT ![p] = "start"]
<1>1. UNCHANGED <<creates, orderly>> /\ at[r] # "idle"
  BY DEF Serve, LookUp, MarkRunning, InsertCampaign, AddContacts, Enqueue, Register, Pause,
     ResumePool, ResumeRow, StopPool, StopClear, StopRecord
<1>2. /\ \E place : at' = [at EXCEPT ![r] = place]
      /\ target' = target \/ target' = [target EXCEPT ![r] = None]
      /\ ids' = ids \/ \E S : ids' = [ids EXCEPT ![r] = S]
  BY DEF Serve, LookUp, MarkRunning, InsertCampaign, AddContacts, Enqueue, Register, Pause,
     ResumePool, ResumeRow, StopPool, StopClear, StopRecord, Proceed, Return, Goto
<1>3. /\ Creating(r)' => Creating(r) /\ at'[r] # at[r]
      /\ at'[r] = "register" => Creating(r) \/ (at[r] = "resume" /\ target[r] = None)
      /\ at'[r] # "resume"
  BY DEF Serve, LookUp, MarkRunning, InsertCampaign, AddContacts, Enqueue, Register, Pause,
     ResumePool, ResumeRow, StopPool, StopClear, StopRecord, Proceed, Return, Goto, Creating,
     TInv, TypeOK
<1>4. \/ UNCHANGED <<registry, loop>>
      \/ /\ at[r] = "register" /\ at'[r] = "idle"
         /\ \E p \in Pools :
              loop[p] = "unused" /\ registry' = p /\ loop' = [loop EXCEPT ![p] = "start"]
  <2>1. CASE Register(r)
    BY <2>1 DEF Register, Return, Goto, TInv, TypeOK
  <2>2. CASE ~Register(r)
    BY <2>2 DEF Serve, LookUp, MarkRunning, InsertCampaign, AddContacts, Enqueue, Pause,
       ResumePool, ResumeRow, StopPool, StopClear, StopRecord
  <2>. QED  BY <2>1, <2>2
<1>5. \A s \in Requests \ {r} : at'[s] = at[s] /\ target'[s] = target[s] /\ ids'[s] = ids[s]
  BY <1>2 DEF TInv, TypeOK
<1>. QED  BY <1>1, <1>3, <1>4, <1>5

LEMMA OnePoolInit == Init => OInv
BY DEF Init, OInv, Serial, OnePool, Live, NoRequests, Creating

LEMMA OnePoolStep == TInv /\ OInv /\ [Next]_vars => OInv'
<1> SUFFICES ASSUME TInv, OInv, [Next]_vars, orderly' PROVE Serial' /\ OnePool'
  BY DEF OInv, Serial, OnePool
<1>1. ASSUME orderly
      PROVE  /\ \A r, s \in Requests : at[r] # "idle" /\ at[s] # "idle" => r = s
             /\ creates = 0 => registry = None /\ \A r \in Requests : at[r] = "idle"
             /\ \A r \in Requests :
                  /\ Creating(r) \/ at[r] = "register" => registry = None
                  /\ at[r] = "resume" => target[r] = registry
             /\ \A p \in Pools : Live(p) => registry = p
  BY <1>1 DEF OInv, Serial, OnePool
<1>2. ASSUME NEW r \in Requests, AskCreate(r) PROVE Serial' /\ OnePool'
  <2>1. orderly /\ Alone(r) /\ creates = 0 /\ creates' = creates + 1 /\ at[r] = "idle"
        /\ UNCHANGED <<registry, loop>> /\ at' = [at EXCEPT ![r] = "look"]
    BY <1>2 DEF AskCreate, Goto
  <2>2. at'[r] = "look" /\ creates' = 1
        /\ \A s \in Requests \ {r} : at'[s] = at[s] /\ at[s] = "idle"
    BY <2>1 DEF Alone, TInv, TypeOK
  <2>. QED  BY <1>1, <2>1, <2>2 DEF Serial, OnePool, Live, Creating
<1>3. ASSUME NEW r \in Requests, NEW place \in {"pause", "resume", "stop"}, Ask(r, place)
      PROVE  Serial' /\ OnePool'
  <2>1. orderly /\ creates > 0 /\ at'[r] = place /\ target'[r] = registry
        /\ UNCHANGED <<registry, loop, creates>>
        /\ \A s \in Requests \ {r} : at'[s] = "idle"
    BY <1>3 DEF Ask, Alone, Goto, TInv, TypeOK
  <2>2. OnePool'
    BY <1>1, <2>1 DEF OnePool, Live
  <2>3. \A s, t \in Requests : at'[s] # "idle" /\ at'[t] # "idle" => s = t
    BY <2>1
  <2>4. \A s \in Requests : ~Creating(s)' /\ at'[s] # "register"
                              /\ (at'[s] = "resume" => target'[s] = registry')
    BY <2>1 DEF Creating
  <2>5. creates' # 0
    BY <2>1
  <2>. QED  BY <2>2, <2>3, <2>4, <2>5 DEF Serial
<1>4. ASSUME NEW r \in Requests, Serve(r) PROVE Serial' /\ OnePool'
  <2>1. /\ UNCHANGED <<creates, orderly>> /\ at[r] # "idle"
        /\ \A s \in Requests \ {r} : at'[s] = at[s] /\ target'[s] = target[s]
        /\ Creating(r)' => Creating(r)
        /\ at'[r] = "register" => Creating(r) \/ (at[r] = "resume" /\ target[r] = None)
        /\ at'[r] # "resume"
    BY <1>4, ServeFrame
  <2>2. \A s \in Requests \ {r} : at[s] = "idle" /\ at'[s] = "idle"
    BY <1>1, <2>1
  <2>3. CASE UNCHANGED <<registry, loop>>
    <3>1. Creating(r)' \/ at'[r] = "register" => registry' = None
      BY <1>1, <2>1, <2>3
    <3>. QED  BY <1>1, <2>1, <2>2, <2>3, <3>1 DEF Serial, OnePool, Live, Creating
  <2>4. ASSUME NEW p \in Pools, loop[p] = "unused", registry' = p,
               loop' = [loop EXCEPT ![p] = "start"], at[r] = "register", at'[r] = "idle"
        PROVE  Serial' /\ OnePool'
    <3>1. \A q \in Pools : ~Live(q)
      BY <1>1, <2>1, <2>4, NoneAssumption
    <3>2. \A q \in Pools \ {p} : ~Live(q)'
      <4>1. \A q \in Pools \ {p} : loop'[q] = loop[q]
        BY <2>4 DEF TInv, TypeOK
      <4>. QED  BY <3>1, <4>1 DEF Live
    <3>3. creates # 0
      BY <1>1, <2>1
    <3>. QED  BY <2>1, <2>2, <2>4, <3>2, <3>3 DEF Serial, OnePool, Creating
  <2>. QED  BY <1>4, <2>3, <2>4, ServeFrame
<1>5. CASE (\E p \in Pools : Run(p)) \/ (\E g \in Dials : DialOne(g)) \/ UNCHANGED vars
  <2>1. /\ UNCHANGED <<registry, at, target, creates, orderly>>
        /\ \A q \in Pools : Live(q)' => Live(q)
    BY <1>5, LoopsOn
  <2>. QED  BY <1>1, <2>1 DEF Serial, OnePool, Creating
<1>6. CASE Crash
  <2>1. /\ registry' = None /\ \A r \in Requests : at'[r] = "idle"
        /\ \A p \in Pools : loop'[p] = "unused"
    BY <1>6 DEF Crash, Forget, NoRequests
  <2>. QED  BY <2>1 DEF Serial, OnePool, Live, Creating
<1>. QED  BY <1>2, <1>3, <1>4, <1>5, <1>6 DEF Next, AskPause, AskResume, AskStop

(* Requests that come one at a time never make two pools that run at once, *)
(* whatever their number, and across restarts: the map is the only thing   *)
(* that keeps pools apart (service.go:151-166 and 202-223).                *)
THEOREM OnePoolHolds == Spec => []OnePool
<1>1. OInv => OnePool
  BY DEF OInv
<1>. QED  BY <1>1, TypeInit, TypeStep, OnePoolInit, OnePoolStep, PTL DEF Spec

-----------------------------------------------------------------------------
(* What the steps do to the queue, to who holds a contact, and to rows.    *)
LEMMA AskFrame ==
  ASSUME TInv, NEW r \in Requests, AskCreate(r) \/ AskPause(r) \/ AskResume(r) \/ AskStop(r)
  PROVE  /\ UNCHANGED <<pools, dials, stored, faults, halted, pushed, calls, dropped>>
         /\ \A s \in Requests \ {r} : at'[s] = at[s] /\ ids'[s] = ids[s]
         /\ at[r] = "idle"
         /\ \/ creates' = creates /\ ids' = ids /\ at'[r] \in {"pause", "resume", "stop"}
            \/ AskCreate(r) /\ creates' = creates + 1 /\ at'[r] = "look"
<1>1. CASE AskCreate(r)
  BY <1>1 DEF AskCreate, Goto, TInv, TypeOK
<1>2. ASSUME NEW place \in {"pause", "resume", "stop"}, Ask(r, place)
      PROVE  /\ UNCHANGED <<pools, dials, stored, faults, halted, pushed, calls, dropped>>
             /\ at' = [at EXCEPT ![r] = place] /\ at[r] = "idle"
             /\ creates' = creates /\ ids' = ids
  BY <1>2 DEF Ask, Goto
<1>. QED  BY <1>1, <1>2 DEF AskPause, AskResume, AskStop, TInv, TypeOK

LEMMA ServeStored ==
  ASSUME TInv, NEW r \in Requests, Serve(r)
  PROVE  /\ UNCHANGED <<hand, dials, calls, dropped>> /\ (halted => halted') /\ faults' >= faults
         /\ \A p \in Pools : loop[p] # "start" /\ cancelled[p] => cancelled'[p]
         /\ \/ /\ AddContacts(r) /\ at[r] = "contacts" /\ at'[r] = "enqueue"
               /\ UNCHANGED <<queue, pushed>>
            \/ /\ at[r] = "enqueue" /\ at'[r] = "register" /\ ids' = ids
               /\ queue' = queue \o SetToSeq(ids[r]) /\ pushed' = pushed \cup ids[r]
               /\ UNCHANGED row
            \/ /\ UNCHANGED <<row, pushed>> /\ at'[r] # "enqueue"
               /\ queue' = queue \/ (queue' = <<>> /\ halted')
               /\ Carrying(r)' => Carrying(r) /\ ids'[r] = ids[r]
<1>. DEFINE Rest == \/ LookUp(r) \/ MarkRunning(r) \/ InsertCampaign(r) \/ Register(r)
                    \/ Pause(r) \/ ResumePool(r) \/ ResumeRow(r) \/ StopRecord(r)
<1>0. faults \in Nat
  BY DEF TInv, TypeOK
<1>1. CASE AddContacts(r)
  <2>1. /\ UNCHANGED <<hand, dials, calls, dropped, halted, cancelled, queue, pushed>>
        /\ at[r] = "contacts" /\ at' = [at EXCEPT ![r] = "enqueue"]
        /\ \E ok \in BOOLEAN : Attempt(ok)
    BY <1>1 DEF AddContacts, Goto
  <2>2. faults' >= faults
    BY <1>0, <2>1 DEF Attempt
  <2>. QED  BY <1>1, <2>1, <2>2 DEF TInv, TypeOK
<1>2. CASE Enqueue(r)
  <2>1. /\ UNCHANGED <<hand, dials, calls, dropped, halted, cancelled, row>>
        /\ at[r] = "enqueue"
        /\ \/ /\ Attempt(TRUE) /\ queue' = queue \o SetToSeq(ids[r])
              /\ pushed' = pushed \cup ids[r] /\ Proceed(r, "register")
           \/ Attempt(FALSE) /\ Return(r) /\ UNCHANGED <<queue, pushed>>
    BY <1>2 DEF Enqueue
  <2>2. faults' >= faults
    BY <1>0, <2>1 DEF Attempt
  <2>. QED  BY <2>1, <2>2 DEF TInv, TypeOK, Proceed, Return, Goto, Carrying
<1>3. CASE StopPool(r)
  <2>1. /\ UNCHANGED <<hand, dials, calls, dropped, row, pushed>> /\ Return(r)
        /\ \/ UNCHANGED <<cancelled, halted, faults, queue>>
           \/ /\ halted'
              /\ cancelled' = [cancelled EXCEPT ![target[r]] = loop[target[r]] # "start"]
              /\ \E saved, cleared \in BOOLEAN :
                   /\ faults' = faults + (IF saved THEN 0 ELSE 1) + (IF cleared THEN 0 ELSE 1)
                   /\ queue' = IF cleared THEN <<>> ELSE queue
    BY <1>3 DEF StopPool
  <2>2. faults' >= faults /\ (halted => halted')
    BY <1>0, <2>1
  <2>3. \A p \in Pools : loop[p] # "start" /\ cancelled[p] => cancelled'[p]
    BY <2>1 DEF TInv, TypeOK
  <2>4. queue' = queue \/ (queue' = <<>> /\ halted')
    BY <2>1
  <2>5. at'[r] = "idle"
    BY <2>1 DEF Return, Goto, TInv, TypeOK
  <2>. QED  BY <2>1, <2>2, <2>3, <2>4, <2>5 DEF Carrying
<1>4. CASE StopClear(r)
  <2>1. /\ UNCHANGED <<hand, dials, calls, dropped, row, pushed, cancelled>> /\ halted'
        /\ at' = [at EXCEPT ![r] = "close"]
        /\ \E ok \in BOOLEAN : Attempt(ok) /\ queue' = IF ok THEN <<>> ELSE queue
    BY <1>4 DEF StopClear, Proceed, Goto
  <2>2. faults' >= faults
    BY <1>0, <2>1 DEF Attempt
  <2>3. at'[r] = "close"
    BY <2>1 DEF TInv, TypeOK
  <2>. QED  BY <2>1, <2>2, <2>3 DEF Carrying
<1>5. CASE Rest
  <2>1. UNCHANGED <<hand, dials, calls, dropped, row, pushed, cancelled, halted, queue>>
    BY <1>5 DEF LookUp, MarkRunning, InsertCampaign, Register, Pause, ResumePool, ResumeRow, StopRecord
  <2>2. UNCHANGED faults \/ \E ok \in BOOLEAN : Attempt(ok)
    BY <1>5 DEF LookUp, MarkRunning, InsertCampaign, Register, Pause, ResumePool, ResumeRow, StopRecord
  <2>3. faults' >= faults
    BY <1>0, <2>2 DEF Attempt
  <2>4. at'[r] # "enqueue" /\ (Carrying(r)' => Carrying(r) /\ ids'[r] = ids[r])
    BY <1>5 DEF LookUp, MarkRunning, InsertCampaign, Register, Pause, ResumePool, ResumeRow,
       StopRecord, Proceed, Return, Goto, TInv, TypeOK, Carrying
  <2>. QED  BY <2>1, <2>3, <2>4
<1>. QED  BY <1>1, <1>2, <1>3, <1>4, <1>5 DEF Serve

LEMMA RunFrame ==
  ASSUME TInv, NEW p \in Pools, Run(p)
  PROVE  /\ UNCHANGED <<api, row, creates, halted, pushed, calls, dropped, cancelled, tries, outcome>>
         /\ faults' >= faults
         /\ \A q \in Pools \ {p} : hand'[q] = hand[q]
         /\ \/ /\ hand[p] = None /\ queue # <<>> /\ queue' = Tail(queue) /\ hand'[p] = Head(queue)
               /\ UNCHANGED <<pc, owner, contact>>
            \/ \E g \in Dials :
                 /\ hand[p] # None /\ hand'[p] = None /\ pc[g] = "idle" /\ pc'[g] = "get"
                 /\ contact'[g] = hand[p] /\ owner'[g] = p /\ queue' = queue
                 /\ \A h \in Dials \ {g} :
                      pc'[h] = pc[h] /\ contact'[h] = contact[h] /\ owner'[h] = owner[h]
            \/ /\ UNCHANGED <<pc, owner, contact, queue>>
               /\ hand'[p] = hand[p] \/ (hand'[p] = None /\ cancelled[p])
<1>. DEFINE Rest == \/ Start(p) \/ Check(p) \/ DequeueNothing(p) \/ Finish(p) \/ FinishRecord(p)
<1>0. faults \in Nat
  BY DEF TInv, TypeOK
<1>1. CASE Dequeue(p)
  <2>1. hand[p] = None
    BY <1>1 DEF Dequeue, TInv, Shape
  <2>. QED  BY <1>0, <1>1, <2>1 DEF Dequeue, TInv, TypeOK
<1>2. ASSUME NEW g \in Dials, Launch(p, g)
      PROVE  /\ UNCHANGED <<api, row, creates, halted, pushed, calls, dropped, cancelled, tries,
                            outcome, faults, queue>>
             /\ \A q \in Pools \ {p} : hand'[q] = hand[q]
             /\ hand[p] # None /\ hand'[p] = None /\ pc[g] = "idle" /\ pc'[g] = "get"
             /\ contact'[g] = hand[p] /\ owner'[g] = p
             /\ \A h \in Dials \ {g} :
                  pc'[h] = pc[h] /\ contact'[h] = contact[h] /\ owner'[h] = owner[h]
  BY <1>2 DEF Launch, TInv, TypeOK, Shape
<1>3. CASE Abandon(p)
  BY <1>0, <1>3 DEF Abandon, TInv, TypeOK
<1>4. CASE Rest
  <2>1. UNCHANGED <<api, row, creates, halted, pushed, calls, dropped, cancelled, tries, outcome,
                    pc, owner, contact, queue, hand>>
    BY <1>4 DEF Start, Check, DequeueNothing, Finish, FinishRecord
  <2>2. UNCHANGED faults \/ \E ok \in BOOLEAN : AttemptOf(p, ok)
    BY <1>4 DEF Start, Check, DequeueNothing, Finish, FinishRecord
  <2>3. faults' >= faults
    BY <1>0, <2>2 DEF AttemptOf
  <2>. QED  BY <2>1, <2>3
<1>. QED  BY <1>0, <1>1, <1>2, <1>3, <1>4 DEF Run

-----------------------------------------------------------------------------
(* Where the contacts are.                                                 *)
InList(s, c) == \E i \in DOMAIN s : s[i] = c

PInv == Origins /\ Single /\ OnePlace

(* The rest of a list without repetition does not contain its head.        *)
LEMMA TailOnce ==
  ASSUME NEW S, NEW s \in Seq(S), s # <<>>
  PROVE  /\ Head(s) \in S /\ InList(s, Head(s))
         /\ \A c : InList(Tail(s), c) => InList(s, c)
         /\ \A c : InList(s, c) => InList(Tail(s), c) \/ c = Head(s)
         /\ IsInjective(s) => IsInjective(Tail(s)) /\ ~InList(Tail(s), Head(s))
<1>1. /\ Len(s) \in Nat \ {0} /\ DOMAIN s = 1..Len(s) /\ Head(s) = s[1] /\ s[1] \in S
      /\ DOMAIN Tail(s) = 1..(Len(s) - 1)
      /\ \A i \in 1..(Len(s) - 1) : Tail(s)[i] = s[i + 1]
  OBVIOUS
<1>2. ASSUME IsInjective(s) PROVE IsInjective(Tail(s))
  <2> SUFFICES ASSUME NEW i \in 1..(Len(s) - 1), NEW j \in 1..(Len(s) - 1),
                      Tail(s)[i] = Tail(s)[j]
               PROVE  i = j
    BY <1>1 DEF IsInjective
  <2>1. i + 1 \in DOMAIN s /\ j + 1 \in DOMAIN s /\ s[i + 1] = s[j + 1]
    BY <1>1
  <2>2. i + 1 = j + 1
    BY <1>2, <2>1 DEF IsInjective
  <2>. QED  BY <2>2
<1>3. \A c : InList(Tail(s), c) => InList(s, c)
  <2> SUFFICES ASSUME NEW i \in 1..(Len(s) - 1) PROVE InList(s, Tail(s)[i])
    BY <1>1 DEF InList
  <2>1. i + 1 \in DOMAIN s /\ s[i + 1] = Tail(s)[i]
    BY <1>1
  <2>. QED  BY <2>1 DEF InList
<1>4. \A c : InList(s, c) => InList(Tail(s), c) \/ c = Head(s)
  <2> SUFFICES ASSUME NEW i \in 1..Len(s), s[i] # Head(s) PROVE InList(Tail(s), s[i])
    BY <1>1 DEF InList
  <2>1. i - 1 \in 1..(Len(s) - 1) /\ (i - 1) + 1 = i
    BY <1>1
  <2>2. Tail(s)[i - 1] = s[i]
    BY <1>1, <2>1
  <2>. QED  BY <1>1, <2>1, <2>2 DEF InList
<1>5. ASSUME IsInjective(s), InList(Tail(s), Head(s)) PROVE FALSE
  <2>1. PICK i \in 1..(Len(s) - 1) : Tail(s)[i] = s[1]
    BY <1>1, <1>5 DEF InList
  <2>2. i + 1 \in DOMAIN s /\ 1 \in DOMAIN s /\ i + 1 # 1 /\ s[i + 1] = s[1]
    BY <1>1, <2>1
  <2>. QED  BY <1>5, <2>2 DEF IsInjective
<1>6. InList(s, Head(s))
  BY <1>1 DEF InList
<1>. QED  BY <1>1, <1>2, <1>3, <1>4, <1>5, <1>6

(* Appending what a list does not contain keeps it without repetition.     *)
LEMMA AppendOnce ==
  ASSUME NEW S, NEW s \in Seq(S), NEW x \in S
  PROVE  /\ \A c : InList(Append(s, x), c) <=> InList(s, c) \/ c = x
         /\ IsInjective(s) /\ ~InList(s, x) => IsInjective(Append(s, x))
<1>1. /\ Len(s) \in Nat /\ DOMAIN s = 1..Len(s)
      /\ DOMAIN Append(s, x) = 1..(Len(s) + 1)
      /\ \A i \in 1..Len(s) : Append(s, x)[i] = s[i]
      /\ Append(s, x)[Len(s) + 1] = x
  OBVIOUS
<1>2. ASSUME IsInjective(s), ~InList(s, x) PROVE IsInjective(Append(s, x))
  <2> SUFFICES ASSUME NEW i \in 1..(Len(s) + 1), NEW j \in 1..(Len(s) + 1),
                      Append(s, x)[i] = Append(s, x)[j]
               PROVE  i = j
    BY <1>1 DEF IsInjective
  <2>1. CASE i \in 1..Len(s) /\ j \in 1..Len(s)
    BY <1>1, <1>2, <2>1 DEF IsInjective
  <2>2. CASE i = Len(s) + 1 \/ j = Len(s) + 1
    BY <1>1, <1>2, <2>2 DEF InList
  <2>. QED  BY <1>1, <2>1, <2>2
<1>3. ASSUME NEW c PROVE InList(Append(s, x), c) <=> InList(s, c) \/ c = x
  <2>1. \A i \in 1..(Len(s) + 1) : i \in 1..Len(s) \/ i = Len(s) + 1
    BY <1>1
  <2>2. 1..Len(s) \subseteq 1..(Len(s) + 1) /\ Len(s) + 1 \in 1..(Len(s) + 1)
    BY <1>1
  <2>. QED  BY <1>1, <2>1, <2>2 DEF InList
<1>. QED  BY <1>2, <1>3

(* What one list holds followed by another.                                *)
LEMMA ConcatHolds ==
  ASSUME NEW S, NEW s \in Seq(S), NEW t \in Seq(S)
  PROVE  /\ \A c : InList(s \o t, c) <=> InList(s, c) \/ InList(t, c)
         /\ s = <<>> => s \o t = t
<1>1. /\ Len(s) \in Nat /\ DOMAIN s = 1..Len(s) /\ Len(t) \in Nat /\ DOMAIN t = 1..Len(t)
      /\ DOMAIN (s \o t) = 1..(Len(s) + Len(t))
      /\ \A i \in 1..Len(s) : (s \o t)[i] = s[i]
      /\ \A i \in 1..Len(t) : (s \o t)[Len(s) + i] = t[i]
  OBVIOUS
<1>2. ASSUME NEW c PROVE InList(s \o t, c) <=> InList(s, c) \/ InList(t, c)
  <2>1. ASSUME NEW i \in 1..(Len(s) + Len(t)) PROVE InList(s, (s \o t)[i]) \/ InList(t, (s \o t)[i])
    <3>1. CASE i <= Len(s)  BY <1>1, <3>1 DEF InList
    <3>2. CASE i > Len(s)
      <4>1. i - Len(s) \in 1..Len(t) /\ Len(s) + (i - Len(s)) = i
        BY <1>1, <3>2
      <4>2. (s \o t)[i] = t[i - Len(s)]
        BY <1>1, <4>1
      <4>. QED  BY <1>1, <4>1, <4>2 DEF InList
    <3>. QED  BY <1>1, <3>1, <3>2
  <2>2. ASSUME NEW i \in 1..Len(s) PROVE InList(s \o t, s[i])
    BY <1>1 DEF InList
  <2>3. ASSUME NEW i \in 1..Len(t) PROVE InList(s \o t, t[i])
    <3>1. Len(s) + i \in 1..(Len(s) + Len(t))
      BY <1>1
    <3>. QED  BY <1>1, <3>1 DEF InList
  <2>4. ASSUME InList(s \o t, c) PROVE InList(s, c) \/ InList(t, c)
    <3>1. PICK i \in 1..(Len(s) + Len(t)) : (s \o t)[i] = c
      BY <1>1, <2>4 DEF InList
    <3>. QED  BY <2>1, <3>1
  <2>5. ASSUME InList(s, c) PROVE InList(s \o t, c)
    <3>1. PICK i \in 1..Len(s) : s[i] = c
      BY <1>1, <2>5 DEF InList
    <3>. QED  BY <2>2, <3>1
  <2>6. ASSUME InList(t, c) PROVE InList(s \o t, c)
    <3>1. PICK i \in 1..Len(t) : t[i] = c
      BY <1>1, <2>6 DEF InList
    <3>. QED  BY <2>3, <3>1
  <2>. QED  BY <2>4, <2>5, <2>6
<1>. QED  BY <1>2

LEMMA InFlightIs ==
  \A c : c \in InFlight <=> \/ \E p \in Pools : hand[p] # None /\ hand[p] = c
                            \/ \E g \in Dials : Working(g) /\ contact[g] = c
BY DEF InFlight

(* What a step of each kind can bring where.                               *)
LEMMA ServeWhere ==
  ASSUME TInv, NEW r \in Requests, Serve(r)
  PROVE  /\ InFlight' = InFlight /\ pushed \subseteq pushed' /\ dropped' = dropped /\ calls' = calls
         /\ \A c : InQueue(c)' => InQueue(c) \/ (at[r] = "enqueue" /\ at'[r] = "register" /\ c \in pushed')
         /\ pushed' # pushed => at[r] = "enqueue" /\ at'[r] = "register"
         /\ \A c \in Contacts : row[c].attempts = 0 => row'[c].attempts = 0
<1>1. UNCHANGED <<hand, dials, calls, dropped>>
  BY ServeStored
<1>2. InFlight' = InFlight
  BY <1>1 DEF InFlight, Working
<1>3. CASE AddContacts(r) /\ UNCHANGED <<queue, pushed>>
  <2>1. row' = row \/ row' = [c \in Contacts |-> IF c \in ids[r] THEN Pending ELSE row[c]]
    BY <1>3 DEF AddContacts
  <2>2. Pending.attempts = 0
    BY DEF Pending
  <2>. HIDE DEF Pending
  <2>3. \A c \in Contacts : row[c].attempts = 0 => row'[c].attempts = 0
    BY <2>1, <2>2
  <2>. QED  BY <1>1, <1>2, <1>3, <2>3 DEF InQueue
<1>4. CASE /\ at[r] = "enqueue" /\ at'[r] = "register" /\ row' = row
           /\ queue' = queue \o SetToSeq(ids[r]) /\ pushed' = pushed \cup ids[r]
  <2>1. ids[r] \in SUBSET Contacts /\ IsFiniteSet(ids[r]) /\ queue \in Seq(Contacts)
    BY ContactsAssumption, FS_Subset DEF TInv, TypeOK
  <2>2. SetToSeq(ids[r]) \in Seq(Contacts) /\ \A c : InList(SetToSeq(ids[r]), c) => c \in ids[r]
    BY <2>1, SetToSeqIs DEF InList
  <2>3. \A c : InQueue(c)' => InQueue(c) \/ c \in ids[r]
    BY <1>4, <2>1, <2>2, ConcatHolds DEF InQueue, InList
  <2>. QED  BY <1>1, <1>2, <1>4, <2>3
<1>5. CASE UNCHANGED <<row, pushed>> /\ (queue' = queue \/ queue' = <<>>)
  BY <1>1, <1>2, <1>5 DEF InQueue
<1>. QED  BY <1>3, <1>4, <1>5, ServeStored

LEMMA RunWhere ==
  ASSUME TInv, NEW p \in Pools, Run(p)
  PROVE  /\ UNCHANGED <<pushed, dropped, calls, row>>
         /\ \A c : InQueue(c)' => InQueue(c)
         /\ \A c \in InFlight' : c \in InFlight \/ InQueue(c)
<1>1. UNCHANGED <<pushed, dropped, calls, row>> /\ \A q \in Pools \ {p} : hand'[q] = hand[q]
  BY RunFrame
<1>2. CASE /\ queue # <<>> /\ queue' = Tail(queue) /\ hand'[p] = Head(queue)
           /\ UNCHANGED <<pc, owner, contact>>
  <2>1. queue \in Seq(Contacts)
    BY DEF TInv, TypeOK
  <2>2. InQueue(Head(queue)) /\ \A c : InQueue(c)' => InQueue(c)
    BY <1>2, <2>1, TailOnce DEF InQueue, InList
  <2>. QED  BY <1>1, <1>2, <2>2 DEF InFlight, Working
<1>3. ASSUME NEW g \in Dials,
             hand[p] # None, hand'[p] = None, contact'[g] = hand[p], queue' = queue,
             \A h \in Dials \ {g} : pc'[h] = pc[h] /\ contact'[h] = contact[h]
      PROVE  /\ \A c : InQueue(c)' => InQueue(c)
             /\ \A c \in InFlight' : c \in InFlight
  BY <1>1, <1>3 DEF InFlight, Working, InQueue
<1>4. CASE UNCHANGED <<pc, owner, contact, queue>> /\ hand'[p] \in {hand[p], None}
  BY <1>1, <1>4 DEF InFlight, Working, InQueue
<1>. QED  BY <1>1, <1>2, <1>3, <1>4, RunFrame

LEMMA DialWhere ==
  ASSUME TInv, NEW g \in Dials, DialOne(g)
  PROVE  /\ UNCHANGED <<pushed, dropped>> /\ contact[g] \in Contacts
         /\ InFlight' \subseteq InFlight
         /\ \A c : InQueue(c)' => InQueue(c) \/ (c = contact[g] /\ pc[g] = "retry")
         /\ Working(g) => contact[g] \in InFlight
         /\ ~Working(g) => calls' = calls /\ row' = row
         /\ \A c \in Contacts \ {contact[g]} : calls'[c] = calls[c] /\ row'[c] = row[c]
         /\ Working(g)' => Working(g) /\ contact'[g] = contact[g]
<1>1. /\ UNCHANGED <<pushed, dropped, hand>> /\ contact[g] \in Contacts
      /\ \A h \in Dials \ {g} : pc'[h] = pc[h] /\ contact'[h] = contact[h]
  BY DialFrame
<1>2. Working(g)' => Working(g) /\ contact'[g] = contact[g]
  BY DialDoes DEF Working
<1>3. InFlight' \subseteq InFlight
  BY <1>1, <1>2 DEF InFlight, Working
<1>4. \A c : InQueue(c)' => InQueue(c) \/ (c = contact[g] /\ pc[g] = "retry")
  <2>1. queue' = queue \/ (queue' = Append(queue, contact[g]) /\ pc[g] = "retry")
    BY DialDoes
  <2>2. queue \in Seq(Contacts)
    BY DEF TInv, TypeOK
  <2>. QED  BY <1>1, <2>1, <2>2, AppendOnce DEF InQueue, InList
<1>5. ~Working(g) => calls' = calls /\ row' = row
  BY DialDoes DEF Working
<1>6. \A c \in Contacts \ {contact[g]} : calls'[c] = calls[c]
  <2>1. calls' = calls \/ calls' = [calls EXCEPT ![contact[g]] = @ + 1]
    BY DialDoes
  <2>. QED  BY <1>1, <2>1 DEF TInv, TypeOK
<1>7. \A c \in Contacts \ {contact[g]} : row'[c] = row[c]
  <2>1. row' = row \/ \E ok \in BOOLEAN, o \in ContactStatus : row' = SavedRow(contact[g], ok, o, tries[g] + 1)
    <3>1. "dialing" \in ContactStatus /\ CallOutcome \subseteq ContactStatus
      BY DEF ContactStatus, CallOutcome
    <3>. QED  BY <3>1, DialDoes
  <2>2. tries[g] + 1 \in Nat
    BY DEF TInv, TypeOK
  <2>3. ASSUME NEW ok \in BOOLEAN, NEW o \in ContactStatus, row' = SavedRow(contact[g], ok, o, tries[g] + 1)
        PROVE  \A c \in Contacts \ {contact[g]} : row'[c] = row[c]
    BY <1>1, <2>2, <2>3, RowWritten DEF TInv, TypeOK
  <2>. QED  BY <2>1, <2>3
<1>8. Working(g) => contact[g] \in InFlight
  BY DEF InFlight
<1>. QED  BY <1>1, <1>2, <1>3, <1>4, <1>5, <1>6, <1>7, <1>8

LEMMA OriginsStep == TInv /\ Origins /\ [Next]_vars => Origins'
<1> SUFFICES ASSUME TInv, Origins, [Next]_vars PROVE Origins'
  OBVIOUS
<1>0. pushed \subseteq Contacts
  BY DEF TInv, TypeOK
<1>1. ASSUME NEW r \in Requests, AskCreate(r) \/ AskPause(r) \/ AskResume(r) \/ AskStop(r)
      PROVE  Origins'
  BY <1>1, AskFrame DEF Origins, InQueue, InFlight, Working
<1>2. ASSUME NEW r \in Requests, Serve(r) PROVE Origins'
  BY <1>2, ServeWhere DEF Origins
<1>3. ASSUME NEW p \in Pools, Run(p) PROVE Origins'
  <2>1. /\ UNCHANGED <<pushed, dropped, calls, row>>
        /\ \A c : InQueue(c)' => InQueue(c)
        /\ \A c \in InFlight' : c \in InFlight \/ InQueue(c)
    BY <1>3, RunWhere
  <2>2. /\ \A c : InQueue(c) => c \in Contacts
        /\ InFlight \subseteq pushed
    <3>1. queue \in Seq(Contacts)
      BY DEF TInv, TypeOK
    <3>. QED  BY <3>1 DEF InQueue, Origins
  <2>. QED  BY <2>1, <2>2 DEF Origins
<1>4. ASSUME NEW g \in Dials, DialOne(g) PROVE Origins'
  <2>1. /\ UNCHANGED <<pushed, dropped>>
        /\ InFlight' \subseteq InFlight
        /\ \A c : InQueue(c)' => InQueue(c) \/ (c = contact[g] /\ Working(g))
        /\ Working(g) => contact[g] \in pushed
        /\ ~Working(g) => calls' = calls /\ row' = row
        /\ \A c \in Contacts \ {contact[g]} : calls'[c] = calls[c] /\ row'[c] = row[c]
    BY <1>4, DialWhere DEF Origins, Working
  <2>2. \A c \in Contacts \ pushed : calls'[c] = calls[c] /\ row'[c] = row[c]
    BY <2>1
  <2>. QED  BY <2>1, <2>2 DEF Origins
<1>5. CASE Crash
  <2>1. /\ queue' = queue /\ pushed' = pushed /\ calls' = calls /\ row' = row
        /\ dropped' = dropped \cup InFlight /\ InFlight' = {}
    BY <1>5 DEF Crash, Forget, Nobody, InFlight, Working
  <2>. QED  BY <2>1 DEF Origins, InQueue
<1>6. CASE UNCHANGED vars
  BY <1>6 DEF vars, Origins, InQueue, InFlight, Working
<1>. QED  BY <1>1, <1>2, <1>3, <1>4, <1>5, <1>6 DEF Next

LEMMA PlacesInit == Init => PInv
BY NoneAssumption DEF Init, PInv, Origins, Single, OnePlace, IsInjective, InQueue, InFlight, Working,
   Nobody, NoRequests, Creating, Unborn, Pending

LEMMA CreatesGrow == TInv /\ [Next]_vars => creates' >= creates
<1> SUFFICES ASSUME TInv, [Next]_vars PROVE creates' >= creates
  OBVIOUS
<1>0. creates \in Nat
  BY BoundsTyped DEF Bounds, TInv, TypeOK
<1>1. ASSUME NEW r \in Requests, AskCreate(r) \/ AskPause(r) \/ AskResume(r) \/ AskStop(r)
      PROVE  creates' >= creates
  BY <1>0, <1>1, AskFrame
<1>2. UNCHANGED creates => creates' >= creates
  BY <1>0
<1>. QED
  BY <1>1, <1>2, ServeFrame, RunFrame, DialFrame DEF Next, Crash, vars

(* A step that brings no contact to a new place.                           *)
LEMMA PlacesKept ==
  ASSUME TInv, OnePlace, creates <= 1,
         queue' = queue \/ queue' = <<>>,
         \A p \in Pools : hand'[p] \in {hand[p], None},
         \A g \in Dials : Working(g)' => Working(g) /\ contact'[g] = contact[g]
  PROVE  OnePlace'
<1>1. IsInjective(queue') /\ \A c : InQueue(c)' => InQueue(c)
  BY DEF OnePlace, IsInjective, InQueue
<1>. QED  BY <1>1 DEF OnePlace

LEMMA OnePlaceServe ==
  ASSUME TInv, PInv, creates <= 1, NEW r \in Requests, Serve(r) PROVE OnePlace'
<1>1. UNCHANGED <<hand, dials>>
  BY ServeStored
<1>2. CASE queue' = queue \/ queue' = <<>>
  BY <1>1, <1>2, PlacesKept DEF PInv, Working
<1>3. CASE at[r] = "enqueue" /\ queue' = queue \o SetToSeq(ids[r])
  <2>1. ids[r] \in SUBSET Contacts /\ IsFiniteSet(ids[r]) /\ queue \in Seq(Contacts)
    BY ContactsAssumption, FS_Subset DEF TInv, TypeOK
  <2>2. pushed = {}
    BY <1>3 DEF PInv, Single, Creating
  <2>3. (\A c \in Contacts : ~InQueue(c)) /\ InFlight = {}
    BY <2>2 DEF PInv, Origins
  <2>4. queue = <<>>
    <3>1. queue # <<>> => Head(queue) \in Contacts /\ InList(queue, Head(queue))
      BY <2>1, TailOnce
    <3>. QED  BY <2>3, <3>1 DEF InQueue, InList
  <2>5. IsInjective(queue')
    BY <1>3, <2>1, <2>4, SetToSeqIs, ConcatHolds
  <2>6. /\ \A p \in Pools : hand'[p] = None
        /\ \A g \in Dials : ~Working(g)'
    BY <1>1, <2>3 DEF InFlight, Working
  <2>. QED  BY <2>5, <2>6 DEF OnePlace
<1>. QED  BY <1>2, <1>3, ServeStored

LEMMA OnePlaceRun ==
  ASSUME TInv, PInv, creates <= 1, NEW p \in Pools, Run(p) PROVE OnePlace'
<1>1. \A q \in Pools \ {p} : hand'[q] = hand[q]
  BY RunFrame
<1>2. /\ IsInjective(queue) /\ queue \in Seq(Contacts)
      /\ \A q \in Pools : hand[q] # None =>
           /\ ~InQueue(hand[q])
           /\ \A s \in Pools \ {q} : hand[s] # hand[q]
           /\ \A g \in Dials : Working(g) => contact[g] # hand[q]
      /\ \A g \in Dials : Working(g) =>
           /\ ~InQueue(contact[g])
           /\ \A h \in Dials \ {g} : Working(h) => contact[h] # contact[g]
  BY DEF PInv, OnePlace, TInv, TypeOK
<1>3. CASE /\ hand[p] = None /\ queue # <<>> /\ queue' = Tail(queue) /\ hand'[p] = Head(queue)
           /\ UNCHANGED <<pc, owner, contact>>
  <2>1. /\ Head(queue) \in Contacts /\ InQueue(Head(queue))
        /\ \A c : InQueue(c)' => InQueue(c)
        /\ IsInjective(queue') /\ ~InList(queue', hand'[p])
    BY <1>2, <1>3, TailOnce DEF InQueue, InList
  <2>2. hand'[p] # None /\ InQueue(hand'[p])
    BY <1>3, <2>1, NoneAssumption
  <2>3. \A g \in Dials : (Working(g)' <=> Working(g)) /\ contact'[g] = contact[g]
    BY <1>3 DEF Working
  <2>4. ASSUME NEW q \in Pools, hand'[q] # None
        PROVE  /\ ~InList(queue', hand'[q])
               /\ \A s \in Pools \ {q} : hand'[s] # hand'[q]
               /\ \A g \in Dials : Working(g) => contact[g] # hand'[q]
    <3>1. CASE q = p  BY <1>1, <1>2, <2>1, <2>2, <3>1
    <3>2. CASE q # p
      <4>1. hand'[q] = hand[q] /\ hand[q] # None
        BY <1>1, <2>4, <3>2
      <4>2. hand'[p] # hand[q]
        BY <1>2, <2>2, <4>1
      <4>3. ~InList(queue', hand[q])
        BY <1>2, <2>1, <4>1 DEF InQueue, InList
      <4>4. \A s \in Pools \ {q} : hand'[s] # hand[q]
        BY <1>1, <1>2, <4>1, <4>2
      <4>. QED  BY <1>2, <4>1, <4>3, <4>4
    <3>. QED  BY <3>1, <3>2
  <2>5. \A c : InQueue(c)' <=> InList(queue', c)
    BY DEF InQueue, InList
  <2>6. ASSUME NEW g \in Dials, Working(g)'
        PROVE  /\ ~InList(queue', contact'[g])
               /\ \A h \in Dials \ {g} : Working(h)' => contact'[h] # contact'[g]
    BY <1>2, <2>1, <2>3, <2>5, <2>6
  <2>. QED  BY <2>1, <2>3, <2>4, <2>6 DEF OnePlace, InQueue, InList
<1>4. ASSUME NEW g \in Dials,
             hand[p] # None, hand'[p] = None, pc[g] = "idle", pc'[g] = "get",
             contact'[g] = hand[p], queue' = queue,
             \A h \in Dials \ {g} : pc'[h] = pc[h] /\ contact'[h] = contact[h]
      PROVE  OnePlace'
  <2>1. IsInjective(queue') /\ \A c : InList(queue', c) <=> InQueue(c)
    BY <1>2, <1>4 DEF InQueue, InList
  <2>2. \A h \in Dials \ {g} : (Working(h)' <=> Working(h)) /\ contact'[h] = contact[h]
    BY <1>4 DEF Working
  <2>3. ASSUME NEW q \in Pools, hand'[q] # None
        PROVE  /\ ~InList(queue', hand'[q])
               /\ \A s \in Pools \ {q} : hand'[s] # hand'[q]
               /\ \A h \in Dials : Working(h)' => contact'[h] # hand'[q]
    <3>1. q # p /\ hand'[q] = hand[q]
      BY <1>1, <1>4, <2>3
    <3>2. hand[q] # hand[p]
      BY <1>2, <1>4, <3>1
    <3>3. \A h \in Dials : Working(h)' => contact'[h] # hand[q]
      BY <1>2, <1>4, <2>2, <2>3, <3>1, <3>2
    <3>. QED  BY <1>1, <1>2, <1>4, <2>1, <2>3, <3>1, <3>3
  <2>4. ASSUME NEW h \in Dials, Working(h)'
        PROVE  /\ ~InList(queue', contact'[h])
               /\ \A k \in Dials \ {h} : Working(k)' => contact'[k] # contact'[h]
    <3>1. CASE h = g
      BY <1>2, <1>4, <2>1, <2>2, <3>1
    <3>2. CASE h # g
      BY <1>2, <1>4, <2>1, <2>2, <2>4, <3>2
    <3>. QED  BY <3>1, <3>2
  <2>. QED  BY <2>1, <2>3, <2>4 DEF OnePlace, InQueue, InList
<1>5. CASE UNCHANGED <<pc, owner, contact, queue>> /\ hand'[p] \in {hand[p], None}
  BY <1>1, <1>5, PlacesKept DEF PInv, Working
<1>. QED  BY <1>3, <1>4, <1>5, RunFrame

LEMMA OnePlaceDial ==
  ASSUME TInv, PInv, creates <= 1, NEW g \in Dials, DialOne(g) PROVE OnePlace'
<1>1. /\ hand' = hand /\ contact[g] \in Contacts
      /\ \A h \in Dials \ {g} : pc'[h] = pc[h] /\ contact'[h] = contact[h]
      /\ Working(g)' => Working(g) /\ contact'[g] = contact[g]
  BY DialFrame, DialWhere
<1>2. \A h \in Dials : Working(h)' => Working(h) /\ contact'[h] = contact[h]
  BY <1>1 DEF Working
<1>3. CASE queue' = queue
  BY <1>1, <1>2, <1>3, PlacesKept DEF PInv
<1>4. CASE queue' = Append(queue, contact[g]) /\ pc[g] = "retry" /\ pc'[g] = "release"
  <2>1. Working(g) /\ ~Working(g)' /\ ~InQueue(contact[g]) /\ IsInjective(queue) /\ queue \in Seq(Contacts)
    BY <1>4 DEF PInv, OnePlace, Working, TInv, TypeOK
  <2>2. IsInjective(queue') /\ \A c : InQueue(c)' => InQueue(c) \/ c = contact[g]
    BY <1>1, <1>4, <2>1, AppendOnce DEF InQueue, InList
  <2>3. \A p \in Pools : hand[p] # None => hand[p] # contact[g]
    BY <2>1 DEF PInv, OnePlace
  <2>4. \A h \in Dials : Working(h)' => contact[h] # contact[g]
    BY <1>2, <2>1 DEF PInv, OnePlace
  <2>. QED  BY <1>1, <1>2, <2>2, <2>3, <2>4 DEF PInv, OnePlace
<1>. QED  BY <1>3, <1>4, DialDoes

LEMMA PlacesStep == TInv /\ PInv /\ [Next]_vars => PInv'
<1> SUFFICES ASSUME TInv, PInv, [Next]_vars, Origins', creates' <= 1
             PROVE  OnePlace' /\ Single'
  BY OriginsStep DEF PInv, OnePlace, Single
<1>0. creates \in Nat /\ creates <= 1
  <2>1. creates \in Nat /\ creates' >= creates
    BY CreatesGrow, BoundsTyped DEF Bounds, TInv, TypeOK
  <2>. QED
    <3>1. creates <= creates'
      BY <2>1
    <3>2. creates' \in Nat
      BY TypeStep, BoundsTyped DEF Bounds, TInv, TypeOK
    <3>. QED  BY <2>1, <3>1, <3>2
<1>1. /\ \A r \in Requests : Creating(r) => creates = 1 /\ pushed = {}
      /\ \A r, s \in Requests : Creating(r) /\ Creating(s) => r = s
      /\ creates = 0 => pushed = {}
      /\ \A c \in dropped : ~InQueue(c) /\ c \notin InFlight
      /\ dropped \subseteq pushed
  BY <1>0 DEF PInv, Single, Origins
<1>2. ASSUME NEW r \in Requests, AskCreate(r) \/ AskPause(r) \/ AskResume(r) \/ AskStop(r)
      PROVE  OnePlace' /\ Single'
  <2>1. /\ UNCHANGED <<hand, dials, queue, pushed, dropped>> /\ at[r] = "idle"
        /\ \A s \in Requests \ {r} : at'[s] = at[s]
        /\ (creates' = creates /\ at'[r] \in {"pause", "resume", "stop"})
             \/ (creates' = creates + 1 /\ at'[r] = "look")
    BY <1>2, AskFrame
  <2>2. OnePlace'
    BY <1>0, <2>1, PlacesKept DEF PInv, Working
  <2>3. InFlight' = InFlight /\ \A c : InQueue(c)' <=> InQueue(c)
    BY <2>1 DEF InFlight, Working, InQueue
  <2>4. \A s \in Requests \ {r} : Creating(s)' <=> Creating(s)
    BY <2>1 DEF Creating
  <2>5. CASE creates' = creates /\ at'[r] \in {"pause", "resume", "stop"}
    <3>1. ~Creating(r)'
      BY <2>5 DEF Creating
    <3>. QED  BY <1>1, <2>1, <2>2, <2>3, <2>4, <2>5, <3>1 DEF Single
  <2>6. CASE creates' = creates + 1
    <3>1. creates = 0 /\ creates' = 1
      BY <1>0, <2>6
    <3>2. \A s \in Requests \ {r} : ~Creating(s)'
      BY <1>1, <2>4, <3>1
    <3>. QED  BY <1>1, <2>1, <2>2, <2>3, <3>1, <3>2 DEF Single
  <2>. QED  BY <2>1, <2>5, <2>6
<1>3. ASSUME NEW r \in Requests, Serve(r) PROVE OnePlace' /\ Single'
  <2>1. OnePlace'
    BY <1>0, <1>3, OnePlaceServe
  <2>2. /\ creates' = creates
        /\ \A s \in Requests \ {r} : at'[s] = at[s]
    BY <1>3, ServeFrame
  <2>3. \A s \in Requests : Creating(s)' => Creating(s)
    BY <1>3, ServeFrame DEF Creating
  <2>4. /\ InFlight' = InFlight /\ dropped' = dropped
        /\ \A c : InQueue(c)' => InQueue(c) \/ (at[r] = "enqueue" /\ at'[r] = "register")
        /\ pushed' # pushed => at[r] = "enqueue" /\ at'[r] = "register"
    BY <1>3, ServeWhere
  <2>5. CASE at[r] = "enqueue" /\ at'[r] = "register"
    <3>1. Creating(r) /\ ~Creating(r)'
      BY <2>5 DEF Creating
    <3>2. pushed = {} /\ dropped' = {} /\ creates' = 1
      BY <1>1, <2>2, <2>4, <3>1
    <3>3. \A s \in Requests : ~Creating(s)'
      BY <1>1, <2>3, <3>1
    <3>. QED  BY <2>1, <3>2, <3>3 DEF Single
  <2>6. CASE ~(at[r] = "enqueue" /\ at'[r] = "register")
    <3>1. pushed' = pushed /\ \A c : InQueue(c)' => InQueue(c)
      BY <2>4, <2>6
    <3>2. creates' = creates
      BY <1>3, ServeFrame
    <3>. QED  BY <1>1, <2>1, <2>3, <2>4, <3>1, <3>2 DEF Single
  <2>. QED  BY <2>5, <2>6
<1>4. ASSUME NEW p \in Pools, Run(p) PROVE OnePlace' /\ Single'
  <2>1. OnePlace'
    BY <1>0, <1>4, OnePlaceRun
  <2>2. UNCHANGED <<at, creates, pushed, dropped>>
    BY <1>4, RunFrame
  <2>3. /\ \A c : InQueue(c)' => InQueue(c)
        /\ \A c \in InFlight' : c \in InFlight \/ InQueue(c)
    BY <1>4, RunWhere
  <2>. QED  BY <1>1, <2>1, <2>2, <2>3 DEF Single, Creating
<1>5. ASSUME NEW g \in Dials, DialOne(g) PROVE OnePlace' /\ Single'
  <2>1. OnePlace'
    BY <1>0, <1>5, OnePlaceDial
  <2>2. UNCHANGED <<at, creates, pushed, dropped>>
    BY <1>5, DialFrame
  <2>3. /\ InFlight' \subseteq InFlight
        /\ \A c : InQueue(c)' => InQueue(c) \/ c \in InFlight
    BY <1>5, DialWhere DEF Working
  <2>. QED  BY <1>1, <2>1, <2>2, <2>3 DEF Single, Creating
<1>6. CASE Crash
  <2>1. /\ queue' = queue /\ pushed' = pushed /\ creates' = creates
        /\ dropped' = dropped \cup InFlight /\ InFlight' = {}
        /\ \A r \in Requests : at'[r] = "idle"
        /\ \A p \in Pools : hand'[p] = None
        /\ \A g \in Dials : ~Working(g)'
    BY <1>6 DEF Crash, Forget, Nobody, NoRequests, InFlight, Working
  <2>2. OnePlace'
    BY <1>0, <2>1, PlacesKept DEF PInv
  <2>3. \A c \in InFlight : ~InQueue(c)
    BY <1>0 DEF PInv, OnePlace, InFlight
  <2>4. \A c \in dropped' : ~InQueue(c)' /\ c \notin InFlight'
    BY <1>1, <2>1, <2>3 DEF InQueue
  <2>. QED  BY <1>1, <2>1, <2>2, <2>4 DEF Single, Creating
<1>7. CASE UNCHANGED vars
  <2>1. UNCHANGED <<at, creates, pushed, dropped, queue, hand, pc, contact>>
    BY <1>7 DEF vars
  <2>. QED
    BY <1>1, <2>1 DEF PInv, OnePlace, Single, InQueue, InFlight, Working, Creating
<1>. QED  BY <1>2, <1>3, <1>4, <1>5, <1>6, <1>7 DEF Next

(* A contact queued by the only creation is in one place: once in the      *)
(* list, in the hand of one pool, or with one goroutine, however many      *)
(* pools share the list and however often the process ends                 *)
(* (redis_queue.go:42-60).                                                 *)
THEOREM OnePlaceHolds == Spec => []OnePlace
<1>1. PInv => OnePlace
  BY DEF PInv
<1>. QED  BY <1>1, TypeInit, TypeStep, PlacesInit, PlacesStep, PTL DEF Spec

(* Who was in flight when the process ended is not called again: nothing   *)
(* puts a contact back but the goroutine that dials it (main.go:128).      *)
THEOREM DroppedStayDropped == Spec => NotRedialed
<1>1. TInv /\ PInv /\ [Next]_vars => [creates <= 1 => \A c \in dropped : calls'[c] = calls[c]]_vars
  <2> SUFFICES ASSUME TInv, PInv, [Next]_vars, creates <= 1, NEW c \in dropped
               PROVE  calls'[c] = calls[c]
    OBVIOUS
  <2>1. c \notin InFlight /\ c \in Contacts
    BY DEF PInv, Single, TInv, TypeOK
  <2>2. ASSUME NEW g \in Dials, DialOne(g) PROVE calls'[c] = calls[c]
    BY <2>1, <2>2, DialWhere
  <2>3. UNCHANGED calls => calls'[c] = calls[c]
    OBVIOUS
  <2>. QED  BY <2>2, <2>3, AskFrame, ServeWhere, RunWhere DEF Next, Crash, vars
<1>. QED  BY <1>1, TypeInit, TypeStep, PlacesInit, PlacesStep, PTL DEF Spec, NotRedialed

-----------------------------------------------------------------------------
(* Calls to one contact.                                                   *)
BInv == Budgeted /\ CallsBounded

LEMMA BudgetInit == Init => BInv
<1> SUFFICES ASSUME Init PROVE BInv
  OBVIOUS
<1>1. \A c \in Contacts : calls[c] = 0 /\ ~InQueue(c)
  BY DEF Init, InQueue
<1>2. (\A p \in Pools : hand[p] = None) /\ \A g \in Dials : pc[g] = "idle"
  BY DEF Init, Nobody
<1>3. faults = 0 /\ RetryMax \in Nat
  BY SizesAssumption DEF Init
<1>4. Budgeted
  BY <1>1, <1>2, NoneAssumption DEF Budgeted, DialBudget
<1>5. CallsBounded
  BY <1>1, <1>3 DEF CallsBounded
<1>. QED  BY <1>4, <1>5 DEF BInv

LEMMA FaultsGrow == TInv /\ [Next]_vars => faults \in Nat /\ faults' \in Nat /\ faults' >= faults
<1> SUFFICES ASSUME TInv, [Next]_vars PROVE faults \in Nat /\ faults' \in Nat /\ faults' >= faults
  OBVIOUS
<1>1. faults \in Nat /\ faults' \in Nat
  BY TypeStep DEF TInv, TypeOK
<1>2. UNCHANGED faults => faults' >= faults
  BY <1>1
<1>3. ASSUME NEW g \in Dials, DialOne(g) PROVE faults' >= faults
  <2>1. UNCHANGED faults \/ \E ok \in BOOLEAN : AttemptOf(owner[g], ok)
    BY <1>3 DEF DialOne, GetContact, BeginCall, EndCall, Requeue, Release
  <2>. QED  BY <1>1, <2>1 DEF AttemptOf
<1>. QED  BY <1>1, <1>2, <1>3, AskFrame, ServeStored, RunFrame DEF Next, Crash, vars

(* Nothing is taken from a contact nobody dials.                           *)
LEMMA FreshKept ==
  ASSUME TInv, TInv', faults' >= faults, NEW c \in Contacts, row'[c] = row[c], calls'[c] = calls[c]
  PROVE  /\ Fresh(c) => Fresh(c)'
         /\ Known(c) => Known(c)'
<1>1. /\ row[c].attempts \in Nat /\ calls[c] \in Nat /\ faults \in Nat /\ faults' \in Nat
      /\ row'[c].attempts \in Nat
  BY DEF TInv, TypeOK
<1>. QED  BY <1>1 DEF Fresh, Known

LEMMA DialBudgetKept ==
  ASSUME TInv, TInv', faults' >= faults, NEW g \in Dials, DialBudget(g),
         pc'[g] = pc[g], contact'[g] = contact[g], owner'[g] = owner[g], tries'[g] = tries[g],
         pc[g] # "idle" => row'[contact[g]] = row[contact[g]] /\ calls'[contact[g]] = calls[contact[g]],
         pc[g] # "idle" => (cancelled[owner[g]] => cancelled'[owner[g]])
  PROVE  DialBudget(g)'
<1>1. CASE pc[g] = "idle"
  BY <1>1 DEF DialBudget
<1>2. CASE pc[g] # "idle"
  <2>1. contact[g] \in Contacts
    BY <1>2 DEF TInv, Shape
  <2>2. PICK c \in Contacts : c = contact[g] /\ c = contact'[g] /\ row'[c] = row[c]
    BY <1>2, <2>1
  <2>3. (Fresh(c) => Fresh(c)') /\ (Known(c) => Known(c)')
    BY <1>2, <2>2, FreshKept
  <2>4. cancelled[owner[g]] => cancelled'[owner'[g]]
    BY <1>2
  <2>. QED  BY <2>2, <2>3, <2>4 DEF DialBudget, Fresh, Known
<1>. QED  BY <1>1, <1>2

(* A step that leaves rows and calls alone and gives no new work.          *)
LEMMA BudgetKept ==
  ASSUME TInv, TInv', Budgeted, CallsBounded, creates <= 1, faults' >= faults, UNCHANGED <<row, calls>>,
         \A c : InQueue(c)' => InQueue(c),
         \A p \in Pools : hand'[p] \in {hand[p], None},
         \A g \in Dials :
           \/ pc'[g] = "idle"
           \/ /\ UNCHANGED <<pc[g], contact[g], owner[g], tries[g]>>
              /\ cancelled[owner[g]] => cancelled'[owner[g]]
  PROVE  Budgeted' /\ CallsBounded'
<1>1. \A c \in Contacts : InQueue(c)' \/ (\E p \in Pools : hand'[p] = c) => Fresh(c)'
  <2>1. \A c \in Contacts : Fresh(c) => Fresh(c)'
    BY FreshKept
  <2>. QED  BY <2>1, NoneAssumption DEF Budgeted
<1>2. ASSUME NEW g \in Dials PROVE DialBudget(g)'
  <2>1. CASE pc'[g] = "idle"  BY <2>1 DEF DialBudget
  <2>2. CASE /\ UNCHANGED <<pc[g], contact[g], owner[g], tries[g]>>
             /\ cancelled[owner[g]] => cancelled'[owner[g]]
    BY <2>2, DialBudgetKept DEF Budgeted
  <2>. QED  BY <2>1, <2>2
<1>3. ASSUME NEW c \in Contacts PROVE calls'[c] <= RetryMax + 1 + faults'
  <2>1. calls[c] <= RetryMax + 1 + faults
    BY DEF CallsBounded
  <2>2. calls[c] \in Nat /\ RetryMax \in Nat /\ faults \in Nat /\ faults' \in Nat
    BY SizesAssumption DEF TInv, TypeOK
  <2>. QED  BY <2>1, <2>2
<1>. QED  BY <1>1, <1>2, <1>3 DEF Budgeted, CallsBounded

LEMMA BudgetServe ==
  ASSUME TInv, TInv', PInv, BInv, creates <= 1, NEW r \in Requests, Serve(r)
  PROVE  BInv'
<1>1. /\ UNCHANGED <<hand, dials, calls, dropped>> /\ faults' >= faults
      /\ \A p \in Pools : loop[p] # "start" /\ cancelled[p] => cancelled'[p]
  BY ServeStored
<1>2. /\ faults \in Nat /\ faults' \in Nat /\ RetryMax \in Nat
      /\ \A c \in Contacts : calls[c] \in Nat
  BY SizesAssumption DEF TInv, TypeOK
<1>3. \A c \in Contacts : calls'[c] <= RetryMax + 1 + faults'
  <2> SUFFICES ASSUME NEW c \in Contacts PROVE calls'[c] <= RetryMax + 1 + faults'
    OBVIOUS
  <2>1. calls[c] <= RetryMax + 1 + faults
    BY DEF BInv, CallsBounded
  <2>. QED  BY <1>1, <1>2, <2>1
<1>4. CASE Creating(r) /\ pushed = {}
  <2>1. /\ \A c \in Contacts : ~InQueue(c) /\ calls[c] = 0 /\ row[c].attempts = 0
        /\ InFlight = {}
    BY <1>4 DEF PInv, Origins
  <2>2. \A c \in Contacts : row'[c].attempts = 0 /\ calls'[c] = 0
    BY <1>1, <2>1, ServeWhere
  <2>3. \A c \in Contacts : Fresh(c)'
    BY <1>2, <2>2 DEF Fresh, Known
  <2>4. \A g \in Dials : pc'[g] \in {"idle", "release"}
    BY <1>1, <2>1 DEF InFlight, Working
  <2>5. \A g \in Dials : DialBudget(g)'
    BY <2>4 DEF DialBudget
  <2>. QED  BY <1>3, <2>3, <2>5 DEF BInv, Budgeted, CallsBounded
<1>5. CASE row' = row /\ (queue' = queue \/ queue' = <<>>)
  <2>1. \A c : InQueue(c)' => InQueue(c)
    BY <1>5 DEF InQueue
  <2>2. \A g \in Dials :
          \/ pc'[g] = "idle"
          \/ /\ UNCHANGED <<pc[g], contact[g], owner[g], tries[g]>>
             /\ cancelled[owner[g]] => cancelled'[owner[g]]
    BY <1>1 DEF TInv, Shape
  <2>. QED  BY <1>1, <1>5, <2>1, <2>2, BudgetKept DEF BInv
<1>6. at[r] \in {"contacts", "enqueue"} => Creating(r) /\ pushed = {}
  BY DEF Creating, PInv, Single
<1>. QED  BY <1>4, <1>5, <1>6, ServeStored

LEMMA BudgetRun ==
  ASSUME TInv, TInv', PInv, BInv, creates <= 1, NEW p \in Pools, Run(p)
  PROVE  BInv'
<1>1. /\ UNCHANGED <<row, calls, cancelled, tries>> /\ faults' >= faults
      /\ \A q \in Pools \ {p} : hand'[q] = hand[q]
  BY RunFrame
<1>2. \A c \in Contacts : Fresh(c) => Fresh(c)'
  BY <1>1, FreshKept
<1>3. /\ \A c \in Contacts : InQueue(c) \/ (\E q \in Pools : hand[q] = c) => Fresh(c)
      /\ \A g \in Dials : DialBudget(g)
  BY DEF BInv, Budgeted
<1>4. \A c \in Contacts : calls'[c] <= RetryMax + 1 + faults'
  <2> SUFFICES ASSUME NEW c \in Contacts PROVE calls'[c] <= RetryMax + 1 + faults'
    OBVIOUS
  <2>1. calls[c] <= RetryMax + 1 + faults
    BY DEF BInv, CallsBounded
  <2>2. calls[c] \in Nat /\ RetryMax \in Nat /\ faults \in Nat /\ faults' \in Nat
    BY SizesAssumption DEF TInv, TypeOK
  <2>. QED  BY <1>1, <2>1, <2>2
<1>5. CASE /\ queue # <<>> /\ queue' = Tail(queue) /\ hand'[p] = Head(queue)
           /\ UNCHANGED <<pc, owner, contact>>
  <2>1. InQueue(Head(queue)) /\ \A c : InQueue(c)' => InQueue(c)
    <3>1. queue \in Seq(Contacts)
      BY DEF TInv, TypeOK
    <3>. QED  BY <1>5, <3>1, TailOnce DEF InQueue, InList
  <2>2. \A c \in Contacts : InQueue(c)' \/ (\E q \in Pools : hand'[q] = c) => Fresh(c)'
    BY <1>1, <1>2, <1>3, <1>5, <2>1
  <2>3. \A g \in Dials : DialBudget(g)'
    BY <1>1, <1>3, <1>5, DialBudgetKept
  <2>. QED  BY <1>4, <2>2, <2>3 DEF BInv, Budgeted, CallsBounded
<1>6. ASSUME NEW g \in Dials,
             hand[p] # None, hand'[p] = None, pc'[g] = "get", contact'[g] = hand[p], queue' = queue,
             \A h \in Dials \ {g} : pc'[h] = pc[h] /\ contact'[h] = contact[h] /\ owner'[h] = owner[h]
      PROVE  BInv'
  <2>1. \A c \in Contacts : InQueue(c)' \/ (\E q \in Pools : hand'[q] = c) => Fresh(c)'
    BY <1>1, <1>2, <1>3, <1>6, NoneAssumption DEF InQueue
  <2>2. DialBudget(g)'
    <3>1. PICK c \in Contacts : c = hand[p] /\ c = contact'[g]
      BY <1>6 DEF TInv, TypeOK
    <3>2. Fresh(c)'
      BY <1>2, <1>3, <3>1
    <3>. QED  BY <1>6, <3>1, <3>2 DEF DialBudget, Fresh, Known
  <2>3. \A h \in Dials \ {g} : DialBudget(h)'
    BY <1>1, <1>3, <1>6, DialBudgetKept
  <2>. QED  BY <1>4, <2>1, <2>2, <2>3 DEF BInv, Budgeted, CallsBounded
<1>7. CASE UNCHANGED <<pc, owner, contact, queue>> /\ hand'[p] \in {hand[p], None}
  <2>1. \A c : InQueue(c)' => InQueue(c)
    BY <1>7 DEF InQueue
  <2>. QED  BY <1>1, <1>7, <2>1, BudgetKept DEF BInv
<1>. QED  BY <1>5, <1>6, <1>7, RunFrame

LEMMA BudgetDial ==
  ASSUME TInv, TInv', PInv, BInv, creates <= 1, NEW g \in Dials, DialOne(g),
         faults' >= faults
  PROVE  BInv'
<1>. DEFINE c == contact[g]
            a == tries[g]
            p == owner[g]
<1>1. /\ UNCHANGED <<hand, cancelled>> /\ c \in Contacts /\ p \in Pools /\ pc[g] # "idle"
      /\ \A h \in Dials \ {g} :
           /\ pc'[h] = pc[h] /\ owner'[h] = owner[h] /\ contact'[h] = contact[h]
           /\ tries'[h] = tries[h]
  BY DialFrame
<1>2. /\ \A d \in Contacts \ {c} : calls'[d] = calls[d] /\ row'[d] = row[d]
      /\ ~Working(g) => calls' = calls /\ row' = row
      /\ \A d : InQueue(d)' => InQueue(d) \/ (d = c /\ pc[g] = "retry")
  BY DialWhere
<1>3. /\ \A d \in Contacts : InQueue(d) \/ (\E q \in Pools : hand[q] = d) => Fresh(d)
      /\ DialBudget(g) /\ \A h \in Dials : DialBudget(h)
      /\ calls[c] <= RetryMax + 1 + faults /\ \A d \in Contacts : calls[d] <= RetryMax + 1 + faults
  BY <1>1 DEF BInv, Budgeted, CallsBounded
<1>4. /\ row[c].attempts \in Nat /\ calls[c] \in Nat /\ faults \in Nat /\ faults' \in Nat
      /\ row'[c].attempts \in Nat /\ a \in Nat /\ RetryMax \in Nat
      /\ row \in [Contacts -> [status : ContactStatus \cup {"absent"}, attempts : Nat]]
      /\ calls \in [Contacts -> Nat] /\ tries \in [Dials -> Nat]
      /\ \A d \in Contacts : calls[d] \in Nat
  <2>1. /\ row \in [Contacts -> [status : ContactStatus \cup {"absent"}, attempts : Nat]]
        /\ calls \in [Contacts -> Nat] /\ tries \in [Dials -> Nat] /\ faults \in Nat
    BY DEF TInv, TypeOK
  <2>2. /\ row' \in [Contacts -> [status : ContactStatus \cup {"absent"}, attempts : Nat]]
        /\ faults' \in Nat
    BY DEF TInv, TypeOK
  <2>. QED  BY <1>1, <2>1, <2>2, SizesAssumption
<1>5. /\ Working(g) => \A d \in Contacts : InQueue(d) \/ (\E q \in Pools : hand[q] = d) => d # c
      /\ Working(g) => \A h \in Dials \ {g} : Working(h) => contact[h] # c
  BY NoneAssumption DEF PInv, OnePlace
<1>. HIDE DEF c, a, p
<1>6. \A h \in Dials \ {g} : DialBudget(h)'
  <2> SUFFICES ASSUME NEW h \in Dials \ {g} PROVE DialBudget(h)'
    OBVIOUS
  <2>1. CASE Working(h)
    <3>1. contact[h] \in Contacts /\ (contact[h] # c \/ ~Working(g))
      BY <1>5, <2>1 DEF TInv, Shape, Working
    <3>2. row'[contact[h]] = row[contact[h]] /\ calls'[contact[h]] = calls[contact[h]]
      BY <1>2, <3>1
    <3>. QED  BY <1>1, <1>3, <3>2, DialBudgetKept
  <2>2. CASE ~Working(h)
    BY <1>1, <2>2 DEF Working, DialBudget
  <2>. QED  BY <2>1, <2>2
<1>7. ASSUME \A d : InQueue(d)' => InQueue(d)
      PROVE  \A d \in Contacts : InQueue(d)' \/ (\E q \in Pools : hand'[q] = d) => Fresh(d)'
  <2> SUFFICES ASSUME NEW d \in Contacts, InQueue(d)' \/ (\E q \in Pools : hand'[q] = d)
               PROVE  Fresh(d)'
    OBVIOUS
  <2>1. InQueue(d) \/ (\E q \in Pools : hand[q] = d)
    BY <1>1, <1>7
  <2>2. row'[d] = row[d] /\ calls'[d] = calls[d]
    BY <1>2, <1>5, <2>1
  <2>. QED  BY <1>3, <2>1, <2>2, FreshKept
<1>8. ASSUME calls' = calls PROVE CallsBounded'
  <2> SUFFICES ASSUME NEW d \in Contacts PROVE calls'[d] <= RetryMax + 1 + faults'
    BY DEF CallsBounded
  <2>. QED  BY <1>3, <1>4, <1>8
<1>9. CASE GetContact(g) /\ pc[g] = "get"
  <2>1. /\ UNCHANGED <<contact, queue, row, calls>>
        /\ \/ pc'[g] = "begin" /\ tries' = [tries EXCEPT ![g] = row[c].attempts]
           \/ pc'[g] = "release"
    BY <1>9, DialDoes DEF c
  <2>2. contact'[g] = c /\ c' = c
    BY <2>1 DEF c
  <2>3. Fresh(c)'
    BY <1>1, <1>3, <1>9, <2>1, FreshKept DEF DialBudget, c
  <2>4. DialBudget(g)'
    <3>1. CASE pc'[g] = "begin" /\ tries' = [tries EXCEPT ![g] = row[c].attempts]
      <4>1. tries'[g] = row'[c].attempts
        BY <1>4, <2>1, <3>1
      <4>. QED  BY <2>2, <2>3, <3>1, <4>1 DEF DialBudget, Fresh, Known
    <3>2. CASE pc'[g] = "release"
      BY <3>2 DEF DialBudget
    <3>. QED  BY <2>1, <3>1, <3>2
  <2>5. \A d : InQueue(d)' => InQueue(d)
    BY <2>1 DEF InQueue
  <2>. QED  BY <1>6, <1>7, <1>8, <2>1, <2>4, <2>5 DEF BInv, Budgeted
<1>10. CASE BeginCall(g) /\ pc[g] = "begin"
  <2>1. /\ UNCHANGED <<contact, owner, tries, queue>> /\ pc'[g] = "calling"
        /\ \E ok \in BOOLEAN : AttemptOf(p, ok) /\ row' = SavedRow(c, ok, "dialing", a + 1)
        /\ calls' = IF cancelled[p] THEN calls ELSE [calls EXCEPT ![c] = @ + 1]
    BY <1>10, DialDoes DEF c, a, p
  <2>2. PICK ok \in BOOLEAN : AttemptOf(p, ok) /\ row' = SavedRow(c, ok, "dialing", a + 1)
    BY <2>1
  <2>3. row[c].attempts = a /\ a <= RetryMax /\ calls[c] <= a + faults /\ row[c].status # "absent"
    BY <1>3, <1>10 DEF DialBudget, Fresh, Known, TInv, Shape, c, a
  <2>4. row'[c].attempts = IF ok THEN a + 1 ELSE a
    <3>1. row' = IF ok THEN [row EXCEPT ![c] = [status |-> "dialing", attempts |-> a + 1]] ELSE row
      BY <2>2, <2>3 DEF SavedRow
    <3>2. c \in DOMAIN row
      BY <1>1, <1>4 DEF c
    <3>3. ok => row'[c] = [status |-> "dialing", attempts |-> a + 1]
      BY <3>1, <3>2
    <3>. QED  BY <2>3, <3>1, <3>3
  <2>5. calls'[c] = (IF cancelled[p] THEN calls[c] ELSE calls[c] + 1) /\ calls'[c] <= calls[c] + 1
    BY <1>1, <1>4, <2>1 DEF c
  <2>6. cancelled[p] \/ calls'[c] <= row'[c].attempts + faults'
    <3>1. ~cancelled[p] /\ ~ok => faults' = faults + 1
      BY <2>2 DEF AttemptOf
    <3>. QED  BY <1>4, <2>3, <2>4, <2>5, <3>1
  <2>7. row'[c].attempts <= a + 1
    BY <1>4, <2>4
  <2>8. contact'[g] = c /\ tries'[g] = a /\ owner'[g] = p /\ cancelled' = cancelled
    BY <1>1, <2>1 DEF c, a, p
  <2>9. DialBudget(g)'
    BY <2>1, <2>3, <2>6, <2>7, <2>8 DEF DialBudget, Known
  <2>10. CallsBounded'
    <3> SUFFICES ASSUME NEW d \in Contacts PROVE calls'[d] <= RetryMax + 1 + faults'
      BY DEF CallsBounded
    <3>1. CASE d = c  BY <1>4, <2>3, <2>5, <3>1
    <3>2. CASE d # c  BY <1>2, <1>3, <1>4, <3>2
    <3>. QED  BY <3>1, <3>2
  <2>11. \A d : InQueue(d)' => InQueue(d)
    BY <2>1 DEF InQueue
  <2>. QED  BY <1>6, <1>7, <2>9, <2>10, <2>11 DEF BInv, Budgeted
<1>11. CASE EndCall(g) /\ pc[g] = "calling"
  <2>1. /\ UNCHANGED <<contact, owner, queue, calls>> /\ pc'[g] = "retry"
        /\ tries' = [tries EXCEPT ![g] = a + 1]
        /\ \E ok \in BOOLEAN, o \in CallOutcome : row' = SavedRow(c, ok, o, a + 1)
    BY <1>11, DialDoes DEF c, a
  <2>2. PICK ok \in BOOLEAN, o \in CallOutcome : row' = SavedRow(c, ok, o, a + 1)
    BY <2>1
  <2>3. row[c].attempts <= a + 1 /\ (cancelled[p] \/ calls[c] <= row[c].attempts + faults)
        /\ row[c].status # "absent"
    BY <1>3, <1>11 DEF DialBudget, Known, TInv, Shape, c, a, p
  <2>4. row'[c].attempts = IF ok THEN a + 1 ELSE row[c].attempts
    <3>1. row' = IF ok THEN [row EXCEPT ![c] = [status |-> o, attempts |-> a + 1]] ELSE row
      BY <2>2, <2>3 DEF SavedRow
    <3>2. c \in DOMAIN row
      BY <1>1, <1>4 DEF c
    <3>3. ok => row'[c] = [status |-> o, attempts |-> a + 1]
      BY <3>1, <3>2
    <3>. QED  BY <3>1, <3>3
  <2>5. row[c].attempts <= row'[c].attempts /\ row'[c].attempts <= a + 1
    BY <1>4, <2>3, <2>4
  <2>6. cancelled[p] \/ calls[c] <= row'[c].attempts + faults'
    BY <1>4, <2>3, <2>5
  <2>7. contact'[g] = c /\ tries'[g] = a + 1 /\ owner'[g] = p /\ cancelled' = cancelled /\ calls' = calls
    BY <1>1, <1>4, <2>1 DEF c, p
  <2>8. DialBudget(g)'
    BY <2>1, <2>5, <2>6, <2>7 DEF DialBudget, Known
  <2>9. \A d : InQueue(d)' => InQueue(d)
    BY <2>1 DEF InQueue
  <2>. QED  BY <1>6, <1>7, <1>8, <2>1, <2>8, <2>9 DEF BInv, Budgeted
<1>12. CASE Requeue(g) /\ pc[g] = "retry"
  <2>1. /\ UNCHANGED <<contact, owner, tries, row, calls>> /\ pc'[g] = "release"
        /\ \/ UNCHANGED queue
           \/ /\ ShouldRetry(outcome[g], a, RetryMax) /\ AttemptOf(p, TRUE)
              /\ queue' = Append(queue, c)
    BY <1>12, DialDoes DEF c, a, p
  <2>2. DialBudget(g)'
    BY <2>1 DEF DialBudget
  <2>3. CASE queue' = queue
    <3>1. \A d : InQueue(d)' => InQueue(d)
      BY <2>3 DEF InQueue
    <3>. QED  BY <1>6, <1>7, <1>8, <2>1, <2>2, <3>1 DEF BInv, Budgeted
  <2>4. CASE ShouldRetry(outcome[g], a, RetryMax) /\ AttemptOf(p, TRUE)
    <3>1. ~cancelled[p] /\ a < RetryMax + 1
      BY <2>4 DEF AttemptOf, ShouldRetry
    <3>2. row[c].attempts <= a /\ calls[c] <= row[c].attempts + faults
      BY <1>3, <1>12, <3>1 DEF DialBudget, Known, c, a, p
    <3>3. row[c].attempts <= RetryMax
      BY <1>4, <3>1, <3>2
    <3>4. Fresh(c)
      BY <3>2, <3>3 DEF Fresh, Known
    <3>5. \A d \in Contacts : Fresh(d) => Fresh(d)'
      BY <2>1, FreshKept
    <3>6. \A d \in Contacts : InQueue(d)' \/ (\E q \in Pools : hand'[q] = d) => Fresh(d)'
      BY <1>1, <1>2, <1>3, <3>4, <3>5
    <3>. QED  BY <1>6, <1>8, <2>1, <2>2, <3>6 DEF BInv, Budgeted
  <2>. QED  BY <2>1, <2>3, <2>4
<1>13. CASE Release(g) /\ pc[g] = "release"
  <2>1. UNCHANGED <<queue, row, calls>> /\ pc'[g] = "idle"
    BY <1>13, DialDoes
  <2>2. DialBudget(g)' /\ \A d : InQueue(d)' => InQueue(d)
    BY <2>1 DEF DialBudget, InQueue
  <2>. QED  BY <1>6, <1>7, <1>8, <2>1, <2>2 DEF BInv, Budgeted
<1>. QED  BY <1>9, <1>10, <1>11, <1>12, <1>13, DialDoes

LEMMA BudgetStep == TInv /\ PInv /\ BInv /\ [Next]_vars => BInv'
<1> SUFFICES ASSUME TInv, PInv, BInv, [Next]_vars, creates' <= 1 PROVE BInv'
  BY DEF BInv, Budgeted, CallsBounded
<1>0. creates <= 1 /\ TInv' /\ faults' >= faults
  <2>1. TInv' /\ creates' >= creates
    BY TypeStep, CreatesGrow
  <2>2. creates' \in Nat /\ creates \in Nat
    BY <2>1, BoundsTyped DEF Bounds, TInv, TypeOK
  <2>3. creates <= 1
    BY <2>1, <2>2
  <2>. QED  BY <2>1, <2>3, FaultsGrow
<1>1. ASSUME UNCHANGED <<row, calls, cancelled, hand, queue, pc, contact, owner, tries>>
      PROVE  BInv'
  <2>1. Budgeted' /\ CallsBounded'
    BY <1>0, <1>1, BudgetKept DEF BInv, InQueue
  <2>. QED  BY <2>1 DEF BInv
<1>2. CASE Crash
  <2>1. /\ UNCHANGED <<row, calls, queue>>
        /\ \A p \in Pools : hand'[p] = None
        /\ \A g \in Dials : pc'[g] = "idle"
    BY <1>2 DEF Crash, Forget, Nobody
  <2>2. Budgeted' /\ CallsBounded'
    BY <1>0, <2>1, BudgetKept DEF BInv, InQueue
  <2>. QED  BY <2>2 DEF BInv
<1>. QED
  BY <1>0, <1>1, <1>2, AskFrame, BudgetServe, BudgetRun, BudgetDial DEF Next, vars

(* The contacts of one creation are called RetryMax + 1 times at most, and *)
(* once more for each call to Redis or PostgreSQL that failed, though      *)
(* pools share them and the process may end at any time: attempts live in  *)
(* the row (retry.go:17).                                                  *)
THEOREM CallsBoundedHolds == Spec => []CallsBounded
<1>1. BInv => CallsBounded
  BY DEF BInv
<1>. QED
  BY <1>1, TypeInit, TypeStep, PlacesInit, PlacesStep, BudgetInit, BudgetStep, PTL DEF Spec

-----------------------------------------------------------------------------
(* Contacts are not lost.                                                  *)
KInv == Batched /\ Kept

LEMMA KeptInit == Init => KInv
<1> SUFFICES ASSUME Init PROVE KInv
  OBVIOUS
<1>1. pushed = {} /\ \A r \in Requests : at[r] = "idle"
  BY DEF Init, NoRequests
<1>. QED  BY <1>1 DEF KInv, Batched, Kept, Carrying

LEMMA BatchedStep == TInv /\ Batched /\ [Next]_vars => Batched'
<1> SUFFICES ASSUME TInv, Batched, [Next]_vars PROVE Batched'
  OBVIOUS
<1>0. creates \in Nat /\ \A r \in Requests : ids[r] \in SUBSET Contacts
  BY BoundsTyped DEF Bounds, TInv, TypeOK
<1>1. ASSUME creates' = creates,
             \A r \in Requests : Carrying(r)' => Carrying(r) /\ ids'[r] = ids[r]
      PROVE  Batched'
  BY <1>1 DEF Batched
<1>2. ASSUME NEW r \in Requests, AskCreate(r) PROVE Batched'
  <2>1. /\ creates' = creates + 1 /\ creates < Len(Batches)
        /\ ids'[r] \in {Batches[creates + 1], {}}
        /\ \A s \in Requests \ {r} : at'[s] = at[s] /\ ids'[s] = ids[s]
    BY <1>2 DEF AskCreate, Goto, TInv, TypeOK
  <2>2. \A s \in Requests \ {r} : Carrying(s)' => Carrying(s)
    BY <2>1 DEF Carrying
  <2>3. creates + 1 \in 1..creates' /\ 1..creates \subseteq 1..creates' /\ creates + 1 \notin 1..creates
    BY <1>0, <2>1
  <2>4. creates + 1 \in DOMAIN Batches /\ 1..creates \subseteq DOMAIN Batches
    BY <1>0, <2>1, BatchesAssumption
  <2>5. \A s \in Requests \ {r} : Carrying(s) => ids[s] \cap ids'[r] = {}
    <3> SUFFICES ASSUME NEW s \in Requests \ {r}, Carrying(s) PROVE ids[s] \cap ids'[r] = {}
      OBVIOUS
    <3>1. PICK i \in 1..creates : ids[s] \subseteq Batches[i]
      BY DEF Batched
    <3>2. Batches[i] \cap Batches[creates + 1] = {}
      BY <2>3, <2>4, <3>1, BatchesAssumption
    <3>. QED  BY <2>1, <3>1, <3>2
  <2>6. ASSUME NEW s \in Requests, Carrying(s)' PROVE \E i \in 1..creates' : ids'[s] \subseteq Batches[i]
    <3>1. CASE s = r  BY <2>1, <2>3, <3>1
    <3>2. CASE s # r  BY <2>1, <2>2, <2>3, <2>6, <3>2 DEF Batched
    <3>. QED  BY <3>1, <3>2
  <2>7. ASSUME NEW s \in Requests, NEW t \in Requests, Carrying(s)', Carrying(t)', s # t
        PROVE  ids'[s] \cap ids'[t] = {}
    <3>1. CASE s = r  BY <2>1, <2>2, <2>5, <2>7, <3>1
    <3>2. CASE t = r  BY <2>1, <2>2, <2>5, <2>7, <3>2
    <3>3. CASE s # r /\ t # r  BY <2>1, <2>2, <2>7, <3>3 DEF Batched
    <3>. QED  BY <3>1, <3>2, <3>3
  <2>. QED  BY <2>6, <2>7 DEF Batched
<1>3. ASSUME NEW r \in Requests, AskPause(r) \/ AskResume(r) \/ AskStop(r) PROVE Batched'
  <2>1. creates' = creates /\ ids' = ids /\ at'[r] \in {"pause", "resume", "stop"}
        /\ \A s \in Requests \ {r} : at'[s] = at[s]
    BY <1>3 DEF AskPause, AskResume, AskStop, Ask, Goto, TInv, TypeOK
  <2>. QED  BY <1>1, <2>1 DEF Carrying
<1>4. ASSUME NEW r \in Requests, Serve(r) PROVE Batched'
  <2>1. creates' = creates /\ \A s \in Requests \ {r} : at'[s] = at[s] /\ ids'[s] = ids[s]
    BY <1>4, ServeFrame
  <2>2. Carrying(r)' => Carrying(r) /\ ids'[r] = ids[r]
    BY <1>4, ServeStored DEF Carrying
  <2>. QED  BY <1>1, <2>1, <2>2 DEF Carrying
<1>5. CASE UNCHANGED <<creates, at, ids>>
  BY <1>1, <1>5 DEF Carrying
<1>6. CASE Crash
  <2>1. creates' = creates /\ \A r \in Requests : ~Carrying(r)'
    BY <1>6 DEF Crash, Forget, NoRequests, Carrying
  <2>. QED  BY <1>1, <2>1
<1>. QED
  BY <1>2, <1>3, <1>4, <1>5, <1>6, RunFrame, DialFrame DEF Next, vars

(* Nothing fails and nobody stops the campaign: what was so before.        *)
LEMMA HaltedStays == TInv /\ [Next]_vars => (halted => halted')
<1> SUFFICES ASSUME TInv, [Next]_vars PROVE halted => halted'
  OBVIOUS
<1>. QED  BY AskFrame, ServeStored, RunFrame, DialFrame DEF Next, Crash, vars

(* A step that changes no row and takes no contact away.                   *)
LEMMA PlacedStays ==
  ASSUME NEW c \in Contacts, Placed(c), row'[c] = row[c], dropped \subseteq dropped',
         InQueue(c) => InQueue(c)',
         (\E p \in Pools : hand[p] = c) => Placed(c)',
         (\E g \in Dials : Pursues(g) /\ contact[g] = c) => Placed(c)'
  PROVE  Placed(c)'
<1>1. CASE IsSettled(c)
  BY <1>1 DEF IsSettled, Placed
<1>2. CASE InQueue(c) \/ c \in dropped
  BY <1>2 DEF Placed
<1>. QED  BY <1>1, <1>2 DEF Placed

LEMMA KeptServe ==
  ASSUME TInv, KInv, NEW r \in Requests, Serve(r), ~halted, ~halted', faults = 0, faults' = 0
  PROVE  Kept'
<1>0. /\ \A c \in pushed : row[c].status # "absent" /\ Placed(c)
      /\ \A s \in Requests :
           /\ at[s] = "enqueue" => \A c \in ids[s] : row[c].status # "absent"
           /\ Carrying(s) => \A c \in ids[s] : row[c] = Unborn
      /\ pushed \subseteq Contacts /\ \A s \in Requests : ids[s] \subseteq Contacts
  BY DEF KInv, Kept, TInv, TypeOK
<1>1. /\ UNCHANGED <<hand, dials, dropped>>
      /\ \A s \in Requests \ {r} : at'[s] = at[s] /\ ids'[s] = ids[s]
  BY ServeStored, ServeFrame
<1>2. \A s \in Requests \ {r} : Carrying(s)' <=> Carrying(s)
  BY <1>1 DEF Carrying
<1>3. CASE /\ AddContacts(r) /\ at[r] = "contacts" /\ at'[r] = "enqueue"
           /\ UNCHANGED <<queue, pushed>>
  <2>1. Carrying(r) /\ ~Carrying(r)'
    BY <1>3 DEF Carrying
  <2>2. \/ /\ row' = [c \in Contacts |-> IF c \in ids[r] THEN Pending ELSE row[c]]
           /\ ids'[r] = ids[r]
        \/ /\ row' = row
           /\ ids'[r] = {c \in Contacts : row[c].status = "pending"}
    <3>1. faults' # faults + 1
      OBVIOUS
    <3>. QED  BY <1>3, <3>1 DEF AddContacts, Attempt, TInv, TypeOK
  <2>3. Pending.status # "absent" /\ Unborn.status = "absent"
    BY DEF Pending, Unborn
  <2>. HIDE DEF Pending, Unborn
  <2>4. /\ \A c \in Contacts \ ids[r] : row'[c] = row[c]
        /\ \A c \in Contacts : row[c].status # "absent" => row'[c].status # "absent"
        /\ \A c \in ids'[r] : row'[c].status # "absent"
    BY <1>0, <2>2, <2>3
  <2>5. \A c \in pushed : c \in Contacts /\ c \notin ids[r]
    BY <1>0, <2>1, <2>3
  <2>6. \A c \in pushed : row'[c] = row[c] /\ row'[c].status # "absent"
    BY <1>0, <2>4, <2>5
  <2>7. \A c \in pushed : Placed(c)'
    BY <1>0, <1>1, <1>3, <2>6 DEF Placed, InQueue, Pursues, IsSettled
  <2>8. ASSUME NEW s \in Requests, Carrying(s)' PROVE \A c \in ids'[s] : row'[c] = Unborn
    <3>1. s # r /\ Carrying(s) /\ ids'[s] = ids[s] /\ ids[s] \cap ids[r] = {}
      BY <1>1, <1>2, <2>1, <2>8 DEF KInv, Batched
    <3>. QED  BY <1>0, <2>4, <3>1
  <2>9. ASSUME NEW s \in Requests, at'[s] = "enqueue" PROVE \A c \in ids'[s] : row'[c].status # "absent"
    <3>1. CASE s = r  BY <2>4, <3>1
    <3>2. CASE s # r  BY <1>0, <1>1, <2>4, <2>9, <3>2
    <3>. QED  BY <3>1, <3>2
  <2>10. Unborn' = Unborn
    BY DEF Unborn
  <2>. QED  BY <1>3, <2>6, <2>7, <2>8, <2>9, <2>10 DEF Kept
<1>4. CASE /\ at[r] = "enqueue" /\ at'[r] = "register" /\ ids' = ids
           /\ queue' = queue \o SetToSeq(ids[r]) /\ pushed' = pushed \cup ids[r] /\ row' = row
  <2>1. ids[r] \in SUBSET Contacts /\ IsFiniteSet(ids[r]) /\ queue \in Seq(Contacts)
    BY ContactsAssumption, FS_Subset DEF TInv, TypeOK
  <2>2. SetToSeq(ids[r]) \in Seq(Contacts) /\ \A c \in ids[r] : InList(SetToSeq(ids[r]), c)
    BY <2>1, SetToSeqIs DEF InList
  <2>3. \A c : InQueue(c) \/ c \in ids[r] => InQueue(c)'
    <3>1. \A c : InList(queue', c) <=> InList(queue, c) \/ InList(SetToSeq(ids[r]), c)
      BY <1>4, <2>1, <2>2, ConcatHolds
    <3>2. \A c : InQueue(c) => InList(queue, c)
      BY DEF InQueue, InList
    <3>3. \A c : InList(queue', c) => InQueue(c)'
      BY DEF InQueue, InList
    <3>. QED  BY <2>2, <3>1, <3>2, <3>3
  <2>4. \A c \in pushed' : Placed(c)'
    BY <1>0, <1>1, <1>4, <2>3 DEF Placed, Pursues, IsSettled
  <2>5. \A c \in pushed' : row'[c].status # "absent"
    BY <1>0, <1>4
  <2>6. ~Carrying(r)'
    BY <1>4 DEF Carrying
  <2>7. \A s \in Requests : Carrying(s)' => \A c \in ids'[s] : row'[c] = Unborn
    BY <1>0, <1>1, <1>2, <1>4, <2>6
  <2>8. \A s \in Requests : at'[s] = "enqueue" => \A c \in ids'[s] : row'[c].status # "absent"
    BY <1>0, <1>1, <1>4
  <2>9. Unborn' = Unborn
    BY DEF Unborn
  <2>. QED  BY <2>4, <2>5, <2>7, <2>8, <2>9 DEF Kept
<1>5. CASE /\ UNCHANGED <<row, pushed>> /\ at'[r] # "enqueue" /\ queue' = queue
           /\ Carrying(r)' => Carrying(r) /\ ids'[r] = ids[r]
  <2>1. \A c \in pushed' : row'[c].status # "absent" /\ Placed(c)'
    BY <1>0, <1>1, <1>5 DEF Placed, InQueue, Pursues, IsSettled
  <2>2. \A s \in Requests : Carrying(s)' => \A c \in ids'[s] : row'[c] = Unborn
    BY <1>0, <1>1, <1>2, <1>5
  <2>3. \A s \in Requests : at'[s] = "enqueue" => \A c \in ids'[s] : row'[c].status # "absent"
    BY <1>0, <1>1, <1>5
  <2>4. Unborn' = Unborn
    BY DEF Unborn
  <2>. QED  BY <2>1, <2>2, <2>3, <2>4 DEF Kept
<1>. QED  BY <1>3, <1>4, <1>5, ServeStored

(* While the requests rest, only the contacts' places matter.              *)
LEMMA KeptPlaces ==
  ASSUME TInv, KInv, ~halted, faults = 0, UNCHANGED <<at, ids, pushed>>,
         \A c \in Contacts : row[c].status # "absent" => row'[c].status # "absent",
         \A c \in Contacts : row[c].status = "absent" => row'[c] = row[c],
         \A c \in pushed : Placed(c)'
  PROVE  Kept'
<1>1. /\ \A c \in pushed : row[c].status # "absent"
      /\ \A s \in Requests :
           /\ at[s] = "enqueue" => \A c \in ids[s] : row[c].status # "absent"
           /\ Carrying(s) => \A c \in ids[s] : row[c] = Unborn
      /\ pushed \subseteq Contacts /\ \A s \in Requests : ids[s] \subseteq Contacts
  BY DEF KInv, Kept, TInv, TypeOK
<1>2. Unborn.status = "absent" /\ Unborn' = Unborn
  BY DEF Unborn
<1>3. \A s \in Requests : Carrying(s)' <=> Carrying(s)
  BY DEF Carrying
<1>. HIDE DEF Unborn
<1>4. \A s \in Requests : Carrying(s) => \A c \in ids[s] : row'[c] = Unborn
  BY <1>1, <1>2
<1>5. \A s \in Requests : at[s] = "enqueue" => \A c \in ids[s] : row'[c].status # "absent"
  BY <1>1
<1>6. \A c \in pushed : row'[c].status # "absent"
  BY <1>1
<1>. QED  BY <1>2, <1>3, <1>4, <1>5, <1>6 DEF Kept

LEMMA KeptRun ==
  ASSUME TInv, KInv, NEW p \in Pools, Run(p), ~halted, faults = 0
  PROVE  Kept'
<1>1. /\ UNCHANGED <<api, row, pushed, dropped, outcome, tries>>
      /\ \A q \in Pools \ {p} : hand'[q] = hand[q]
  BY RunFrame
<1>2. \A c \in pushed : Placed(c) /\ c \in Contacts
  BY DEF KInv, Kept, TInv, TypeOK
<1>3. CASE /\ hand[p] = None /\ queue # <<>> /\ queue' = Tail(queue) /\ hand'[p] = Head(queue)
           /\ UNCHANGED <<pc, owner, contact>>
  <2>1. \A c : InQueue(c) => InQueue(c)' \/ hand'[p] = c
    <3>1. queue \in Seq(Contacts)
      BY DEF TInv, TypeOK
    <3>. QED  BY <1>3, <3>1, TailOnce DEF InQueue, InList
  <2>2. \A c \in Contacts : (\E q \in Pools : hand[q] = c) => \E q \in Pools : hand'[q] = c
    BY <1>1, <1>3, NoneAssumption
  <2>3. \A g \in Dials : Pursues(g) => Pursues(g)' /\ contact'[g] = contact[g]
    BY <1>1, <1>3 DEF Pursues
  <2>4. \A c \in pushed : Placed(c)'
    BY <1>1, <1>2, <2>1, <2>2, <2>3 DEF Placed, IsSettled
  <2>. QED  BY <1>1, <2>4, KeptPlaces
<1>4. ASSUME NEW g \in Dials,
             hand[p] # None, hand'[p] = None, pc[g] = "idle", pc'[g] = "get",
             contact'[g] = hand[p], queue' = queue,
             \A h \in Dials \ {g} : pc'[h] = pc[h] /\ contact'[h] = contact[h]
      PROVE  Kept'
  <2>1. \A c : InQueue(c) => InQueue(c)'
    BY <1>4 DEF InQueue
  <2>2. Pursues(g)' /\ ~Pursues(g)
    BY <1>4 DEF Pursues
  <2>3. \A h \in Dials : Pursues(h) => Pursues(h)' /\ contact'[h] = contact[h]
    BY <1>1, <1>4, <2>2 DEF Pursues
  <2>4. \A c \in Contacts : (\E q \in Pools : hand[q] = c)
                              => (\E q \in Pools : hand'[q] = c) \/ contact'[g] = c
    BY <1>1, <1>4
  <2>5. \A c \in pushed : Placed(c)'
    BY <1>1, <1>2, <2>1, <2>2, <2>3, <2>4 DEF Placed, IsSettled
  <2>. QED  BY <1>1, <2>5, KeptPlaces
<1>5. CASE UNCHANGED <<pc, owner, contact, queue>> /\ hand'[p] = hand[p]
  <2>1. /\ \A c : InQueue(c) => InQueue(c)'
        /\ \A g \in Dials : Pursues(g) => Pursues(g)' /\ contact'[g] = contact[g]
        /\ \A q \in Pools : hand'[q] = hand[q]
    BY <1>1, <1>5 DEF InQueue, Pursues
  <2>2. \A c \in pushed : Placed(c)'
    BY <1>1, <1>2, <2>1 DEF Placed, IsSettled
  <2>. QED  BY <1>1, <2>2, KeptPlaces
<1>6. ~cancelled[p]
  BY DEF TInv, Shape
<1>. QED  BY <1>3, <1>4, <1>5, <1>6, RunFrame

LEMMA KeptDial ==
  ASSUME TInv, Origins, KInv, NEW g \in Dials, DialOne(g), ~halted, faults = 0, faults' = 0
  PROVE  Kept'
<1>. DEFINE c == contact[g]
            a == tries[g]
<1>1. /\ UNCHANGED <<api, pushed, dropped, hand>> /\ c \in Contacts /\ owner[g] \in Pools
      /\ \A h \in Dials \ {g} :
           pc'[h] = pc[h] /\ contact'[h] = contact[h] /\ tries'[h] = tries[h] /\ outcome'[h] = outcome[h]
  BY DialFrame
<1>2. /\ \A d \in Contacts \ {c} : row'[d] = row[d]
      /\ Working(g) => c \in pushed
  BY DialWhere DEF Origins
<1>3. /\ \A d \in pushed : row[d].status # "absent" /\ Placed(d) /\ d \in Contacts
      /\ row \in [Contacts -> [status : ContactStatus \cup {"absent"}, attempts : Nat]]
      /\ a \in Nat /\ a + 1 \in Nat /\ tries \in [Dials -> Nat] /\ outcome \in [Dials -> ContactStatus]
      /\ queue \in Seq(Contacts)
  BY DEF KInv, Kept, TInv, TypeOK
<1>4. ~cancelled[owner[g]]
  BY <1>1 DEF TInv, Shape
<1>5. \A ok \in BOOLEAN : AttemptOf(owner[g], ok) => ok
  BY <1>4 DEF AttemptOf
<1>6. \A d : InQueue(d) => InQueue(d)'
  <2>1. queue' = queue \/ queue' = Append(queue, c)
    BY DialDoes
  <2>2. \A d : InList(Append(queue, c), d) <=> InList(queue, d) \/ d = c
    BY <1>1, <1>3, AppendOnce
  <2>3. \A d : InQueue(d) => InList(queue, d)
    BY DEF InQueue, InList
  <2>4. \A d : InList(queue', d) => InQueue(d)'
    BY DEF InQueue, InList
  <2>. QED  BY <2>1, <2>2, <2>3, <2>4
<1>7. \A h \in Dials \ {g} : Pursues(h) => Pursues(h)' /\ contact'[h] = contact[h]
  BY <1>1 DEF Pursues
<1>. HIDE DEF c, a
<1>8. \A d \in pushed \ {c} : Placed(d)'
  <2> SUFFICES ASSUME NEW d \in pushed \ {c} PROVE Placed(d)'
    OBVIOUS
  <2>1. row'[d] = row[d] /\ d # contact[g]
    BY <1>2, <1>3 DEF c
  <2>. QED  BY <1>1, <1>3, <1>6, <1>7, <2>1 DEF Placed, IsSettled
<1>9. ASSUME row' = row, pc[g] \notin {"get", "begin", "calling"},
             pc[g] = "retry" => ~ShouldRetry(outcome[g], a, RetryMax)
      PROVE  c \in pushed => Placed(contact[g]) /\ ~Pursues(g)
  BY <1>3, <1>9 DEF Pursues, c, a
<1>10. ASSUME \/ row' = row
              \/ \E o \in CallOutcome \cup {"dialing"} : row' = SavedRow(c, TRUE, o, a + 1)
       PROVE  /\ \A d \in Contacts : row[d].status # "absent" => row'[d].status # "absent"
              /\ \A d \in Contacts : row[d].status = "absent" => row'[d] = row[d]
  <2>1. CASE row' = row  BY <2>1
  <2>2. ASSUME NEW o \in ContactStatus, row' = SavedRow(c, TRUE, o, a + 1)
        PROVE  /\ \A d \in Contacts : row[d].status # "absent" => row'[d].status # "absent"
               /\ \A d \in Contacts : row[d].status = "absent" => row'[d] = row[d]
    BY <1>1, <1>3, <2>2, RowWritten DEF c
  <2>3. CallOutcome \cup {"dialing"} \subseteq ContactStatus
    BY DEF CallOutcome, ContactStatus
  <2>. QED  BY <1>10, <2>1, <2>2, <2>3
<1>11. ASSUME NEW d \in {c}, row' = row, ~Pursues(g), d \in pushed PROVE Placed(d)'
  BY <1>1, <1>3, <1>6, <1>7, <1>11 DEF Placed, IsSettled
<1>12. CASE GetContact(g) /\ pc[g] = "get"
  <2>1. UNCHANGED <<contact, row>>
    BY <1>12, DialDoes
  <2>2. c \in pushed
    BY <1>2, <1>12 DEF Working
  <2>3. row[contact[g]].status # "absent"
    BY <1>3, <2>2 DEF c
  <2>4. pc'[g] = "begin"
    BY <1>5, <1>12, <2>3 DEF GetContact, DialTo, TInv, TypeOK
  <2>5. \A d \in {c} : Placed(d)'
    BY <2>1, <2>4 DEF Placed, Pursues, c
  <2>. QED  BY <1>1, <1>8, <1>10, <2>1, <2>5, KeptPlaces
<1>13. CASE BeginCall(g) /\ pc[g] = "begin"
  <2>1. contact' = contact /\ pc'[g] = "calling"
        /\ \E ok \in BOOLEAN : AttemptOf(owner[g], ok) /\ row' = SavedRow(c, ok, "dialing", a + 1)
    BY <1>13, DialDoes DEF c, a
  <2>2. row' = SavedRow(c, TRUE, "dialing", a + 1)
    BY <1>5, <2>1
  <2>3. \A d \in {c} : Placed(d)'
    BY <2>1 DEF Placed, Pursues, c
  <2>. QED  BY <1>1, <1>8, <1>10, <2>2, <2>3, KeptPlaces
<1>14. CASE EndCall(g) /\ pc[g] = "calling"
  <2>1. /\ contact' = contact /\ pc'[g] = "retry" /\ tries' = [tries EXCEPT ![g] = a + 1]
        /\ \E ok \in BOOLEAN, o \in CallOutcome :
             /\ AttemptOf(owner[g], ok) /\ row' = SavedRow(c, ok, o, a + 1)
             /\ outcome' = [outcome EXCEPT ![g] = o]
    BY <1>14, DialDoes DEF c, a
  <2>2. PICK ok \in BOOLEAN, o \in CallOutcome :
          ok /\ row' = SavedRow(c, ok, o, a + 1) /\ outcome' = [outcome EXCEPT ![g] = o]
    BY <1>5, <2>1
  <2>3. tries'[g] = a + 1 /\ outcome'[g] = o
    BY <1>3, <2>1, <2>2
  <2>4. row[c].status # "absent" /\ o \in ContactStatus
    BY <1>14, <2>2 DEF TInv, Shape, c, CallOutcome, ContactStatus
  <2>5. row'[c] = [status |-> o, attempts |-> a + 1] /\ row' = SavedRow(c, TRUE, o, a + 1)
    <3>1. row' = [row EXCEPT ![c] = [status |-> o, attempts |-> a + 1]]
      BY <2>2, <2>4 DEF SavedRow
    <3>2. c \in DOMAIN row
      BY <1>1, <1>3 DEF c
    <3>. QED  BY <2>2, <2>4, <3>1, <3>2 DEF SavedRow
  <2>6. row'[c].status = o /\ row'[c].attempts = a + 1
    BY <2>5
  <2>7. \A d \in {c} : Placed(d)'
    <3>1. CASE ShouldRetry(o, a + 1, RetryMax)
      BY <2>1, <2>3, <3>1 DEF Placed, Pursues, c
    <3>2. CASE ~ShouldRetry(o, a + 1, RetryMax)
      BY <2>2, <2>6, <3>2 DEF Placed, IsSettled
    <3>. QED  BY <3>1, <3>2
  <2>. QED  BY <1>1, <1>8, <1>10, <2>2, <2>5, <2>7, KeptPlaces
<1>15. CASE Requeue(g) /\ pc[g] = "retry"
  <2>1. /\ row' = row
        /\ \/ /\ ShouldRetry(outcome[g], a, RetryMax)
              /\ \E ok \in BOOLEAN :
                   AttemptOf(owner[g], ok) /\ queue' = IF ok THEN Append(queue, c) ELSE queue
           \/ ~ShouldRetry(outcome[g], a, RetryMax)
    BY <1>15, DialDoes DEF c, a
  <2>2. \A d \in {c} : d \in pushed => Placed(d)'
    <3>1. CASE ~ShouldRetry(outcome[g], a, RetryMax)
      <4>1. ~Pursues(g)
        BY <1>15, <3>1 DEF Pursues, a
      <4>. QED  BY <1>11, <2>1, <4>1
    <3>2. CASE queue' = Append(queue, c)
      BY <1>1, <1>3, <3>2, AppendOnce DEF Placed, InQueue, InList, c
    <3>. QED  BY <1>5, <2>1, <3>1, <3>2
  <2>. QED  BY <1>1, <1>8, <1>10, <2>1, <2>2, KeptPlaces
<1>16. CASE Release(g) /\ pc[g] = "release"
  <2>1. row' = row /\ ~Pursues(g)
    BY <1>16, DialDoes DEF Pursues
  <2>2. \A d \in {c} : d \in pushed => Placed(d)'
    BY <1>11, <2>1
  <2>. QED  BY <1>1, <1>8, <1>10, <2>1, <2>2, KeptPlaces
<1>. QED  BY <1>12, <1>13, <1>14, <1>15, <1>16, DialDoes

LEMMA KeptStep == TInv /\ Origins /\ KInv /\ [Next]_vars => KInv'
<1> SUFFICES ASSUME TInv, Origins, KInv, [Next]_vars, ~halted', faults' = 0 PROVE Kept'
  BY BatchedStep DEF KInv, Kept
<1>0. ~halted /\ faults = 0
  BY HaltedStays, FaultsGrow
<1>1. /\ \A c \in pushed : row[c].status # "absent" /\ Placed(c)
      /\ pushed \subseteq Contacts
  BY <1>0 DEF KInv, Kept, TInv, TypeOK
<1>2. ASSUME UNCHANGED <<row, queue, hand, dials, dropped>> PROVE \A c \in pushed : Placed(c)'
  BY <1>1, <1>2 DEF Placed, InQueue, Pursues, IsSettled
<1>3. ASSUME NEW r \in Requests, AskCreate(r) \/ AskPause(r) \/ AskResume(r) \/ AskStop(r)
      PROVE  Kept'
  <2>1. /\ UNCHANGED <<row, queue, hand, dials, dropped, pushed>> /\ at'[r] # "enqueue"
        /\ \A s \in Requests \ {r} : at'[s] = at[s] /\ ids'[s] = ids[s]
    BY <1>3, AskFrame
  <2>2. \A c \in pushed' : row'[c].status # "absent" /\ Placed(c)'
    BY <1>1, <1>2, <2>1
  <2>3. Carrying(r)' => \A c \in ids'[r] : row'[c] = Unborn
    <3>1. CASE AskCreate(r)
      BY <2>1, <3>1 DEF AskCreate, TInv, TypeOK
    <3>2. CASE at'[r] \in {"pause", "resume", "stop"}
      BY <3>2 DEF Carrying
    <3>. QED  BY <1>3, <3>1, <3>2, AskFrame
  <2>4. \A s \in Requests \ {r} : Carrying(s)' => \A c \in ids'[s] : row'[c] = Unborn
    BY <1>0, <2>1 DEF Carrying, KInv, Kept
  <2>5. \A s \in Requests : at'[s] = "enqueue" => \A c \in ids'[s] : row'[c].status # "absent"
    BY <1>0, <2>1 DEF KInv, Kept
  <2>. QED  BY <2>2, <2>3, <2>4, <2>5 DEF Kept, Unborn
<1>4. CASE UNCHANGED vars
  <2>1. UNCHANGED <<row, queue, hand, dials, dropped, at, ids, pushed>>
    BY <1>4 DEF vars
  <2>. QED  BY <1>0, <1>2, <2>1, KeptPlaces
<1>5. CASE Crash
  <2>1. /\ UNCHANGED <<row, queue, pushed>> /\ dropped' = dropped \cup InFlight
        /\ \A r \in Requests : at'[r] = "idle"
    BY <1>5 DEF Crash, Forget, NoRequests
  <2>2. ASSUME NEW c \in pushed PROVE Placed(c)'
    <3>1. c \in Contacts /\ c # None /\ Placed(c)
      BY <1>1, NoneAssumption
    <3>2. (\E p \in Pools : hand[p] = c) \/ (\E g \in Dials : Pursues(g) /\ contact[g] = c) => c \in InFlight
      BY <3>1 DEF InFlight, Pursues, Working
    <3>. QED  BY <2>1, <3>1, <3>2 DEF Placed, InQueue, IsSettled
  <2>. QED  BY <1>1, <2>1, <2>2 DEF Kept, Carrying
<1>. QED  BY <1>0, <1>3, <1>4, <1>5, KeptServe, KeptRun, KeptDial DEF Next

(* However many requests, pools and restarts there are, and in whatever    *)
(* order: while no call to Redis or PostgreSQL fails and nobody stops the  *)
(* campaign, a contact that was queued is in the list, held, being dialed  *)
(* or settled, but for those a crash caught in flight (main.go:128).       *)
THEOREM LossBoundedHolds == Spec => []LossBounded
<1>1. TInv /\ KInv => LossBounded
  <2> SUFFICES ASSUME TInv, KInv, ~halted, faults = 0, NEW c \in Lost PROVE c \in dropped
    BY DEF LossBounded
  <2>1. c \in pushed /\ c \notin InFlight /\ ~InQueue(c) /\ ~IsSettled(c) /\ c # None
    BY NoneAssumption DEF Lost, TInv, TypeOK
  <2>2. Placed(c)
    BY <2>1 DEF KInv, Kept
  <2>3. ~(\E p \in Pools : hand[p] = c) /\ ~(\E g \in Dials : Pursues(g) /\ contact[g] = c)
    BY <2>1 DEF InFlight, Pursues, Working
  <2>. QED  BY <2>1, <2>2, <2>3 DEF Placed
<1>2. Init => Origins
  BY PlacesInit DEF PInv
<1>. QED
  BY <1>1, <1>2, TypeInit, TypeStep, OriginsStep, KeptInit, KeptStep, PTL DEF Spec

=============================================================================
