-------------------------- MODULE WorkerPoolProofs --------------------------
(***************************************************************************)
(* Theorems about WorkerPool, for every number of contacts, goroutines,    *)
(* slots, retries and failing calls.                                       *)
(***************************************************************************)
EXTENDS WorkerPool, FiniteSetTheorems, TLAPS

Assumptions ==
  /\ Concurrency \in 1..10 /\ RetryMax \in Nat /\ MaxFaults \in Nat
  /\ Day \in Nat \ {0} /\ ReportEvery \in Nat \ {0}
  /\ Outcomes \subseteq CallOutcome /\ None \notin Contacts
  /\ IsFiniteSet(Dials)
  /\ \A f \in Found :
       /\ f.counts \in Counters /\ f.counts.dialed = Total(f.counts.tally)
       /\ f.stored \in Counters /\ f.total \in Nat /\ f.status \in CampaignStatus
       /\ f.rows \in [Contacts -> [status : ContactStatus, attempts : Nat]]
       /\ f.queue \in Seq(Contacts) /\ IsInjectiveSeq(f.queue)
       /\ \A i \in DOMAIN f.queue : /\ f.rows[f.queue[i]].attempts <= RetryMax
                                     /\ f.rows[f.queue[i]].status # "dnc"

LEMMA ConstantsTyped == Assumptions
BY ConcurrencyAssumption, DialsAssumption, RetryAssumption, OutcomesAssumption,
   FoundAssumption, NoneAssumption, BoundsAssumption DEF Assumptions

-----------------------------------------------------------------------------
(* The initial progress, and progress after one more dial, are progress.   *)
LEMMA ProgressTyped ==
  /\ NoProgress \in Progress
  /\ \A f \in Found : InitProgress(f) \in Progress
  /\ \A p \in Progress : [p EXCEPT !.remaining = 0] \in Progress /\ CountersOf(p) \in Counters
  /\ \A p \in Progress, s \in CallOutcome \cup {"dnc"} : Advance(p, s) \in Progress
  /\ \A p \in Counters, s \in CallOutcome \cup {"dnc"} : Count(p, s) \in Counters
<1>1. NoProgress \in Progress
  BY DEF NoProgress, Progress, ZeroTally
<1>2. ASSUME NEW t \in [CallOutcome -> Nat], NEW s \in CallOutcome \cup {"dnc"}
      PROVE  Bump(t, s) \in [CallOutcome -> Nat]
  BY DEF Bump, Counter, CallOutcome
<1>3. ASSUME NEW p \in Progress
      PROVE  [p EXCEPT !.remaining = 0] \in Progress /\ CountersOf(p) \in Counters
  BY DEF Progress, CountersOf, Counters
<1>4. ASSUME NEW p \in Progress, NEW s \in CallOutcome \cup {"dnc"}
      PROVE  Advance(p, s) \in Progress
  BY <1>2 DEF Progress, Advance
<1>5. ASSUME NEW p \in Counters, NEW s \in CallOutcome \cup {"dnc"}
      PROVE  Count(p, s) \in Counters
  BY <1>2 DEF Counters, Count
<1>6. ASSUME NEW f \in Found PROVE InitProgress(f) \in Progress
  BY ConstantsTyped DEF Assumptions, InitProgress, Progress, Counters
<1>. QED  BY <1>1, <1>3, <1>4, <1>5, <1>6

(* What NestJS is told, and what it makes of it.                           *)
Messages == [progress : Progress, final : BOOLEAN]

LEMMA HandleTyped ==
  ASSUME NEW p \in Progress, NEW final \in BOOLEAN, dbStatus \in CampaignStatus, Handle(p, final)
  PROVE  /\ reported' \in Messages /\ dbCount' \in Counters /\ dbStatus' \in CampaignStatus
<1>1. CountersOf(p) \in Counters
  BY ProgressTyped
<1>. QED  BY <1>1 DEF Handle, Messages, CampaignStatus

LEMMA CallbackTyped ==
  ASSUME NEW p \in Progress, NEW final \in BOOLEAN, NEW ok \in BOOLEAN,
         reported \in Messages, dbCount \in Counters, dbStatus \in CampaignStatus,
         astray \subseteq Messages, Callback(ok, p, final)
  PROVE  /\ reported' \in Messages /\ dbCount' \in Counters /\ dbStatus' \in CampaignStatus
         /\ astray' \subseteq Messages
<1>1. CASE ok /\ Handle(p, final) /\ UNCHANGED astray
  BY <1>1, HandleTyped
<1>2. CASE /\ UNCHANGED <<reported, dbCount, dbStatus>>
           /\ astray' \in {astray, astray \cup {[progress |-> p, final |-> final]}}
  BY <1>2 DEF Messages
<1>. QED  BY <1>1, <1>2 DEF Callback

(* A call that may fail keeps the number of faults within its bound.       *)
LEMMA FaultsTyped ==
  faults \in 0..MaxFaults =>
    /\ \A ok \in BOOLEAN : Attempt(ok) => faults' \in 0..MaxFaults
    /\ \A ok \in BOOLEAN : AttemptDetached(ok) => faults' \in 0..MaxFaults
BY ConstantsTyped DEF Assumptions, Attempt, AttemptDetached

(* The clock stays within its day.                                         *)
LEMMA ModTyped ==
  ASSUME NEW a \in Int, NEW d \in Int, d > 0
  PROVE  a % d \in 0..(d - 1)
OBVIOUS

-----------------------------------------------------------------------------
TInv == TypeOK /\ Shape /\ SlotsAccounted

Slots == {g \in Dials : pc[g] # "idle"}

USE DEF memory, locals, external, history, Local, OtherData

(* A goroutine that holds a slot is counted by the semaphore.              *)
LEMMA SlotHeld ==
  ASSUME SlotsAccounted, NEW g \in Dials, pc[g] # "idle"
  PROVE  /\ sem \in Nat /\ sem > 0
         /\ IsFiniteSet(Slots \ {g}) /\ Cardinality(Slots \ {g}) = sem - 1
<1>1. IsFiniteSet(Slots) /\ sem = Cardinality(Slots) /\ g \in Slots
  BY ConstantsTyped, FS_Subset DEF Slots, SlotsAccounted, Assumptions
<1>2. /\ IsFiniteSet(Slots \ {g}) /\ Cardinality(Slots \ {g}) = sem - 1
      /\ sem \in Nat /\ Cardinality(Slots \ {g}) \in Nat
  BY <1>1, FS_RemoveElement, FS_CardinalityType
<1>. QED  BY <1>2

(* Every step keeps the semaphore in line with the goroutines.             *)
LEMMA SlotsStep == TInv /\ [Next]_vars => SlotsAccounted'
<1> SUFFICES ASSUME TInv, [Next]_vars PROVE sem' = Cardinality(Slots')
  BY DEF SlotsAccounted, Slots
<1>1. IsFiniteSet(Slots) /\ sem = Cardinality(Slots)
  BY ConstantsTyped, FS_Subset DEF TInv, Slots, SlotsAccounted, Assumptions
<1>2. ASSUME NEW g \in Dials, Launch(g) PROVE sem' = Cardinality(Slots')
  <2>1. Slots' = Slots \cup {g} /\ g \notin Slots /\ sem' = sem + 1
    BY <1>2 DEF Launch, Goto, At, Slots, TInv, TypeOK
  <2>. QED  BY <1>1, <2>1, FS_AddElement
<1>3. ASSUME NEW g \in Dials, Release(g) PROVE sem' = Cardinality(Slots')
  <2>1. Slots' = Slots \ {g} /\ pc[g] # "idle" /\ sem' = sem - 1
    BY <1>3 DEF Release, EndOf, Goto, At, Slots, TInv, TypeOK
  <2>. QED  BY <2>1, SlotHeld DEF TInv
<1>4. ASSUME NEW g \in Dials, DialOne(g), ~Release(g) PROVE Slots' = Slots /\ sem' = sem
  BY <1>4 DEF DialOne, GetContact, CheckDnc, SkipBlocked, BeginCall, EndCall, Tally,
              PublishCount, PublishCache, Notify, Requeue, Goto, At, Slots, TInv, TypeOK
<1>5. ASSUME Loop, \A g \in Dials : ~Launch(g) PROVE Slots' = Slots /\ sem' = sem
  BY <1>5 DEF Loop, Start, LoopReturn, LoopPass, LoopTo, Dequeue, DequeueError,
              DequeueEmpty, AbandonHeld, Finish, FinishRecord, FinishReport, Slots
<1>6. ASSUME Control \/ HandleAstray \/ Tick \/ UNCHANGED vars PROVE Slots' = Slots /\ sem' = sem
  BY <1>6 DEF Control, Pause, Resume, Stop, HandleAstray, Tick, vars, Slots
<1>. QED  BY <1>1, <1>2, <1>3, <1>4, <1>5, <1>6 DEF Next

LEMMA TypeInit == Init => TInv
<1> SUFFICES ASSUME Init PROVE TInv
  OBVIOUS
<1>1. TypeOK
  <2>1. /\ pc \in [Dials -> WorkPc \cup {"idle", "release"}]
        /\ contact \in [Dials -> Contacts \cup {None}] /\ tries \in [Dials -> Nat]
        /\ outcome \in [Dials -> ContactStatus] /\ snap \in [Dials -> Progress]
    BY ProgressTyped DEF Init, ContactStatus
  <2>2. /\ row \in [Contacts -> [status : ContactStatus, attempts : Nat]]
        /\ calls \in [Contacts -> Nat] /\ began \in Found
        /\ dbCount \in Counters /\ dbStatus \in CampaignStatus
    BY ConstantsTyped DEF Init, Assumptions
  <2>3. /\ progress \in Progress /\ redisProg \in Progress
        /\ reported \in [progress : Progress, final : BOOLEAN]
        /\ astray \subseteq [progress : Progress, final : BOOLEAN]
    BY ProgressTyped DEF Init
  <2>4. /\ sem \in 0..Concurrency /\ queue \in Seq(Contacts) /\ faults \in 0..MaxFaults
    BY ConstantsTyped DEF Init, Assumptions
  <2>5. /\ state \in CampaignStatus /\ cancelled \in BOOLEAN
        /\ held \in Contacts \cup {None} /\ halted \in BOOLEAN
        /\ loop \in {"start", "check", "dequeue", "acquire", "drain", "record", "report", "done"}
        /\ dialCount \in Nat /\ late \in Nat /\ now \in 0..(Day - 1)
    BY DEF Init, CampaignStatus
  <2>. QED  BY <2>1, <2>2, <2>3, <2>4, <2>5 DEF TypeOK
<1>2. Shape
  BY ConstantsTyped DEF Init, Shape, Assumptions
<1>3. SlotsAccounted
  <2>1. {g \in Dials : pc[g] # "idle"} = {} /\ sem = 0
    BY DEF Init
  <2>. QED  BY <2>1, FS_EmptySet DEF SlotsAccounted
<1>. QED  BY <1>1, <1>2, <1>3 DEF TInv

LEMMA TypeLoop == TInv /\ Loop => TypeOK' /\ Shape'
<1> SUFFICES ASSUME TInv, Loop PROVE TypeOK' /\ Shape'
  OBVIOUS
<1> USE DEF TInv, TypeOK, Shape, Goto, At, LoopTo, CampaignStatus
<1>1. CASE Start  BY <1>1 DEF Start
<1>2. CASE LoopReturn  BY <1>2 DEF LoopReturn
<1>3. CASE LoopPass  BY <1>3 DEF LoopPass
<1>4. CASE Dequeue  BY <1>4, NoneAssumption DEF Dequeue
<1>5. CASE DequeueError
  <2>1. faults' \in 0..MaxFaults
    BY <1>5, FaultsTyped DEF DequeueError
  <2>2. queue' \in Seq(Contacts)
    <3>1. queue # <<>> => Tail(queue) \in Seq(Contacts)
      OBVIOUS
    <3>2. queue' = queue \/ (queue # <<>> /\ queue' = Tail(queue))
      BY <1>5 DEF DequeueError
    <3>. QED  BY <3>1, <3>2
  <2>. QED  BY <1>5, <2>1, <2>2 DEF DequeueError
<1>6. CASE DequeueEmpty  BY <1>6 DEF DequeueEmpty
<1>7. CASE \E g \in Dials : Launch(g)  BY <1>7, ConcurrencyAssumption DEF Launch, WorkPc
<1>8. CASE AbandonHeld  BY <1>8 DEF AbandonHeld
<1>9. CASE Finish  BY <1>9 DEF Finish
<1>10. CASE FinishRecord  BY <1>10, FaultsTyped DEF FinishRecord
<1>11. CASE FinishReport
  <2>1. faults' \in 0..MaxFaults
    BY <1>11, FaultsTyped DEF FinishReport
  <2>2. /\ reported' \in Messages /\ dbCount' \in Counters /\ dbStatus' \in CampaignStatus
        /\ astray' \subseteq Messages
    <3>1. PICK ok \in BOOLEAN : Callback(ok, [progress EXCEPT !.remaining = 0], TRUE)
      BY <1>11 DEF FinishReport
    <3>2. /\ [progress EXCEPT !.remaining = 0] \in Progress
          /\ reported \in Messages /\ astray \subseteq Messages
      BY ProgressTyped DEF Messages
    <3>. QED  BY <3>1, <3>2, CallbackTyped
  <2>. QED  BY <1>11, <2>1, <2>2 DEF FinishReport, Messages
<1>. QED  BY <1>1, <1>2, <1>3, <1>4, <1>5, <1>6, <1>7, <1>8, <1>9, <1>10, <1>11 DEF Loop

LEMMA TypeDial == TInv /\ (\E g \in Dials : DialOne(g)) => TypeOK' /\ Shape'
<1> SUFFICES ASSUME TInv, NEW g \in Dials, DialOne(g) PROVE TypeOK' /\ Shape'
  OBVIOUS
<1> USE DEF TInv, TypeOK, Shape, Goto, At, WorkPc, ContactStatus
<1>1. CASE GetContact(g)
  <2>1. contact[g] \in Contacts /\ row[contact[g]].attempts \in Nat
    BY <1>1 DEF GetContact
  <2>. QED  BY <1>1, <2>1, FaultsTyped DEF GetContact
<1>2. CASE CheckDnc(g)  BY <1>2, FaultsTyped DEF CheckDnc
<1>3. CASE SkipBlocked(g)  BY <1>3, FaultsTyped DEF SkipBlocked, SavedRow
<1>4. CASE BeginCall(g)
  <2>. faults' \in 0..MaxFaults
    BY <1>4, FaultsTyped DEF BeginCall
  <2>1. row' \in [Contacts -> [status : ContactStatus, attempts : Nat]]
    <3>1. contact[g] \in Contacts /\ tries[g] + 1 \in Nat
      BY <1>4 DEF BeginCall
    <3>. QED  BY <1>4, <3>1 DEF BeginCall, SavedRow
  <2>2. calls' \in [Contacts -> Nat]
    BY <1>4 DEF BeginCall
  <2>3. outcome' \in [Dials -> ContactStatus] /\ \A h \in Dials \ {g} : outcome'[h] = outcome[h]
    BY <1>4 DEF BeginCall
  <2>4. /\ pc' = [pc EXCEPT ![g] = "calling"] /\ At(g, "begin")
        /\ UNCHANGED <<Local, contact, tries, snap, progress, dialCount, OtherData, now,
                       began, late, halted>>
    BY <1>4 DEF BeginCall
  <2>5. TypeOK'
    BY <2>1, <2>2, <2>3, <2>4
  <2>6. Shape'
    BY <2>3, <2>4
  <2>. QED  BY <2>5, <2>6
<1>5. CASE EndCall(g)  BY <1>5, FaultsTyped, OutcomesAssumption DEF EndCall, SavedRow, CallOutcome
<1>6. CASE Tally(g)  BY <1>6, ProgressTyped DEF Tally
<1>7. CASE PublishCount(g)  BY <1>7, FaultsTyped, ProgressTyped DEF PublishCount
<1>8. CASE PublishCache(g)  BY <1>8, FaultsTyped DEF PublishCache
<1>9. CASE Notify(g)
  <2>1. faults' \in 0..MaxFaults
    BY <1>9, FaultsTyped DEF Notify
  <2>2. snap[g] \in Progress
    OBVIOUS
  <2>3. /\ reported' \in Messages /\ dbCount' \in Counters /\ dbStatus' \in CampaignStatus
        /\ astray' \subseteq Messages
    <3>1. \/ UNCHANGED <<reported, dbCount, dbStatus, astray>>
          \/ \E ok \in BOOLEAN : Callback(ok, snap[g], FALSE)
      BY <1>9 DEF Notify
    <3>. QED  BY <2>2, <3>1, CallbackTyped DEF Messages
  <2>4. dialCount' \in Nat
    BY <1>9 DEF Notify
  <2>. QED  BY <1>9, <2>1, <2>3, <2>4 DEF Notify, Messages
<1>10. CASE Requeue(g)
  <2>1. faults' \in 0..MaxFaults
    BY <1>10, FaultsTyped DEF Requeue
  <2>2. contact[g] \in Contacts
    BY <1>10 DEF Requeue
  <2>3. Append(queue, contact[g]) \in Seq(Contacts)
    BY <2>2
  <2>4. queue' \in Seq(Contacts)
    BY <1>10, <2>3 DEF Requeue
  <2>. QED  BY <1>10, <2>1, <2>4 DEF Requeue
<1>11. CASE Release(g)
  <2>1. pc[g] # "idle"
    BY <1>11 DEF Release
  <2>2. sem > 0
    BY <2>1, SlotHeld
  <2>3. sem' \in 0..Concurrency
    BY <1>11, <2>2, ConcurrencyAssumption DEF Release
  <2>. QED  BY <1>11, <2>3, ProgressTyped DEF Release, EndOf
<1>. QED  BY <1>1, <1>2, <1>3, <1>4, <1>5, <1>6, <1>7, <1>8, <1>9, <1>10, <1>11 DEF DialOne

LEMMA TypeControl == TInv /\ (Control \/ HandleAstray \/ Tick) => TypeOK' /\ Shape'
<1> SUFFICES ASSUME TInv, Control \/ HandleAstray \/ Tick PROVE TypeOK' /\ Shape'
  OBVIOUS
<1> USE DEF TInv, TypeOK, Shape, CampaignStatus
<1>1. CASE Pause  BY <1>1, FaultsTyped DEF Pause, SaveStatus
<1>2. CASE Resume  BY <1>2, FaultsTyped DEF Resume, SaveStatus
<1>3. CASE Stop  BY <1>3 DEF Stop
<1>4. CASE Tick
  <2>1. (now + 1) % Day \in 0..(Day - 1)
    <3>1. now + 1 \in Int /\ Day \in Int /\ Day > 0
      BY BoundsAssumption
    <3>. QED  BY <3>1, ModTyped
  <2>2. now' \in 0..(Day - 1)
    BY <1>4, <2>1 DEF Tick
  <2>3. late' \in Nat
    BY <1>4 DEF Tick
  <2>. QED  BY <1>4, <2>2, <2>3 DEF Tick
<1>5. CASE HandleAstray
  <2>1. PICK m \in astray : Handle(m.progress, m.final) /\ astray' = astray \ {m}
    BY <1>5 DEF HandleAstray
  <2>2. m.progress \in Progress /\ m.final \in BOOLEAN
    OBVIOUS
  <2>3. reported' \in Messages /\ dbCount' \in Counters /\ dbStatus' \in CampaignStatus
    BY <2>1, <2>2, HandleTyped
  <2>4. astray' \subseteq [progress : Progress, final : BOOLEAN]
    BY <2>1
  <2>. QED  BY <1>5, <2>3, <2>4 DEF HandleAstray, Messages
<1>. QED  BY <1>1, <1>2, <1>3, <1>4, <1>5 DEF Control

(* A step of one goroutine is not seen in the others.                      *)
LEMMA OthersStill ==
  ASSUME TInv, NEW g \in Dials, DialOne(g)
  PROVE  \A h \in Dials \ {g} :
           pc'[h] = pc[h] /\ contact'[h] = contact[h] /\ outcome'[h] = outcome[h]
             /\ tries'[h] = tries[h]
<1>1. \E place : pc' = [pc EXCEPT ![g] = place]
  BY DEF DialOne, GetContact, CheckDnc, SkipBlocked, BeginCall, EndCall, Tally,
     PublishCount, PublishCache, Notify, Requeue, Release, EndOf, Goto
<1>2. \/ contact' = contact
      \/ \E c : contact' = [contact EXCEPT ![g] = c]
  BY DEF DialOne, GetContact, CheckDnc, SkipBlocked, BeginCall, EndCall, Tally,
     PublishCount, PublishCache, Notify, Requeue, Release, EndOf
<1>3. \/ outcome' = outcome
      \/ \E o : outcome' = [outcome EXCEPT ![g] = o]
  BY DEF DialOne, GetContact, CheckDnc, SkipBlocked, BeginCall, EndCall, Tally,
     PublishCount, PublishCache, Notify, Requeue, Release, EndOf
<1>4. \/ tries' = tries
      \/ \E n : tries' = [tries EXCEPT ![g] = n]
  BY DEF DialOne, GetContact, CheckDnc, SkipBlocked, BeginCall, EndCall, Tally,
     PublishCount, PublishCache, Notify, Requeue, Release, EndOf
<1>. QED  BY <1>1, <1>2, <1>3, <1>4 DEF TInv, TypeOK

(* A goroutine that takes a step holds a slot and has a contact.           *)
LEMMA AtWork ==
  ASSUME TInv, NEW g \in Dials, DialOne(g)
  PROVE  pc[g] # "idle" /\ contact[g] \in Contacts
BY DEF DialOne, GetContact, CheckDnc, SkipBlocked, BeginCall, EndCall, Tally,
   PublishCount, PublishCache, Notify, Requeue, Release, At, TInv, Shape

(* What the pool found when it was made is never written again.            *)
LEMMA BeganKept ==
  /\ \A g \in Dials : DialOne(g) => began' = began /\ Queued' = Queued
  /\ Loop => began' = began /\ Queued' = Queued
  /\ Control \/ HandleAstray \/ Tick \/ UNCHANGED vars => began' = began /\ Queued' = Queued
  /\ [Next]_vars => began' = began /\ Queued' = Queued
<1>1. ASSUME NEW g \in Dials, DialOne(g) PROVE began' = began
  BY <1>1 DEF DialOne, GetContact, CheckDnc, SkipBlocked, BeginCall, EndCall, Tally,
     PublishCount, PublishCache, Notify, Requeue, Release
<1>2. ASSUME Loop PROVE began' = began
  BY <1>2 DEF Loop, Start, LoopReturn, LoopPass, LoopTo, Dequeue, DequeueError,
     DequeueEmpty, Launch, AbandonHeld, Finish, FinishRecord, FinishReport
<1>3. ASSUME Control \/ HandleAstray \/ Tick \/ UNCHANGED vars PROVE began' = began
  BY <1>3 DEF Control, Pause, Resume, Stop, HandleAstray, Tick, vars
<1>4. began' = began => Queued' = Queued
  BY DEF Queued
<1>. QED  BY <1>1, <1>2, <1>3, <1>4 DEF Next

LEMMA BeganTyped ==
  ASSUME TInv
  PROVE  /\ Queued \subseteq Contacts /\ began \in Found
         /\ \A c \in Contacts : began.rows[c].attempts \in Nat
<1>1. began \in Found
  BY DEF TInv, TypeOK
<1>2. began.queue \in Seq(Contacts) /\ began.rows \in [Contacts -> [status : ContactStatus, attempts : Nat]]
  BY <1>1, ConstantsTyped DEF Assumptions
<1>. QED  BY <1>1, <1>2 DEF Queued

LEMMA TypeStep == TInv /\ [Next]_vars => TInv'
<1> SUFFICES ASSUME TInv, [Next]_vars PROVE TypeOK' /\ Shape'
  BY SlotsStep DEF TInv
<1>1. CASE UNCHANGED vars
  BY <1>1 DEF vars, TInv, TypeOK, Shape
<1>. QED  BY <1>1, TypeLoop, TypeDial, TypeControl DEF Next

(* Type correctness, and the semaphore's account of the goroutines: no     *)
(* more than Concurrency goroutines are between the semaphore and their    *)
(* end, for every pool size (worker_pool.go:136-154).                      *)
THEOREM TypeCorrect == Spec => []TypeOK /\ [](Shape /\ SlotsAccounted)
BY TypeInit, TypeStep, PTL DEF Spec, TInv

-----------------------------------------------------------------------------
(* A contact in one place.                                                 *)
InSeq(s, c) == \E i \in DOMAIN s : s[i] = c

(* Taking the head of a list without repetition leaves a list without      *)
(* repetition and without that head.                                       *)
LEMMA TailOnce ==
  ASSUME NEW S, NEW s \in Seq(S), s # <<>>, IsInjectiveSeq(s)
  PROVE  /\ IsInjectiveSeq(Tail(s)) /\ Head(s) \in S /\ InSeq(s, Head(s))
         /\ \A c : InSeq(Tail(s), c) => InSeq(s, c) /\ c # Head(s)
<1>1. /\ Len(s) \in Nat \ {0} /\ DOMAIN s = 1..Len(s) /\ Head(s) = s[1] /\ s[1] \in S
      /\ DOMAIN Tail(s) = 1..(Len(s) - 1)
      /\ \A i \in 1..(Len(s) - 1) : Tail(s)[i] = s[i + 1]
  OBVIOUS
<1>2. IsInjectiveSeq(Tail(s))
  <2> SUFFICES ASSUME NEW i \in 1..(Len(s) - 1), NEW j \in 1..(Len(s) - 1),
                      Tail(s)[i] = Tail(s)[j]
               PROVE  i = j
    BY <1>1 DEF IsInjectiveSeq
  <2>1. i + 1 \in DOMAIN s /\ j + 1 \in DOMAIN s /\ s[i + 1] = s[j + 1]
    BY <1>1
  <2>. QED  BY <2>1 DEF IsInjectiveSeq
<1>3. ASSUME NEW c, InSeq(Tail(s), c) PROVE InSeq(s, c) /\ c # Head(s)
  <2>1. PICK i \in 1..(Len(s) - 1) : Tail(s)[i] = c
    BY <1>1, <1>3 DEF InSeq
  <2>2. i + 1 \in DOMAIN s /\ 1 \in DOMAIN s /\ i + 1 # 1 /\ s[i + 1] = c
    BY <1>1, <2>1
  <2>. QED  BY <1>1, <2>2 DEF IsInjectiveSeq, InSeq
<1>4. InSeq(s, Head(s))
  BY <1>1 DEF InSeq
<1>. QED  BY <1>1, <1>2, <1>3, <1>4

(* Appending what a list does not contain keeps it without repetition.     *)
LEMMA AppendOnce ==
  ASSUME NEW S, NEW s \in Seq(S), NEW x \in S, IsInjectiveSeq(s), ~InSeq(s, x)
  PROVE  /\ IsInjectiveSeq(Append(s, x))
         /\ \A c : InSeq(Append(s, x), c) => InSeq(s, c) \/ c = x
<1>1. /\ Len(s) \in Nat /\ DOMAIN s = 1..Len(s)
      /\ DOMAIN Append(s, x) = 1..(Len(s) + 1)
      /\ \A i \in 1..Len(s) : Append(s, x)[i] = s[i]
      /\ Append(s, x)[Len(s) + 1] = x
  OBVIOUS
<1>2. IsInjectiveSeq(Append(s, x))
  <2> SUFFICES ASSUME NEW i \in 1..(Len(s) + 1), NEW j \in 1..(Len(s) + 1),
                      Append(s, x)[i] = Append(s, x)[j]
               PROVE  i = j
    BY <1>1 DEF IsInjectiveSeq
  <2>1. CASE i \in 1..Len(s) /\ j \in 1..Len(s)
    BY <1>1, <2>1 DEF IsInjectiveSeq
  <2>2. CASE i = Len(s) + 1 \/ j = Len(s) + 1
    BY <1>1, <2>2 DEF InSeq
  <2>. QED  BY <1>1, <2>1, <2>2
<1>3. ASSUME NEW c, InSeq(Append(s, x), c) PROVE InSeq(s, c) \/ c = x
  BY <1>1, <1>3 DEF InSeq
<1>. QED  BY <1>2, <1>3

LEMMA OnePlaceInit == Init => OnePlace
BY ConstantsTyped DEF Init, OnePlace, Assumptions, InHand, Working, WorkPc

(* A step that brings no contact to a new place.                           *)
LEMMA OnePlaceKept ==
  ASSUME TInv, OnePlace,
         \/ queue' = queue \/ queue' = <<>> \/ (queue # <<>> /\ queue' = Tail(queue)),
         held' = held \/ held' = None,
         \A g \in Dials : Working(g)' => Working(g) /\ contact'[g] = contact[g]
  PROVE  OnePlace'
<1>1. IsInjectiveSeq(queue') /\ \A c : InSeq(queue', c) => InSeq(queue, c)
  <2>1. queue \in Seq(Contacts) /\ IsInjectiveSeq(queue)
    BY DEF OnePlace, TInv, TypeOK
  <2>2. CASE queue' = queue  BY <2>1, <2>2
  <2>3. CASE queue' = <<>>  BY <2>3 DEF IsInjectiveSeq, InSeq
  <2>4. CASE queue # <<>> /\ queue' = Tail(queue)  BY <2>1, <2>4, TailOnce
  <2>. QED  BY <2>2, <2>3, <2>4
<1>2. \A c : InHand(c)' => InHand(c)
  BY DEF InHand
<1>. QED  BY <1>1, <1>2 DEF OnePlace, InQueue, InSeq

LEMMA OnePlaceStep == TInv /\ OnePlace /\ [Next]_vars => OnePlace'
<1> SUFFICES ASSUME TInv, OnePlace, [Next]_vars PROVE OnePlace'
  OBVIOUS
<1>1. CASE Dequeue
  <2>1. /\ held = None /\ held' = Head(queue) /\ queue' = Tail(queue)
        /\ queue \in Seq(Contacts) /\ queue # <<>> /\ UNCHANGED <<pc, contact>>
    BY <1>1 DEF Dequeue, TInv, TypeOK, Shape
  <2>2. /\ IsInjectiveSeq(queue') /\ InSeq(queue, held')
        /\ \A c : InSeq(queue', c) => InSeq(queue, c) /\ c # held'
    BY <2>1, TailOnce DEF OnePlace
  <2>3. held' \in Contacts
    BY <2>1, TailOnce DEF OnePlace
  <2>. QED  BY <2>1, <2>2, <2>3 DEF OnePlace, InQueue, InSeq, InHand, Working
<1>2. ASSUME NEW g \in Dials, Launch(g) PROVE OnePlace'
  <2>1. /\ held # None /\ held' = None /\ UNCHANGED queue
        /\ pc[g] = "idle" /\ pc' = [pc EXCEPT ![g] = "get"]
        /\ contact' = [contact EXCEPT ![g] = held]
    BY <1>2 DEF Launch, Goto, TInv, Shape
  <2>2. \A h \in Dials \ {g} : Working(h)' <=> Working(h)
    BY <2>1 DEF Working, TInv, TypeOK
  <2>3. \A h \in Dials : contact'[h] = IF h = g THEN held ELSE contact[h]
    BY <2>1 DEF TInv, TypeOK
  <2>4. \A h \in Dials \ {g} : Working(h) => contact[h] # held
    BY <2>1 DEF OnePlace, InHand
  <2>5. \A c : InHand(c)' => InHand(c) \/ c = held
    BY <2>2, <2>3 DEF InHand
  <2>. QED  BY <2>1, <2>2, <2>3, <2>4, <2>5 DEF OnePlace, InQueue
<1>3. ASSUME NEW g \in Dials, Requeue(g) PROVE OnePlace'
  <2>1. /\ Working(g) /\ contact[g] \in Contacts /\ UNCHANGED <<held, contact>>
        /\ pc' = [pc EXCEPT ![g] = "release"]
        /\ queue' = queue \/ queue' = Append(queue, contact[g])
    BY <1>3 DEF Requeue, At, Goto, Working, WorkPc, TInv, Shape
  <2>2. \A h \in Dials : Working(h)' => Working(h) /\ h # g
    BY <2>1 DEF Working, WorkPc, TInv, TypeOK
  <2>3. ~InSeq(queue, contact[g]) /\ held # contact[g]
    <3>1. InHand(contact[g])
      BY <2>1 DEF InHand
    <3>2. contact[g] # None
      BY <2>1, NoneAssumption
    <3>. QED  BY <3>1, <3>2, <2>1 DEF OnePlace, InQueue, InSeq
  <2>4. /\ IsInjectiveSeq(queue')
        /\ \A c : InSeq(queue', c) => InSeq(queue, c) \/ c = contact[g]
    <3>1. queue \in Seq(Contacts) /\ IsInjectiveSeq(queue)
      BY DEF OnePlace, TInv, TypeOK
    <3>2. CASE queue' = queue  BY <3>1, <3>2
    <3>3. CASE queue' = Append(queue, contact[g])  BY <3>1, <3>3, <2>1, <2>3, AppendOnce
    <3>. QED  BY <3>2, <3>3, <2>1
  <2>5. \A c : InHand(c)' => InHand(c) /\ c # contact[g]
    <3> SUFFICES ASSUME NEW c, NEW h \in Dials, Working(h)', contact'[h] = c
                 PROVE  InHand(c) /\ c # contact[g]
      BY DEF InHand
    <3>1. Working(h) /\ h # g /\ contact[h] = c
      BY <2>1, <2>2
    <3>. QED  BY <2>1, <3>1 DEF InHand, OnePlace
  <2>. QED  BY <2>1, <2>2, <2>3, <2>4, <2>5 DEF OnePlace, InQueue, InSeq
<1>4. ASSUME NEW g \in Dials, DialOne(g), ~Requeue(g) PROVE OnePlace'
  <2>1. UNCHANGED <<queue, held>>
    BY <1>4 DEF DialOne, GetContact, CheckDnc, SkipBlocked, BeginCall, EndCall, Tally,
                PublishCount, PublishCache, Notify, Release
  <2>2. \A h \in Dials : Working(h)' => Working(h) /\ contact'[h] = contact[h]
    BY <1>4 DEF DialOne, GetContact, CheckDnc, SkipBlocked, BeginCall, EndCall, Tally,
                PublishCount, PublishCache, Notify, Release, EndOf, Goto, At, Working,
                WorkPc, TInv, TypeOK
  <2>. QED  BY <2>1, <2>2, OnePlaceKept
<1>5. CASE /\ Loop /\ ~Dequeue /\ \A g \in Dials : ~Launch(g)
  <2>1. /\ queue' = queue \/ (queue # <<>> /\ queue' = Tail(queue))
        /\ held' = held \/ held' = None
        /\ UNCHANGED <<pc, contact>>
    BY <1>5 DEF Loop, Start, LoopReturn, LoopPass, LoopTo, DequeueError,
                DequeueEmpty, AbandonHeld, Finish, FinishRecord, FinishReport
  <2>. QED  BY <2>1, OnePlaceKept DEF Working
<1>6. CASE Control \/ HandleAstray \/ Tick \/ UNCHANGED vars
  <2>1. (queue' = queue \/ queue' = <<>>) /\ UNCHANGED <<held, pc, contact>>
    BY <1>6 DEF Control, Pause, Resume, Stop, HandleAstray, Tick, vars
  <2>. QED  BY <2>1, OnePlaceKept DEF Working
<1>. QED  BY <1>1, <1>2, <1>3, <1>4, <1>5, <1>6 DEF Next

(* No two calls to one person overlap: a contact is never in two places,   *)
(* whatever fails and whoever pauses, resumes or stops the campaign        *)
(* (worker_pool.go:119-206).                                               *)
THEOREM OnePlaceHolds == Spec => []OnePlace
BY TypeInit, TypeStep, OnePlaceInit, OnePlaceStep, PTL DEF Spec

-----------------------------------------------------------------------------
(* The budget of calls.                                                    *)
(* Nobody comes to the pool who was not in the queue it found.             *)
LEMMA OnlyQueuedStep == TInv /\ OnlyQueued /\ [Next]_vars => OnlyQueued'
<1> DEFINE Here(c) == InQueue(c) \/ held = c \/ InHand(c)
<1> SUFFICES ASSUME TInv, OnlyQueued, [Next]_vars, NEW c \in Contacts, Here(c)' PROVE Here(c)
  BY BeganKept DEF OnlyQueued
<1>0. queue \in Seq(Contacts) /\ c # None
  BY NoneAssumption DEF TInv, TypeOK
<1>1. CASE Dequeue
  <2>1. /\ queue # <<>> /\ held' = Head(queue) /\ queue' = Tail(queue) /\ UNCHANGED <<pc, contact>>
    BY <1>1 DEF Dequeue
  <2>2. /\ 1 \in DOMAIN queue /\ queue[1] = held'
        /\ \A i \in DOMAIN queue' : i + 1 \in DOMAIN queue /\ queue'[i] = queue[i + 1]
    BY <1>0, <2>1
  <2>. QED  BY <2>1, <2>2 DEF InQueue, InHand, Working
<1>2. ASSUME NEW g \in Dials, Launch(g) PROVE Here(c)
  <2>1. /\ held' = None /\ UNCHANGED queue /\ pc' = [pc EXCEPT ![g] = "get"]
        /\ contact' = [contact EXCEPT ![g] = held]
    BY <1>2 DEF Launch, Goto
  <2>2. \A h \in Dials : Working(h)' /\ contact'[h] = c => (h = g /\ held = c) \/ (Working(h) /\ contact[h] = c)
    BY <2>1 DEF Working, TInv, TypeOK
  <2>. QED  BY <1>0, <2>1, <2>2 DEF InQueue, InHand
<1>3. ASSUME NEW g \in Dials, DialOne(g) PROVE Here(c)
  <2>1. held' = held
    BY <1>3 DEF DialOne, GetContact, CheckDnc, SkipBlocked, BeginCall, EndCall, Tally,
       PublishCount, PublishCache, Notify, Requeue, Release
  <2>2. /\ Working(g)' => Working(g) /\ contact'[g] = contact[g]
    BY <1>3 DEF DialOne, GetContact, CheckDnc, SkipBlocked, BeginCall, EndCall, Tally,
       PublishCount, PublishCache, Notify, Requeue, Release, EndOf, At, Goto, Working, WorkPc,
       TInv, TypeOK
  <2>3. \A h \in Dials \ {g} : pc'[h] = pc[h] /\ contact'[h] = contact[h]
    BY <1>3, OthersStill
  <2>4. InHand(c)' => InHand(c)
    BY <2>2, <2>3 DEF InHand, Working
  <2>5. InQueue(c)' => InQueue(c) \/ InHand(c)
    <3>1. CASE queue' = queue
      BY <3>1 DEF InQueue
    <3>2. CASE queue' # queue
      <4>1. queue' = Append(queue, contact[g]) /\ Working(g)
        BY <1>3, <3>2 DEF DialOne, GetContact, CheckDnc, SkipBlocked, BeginCall, EndCall, Tally,
           PublishCount, PublishCache, Notify, Requeue, Release, At, Working, WorkPc
      <4>2. \A i \in DOMAIN queue' : queue'[i] = contact[g] \/ (i \in DOMAIN queue /\ queue'[i] = queue[i])
        BY <1>0, <4>1, AtWork, <1>3
      <4>. QED  BY <4>1, <4>2 DEF InQueue, InHand
    <3>. QED  BY <3>1, <3>2
  <2>. QED  BY <2>1, <2>4, <2>5
<1>4. CASE Loop /\ ~Dequeue /\ \A g \in Dials : ~Launch(g)
  <2>1. /\ queue' = queue \/ (queue # <<>> /\ queue' = Tail(queue))
        /\ held' = held \/ held' = None
        /\ UNCHANGED <<pc, contact>>
    BY <1>4 DEF Loop, Start, LoopReturn, LoopPass, LoopTo, DequeueError,
                DequeueEmpty, AbandonHeld, Finish, FinishRecord, FinishReport
  <2>2. InQueue(c)' => InQueue(c)
    <3>1. CASE queue' = queue
      BY <3>1 DEF InQueue
    <3>2. CASE queue # <<>> /\ queue' = Tail(queue)
      <4>1. \A i \in DOMAIN queue' : i + 1 \in DOMAIN queue /\ queue'[i] = queue[i + 1]
        BY <1>0, <3>2
      <4>. QED  BY <4>1 DEF InQueue
    <3>. QED  BY <2>1, <3>1, <3>2
  <2>. QED  BY <1>0, <2>1, <2>2 DEF InHand, Working
<1>5. CASE Control \/ HandleAstray \/ Tick \/ UNCHANGED vars
  <2>1. (queue' = queue \/ queue' = <<>>) /\ UNCHANGED <<held, pc, contact>>
    BY <1>5 DEF Control, Pause, Resume, Stop, HandleAstray, Tick, vars
  <2>. QED  BY <2>1 DEF InQueue, InHand, Working
<1>. QED  BY <1>1, <1>2, <1>3, <1>4, <1>5 DEF Next

BInv == TInv /\ OnePlace /\ OnlyQueued /\ Budgeted /\ AttemptBudget

(* A request that is recorded, or whose record fails, is known of.         *)
LEMMA KnownStep ==
  ASSUME TInv, TInv', began' = began, NEW c \in Contacts, NEW a \in Nat, NEW b \in Nat,
         calls'[c] + a + faults <= calls[c] + b + faults', Known(c, a)
  PROVE  began.rows[c].attempts + calls'[c] <= b + faults'
<1> DEFINE r == began.rows[c].attempts
           n == calls[c]
           m == calls'[c]
<1>1. r \in Nat /\ n \in Nat /\ m \in Nat /\ faults \in Int /\ faults' \in Int
  <2>1. MaxFaults \in Nat /\ faults \in 0..MaxFaults /\ faults' \in 0..MaxFaults
    BY BoundsAssumption DEF TInv, TypeOK
  <2>2. calls \in [Contacts -> Nat] /\ calls' \in [Contacts -> Nat]
    BY DEF TInv, TypeOK
  <2>. QED  BY <2>1, <2>2, BeganTyped
<1>2. r + n <= a + faults /\ m + a + faults <= n + b + faults'
  BY DEF Known
<1>3. \A u, v, w, x, y \in Nat, f, g \in Int :
        u + v <= x + f /\ w + x + f <= v + y + g => u + w <= y + g
  OBVIOUS
<1>. HIDE DEF r, n, m
<1>4. r + m <= b + faults'
  BY ONLY <1>1, <1>2, <1>3, a \in Nat, b \in Nat
<1>. QED  BY <1>4 DEF r, m

(* The budget as it was, when no more requests are made.                   *)
LEMMA BudgetLasts ==
  ASSUME BInv, TInv', faults' >= faults, UNCHANGED <<calls, began>> PROVE AttemptBudget'
<1>1. /\ \A c \in Contacts : calls[c] \in Nat
      /\ faults \in Int /\ faults' \in Int /\ RetryMax \in Nat
  BY ConstantsTyped DEF BInv, TInv, TypeOK, Assumptions
<1>2. /\ Queued' = Queued /\ Queued \subseteq Contacts
      /\ \A c \in Contacts : began.rows[c].attempts \in Nat
  BY BeganTyped DEF BInv, Queued
<1>. QED  BY <1>1, <1>2 DEF BInv, AttemptBudget

LEMMA OnlyQueuedInit == Init => OnlyQueued
BY NoneAssumption DEF Init, OnlyQueued, InQueue, InHand, Working, WorkPc, Queued

LEMMA BudgetInit == Init => Budgeted /\ AttemptBudget
<1> SUFFICES ASSUME Init PROVE Budgeted /\ AttemptBudget
  OBVIOUS
<1>1. TInv /\ began \in Found /\ queue = began.queue /\ row = began.rows /\ held = None /\ faults = 0
  BY TypeInit DEF Init
<1>2. \A c \in Queued : c \in Contacts /\ began.rows[c].attempts \in 0..RetryMax /\ calls[c] = 0
  BY <1>1, ConstantsTyped, BeganTyped DEF Init, Queued, Assumptions
<1>3. \A c \in Contacts : InQueue(c) \/ held = c => c \in Queued
  BY <1>1, NoneAssumption DEF InQueue, Queued
<1>4. RetryMax \in Nat
  BY ConstantsTyped DEF Assumptions
<1>5. \A c \in Queued : Fresh(c) /\ began.rows[c].attempts + calls[c] <= RetryMax + 1 + faults
  BY <1>1, <1>2, <1>4 DEF Fresh, Known
<1>6. \A g \in Dials : DialBudget(g)
  BY DEF Init, DialBudget, At
<1>. QED  BY <1>3, <1>5, <1>6 DEF Budgeted, AttemptBudget

(* What is known of a contact stays known when its row and its calls do.   *)
LEMMA FreshKept ==
  ASSUME TInv, TInv', faults' >= faults, began' = began, NEW c \in Contacts,
         row'[c] = row[c], calls'[c] = calls[c]
  PROVE  /\ Fresh(c) => Fresh(c)'
         /\ Known(c, row[c].attempts) => Known(c, row[c].attempts)'
<1>1. /\ calls[c] \in Nat /\ row[c].attempts \in Nat
      /\ faults \in Int /\ faults' \in Int
  BY ConstantsTyped DEF TInv, TypeOK, Assumptions
<1>2. began.rows[c].attempts \in Nat /\ Queued' = Queued
  BY BeganTyped DEF Queued
<1>. QED  BY <1>1, <1>2 DEF Fresh, Known

(* A step that touches no row, no call and no contact.                     *)
LEMMA BudgetKept ==
  ASSUME BInv, TInv', faults' >= faults, UNCHANGED <<row, calls, began>>,
         cancelled => cancelled',
         \A c \in Contacts : (InQueue(c) \/ held = c)' => InQueue(c) \/ held = c,
         \A g \in Dials : \/ pc'[g] \in {"idle", "release"}
                          \/ pc'[g] = pc[g] /\ contact'[g] = contact[g] /\ tries'[g] = tries[g]
  PROVE  Budgeted' /\ AttemptBudget'
<1>1. \A c \in Contacts : /\ Fresh(c) => Fresh(c)'
                          /\ Known(c, row[c].attempts) => Known(c, row[c].attempts)'
  BY FreshKept DEF BInv
<1>2. \A c \in Contacts : (InQueue(c) \/ held = c)' => Fresh(c)'
  BY <1>1 DEF BInv, Budgeted
<1>3. ASSUME NEW g \in Dials PROVE DialBudget(g)'
  <2>1. CASE pc'[g] \in {"idle", "release"}  BY <2>1 DEF DialBudget, At
  <2>2. CASE /\ pc'[g] = pc[g] /\ contact'[g] = contact[g] /\ tries'[g] = tries[g]
             /\ pc[g] # "idle"
    <3>1. contact[g] \in Contacts /\ DialBudget(g)
      BY <2>2 DEF BInv, TInv, Shape, Budgeted
    <3>. QED  BY <1>1, <2>2, <3>1 DEF DialBudget, At
  <2>. QED  BY <2>1, <2>2
<1>4. AttemptBudget'
  BY BudgetLasts
<1>. QED  BY <1>2, <1>3, <1>4 DEF Budgeted

(* A step of one goroutine disturbs no contact but its own.                *)
LEMMA OthersKept ==
  ASSUME BInv, TInv', faults' >= faults, cancelled' = cancelled, held' = held, began' = began,
         NEW g \in Dials, Working(g),
         \A c \in Contacts : InQueue(c)' => InQueue(c) \/ (c = contact[g] /\ Fresh(c)'),
         \A c \in Contacts \ {contact[g]} : row'[c] = row[c] /\ calls'[c] = calls[c],
         \A h \in Dials \ {g} :
           pc'[h] = pc[h] /\ contact'[h] = contact[h] /\ tries'[h] = tries[h],
         DialBudget(g)'
  PROVE  Budgeted'
<1>1. \A c \in Contacts \ {contact[g]} :
         /\ Fresh(c) => Fresh(c)'
         /\ Known(c, row[c].attempts) => Known(c, row[c].attempts)'
  BY FreshKept DEF BInv
<1>2. contact[g] \in Contacts /\ InHand(contact[g])
  BY DEF BInv, TInv, Shape, InHand, Working, WorkPc
<1>3. ~InQueue(contact[g]) /\ held # contact[g]
  BY <1>2, NoneAssumption DEF BInv, OnePlace
<1>4. \A c \in Contacts : (InQueue(c) \/ held = c)' => Fresh(c)'
  BY <1>1, <1>3 DEF BInv, Budgeted
<1>5. ASSUME NEW h \in Dials \ {g} PROVE DialBudget(h)'
  <2>1. CASE ~Working(h)
    BY <2>1 DEF DialBudget, At, Working, WorkPc
  <2>2. CASE Working(h)
    <3>1. contact[h] # contact[g]
      BY <2>2 DEF BInv, OnePlace
    <3>2. contact[h] \in Contacts /\ DialBudget(h)
      BY <2>2 DEF BInv, TInv, Shape, Budgeted, Working, WorkPc
    <3>3. row'[contact[h]] = row[contact[h]]
      BY <3>1, <3>2
    <3>. QED  BY <1>1, <3>1, <3>2, <3>3 DEF DialBudget, At
  <2>. QED  BY <2>1, <2>2
<1>. QED  BY <1>4, <1>5 DEF Budgeted

(* Failures are only ever added, and a cancelled pool stays so.            *)
LEMMA FaultsGrow ==
  ASSUME TInv
  PROVE  /\ faults \in Nat
         /\ \A ok \in BOOLEAN : Attempt(ok) => faults' >= faults
         /\ \A ok \in BOOLEAN : AttemptDetached(ok) => faults' >= faults
<1>1. faults \in Nat
  BY ConstantsTyped DEF TInv, TypeOK, Assumptions
<1>. QED  BY <1>1 DEF Attempt, AttemptDetached

LEMMA NothingForgotten ==
  TInv /\ [Next]_vars => faults' >= faults /\ (cancelled => cancelled')
<1> SUFFICES ASSUME TInv, [Next]_vars PROVE faults' >= faults /\ (cancelled => cancelled')
  OBVIOUS
<1>0. faults \in Nat /\ Shape
  BY FaultsGrow DEF TInv
<1>1. CASE Loop
  <2>1. cancelled => cancelled'
    BY <1>0, <1>1 DEF Loop, Start, LoopReturn, LoopPass, LoopTo, Dequeue, DequeueError,
       DequeueEmpty, Launch, AbandonHeld, Finish, FinishRecord, FinishReport, Shape
  <2>2. faults' = faults \/ \E ok \in BOOLEAN : Attempt(ok)
    BY <1>1 DEF Loop, Start, LoopReturn, LoopPass, LoopTo, Dequeue, DequeueError,
       DequeueEmpty, Launch, AbandonHeld, Finish, FinishRecord, FinishReport
  <2>. QED  BY <1>0, <2>1, <2>2, FaultsGrow
<1>2. ASSUME NEW g \in Dials, DialOne(g) PROVE faults' >= faults /\ cancelled' = cancelled
  <2>1. cancelled' = cancelled
    BY <1>2 DEF DialOne, GetContact, CheckDnc, SkipBlocked, BeginCall, EndCall, Tally,
       PublishCount, PublishCache, Notify, Requeue, Release
  <2>2. \/ faults' = faults
        \/ \E ok \in BOOLEAN : Attempt(ok)
        \/ \E ok \in BOOLEAN : AttemptDetached(ok)
    BY <1>2 DEF DialOne, GetContact, CheckDnc, SkipBlocked, BeginCall, EndCall, Tally,
       PublishCount, PublishCache, Notify, Requeue, Release
  <2>. QED  BY <1>0, <2>1, <2>2, FaultsGrow
<1>3. CASE Control \/ HandleAstray \/ Tick \/ UNCHANGED vars
  <2>1. CASE Pause \/ Resume \/ HandleAstray \/ Tick \/ UNCHANGED vars
    BY <1>0, <2>1, FaultsGrow DEF Pause, Resume, SaveStatus, HandleAstray, Tick, vars
  <2>2. CASE Stop
    <3>1. cancelled => cancelled'
      BY <1>0, <2>2 DEF Stop, Shape
    <3>2. PICK a \in BOOLEAN, b \in BOOLEAN :
            faults' = faults + (IF a THEN 0 ELSE 1) + (IF b THEN 0 ELSE 1)
      BY <2>2 DEF Stop
    <3>. QED  BY <1>0, <3>1, <3>2
  <2>. QED  BY <1>3, <2>1, <2>2 DEF Control
<1>. QED  BY <1>1, <1>2, <1>3 DEF Next

(* A step of dialOne keeps the budget of every contact.                    *)
LEMMA BudgetDial ==
  ASSUME BInv, TInv', faults' >= faults, cancelled' = cancelled,
         NEW g \in Dials, DialOne(g)
  PROVE  Budgeted' /\ AttemptBudget'
<1> DEFINE c == contact[g]
<1>1. /\ contact \in [Dials -> Contacts \cup {None}] /\ tries \in [Dials -> Nat]
      /\ pc \in [Dials -> WorkPc \cup {"idle", "release"}]
      /\ row \in [Contacts -> [status : ContactStatus, attempts : Nat]]
      /\ calls \in [Contacts -> Nat] /\ queue \in Seq(Contacts)
      /\ faults \in Int /\ faults' \in Int /\ RetryMax \in Nat
      /\ began' = began /\ Queued' = Queued /\ Queued \subseteq Contacts
      /\ \A d \in Contacts : began.rows[d].attempts \in Nat
  <2>1. MaxFaults \in Nat /\ RetryMax \in Nat
    BY ConstantsTyped DEF Assumptions
  <2>2. TypeOK /\ faults' \in 0..MaxFaults
    BY DEF BInv, TInv, TypeOK
  <2>. QED  BY <2>1, <2>2, BeganKept, BeganTyped DEF TypeOK, BInv
<1>2. held' = held
  BY DEF DialOne, GetContact, CheckDnc, SkipBlocked, BeginCall, EndCall, Tally,
         PublishCount, PublishCache, Notify, Requeue, Release
<1>3. CASE Release(g)
  <2>1. /\ pc' = [pc EXCEPT ![g] = "idle"] /\ contact' = [contact EXCEPT ![g] = None]
        /\ tries' = [tries EXCEPT ![g] = 0] /\ UNCHANGED <<queue, row, calls>>
    BY <1>3 DEF Release, EndOf, Goto
  <2>2. \A h \in Dials : \/ pc'[h] = "idle"
                         \/ pc'[h] = pc[h] /\ contact'[h] = contact[h] /\ tries'[h] = tries[h]
    BY <1>1, <2>1
  <2>. QED  BY <1>1, <1>2, <2>1, <2>2, BudgetKept DEF InQueue
<1>4. CASE ~Release(g)
  <2>1. Working(g) /\ c \in Contacts
    BY <1>4 DEF DialOne, GetContact, CheckDnc, SkipBlocked, BeginCall, EndCall, Tally,
         PublishCount, PublishCache, Notify, Requeue, At, Working, WorkPc, BInv, TInv, Shape
  <2>2. \A h \in Dials \ {g} :
          pc'[h] = pc[h] /\ contact'[h] = contact[h] /\ tries'[h] = tries[h]
    BY <1>1, <1>4 DEF DialOne, GetContact, CheckDnc, SkipBlocked, BeginCall, EndCall, Tally,
         PublishCount, PublishCache, Notify, Requeue, Goto
  <2>3. /\ DialBudget(g) /\ contact' = contact
        /\ row[c].attempts \in Nat /\ calls[c] \in Nat /\ tries[g] \in Nat
    BY <1>1, <1>4, <2>1 DEF DialOne, GetContact, CheckDnc, SkipBlocked, BeginCall, EndCall,
         Tally, PublishCount, PublishCache, Notify, Requeue, BInv, Budgeted
  <2>4. CASE GetContact(g)
    <3>1. /\ UNCHANGED <<queue, row, calls>> /\ At(g, "get")
          /\ \/ pc'[g] = "dnc" /\ tries'[g] = row[c].attempts
             \/ pc'[g] = "release"
      BY <1>1, <2>4 DEF GetContact, Goto
    <3>2. Fresh(c)'
      BY <1>1, <2>1, <2>3, <3>1, FreshKept DEF BInv, DialBudget
    <3>3. DialBudget(g)'
      BY <2>3, <3>1, <3>2 DEF DialBudget, At
    <3>4. Budgeted'
      BY <1>1, <1>2, <2>1, <2>2, <3>1, <3>3, OthersKept DEF InQueue
    <3>. QED  BY <1>1, <3>1, <3>4, BudgetLasts
  <2>5. CASE CheckDnc(g)
    <3>1. /\ UNCHANGED <<queue, row, calls, tries>> /\ At(g, "dnc")
          /\ pc'[g] \in {"skip", "begin"}
      BY <1>1, <2>5 DEF CheckDnc, Goto
    <3>2. Fresh(c)'
      BY <1>1, <2>1, <2>3, <3>1, FreshKept DEF BInv, DialBudget, At
    <3>3. DialBudget(g)'
      BY <2>3, <3>1, <3>2 DEF DialBudget, At
    <3>4. Budgeted'
      BY <1>1, <1>2, <2>1, <2>2, <3>1, <3>3, OthersKept DEF InQueue
    <3>. QED  BY <1>1, <3>1, <3>4, BudgetLasts
  <2>6. CASE SkipBlocked(g)
    <3>1. /\ UNCHANGED <<queue, calls, tries>> /\ At(g, "skip") /\ pc'[g] = "tally"
          /\ row[c].attempts = tries[g] /\ Fresh(c)
      BY <1>1, <2>3, <2>6 DEF SkipBlocked, Goto, DialBudget, At
    <3>2. /\ row'[c].attempts = tries[g]
          /\ \A d \in Contacts \ {c} : row'[d] = row[d]
      BY <1>1, <2>1, <2>6, <3>1 DEF SkipBlocked, SavedRow
    <3>5. Known(c, row[c].attempts)'
      <4>1. row'[c].attempts = row[c].attempts
        BY <3>1, <3>2
      <4>2. Known(c, row[c].attempts)
        BY <3>1 DEF Fresh
      <4>3. /\ calls' = calls /\ began' = began /\ faults' >= faults
            /\ faults \in Int /\ faults' \in Int
            /\ calls[c] \in Nat /\ began.rows[c].attempts \in Nat
        BY <1>1, <2>1, <2>3, <3>1, BeganTyped, BoundsAssumption DEF BInv, TInv, TypeOK
      <4>. QED  BY <2>3, <4>1, <4>2, <4>3 DEF Known
    <3>3. DialBudget(g)'
      BY <2>3, <3>1, <3>2, <3>5 DEF DialBudget, At
    <3>4. Budgeted'
      BY <1>1, <1>2, <2>1, <2>2, <3>1, <3>2, <3>3, OthersKept DEF InQueue
    <3>. QED  BY <1>1, <3>1, <3>4, BudgetLasts
  <2>7. CASE BeginCall(g)
    <3>1. /\ UNCHANGED <<queue, tries>> /\ At(g, "begin") /\ pc'[g] = "calling"
          /\ row[c].attempts = tries[g] /\ Fresh(c)
      BY <1>1, <2>3, <2>7 DEF BeginCall, Goto, DialBudget, At
    <3>2. /\ \A d \in Contacts \ {c} : row'[d] = row[d] /\ calls'[d] = calls[d]
          /\ calls'[c] \in {calls[c], calls[c] + 1}
      BY <1>1, <2>1, <2>7 DEF BeginCall, SavedRow
    <3>3. \/ row'[c].attempts = tries[g] + 1
          \/ row'[c] = row[c] /\ (cancelled \/ faults' = faults + 1)
      BY <1>1, <2>1, <2>7 DEF BeginCall, SavedRow, Attempt
    <3>4. /\ row'[c].attempts \in Nat /\ row'[c].attempts <= tries[g] + 1 /\ tries[g] <= RetryMax
          /\ cancelled \/ began.rows[c].attempts + calls'[c] <= row'[c].attempts + faults'
          /\ began.rows[c].attempts + calls'[c] <= tries[g] + 1 + faults'
      <4>1. Known(c, row[c].attempts) /\ tries[g] <= RetryMax /\ row[c].attempts = tries[g]
        BY <3>1 DEF Fresh
      <4>2. row'[c].attempts \in Nat /\ row'[c].attempts <= tries[g] + 1
        BY <2>3, <3>3, <4>1
      <4>3. calls'[c] <= calls[c] + 1 /\ calls'[c] \in Nat
        BY <2>3, <3>2
      <4>4. calls'[c] + row[c].attempts + faults <= calls[c] + (tries[g] + 1) + faults'
        BY <1>1, <2>3, <4>1, <4>3
      <4>5. began.rows[c].attempts + calls'[c] <= (tries[g] + 1) + faults'
        BY <1>1, <2>1, <2>3, <4>1, <4>4, KnownStep DEF BInv
      <4>6. cancelled \/ calls'[c] + row[c].attempts + faults <= calls[c] + row'[c].attempts + faults'
        <5>1. CASE row'[c].attempts = tries[g] + 1
          BY <4>4, <5>1
        <5>2. CASE row'[c] = row[c] /\ faults' = faults + 1
          BY <1>1, <2>3, <4>3, <5>2
        <5>. QED  BY <3>3, <5>1, <5>2
      <4>7. cancelled \/ began.rows[c].attempts + calls'[c] <= row'[c].attempts + faults'
        BY <1>1, <2>1, <2>3, <4>1, <4>2, <4>6, KnownStep DEF BInv
      <4>. QED  BY <4>1, <4>2, <4>5, <4>7
    <3>5. DialBudget(g)'
      BY <1>1, <2>3, <3>1, <3>4 DEF DialBudget, At, Known
    <3>6. Budgeted'
      BY <1>1, <1>2, <2>1, <2>2, <3>1, <3>2, <3>5, OthersKept DEF InQueue
    <3>7. began.rows[c].attempts + calls'[c] <= RetryMax + 1 + faults'
      BY <1>1, <2>1, <2>3, <3>2, <3>4
    <3>8. \A d \in Queued \ {c} : began.rows[d].attempts + calls'[d] <= RetryMax + 1 + faults'
      BY <1>1, <3>2 DEF BInv, AttemptBudget
    <3>. QED  BY <1>1, <3>6, <3>7, <3>8 DEF AttemptBudget
  <2>8. CASE EndCall(g)
    <3>1. /\ UNCHANGED <<queue, calls>> /\ At(g, "calling") /\ pc'[g] = "tally"
          /\ tries'[g] = tries[g] + 1
          /\ row[c].attempts <= tries[g] + 1
          /\ cancelled \/ Known(c, row[c].attempts)
      BY <1>1, <2>3, <2>8 DEF EndCall, Goto, DialBudget, At
    <3>2. /\ \A d \in Contacts \ {c} : row'[d] = row[d]
          /\ row'[c].attempts = tries[g] + 1 \/ row'[c] = row[c]
      BY <1>1, <2>1, <2>8 DEF EndCall, SavedRow
    <3>5. row'[c].attempts \in Nat /\ row'[c].attempts >= row[c].attempts
          /\ row'[c].attempts <= tries[g] + 1
      BY <2>3, <3>1, <3>2
    <3>6. calls'[c] + row[c].attempts + faults <= calls[c] + row'[c].attempts + faults'
      BY <1>1, <2>3, <3>1, <3>5
    <3>7. cancelled \/ began.rows[c].attempts + calls'[c] <= row'[c].attempts + faults'
      BY <1>1, <2>1, <2>3, <3>1, <3>5, <3>6, KnownStep DEF BInv
    <3>3. DialBudget(g)'
      BY <1>1, <2>3, <3>1, <3>5, <3>7 DEF DialBudget, At, Known
    <3>4. Budgeted'
      BY <1>1, <1>2, <2>1, <2>2, <3>1, <3>2, <3>3, OthersKept DEF InQueue
    <3>. QED  BY <1>1, <3>1, <3>4, BudgetLasts
  <2>9. CASE Tally(g) \/ PublishCount(g) \/ PublishCache(g) \/ Notify(g)
    <3>1. /\ UNCHANGED <<queue, row, calls, tries>>
          /\ pc[g] \in {"tally", "publish", "cache", "notify"}
          /\ pc'[g] \in {"publish", "cache", "notify", "retry"}
      BY <1>1, <2>9 DEF Tally, PublishCount, PublishCache, Notify, Goto, At
    <3>2. Known(c, row[c].attempts) => Known(c, row[c].attempts)'
      BY <1>1, <2>1, <2>3, <3>1, FreshKept DEF BInv
    <3>3. DialBudget(g)'
      BY <2>3, <3>1, <3>2 DEF DialBudget, At
    <3>4. Budgeted'
      BY <1>1, <1>2, <2>1, <2>2, <3>1, <3>3, OthersKept DEF InQueue
    <3>. QED  BY <1>1, <3>1, <3>4, BudgetLasts
  <2>10. CASE Requeue(g)
    <3>1. /\ UNCHANGED <<row, calls, tries>> /\ At(g, "retry") /\ pc'[g] = "release"
          /\ \/ queue' = queue
             \/ queue' = Append(queue, c) /\ ~cancelled /\ tries[g] < RetryMax + 1
      BY <1>1, <2>10 DEF Requeue, Goto, Attempt, ShouldRetry
    <3>2. DialBudget(g)'
      BY <3>1 DEF DialBudget, At
    <3>3. ~cancelled /\ tries[g] < RetryMax + 1 => Fresh(c)'
      <4>1. Known(c, row[c].attempts) \/ cancelled
        BY <2>3, <3>1 DEF DialBudget, At
      <4>2. row[c].attempts <= tries[g]
        BY <2>3, <3>1 DEF DialBudget, At
      <4>3. ~cancelled /\ tries[g] < RetryMax + 1 => Fresh(c)
        BY <1>1, <2>3, <4>1, <4>2 DEF Fresh
      <4>4. row'[c] = row[c] /\ calls'[c] = calls[c]
        BY <3>1
      <4>5. Fresh(c) => Fresh(c)'
        BY <1>1, <2>1, <2>3, <4>4, FreshKept DEF BInv
      <4>. QED  BY <4>3, <4>5
    <3>4. \A d \in Contacts : InQueue(d)' => InQueue(d) \/ (d = c /\ Fresh(d)')
      <4>1. CASE queue' = queue  BY <4>1 DEF InQueue
      <4>2. CASE queue' = Append(queue, c) /\ Fresh(c)'
        <5>1. IsInjectiveSeq(queue) /\ ~InSeq(queue, c)
          BY <2>1 DEF BInv, OnePlace, InQueue, InSeq, InHand
        <5>. QED  BY <1>1, <2>1, <2>3, <4>2, <5>1, AppendOnce DEF InQueue, InSeq
      <4>. QED  BY <2>3, <3>1, <3>3, <4>1, <4>2
    <3>5. Budgeted'
      BY <1>1, <1>2, <2>1, <2>2, <3>1, <3>2, <3>4, OthersKept
    <3>. QED  BY <1>1, <3>1, <3>5, BudgetLasts
  <2>. QED
    BY <1>4, <2>4, <2>5, <2>6, <2>7, <2>8, <2>9, <2>10 DEF DialOne
<1>. QED  BY <1>3, <1>4

(* Taking a contact from the queue, and launching its goroutine, moves it  *)
(* from a place where it is fresh to another.                              *)
LEMMA BudgetLoop ==
  ASSUME BInv, TInv', faults' >= faults, cancelled => cancelled', Loop
  PROVE  Budgeted' /\ AttemptBudget'
<1>0. began' = began /\ Queued' = Queued
  BY BeganKept
<1>1. CASE Dequeue
  <2>1. /\ queue # <<>> /\ queue \in Seq(Contacts) /\ IsInjectiveSeq(queue)
        /\ queue' = Tail(queue) /\ held' = Head(queue)
        /\ UNCHANGED <<row, calls, pc, contact, tries>>
    BY <1>1 DEF Dequeue, BInv, TInv, TypeOK, OnePlace
  <2>2. \A c \in Contacts : (InQueue(c) \/ held = c)' => InQueue(c)
    BY <2>1, TailOnce DEF InQueue, InSeq
  <2>. QED  BY <1>0, <2>1, <2>2, BudgetKept
<1>2. ASSUME NEW g \in Dials, Launch(g) PROVE Budgeted' /\ AttemptBudget'
  <2>1. /\ held \in Contacts /\ held' = None /\ UNCHANGED <<queue, row, calls, tries, faults>>
        /\ pc[g] = "idle" /\ pc'[g] = "get" /\ contact'[g] = held
        /\ \A h \in Dials \ {g} : pc'[h] = pc[h] /\ contact'[h] = contact[h]
    BY <1>2 DEF Launch, Goto, BInv, TInv, Shape, TypeOK
  <2>2. Fresh(held)
    BY <2>1 DEF BInv, Budgeted
  <2>3. \A c \in Contacts : (InQueue(c) \/ held = c)' => Fresh(c)'
    BY <1>0, <2>1, NoneAssumption DEF BInv, Budgeted, InQueue, Fresh, Known
  <2>4. DialBudget(g)'
    BY <1>0, <2>1, <2>2 DEF DialBudget, At, Fresh, Known
  <2>5. ASSUME NEW h \in Dials \ {g} PROVE DialBudget(h)'
    <3>1. DialBudget(h)
      BY DEF BInv, Budgeted
    <3>2. cancelled' = cancelled
      BY <1>2 DEF Launch
    <3>. QED  BY <1>0, <2>1, <3>1, <3>2 DEF DialBudget, At, Fresh, Known
  <2>. QED  BY <1>0, <2>1, <2>3, <2>4, <2>5 DEF Budgeted, BInv, AttemptBudget
<1>3. CASE ~Dequeue /\ \A g \in Dials : ~Launch(g)
  <2>1. /\ queue' = queue \/ (queue # <<>> /\ queue' = Tail(queue))
        /\ held' = held \/ held' = None
        /\ UNCHANGED <<row, calls, pc, contact, tries>>
    BY <1>3 DEF Loop, Start, LoopReturn, LoopPass, LoopTo, DequeueError,
                DequeueEmpty, AbandonHeld, Finish, FinishRecord, FinishReport
  <2>2. queue \in Seq(Contacts) /\ IsInjectiveSeq(queue)
    BY DEF BInv, TInv, TypeOK, OnePlace
  <2>3. \A c \in Contacts : (InQueue(c) \/ held = c)' => InQueue(c) \/ held = c
    BY <2>1, <2>2, TailOnce, NoneAssumption DEF InQueue, InSeq
  <2>. QED  BY <1>0, <2>1, <2>3, BudgetKept
<1>. QED  BY <1>1, <1>2, <1>3

LEMMA BudgetControl ==
  ASSUME BInv, TInv', faults' >= faults, cancelled => cancelled',
         Control \/ HandleAstray \/ Tick \/ UNCHANGED vars
  PROVE  Budgeted' /\ AttemptBudget'
<1>1. /\ queue' = queue \/ queue' = <<>>
      /\ UNCHANGED <<held, row, calls, pc, contact, tries>>
  BY DEF Control, Pause, Resume, Stop, HandleAstray, Tick, vars
<1>2. \A c \in Contacts : (InQueue(c) \/ held = c)' => InQueue(c) \/ held = c
  BY <1>1 DEF InQueue
<1>. QED  BY <1>1, <1>2, BudgetKept, BeganKept

LEMMA BudgetStep == BInv /\ [Next]_vars => BInv'
<1> SUFFICES ASSUME BInv, [Next]_vars PROVE BInv'
  OBVIOUS
<1>1. TInv' /\ OnePlace' /\ OnlyQueued' /\ faults' >= faults /\ (cancelled => cancelled')
  BY TypeStep, OnePlaceStep, OnlyQueuedStep, NothingForgotten DEF BInv
<1>2. ASSUME NEW g \in Dials, DialOne(g) PROVE cancelled' = cancelled
  BY <1>2 DEF DialOne, GetContact, CheckDnc, SkipBlocked, BeginCall, EndCall, Tally,
       PublishCount, PublishCache, Notify, Requeue, Release
<1>3. Budgeted' /\ AttemptBudget'
  BY <1>1, <1>2, BudgetLoop, BudgetDial, BudgetControl DEF Next
<1>. QED  BY <1>1, <1>3 DEF BInv

(* Nobody is called more often than the retry budget allows, a lost write  *)
(* of the attempts being worth one call more (retry.go:7-18 with           *)
(* worker_pool.go:171-205).                                                *)
THEOREM BudgetHolds == Spec => []AttemptBudget
<1>1. Init => BInv
  BY TypeInit, OnePlaceInit, OnlyQueuedInit, BudgetInit DEF BInv
<1>. QED  BY <1>1, BudgetStep, PTL DEF Spec, BInv

-----------------------------------------------------------------------------
(* Late dials.                                                             *)
LEMMA LateStep == TInv /\ LateBound /\ [Next]_vars => LateBound'
<1> SUFFICES ASSUME TInv, LateBound, [Next]_vars PROVE LateBound'
  OBVIOUS
<1> USE DEF LateBound, IsOpen
<1>1. CASE Start  BY <1>1 DEF Start
<1>2. CASE LoopPass  BY <1>2 DEF LoopPass, LoopTo
<1>3. CASE \E g \in Dials : Launch(g)  BY <1>3 DEF Launch
<1>4. CASE LoopReturn \/ DequeueEmpty  BY <1>4 DEF LoopReturn, DequeueEmpty, LoopTo
<1>5. CASE Dequeue \/ DequeueError \/ AbandonHeld
  BY <1>5 DEF Dequeue, DequeueError, AbandonHeld
<1>6. CASE Finish \/ FinishRecord \/ FinishReport
  BY <1>6 DEF Finish, FinishRecord, FinishReport
<1>7. ASSUME NEW g \in Dials, DialOne(g) PROVE UNCHANGED <<state, loop, now, late>>
  BY <1>7 DEF DialOne, GetContact, CheckDnc, SkipBlocked, BeginCall, EndCall, Tally,
       PublishCount, PublishCache, Notify, Requeue, Release
<1>8. CASE Pause  BY <1>8 DEF Pause
<1>9. CASE Resume  BY <1>9 DEF Resume
<1>10. CASE Stop  BY <1>10 DEF Stop
<1>11. CASE Tick  BY <1>11 DEF Tick
<1>12. CASE HandleAstray \/ UNCHANGED vars  BY <1>12 DEF HandleAstray, vars
<1>. QED
  BY <1>1, <1>2, <1>3, <1>4, <1>5, <1>6, <1>7, <1>8, <1>9, <1>10, <1>11, <1>12
     DEF Next, Loop, Control

(* However long the loop waits for Redis or for a slot, it dials at most   *)
(* one more contact after a pause, a stop or the end of the calling hours  *)
(* (worker_pool.go:92-150).                                                *)
THEOREM LateHolds == Spec => []AtMostOneLate
<1>1. Init => LateBound
  BY DEF Init, LateBound
<1>. QED  BY TypeInit, TypeStep, <1>1, LateStep, PTL DEF Spec, LateBound, AtMostOneLate

-----------------------------------------------------------------------------
(* A number on the do-not-call list. A goroutine about to call one has     *)
(* found its context cancelled, or a lookup that failed.                   *)
BlockedAway ==
  faults = 0 /\ CtxAware =>
    /\ \A c \in Blocked : calls[c] = 0
    /\ \A g \in Dials : At(g, "begin") /\ contact[g] \in Blocked => cancelled

LEMMA BlockedStep == TInv /\ BlockedAway /\ [Next]_vars => BlockedAway'
<1> SUFFICES ASSUME TInv, BlockedAway, [Next]_vars, faults' = 0, CtxAware
             PROVE  /\ \A c \in Blocked : calls'[c] = 0
                    /\ \A g \in Dials : At(g, "begin")' /\ contact'[g] \in Blocked => cancelled'
  BY DEF BlockedAway
<1>1. /\ faults = 0 /\ (cancelled => cancelled')
      /\ \A c \in Blocked : calls[c] = 0 /\ c \in Contacts
      /\ \A g \in Dials : At(g, "begin") /\ contact[g] \in Blocked => cancelled
  BY NothingForgotten, ConstantsTyped, FlagsAssumption DEF BlockedAway, TInv, TypeOK, Assumptions
<1>2. ASSUME NEW g \in Dials, BeginCall(g) PROVE \A c \in Blocked : calls'[c] = 0
  <2>1. calls' = calls \/ (calls' = [calls EXCEPT ![contact[g]] = @ + 1] /\ ~cancelled)
    BY <1>2 DEF BeginCall
  <2>2. ~cancelled => contact[g] \notin Blocked
    BY <1>1, <1>2 DEF BeginCall
  <2>3. CASE calls' = calls
    BY <1>1, <2>3
  <2>4. CASE calls' = [calls EXCEPT ![contact[g]] = @ + 1] /\ ~cancelled
    BY <1>1, <2>2, <2>4 DEF TInv, TypeOK
  <2>. QED  BY <2>1, <2>3, <2>4
<1>3. ASSUME NEW g \in Dials, CheckDnc(g), contact[g] \in Blocked, At(g, "begin")'
      PROVE  cancelled'
  <2>1. cancelled \/ faults < 0 \/ faults' = faults + 1
    <3>1. PICK ok \in BOOLEAN : /\ Attempt(ok)
                                /\ Goto(g, IF ok /\ contact[g] \in Blocked THEN "skip" ELSE "begin")
      BY <1>3 DEF CheckDnc
    <3>2. ~ok
      BY <1>3, <3>1 DEF Goto, At, TInv, TypeOK
    <3>. QED  BY <3>1, <3>2 DEF Attempt
  <2>. QED  BY <1>1, <2>1
<1>4. ASSUME NEW g \in Dials, DialOne(g), NEW h \in Dials, At(h, "begin")',
             contact'[h] \in Blocked
      PROVE  cancelled'
  <2>1. CASE h = g /\ CheckDnc(g)
    <3>1. contact[g] \in Blocked
      BY <1>4, <2>1 DEF CheckDnc
    <3>. QED  BY <1>3, <1>4, <2>1, <3>1
  <2>2. CASE h # g \/ ~CheckDnc(g)
    <3>1. At(h, "begin") /\ contact'[h] = contact[h]
      BY <1>4, <2>2 DEF DialOne, GetContact, CheckDnc, SkipBlocked, BeginCall, EndCall,
         Tally, PublishCount, PublishCache, Notify, Requeue, Release, EndOf, Goto, At,
         TInv, TypeOK
    <3>. QED  BY <1>1, <1>4, <3>1
  <2>. QED  BY <2>1, <2>2
<1>5. ASSUME NEW g \in Dials, DialOne(g), ~BeginCall(g) PROVE calls' = calls
  BY <1>5 DEF DialOne, GetContact, CheckDnc, SkipBlocked, EndCall, Tally, PublishCount,
     PublishCache, Notify, Requeue, Release
<1>6. ASSUME NEW g \in Dials, Launch(g)
      PROVE  /\ calls' = calls
             /\ \A h \in Dials : At(h, "begin")' => At(h, "begin") /\ contact'[h] = contact[h]
  BY <1>6 DEF Launch, Goto, At, TInv, TypeOK
<1>7. CASE Loop /\ \A g \in Dials : ~Launch(g)
  <2>1. UNCHANGED <<calls, pc, contact>>
    BY <1>7 DEF Loop, Start, LoopReturn, LoopPass, LoopTo, Dequeue, DequeueError,
       DequeueEmpty, AbandonHeld, Finish, FinishRecord, FinishReport
  <2>. QED  BY <1>1, <2>1 DEF At
<1>8. CASE Control \/ HandleAstray \/ Tick \/ UNCHANGED vars
  <2>1. UNCHANGED <<calls, pc, contact>>
    BY <1>8 DEF Control, Pause, Resume, Stop, HandleAstray, Tick, vars
  <2>. QED  BY <1>1, <2>1 DEF At
<1>9. CASE \E g \in Dials : DialOne(g)
  BY <1>1, <1>2, <1>4, <1>5, <1>9
<1>10. CASE \E g \in Dials : Launch(g)
  BY <1>1, <1>6, <1>10
<1>. QED  BY <1>7, <1>8, <1>9, <1>10 DEF Next

(* A number on the do-not-call list is never called, for any list, while   *)
(* the lookups work and the provider heeds the context                     *)
(* (worker_pool.go:162-169).                                               *)
THEOREM BlockedHolds == Spec => []BlockedNotCalled
<1>1. Init => BlockedAway
  BY FlagsAssumption DEF Init, BlockedAway, At
<1>2. BlockedAway => BlockedNotCalled
  BY DEF BlockedAway, BlockedNotCalled
<1>. QED  BY <1>1, <1>2, TypeInit, TypeStep, BlockedStep, PTL DEF Spec

-----------------------------------------------------------------------------
(* No contact is lost. While nothing has failed and nobody has stopped the *)
(* campaign, the row of a contact whose call has ended says what the       *)
(* goroutine says, so that a contact it does not put back is settled.      *)
Steady == faults = 0 /\ ~halted

AfterCall == {"tally", "publish", "cache", "notify", "retry"}

Noted(g) ==
  pc[g] \in AfterCall =>
    /\ outcome[g] \in CallOutcome \cup {"dnc"}
    /\ row[contact[g]].status = outcome[g] /\ row[contact[g]].attempts = tries[g]

Placed(c) == InQueue(c) \/ held = c \/ InHand(c) \/ IsSettled(c)

NothingMissing ==
  /\ cancelled => halted
  /\ Steady => (\A g \in Dials : Noted(g)) /\ (\A c \in Queued : Placed(c))

(* What a steady step starts from.                                         *)
(* A step that ends with nothing failed or stopped began so.               *)
LEMMA SteadyPast ==
  ASSUME TInv, cancelled => halted, [Next]_vars, Steady'
  PROVE  Steady /\ ~cancelled /\ faults = 0 /\ faults' = 0
<1>1. faults = 0 /\ faults' = 0
  BY NothingForgotten, ConstantsTyped DEF Steady, TInv, TypeOK, Assumptions
<1>2. ~halted
  <2>1. halted => halted'
    BY DEF Next, Loop, Start, LoopReturn, LoopPass, LoopTo, Dequeue, DequeueError,
       DequeueEmpty, Launch, AbandonHeld, Finish, FinishRecord, FinishReport, DialOne,
       GetContact, CheckDnc, SkipBlocked, BeginCall, EndCall, Tally, PublishCount,
       PublishCache, Notify, Requeue, Release, Control, Pause, Resume, Stop, HandleAstray, Tick, vars
  <2>. QED  BY <2>1 DEF Steady
<1>. QED  BY <1>1, <1>2 DEF Steady

(* Only Stop cancels the context of the pool.                              *)
LEMMA CancelledHalts ==
  ASSUME TInv, cancelled => halted, [Next]_vars PROVE cancelled' => halted'
BY DEF Next, Loop, Start, LoopReturn, LoopPass, LoopTo, Dequeue,
   DequeueError, DequeueEmpty, Launch, AbandonHeld, Finish, FinishRecord, FinishReport,
   DialOne, GetContact, CheckDnc, SkipBlocked, BeginCall, EndCall, Tally, PublishCount,
   PublishCache, Notify, Requeue, Release, Control, Pause, Resume, Stop, HandleAstray, Tick, vars

LEMMA SteadyBefore ==
  ASSUME TInv, NothingMissing, [Next]_vars, Steady'
  PROVE  /\ ~cancelled /\ faults = 0 /\ faults' = 0
         /\ \A g \in Dials : Noted(g)
         /\ \A c \in Queued : Placed(c)
<1>1. Steady /\ ~cancelled /\ faults = 0 /\ faults' = 0
  BY SteadyPast DEF NothingMissing
<1>. QED  BY <1>1 DEF NothingMissing

(* A step that writes no row and leaves every contact where it was.        *)
LEMMA PlacesKept ==
  ASSUME \A g \in Dials : Noted(g), \A c \in Queued : Placed(c),
         UNCHANGED <<row, queue, held>>,
         \A g \in Dials :
           \/ pc'[g] = pc[g] /\ contact'[g] = contact[g] /\ outcome'[g] = outcome[g]
                /\ tries'[g] = tries[g]
           \/ ~Working(g) /\ ~Working(g)'
  PROVE  (\A g \in Dials : Noted(g)') /\ (\A c \in Queued : Placed(c)')
<1>1. ASSUME NEW g \in Dials PROVE Noted(g)'
  <2>1. Noted(g) /\ row' = row
    OBVIOUS
  <2>. QED  BY <2>1 DEF Noted, AfterCall, Working, WorkPc
<1>2. ASSUME NEW c \in Queued PROVE Placed(c)'
  <2>1. InHand(c) => InHand(c)'
    BY DEF InHand, Working
  <2>2. /\ InQueue(c) => InQueue(c)'
        /\ IsSettled(c) => IsSettled(c)'
        /\ held = c => held' = c
    BY DEF InQueue, IsSettled
  <2>3. Placed(c)
    OBVIOUS
  <2>. QED  BY <2>1, <2>2, <2>3 DEF Placed
<1>. QED  BY <1>1, <1>2

(* A step of one goroutine that goes on working on its contact.            *)
LEMMA WorkGoesOn ==
  ASSUME TInv, OnePlace, \A g \in Dials : Noted(g), \A c \in Queued : Placed(c),
         NEW g \in Dials, Working(g), Working(g)', Noted(g)',
         UNCHANGED <<queue, held, contact>>,
         \A h \in Dials \ {g} : pc'[h] = pc[h] /\ outcome'[h] = outcome[h] /\ tries'[h] = tries[h],
         \A d \in Contacts \ {contact[g]} : row'[d] = row[d]
  PROVE  (\A h \in Dials : Noted(h)') /\ (\A c \in Queued : Placed(c)')
<1>1. ASSUME NEW h \in Dials \ {g} PROVE Noted(h)'
  <2>1. CASE pc[h] \in AfterCall
    <3>1. Working(h) /\ contact[h] \in Contacts
      BY <2>1 DEF Working, WorkPc, AfterCall, TInv, Shape
    <3>2. contact[h] # contact[g]
      BY <3>1 DEF OnePlace
    <3>3. row'[contact[h]] = row[contact[h]] /\ Noted(h) /\ contact'[h] = contact[h]
      BY <3>1, <3>2
    <3>. QED  BY <3>3 DEF Noted
  <2>2. CASE pc[h] \notin AfterCall
    BY <2>2 DEF Noted
  <2>. QED  BY <2>1, <2>2
<1>2. ASSUME NEW c \in Queued PROVE Placed(c)'
  <2>1. CASE c = contact[g]
    BY <2>1 DEF Placed, InHand
  <2>2. CASE c # contact[g]
    <3>1. InHand(c) => InHand(c)'
      BY DEF InHand, Working
    <3>2. /\ InQueue(c) => InQueue(c)'
          /\ IsSettled(c) => IsSettled(c)'
          /\ held = c => held' = c
      BY <2>2, BeganTyped DEF InQueue, IsSettled
    <3>3. Placed(c)
      OBVIOUS
    <3>. QED  BY <3>1, <3>2, <3>3 DEF Placed
  <2>. QED  BY <2>1, <2>2
<1>. QED  BY <1>1, <1>2

(* The goroutines.                                                         *)
LEMMA NothingLostDial ==
  ASSUME TInv, TInv', OnePlace, [Next]_vars, NothingMissing, Steady',
         NEW g \in Dials, DialOne(g)
  PROVE  (\A h \in Dials : Noted(h)') /\ (\A c \in Queued : Placed(c)')
<1>1. /\ ~cancelled /\ faults = 0 /\ faults' = 0
      /\ \A h \in Dials : Noted(h)
      /\ \A c \in Queued : Placed(c)
  BY SteadyBefore
<1>2. \A ok \in BOOLEAN : Attempt(ok) => ok
  BY <1>1 DEF Attempt
<1>3. /\ pc[g] # "idle" /\ contact[g] \in Contacts /\ tries[g] \in Nat
      /\ row[contact[g]] \in [status : ContactStatus, attempts : Nat]
  BY DEF DialOne, GetContact, CheckDnc, SkipBlocked, BeginCall, EndCall, Tally,
     PublishCount, PublishCache, Notify, Requeue, Release, At, TInv, TypeOK, Shape
<1>4. \A h \in Dials \ {g} : pc'[h] = pc[h] /\ outcome'[h] = outcome[h] /\ tries'[h] = tries[h]
  BY OthersStill
<1>5. CASE GetContact(g) \/ CheckDnc(g) \/ BeginCall(g)
  <2>1. /\ UNCHANGED <<queue, held, contact>> /\ Working(g)
        /\ pc'[g] \in {"dnc", "skip", "begin", "calling"}
        /\ \A d \in Contacts \ {contact[g]} : row'[d] = row[d]
    BY <1>2, <1>3, <1>5 DEF GetContact, CheckDnc, BeginCall, SavedRow, Goto, At, Working,
       WorkPc, TInv, TypeOK
  <2>2. Working(g)' /\ Noted(g)'
    BY <2>1 DEF Working, WorkPc, Noted, AfterCall
  <2>. QED  BY <1>1, <1>4, <2>1, <2>2, WorkGoesOn
<1>6. CASE SkipBlocked(g)
  <2>1. row' = [row EXCEPT ![contact[g]] = [status |-> "dnc", attempts |-> tries[g]]]
    BY <1>2, <1>6 DEF SkipBlocked, SavedRow
  <2>2. /\ UNCHANGED <<queue, held, contact, tries>> /\ Working(g)
        /\ pc'[g] = "tally" /\ outcome'[g] = "dnc"
    BY <1>3, <1>6 DEF SkipBlocked, Goto, At, Working, WorkPc, TInv, TypeOK
  <2>3. Noted(g)' /\ Working(g)' /\ \A d \in Contacts \ {contact[g]} : row'[d] = row[d]
    BY <1>3, <2>1, <2>2 DEF Noted, Working, WorkPc, TInv, TypeOK
  <2>. QED  BY <1>1, <1>4, <2>2, <2>3, WorkGoesOn
<1>7. CASE EndCall(g)
  <2>1. PICK status \in Outcomes \cup {"failed"} :
          /\ row' = [row EXCEPT ![contact[g]] = [status |-> status, attempts |-> tries[g] + 1]]
          /\ outcome' = [outcome EXCEPT ![g] = status]
    BY <1>2, <1>7 DEF EndCall, SavedRow
  <2>2. /\ UNCHANGED <<queue, held, contact>> /\ Working(g)
        /\ pc'[g] = "tally" /\ tries'[g] = tries[g] + 1
    BY <1>3, <1>7 DEF EndCall, Goto, At, Working, WorkPc, TInv, TypeOK
  <2>3. status \in CallOutcome
    BY OutcomesAssumption DEF CallOutcome
  <2>4. Noted(g)' /\ Working(g)' /\ \A d \in Contacts \ {contact[g]} : row'[d] = row[d]
    BY <1>3, <2>1, <2>2, <2>3 DEF Noted, Working, WorkPc, TInv, TypeOK
  <2>. QED  BY <1>1, <1>4, <2>2, <2>4, WorkGoesOn
<1>8. CASE Tally(g) \/ PublishCount(g) \/ PublishCache(g) \/ Notify(g)
  <2>1. /\ UNCHANGED <<queue, held, contact, outcome, tries, row>>
        /\ pc[g] \in AfterCall /\ pc'[g] \in AfterCall
    BY <1>8 DEF Tally, PublishCount, PublishCache, Notify, Goto, At, AfterCall, TInv, TypeOK
  <2>2. Working(g) /\ Working(g)' /\ Noted(g)'
    BY <1>1, <2>1 DEF Working, WorkPc, AfterCall, Noted
  <2>. QED  BY <1>1, <1>4, <2>1, <2>2, WorkGoesOn
<1>9. CASE Requeue(g)
  <2>1. /\ UNCHANGED <<held, contact, outcome, tries, row>>
        /\ At(g, "retry") /\ pc'[g] = "release"
    BY <1>9 DEF Requeue, Goto, At, TInv, TypeOK
  <2>2. \/ ShouldRetry(outcome[g], tries[g], RetryMax) /\ queue' = Append(queue, contact[g])
        \/ ~ShouldRetry(outcome[g], tries[g], RetryMax) /\ queue' = queue
    BY <1>2, <1>9 DEF Requeue
  <2>3. Noted(g) /\ pc[g] \in AfterCall
    BY <1>1, <2>1 DEF At, AfterCall
  <2>4. ASSUME NEW h \in Dials PROVE Noted(h)'
    <3>1. CASE h = g  BY <2>1, <3>1 DEF Noted, AfterCall
    <3>2. CASE h # g
      <4>1. Noted(h) /\ row' = row /\ contact' = contact
        BY <1>1, <2>1
      <4>. QED  BY <1>4, <3>2, <4>1 DEF Noted
    <3>. QED  BY <3>1, <3>2
  <2>5. \A c \in Contacts : InQueue(c) => InQueue(c)'
    <3>1. queue \in Seq(Contacts)
      BY DEF TInv, TypeOK
    <3>2. CASE queue' = queue  BY <3>2 DEF InQueue
    <3>3. CASE queue' = Append(queue, contact[g])
      <4>1. \A i \in DOMAIN queue : i \in DOMAIN queue' /\ queue'[i] = queue[i]
        BY <1>3, <3>1, <3>3
      <4>. QED  BY <4>1 DEF InQueue
    <3>. QED  BY <2>2, <3>2, <3>3
  <2>6. Placed(contact[g])'
    <3>1. CASE ShouldRetry(outcome[g], tries[g], RetryMax)
      <4>1. queue \in Seq(Contacts) /\ queue' = Append(queue, contact[g])
        BY <2>2, <3>1 DEF TInv, TypeOK
      <4>2. Len(queue) + 1 \in DOMAIN queue' /\ queue'[Len(queue) + 1] = contact[g]
        BY <1>3, <4>1
      <4>3. \E i \in DOMAIN queue' : queue'[i] = contact[g]
        BY <4>2
      <4>. QED  BY <2>1, <4>3 DEF Placed, InQueue
    <3>2. CASE ~ShouldRetry(outcome[g], tries[g], RetryMax)
      <4>1. IsSettled(contact[g])
        BY <2>3, <3>2 DEF Noted, IsSettled
      <4>2. IsSettled(contact[g])'
        BY <2>1, <4>1 DEF IsSettled
      <4>. QED  BY <2>1, <4>2 DEF Placed
    <3>. QED  BY <3>1, <3>2
  <2>7. ASSUME NEW c \in Queued, c # contact[g] PROVE Placed(c)'
    <3>1. InHand(c) => InHand(c)'
      BY <1>4, <2>1, <2>7 DEF InHand, Working
    <3>2. IsSettled(c) => IsSettled(c)'
      BY <2>1 DEF IsSettled
    <3>3. Placed(c) /\ held' = held
      BY <1>1, <2>1
    <3>. QED  BY <2>5, <3>1, <3>2, <3>3, BeganTyped DEF Placed
  <2>8. \A c \in Queued : Placed(c)'
    <3>1. ASSUME NEW c \in Queued PROVE Placed(c)'
      <4>1. CASE c = contact[g]  BY <2>1, <2>6, <4>1
      <4>2. CASE c # contact[g]  BY <2>7, <4>2
      <4>. QED  BY <4>1, <4>2
    <3>. QED  BY <3>1
  <2>. QED  BY <2>4, <2>8
<1>10. CASE Release(g)
  <2>1. UNCHANGED <<queue, held, row>> /\ pc[g] = "release" /\ pc'[g] = "idle"
    BY <1>10 DEF Release, EndOf, Goto, At, TInv, TypeOK
  <2>2. ~Working(g) /\ ~Working(g)'
    BY <2>1 DEF Working, WorkPc
  <2>3. \A h \in Dials \ {g} : contact'[h] = contact[h]
    BY <1>10 DEF Release, EndOf, TInv, TypeOK
  <2>. QED  BY <1>1, <1>4, <2>1, <2>2, <2>3, PlacesKept
<1>. QED
  BY <1>5, <1>6, <1>7, <1>8, <1>9, <1>10 DEF DialOne

(* The loop.                                                               *)
LEMMA NothingLostLoop ==
  ASSUME TInv, TInv', OnePlace, [Next]_vars, NothingMissing, Steady', Loop
  PROVE  (\A h \in Dials : Noted(h)') /\ (\A c \in Queued : Placed(c)')
<1>1. /\ ~cancelled /\ faults = 0 /\ faults' = 0
      /\ \A h \in Dials : Noted(h)
      /\ \A c \in Queued : Placed(c)
  BY SteadyBefore
<1>2. CASE Dequeue
  <2>1. /\ held = None /\ held' = Head(queue) /\ queue' = Tail(queue)
        /\ queue \in Seq(Contacts) /\ queue # <<>>
        /\ UNCHANGED <<pc, contact, outcome, tries, row>>
    BY <1>2 DEF Dequeue, TInv, TypeOK, Shape
  <2>2. ASSUME NEW c \in Contacts, InQueue(c) PROVE InQueue(c)' \/ held' = c
    <3>1. PICK i \in 1..Len(queue) : queue[i] = c
      BY <2>1, <2>2 DEF InQueue
    <3>2. CASE i = 1  BY <2>1, <3>1, <3>2
    <3>3. CASE i # 1
      <4>1. i - 1 \in DOMAIN queue' /\ queue'[i - 1] = c
        BY <2>1, <3>1, <3>3
      <4>. QED  BY <4>1 DEF InQueue
    <3>. QED  BY <3>2, <3>3
  <2>3. ASSUME NEW c \in Queued PROVE Placed(c)'
    <3>1. (InHand(c) => InHand(c)') /\ (IsSettled(c) => IsSettled(c)')
      BY <2>1 DEF InHand, Working, IsSettled
    <3>2. Placed(c) /\ held # c
      BY <1>1, <2>1, NoneAssumption, BeganTyped
    <3>. QED  BY <2>2, <3>1, <3>2, BeganTyped DEF Placed
  <2>4. ASSUME NEW h \in Dials PROVE Noted(h)'
    <3>1. Noted(h)
      BY <1>1
    <3>. QED  BY <2>1, <3>1 DEF Noted
  <2>. QED  BY <2>3, <2>4
<1>3. ASSUME NEW g \in Dials, Launch(g)
      PROVE  (\A h \in Dials : Noted(h)') /\ (\A c \in Queued : Placed(c)')
  <2>1. /\ held \in Contacts /\ held' = None /\ UNCHANGED <<queue, row, outcome, tries>>
        /\ pc[g] = "idle" /\ pc'[g] = "get" /\ contact'[g] = held
        /\ \A h \in Dials \ {g} : pc'[h] = pc[h] /\ contact'[h] = contact[h]
    BY <1>3 DEF Launch, Goto, TInv, Shape, TypeOK
  <2>2. ASSUME NEW h \in Dials PROVE Noted(h)'
    <3>1. Noted(h)
      BY <1>1
    <3>. QED  BY <2>1, <3>1 DEF Noted, AfterCall
  <2>3. ASSUME NEW c \in Queued PROVE Placed(c)'
    <3>1. held = c => InHand(c)'
      BY <2>1 DEF InHand, Working, WorkPc
    <3>2. InHand(c) => InHand(c)'
      <4>1. ~Working(g)
        BY <2>1 DEF Working, WorkPc
      <4>2. \A h \in Dials : Working(h) /\ contact[h] = c => Working(h)' /\ contact'[h] = c
        BY <2>1, <4>1 DEF Working
      <4>. QED  BY <4>2 DEF InHand
    <3>3. (InQueue(c) => InQueue(c)') /\ (IsSettled(c) => IsSettled(c)')
      BY <2>1 DEF InQueue, IsSettled
    <3>4. Placed(c)
      BY <1>1
    <3>. QED  BY <3>1, <3>2, <3>3, <3>4 DEF Placed
  <2>. QED  BY <2>2, <2>3
<1>4. CASE ~Dequeue /\ \A g \in Dials : ~Launch(g)
  <2>1. ~AbandonHeld /\ ~DequeueError
    BY <1>1 DEF AbandonHeld, DequeueError, Attempt
  <2>2. UNCHANGED <<queue, held, row, pc, contact, outcome, tries>>
    BY <1>4, <2>1 DEF Loop, Start, LoopReturn, LoopPass, LoopTo, DequeueEmpty, Finish,
       FinishRecord, FinishReport
  <2>. QED  BY <1>1, <2>2, PlacesKept
<1>. QED  BY <1>2, <1>3, <1>4

LEMMA NothingLostStep == TInv /\ TInv' /\ OnePlace /\ NothingMissing /\ [Next]_vars => NothingMissing'
<1> SUFFICES ASSUME TInv, TInv', OnePlace, NothingMissing, [Next]_vars PROVE NothingMissing'
  OBVIOUS
<1>1. cancelled' => halted'
  BY CancelledHalts DEF NothingMissing
<1>2. ASSUME Steady'
      PROVE  (\A h \in Dials : Noted(h)') /\ (\A c \in Queued : Placed(c)')
  <2>1. CASE Loop  BY <1>2, <2>1, NothingLostLoop
  <2>2. CASE \E g \in Dials : DialOne(g)  BY <1>2, <2>2, NothingLostDial
  <2>3. CASE Control \/ HandleAstray \/ Tick \/ UNCHANGED vars
    <3>1. /\ \A h \in Dials : Noted(h)
          /\ \A c \in Queued : Placed(c)
      BY <1>2, SteadyBefore
    <3>2. ~Stop
      BY <1>2 DEF Stop, Steady
    <3>3. UNCHANGED <<queue, held, row, pc, contact, outcome, tries>>
      BY <2>3, <3>2 DEF Control, Pause, Resume, HandleAstray, Tick, vars
    <3>. QED  BY <3>1, <3>3, PlacesKept
  <2>. QED  BY <2>1, <2>2, <2>3 DEF Next
<1>. QED  BY <1>1, <1>2, BeganKept DEF NothingMissing

(* Of the contacts queued when the pool was made, none is lost between     *)
(* Redis, the loop, the goroutines and its final row, for every number of  *)
(* contacts and goroutines, unless a call fails or the campaign is stopped *)
(* (worker_pool.go:119-206).                                               *)
THEOREM NothingLostHolds == Spec => []NothingLost
<1>1. Init => NothingMissing
  <2> SUFFICES ASSUME Init PROVE NothingMissing
    OBVIOUS
  <2>1. \A c \in Queued : InQueue(c)
    BY DEF Init, InQueue, Queued
  <2>2. ~cancelled /\ \A g \in Dials : pc[g] = "idle"
    BY DEF Init
  <2>. QED  BY <2>1, <2>2 DEF NothingMissing, Noted, AfterCall, Placed
<1>2. NothingMissing => NothingLost
  BY DEF NothingMissing, NothingLost, Steady, Placed
<1>. QED
  BY <1>1, <1>2, TypeInit, TypeStep, OnePlaceInit, OnePlaceStep, NothingLostStep, PTL DEF Spec

-----------------------------------------------------------------------------
(* The counters. A set and a set that differs from it in one goroutine.    *)
Bit(b) == IF b THEN 1 ELSE 0

LEMMA SetMoves ==
  ASSUME NEW A \in SUBSET Dials, NEW B \in SUBSET Dials, NEW x \in Dials,
         A \ {x} = B \ {x}
  PROVE  /\ Cardinality(A) \in Nat /\ Cardinality(B) \in Nat
         /\ Cardinality(B) = Cardinality(A) + Bit(x \in B) - Bit(x \in A)
<1>1. IsFiniteSet(A) /\ IsFiniteSet(B)
  BY ConstantsTyped, FS_Subset DEF Assumptions
<1>2. Cardinality(A) \in Nat /\ Cardinality(B) \in Nat
  BY <1>1, FS_CardinalityType
<1>3. Cardinality(A \ {x}) = IF x \in A THEN Cardinality(A) - 1 ELSE Cardinality(A)
  BY <1>1, FS_RemoveElement
<1>4. Cardinality(B \ {x}) = IF x \in B THEN Cardinality(B) - 1 ELSE Cardinality(B)
  BY <1>1, FS_RemoveElement
<1>. QED  BY <1>2, <1>3, <1>4 DEF Bit

LEMMA CounterTyped == \A s \in CallOutcome \cup {"dnc"} : Counter(s) \in CallOutcome
BY DEF Counter, CallOutcome

(* One dial more on a tally: one counter goes up, and so does the total.   *)
LEMMA BumpIs ==
  ASSUME NEW t \in [CallOutcome -> Nat], NEW s \in CallOutcome \cup {"dnc"}
  PROVE  /\ Bump(t, s) \in [CallOutcome -> Nat]
         /\ \A o \in CallOutcome : Bump(t, s)[o] = t[o] + Bit(Counter(s) = o)
         /\ Total(Bump(t, s)) = Total(t) + 1 /\ Total(t) \in Nat
<1>1. Counter(s) \in CallOutcome
  BY CounterTyped
<1>2. /\ Bump(t, s) \in [CallOutcome -> Nat]
      /\ \A o \in CallOutcome : Bump(t, s)[o] = t[o] + Bit(Counter(s) = o)
  BY <1>1 DEF Bump, Bit
<1>3. Total(Bump(t, s)) = Total(t) + 1 /\ Total(t) \in Nat
  BY <1>1, <1>2 DEF Total, CallOutcome, Bit
<1>. QED  BY <1>2, <1>3

(* Lead is a bound on what the row may be ahead by at the start, and room  *)
(* for all goroutines but one.                                             *)
LEMMA LeadTyped ==
  ASSUME TInv
  PROVE  /\ Lead \in Nat /\ Lead >= Concurrency - 1 /\ Concurrency \in 1..10
         /\ began.stored.dialed \in Nat /\ began.counts.dialed \in Nat
         /\ began.stored.dialed - began.counts.dialed <= Lead
<1>1. began.stored \in Counters /\ began.counts \in Counters /\ Concurrency \in 1..10
  BY BeganTyped, ConstantsTyped DEF Assumptions
<1>2. began.stored.dialed \in Nat /\ began.counts.dialed \in Nat
  BY <1>1 DEF Counters
<1>. QED  BY <1>1, <1>2 DEF Lead

(* While a goroutine is at some other step, those about to make their      *)
(* increment are fewer than the pool's slots.                              *)
LEMMA RoomAhead ==
  ASSUME TInv
  PROVE  /\ Publishing \in SUBSET Dials /\ Cardinality(Publishing) \in Nat
         /\ AllIdle => Cardinality(Publishing) = 0
         /\ \A g \in Dials : pc[g] \notin {"idle", "publish"}
                               => Cardinality(Publishing) <= Concurrency - 1
<1>1. Publishing \in SUBSET Dials /\ IsFiniteSet(Publishing)
  BY ConstantsTyped, FS_Subset DEF Publishing, Assumptions
<1>2. Cardinality(Publishing) \in Nat
  BY <1>1, FS_CardinalityType
<1>3. AllIdle => Cardinality(Publishing) = 0
  <2>1. AllIdle => Publishing = {}
    BY DEF AllIdle, Publishing, At
  <2>. QED  BY <2>1, FS_EmptySet
<1>4. ASSUME NEW g \in Dials, pc[g] \notin {"idle", "publish"}
      PROVE  Cardinality(Publishing) <= Concurrency - 1
  <2>1. /\ IsFiniteSet(Slots \ {g}) /\ Cardinality(Slots \ {g}) = sem - 1
        /\ sem \in 0..Concurrency /\ Concurrency \in Nat
    <3>1. SlotsAccounted /\ sem \in 0..Concurrency /\ pc[g] # "idle"
      BY <1>4 DEF TInv, TypeOK
    <3>. QED  BY <3>1, SlotHeld, ConcurrencyAssumption
  <2>2. Publishing \subseteq Slots \ {g}
    BY <1>4 DEF Publishing, Slots, At
  <2>3. Cardinality(Publishing) <= Cardinality(Slots \ {g})
    BY <2>1, <2>2, FS_Subset
  <2>. QED  BY <1>2, <2>1, <2>3
<1>. QED  BY <1>1, <1>2, <1>3, <1>4

(* The counters of a progress record, as numbers.                          *)
LEMMA DialedTyped ==
  ASSUME TInv
  PROVE  /\ progress.dialed \in Nat /\ dbCount.dialed \in Nat /\ redisProg.dialed \in Nat
         /\ reported.progress.dialed \in Nat
         /\ \A m \in astray : m.progress \in Progress /\ m.progress.dialed \in Nat
         /\ \A g \in Dials : snap[g] \in Progress /\ snap[g].dialed \in Nat
         /\ \A p \in Progress : p.dialed \in Nat /\ CountersOf(p).dialed = p.dialed
BY DEF TInv, TypeOK, Progress, Counters, CountersOf

LEMMA AheadInit == Init => Ahead
<1> SUFFICES ASSUME Init PROVE Ahead
  OBVIOUS
<1>1. TInv /\ AllIdle /\ loop = "start" /\ astray = {} /\ ~reported.final
      /\ redisProg = NoProgress /\ dbCount = began.stored
      /\ progress = InitProgress(began) /\ \A g \in Dials : snap[g] = NoProgress
  BY TypeInit DEF Init, AllIdle
<1>2. Cardinality(Publishing) = 0
  BY <1>1, RoomAhead
<1>3. progress.dialed = began.counts.dialed /\ NoProgress.dialed = 0
  BY <1>1 DEF InitProgress, NoProgress
<1>4. /\ began.stored.dialed \in Nat /\ began.counts.dialed \in Nat /\ Lead \in Nat
      /\ began.stored.dialed - began.counts.dialed <= Lead
  BY <1>1, LeadTyped
<1>5. dbCount.dialed + Cardinality(Publishing) <= progress.dialed + Lead
  BY <1>1, <1>2, <1>3, <1>4
<1>6. redisProg.dialed <= progress.dialed /\ \A g \in Dials : snap[g].dialed <= progress.dialed
  BY <1>1, <1>3, <1>4
<1>. QED  BY <1>1, <1>5, <1>6 DEF Ahead, FinalSays

(* A step that counts nothing, reports nothing, and lets no goroutine in   *)
(* or out of the place where it makes its increment, while one is at work: *)
(* no final callback has been sent yet.                                    *)
LEMMA AheadBusy ==
  ASSUME TInv, Ahead, NEW g \in Dials, pc[g] # "idle"
  PROVE  /\ loop \notin {"record", "report"} /\ ~reported.final
         /\ \A m \in astray : ~m.final
BY DEF Ahead, FinalSays, AllIdle

LEMMA AheadDial ==
  ASSUME TInv, TInv', Ahead, NEW g \in Dials, DialOne(g) PROVE Ahead'
<1>0. /\ pc[g] # "idle" /\ loop' = loop /\ began' = began
      /\ loop \notin {"record", "report"} /\ ~reported.final
      /\ \A m \in astray : ~m.final
  BY AtWork, AheadBusy, BeganKept DEF DialOne, GetContact, CheckDnc, SkipBlocked, BeginCall,
     EndCall, Tally, PublishCount, PublishCache, Notify, Requeue, Release
<1>1. /\ Publishing \in SUBSET Dials /\ Publishing' \in SUBSET Dials
      /\ Cardinality(Publishing) \in Nat
      /\ Publishing \ {g} = Publishing' \ {g}
  <2>1. \A h \in Dials \ {g} : pc'[h] = pc[h]
    BY OthersStill
  <2>. QED  BY <2>1, RoomAhead DEF Publishing, At
<1>2. Cardinality(Publishing') = Cardinality(Publishing) + Bit(g \in Publishing')
                                   - Bit(g \in Publishing)
  BY <1>1, SetMoves
<1>3. /\ g \in Publishing <=> pc[g] = "publish"
      /\ g \in Publishing' <=> pc'[g] = "publish"
      /\ pc \in [Dials -> WorkPc \cup {"idle", "release"}]
  BY DEF Publishing, At, TInv, TypeOK
<1>4. Lead' = Lead /\ Lead \in Nat /\ Lead >= Concurrency - 1 /\ Concurrency \in 1..10
  BY <1>0, LeadTyped DEF Lead
<1>5. /\ progress.dialed \in Nat /\ dbCount.dialed \in Nat /\ redisProg.dialed \in Nat
      /\ \A m \in astray : m.progress.dialed \in Nat
      /\ \A h \in Dials : snap[h] \in Progress /\ snap[h].dialed \in Nat
      /\ \A p \in Progress : p.dialed \in Nat /\ CountersOf(p).dialed = p.dialed
  BY DialedTyped
<1>6. /\ dbCount.dialed + Cardinality(Publishing) <= progress.dialed + Lead
      /\ \A m \in astray :
           m.progress.dialed + Cardinality(Publishing) <= progress.dialed + Concurrency - 1
      /\ \A h \in Dials : snap[h].dialed <= progress.dialed
      /\ redisProg.dialed <= progress.dialed
  BY DEF Ahead
<1>7. CASE Tally(g)
  <2>1. /\ progress' = Advance(progress, outcome[g]) /\ snap' = [snap EXCEPT ![g] = progress']
        /\ pc[g] = "tally" /\ pc'[g] = "publish"
        /\ UNCHANGED <<dbCount, redisProg, reported, astray>>
    BY <1>3, <1>7 DEF Tally, At, Goto
  <2>2. progress'.dialed = progress.dialed + 1
    BY <2>1 DEF Advance
  <2>3. Cardinality(Publishing') = Cardinality(Publishing) + 1
    BY <1>1, <1>2, <1>3, <2>1 DEF Bit
  <2>4. \A h \in Dials : snap'[h].dialed <= progress'.dialed
    <3>1. \A h \in Dials : snap'[h] = IF h = g THEN progress' ELSE snap[h]
      BY <2>1 DEF TInv, TypeOK
    <3>. QED  BY <1>5, <1>6, <2>2, <3>1
  <2>. QED  BY <1>0, <1>1, <1>4, <1>5, <1>6, <2>1, <2>2, <2>3, <2>4 DEF Ahead, FinalSays
<1>8. CASE PublishCount(g)
  <2>1. /\ dbCount' = dbCount \/ dbCount' = Count(dbCount, outcome[g])
        /\ pc[g] = "publish" /\ pc'[g] = "cache"
        /\ UNCHANGED <<progress, snap, redisProg, reported, astray>>
    BY <1>3, <1>8 DEF PublishCount, At, Goto
  <2>2. dbCount'.dialed \in Nat /\ dbCount'.dialed <= dbCount.dialed + 1
    BY <1>5, <2>1 DEF Count
  <2>3. Cardinality(Publishing') = Cardinality(Publishing) - 1
    BY <1>1, <1>2, <1>3, <2>1 DEF Bit
  <2>. QED  BY <1>0, <1>1, <1>4, <1>5, <1>6, <2>1, <2>2, <2>3 DEF Ahead, FinalSays
<1>9. CASE ~Tally(g) /\ ~PublishCount(g)
  <2>1. progress' = progress /\ pc[g] # "publish" /\ pc'[g] # "publish"
    BY <1>3, <1>9 DEF DialOne, GetContact, CheckDnc, SkipBlocked, BeginCall, EndCall, PublishCache,
       Notify, Requeue, Release, EndOf, At, Goto
  <2>2. Cardinality(Publishing') = Cardinality(Publishing)
    BY <1>1, <1>2, <1>3, <2>1 DEF Bit
  <2>3. Cardinality(Publishing) <= Concurrency - 1
    BY <1>0, <2>1, RoomAhead
  <2>4. CASE PublishCache(g)
    <3>1. /\ redisProg' \in {snap[g], redisProg} /\ UNCHANGED <<snap, dbCount, reported, astray>>
      BY <2>4 DEF PublishCache
    <3>. QED  BY <1>0, <1>4, <1>5, <1>6, <2>1, <2>2, <3>1 DEF Ahead, FinalSays
  <2>5. CASE Notify(g)
    <3>1. UNCHANGED <<snap, redisProg>>
      BY <2>5 DEF Notify
    <3>2. \/ UNCHANGED <<reported, dbCount, astray>>
          \/ \E ok \in BOOLEAN : Callback(ok, snap[g], FALSE)
      BY <2>5 DEF Notify
    <3>3. \/ /\ dbCount' = dbCount \/ dbCount' = CountersOf(snap[g])
             /\ ~reported'.final
             /\ \A m \in astray' : m \in astray \/ m = [progress |-> snap[g], final |-> FALSE]
      BY <1>0, <3>2 DEF Callback, Handle
    <3>4. \A m \in astray' : ~m.final /\
            m.progress.dialed + Cardinality(Publishing) <= progress.dialed + Concurrency - 1
      <4>1. snap[g].dialed + Cardinality(Publishing) <= progress.dialed + Concurrency - 1
        BY <1>1, <1>4, <1>5, <1>6, <2>3
      <4>. QED  BY <1>0, <1>6, <3>3, <4>1
    <3>5. dbCount'.dialed + Cardinality(Publishing) <= progress.dialed + Lead
      <4>1. CASE dbCount' = dbCount
        BY <1>6, <4>1
      <4>2. CASE dbCount' = CountersOf(snap[g])
        BY <1>1, <1>4, <1>5, <1>6, <2>3, <4>2
      <4>. QED  BY <3>3, <4>1, <4>2
    <3>. QED  BY <1>0, <1>4, <1>6, <2>1, <2>2, <3>1, <3>3, <3>4, <3>5 DEF Ahead, FinalSays
  <2>6. CASE Release(g)
    <3>1. snap' = [snap EXCEPT ![g] = NoProgress] /\ UNCHANGED <<dbCount, redisProg, reported, astray>>
      BY <2>6 DEF Release, EndOf
    <3>2. \A h \in Dials : snap'[h].dialed <= progress.dialed
      <4>1. \A h \in Dials : snap'[h] = IF h = g THEN NoProgress ELSE snap[h]
        BY <3>1 DEF TInv, TypeOK
      <4>. QED  BY <1>5, <1>6, <4>1 DEF NoProgress
    <3>. QED  BY <1>0, <1>4, <1>6, <2>1, <2>2, <3>1, <3>2 DEF Ahead, FinalSays
  <2>7. CASE ~PublishCache(g) /\ ~Notify(g) /\ ~Release(g)
    <3>1. UNCHANGED <<snap, dbCount, redisProg, reported, astray>>
      BY <1>9, <2>7 DEF DialOne, GetContact, CheckDnc, SkipBlocked, BeginCall, EndCall, Requeue
    <3>. QED  BY <1>0, <1>4, <1>6, <2>1, <2>2, <3>1 DEF Ahead, FinalSays
  <2>. QED  BY <2>4, <2>5, <2>6, <2>7
<1>. QED  BY <1>7, <1>8, <1>9

LEMMA AheadRest ==
  ASSUME TInv, TInv', Ahead, Loop \/ Control \/ HandleAstray \/ Tick \/ UNCHANGED vars PROVE Ahead'
<1>1. /\ progress' = progress /\ snap' = snap /\ redisProg' = redisProg
      /\ Publishing' = Publishing
  <2>1. UNCHANGED <<progress, snap, redisProg>>
    BY DEF Loop, Start, LoopReturn, LoopPass, LoopTo, Dequeue, DequeueError,
       DequeueEmpty, Launch, AbandonHeld, Finish, FinishRecord, FinishReport,
       Control, Pause, Resume, Stop, HandleAstray, Tick, vars
  <2>2. \A h \in Dials : At(h, "publish")' <=> At(h, "publish")
    BY DEF Loop, Start, LoopReturn, LoopPass, LoopTo, Dequeue, DequeueError,
       DequeueEmpty, Launch, AbandonHeld, Finish, FinishRecord, FinishReport,
       Control, Pause, Resume, Stop, HandleAstray, Tick, vars, At, Goto, TInv, TypeOK
  <2>. QED  BY <2>1, <2>2 DEF Publishing
<1>2. Lead' = Lead /\ Lead \in Nat /\ Lead >= Concurrency - 1 /\ Concurrency \in 1..10
  BY BeganKept, LeadTyped DEF Lead
<1>3. /\ progress.dialed \in Nat /\ progress \in Progress /\ Cardinality(Publishing) \in Nat
      /\ AllIdle => Cardinality(Publishing) = 0
      /\ \A m \in astray : m.progress \in Progress /\ m.progress.dialed \in Nat
      /\ \A p \in Progress : p.dialed \in Nat /\ CountersOf(p).dialed = p.dialed
  BY DialedTyped, RoomAhead DEF TInv, TypeOK
<1>4. CASE UNCHANGED <<dbCount, reported, astray>>
  <2>1. /\ loop' \in {"record", "report"} => AllIdle'
        /\ loop = "done" /\ AllIdle => loop' = "done" /\ AllIdle'
    <3>1. CASE \E g \in Dials : Launch(g)
      BY <3>1 DEF Launch
    <3>2. CASE ~\E g \in Dials : Launch(g)
      BY <3>2 DEF Ahead, AllIdle, Loop, Start, LoopReturn, LoopPass, LoopTo, Dequeue, DequeueError,
         DequeueEmpty, AbandonHeld, Finish, FinishRecord, FinishReport,
         Control, Pause, Resume, Stop, HandleAstray, Tick, vars
    <3>. QED  BY <3>1, <3>2
  <2>. QED  BY <1>1, <1>2, <1>4, <2>1 DEF Ahead, FinalSays
<1>5. CASE FinishReport
  <2> DEFINE last == [progress EXCEPT !.remaining = 0]
             m    == [progress |-> last, final |-> TRUE]
  <2>1. AllIdle /\ AllIdle' /\ loop' = "done" /\ Cardinality(Publishing) = 0
    BY <1>3, <1>5 DEF FinishReport, Ahead, AllIdle
  <2>2. last \in Progress /\ CountersOf(last) = CountersOf(progress) /\ last.dialed = progress.dialed
    BY <1>3, ProgressTyped DEF CountersOf, Progress
  <2>3. \/ reported' = m /\ dbCount' = CountersOf(last) /\ astray' = astray
        \/ /\ UNCHANGED <<reported, dbCount>> /\ astray' \in {astray, astray \cup {m}}
    BY <1>5 DEF FinishReport, Callback, Handle
  <2>12. \A x : x = m => FinalSays(x)'
    BY <1>1, <2>1, <2>2 DEF FinalSays
  <2>5. m.progress.dialed = progress.dialed /\ m.progress = last /\ m.final
    BY <2>2
  <2>6. \A x \in astray \cup {reported} : FinalSays(x)'
    BY <1>1, <2>1 DEF Ahead, FinalSays
  <2>. HIDE DEF last, m
  <2>7. dbCount'.dialed <= progress.dialed + Lead
    <3>1. CASE dbCount' = CountersOf(last)
      BY <1>2, <1>3, <2>2, <3>1
    <3>2. CASE dbCount' = dbCount
      BY <2>1, <3>2, DialedTyped DEF Ahead
    <3>. QED  BY <2>3, <3>1, <3>2
  <2>8. dbCount'.dialed \in Nat /\ (reported'.final => dbCount' = CountersOf(progress))
    BY <2>2, <2>3, DialedTyped DEF Ahead
  <2>9. \A x \in astray' : x.progress.dialed <= progress.dialed + Concurrency - 1
    <3>1. \A x \in astray :
            x.progress.dialed + Cardinality(Publishing) <= progress.dialed + Concurrency - 1
      BY DEF Ahead
    <3>2. \A x \in astray : x.progress.dialed <= progress.dialed + Concurrency - 1
      BY <1>3, <2>1, <3>1
    <3>3. m.progress.dialed <= progress.dialed + Concurrency - 1
      BY <1>2, <1>3, <2>5
    <3>. QED  BY <2>3, <3>2, <3>3
  <2>10. \A x \in astray' \cup {reported'} : FinalSays(x)'
    <3>1. \A x \in astray' \cup {reported'} : x = m \/ x \in astray \cup {reported}
      BY <2>3
    <3>. QED  BY <2>6, <2>12, <3>1
  <2>11. \A x \in astray' : x.progress.dialed \in Nat
    BY DialedTyped, <1>3, <2>3, <2>5
  <2>. QED
    BY <1>1, <1>2, <1>3, <2>1, <2>7, <2>8, <2>9, <2>10, <2>11 DEF Ahead
<1>6. CASE HandleAstray
  <2>1. PICK m \in astray : /\ Handle(m.progress, m.final) /\ astray' = astray \ {m}
                            /\ UNCHANGED <<loop, pc>>
    BY <1>6 DEF HandleAstray
  <2>2. /\ reported' = [progress |-> m.progress, final |-> m.final]
        /\ dbCount' = CountersOf(m.progress) /\ CountersOf(m.progress).dialed = m.progress.dialed
    BY <1>3, <2>1 DEF Handle
  <2>3. dbCount'.dialed + Cardinality(Publishing) <= progress.dialed + Lead
    BY <1>2, <1>3, <2>1, <2>2 DEF Ahead
  <2>4. AllIdle' = AllIdle /\ loop' = loop
    BY <2>1 DEF AllIdle
  <2>5. FinalSays(reported)' /\ (reported'.final => dbCount' = CountersOf(progress))
    BY <1>1, <2>1, <2>2, <2>4 DEF Ahead, FinalSays
  <2>. QED  BY <1>1, <1>2, <2>1, <2>3, <2>4, <2>5 DEF Ahead, FinalSays
<1>7. CASE ~FinishReport /\ ~HandleAstray
  <2>1. UNCHANGED <<dbCount, reported, astray>>
    BY <1>7 DEF Loop, Start, LoopReturn, LoopPass, LoopTo, Dequeue, DequeueError,
       DequeueEmpty, Launch, AbandonHeld, Finish, FinishRecord,
       Control, Pause, Resume, Stop, Tick, vars
  <2>. QED  BY <1>4, <2>1
<1>. QED  BY <1>5, <1>6, <1>7

LEMMA AheadStep == TInv /\ TInv' /\ Ahead /\ [Next]_vars => Ahead'
BY AheadDial, AheadRest DEF Next

(* The row is ahead of the pool by less than the number of its slots, or   *)
(* by what it was ahead at the start, whatever goroutines count at once,   *)
(* however old the copy that a callback writes over their increments, and  *)
(* whatever fails; and the final callback leaves the final counters        *)
(* (worker_pool.go:208-263; dialer.service.ts:289-297).                    *)
THEOREM CountersAgree == Spec => []CountersConverge
<1>1. TInv /\ Ahead => CountersConverge
  <2> SUFFICES ASSUME TInv, Ahead PROVE CountersConverge
    OBVIOUS
  <2>1. /\ Cardinality(Publishing) \in Nat /\ dbCount.dialed \in Nat
        /\ progress.dialed \in Nat /\ Lead \in Nat
    BY RoomAhead, DialedTyped, LeadTyped
  <2>2. dbCount.dialed <= progress.dialed + Lead
    BY <2>1 DEF Ahead
  <2>. QED  BY <2>2 DEF Ahead, CountersConverge, FinalSays
<1>. QED  BY <1>1, TypeInit, TypeStep, AheadInit, AheadStep, PTL DEF Spec

(* The calls placed, one by one, when one more is.                         *)
LEMMA PlacedMore ==
  ASSUME TInv, IsFiniteSet(CallsPlaced), NEW c \in Contacts,
         calls' = [calls EXCEPT ![c] = @ + 1]
  PROVE  IsFiniteSet(CallsPlaced') /\ Cardinality(CallsPlaced') = Cardinality(CallsPlaced) + 1
<1> DEFINE n == calls[c] + 1
<1>1. calls \in [Contacts -> Nat] /\ n \in Nat /\ 1..n = (1..calls[c]) \cup {n}
      /\ n \notin 1..calls[c]
  BY DEF TInv, TypeOK
<1>2. \A d \in Contacts : calls'[d] = IF d = c THEN n ELSE calls[d]
  BY <1>1
<1>. HIDE DEF n
<1>3. CallsPlaced' = CallsPlaced \cup {<<c, n>>}
  BY <1>1, <1>2 DEF CallsPlaced
<1>4. <<c, n>> \notin CallsPlaced
  BY <1>1 DEF CallsPlaced
<1>. QED  BY <1>3, <1>4, FS_AddElement

(* The contacts skipped, when one row at most is written.                  *)
LEMMA SkippedMoves ==
  ASSUME IsFiniteSet(Skipped), Queued' = Queued, Queued \subseteq Contacts,
         NEW c, \A d \in Contacts \ {c} : row'[d] = row[d]
  PROVE  /\ IsFiniteSet(Skipped') /\ Skipped' \ {c} = Skipped \ {c}
         /\ Cardinality(Skipped) \in Nat
         /\ Cardinality(Skipped') = Cardinality(Skipped) + Bit(c \in Skipped')
                                      - Bit(c \in Skipped)
<1>1. Skipped' \ {c} = Skipped \ {c}
  BY DEF Skipped
<1>2. /\ IsFiniteSet(Skipped \ {c})
      /\ Cardinality(Skipped \ {c})
           = IF c \in Skipped THEN Cardinality(Skipped) - 1 ELSE Cardinality(Skipped)
  BY FS_RemoveElement
<1>3. IsFiniteSet((Skipped' \ {c}) \cup {c})
  BY <1>1, <1>2, FS_AddElement
<1>4. Skipped' \subseteq (Skipped' \ {c}) \cup {c}
  OBVIOUS
<1>5. IsFiniteSet(Skipped')
  BY <1>3, <1>4, FS_Subset
<1>6. Cardinality(Skipped' \ {c})
        = IF c \in Skipped' THEN Cardinality(Skipped') - 1 ELSE Cardinality(Skipped')
  BY <1>5, FS_RemoveElement
<1>7. Cardinality(Skipped) \in Nat /\ Cardinality(Skipped') \in Nat
  BY <1>5, FS_CardinalityType
<1>8. Cardinality(Skipped' \ {c}) = Cardinality(Skipped \ {c})
  BY <1>1
<1>9. Cardinality(Skipped') = Cardinality(Skipped) + Bit(c \in Skipped') - Bit(c \in Skipped)
  BY <1>2, <1>6, <1>7, <1>8 DEF Bit
<1>. QED  BY <1>1, <1>5, <1>7, <1>9

(* The calls and the skips are countable, whatever fails; the total of the *)
(* tally is the number of dials, and what remains is exact.                *)
Countable ==
  /\ IsFiniteSet(CallsPlaced) /\ IsFiniteSet(Skipped)
  /\ progress.dialed = Total(progress.tally)
  /\ progress.dialed >= began.counts.dialed /\ RemainingExact
  /\ cancelled => halted

LEMMA CountableInit == Init => Countable /\ Skipped = {} /\ CallsPlaced = {} /\ Untallied = {}
<1> SUFFICES ASSUME Init PROVE Countable /\ Skipped = {} /\ CallsPlaced = {} /\ Untallied = {}
  OBVIOUS
<1>1. Skipped = {} /\ Untallied = {}
  BY ConstantsTyped DEF Init, Skipped, Queued, Untallied, Assumptions
<1>2. CallsPlaced = {}
  <2>1. \A c \in Contacts : calls[c] = 0 /\ 1..calls[c] = {}
    BY DEF Init
  <2>. QED  BY <2>1 DEF CallsPlaced
<1>3. /\ began \in Found /\ progress = InitProgress(began) /\ ~cancelled
  BY DEF Init
<1>4. /\ began.total \in Nat /\ began.counts.dialed \in Nat
      /\ began.counts.dialed = Total(began.counts.tally)
  BY <1>3, ConstantsTyped DEF Assumptions, Counters
<1>5. /\ progress.dialed = began.counts.dialed /\ progress.tally = began.counts.tally
      /\ progress.remaining = began.total - began.counts.dialed
  BY <1>3 DEF InitProgress
<1>6. RemainingExact
  BY <1>4, <1>5 DEF RemainingExact, Made
<1>. QED  BY <1>1, <1>2, <1>3, <1>4, <1>5, <1>6, FS_EmptySet DEF Countable

(* What one step of a goroutine does to the rows, the calls and the        *)
(* counters of the pool.                                                   *)
LEMMA DialWrites ==
  ASSUME TInv, NEW g \in Dials, DialOne(g)
  PROVE  /\ \A d \in Contacts \ {contact[g]} : row'[d] = row[d]
         /\ IF BeginCall(g) /\ ~(cancelled /\ CtxAware)
              THEN calls' = [calls EXCEPT ![contact[g]] = @ + 1]
              ELSE calls' = calls
         /\ IF Tally(g) THEN progress' = Advance(progress, outcome[g])
                        ELSE progress' = progress
<1>1. \A d \in Contacts \ {contact[g]} : row'[d] = row[d]
  BY DEF DialOne, GetContact, CheckDnc, SkipBlocked, BeginCall, EndCall, Tally,
     PublishCount, PublishCache, Notify, Requeue, Release, SavedRow, TInv, TypeOK
<1>2. IF BeginCall(g) /\ ~(cancelled /\ CtxAware)
        THEN calls' = [calls EXCEPT ![contact[g]] = @ + 1]
        ELSE calls' = calls
  BY DEF DialOne, GetContact, CheckDnc, SkipBlocked, BeginCall, EndCall, Tally,
     PublishCount, PublishCache, Notify, Requeue, Release
<1>3. IF Tally(g) THEN progress' = Advance(progress, outcome[g]) ELSE progress' = progress
  BY DEF DialOne, GetContact, CheckDnc, SkipBlocked, BeginCall, EndCall, Tally,
     PublishCount, PublishCache, Notify, Requeue, Release
<1>. QED  BY <1>1, <1>2, <1>3

LEMMA RestWrites ==
  ASSUME Loop \/ Control \/ HandleAstray \/ Tick \/ UNCHANGED vars
  PROVE  UNCHANGED <<row, calls, progress, outcome>>
BY DEF Loop, Start, LoopReturn, LoopPass, LoopTo, Dequeue, DequeueError, DequeueEmpty,
   Launch, AbandonHeld, Finish, FinishRecord, FinishReport, Control, Pause, Resume, Stop,
   HandleAstray, Tick, vars

LEMMA CountableStep == TInv /\ Countable /\ [Next]_vars => Countable'
<1> SUFFICES ASSUME TInv, Countable, [Next]_vars PROVE Countable'
  OBVIOUS
<1>1. cancelled' => halted'
  BY CancelledHalts DEF Countable
<1>2. ASSUME NEW g \in Dials, DialOne(g)
      PROVE  /\ IsFiniteSet(CallsPlaced') /\ IsFiniteSet(Skipped')
             /\ progress'.dialed = Total(progress'.tally)
             /\ progress'.dialed >= began'.counts.dialed /\ RemainingExact'
  <2>0. began' = began /\ Queued' = Queued /\ Queued \subseteq Contacts
    BY <1>2, BeganKept, BeganTyped
  <2>1. contact[g] \in Contacts
    BY <1>2, AtWork
  <2>2. IsFiniteSet(CallsPlaced')
    <3>1. CASE calls' = calls
      BY <3>1 DEF Countable, CallsPlaced
    <3>2. CASE calls' = [calls EXCEPT ![contact[g]] = @ + 1]
      BY <2>1, <3>2, PlacedMore DEF Countable
    <3>. QED  BY <1>2, <3>1, <3>2, DialWrites
  <2>3. IsFiniteSet(Skipped')
    BY <1>2, <2>0, DialWrites, SkippedMoves DEF Countable
  <2>4. progress'.dialed = Total(progress'.tally)
    <3>1. CASE Tally(g)
      <4>1. /\ progress' = Advance(progress, outcome[g]) /\ outcome[g] \in CallOutcome \cup {"dnc"}
            /\ progress.tally \in [CallOutcome -> Nat]
        BY <3>1 DEF Tally, At, TInv, TypeOK, Shape, Progress
      <4>. QED  BY <4>1, BumpIs DEF Advance, Countable
    <3>2. CASE ~Tally(g)
      BY <1>2, <3>2, DialWrites DEF Countable
    <3>. QED  BY <3>1, <3>2
  <2>5. progress'.dialed >= began'.counts.dialed /\ RemainingExact'
    <3> DEFINE first == began.total - began.counts.dialed
    <3>1. CASE Tally(g)
      <4>1. progress' = Advance(progress, outcome[g])
        BY <3>1 DEF Tally
      <4>2. /\ began.total \in Nat /\ began.counts.dialed \in Nat /\ first \in Int
            /\ progress.dialed \in Nat /\ progress.remaining \in Int
        <5>1. began.total \in Nat /\ began.counts \in Counters
          BY BeganTyped, ConstantsTyped DEF Assumptions
        <5>2. began.counts.dialed \in Nat
          BY <5>1 DEF Counters
        <5>. QED  BY <5>1, <5>2 DEF TInv, TypeOK, Progress
      <4>3. /\ progress'.dialed = progress.dialed + 1
            /\ progress'.remaining = IF progress.remaining > 0 THEN progress.remaining - 1
                                     ELSE progress.remaining
        BY <4>1 DEF Advance
      <4>4. /\ progress.dialed >= began.counts.dialed
            /\ progress.remaining = IF first <= 0 THEN first
                                    ELSE IF Made <= first THEN first - Made ELSE 0
        BY DEF Countable, RemainingExact
      <4>5. Made = progress.dialed - began.counts.dialed /\ Made' = Made + 1 /\ Made \in Nat
        BY <2>0, <4>2, <4>3, <4>4 DEF Made
      <4>6. first' = first
        BY <2>0
      <4>. HIDE DEF first
      <4>7. progress'.remaining = IF first <= 0 THEN first
                                  ELSE IF Made + 1 <= first THEN first - (Made + 1) ELSE 0
        BY <4>2, <4>3, <4>4, <4>5
      <4>8. progress'.dialed >= began'.counts.dialed
        BY <2>0, <4>2, <4>3, <4>4
      <4>. QED  BY <2>0, <4>5, <4>7, <4>8 DEF RemainingExact, first
    <3>2. CASE ~Tally(g)
      <4>1. progress' = progress
        BY <1>2, <3>2, DialWrites
      <4>. QED  BY <2>0, <4>1 DEF Countable, RemainingExact, Made
    <3>. QED  BY <3>1, <3>2
  <2>. QED  BY <2>2, <2>3, <2>4, <2>5
<1>3. CASE Loop \/ Control \/ HandleAstray \/ Tick \/ UNCHANGED vars
  <2>1. UNCHANGED <<row, calls, progress>> /\ began' = began /\ Queued' = Queued
    BY <1>3, RestWrites, BeganKept
  <2>. QED  BY <1>1, <2>1 DEF Countable, CallsPlaced, Skipped, Total, RemainingExact, Made
<1>. QED  BY <1>1, <1>2, <1>3 DEF Next, Countable

(* A step that skips nobody, puts nobody anywhere, and lets nobody who was *)
(* skipped be dialed.                                                      *)
LEMMA ApartKept ==
  ASSUME SetApart, Skipped' \subseteq Skipped, Skipped \subseteq Contacts,
         \A c \in Contacts : InQueue(c)' => InQueue(c),
         held' \in {held, None},
         \A h \in Dials : MayDial(h)' => MayDial(h) /\ contact'[h] = contact[h]
  PROVE  SetApart'
<1>1. None \notin Contacts
  BY NoneAssumption
<1>. QED  BY <1>1 DEF SetApart

(* Only a step that ends a goroutine, or a launch, changes who has what.   *)
LEMMA ContactStays ==
  ASSUME TInv, NEW g \in Dials, DialOne(g)
  PROVE  /\ \A h \in Dials : MayDial(h)' => contact'[h] = contact[h]
         /\ held' = held
         /\ \A h \in Dials \ {g} : MayDial(h)' <=> MayDial(h)
<1>1. held' = held
  BY DEF DialOne, GetContact, CheckDnc, SkipBlocked, BeginCall, EndCall, Tally,
     PublishCount, PublishCache, Notify, Requeue, Release
<1>2. contact' = contact \/ pc'[g] = "idle"
  BY DEF DialOne, GetContact, CheckDnc, SkipBlocked, BeginCall, EndCall, Tally,
     PublishCount, PublishCache, Notify, Requeue, Release, EndOf, Goto, TInv, TypeOK
<1>3. MayDial(g)' => contact'[g] = contact[g]
  BY <1>2 DEF MayDial
<1>4. \A h \in Dials \ {g} : pc'[h] = pc[h] /\ contact'[h] = contact[h] /\ outcome'[h] = outcome[h]
  BY OthersStill
<1>5. \A h \in Dials \ {g} : (MayDial(h)' <=> MayDial(h)) /\ contact'[h] = contact[h]
  BY <1>4 DEF MayDial
<1>. QED  BY <1>1, <1>3, <1>5

(* What each goroutine's step does to the skipped contacts, while nothing  *)
(* fails: it skips its own contact, dials it, or writes no row.            *)
LEMMA ApartDial ==
  ASSUME TInv, OnePlace, SetApart, ~cancelled, faults' = faults,
         NEW g \in Dials, DialOne(g), SkipBlocked(g) => contact[g] \in Queued
  PROVE  /\ SetApart'
         /\ ~SkipBlocked(g) => Skipped' = Skipped
         /\ SkipBlocked(g) => contact[g] \in Skipped' /\ contact[g] \notin Skipped
<1>1. \A ok \in BOOLEAN : Attempt(ok) => ok
  <2>1. faults \in Nat
    BY ConstantsTyped DEF TInv, TypeOK, Assumptions
  <2>. QED  BY <2>1 DEF Attempt
<1>2. /\ pc[g] # "idle" /\ contact[g] \in Contacts
      /\ row \in [Contacts -> [status : ContactStatus, attempts : Nat]]
      /\ pc \in [Dials -> WorkPc \cup {"idle", "release"}]
      /\ outcome \in [Dials -> ContactStatus] /\ queue \in Seq(Contacts)
      /\ tries[g] \in Nat
  BY AtWork DEF TInv, TypeOK
<1>3. /\ \A h \in Dials : MayDial(h)' => contact'[h] = contact[h]
      /\ held' = held
      /\ \A h \in Dials \ {g} : MayDial(h)' <=> MayDial(h)
  BY ContactStays
<1>0. began' = began /\ Queued' = Queued /\ Queued \subseteq Contacts /\ Skipped \subseteq Contacts
  BY BeganKept, BeganTyped DEF Skipped
<1>4. ASSUME SkipBlocked(g)
      PROVE  SetApart' /\ contact[g] \in Skipped' /\ contact[g] \notin Skipped
  <2> DEFINE c == contact[g]
  <2>1. /\ row' = [row EXCEPT ![c] = [status |-> "dnc", attempts |-> tries[g]]]
        /\ pc[g] = "skip" /\ pc'[g] = "tally" /\ outcome'[g] = "dnc"
        /\ UNCHANGED <<queue, held>>
    BY <1>1, <1>2, <1>4 DEF SkipBlocked, SavedRow, At, Goto
  <2>2. Skipped' = Skipped \cup {c}
    <3>1. row'[c].status = "dnc" /\ \A d \in Contacts \ {c} : row'[d] = row[d]
      BY <1>2, <2>1
    <3>. QED  BY <1>0, <1>2, <1>4, <3>1 DEF Skipped
  <2>3. MayDial(g) /\ ~MayDial(g)' /\ Working(g)
    BY <2>1 DEF MayDial, Working, WorkPc
  <2>4. c \notin Skipped
    BY <2>3 DEF SetApart
  <2>5. ~InQueue(c) /\ held # c
    <3>1. InHand(c) /\ c \in Contacts /\ c # None
      BY <1>2, <2>3, NoneAssumption DEF InHand
    <3>. HIDE DEF c
    <3>. QED  BY <3>1 DEF OnePlace
  <2>6. ASSUME NEW h \in Dials, MayDial(h)' PROVE contact'[h] \notin Skipped'
    <3>1. h # g /\ MayDial(h) /\ contact'[h] = contact[h]
      BY <1>3, <2>3, <2>6
    <3>2. Working(h) /\ contact[h] \notin Skipped
      BY <3>1 DEF MayDial, Working, WorkPc, SetApart
    <3>3. contact[h] # c
      BY <2>3, <3>1, <3>2 DEF OnePlace
    <3>. QED  BY <2>2, <3>1, <3>2, <3>3
  <2>7. ASSUME NEW d \in Skipped' PROVE ~InQueue(d)' /\ held' # d
    <3>1. ~InQueue(d) /\ held # d
      BY <2>2, <2>5 DEF SetApart
    <3>. QED  BY <2>1, <3>1 DEF InQueue
  <2>. QED  BY <2>2, <2>4, <2>6, <2>7 DEF SetApart
<1>5. ASSUME BeginCall(g) \/ EndCall(g) PROVE SetApart' /\ Skipped' = Skipped
  <2> DEFINE c == contact[g]
  <2>1. UNCHANGED <<queue, held>> /\ MayDial(g)
    BY <1>5 DEF BeginCall, EndCall, At, MayDial
  <2>2. Skipped' = Skipped
    <3>1. row'[c].status # "dnc" /\ \A d \in Contacts \ {c} : row'[d] = row[d]
      <4>1. CASE BeginCall(g)
        <5>1. row' = [row EXCEPT ![c] = [status |-> "dialing", attempts |-> tries[g] + 1]]
          BY <1>1, <4>1 DEF BeginCall, SavedRow
        <5>. QED  BY <1>2, <5>1
      <4>2. CASE EndCall(g)
        <5>1. PICK o \in Outcomes \cup {"failed"} :
                row' = [row EXCEPT ![c] = [status |-> o, attempts |-> tries[g] + 1]]
          BY <1>1, <4>2 DEF EndCall, SavedRow
        <5>2. o # "dnc"
          BY OutcomesAssumption DEF CallOutcome
        <5>. QED  BY <1>2, <5>1, <5>2
      <4>. QED  BY <1>5, <4>1, <4>2
    <3>2. c \notin Skipped
      BY <2>1 DEF SetApart
    <3>. QED  BY <1>0, <3>1, <3>2 DEF Skipped
  <2>3. \A d \in Contacts : InQueue(d)' => InQueue(d)
    BY <2>1 DEF InQueue
  <2>. QED  BY <1>0, <1>3, <2>1, <2>2, <2>3, ApartKept
<1>6. ASSUME Requeue(g) PROVE SetApart' /\ Skipped' = Skipped
  <2>1. Skipped' = Skipped /\ ~MayDial(g)'
    BY <1>0, <1>2, <1>6 DEF Requeue, Skipped, Goto, MayDial
  <2>2. CASE queue' = queue
    BY <1>0, <1>3, <2>1, <2>2, ApartKept DEF InQueue
  <2>3. CASE queue' # queue
    <3>1. queue' = Append(queue, contact[g]) /\ MayDial(g)
      BY <1>6, <2>3 DEF Requeue, ShouldRetry, At, MayDial
    <3>2. contact[g] \notin Skipped
      BY <3>1 DEF SetApart
    <3>3. \A d \in Contacts : InQueue(d)' => InQueue(d) \/ d = contact[g]
      <4>1. DOMAIN queue' = 1..(Len(queue) + 1) /\ DOMAIN queue = 1..Len(queue)
            /\ \A i \in 1..(Len(queue) + 1) :
                 queue'[i] = IF i <= Len(queue) THEN queue[i] ELSE contact[g]
        BY <1>2, <3>1
      <4>2. \A i \in DOMAIN queue' : i \in DOMAIN queue \/ queue'[i] = contact[g]
        BY <1>2, <4>1
      <4>3. \A i \in DOMAIN queue : queue'[i] = queue[i]
        BY <1>2, <4>1
      <4>. QED  BY <4>2, <4>3 DEF InQueue
    <3>4. Skipped \subseteq Contacts
      BY <1>0
    <3>. QED  BY <1>3, <2>1, <3>2, <3>3, <3>4 DEF SetApart
  <2>. QED  BY <2>1, <2>2, <2>3
<1>7. ASSUME ~SkipBlocked(g), ~BeginCall(g), ~EndCall(g), ~Requeue(g)
      PROVE  SetApart' /\ Skipped' = Skipped
  <2>1. UNCHANGED <<row, queue>>
    BY <1>7 DEF DialOne, GetContact, CheckDnc, Tally, PublishCount, PublishCache, Notify,
       Release
  <2>2. MayDial(g)' => MayDial(g)
    BY <1>2, <1>7 DEF DialOne, GetContact, CheckDnc, Tally, PublishCount, PublishCache, Notify,
       Release, EndOf, At, Goto, MayDial
  <2>3. Skipped' = Skipped /\ \A d \in Contacts : InQueue(d)' => InQueue(d)
    BY <1>0, <2>1 DEF Skipped, InQueue
  <2>. QED  BY <1>0, <1>3, <2>2, <2>3, ApartKept
<1>. QED  BY <1>4, <1>5, <1>6, <1>7

LEMMA ApartLoop ==
  ASSUME TInv, SetApart, ~cancelled, faults' = faults, Loop
  PROVE  SetApart' /\ Untallied' = Untallied
<1>1. ~AbandonHeld /\ ~DequeueError
  <2>1. faults \in Nat
    BY ConstantsTyped DEF TInv, TypeOK, Assumptions
  <2>. QED  BY <2>1 DEF AbandonHeld, DequeueError, Attempt
<1>2. Skipped \subseteq Contacts /\ Queued' = Queued
  BY BeganKept, BeganTyped DEF Skipped
<1>3. CASE Dequeue
  <2>1. /\ queue # <<>> /\ held' = Head(queue) /\ queue' = Tail(queue)
        /\ queue \in Seq(Contacts) /\ UNCHANGED <<pc, contact, outcome, row>>
    BY <1>3 DEF Dequeue, TInv, TypeOK
  <2>2. Skipped' = Skipped /\ Untallied' = Untallied /\ \A h \in Dials : MayDial(h)' <=> MayDial(h)
    BY <1>2, <2>1 DEF Skipped, Untallied, MayDial
  <2>3. InQueue(held')
    <3>1. 1 \in DOMAIN queue /\ queue[1] = held'
      BY <2>1
    <3>. QED  BY <3>1 DEF InQueue
  <2>4. \A d \in Contacts : InQueue(d)' => InQueue(d)
    <3>1. \A i \in DOMAIN queue' : i + 1 \in DOMAIN queue /\ queue'[i] = queue[i + 1]
      BY <2>1
    <3>. QED  BY <3>1 DEF InQueue
  <2>. QED  BY <1>2, <2>1, <2>2, <2>3, <2>4 DEF SetApart
<1>4. ASSUME NEW g \in Dials, Launch(g) PROVE SetApart' /\ Untallied' = Untallied
  <2>1. /\ held \in Contacts /\ held' = None /\ UNCHANGED <<queue, row, outcome>>
        /\ pc[g] = "idle" /\ pc'[g] = "get" /\ contact'[g] = held
        /\ \A h \in Dials \ {g} : pc'[h] = pc[h] /\ contact'[h] = contact[h]
    BY <1>4 DEF Launch, Goto, TInv, Shape, TypeOK
  <2>2. Skipped' = Skipped /\ Untallied' = Untallied
    BY <1>2, <2>1 DEF Skipped, Untallied
  <2>3. ASSUME NEW h \in Dials, MayDial(h)' PROVE contact'[h] \notin Skipped
    <3>1. CASE h = g  BY <2>1, <3>1 DEF SetApart
    <3>2. CASE h # g
      <4>1. MayDial(h)
        BY <2>1, <2>3, <3>2 DEF MayDial
      <4>. QED  BY <2>1, <3>2, <4>1 DEF SetApart
    <3>. QED  BY <3>1, <3>2
  <2>4. \A c \in Skipped : ~InQueue(c)' /\ held' # c
    BY <1>2, <2>1, NoneAssumption DEF SetApart, InQueue
  <2>. QED  BY <2>2, <2>3, <2>4 DEF SetApart
<1>5. CASE ~Dequeue /\ \A g \in Dials : ~Launch(g)
  <2>1. UNCHANGED <<queue, held, row, pc, contact, outcome>>
    BY <1>1, <1>5 DEF Loop, Start, LoopReturn, LoopPass, LoopTo, DequeueEmpty, Finish,
       FinishRecord, FinishReport
  <2>2. Skipped' = Skipped /\ Untallied' = Untallied /\ \A h \in Dials : MayDial(h)' <=> MayDial(h)
    BY <1>2, <2>1 DEF Skipped, Untallied, MayDial
  <2>3. \A d \in Contacts : InQueue(d)' => InQueue(d)
    BY <2>1 DEF InQueue
  <2>. QED  BY <1>2, <2>1, <2>2, <2>3, ApartKept
<1>. QED  BY <1>3, <1>4, <1>5

(* While nothing fails: the dials tallied and the dials not yet tallied    *)
(* are the calls placed and the contacts skipped.                          *)
Balance ==
  Made + Cardinality(Untallied) = Cardinality(CallsPlaced) + Cardinality(Skipped)

Balanced == Steady => SetApart /\ Balance

LEMMA BalanceDial ==
  ASSUME BInv, Countable, SetApart, Balance, ~cancelled, faults' = faults,
         NEW g \in Dials, DialOne(g)
  PROVE  SetApart' /\ Balance'
<1>1. /\ SetApart'
      /\ ~SkipBlocked(g) => Skipped' = Skipped
      /\ SkipBlocked(g) => contact[g] \in Skipped' /\ contact[g] \notin Skipped
  <2>1. SkipBlocked(g) => contact[g] \in Queued
    BY AtWork DEF SkipBlocked, At, BInv, OnlyQueued, InHand, Working, WorkPc
  <2>. QED  BY <2>1, ApartDial DEF BInv
<1>0. TInv /\ began' = began /\ Queued' = Queued /\ Queued \subseteq Contacts
  BY BeganKept, BeganTyped DEF BInv
<1>2. /\ Cardinality(Skipped) \in Nat
      /\ Cardinality(Skipped') = Cardinality(Skipped) + Bit(SkipBlocked(g))
  <2>1. /\ Cardinality(Skipped) \in Nat
        /\ Cardinality(Skipped') = Cardinality(Skipped) + Bit(contact[g] \in Skipped')
                                      - Bit(contact[g] \in Skipped)
    BY <1>0, DialWrites, SkippedMoves DEF Countable
  <2>2. CASE SkipBlocked(g)
    BY <1>1, <2>1, <2>2 DEF Bit
  <2>3. CASE ~SkipBlocked(g)
    BY <1>1, <2>1, <2>3 DEF Bit
  <2>. QED  BY <2>2, <2>3
<1>3. /\ Cardinality(CallsPlaced) \in Nat
      /\ Cardinality(CallsPlaced') = Cardinality(CallsPlaced) + Bit(BeginCall(g))
  <2>1. Cardinality(CallsPlaced) \in Nat
    BY FS_CardinalityType DEF Countable
  <2>2. CASE BeginCall(g)
    <3>1. contact[g] \in Contacts /\ calls' = [calls EXCEPT ![contact[g]] = @ + 1]
      BY <1>0, <2>2, AtWork, DialWrites
    <3>2. Cardinality(CallsPlaced') = Cardinality(CallsPlaced) + 1
      BY <1>0, <3>1, PlacedMore DEF Countable
    <3>. QED  BY <2>1, <2>2, <3>2 DEF Bit
  <2>3. CASE ~BeginCall(g)
    <3>1. calls' = calls
      BY <1>0, <2>3, DialWrites
    <3>2. CallsPlaced' = CallsPlaced
      BY <3>1 DEF CallsPlaced
    <3>. QED  BY <2>1, <2>3, <3>2 DEF Bit
  <2>. QED  BY <2>2, <2>3
<1>4. Made \in Int /\ Made' = Made + Bit(Tally(g))
  <2>1. progress.dialed \in Nat /\ began.counts.dialed \in Nat
    BY <1>0, LeadTyped DEF TInv, TypeOK, Progress
  <2>2. CASE Tally(g)
    <3>1. progress' = Advance(progress, outcome[g])
      BY <2>2 DEF Tally
    <3>2. progress'.dialed = progress.dialed + 1
      BY <3>1 DEF Advance
    <3>. QED  BY <1>0, <2>1, <2>2, <3>2 DEF Made, Bit
  <2>3. CASE ~Tally(g)
    BY <1>0, <2>1, <2>3, DialWrites DEF Made, Bit
  <2>. QED  BY <2>2, <2>3
<1>5. /\ Cardinality(Untallied) \in Nat
      /\ Cardinality(Untallied') = Cardinality(Untallied) + Bit(g \in Untallied')
                                     - Bit(g \in Untallied)
  <2>1. \A h \in Dials \ {g} : pc'[h] = pc[h]
    BY <1>0, OthersStill
  <2>2. Untallied \in SUBSET Dials /\ Untallied' \in SUBSET Dials
        /\ Untallied \ {g} = Untallied' \ {g}
    BY <2>1 DEF Untallied
  <2>. QED  BY <2>2, SetMoves
<1>6. Bit(g \in Untallied') - Bit(g \in Untallied)
        = Bit(BeginCall(g)) + Bit(SkipBlocked(g)) - Bit(Tally(g))
  <2>1. pc[g] \in WorkPc \cup {"idle", "release"} /\ pc'[g] \in WorkPc \cup {"idle", "release"}
        /\ pc \in [Dials -> WorkPc \cup {"idle", "release"}]
    BY <1>0 DEF TInv, TypeOK, DialOne, GetContact, CheckDnc, SkipBlocked, BeginCall, EndCall, Tally,
       PublishCount, PublishCache, Notify, Requeue, Release, EndOf, Goto, WorkPc
  <2>2. /\ g \in Untallied <=> pc[g] \in {"calling", "tally"}
        /\ g \in Untallied' <=> pc'[g] \in {"calling", "tally"}
    BY DEF Untallied
  <2>3. CASE BeginCall(g)
    <3>1. pc[g] = "begin" /\ pc'[g] = "calling" /\ ~SkipBlocked(g) /\ ~Tally(g)
      BY <2>1, <2>3 DEF BeginCall, SkipBlocked, Tally, At, Goto
    <3>2. g \notin Untallied /\ g \in Untallied'
      BY <2>2, <3>1
    <3>. QED  BY <2>3, <3>1, <3>2 DEF Bit
  <2>4. CASE SkipBlocked(g)
    <3>1. pc[g] = "skip" /\ pc'[g] = "tally" /\ ~BeginCall(g) /\ ~Tally(g)
      BY <2>1, <2>4 DEF BeginCall, SkipBlocked, Tally, At, Goto
    <3>2. g \notin Untallied /\ g \in Untallied'
      BY <2>2, <3>1
    <3>. QED  BY <2>4, <3>1, <3>2 DEF Bit
  <2>5. CASE Tally(g)
    <3>1. pc[g] = "tally" /\ pc'[g] = "publish" /\ ~SkipBlocked(g) /\ ~BeginCall(g)
      BY <2>1, <2>5 DEF BeginCall, SkipBlocked, Tally, At, Goto
    <3>2. g \in Untallied /\ g \notin Untallied'
      BY <2>2, <3>1
    <3>. QED  BY <2>5, <3>1, <3>2 DEF Bit
  <2>6. CASE ~BeginCall(g) /\ ~SkipBlocked(g) /\ ~Tally(g)
    <3>1. g \in Untallied' <=> g \in Untallied
      BY <2>1, <2>2, <2>6 DEF DialOne, GetContact, CheckDnc, EndCall, PublishCount, PublishCache,
         Notify, Requeue, Release, EndOf, At, Goto
    <3>. QED  BY <2>6, <3>1 DEF Bit
  <2>. QED  BY <2>3, <2>4, <2>5, <2>6
<1>7. Balance'
  <2>1. /\ Bit(BeginCall(g)) \in Nat /\ Bit(SkipBlocked(g)) \in Nat /\ Bit(Tally(g)) \in Nat
        /\ Bit(g \in Untallied') \in Nat /\ Bit(g \in Untallied) \in Nat
    BY DEF Bit
  <2>. HIDE DEF Bit
  <2>2. Made + Cardinality(Untallied) = Cardinality(CallsPlaced) + Cardinality(Skipped)
    BY DEF Balance
  <2>3. Made' + Cardinality(Untallied')
          = Cardinality(CallsPlaced') + Cardinality(Skipped')
    BY <1>2, <1>3, <1>4, <1>5, <1>6, <2>1, <2>2
  <2>. QED  BY <2>3 DEF Balance
<1>. QED  BY <1>1, <1>7

LEMMA BalanceStep == BInv /\ Countable /\ Balanced /\ [Next]_vars => Balanced'
<1> SUFFICES ASSUME BInv, Countable, Balanced, [Next]_vars, Steady'
             PROVE  SetApart' /\ Balance'
  BY DEF Balanced
<1>1. Steady /\ ~cancelled /\ faults = 0 /\ faults' = 0
  BY SteadyPast DEF Countable, BInv
<1>0. TInv /\ began' = began /\ Queued' = Queued
  BY BeganKept DEF BInv
<1>2. SetApart /\ Balance
  BY <1>1 DEF Balanced
<1>3. ASSUME NEW g \in Dials, DialOne(g) PROVE SetApart' /\ Balance'
  BY <1>1, <1>2, <1>3, BalanceDial
<1>4. CASE Loop
  <2>1. SetApart' /\ Untallied' = Untallied
    BY <1>0, <1>1, <1>2, <1>4, ApartLoop
  <2>2. UNCHANGED <<row, calls, progress>>
    BY <1>4, RestWrites
  <2>. QED  BY <1>0, <1>2, <2>1, <2>2 DEF Balance, CallsPlaced, Skipped, Made
<1>5. CASE Control \/ HandleAstray \/ Tick \/ UNCHANGED vars
  <2>1. ~Stop
    BY DEF Stop, Steady
  <2>2. UNCHANGED <<queue, held, row, pc, contact, outcome, calls, progress>>
    BY <1>5, <2>1 DEF Control, Pause, Resume, HandleAstray, Tick, vars
  <2>3. Skipped' = Skipped /\ Untallied' = Untallied /\ CallsPlaced' = CallsPlaced
    BY <1>0, <2>2 DEF Skipped, Untallied, CallsPlaced
  <2>4. Balance'
    BY <1>0, <1>2, <2>2, <2>3 DEF Balance, Made
  <2>5. SetApart'
    BY <1>2, <2>2, <2>3 DEF SetApart, MayDial, InQueue
  <2>. QED  BY <2>4, <2>5
<1>. QED  BY <1>3, <1>4, <1>5 DEF Next

(* Every call placed and every contact skipped is counted once, while      *)
(* nothing fails and nobody stops the campaign; and what remains is what   *)
(* the pool began with less its dials, in a pool that goes on from an      *)
(* earlier one too, for every number of contacts, goroutines and retries   *)
(* (worker_pool.go:68-75, 158-206 and 208-232).                            *)
THEOREM DialsCounted == Spec => []EveryDialCounted
<1>1. Init => Balanced
  <2> SUFFICES ASSUME Init PROVE SetApart /\ Balance
    BY DEF Balanced
  <2>1. Skipped = {} /\ CallsPlaced = {} /\ Untallied = {}
    BY CountableInit
  <2>2. Made = 0 /\ \A g \in Dials : pc[g] = "idle"
    <3>1. progress.dialed = began.counts.dialed /\ began.counts.dialed \in Nat
      BY TypeInit, LeadTyped DEF Init, InitProgress
    <3>. QED  BY <3>1 DEF Made, Init
  <2>3. Balance
    BY <2>1, <2>2, FS_EmptySet DEF Balance
  <2>. QED  BY <2>1, <2>2, <2>3 DEF SetApart, MayDial
<1>2. Init => BInv
  BY TypeInit, OnePlaceInit, OnlyQueuedInit, BudgetInit DEF BInv
<1>3. BInv /\ Countable /\ [Next]_vars => Countable'
  BY CountableStep DEF BInv
<1>4. Countable /\ Balanced => EveryDialCounted
  BY DEF Countable, Balanced, Steady, Balance, EveryDialCounted
<1>. QED
  BY <1>1, <1>2, <1>3, <1>4, BudgetStep, CountableInit, BalanceStep, PTL DEF Spec

-----------------------------------------------------------------------------
(* The refinement.                                                         *)
LEMMA PromiseInit == Init => Promise!Init
<1> SUFFICES ASSUME Init PROVE Promise!Init
  OBVIOUS
<1>1. TInv /\ Callees = {} /\ cancelled = FALSE /\ OnTheWay = {}
  BY TypeInit DEF Init, Callees, InCall, OnTheWay
<1>2. Cardinality(OnTheWay) = 0
  BY <1>1, FS_EmptySet
<1>3. [c \in Contacts |-> began.rows[c].attempts + calls[c]] \in [Contacts -> Nat]
  BY <1>1, BeganTyped DEF TInv, TypeOK
<1>. QED  BY <1>1, <1>2, <1>3 DEF Promise!Init

(* The requests in progress and those that may yet be made after a stop    *)
(* hold a slot each.                                                       *)
LEMMA PromiseRoom ==
  ASSUME TInv
  PROVE  /\ IsFiniteSet(Callees) /\ Cardinality(Callees) \in Nat
         /\ IsFiniteSet(OnTheWay) /\ Cardinality(OnTheWay) \in Nat
         /\ \A S \in SUBSET {g \in Dials : pc[g] \in {"dnc", "begin"}} :
              /\ IsFiniteSet(S) /\ Cardinality(S) \in Nat
              /\ Cardinality(Callees) + Cardinality(S) <= Concurrency
<1>1. IsFiniteSet(Slots) /\ Cardinality(Slots) = sem /\ sem \in 0..Concurrency /\ Concurrency \in Nat
  BY ConstantsTyped, ConcurrencyAssumption, FS_Subset
     DEF Slots, SlotsAccounted, Assumptions, TInv, TypeOK
<1>2. InCall \subseteq Slots
  BY DEF InCall, Slots
<1>3. IsFiniteSet(InCall)
  BY <1>1, <1>2, FS_Subset
<1>4. [h \in InCall |-> contact[h]] \in Surjection(InCall, Callees)
  BY DEF Surjection, Callees
<1>5. IsFiniteSet(Callees) /\ Cardinality(Callees) <= Cardinality(InCall)
  BY <1>3, <1>4, FS_Surjection
<1>6. Cardinality(Callees) \in Nat /\ Cardinality(InCall) \in Nat
  BY <1>3, <1>5, FS_CardinalityType
<1>7. ASSUME NEW S \in SUBSET {g \in Dials : pc[g] \in {"dnc", "begin"}}
      PROVE  /\ IsFiniteSet(S) /\ Cardinality(S) \in Nat
             /\ Cardinality(Callees) + Cardinality(S) <= Concurrency
  <2>1. S \subseteq Slots /\ InCall \cap S = {} /\ InCall \cup S \subseteq Slots
    BY <1>2 DEF Slots, InCall
  <2>2. IsFiniteSet(S) /\ Cardinality(S) \in Nat
    BY <1>1, <2>1, FS_Subset, FS_CardinalityType
  <2>3. Cardinality(InCall \cup S) = Cardinality(InCall) + Cardinality(S)
    BY <1>3, <2>1, <2>2, FS_Union, FS_EmptySet
  <2>4. Cardinality(InCall \cup S) <= sem
    BY <1>1, <2>1, FS_Subset
  <2>. QED  BY <1>1, <1>5, <1>6, <2>2, <2>3, <2>4
<1>8. OnTheWay \in SUBSET {g \in Dials : pc[g] \in {"dnc", "begin"}}
  BY DEF OnTheWay
<1>. QED  BY <1>5, <1>6, <1>7, <1>8

(* A step that neither begins nor ends a call, nor closes, is invisible.   *)
LEMMA PromiseSilent ==
  ASSUME InCall' = InCall, \A g \in InCall : contact'[g] = contact[g],
         calls' = calls, began' = began, cancelled' = cancelled, OnTheWay' = OnTheWay
  PROVE  [Promise!Next]_(Promise!vars)
<1>1. Callees' = Callees
  BY DEF Callees
<1>2. [c \in Contacts |-> began.rows[c].attempts + calls[c]]'
        = [c \in Contacts |-> began.rows[c].attempts + calls[c]]
  OBVIOUS
<1>3. Cardinality(OnTheWay)' = Cardinality(OnTheWay)
  OBVIOUS
<1>. QED  BY <1>1, <1>2, <1>3 DEF Promise!vars

LEMMA PromiseStep ==
  ASSUME BInv, [Next]_vars PROVE [Promise!Next]_(Promise!vars)
<1> DEFINE asked == [c \in Contacts |-> began.rows[c].attempts + calls[c]]
           grace == Cardinality(OnTheWay)
<1>0. /\ contact \in [Dials -> Contacts \cup {None}] /\ calls \in [Contacts -> Nat]
      /\ pc \in [Dials -> WorkPc \cup {"idle", "release"}]
      /\ outcome \in [Dials -> ContactStatus] /\ cancelled \in BOOLEAN
      /\ \A c \in Contacts : began.rows[c].attempts \in Nat
      /\ TInv /\ began' = began
  BY BeganTyped, BeganKept DEF BInv, TInv, TypeOK
<1>1. ASSUME NEW g \in Dials, NEW c \in Contacts, contact[g] = c,
             BeginCall(g), ~(cancelled /\ CtxAware)
      PROVE  Promise!Begin(c)
  <2>1. /\ pc[g] = "begin" /\ pc' = [pc EXCEPT ![g] = "calling"]
        /\ outcome' = [outcome EXCEPT ![g] = "dialing"]
        /\ calls' = [calls EXCEPT ![c] = @ + 1]
        /\ UNCHANGED <<contact, cancelled>>
        /\ contact[g] = c
    BY <1>1 DEF BeginCall, At, Goto
  <2>2. InCall' = InCall \cup {g}
    BY <1>0, <2>1 DEF InCall
  <2>3. Callees' = Callees \cup {c}
    BY <2>1, <2>2 DEF Callees
  <2>4. c \notin Callees
    BY <2>1 DEF Callees, InCall, BInv, OnePlace, Working, WorkPc
  <2>5. c \in Contacts /\ began.rows[c].attempts + calls[c] < RetryMax + 1 + MaxFaults
    <3>1. c \in Contacts /\ Fresh(c)
      BY <2>1 DEF BInv, TInv, Shape, Budgeted, DialBudget
    <3>2. /\ calls[c] \in Nat /\ row[c].attempts \in Nat /\ faults \in 0..MaxFaults
          /\ RetryMax \in Nat /\ MaxFaults \in Nat /\ began.rows[c].attempts \in Nat
      BY <1>0, <3>1, ConstantsTyped DEF BInv, TInv, TypeOK, Assumptions
    <3>. QED  BY <3>1, <3>2 DEF Fresh, Known
  <2>6. Cardinality(Callees) < Concurrency
    <3>1. {g} \in SUBSET {h \in Dials : pc[h] \in {"dnc", "begin"}} /\ Cardinality({g}) = 1
      BY <2>1, FS_Singleton
    <3>2. Cardinality(Callees) + Cardinality({g}) <= Concurrency
      BY <1>0, <3>1, PromiseRoom
    <3>. QED  BY <1>0, <3>1, <3>2, PromiseRoom, ConcurrencyAssumption
  <2>7. IF cancelled THEN grace > 0 /\ grace' = grace - 1 ELSE grace' = grace
    <3>1. CASE ~cancelled
      <4>1. OnTheWay' = OnTheWay
        BY <2>1, <3>1 DEF OnTheWay
      <4>. QED  BY <3>1, <4>1
    <3>2. CASE cancelled
      <4>1. ~CtxAware
        BY <1>1, <3>2
      <4>2. g \in OnTheWay /\ OnTheWay' = OnTheWay \ {g}
        BY <1>0, <2>1, <3>2, <4>1 DEF OnTheWay
      <4>3. IsFiniteSet(OnTheWay) /\ grace \in Nat
        BY <1>0, PromiseRoom
      <4>4. Cardinality(OnTheWay \ {g}) = grace - 1 /\ Cardinality(OnTheWay \ {g}) \in Nat
        BY <4>2, <4>3, FS_RemoveElement, FS_CardinalityType
      <4>5. grace > 0
        BY <4>3, <4>4
      <4>. QED  BY <3>2, <4>2, <4>4, <4>5
    <3>. QED  BY <1>0, <3>1, <3>2
  <2>8. asked' = [asked EXCEPT ![c] = @ + 1] /\ asked[c] = began.rows[c].attempts + calls[c]
    <3>1. \A d \in Contacts : asked'[d] = began.rows[d].attempts + calls'[d]
      BY <1>0
    <3>2. \A d \in Contacts : calls'[d] = IF d = c THEN calls[c] + 1 ELSE calls[d]
      BY <1>0, <2>1, <2>5
    <3>3. \A d \in Contacts : asked'[d] = IF d = c THEN asked[c] + 1 ELSE asked[d]
      BY <1>0, <2>5, <3>1, <3>2
    <3>4. asked' = [d \in Contacts |-> asked'[d]]
      OBVIOUS
    <3>5. asked = [d \in Contacts |-> asked[d]]
      OBVIOUS
    <3>. QED  BY <2>5, <3>3, <3>4, <3>5
  <2>. HIDE DEF asked, grace
  <2>9. /\ cancelled => grace > 0
        /\ c \notin Callees /\ Cardinality(Callees) < Concurrency
        /\ asked[c] < RetryMax + 1 + MaxFaults
        /\ Callees' = Callees \cup {c} /\ asked' = [asked EXCEPT ![c] = @ + 1]
        /\ grace' = IF cancelled THEN grace - 1 ELSE grace
        /\ cancelled' = cancelled
    BY <2>1, <2>3, <2>4, <2>5, <2>6, <2>7, <2>8
  <2>. QED
    BY <2>9 DEF Promise!Begin, Promise!Cardinality, Cardinality, asked, grace
<1>2. ASSUME NEW g \in Dials, EndCall(g), g \in InCall PROVE Promise!End(contact[g])
  <2>1. /\ pc[g] = "calling" /\ pc' = [pc EXCEPT ![g] = "tally"]
        /\ UNCHANGED <<contact, calls, cancelled>>
        /\ \A h \in Dials \ {g} : outcome'[h] = outcome[h]
    BY <1>0, <1>2 DEF EndCall, Goto, At
  <2>2. InCall' = InCall \ {g}
    BY <1>0, <2>1 DEF InCall
  <2>3. \A h \in InCall \ {g} : contact[h] # contact[g]
    BY <1>2 DEF InCall, BInv, OnePlace, Working, WorkPc
  <2>4. Callees' = Callees \ {contact[g]} /\ contact[g] \in Callees
    BY <1>2, <2>1, <2>2, <2>3 DEF Callees
  <2>5. OnTheWay' = OnTheWay
    BY <1>0, <2>1 DEF OnTheWay
  <2>6. asked' = asked /\ grace' = grace
    BY <1>0, <2>1, <2>5
  <2>. QED  BY <2>1, <2>4, <2>6 DEF Promise!End
<1>3. ASSUME NEW g \in Dials, DialOne(g), ~(BeginCall(g) /\ ~(cancelled /\ CtxAware)),
             ~(EndCall(g) /\ g \in InCall)
      PROVE  [Promise!Next]_(Promise!vars)
  <2>1. /\ calls' = calls /\ cancelled' = cancelled
        /\ \A h \in Dials \ {g} :
             pc'[h] = pc[h] /\ contact'[h] = contact[h] /\ outcome'[h] = outcome[h]
    <3>1. calls' = calls
      BY <1>0, <1>3, DialWrites
    <3>2. cancelled' = cancelled
      BY <1>3 DEF DialOne, GetContact, CheckDnc, SkipBlocked, BeginCall, EndCall, Tally,
         PublishCount, PublishCache, Notify, Requeue, Release
    <3>. QED  BY <1>0, <1>3, <3>1, <3>2, OthersStill
  <2>2. g \notin InCall /\ g \notin InCall'
    BY <1>0, <1>3 DEF DialOne, GetContact, CheckDnc, SkipBlocked, BeginCall, EndCall, Tally,
         PublishCount, PublishCache, Notify, Requeue, Release, EndOf, Goto, At, InCall
  <2>3. InCall' = InCall
    BY <2>1, <2>2 DEF InCall
  <2>4. \A h \in InCall : contact'[h] = contact[h]
    BY <2>1, <2>2 DEF InCall
  <2>5. OnTheWay' = OnTheWay
    <3>1. CASE ~cancelled \/ CtxAware
      BY <2>1, <3>1 DEF OnTheWay
    <3>2. CASE cancelled /\ ~CtxAware
      <4>1. ~BeginCall(g)
        BY <1>3, <3>2
      <4>2. \A ok \in BOOLEAN : Attempt(ok) => ~ok
        BY <3>2 DEF Attempt
      <4>3. pc[g] \in {"dnc", "begin"} <=> pc'[g] \in {"dnc", "begin"}
        BY <1>0, <1>3, <4>1, <4>2 DEF DialOne, GetContact, CheckDnc, SkipBlocked, EndCall, Tally,
           PublishCount, PublishCache, Notify, Requeue, Release, EndOf, Goto, At
      <4>. QED  BY <2>1, <4>3 DEF OnTheWay
    <3>. QED  BY <1>0, <3>1, <3>2
  <2>. QED  BY <1>0, <2>1, <2>3, <2>4, <2>5, PromiseSilent
<1>4. ASSUME NEW g \in Dials, Launch(g) PROVE [Promise!Next]_(Promise!vars)
  <2>1. /\ pc[g] = "idle" /\ pc' = [pc EXCEPT ![g] = "get"]
        /\ contact' = [contact EXCEPT ![g] = held]
        /\ UNCHANGED <<calls, cancelled, outcome>>
    BY <1>4 DEF Launch, Goto
  <2>2. InCall' = InCall /\ \A h \in InCall : contact'[h] = contact[h]
    BY <1>0, <2>1 DEF InCall
  <2>3. OnTheWay' = OnTheWay
    BY <1>0, <2>1 DEF OnTheWay
  <2>. QED  BY <1>0, <2>1, <2>2, <2>3, PromiseSilent
<1>5. CASE (Loop /\ \A g \in Dials : ~Launch(g)) \/ Control \/ HandleAstray \/ Tick \/ UNCHANGED vars
  <2>1. UNCHANGED <<pc, contact, outcome, calls>>
    BY <1>5 DEF Loop, Start, LoopReturn, LoopPass, LoopTo, Dequeue, DequeueError,
         DequeueEmpty, AbandonHeld, Finish, FinishRecord, FinishReport,
         Control, Pause, Resume, Stop, HandleAstray, Tick, vars
  <2>2. cancelled' \in BOOLEAN /\ (cancelled => cancelled')
    BY TypeStep, NothingForgotten DEF BInv, TInv, TypeOK
  <2>3. InCall' = InCall /\ \A g \in InCall : contact'[g] = contact[g]
    BY <2>1 DEF InCall
  <2>4. CASE cancelled' = cancelled
    <3>1. OnTheWay' = OnTheWay
      BY <2>1, <2>4 DEF OnTheWay
    <3>. QED  BY <1>0, <2>1, <2>3, <2>4, <3>1, PromiseSilent
  <2>5. CASE ~cancelled /\ cancelled' = TRUE
    <3> DEFINE way == {g \in Dials : pc[g] \in {"dnc", "begin"}}
    <3>1. OnTheWay' = IF CtxAware THEN {} ELSE way
      BY <2>1, <2>5 DEF OnTheWay
    <3>2. /\ Cardinality(way) \in Nat /\ Cardinality(Callees) \in Nat
          /\ Cardinality(Callees) + Cardinality(way) <= Concurrency
      BY <1>0, PromiseRoom
    <3>3. Cardinality({}) = 0 /\ Concurrency \in Nat
      BY FS_EmptySet, ConcurrencyAssumption
    <3>. HIDE DEF way
    <3>4. grace' \in 0..(IF CtxAware THEN 0 ELSE Concurrency - Cardinality(Callees))
      BY <3>1, <3>2, <3>3
    <3>5. Callees' = Callees /\ asked' = asked
      BY <1>0, <2>1, <2>3 DEF Callees
    <3>. HIDE DEF asked, grace
    <3>6. Promise!Close
      BY <2>5, <3>4, <3>5 DEF Promise!Close, Promise!Cardinality, Cardinality, asked, grace
    <3>. QED  BY <3>6 DEF Promise!Next
  <2>. QED  BY <1>0, <2>2, <2>4, <2>5
<1>6. ASSUME NEW g \in Dials, BeginCall(g) \/ EndCall(g) PROVE contact[g] \in Contacts
  BY <1>6 DEF BeginCall, EndCall, At, BInv, TInv, Shape
<1>7. ASSUME NEW g \in Dials, DialOne(g) PROVE [Promise!Next]_(Promise!vars)
  <2>1. ASSUME BeginCall(g), ~(cancelled /\ CtxAware) PROVE Promise!Next
    <3>1. PICK c \in Contacts : contact[g] = c
      BY <1>6, <2>1
    <3>. QED  BY <1>1, <2>1, <3>1 DEF Promise!Next
  <2>2. ASSUME EndCall(g), g \in InCall PROVE Promise!Next
    BY <1>2, <1>6, <2>2 DEF Promise!Next
  <2>. QED  BY <1>3, <1>7, <2>1, <2>2
<1>. QED  BY <1>4, <1>5, <1>7 DEF Next

(* The pool implements DialPromise for every size of pool and campaign,    *)
(* with a client that heeds its context, for which no request is made      *)
(* after a stop, and with one that does not (worker_pool.go:79-206 and     *)
(* 287-302, telnyx_client.go:59-143, twilio_client.go:39-89).              *)
THEOREM Refinement == Spec => KeepsPromise
<1>1. Init => BInv
  BY TypeInit, OnePlaceInit, OnlyQueuedInit, BudgetInit DEF BInv
<1>2. BInv /\ [Next]_vars => [Promise!Next]_(Promise!vars)
  BY PromiseStep
<1>. QED  BY <1>1, <1>2, PromiseInit, BudgetStep, PTL DEF Spec, KeepsPromise, Promise!Spec
=============================================================================
