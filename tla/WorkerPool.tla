----------------------------- MODULE WorkerPool -----------------------------
(***************************************************************************)
(* The worker pool that dials one campaign: the loop that takes contact    *)
(* ids from the Redis list (Start), the goroutine it launches per contact  *)
(* (dialOne, updateProgress), the end of a campaign (finish), and the      *)
(* calls of the API that pause, resume and stop the pool.                  *)
(*                                                                         *)
(* One step of the model is the code between two points where another      *)
(* goroutine can be seen to act: a lock, a channel, Redis, PostgreSQL, or  *)
(* the telephone provider. A contact is a member of Contacts.              *)
(***************************************************************************)
EXTENDS CampaignRules, Sequences, FiniteSets

CONSTANTS
  Contacts,     (* the contacts of the campaign                             *)
  Found,        (* what a new pool may find in PostgreSQL and Redis         *)
  Dials,        (* identities of goroutines that run dialOne                *)
  Concurrency,  (* capacity of the semaphore, the size of the pool          *)
  RetryMax,     (* campaign.RetryMax                                        *)
  Blocked,      (* contacts whose number is on the do-not-call list         *)
  Outcomes,     (* what the provider may answer, classified                 *)
  CtxAware,     (* does provider.Call give up when its context is cancelled?*)
  Window,       (* calling hours, NoWindow when the campaign has none       *)
  Day,          (* minutes in a day                                         *)
  ReportEvery,  (* a progress callback is sent every that many dials        *)
  MaxFaults,    (* bound: calls to Redis, PostgreSQL or NestJS that fail    *)
  None

(* domain.CampaignProgress, with one tally per counter of the struct. What *)
(* remains is the number of contacts less the number of dials, and retries *)
(* are dials too: it may be negative.                                      *)
Counters == [dialed : Nat, tally : [CallOutcome -> Nat]]
Progress == [dialed : Nat, tally : [CallOutcome -> Nat], remaining : Int]

Total(tally) == tally["answered"] + tally["failed"] + tally["busy"] + tally["no-answer"]

IsInjectiveSeq(s) == \A i, j \in DOMAIN s : s[i] = s[j] => i = j

ASSUME ConcurrencyAssumption == Concurrency \in 1..10
ASSUME DialsAssumption == IsFiniteSet(Dials)
ASSUME RetryAssumption == RetryMax \in Nat
ASSUME OutcomesAssumption == Outcomes \subseteq CallOutcome

(* CreateAndStart makes a pool whose counters are zero, whatever the row   *)
(* has from an earlier start; ResumeCampaign makes one that goes on from   *)
(* the row. A queued contact has attempts left: only such a one is ever    *)
(* put in the queue.                                                       *)
ASSUME FoundAssumption ==
  \A f \in Found :
    /\ f.counts \in Counters /\ f.counts.dialed = Total(f.counts.tally)
    /\ f.stored \in Counters /\ f.total \in Nat /\ f.status \in CampaignStatus
    /\ f.rows \in [Contacts -> [status : ContactStatus, attempts : Nat]]
    /\ f.queue \in Seq(Contacts) /\ IsInjectiveSeq(f.queue)
    /\ \A i \in DOMAIN f.queue : /\ f.rows[f.queue[i]].attempts <= RetryMax
                                  /\ f.rows[f.queue[i]].status # "dnc"
ASSUME NoneAssumption == None \notin Contacts
ASSUME BoundsAssumption ==
  MaxFaults \in Nat /\ Day \in Nat \ {0} /\ ReportEvery \in Nat \ {0}
ASSUME FlagsAssumption == CtxAware \in BOOLEAN /\ Blocked \subseteq Contacts

VARIABLES
  state,      (* wp.state                                                   *)
  cancelled,  (* wp.ctx is cancelled                                        *)
  loop,       (* where the loop of Start is                                 *)
  held,       (* the contact id the loop has dequeued and not launched      *)
  sem,        (* slots taken from wp.semaphore                              *)
  pc,         (* where each goroutine of dialOne is, "idle" if it is not    *)
  contact,    (* its contact                                                *)
  tries,      (* its contact.Attempts                                       *)
  outcome,    (* its status                                                 *)
  snap,       (* its copy of the counters, currProgress                     *)
  progress,   (* wp.progress                                                *)
  dialCount,  (* wp.dialCount                                               *)
  queue,      (* Redis: the list of contact ids, next to dial first         *)
  redisProg,  (* Redis: the progress hash                                   *)
  row,        (* PostgreSQL: status and attempts of each contact            *)
  dbCount,    (* PostgreSQL: the campaign's counters                        *)
  dbStatus,   (* PostgreSQL: the campaign's status                          *)
  reported,   (* the last callback NestJS handled                           *)
  astray,     (* callbacks the pool gave up waiting for, not yet handled    *)
  now,        (* minutes since midnight, in the campaign's time zone        *)
  faults,     (* calls that failed so far, bounded by MaxFaults             *)
  began,      (* history: what the pool found when it was made              *)
  calls,      (* history: requests to call each contact, made by this pool  *)
  late,       (* history: dials launched since the campaign was last closed *)
  halted      (* history: has Stop been called?                             *)

locals   == <<contact, tries, outcome, snap>>
memory   == <<state, cancelled, loop, held, sem, pc, locals, progress, dialCount>>
external == <<queue, redisProg, row, dbCount, dbStatus, reported, astray>>
history  == <<began, calls, late, halted>>
vars     == <<memory, external, now, faults, history>>

-----------------------------------------------------------------------------
ZeroTally == [o \in CallOutcome |-> 0]
NoProgress == [dialed |-> 0, tally |-> ZeroTally, remaining |-> 0]

(* NewWorkerPool: the counters of the campaign it was given, and what they *)
(* leave of its contacts.                                                  *)
InitProgress(f) ==
  [dialed    |-> f.counts.dialed,
   tally     |-> f.counts.tally,
   remaining |-> f.total - f.counts.dialed]

(* updateProgress counts a contact skipped for "dnc" as failed.            *)
Counter(status) == IF status = "dnc" THEN "failed" ELSE status

Bump(tally, status) == [tally EXCEPT ![Counter(status)] = @ + 1]

Count(c, status) == [dialed |-> c.dialed + 1, tally |-> Bump(c.tally, status)]

(* Fault: remaining is decremented for retries too, below zero.            *)
AdvanceUnchecked(p, status) ==
  [dialed |-> p.dialed + 1, tally |-> Bump(p.tally, status), remaining |-> p.remaining - 1]

Advance(p, status) ==
  [dialed    |-> p.dialed + 1,
   tally     |-> Bump(p.tally, status),
   remaining |-> IF p.remaining > 0 THEN p.remaining - 1 ELSE p.remaining]

CountersOf(p) == [dialed |-> p.dialed, tally |-> p.tally]

IsOpen == state = "running" /\ IsWithinCallingHours(Window, now)

(* A call that takes wp.ctx fails once the context is cancelled; any call  *)
(* to another process may fail. The code ignores or logs those errors.     *)
Attempt(ok) ==
  /\ ok => ~cancelled
  /\ ~ok => cancelled \/ faults < MaxFaults
  /\ faults' = IF ok \/ cancelled THEN faults ELSE faults + 1

(* The same for a call made with context.Background().                     *)
AttemptDetached(ok) ==
  /\ ~ok => faults < MaxFaults
  /\ faults' = IF ok THEN faults ELSE faults + 1

-----------------------------------------------------------------------------
Init ==
  /\ state = "running" /\ cancelled = FALSE /\ loop = "start" /\ held = None
  /\ sem = 0 /\ pc = [g \in Dials |-> "idle"]
  /\ contact = [g \in Dials |-> None] /\ tries = [g \in Dials |-> 0]
  /\ outcome = [g \in Dials |-> "pending"] /\ snap = [g \in Dials |-> NoProgress]
  /\ began \in Found
  /\ progress = InitProgress(began) /\ dialCount = 0
  /\ queue = began.queue /\ redisProg = NoProgress
  /\ row = began.rows /\ dbCount = began.stored /\ dbStatus = began.status
  /\ reported = [progress |-> NoProgress, final |-> FALSE] /\ astray = {}
  /\ now \in 0..(Day - 1) /\ faults = 0
  /\ calls = [c \in Contacts |-> 0] /\ late = 0 /\ halted = FALSE

-----------------------------------------------------------------------------
At(g, place) == pc[g] = place
Goto(g, place) == pc' = [pc EXCEPT ![g] = place]

(* Start: a fresh context, and the state is set to running whatever it was.*)
Start ==
  /\ loop = "start"
  /\ loop' = "check"
  /\ cancelled' = FALSE
  /\ state' = "running"
  /\ UNCHANGED <<held, sem, pc, locals, progress, dialCount, external, now, faults, history>>

(* A step of the loop that changes nothing else.                           *)
LoopTo(place) ==
  /\ loop' = place
  /\ UNCHANGED <<state, cancelled, held, sem, pc, locals, progress, dialCount,
                 external, now, faults, history>>

(* The top of the loop. While the campaign is paused or outside calling    *)
(* hours the loop sleeps and looks again, which changes nothing.           *)
(* Fault: the loop does not look at its context.                           *)
LoopReturnDeaf ==
  /\ loop = "check"
  /\ state = "completed"
  /\ LoopTo("done")

LoopReturn ==
  /\ loop = "check"
  /\ cancelled \/ state \in {"stopped", "completed"}
  /\ LoopTo("done")

(* Fault: neither the state nor the window is looked at.                   *)
LoopPassUnchecked ==
  /\ loop = "check"
  /\ ~cancelled
  /\ LoopTo("dequeue")

LoopPass ==
  /\ loop = "check"
  /\ ~cancelled /\ IsOpen
  /\ LoopTo("dequeue")

(* Fault: the element is read and stays in the list.                       *)
DequeuePeek ==
  /\ loop = "dequeue"
  /\ queue # <<>>
  /\ held' = Head(queue)
  /\ loop' = "acquire"
  /\ UNCHANGED <<state, cancelled, sem, pc, locals, progress, dialCount, external,
                 now, faults, history>>

(* BRPOP returns an element. It does so even after Stop when the command   *)
(* was already waiting: the client does not watch the context meanwhile.   *)
Dequeue ==
  /\ loop = "dequeue"
  /\ queue # <<>>
  /\ held' = Head(queue)
  /\ queue' = Tail(queue)
  /\ loop' = "acquire"
  /\ UNCHANGED <<state, cancelled, sem, pc, locals, progress, dialCount, redisProg,
                 row, dbCount, dbStatus, reported, astray, now, faults, history>>

(* BRPOP fails; when it was the reply that was lost, the element is gone.  *)
DequeueError ==
  /\ loop = "dequeue"
  /\ Attempt(FALSE)
  /\ \/ queue # <<>> /\ ~cancelled /\ queue' = Tail(queue)
     \/ UNCHANGED queue
  /\ loop' = IF cancelled THEN "done" ELSE "check"
  /\ UNCHANGED <<state, cancelled, held, sem, pc, locals, progress, dialCount,
                 redisProg, row, dbCount, dbStatus, reported, astray, now, history>>

(* BRPOP times out: the loop goes on to wait for the dials in flight.      *)
DequeueEmpty ==
  /\ loop = "dequeue"
  /\ queue = <<>>
  /\ LoopTo("drain")

(* The select that takes a slot of the semaphore and launches dialOne.     *)
Launch(g) ==
  /\ loop = "acquire"
  /\ sem < Concurrency
  /\ pc[g] = "idle"
  /\ sem' = sem + 1
  /\ Goto(g, "get")
  /\ contact' = [contact EXCEPT ![g] = held]
  /\ held' = None
  /\ loop' = "check"
  /\ late' = IF IsOpen THEN late ELSE late + 1
  /\ UNCHANGED <<state, cancelled, tries, outcome, snap, progress, dialCount,
                 external, now, faults, began, calls, halted>>

(* Fault: the loop gives up the contact when no slot is free.              *)
AbandonHeldWhenFull ==
  /\ loop = "acquire"
  /\ cancelled \/ sem = Concurrency
  /\ held' = None
  /\ loop' = IF cancelled THEN "done" ELSE "check"
  /\ UNCHANGED <<state, cancelled, sem, pc, locals, progress, dialCount, external,
                 now, faults, history>>

(* The other arm of the select: the contact the loop holds is dropped.     *)
AbandonHeld ==
  /\ loop = "acquire"
  /\ cancelled
  /\ held' = None
  /\ loop' = "done"
  /\ UNCHANGED <<state, cancelled, sem, pc, locals, progress, dialCount, external,
                 now, faults, history>>

(* Fault: finish does not wait for the goroutines.                         *)
FinishUnwaited ==
  /\ loop = "drain"
  /\ state' = "completed"
  /\ loop' = "record"
  /\ UNCHANGED <<cancelled, held, sem, pc, locals, progress, dialCount, external,
                 now, faults, history>>

(* wg.Wait returns and finish sets the state, with no regard to what it is.*)
Finish ==
  /\ loop = "drain"
  /\ \A g \in Dials : pc[g] = "idle"
  /\ state' = "completed"
  /\ loop' = "record"
  /\ UNCHANGED <<cancelled, held, sem, pc, locals, progress, dialCount, external,
                 now, faults, history>>

(* NestJS handles a callback: it overwrites the counters of the row the    *)
(* pool increments, and completes the campaign when nothing remains.       *)
Handle(p, final) ==
  /\ reported' = [progress |-> p, final |-> final]
  /\ dbCount' = CountersOf(p)
  /\ dbStatus' = IF p.remaining = 0 THEN "completed" ELSE dbStatus

(* A callback arrives, or fails; when it is the caller that gave up after  *)
(* ten seconds, it may yet be handled.                                     *)
Callback(ok, p, final) ==
  \/ ok /\ Handle(p, final) /\ UNCHANGED astray
  \/ /\ ~ok /\ UNCHANGED <<reported, dbCount, dbStatus>>
     /\ astray' \in {astray, astray \cup {[progress |-> p, final |-> final]}}

(* The rest of finish: the status in PostgreSQL, then the callback, whose  *)
(* remaining is zero. Both take wp.ctx, and fail when it is cancelled.     *)
FinishRecord ==
  /\ loop = "record"
  /\ \E ok \in BOOLEAN :
       /\ Attempt(ok)
       /\ dbStatus' = IF ok THEN "completed" ELSE dbStatus
  /\ loop' = "report"
  /\ UNCHANGED <<state, cancelled, held, sem, pc, locals, progress, dialCount, queue,
                 redisProg, row, dbCount, reported, astray, now, history>>

FinishReport ==
  /\ loop = "report"
  /\ \E ok \in BOOLEAN :
       /\ Attempt(ok) /\ Callback(ok, [progress EXCEPT !.remaining = 0], TRUE)
       /\ cancelled => astray' = astray
  /\ loop' = "done"
  /\ UNCHANGED <<state, cancelled, held, sem, pc, locals, progress, dialCount, queue,
                 redisProg, row, now, history>>

(* NestJS comes round to a callback its caller no longer waits for.        *)
HandleAstray ==
  \E m \in astray :
    /\ Handle(m.progress, m.final)
    /\ astray' = astray \ {m}
    /\ UNCHANGED <<memory, queue, redisProg, row, now, faults, history>>

-----------------------------------------------------------------------------
(* dialOne, one contact in one goroutine.                                  *)
Local == <<state, cancelled, loop, held, sem>>
OtherData == <<queue, redisProg, dbCount, dbStatus, reported, astray>>

(* contactRepo.UpdateStatus, whose error nobody looks at.                  *)
SavedRow(g, ok, status, attempts) ==
  IF ok THEN [row EXCEPT ![contact[g]] = [status |-> status, attempts |-> attempts]]
  ELSE row

(* Fault: the lookup is not bound to the context of the pool.              *)
GetContactDetached(g) ==
  /\ At(g, "get")
  /\ \E ok \in BOOLEAN :
       /\ AttemptDetached(ok)
       /\ \/ ok /\ Goto(g, "dnc") /\ tries' = [tries EXCEPT ![g] = row[contact[g]].attempts]
          \/ ~ok /\ Goto(g, "release") /\ UNCHANGED tries
  /\ UNCHANGED <<Local, contact, outcome, snap, progress, dialCount, external, now, history>>

(* contactRepo.GetByID; on an error the goroutine just returns.            *)
GetContact(g) ==
  /\ At(g, "get")
  /\ \E ok \in BOOLEAN :
       /\ Attempt(ok)
       /\ \/ ok /\ Goto(g, "dnc") /\ tries' = [tries EXCEPT ![g] = row[contact[g]].attempts]
          \/ ~ok /\ Goto(g, "release") /\ UNCHANGED tries
  /\ UNCHANGED <<Local, contact, outcome, snap, progress, dialCount, external, now, history>>

(* The do-not-call check. A lookup that fails lets the call go ahead.      *)
CheckDnc(g) ==
  /\ At(g, "dnc")
  /\ \E ok \in BOOLEAN :
       /\ Attempt(ok)
       /\ Goto(g, IF ok /\ contact[g] \in Blocked THEN "skip" ELSE "begin")
  /\ UNCHANGED <<Local, locals, progress, dialCount, external, now, history>>

(* Fault: the return after a blocked contact is missing.                   *)
SkipBlockedFallsThrough(g) ==
  /\ At(g, "skip")
  /\ \E ok \in BOOLEAN :
       /\ Attempt(ok)
       /\ row' = SavedRow(g, ok, "dnc", tries[g])
  /\ Goto(g, "begin")
  /\ UNCHANGED <<Local, locals, progress, dialCount, OtherData, now, history>>

SkipBlocked(g) ==
  /\ At(g, "skip")
  /\ \E ok \in BOOLEAN :
       /\ Attempt(ok)
       /\ row' = SavedRow(g, ok, "dnc", tries[g])
  /\ Goto(g, "tally")
  /\ outcome' = [outcome EXCEPT ![g] = "dnc"]
  /\ UNCHANGED <<Local, contact, tries, snap, progress, dialCount, OtherData, now, history>>

(* The row is marked dialing and the provider is asked for the call. A     *)
(* client that heeds the context asks for none once the campaign has been  *)
(* stopped.                                                                *)
BeginCall(g) ==
  LET placed == ~(cancelled /\ CtxAware)
  IN  /\ At(g, "begin")
      /\ \E ok \in BOOLEAN :
           /\ Attempt(ok)
           /\ row' = SavedRow(g, ok, "dialing", tries[g] + 1)
      /\ calls' = IF placed THEN [calls EXCEPT ![contact[g]] = @ + 1] ELSE calls
      /\ Goto(g, "calling")
      /\ outcome' = [outcome EXCEPT ![g] = IF placed THEN "dialing" ELSE "failed"]
      /\ UNCHANGED <<Local, contact, tries, snap, progress, dialCount, OtherData, now,
                     began, late, halted>>

(* Fault: the provider's status is stored as it comes, unclassified.       *)
EndCallUnclassified(g) ==
  /\ At(g, "calling")
  /\ \E ok \in BOOLEAN, status \in Outcomes \cup {"queued"} :
       /\ Attempt(ok)
       /\ row' = SavedRow(g, ok, status, tries[g] + 1)
       /\ outcome' = [outcome EXCEPT ![g] = status]
  /\ Goto(g, "tally")
  /\ tries' = [tries EXCEPT ![g] = @ + 1]
  /\ UNCHANGED <<Local, contact, snap, progress, dialCount, OtherData, now, history>>

(* The provider answers the request, which is not the end of the call it   *)
(* has placed, or Call returns an error, which counts as failed; the row   *)
(* gets the outcome.                                                       *)
EndCall(g) ==
  /\ At(g, "calling")
  /\ \E ok \in BOOLEAN, status \in Outcomes \cup {"failed"} :
       /\ outcome[g] = "failed" => status = "failed"
       /\ Attempt(ok)
       /\ row' = SavedRow(g, ok, status, tries[g] + 1)
       /\ outcome' = [outcome EXCEPT ![g] = status]
  /\ Goto(g, "tally")
  /\ tries' = [tries EXCEPT ![g] = @ + 1]
  /\ UNCHANGED <<Local, contact, snap, progress, dialCount, OtherData, now, history>>

(* updateProgress, under progMu: count, and copy the counters.             *)
Tally(g) ==
  /\ At(g, "tally")
  /\ progress' = Advance(progress, outcome[g])
  /\ snap' = [snap EXCEPT ![g] = progress']
  /\ Goto(g, "publish")
  /\ UNCHANGED <<Local, contact, tries, outcome, dialCount, external, now, faults, history>>

(* updateProgress, after the lock: the row's counters are incremented, the *)
(* hash in Redis is overwritten with the copy.                             *)
PublishCount(g) ==
  /\ At(g, "publish")
  /\ \E ok \in BOOLEAN :
       /\ AttemptDetached(ok)
       /\ dbCount' = IF ok THEN Count(dbCount, outcome[g]) ELSE dbCount
  /\ Goto(g, "cache")
  /\ UNCHANGED <<Local, locals, progress, dialCount, queue, redisProg, row, dbStatus,
                 reported, astray, now, history>>

PublishCache(g) ==
  /\ At(g, "cache")
  /\ \E ok \in BOOLEAN :
       /\ AttemptDetached(ok)
       /\ redisProg' = IF ok THEN snap[g] ELSE redisProg
  /\ Goto(g, "notify")
  /\ UNCHANGED <<Local, locals, progress, dialCount, queue, row, dbCount, dbStatus,
                 reported, astray, now, history>>

(* The callback goes out every ReportEvery dials and when none remains.    *)
Notify(g) ==
  /\ At(g, "notify")
  /\ dialCount' = dialCount + 1
  /\ IF dialCount' % ReportEvery = 0 \/ snap[g].remaining = 0
       THEN \E ok \in BOOLEAN : AttemptDetached(ok) /\ Callback(ok, snap[g], FALSE)
       ELSE UNCHANGED <<reported, dbCount, dbStatus, astray, faults>>
  /\ Goto(g, "retry")
  /\ UNCHANGED <<Local, locals, progress, queue, redisProg, row, now, history>>

(* The contact goes back to the queue when it is to be dialed again.       *)
Requeue(g) ==
  /\ At(g, "retry")
  /\ IF ShouldRetry(outcome[g], tries[g], RetryMax)
       THEN \E ok \in BOOLEAN :
              /\ Attempt(ok)
              /\ queue' = IF ok THEN Append(queue, contact[g]) ELSE queue
       ELSE UNCHANGED <<queue, faults>>
  /\ Goto(g, "release")
  /\ UNCHANGED <<Local, locals, progress, dialCount, redisProg, row, dbCount, dbStatus,
                 reported, astray, now, history>>

(* The goroutine is gone, and nothing is left of its variables.            *)
EndOf(g) ==
  /\ Goto(g, "idle")
  /\ contact' = [contact EXCEPT ![g] = None]
  /\ tries' = [tries EXCEPT ![g] = 0]
  /\ outcome' = [outcome EXCEPT ![g] = "pending"]
  /\ snap' = [snap EXCEPT ![g] = NoProgress]

(* Fault: the goroutine ends and keeps its slot.                           *)
ReleaseWithoutSlot(g) ==
  /\ At(g, "release")
  /\ EndOf(g)
  /\ UNCHANGED <<Local, progress, dialCount, external, now, faults, history>>

(* The deferred functions: the slot, then the wait group.                  *)
Release(g) ==
  /\ At(g, "release")
  /\ sem' = sem - 1
  /\ EndOf(g)
  /\ UNCHANGED <<state, cancelled, loop, held, progress, dialCount, external,
                 now, faults, history>>

DialOne(g) ==
  \/ GetContact(g) \/ CheckDnc(g) \/ SkipBlocked(g) \/ BeginCall(g) \/ EndCall(g)
  \/ Tally(g) \/ PublishCount(g) \/ PublishCache(g) \/ Notify(g)
  \/ Requeue(g) \/ Release(g)

-----------------------------------------------------------------------------
(* Pause, Resume and Stop hold wp.mu from the check of the transition to   *)
(* the last write.                                                         *)
SaveStatus(status) ==
  \E ok \in BOOLEAN :
    /\ AttemptDetached(ok)
    /\ dbStatus' = IF ok THEN status ELSE dbStatus

Pause ==
  /\ CanTransition(state, "paused")
  /\ state' = "paused"
  /\ SaveStatus("paused")
  /\ late' = IF IsOpen THEN 0 ELSE late
  /\ UNCHANGED <<cancelled, loop, held, sem, pc, locals, progress, dialCount, queue,
                 redisProg, row, dbCount, reported, astray, now, began, calls, halted>>

Resume ==
  /\ CanTransition(state, "running")
  /\ state' = "running"
  /\ SaveStatus("running")
  /\ UNCHANGED <<cancelled, loop, held, sem, pc, locals, progress, dialCount, queue,
                 redisProg, row, dbCount, reported, astray, now, history>>

(* Before Start has run there is no context to cancel.                     *)
Stop ==
  /\ CanTransition(state, "stopped")
  /\ state' = "stopped"
  /\ cancelled' = (loop # "start")
  /\ \E saved, cleared \in BOOLEAN :
       /\ faults' = faults + (IF saved THEN 0 ELSE 1) + (IF cleared THEN 0 ELSE 1)
       /\ faults' <= MaxFaults
       /\ dbStatus' = IF saved THEN "stopped" ELSE dbStatus
       /\ queue' = IF cleared THEN <<>> ELSE queue
  /\ late' = IF IsOpen THEN 0 ELSE late
  /\ halted' = TRUE
  /\ UNCHANGED <<loop, held, sem, pc, locals, progress, dialCount, redisProg, row,
                 dbCount, reported, astray, now, began, calls>>

(* The clock. The campaign closes when the window ends.                    *)
Tick ==
  /\ now' = (now + 1) % Day
  /\ late' = IF IsOpen /\ ~IsWithinCallingHours(Window, now') THEN 0 ELSE late
  /\ UNCHANGED <<memory, external, faults, began, calls, halted>>

-----------------------------------------------------------------------------
Loop ==
  \/ Start \/ LoopReturn \/ LoopPass \/ Dequeue \/ DequeueError \/ DequeueEmpty
  \/ (\E g \in Dials : Launch(g)) \/ AbandonHeld
  \/ Finish \/ FinishRecord \/ FinishReport

Control == Pause \/ Resume \/ Stop

Next == Loop \/ (\E g \in Dials : DialOne(g)) \/ Control \/ HandleAstray \/ Tick

Spec == Init /\ [][Next]_vars

(* The loop and every goroutine keep running, and the loop wakes from its  *)
(* sleep (one second, or thirty) at least once in every minute of the      *)
(* window. Nobody is obliged to pause, resume or stop a campaign.          *)
Fairness ==
  /\ SF_vars(Loop)
  /\ \A g \in Dials : WF_vars(DialOne(g))
  /\ WF_vars(Tick)

FairSpec == Spec /\ Fairness
-----------------------------------------------------------------------------
WorkPc == {"get", "dnc", "skip", "begin", "calling", "tally", "publish", "cache",
           "notify", "retry"}

Working(g) == pc[g] \in WorkPc

InQueue(c) == \E i \in DOMAIN queue : queue[i] = c

InHand(c) == \E g \in Dials : Working(g) /\ contact[g] = c

IsSettled(c) ==
  /\ row[c].status \in CallOutcome \cup {"dnc"}
  /\ ~ShouldRetry(row[c].status, row[c].attempts, RetryMax)

Quiet == \A g \in Dials : pc[g] \in {"idle", "release"}

(* The requests to the provider, each with its number among those for its  *)
(* contact; the contacts this pool skipped; and the dials not yet tallied. *)
CallsPlaced == UNION {{c} \X (1..calls[c]) : c \in Contacts}
Queued == {c \in Contacts : \E i \in DOMAIN began.queue : began.queue[i] = c}
Skipped == {c \in Queued : row[c].status = "dnc"}
Untallied == {g \in Dials : pc[g] \in {"calling", "tally"}}

(* The dials this pool has tallied.                                        *)
Made == progress.dialed - began.counts.dialed

-----------------------------------------------------------------------------
TypeOK ==
  /\ state \in CampaignStatus
  /\ cancelled \in BOOLEAN
  /\ loop \in {"start", "check", "dequeue", "acquire", "drain", "record", "report", "done"}
  /\ held \in Contacts \cup {None}
  /\ sem \in 0..Concurrency
  /\ pc \in [Dials -> WorkPc \cup {"idle", "release"}]
  /\ contact \in [Dials -> Contacts \cup {None}]
  /\ tries \in [Dials -> Nat]
  /\ outcome \in [Dials -> ContactStatus]
  /\ snap \in [Dials -> Progress]
  /\ progress \in Progress
  /\ dialCount \in Nat
  /\ queue \in Seq(Contacts)
  /\ redisProg \in Progress
  /\ row \in [Contacts -> [status : ContactStatus, attempts : Nat]]
  /\ dbCount \in Counters
  /\ dbStatus \in CampaignStatus
  /\ reported \in [progress : Progress, final : BOOLEAN]
  /\ astray \subseteq [progress : Progress, final : BOOLEAN]
  /\ began \in Found
  /\ now \in 0..(Day - 1)
  /\ faults \in 0..MaxFaults
  /\ calls \in [Contacts -> Nat]
  /\ late \in Nat
  /\ halted \in BOOLEAN

(* The semaphore counts the goroutines that have not released their slot,  *)
(* so that no more than Concurrency of them are at work at once            *)
(* (worker_pool.go:136-154). The calls they ask for are not bounded by it: *)
(* the clients return when the provider has created the call.              *)
SlotsAccounted == sem = Cardinality({g \in Dials : pc[g] # "idle"})

(* A contact is in one place: the queue, the loop's hand or one goroutine. *)
(* Two calls to the same person never overlap, although a goroutine puts   *)
(* its contact back before it has let go of its slot.                      *)
OnePlace ==
  /\ IsInjectiveSeq(queue)
  /\ held # None => ~InQueue(held) /\ ~InHand(held)
  /\ \A c \in Contacts : InQueue(c) => ~InHand(c)
  /\ \A g, h \in Dials : Working(g) /\ Working(h) /\ g # h
                           => contact[g] # contact[h]

(* However often a contact is put back, by this pool or by one before it,  *)
(* its calls number at most one more than RetryMax, except that each write *)
(* of attempts that is lost lets one more call through, since the count is *)
(* read back from the row.                                                 *)
AttemptBudget ==
  \A c \in Queued : began.rows[c].attempts + calls[c] <= RetryMax + 1 + faults

(* A number on the do-not-call list is not called, as long as the lookup   *)
(* works and the provider heeds a cancelled context (FR-PD-11;             *)
(* worker_pool.go:162-169).                                                *)
BlockedNotCalled ==
  faults = 0 /\ CtxAware => \A c \in Blocked : calls[c] = 0

(* While nothing fails and nobody stops the campaign, no contact is lost   *)
(* between Redis, the loop, the goroutines and its final row.              *)
NothingLost ==
  faults = 0 /\ ~halted =>
    \A c \in Queued : InQueue(c) \/ held = c \/ InHand(c) \/ IsSettled(c)

(* Every call asked for, and every contact skipped, is counted once: the   *)
(* counters of the pool, which go on from those it was made with, lag      *)
(* behind by exactly the dials not yet tallied. What remains goes down by  *)
(* one a dial, whether the dial is a contact's first or a retry: to zero,  *)
(* or not at all in a pool that began below it (worker_pool.go:68-75,      *)
(* 208-214).                                                               *)
RemainingExact ==
  LET first == began.total - began.counts.dialed
  IN  progress.remaining = IF first <= 0 THEN first
                           ELSE IF Made <= first THEN first - Made ELSE 0

EveryDialCounted ==
  /\ RemainingExact
  /\ faults = 0 /\ ~halted =>
       /\ progress.dialed = Total(progress.tally)
       /\ Made + Cardinality(Untallied) = Cardinality(CallsPlaced) + Cardinality(Skipped)

(* Two writers share the counters of the row: each goroutine adds its dial *)
(* to them, and each callback overwrites them with a copy that may be old  *)
(* by then. Whatever the order, and whatever fails, the row is ahead of    *)
(* the pool by less than the size of the pool, or by what it was ahead at  *)
(* the start; and after the last callback of all has been handled the row  *)
(* has the final counters (worker_pool.go:231-243, 254-260;                *)
(* dialer.service.ts:289-297). The copy in Redis is one the pool has been  *)
(* through, and may stay old for good.                                     *)
Lead ==
  LET initial == began.stored.dialed - began.counts.dialed
  IN  IF initial >= Concurrency THEN initial ELSE Concurrency - 1

CountersConverge ==
  /\ dbCount.dialed <= progress.dialed + Lead
  /\ redisProg.dialed <= progress.dialed
  /\ reported.final => /\ dbCount = CountersOf(progress)
                       /\ CountersOf(reported.progress) = dbCount

(* After a pause, a stop or the end of the calling window, at most the one *)
(* contact that the loop had already let past its checks is still dialed.  *)
AtMostOneLate == late <= 1

(* Stopping takes effect: the loop ends and every goroutine gives back its *)
(* slot, whatever they were doing when the context was cancelled.          *)
StopEnds == cancelled ~> (loop = "done" /\ \A g \in Dials : pc[g] = "idle")

(* A campaign that is not left paused for ever, and whose window opens     *)
(* every day, comes to an end.                                             *)
CampaignEnds == <>[](state # "paused") => <>(loop = "done")

(* The requests in progress; and, of a pool that was stopped while its     *)
(* client does not heed the context, those already on their way.           *)
InCall == {g \in Dials : pc[g] = "calling" /\ outcome[g] = "dialing"}
Callees == {contact[g] : g \in InCall}
OnTheWay == IF cancelled /\ ~CtxAware THEN {g \in Dials : pc[g] \in {"dnc", "begin"}} ELSE {}

Promise == INSTANCE DialPromise
  WITH Limit  <- Concurrency,
       Budget <- RetryMax + 1 + MaxFaults,
       Heeds  <- CtxAware,
       asking <- Callees,
       asked  <- [c \in Contacts |-> began.rows[c].attempts + calls[c]],
       closed <- cancelled,
       grace  <- Cardinality(OnTheWay)

(* The requests to the provider that are in progress at once, those for    *)
(* one contact, and those after a stop are bounded as DialPromise says     *)
(* (worker_pool.go:136-206). A lost write of attempts is worth one more.   *)
KeepsPromise == Promise!Spec

-----------------------------------------------------------------------------
(* The strengthening that makes the invariants above inductive.            *)

(* The loop holds a contact exactly while it waits for a slot; a goroutine *)
(* at work has a contact, and a countable outcome when it counts.          *)
Shape ==
  /\ loop = "acquire" <=> held # None
  /\ loop = "start" => ~cancelled
  /\ \A g \in Dials :
       /\ pc[g] # "idle" => contact[g] \in Contacts
       /\ pc[g] \in {"tally", "publish"} => outcome[g] \in CallOutcome \cup {"dnc"}

(* A contact about to be dialed has attempts left, and its row knows of    *)
(* all its calls but those whose write was lost.                           *)
Known(c, attempts) == began.rows[c].attempts + calls[c] <= attempts + faults

Fresh(c) == row[c].attempts <= RetryMax /\ Known(c, row[c].attempts)

DialBudget(g) ==
  LET c == contact[g]
      a == tries[g]
  IN  /\ At(g, "get") => Fresh(c)
      /\ pc[g] \in {"dnc", "skip", "begin"} => row[c].attempts = a /\ Fresh(c)
      /\ At(g, "calling") => row[c].attempts <= a + 1 /\ a <= RetryMax
      /\ pc[g] \in {"tally", "publish", "cache", "notify", "retry"}
           => row[c].attempts <= a
      /\ pc[g] \in {"calling", "tally", "publish", "cache", "notify", "retry"}
           => cancelled \/ Known(c, row[c].attempts)

(* The pool dials nobody but those it found in the queue.                  *)
OnlyQueued == \A c \in Contacts : InQueue(c) \/ held = c \/ InHand(c) => c \in Queued

Budgeted ==
  /\ \A c \in Contacts : InQueue(c) \/ held = c => Fresh(c)
  /\ \A g \in Dials : DialBudget(g)

(* A loop that has passed its checks launches one late dial at most.       *)
LateBound == late <= 1 /\ (loop \in {"dequeue", "acquire"} /\ ~IsOpen => late = 0)

(* The row leads the pool by less than its size even when the increments   *)
(* under way are added to it, and so does a copy that may yet overwrite    *)
(* it; a copy is never ahead of the pool. Once finish has its turn no      *)
(* goroutine is left, and a final callback carries the final counters.     *)
Publishing == {g \in Dials : At(g, "publish")}

AllIdle == \A g \in Dials : pc[g] = "idle"

FinalSays(m) ==
  m.final => loop = "done" /\ AllIdle /\ CountersOf(m.progress) = CountersOf(progress)

Ahead ==
  /\ dbCount.dialed + Cardinality(Publishing) <= progress.dialed + Lead
  /\ \A m \in astray :
       m.progress.dialed + Cardinality(Publishing) <= progress.dialed + Concurrency - 1
  /\ \A g \in Dials : snap[g].dialed <= progress.dialed
  /\ redisProg.dialed <= progress.dialed
  /\ loop \in {"record", "report"} => AllIdle
  /\ \A m \in astray \cup {reported} : FinalSays(m)
  /\ reported.final => dbCount = CountersOf(progress)

(* A contact that may yet be dialed, now or again, is not one that was     *)
(* skipped, so that none is counted both ways.                             *)
MayDial(g) ==
  \/ pc[g] \in {"get", "dnc", "skip", "begin", "calling"}
  \/ pc[g] \in {"tally", "publish", "cache", "notify", "retry"} /\ outcome[g] # "dnc"

SetApart ==
  /\ \A c \in Skipped : ~InQueue(c) /\ held # c
  /\ \A g \in Dials : MayDial(g) => contact[g] \notin Skipped

Apart == faults = 0 /\ ~halted => SetApart

IInv == TypeOK /\ Shape /\ SlotsAccounted /\ OnePlace /\ OnlyQueued /\ Budgeted
          /\ AttemptBudget /\ LateBound /\ RemainingExact /\ Ahead /\ Apart /\ (cancelled => halted)
          /\ progress.dialed = Total(progress.tally)

-----------------------------------------------------------------------------
(* What the documents say and the code does not do: a run shows the        *)
(* behaviour that breaks it.                                               *)

(* A stopped campaign stays stopped (API.md: "Cannot be restarted.").      *)
StoppedIsFinal == [][state = "stopped" => state' = "stopped"]_vars
=============================================================================
