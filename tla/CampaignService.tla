-------------------------- MODULE CampaignService --------------------------
(***************************************************************************)
(* The service around the pools of one campaign: the map from campaign to  *)
(* pool, the requests that create, pause, resume and stop the campaign,    *)
(* and what is left of it when the process ends and starts again.          *)
(*                                                                         *)
(* Requests run beside each other and beside the pools. They find a pool   *)
(* under the lock of the map and use it after the lock is released, and    *)
(* nothing but the map forbids two pools on one campaign. A pool is that   *)
(* of WorkerPool at a coarser grain, without clock and counters.           *)
(***************************************************************************)
EXTENDS CampaignRules, Sequences, FiniteSets, SequencesExt

CONSTANTS
  Contacts,     (* contacts of the campaign                                 *)
  Batches,      (* the contacts a creation may carry, in order              *)
  Uploaded,     (* contacts NestJS inserted with the row, if it did         *)
  Pools,        (* identities of pools in memory                            *)
  Dials,        (* identities of goroutines that run dialOne                *)
  Requests,     (* identities of HTTP requests under way                    *)
  Concurrency,  (* size of a pool                                           *)
  RetryMax,     (* campaign.RetryMax                                        *)
  Outcomes,     (* what the provider may answer                             *)
  HasHours,     (* was the campaign given calling hours?                    *)
  MaxRequests,  (* bound: requests to pause, resume or stop                 *)
  MaxCrashes,   (* bound: restarts of the process                           *)
  MaxFaults,    (* bound: calls to Redis or PostgreSQL that fail            *)
  None

ASSUME ContactsAssumption == IsFiniteSet(Contacts) /\ Uploaded \subseteq Contacts
ASSUME BatchesAssumption ==
  /\ Batches \in Seq(SUBSET Contacts)
  /\ \A i, j \in DOMAIN Batches : i # j => Batches[i] \cap Batches[j] = {}
ASSUME SizesAssumption == Concurrency \in 1..10 /\ RetryMax \in Nat
ASSUME LimitsAssumption == MaxRequests \in Nat /\ MaxCrashes \in Nat /\ MaxFaults \in Nat
ASSUME OutcomesAssumption == Outcomes \subseteq CallOutcome /\ HasHours \in BOOLEAN
ASSUME NoneAssumption == None \notin Contacts \cup Pools

VARIABLES
  registry,   (* s.pools[id], None when the map has no entry                *)
  at,         (* where each request is, "idle" when there is none           *)
  target,     (* the pool a request found in the map                        *)
  ids,        (* contactIDs of a creation                                   *)
  hours,      (* does the campaign struct of a request have its hours?      *)
  state,      (* wp.state                                                   *)
  loop,       (* where the loop of the pool is, "unused" before it is made  *)
  cancelled,  (* wp.ctx is cancelled                                        *)
  hand,       (* the contact the loop has dequeued                          *)
  timed,      (* does wp.campaign have its calling hours?                   *)
  pc,         (* where each goroutine of dialOne is                         *)
  owner,      (* its pool                                                   *)
  contact,    (* its contact                                                *)
  tries,      (* its contact.Attempts                                       *)
  outcome,    (* its status                                                 *)
  queue,      (* Redis: the list of contact ids                             *)
  row,        (* PostgreSQL: the contacts, "absent" before they are there   *)
  dbStatus,   (* PostgreSQL: the campaign's status, "absent" likewise       *)
  dbHours,    (* PostgreSQL: are the calling hours in the row?              *)
  creates, asked, crashes, faults,  (* events so far, each with its bound   *)
  orderly,    (* history: one request at a time, the only creation first    *)
  halted,     (* history: has the campaign been stopped?                    *)
  pushed,     (* history: contacts that a creation has put in the queue     *)
  calls,      (* history: calls placed to each contact                      *)
  dropped     (* history: contacts in flight when the process ended         *)

api     == <<registry, at, target, ids, hours>>
pools   == <<state, loop, cancelled, hand, timed>>
dials   == <<pc, owner, contact, tries, outcome>>
stored  == <<queue, row, dbStatus, dbHours>>
history == <<creates, asked, crashes, faults, orderly, halted, pushed, calls, dropped>>
vars    == <<api, pools, dials, stored, history>>

-----------------------------------------------------------------------------
(* A call to Redis or PostgreSQL.                                          *)
Attempt(ok) ==
  /\ ~ok => faults < MaxFaults
  /\ faults' = IF ok THEN faults ELSE faults + 1

(* The same with the context of pool p.                                    *)
AttemptOf(p, ok) ==
  /\ ok => ~cancelled[p]
  /\ ~ok => cancelled[p] \/ faults < MaxFaults
  /\ faults' = IF ok \/ cancelled[p] THEN faults ELSE faults + 1

(* UPDATE campaigns ... WHERE id = $1, which does nothing without a row.   *)
Saved(ok, status) == IF ok /\ dbStatus # "absent" THEN status ELSE dbStatus

Unborn == [status |-> "absent", attempts |-> 0]
Pending == [status |-> "pending", attempts |-> 0]

(* The memory of a process that has just started.                          *)
NoRequests == [r \in Requests |-> "idle"]
Nobody(S) == [x \in S |-> None]
Never(S) == [x \in S |-> FALSE]

(* The row may be there already, with its contacts, inserted by NestJS.    *)
Init ==
  /\ registry = None /\ at = NoRequests /\ target = Nobody(Requests)
  /\ ids = [r \in Requests |-> {}] /\ hours = Never(Requests)
  /\ state = [p \in Pools |-> "running"] /\ loop = [p \in Pools |-> "unused"]
  /\ cancelled = Never(Pools) /\ hand = Nobody(Pools) /\ timed = Never(Pools)
  /\ pc = [g \in Dials |-> "idle"] /\ owner = Nobody(Dials)
  /\ contact = Nobody(Dials) /\ tries = [g \in Dials |-> 0]
  /\ outcome = [g \in Dials |-> "pending"]
  /\ queue = <<>>
  /\ \/ /\ dbStatus = "absent" /\ dbHours = FALSE
        /\ row = [c \in Contacts |-> Unborn]
     \/ /\ Uploaded # {}
        /\ dbStatus = "draft" /\ dbHours = HasHours
        /\ row = [c \in Contacts |-> IF c \in Uploaded THEN Pending ELSE Unborn]
  /\ creates = 0 /\ asked = 0 /\ crashes = 0 /\ faults = 0
  /\ orderly = TRUE /\ halted = FALSE /\ pushed = {}
  /\ calls = [c \in Contacts |-> 0] /\ dropped = {}

-----------------------------------------------------------------------------
(* The requests.                                                           *)
Goto(r, place) == at' = [at EXCEPT ![r] = place]

Alone(r) == \A s \in Requests \ {r} : at[s] = "idle"

(* The request is over, with or without an error.                          *)
Return(r) ==
  /\ Goto(r, "idle")
  /\ target' = [target EXCEPT ![r] = None]
  /\ ids' = [ids EXCEPT ![r] = {}]
  /\ hours' = [hours EXCEPT ![r] = FALSE]

Proceed(r, place) == Goto(r, place) /\ UNCHANGED <<target, ids, hours>>

(* POST /campaigns, with contacts or without: those it carries get fresh   *)
(* ids.                                                                    *)
AskCreate(r) ==
  /\ at[r] = "idle"
  /\ creates < Len(Batches)
  /\ creates' = creates + 1
  /\ Goto(r, "look")
  /\ \E batch \in {Batches[creates + 1], {}} :
       /\ \A c \in batch : row[c] = Unborn
       /\ ids' = [ids EXCEPT ![r] = batch]
  /\ hours' = [hours EXCEPT ![r] = HasHours]
  /\ orderly' = (orderly /\ Alone(r) /\ creates = 0)
  /\ UNCHANGED <<registry, target, pools, dials, stored, asked, crashes, faults,
                 halted, pushed, calls, dropped>>

(* GetByID, whose error is dropped: a failed lookup finds no row.          *)
LookUp(r) ==
  /\ at[r] = "look"
  /\ \E ok \in BOOLEAN :
       /\ Attempt(ok)
       /\ Proceed(r, IF ok /\ dbStatus # "absent" THEN "mark" ELSE "insert")
  /\ UNCHANGED <<registry, pools, dials, stored, creates, asked, crashes, orderly,
                 halted, pushed, calls, dropped>>

(* A row that is there is set to running, whatever its status.             *)
MarkRunning(r) ==
  /\ at[r] = "mark"
  /\ \E ok \in BOOLEAN :
       /\ Attempt(ok)
       /\ dbStatus' = Saved(ok, "running")
  /\ Proceed(r, "contacts")
  /\ UNCHANGED <<registry, pools, dials, queue, row, dbHours, creates, asked, crashes,
                 orderly, halted, pushed, calls, dropped>>

(* Create inserts the row, without the calling hours. It fails when the    *)
(* row is there after all.                                                 *)
InsertCampaign(r) ==
  /\ at[r] = "insert"
  /\ \/ /\ dbStatus = "absent"
        /\ Attempt(TRUE)
        /\ dbStatus' = "running"
        /\ Proceed(r, "contacts")
     \/ /\ Attempt(dbStatus # "absent")
        /\ Return(r)
        /\ UNCHANGED dbStatus
  /\ UNCHANGED <<registry, pools, dials, queue, row, dbHours, creates, asked, crashes,
                 orderly, halted, pushed, calls, dropped>>

(* The contacts of the request are inserted; without any, those that the   *)
(* database has as pending are taken. Either call may fail unnoticed.      *)
AddContacts(r) ==
  /\ at[r] = "contacts"
  /\ \E ok \in BOOLEAN :
       /\ Attempt(ok)
       /\ IF ids[r] # {}
            THEN /\ row' = IF ok THEN [c \in Contacts |-> IF c \in ids[r] THEN Pending ELSE row[c]]
                           ELSE row
                 /\ UNCHANGED ids
            ELSE /\ ids' = IF ok THEN [ids EXCEPT ![r] = {c \in Contacts : row[c].status = "pending"}]
                           ELSE ids
                 /\ UNCHANGED row
  /\ Goto(r, "enqueue")
  /\ UNCHANGED <<registry, target, hours, pools, dials, queue, dbStatus, dbHours, creates,
                 asked, crashes, orderly, halted, pushed, calls, dropped>>

(* Fault: LPUSH is repeated after a time-out, though it had been done.     *)
EnqueueTwice(r) ==
  /\ at[r] = "enqueue"
  /\ queue' = queue \o SetToSeq(ids[r]) \o SetToSeq(ids[r])
  /\ pushed' = pushed \cup ids[r]
  /\ Proceed(r, "register")
  /\ UNCHANGED <<registry, pools, dials, row, dbStatus, dbHours, creates, asked, crashes,
                 faults, orderly, halted, calls, dropped>>

(* One LPUSH of all the ids; its error ends the request.                   *)
Enqueue(r) ==
  /\ at[r] = "enqueue"
  /\ \/ /\ Attempt(TRUE)
        /\ queue' = queue \o SetToSeq(ids[r])
        /\ pushed' = pushed \cup ids[r]
        /\ Proceed(r, "register")
     \/ /\ ids[r] # {}
        /\ Attempt(FALSE)
        /\ Return(r)
        /\ UNCHANGED <<queue, pushed>>
  /\ UNCHANGED <<registry, pools, dials, row, dbStatus, dbHours, creates, asked, crashes,
                 orderly, halted, calls, dropped>>

(* A new pool takes the entry in the map, whether there is one or not, and *)
(* its goroutine is started.                                               *)
Register(r) ==
  /\ at[r] = "register"
  /\ \E p \in Pools :
       /\ loop[p] = "unused"
       /\ registry' = p
       /\ loop' = [loop EXCEPT ![p] = "start"]
       /\ timed' = [timed EXCEPT ![p] = hours[r]]
  /\ Return(r)
  /\ UNCHANGED <<state, cancelled, hand, dials, stored, history>>

(* Pause, resume and stop look the pool up under the lock, and release it. *)
Ask(r, place) ==
  /\ at[r] = "idle"
  /\ asked < MaxRequests
  /\ asked' = asked + 1
  /\ Goto(r, place)
  /\ target' = [target EXCEPT ![r] = registry]
  /\ orderly' = (orderly /\ Alone(r) /\ creates > 0)
  /\ UNCHANGED <<registry, ids, hours, pools, dials, stored, creates, crashes, faults,
                 halted, pushed, calls, dropped>>

AskPause(r) == Ask(r, "pause")
AskResume(r) == Ask(r, "resume")
AskStop(r) == Ask(r, "stop")

(* A pool refuses what its state does not allow; without a pool the status *)
(* is written unseen.                                                      *)
Pause(r) ==
  LET p == target[r]
      allowed == p # None => CanTransition(state[p], "paused")
  IN  /\ at[r] = "pause"
      /\ state' = IF p # None /\ allowed THEN [state EXCEPT ![p] = "paused"] ELSE state
      /\ IF allowed
           THEN \E ok \in BOOLEAN : Attempt(ok) /\ dbStatus' = Saved(ok, "paused")
           ELSE UNCHANGED <<dbStatus, faults>>
      /\ Return(r)
      /\ UNCHANGED <<registry, loop, cancelled, hand, timed, dials, queue, row, dbHours,
                     creates, asked, crashes, orderly, halted, pushed, calls, dropped>>

(* Fault: resume does not look whether there is a pool.                    *)
ResumeWithoutLook(r) ==
  /\ at[r] = "resume"
  /\ dbStatus # "absent"
  /\ Goto(r, "register")
  /\ hours' = [hours EXCEPT ![r] = dbHours]
  /\ UNCHANGED <<registry, target, ids, pools, dials, stored, history>>

(* A pool that may run goes on.                                            *)
ResumePool(r) ==
  LET p == target[r]
  IN  /\ at[r] = "resume"
      /\ p # None
      /\ IF CanTransition(state[p], "running")
           THEN /\ state' = [state EXCEPT ![p] = "running"]
                /\ \E ok \in BOOLEAN : Attempt(ok) /\ dbStatus' = Saved(ok, "running")
           ELSE UNCHANGED <<state, dbStatus, faults>>
      /\ Return(r)
      /\ UNCHANGED <<registry, loop, cancelled, hand, timed, dials, queue, row, dbHours,
                     creates, asked, crashes, orderly, halted, pushed, calls, dropped>>

(* Without a pool the row is read, and a pool is made of it.               *)
ResumeRow(r) ==
  /\ at[r] = "resume"
  /\ target[r] = None
  /\ \E ok \in BOOLEAN :
       /\ Attempt(ok)
       /\ IF ok /\ dbStatus # "absent"
            THEN /\ Goto(r, "register")
                 /\ hours' = [hours EXCEPT ![r] = dbHours]
                 /\ UNCHANGED <<target, ids>>
            ELSE Return(r)
  /\ UNCHANGED <<registry, pools, dials, stored, creates, asked, crashes, orderly,
                 halted, pushed, calls, dropped>>

(* Stop of a pool, with its two writes; errors are dropped.                *)
StopPool(r) ==
  LET p == target[r]
  IN  /\ at[r] = "stop"
      /\ p # None
      /\ IF CanTransition(state[p], "stopped")
           THEN /\ state' = [state EXCEPT ![p] = "stopped"]
                /\ cancelled' = [cancelled EXCEPT ![p] = loop[p] # "start"]
                /\ halted' = TRUE
                /\ \E saved, cleared \in BOOLEAN :
                     /\ faults' = faults + (IF saved THEN 0 ELSE 1) + (IF cleared THEN 0 ELSE 1)
                     /\ faults' <= MaxFaults
                     /\ dbStatus' = Saved(saved, "stopped")
                     /\ queue' = IF cleared THEN <<>> ELSE queue
           ELSE UNCHANGED <<state, cancelled, halted, faults, dbStatus, queue>>
      /\ Return(r)
      /\ UNCHANGED <<registry, loop, hand, timed, dials, row, dbHours, creates, asked,
                     crashes, orderly, pushed, calls, dropped>>

(* Without a pool the queue is cleared, then the status is written.        *)
StopClear(r) ==
  /\ at[r] = "stop"
  /\ target[r] = None
  /\ \E ok \in BOOLEAN :
       /\ Attempt(ok)
       /\ queue' = IF ok THEN <<>> ELSE queue
  /\ halted' = TRUE
  /\ Proceed(r, "close")
  /\ UNCHANGED <<registry, pools, dials, row, dbStatus, dbHours, creates, asked, crashes,
                 orderly, pushed, calls, dropped>>

StopRecord(r) ==
  /\ at[r] = "close"
  /\ \E ok \in BOOLEAN :
       /\ Attempt(ok)
       /\ dbStatus' = Saved(ok, "stopped")
  /\ Return(r)
  /\ UNCHANGED <<registry, pools, dials, queue, row, dbHours, creates, asked, crashes,
                 orderly, halted, pushed, calls, dropped>>

Serve(r) ==
  \/ LookUp(r) \/ MarkRunning(r) \/ InsertCampaign(r) \/ AddContacts(r) \/ Enqueue(r)
  \/ Register(r) \/ Pause(r) \/ ResumePool(r) \/ ResumeRow(r)
  \/ StopPool(r) \/ StopClear(r) \/ StopRecord(r)

-----------------------------------------------------------------------------
(* The loop of a pool.                                                     *)
Frame == <<api, stored, history>>

LoopTo(p, place) == loop' = [loop EXCEPT ![p] = place]

SlotsOf(p) == Cardinality({g \in Dials : pc[g] # "idle" /\ owner[g] = p})

Start(p) ==
  /\ loop[p] = "start"
  /\ LoopTo(p, "check")
  /\ state' = [state EXCEPT ![p] = "running"]
  /\ UNCHANGED <<cancelled, hand, timed, dials, Frame>>

Check(p) ==
  /\ loop[p] = "check"
  /\ \/ (cancelled[p] \/ state[p] \in {"stopped", "completed"}) /\ LoopTo(p, "done")
     \/ ~cancelled[p] /\ state[p] = "running" /\ LoopTo(p, "dequeue")
  /\ UNCHANGED <<state, cancelled, hand, timed, dials, Frame>>

(* BRPOP returns the oldest id: to one pool only, if there are several.    *)
Dequeue(p) ==
  /\ loop[p] = "dequeue"
  /\ queue # <<>>
  /\ hand' = [hand EXCEPT ![p] = Head(queue)]
  /\ queue' = Tail(queue)
  /\ LoopTo(p, "acquire")
  /\ UNCHANGED <<state, cancelled, timed, dials, api, row, dbStatus, dbHours, history>>

(* Fault: the error of a BRPOP that times out is not looked at.            *)
DequeueBlank(p) ==
  /\ loop[p] = "dequeue"
  /\ queue = <<>>
  /\ hand' = [hand EXCEPT ![p] = ""]
  /\ LoopTo(p, "acquire")
  /\ UNCHANGED <<state, cancelled, timed, dials, Frame>>

(* BRPOP times out, or its context is cancelled.                           *)
DequeueNothing(p) ==
  /\ loop[p] = "dequeue"
  /\ \/ queue = <<>> /\ LoopTo(p, "drain")
     \/ cancelled[p] /\ LoopTo(p, "done")
  /\ UNCHANGED <<state, cancelled, hand, timed, dials, Frame>>

Launch(p, g) ==
  /\ loop[p] = "acquire"
  /\ SlotsOf(p) < Concurrency
  /\ pc[g] = "idle"
  /\ pc' = [pc EXCEPT ![g] = "get"]
  /\ owner' = [owner EXCEPT ![g] = p]
  /\ contact' = [contact EXCEPT ![g] = hand[p]]
  /\ hand' = [hand EXCEPT ![p] = None]
  /\ LoopTo(p, "check")
  /\ UNCHANGED <<state, cancelled, timed, tries, outcome, Frame>>

(* Fault: the loop gives up the contact when no slot is free.              *)
AbandonWhenFull(p) ==
  /\ loop[p] = "acquire"
  /\ cancelled[p] \/ SlotsOf(p) = Concurrency
  /\ hand' = [hand EXCEPT ![p] = None]
  /\ LoopTo(p, IF cancelled[p] THEN "done" ELSE "check")
  /\ UNCHANGED <<state, cancelled, timed, dials, Frame>>

Abandon(p) ==
  /\ loop[p] = "acquire"
  /\ cancelled[p]
  /\ hand' = [hand EXCEPT ![p] = None]
  /\ LoopTo(p, "done")
  /\ UNCHANGED <<state, cancelled, timed, dials, Frame>>

(* wg.Wait, for the goroutines of this pool, and finish.                   *)
Finish(p) ==
  /\ loop[p] = "drain"
  /\ SlotsOf(p) = 0
  /\ state' = [state EXCEPT ![p] = "completed"]
  /\ LoopTo(p, "record")
  /\ UNCHANGED <<cancelled, hand, timed, dials, Frame>>

FinishRecord(p) ==
  /\ loop[p] = "record"
  /\ \E ok \in BOOLEAN :
       /\ AttemptOf(p, ok)
       /\ dbStatus' = Saved(ok, "completed")
  /\ LoopTo(p, "done")
  /\ UNCHANGED <<state, cancelled, hand, timed, dials, api, queue, row, dbHours, creates,
                 asked, crashes, orderly, halted, pushed, calls, dropped>>

Run(p) ==
  \/ Start(p) \/ Check(p) \/ Dequeue(p) \/ DequeueNothing(p)
  \/ (\E g \in Dials : Launch(p, g)) \/ Abandon(p) \/ Finish(p) \/ FinishRecord(p)

-----------------------------------------------------------------------------
(* dialOne.                                                                *)
DialTo(g, place) == pc' = [pc EXCEPT ![g] = place]

SavedRow(c, ok, status, attempts) ==
  IF ok /\ row[c].status # "absent"
  THEN [row EXCEPT ![c] = [status |-> status, attempts |-> attempts]]
  ELSE row

(* GetByID: an error, or a contact that was never inserted, is the end.    *)
GetContact(g) ==
  /\ pc[g] = "get"
  /\ \E ok \in BOOLEAN :
       /\ AttemptOf(owner[g], ok)
       /\ IF ok /\ row[contact[g]].status # "absent"
            THEN DialTo(g, "begin") /\ tries' = [tries EXCEPT ![g] = row[contact[g]].attempts]
            ELSE DialTo(g, "release") /\ UNCHANGED tries
  /\ UNCHANGED <<api, pools, owner, contact, outcome, stored, creates, asked, crashes,
                 orderly, halted, pushed, calls, dropped>>

(* The row is marked and the call is placed, by a provider that heeds the  *)
(* context.                                                                *)
BeginCall(g) ==
  LET p == owner[g]
      c == contact[g]
  IN  /\ pc[g] = "begin"
      /\ \E ok \in BOOLEAN :
           /\ AttemptOf(p, ok)
           /\ row' = SavedRow(c, ok, "dialing", tries[g] + 1)
      /\ calls' = IF cancelled[p] THEN calls ELSE [calls EXCEPT ![c] = @ + 1]
      /\ outcome' = [outcome EXCEPT ![g] = IF cancelled[p] THEN "failed" ELSE "dialing"]
      /\ DialTo(g, "calling")
      /\ UNCHANGED <<api, pools, owner, contact, tries, queue, dbStatus, dbHours, creates,
                     asked, crashes, orderly, halted, pushed, dropped>>

(* Fault: the outcome is written with the attempts that were read.         *)
EndCallUncounted(g) ==
  /\ pc[g] = "calling"
  /\ \E ok \in BOOLEAN, status \in Outcomes \cup {"failed"} :
       /\ outcome[g] = "failed" => status = "failed"
       /\ AttemptOf(owner[g], ok)
       /\ row' = SavedRow(contact[g], ok, status, tries[g])
       /\ outcome' = [outcome EXCEPT ![g] = status]
  /\ tries' = [tries EXCEPT ![g] = @ + 1]
  /\ DialTo(g, "retry")
  /\ UNCHANGED <<api, pools, owner, contact, queue, dbStatus, dbHours, creates, asked,
                 crashes, orderly, halted, pushed, calls, dropped>>

EndCall(g) ==
  /\ pc[g] = "calling"
  /\ \E ok \in BOOLEAN, status \in Outcomes \cup {"failed"} :
       /\ outcome[g] = "failed" => status = "failed"
       /\ AttemptOf(owner[g], ok)
       /\ row' = SavedRow(contact[g], ok, status, tries[g] + 1)
       /\ outcome' = [outcome EXCEPT ![g] = status]
  /\ tries' = [tries EXCEPT ![g] = @ + 1]
  /\ DialTo(g, "retry")
  /\ UNCHANGED <<api, pools, owner, contact, queue, dbStatus, dbHours, creates, asked,
                 crashes, orderly, halted, pushed, calls, dropped>>

Requeue(g) ==
  /\ pc[g] = "retry"
  /\ IF ShouldRetry(outcome[g], tries[g], RetryMax)
       THEN \E ok \in BOOLEAN :
              /\ AttemptOf(owner[g], ok)
              /\ queue' = IF ok THEN Append(queue, contact[g]) ELSE queue
       ELSE UNCHANGED <<queue, faults>>
  /\ DialTo(g, "release")
  /\ UNCHANGED <<api, pools, owner, contact, tries, outcome, row, dbStatus, dbHours, creates,
                 asked, crashes, orderly, halted, pushed, calls, dropped>>

Release(g) ==
  /\ pc[g] = "release"
  /\ DialTo(g, "idle")
  /\ owner' = [owner EXCEPT ![g] = None]
  /\ contact' = [contact EXCEPT ![g] = None]
  /\ tries' = [tries EXCEPT ![g] = 0]
  /\ outcome' = [outcome EXCEPT ![g] = "pending"]
  /\ UNCHANGED <<api, pools, stored, history>>

DialOne(g) == GetContact(g) \/ BeginCall(g) \/ EndCall(g) \/ Requeue(g) \/ Release(g)

-----------------------------------------------------------------------------
Working(g) == pc[g] \notin {"idle", "release"}

(* Contacts that are neither in the queue nor done with.                   *)
InFlight ==
  {hand[p] : p \in {p \in Pools : hand[p] # None}}
    \cup {contact[g] : g \in {g \in Dials : Working(g)}}

Forget ==
  /\ registry' = None /\ at' = NoRequests /\ target' = Nobody(Requests)
  /\ ids' = [r \in Requests |-> {}] /\ hours' = Never(Requests)
  /\ state' = [p \in Pools |-> "running"] /\ loop' = [p \in Pools |-> "unused"]
  /\ cancelled' = Never(Pools) /\ hand' = Nobody(Pools) /\ timed' = Never(Pools)
  /\ pc' = [g \in Dials |-> "idle"] /\ owner' = Nobody(Dials)
  /\ contact' = Nobody(Dials) /\ tries' = [g \in Dials |-> 0]
  /\ outcome' = [g \in Dials |-> "pending"]

(* Fault: a shutdown that puts the contacts being dialed back in the list. *)
CrashRequeuing ==
  /\ crashes < MaxCrashes
  /\ crashes' = crashes + 1
  /\ Forget
  /\ dropped' = dropped \cup InFlight
  /\ queue' = queue \o SetToSeq(InFlight)
  /\ UNCHANGED <<row, dbStatus, dbHours, creates, asked, faults, orderly, halted, pushed, calls>>

(* The process ends, on a signal or not: shutting down waits for requests  *)
(* at most, never for pools. The next process starts with an empty map and *)
(* resumes nothing.                                                        *)
Crash ==
  /\ crashes < MaxCrashes
  /\ crashes' = crashes + 1
  /\ Forget
  /\ dropped' = dropped \cup InFlight
  /\ UNCHANGED <<stored, creates, asked, faults, orderly, halted, pushed, calls>>

Next ==
  \/ \E r \in Requests : AskCreate(r) \/ AskPause(r) \/ AskResume(r) \/ AskStop(r) \/ Serve(r)
  \/ \E p \in Pools : Run(p)
  \/ \E g \in Dials : DialOne(g)
  \/ Crash

Spec == Init /\ [][Next]_vars

-----------------------------------------------------------------------------
Live(p) == loop[p] \notin {"unused", "done"}

InQueue(c) == \E i \in DOMAIN queue : queue[i] = c

IsSettled(c) ==
  row[c].status \in CallOutcome /\ ~ShouldRetry(row[c].status, row[c].attempts, RetryMax)

(* Contacts that were in the queue once, are not settled, and that nobody  *)
(* will dial.                                                              *)
Lost == {c \in pushed \ InFlight : ~InQueue(c) /\ ~IsSettled(c)}

TypeOK ==
  /\ registry \in Pools \cup {None}
  /\ at \in [Requests -> {"idle", "look", "mark", "insert", "contacts", "enqueue",
                          "register", "pause", "resume", "stop", "close"}]
  /\ target \in [Requests -> Pools \cup {None}]
  /\ ids \in [Requests -> SUBSET Contacts]
  /\ hours \in [Requests -> BOOLEAN]
  /\ state \in [Pools -> CampaignStatus]
  /\ loop \in [Pools -> {"unused", "start", "check", "dequeue", "acquire", "drain",
                         "record", "done"}]
  /\ cancelled \in [Pools -> BOOLEAN] /\ timed \in [Pools -> BOOLEAN]
  /\ hand \in [Pools -> Contacts \cup {None}]
  /\ pc \in [Dials -> {"idle", "get", "begin", "calling", "retry", "release"}]
  /\ owner \in [Dials -> Pools \cup {None}]
  /\ contact \in [Dials -> Contacts \cup {None}]
  /\ tries \in [Dials -> Nat]
  /\ outcome \in [Dials -> ContactStatus]
  /\ queue \in Seq(Contacts)
  /\ row \in [Contacts -> [status : ContactStatus \cup {"absent"}, attempts : Nat]]
  /\ dbStatus \in CampaignStatus \cup {"absent"}
  /\ dbHours \in BOOLEAN
  /\ creates \in 0..Len(Batches) /\ asked \in 0..MaxRequests
  /\ crashes \in 0..MaxCrashes /\ faults \in 0..MaxFaults
  /\ orderly \in BOOLEAN /\ halted \in BOOLEAN
  /\ pushed \subseteq Contacts /\ dropped \subseteq Contacts
  /\ calls \in [Contacts -> Nat]

(* The map holds every pool that runs as long as the requests come one at  *)
(* a time: a restart forgets the pool but also ends it.                    *)
OnePool == orderly => \A p \in Pools : Live(p) => registry = p

(* However many pools share the queue, and across restarts, a contact that *)
(* was queued by one creation is in one place (redis_queue.go:45).         *)
OnePlace ==
  creates <= 1 =>
    /\ IsInjective(queue)
    /\ \A p \in Pools : hand[p] # None =>
         /\ ~InQueue(hand[p])
         /\ \A q \in Pools \ {p} : hand[q] # hand[p]
         /\ \A g \in Dials : Working(g) => contact[g] # hand[p]
    /\ \A g \in Dials : Working(g) =>
         /\ ~InQueue(contact[g])
         /\ \A h \in Dials \ {g} : Working(h) => contact[h] # contact[g]

(* Attempts live in the row, so that the retry limit holds for the pools   *)
(* of a campaign together and across restarts (retry.go:17).               *)
CallsBounded ==
  creates <= 1 => \A c \in Contacts : calls[c] <= RetryMax + 1 + faults

(* Nobody dials again whom the end of the process found in flight: a call  *)
(* that was under way is not placed twice (main.go:128).                   *)
NotRedialed == [][creates <= 1 => \A c \in dropped : calls'[c] = calls[c]]_vars

(* Requests, pools and restarts, in whatever order, lose no contact but    *)
(* those that were in flight when the process ended.                       *)
LossBounded == ~halted /\ faults = 0 => Lost \subseteq dropped

-----------------------------------------------------------------------------
(* The strengthening that makes the invariants above inductive.            *)
Creating(r) == at[r] \in {"look", "mark", "insert", "contacts", "enqueue"}

(* A creation whose contacts are not in the database yet.                  *)
Carrying(r) == at[r] \in {"look", "mark", "insert", "contacts"}

(* The loop holds a contact exactly while it waits for a slot; only Stop   *)
(* cancels; a goroutine at work has a pool that runs, and a contact with a *)
(* row.                                                                    *)
Shape ==
  /\ \A p \in Pools : loop[p] = "acquire" <=> hand[p] # None
  /\ \A p \in Pools : cancelled[p] => halted
  /\ \A g \in Dials :
       /\ pc[g] # "idle" => /\ contact[g] \in Contacts /\ owner[g] \in Pools
                            /\ loop[owner[g]] \notin {"unused", "start"}
       /\ pc[g] \in {"begin", "calling", "retry"} => row[contact[g]].status # "absent"
       /\ pc[g] = "retry" => outcome[g] \in CallOutcome

(* Whatever is dialed has been pushed.                                     *)
Origins ==
  /\ \A c \in Contacts : InQueue(c) => c \in pushed
  /\ InFlight \subseteq pushed /\ dropped \subseteq pushed
  /\ \A c \in Contacts \ pushed : calls[c] = 0 /\ row[c].attempts = 0

(* Requests one at a time: nothing is made beside an entry of the map, and *)
(* what a request found in the map is still there.                         *)
Serial ==
  orderly =>
    /\ \A r, s \in Requests : at[r] # "idle" /\ at[s] # "idle" => r = s
    /\ creates = 0 => registry = None /\ \A r \in Requests : at[r] = "idle"
    /\ \A r \in Requests :
         /\ Creating(r) \/ at[r] = "register" => registry = None
         /\ at[r] = "resume" => target[r] = registry

(* The only creation finds nothing queued; what a crash caught in flight   *)
(* is nowhere.                                                             *)
Single ==
  creates <= 1 =>
    /\ \A r \in Requests : Creating(r) => creates = 1 /\ pushed = {}
    /\ \A r, s \in Requests : Creating(r) /\ Creating(s) => r = s
    /\ creates = 0 => pushed = {}
    /\ \A c \in dropped : ~InQueue(c) /\ c \notin InFlight

(* A contact about to be dialed has attempts left, and its row knows of    *)
(* all its calls but those whose write was lost.                           *)
Known(c) == calls[c] <= row[c].attempts + faults

Fresh(c) == row[c].attempts <= RetryMax /\ Known(c)

DialBudget(g) ==
  LET c == contact[g]
      a == tries[g]
  IN  /\ pc[g] = "get" => Fresh(c)
      /\ pc[g] = "begin" => row[c].attempts = a /\ Fresh(c)
      /\ pc[g] = "calling" => row[c].attempts <= a + 1 /\ a <= RetryMax
      /\ pc[g] = "retry" => row[c].attempts <= a
      /\ pc[g] \in {"calling", "retry"} => cancelled[owner[g]] \/ Known(c)

Budgeted ==
  creates <= 1 =>
    /\ \A c \in Contacts : InQueue(c) \/ (\E p \in Pools : hand[p] = c) => Fresh(c)
    /\ \A g \in Dials : DialBudget(g)

(* Nobody inserts the contacts of another's batch.                         *)
Batched ==
  /\ \A r \in Requests : Carrying(r) => \E i \in 1..creates : ids[r] \subseteq Batches[i]
  /\ \A r, s \in Requests : Carrying(r) /\ Carrying(s) /\ r # s => ids[r] \cap ids[s] = {}

(* While nothing fails: someone will dial every contact pushed, unless it  *)
(* is settled or was in flight in a crash; and who is to be pushed has a   *)
(* row by then, and none before.                                           *)
Pursues(g) ==
  \/ pc[g] \in {"get", "begin", "calling"}
  \/ pc[g] = "retry" /\ ShouldRetry(outcome[g], tries[g], RetryMax)

Placed(c) ==
  \/ InQueue(c) \/ (\E p \in Pools : hand[p] = c)
  \/ (\E g \in Dials : Pursues(g) /\ contact[g] = c)
  \/ IsSettled(c) \/ c \in dropped

Kept ==
  ~halted /\ faults = 0 =>
    /\ \A c \in pushed : row[c].status # "absent" /\ Placed(c)
    /\ \A r \in Requests :
         /\ at[r] = "enqueue" => \A c \in ids[r] : row[c].status # "absent"
         /\ Carrying(r) => \A c \in ids[r] : row[c] = Unborn

IInv == TypeOK /\ Shape /\ Origins /\ Serial /\ OnePool /\ Single /\ OnePlace
          /\ Budgeted /\ CallsBounded /\ Batched /\ Kept
=============================================================================
