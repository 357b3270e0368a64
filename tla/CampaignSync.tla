---------------------------- MODULE CampaignSync ----------------------------
(***************************************************************************)
(* A campaign across its three programs. The browser uploads a file and    *)
(* presses buttons; the backend (dialer.service.ts) keeps the row of the   *)
(* campaign and forwards to the dialer; the dialer (service.go) runs a     *)
(* pool, writes rows in the same table, and calls the backend back         *)
(* (client.go). The backend writes a status only after the dialer has      *)
(* answered, and by then a callback may have written another.              *)
(*                                                                         *)
(* The dialer reads the id of a campaign under a name the backend does not *)
(* send it under, so that every start makes a campaign with an id of its   *)
(* own: `from` is the row it was started from.                             *)
(*                                                                         *)
(* A pool is what WorkerPool and CampaignService say of it, in coarser     *)
(* steps: one step is a dial with its outcome, one each write it reports,  *)
(* and one the return of its contact to the queue.                         *)
(***************************************************************************)
EXTENDS CampaignRules, Integers, FiniteSets

CONSTANTS
  Contacts,     (* lines of a file, one contact each                        *)
  Ids,          (* campaign ids                                             *)
  Requests,     (* requests of the browser under way at a time              *)
  RetryMax,     (* of every campaign                                        *)
  Concurrency,  (* of every campaign                                        *)
  Headers, Cells,  (* kinds of phone column and of phone cell in a file     *)
  MaxLost,      (* bound: calls that fail, or whose reply is lost           *)
  None

ASSUME BoundsAssumption ==
  RetryMax \in Nat /\ Concurrency \in Nat \ {0} /\ MaxLost \in Nat
ASSUME CellsAssumption ==
  /\ Headers \subseteq {"phone", "tel", "other"}
  /\ Cells \subseteq {"e164", "fictional", "formatted", "bare", "empty"}
ASSUME FileAssumption == IsFiniteSet(Contacts)

(* A row of the campaigns, a pool, a report on its way and a request.      *)
Row == [status : CampaignStatus, dialed : Nat, total : 0..Cardinality(Contacts)]
Pool == [from : Ids, state : CampaignStatus, loop : {"run", "drain", "done"},
         cancelled : BOOLEAN, list : SUBSET Contacts, todo : SUBSET Contacts,
         tries : [Contacts -> 0..RetryMax + 1], dialed : Nat, remaining : Int]
Report == [id : Ids, contact : Contacts \cup {None}, again : BOOLEAN, dialed : Nat,
           remaining : Int, at : {"row", "post", "status", "retry"}]
Request == [kind : {"create", "start", "pause", "resume", "stop"} \cup CampaignStatus,
            id : Ids, rows : SUBSET Contacts]

ASSUME NoneAssumption == None \notin Row \cup Pool \cup Request \cup Contacts

VARIABLES
  dnc,      (* contacts on the do-not-call list of the user                 *)
  row,      (* campaigns: status, dialed, total_contacts; None: no such row *)
  contacts, (* campaign_contacts the backend has inserted for a campaign    *)
  pool,     (* the dialer's pools, by campaign id                           *)
  reports,  (* goroutines that have tallied a dial, and last callbacks      *)
  req,      (* requests under way                                           *)
  lost      (* calls that have failed so far, with their bound              *)

vars == <<dnc, row, contacts, pool, reports, req, lost>>

Init ==
  /\ dnc = {}
  /\ row = [i \in Ids |-> None] /\ contacts = [i \in Ids |-> {}]
  /\ pool = [i \in Ids |-> None] /\ reports = {}
  /\ req = [r \in Requests |-> None] /\ lost = 0

Unused == {i \in Ids : row[i] = None}
Loss == lost < MaxLost /\ lost' = lost + 1
Over(r) == req' = [req EXCEPT ![r] = None]
SetStatus(i, s) == row' = [row EXCEPT ![i].status = s]
-----------------------------------------------------------------------------
(* What the three readers of a file make of it. The browser asks           *)
(* libphonenumber, the servers a pattern, and they know different columns. *)
File == [header : Headers, cell : [Contacts -> Cells]]

BrowserAccepts(f) ==
  f.header = "phone" /\ \E c \in Contacts : f.cell[c] \in {"e164", "formatted"}

InFormat(f, c) == f.cell[c] \in {"e164", "fictional"}

(* csv-validator.ts: how many rows are valid; none is an error.            *)
Validate(f) ==
  IF f.header = "other" THEN 0
  ELSE Cardinality({c \in Contacts : InFormat(f, c)} \ dnc)

(* createCampaign reads the file again for the rows it inserts.            *)
ContactsOf(f) == {c \in Contacts : InFormat(f, c) /\ c \notin dnc}

Block(c) ==
  /\ c \notin dnc
  /\ dnc' = dnc \cup {c}
  /\ UNCHANGED <<row, contacts, pool, reports, req, lost>>

Unblock(c) ==
  /\ c \in dnc
  /\ dnc' = dnc \ {c}
  /\ UNCHANGED <<row, contacts, pool, reports, req, lost>>

(* The wizard sends the file; the backend inserts the campaign.            *)
Create(r, i, f) ==
  /\ req[r] = None /\ i \in Unused
  /\ BrowserAccepts(f) /\ Validate(f) > 0
  /\ row' = [row EXCEPT ![i] =
               [status |-> "draft", dialed |-> 0, total |-> Validate(f)]]
  /\ req' = [req EXCEPT ![r] = [kind |-> "create", id |-> i, rows |-> ContactsOf(f)]]
  /\ UNCHANGED <<dnc, contacts, pool, reports, lost>>

(* The second write of createCampaign, which may fail.                     *)
Insert(r) ==
  /\ req[r] # None /\ req[r].kind = "create"
  /\ \/ /\ contacts' = [contacts EXCEPT ![req[r].id] = req[r].rows]
        /\ UNCHANGED lost
     \/ Loss /\ UNCHANGED contacts
  /\ Over(r)
  /\ UNCHANGED <<dnc, row, pool, reports>>
-----------------------------------------------------------------------------
(* The pages of the browser, with the buttons each status has. A page that *)
(* shows an old status is a request that takes long to arrive: the backend *)
(* looks at no status before it forwards a start.                          *)
Buttons(s) == CASE s = "draft" -> {"start"}
                [] s = "running" -> {"pause", "stop"}
                [] s = "paused" -> {"resume", "stop"}
                [] OTHER -> {}

Click(r, i, k) ==
  /\ req[r] = None /\ row[i] # None /\ k \in Buttons(row[i].status)
  /\ req' = [req EXCEPT ![r] = [kind |-> k, id |-> i, rows |-> {}]]
  /\ UNCHANGED <<dnc, row, contacts, pool, reports, lost>>

Target(k) == CASE k = "pause" -> "paused" [] k = "stop" -> "stopped"
               [] OTHER -> "running"

(* What a pool goes on from: the contacts in its queue, and the counters.  *)
(* Fault: remaining is one short.                                          *)
NewPoolShort(i, todo, total, dialed) ==
  [from |-> i, state |-> "running", loop |-> "run", cancelled |-> FALSE,
   list |-> todo, todo |-> todo, tries |-> [c \in Contacts |-> 0],
   dialed |-> dialed, remaining |-> IF total > dialed THEN total - dialed - 1 ELSE 0]

NewPool(i, todo, total, dialed) ==
  [from |-> i, state |-> "running", loop |-> "run", cancelled |-> FALSE,
   list |-> todo, todo |-> todo, tries |-> [c \in Contacts |-> 0],
   dialed |-> dialed, remaining |-> total - dialed]

(* service.go, CreateAndStart, as the backend calls it.                    *)
DialerStart(i) == \E j \in Unused :
  /\ row' = [row EXCEPT ![j] =
       [status |-> "running", dialed |-> 0, total |-> Cardinality(contacts[i])]]
  /\ pool' = [pool EXCEPT ![j] =
       NewPool(i, contacts[i], Cardinality(contacts[i]), 0)]

(* A pool whose state is set; stop cancels its context, empties its queue. *)
Turned(p, k) ==
  [p EXCEPT !.state = Target(k),
            !.cancelled = @ \/ k = "stop",
            !.todo = IF k = "stop" THEN {} ELSE @]

(* Pause, resume and stop, with a pool and without one.                    *)
DialerControl(i, k) ==
  IF pool[i] # None
  THEN /\ CanTransition(pool[i].state, Target(k))
       /\ pool' = [pool EXCEPT ![i] = Turned(pool[i], k)]
       /\ SetStatus(i, Target(k))
  ELSE IF k = "resume"
       THEN /\ pool' = [pool EXCEPT ![i] = NewPool(i, {}, row[i].total, row[i].dialed)]
            /\ UNCHANGED row
       ELSE SetStatus(i, Target(k)) /\ UNCHANGED pool

(* The backend forwards the request; the reply may be lost after it.       *)
Forward(r) ==
  /\ req[r] # None /\ req[r].kind \in {"start", "pause", "resume", "stop"}
  /\ IF req[r].kind = "start" THEN DialerStart(req[r].id)
                              ELSE DialerControl(req[r].id, req[r].kind)
  /\ \/ /\ req' = [req EXCEPT ![r].kind = Target(req[r].kind)]
        /\ UNCHANGED lost
     \/ Loss /\ Over(r)
  /\ UNCHANGED <<dnc, contacts, reports>>

(* An error, and nothing is written: the dialer refuses the transition, or *)
(* the backend a start without an active number or a plan that allows it.  *)
Refused(r) ==
  /\ req[r] # None
  /\ \/ req[r].kind = "start"
     \/ /\ req[r].kind \in {"pause", "resume", "stop"}
        /\ pool[req[r].id] # None
        /\ ~CanTransition(pool[req[r].id].state, Target(req[r].kind))
  /\ Over(r)
  /\ UNCHANGED <<dnc, row, contacts, pool, reports, lost>>

(* The backend writes the status.                                          *)
Record(r) ==
  /\ req[r] # None /\ req[r].kind \in {"running", "paused", "stopped"}
  /\ SetStatus(req[r].id, req[r].kind)
  /\ Over(r)
  /\ UNCHANGED <<dnc, contacts, pool, reports, lost>>
-----------------------------------------------------------------------------
(* The dialer: a dial with its outcome, up to the copy of the counters.    *)
Outstanding(i) == {m \in reports : m.id = i}

Tally(p, c) ==
  [p EXCEPT !.todo = @ \ {c},
            !.tries[c] = @ + 1,
            !.dialed = @ + 1,
            !.remaining = IF @ > 0 THEN @ - 1 ELSE @]

(* A contact on the list is skipped, and is counted as a dial.             *)
Dial(i, c) ==
  /\ pool[i] # None /\ pool[i].loop = "run" /\ pool[i].state = "running"
  /\ c \in pool[i].todo /\ Cardinality(Outstanding(i)) < Concurrency
  /\ \E outcome \in {"answered", "no-answer"} :
       LET p == Tally(pool[i], c)
           again == c \notin dnc /\ ShouldRetry(outcome, p.tries[c], RetryMax)
       IN  /\ pool' = [pool EXCEPT ![i] = p]
           /\ reports' = reports \cup
                {[id |-> i, contact |-> c, again |-> again, dialed |-> p.dialed,
                  remaining |-> p.remaining, at |-> "row"]}
  /\ UNCHANGED <<dnc, row, contacts, req, lost>>

Move(m, at) == reports' = (reports \ {m}) \cup {[m EXCEPT !.at = at]}

(* A goroutine that has reported its dial puts its contact back, or ends.  *)
Reported(m) == IF m.again THEN Move(m, "retry") ELSE reports' = reports \ {m}

(* The row is incremented, then every fifth tally, and any with nothing    *)
(* remaining, goes to the backend; which is the fifth is left open.        *)
Increment(m) ==
  /\ m.at = "row"
  /\ \/ row' = [row EXCEPT ![m.id].dialed = @ + 1] /\ UNCHANGED lost
     \/ Loss /\ UNCHANGED row
  /\ \/ Move(m, "post")
     \/ m.remaining # 0 /\ Reported(m)
  /\ UNCHANGED <<dnc, contacts, pool, req>>

(* handleProgressCallback: the counters, then, of a tally with nothing     *)
(* remaining, the status. The call may fail before it.                     *)
Post(m) ==
  /\ m.at = "post"
  /\ \/ /\ row' = [row EXCEPT ![m.id].dialed = m.dialed]
        /\ IF m.remaining = 0 THEN Move(m, "status") ELSE Reported(m)
        /\ UNCHANGED lost
     \/ /\ Loss
        /\ Reported(m)
        /\ UNCHANGED row
  /\ UNCHANGED <<dnc, contacts, pool, req>>

Complete(m) ==
  /\ m.at = "status"
  /\ SetStatus(m.id, "completed")
  /\ Reported(m)
  /\ UNCHANGED <<dnc, contacts, pool, req, lost>>

(* The contact is in the queue again, unless its context was cancelled.    *)
Requeue(m) ==
  /\ m.at = "retry"
  /\ \/ /\ ~pool[m.id].cancelled
        /\ pool' = [pool EXCEPT ![m.id].todo = @ \cup {m.contact}]
        /\ UNCHANGED lost
     \/ pool[m.id].cancelled /\ UNCHANGED <<pool, lost>>
     \/ Loss /\ UNCHANGED pool
  /\ reports' = reports \ {m}
  /\ UNCHANGED <<dnc, row, contacts, req>>

(* The loop finds the queue empty, whatever the state has become since it  *)
(* looked at it, and from then on waits for its goroutines.                *)
Drain(i) ==
  /\ pool[i] # None /\ pool[i].loop = "run" /\ pool[i].todo = {}
  /\ pool' = [pool EXCEPT ![i].loop = "drain"]
  /\ UNCHANGED <<dnc, row, contacts, reports, req, lost>>

(* The loop sees that it was stopped.                                      *)
Return(i) ==
  /\ pool[i] # None /\ pool[i].loop = "run" /\ pool[i].cancelled
  /\ pool' = [pool EXCEPT ![i].loop = "done"]
  /\ UNCHANGED <<dnc, row, contacts, reports, req, lost>>

(* finish, and SendCompleted, which reports that nothing remains: in any   *)
(* state, and over a queue that a retry may have filled again. A cancelled *)
(* context lets neither the status nor the report through.                 *)
FinishWith(i) ==
  /\ pool[i] # None /\ pool[i].loop = "drain"
  /\ pool' = [pool EXCEPT ![i].loop = "done", ![i].state = "completed"]
  /\ IF pool[i].cancelled THEN UNCHANGED <<row, reports, lost>>
     ELSE /\ \/ SetStatus(i, "completed") /\ UNCHANGED lost
             \/ Loss /\ UNCHANGED row
          /\ reports' = reports \cup
               {[id |-> i, contact |-> None, again |-> FALSE, dialed |-> pool[i].dialed,
                 remaining |-> 0, at |-> "post"]}
  /\ UNCHANGED <<dnc, contacts, req>>

(* Fault: the pool does not wait for its goroutines.                       *)
FinishEarly(i) == FinishWith(i)

Finish(i) == Outstanding(i) = {} /\ FinishWith(i)
-----------------------------------------------------------------------------
Next ==
  \/ \E r \in Requests :
       \/ \E i \in Ids, f \in File : Create(r, i, f)
       \/ \E i \in Ids, k \in {"start", "pause", "resume", "stop"} : Click(r, i, k)
       \/ Insert(r) \/ Forward(r) \/ Refused(r) \/ Record(r)
  \/ \E i \in Ids : \/ Drain(i) \/ Return(i) \/ Finish(i)
                    \/ \E c \in Contacts : Dial(i, c)
  \/ \E c \in Contacts : Block(c) \/ Unblock(c)
  \/ \E m \in reports : Increment(m) \/ Post(m) \/ Complete(m) \/ Requeue(m)

Spec == Init /\ [][Next]_vars
-----------------------------------------------------------------------------
(* Types: a contact is tried RetryMax + 1 times at most by a pool, its way *)
(* back to the queue included (retry.go:8).                                *)
TypeOK ==
  /\ dnc \subseteq Contacts /\ lost \in 0..MaxLost
  /\ row \in [Ids -> Row \cup {None}] /\ contacts \in [Ids -> SUBSET Contacts]
  /\ pool \in [Ids -> Pool \cup {None}] /\ reports \subseteq Report
  /\ req \in [Requests -> Request \cup {None}]

(* The total of a campaign is the number of its contacts, though one       *)
(* reader of the file counts them and another inserts them.                *)
TotalIsContacts ==
  \A i \in Ids : contacts[i] # {} => row[i].total = Cardinality(contacts[i])

(* Once a pool has completed, without having been stopped, and everything  *)
(* it reported has arrived, the row counts exactly its dials.              *)
CompletedCounted ==
  \A i \in Ids : pool[i] # None /\ pool[i].loop = "done" /\ ~pool[i].cancelled
                 /\ Outstanding(i) = {} /\ lost = 0
                 => row[i].dialed = pool[i].dialed

(* The counters of a row are right. Its total comes from one reader of the *)
(* file and its contacts from another (dialer.service.ts:71, :93); its     *)
(* dials are increments by the dialer and values posted to the backend in  *)
(* one column, in any order, which the last report settles. A pool that    *)
(* was stopped sends no last report, and the old value stays               *)
(* (worker_pool.go:231, :258, dialer.service.ts:289).                      *)
RowCounts == TotalIsContacts /\ CompletedCounted

(* What remains counts dials, not contacts, and a row is completed when it *)
(* is zero. So a row can say completed before every contact of its pool's  *)
(* queue has been dialed, or skipped, but by no more contacts than there   *)
(* were retries; without any, never: whichever report or request wrote     *)
(* last, whether or not the pool is at its end, and whatever was lost      *)
(* (worker_pool.go:119-127, :211, :245, dialer.service.ts:307).            *)
Undialed(p) == {c \in p.list : p.tries[c] = 0}
Repeats(p)  == {d \in p.list \X (2..RetryMax + 1) : d[2] <= p.tries[d[1]]}

Reaches(p) == Cardinality(Undialed(p)) <= Cardinality(Repeats(p))

NotCompletedEarly ==
  \A i \in Ids : pool[i] # None /\ row[i].status = "completed" => Reaches(pool[i])

(* What API.md says of stop: once a campaign is stopped, nobody on its     *)
(* list is dialed for it.                                                  *)
StoppedDialsNobody ==
  [][\A i \in Ids : pool[i] # None /\ row[pool[i].from].status = "stopped"
       => pool'[i].tries = pool[i].tries]_vars
-----------------------------------------------------------------------------
(* The strengthening that makes these invariants inductive. A pool and a   *)
(* request are about a row that is there, a report about a pool that is;   *)
(* a row without a pool counts nothing, and a campaign that is being       *)
(* created has the total its contacts will have.                           *)
Based ==
  /\ \A i \in Ids :
       /\ row[i] = None => pool[i] = None /\ contacts[i] = {}
       /\ row[i] # None /\ pool[i] = None => row[i].dialed = 0 /\ row[i].status # "completed"
  /\ \A m \in reports : pool[m.id] # None
  /\ \A r \in Requests : req[r] # None =>
       /\ row[req[r].id] # None
       /\ req[r].kind = "create" => row[req[r].id].total = Cardinality(req[r].rows)

(* A contact in the queue has an attempt left. What remains and what was   *)
(* dialed make up the length of the queue: a pool with nothing remaining   *)
(* has dialed as often as it had contacts. Every contact not yet dialed is *)
(* in the queue of a pool that was not stopped, so that its loop ends with *)
(* all of them dialed.                                                     *)
Placed(p) == {d \in p.list \X (1..RetryMax + 1) : d[2] <= p.tries[d[1]]}

Sound(p) ==
  /\ p.todo \subseteq p.list
  /\ \A c \in p.todo : p.tries[c] <= RetryMax
  /\ p.remaining >= 0
  /\ p.remaining + Cardinality(Placed(p)) >= Cardinality(p.list)
  /\ ~p.cancelled => Undialed(p) \subseteq p.todo
  /\ ~p.cancelled /\ p.loop # "run" => Undialed(p) = {}

(* The contact of a goroutine is in no queue, and has an attempt left if   *)
(* it goes back; a report that nothing remains is about a pool with as     *)
(* many dials as contacts.                                                 *)
Held(m, p) ==
  /\ m.contact # None => /\ m.contact \in p.list \ p.todo
                         /\ m.again => p.tries[m.contact] <= RetryMax
  /\ m.contact = None => m.at \in {"post", "status"} /\ ~m.again
  /\ m.at = "retry" => m.again
  /\ m.remaining = 0 \/ m.at = "status" => Reaches(p)

PoolsSound == \A i \in Ids : pool[i] # None => Sound(pool[i])

ReportsHeld ==
  /\ \A m \in reports : Held(m, pool[m.id])
  /\ \A m, n \in reports : m.id = n.id /\ m.contact = n.contact => m = n

(* After the end of a pool its last report alone is outstanding, and once  *)
(* that has arrived the row has its count.                                 *)
Settled(i) ==
  /\ \A m \in reports : m.id = i => m.contact = None /\ m.dialed = pool[i].dialed
  /\ lost = 0 /\ (\A m \in reports : m.id = i => m.at # "post")
       => row[i].dialed = pool[i].dialed

Settling ==
  \A i \in Ids : pool[i] # None /\ pool[i].loop = "done" /\ ~pool[i].cancelled => Settled(i)

IInv == TypeOK /\ Based /\ PoolsSound /\ ReportsHeld /\ Settling /\ TotalIsContacts
          /\ NotCompletedEarly
=============================================================================
