----------------------------- MODULE Messaging ------------------------------
(***************************************************************************)
(* The text messages of a user with one other number: requests to send     *)
(* (messaging.service.ts), the job that sends the scheduled ones           *)
(* (scheduled-message.job.ts), and the provider's webhooks for inbound     *)
(* texts and for delivery receipts (sms-webhook.controller.ts).            *)
(*                                                                         *)
(* Each is a sequence of calls to the database, to Redis and to the        *)
(* provider, and any of them may run between two calls of another, or fail *)
(* and leave the rest undone. Receipts come at any time, in any order and  *)
(* any number of times.                                                    *)
(***************************************************************************)
EXTENDS Naturals, FiniteSets

CONSTANTS
  Msgs,       (* messages, by the id of their row                           *)
  Sids,       (* the provider's ids: one for each text it accepts           *)
  Senders,    (* requests to send under way at a time                       *)
  Hooks,      (* inbound webhooks under way at a time                       *)
  Runs,       (* runs of the job that may overlap                           *)
  Quota,      (* 2000 in the code                                           *)
  Receipts,   (* statuses a delivery receipt may have                       *)
  MaxFaults,  (* bound: calls that fail                                     *)
  None

ASSUME BoundsAssumption == Quota \in Nat \ {0} /\ MaxFaults \in Nat
ASSUME SendersAssumption == IsFiniteSet(Senders) /\ IsFiniteSet(Hooks)
ASSUME ReceiptsAssumption == Receipts \subseteq {"queued", "sent", "delivered", "failed"}

(* A message, and a request, a webhook and a run of the job under way.     *)
Message ==
  [kind : {"now", "scheduled", "inbound", "stop"},
   status : {"queued", "sent", "delivered", "failed", "deleted"},
   body : BOOLEAN, sid : Sids \cup {None}]
Sending == [at : {"text", "create", "store", "count"}, kind : {"now", "scheduled"},
            msg : Msgs, sid : Sids \cup {None}]
Hooking == [at : {"create", "store", "optout"}, msg : Msgs, stop : BOOLEAN]
Running == [batch : SUBSET Msgs, msg : Msgs \cup {None}, sid : Sids \cup {None}]

ASSUME NoneAssumption ==
  None \notin Msgs \cup Sids \cup Message \cup Sending \cup Hooking \cup Running

VARIABLES
  row,      (* messages: kind, status, body (is it there) and sid           *)
  conv,     (* the conversation has a row                                   *)
  text,     (* the message each text was sent for                           *)
  used,     (* usage:<user>:sms in Redis                                    *)
  optedOut, (* the other number has a do-not-call entry                     *)
  send, hook, run,  (* where each request, webhook and run of the job is    *)
  stops,    (* history: webhooks that have said STOP                        *)
  losers,   (* history: callers that tried to make the conversation after   *)
            (* another had, by their message                                *)
  twice,    (* history: messages a receipt, a failure or another run has    *)
            (* made ready to be sent again                                  *)
  faults    (* calls that have failed, with their bound                     *)

store == <<row, conv, text, used, optedOut>>
procs == <<send, hook, run>>
past  == <<stops, losers>>
vars  == <<store, procs, past, twice, faults>>

Init ==
  /\ row = [m \in Msgs |-> None] /\ conv = FALSE
  /\ text = [k \in Sids |-> None] /\ used = 0 /\ optedOut = FALSE
  /\ send = [s \in Senders |-> None] /\ hook = [h \in Hooks |-> None]
  /\ run = [j \in Runs |-> None]
  /\ stops = {} /\ losers = {} /\ twice = {} /\ faults = 0

Working == {p \in {send[s] : s \in Senders} \cup {hook[h] : h \in Hooks} : p # None}
Free == {m \in Msgs : row[m] = None /\ \A k \in Sids : text[k] # m}
          \ ({p.msg : p \in Working} \cup stops \cup losers)
Accepted(k, m) == text[k] = None /\ text' = [text EXCEPT ![k] = m]
Fault == faults < MaxFaults /\ faults' = faults + 1

(* Where a caller of findOrCreateConversation goes on: the row is found or *)
(* made, or another caller has made it since, which is an error.           *)
Find(p) == [p EXCEPT !.at = IF conv THEN "store" ELSE "create"]

Make(p) ==
  /\ p.at = "create"
  /\ losers' = IF conv THEN losers \cup {p.msg} ELSE losers
  /\ conv' = TRUE

NewRow(m, kind, status, k) ==
  row' = [row EXCEPT ![m] = [kind |-> kind, status |-> status, body |-> TRUE, sid |-> k]]

UpdateRow(m, status, body, k) ==
  row' = [row EXCEPT ![m] = [kind |-> row[m].kind, status |-> status,
                             body |-> body, sid |-> k]]
-----------------------------------------------------------------------------
(* sendMessage.                                                            *)
UnderQuotaByOne == used <= Quota  \* fault: <= for <

UnderQuota == used < Quota

SendTo(s, p) == send' = [send EXCEPT ![s] = p]

Request(s, m, kind) ==
  /\ send[s] = None /\ m \in Free /\ UnderQuota
  /\ SendTo(s, LET p == [at |-> "text", kind |-> kind, msg |-> m, sid |-> None]
               IN  IF kind = "now" THEN p ELSE Find(p))
  /\ UNCHANGED <<store, hook, run, past, twice, faults>>

SendText(s, k) ==
  /\ send[s] # None /\ send[s].at = "text"
  /\ \/ /\ Accepted(k, send[s].msg)
        /\ SendTo(s, Find([send[s] EXCEPT !.sid = k]))
        /\ UNCHANGED faults
     \/ Fault /\ SendTo(s, None) /\ UNCHANGED text
  /\ UNCHANGED <<row, conv, used, optedOut, hook, run, past, twice>>

MakeConversation(s) ==
  /\ send[s] # None /\ Make(send[s])
  /\ SendTo(s, IF conv THEN None ELSE [send[s] EXCEPT !.at = "store"])
  /\ UNCHANGED <<row, text, used, optedOut, hook, run, stops, twice, faults>>

Store(s) ==
  /\ send[s] # None /\ send[s].at = "store"
  /\ NewRow(send[s].msg, send[s].kind, "queued", send[s].sid)
  /\ SendTo(s, IF send[s].kind = "now" THEN [send[s] EXCEPT !.at = "count"] ELSE None)
  /\ UNCHANGED <<conv, text, used, optedOut, hook, run, past, twice, faults>>

(* Fault: a request is counted twice.                                      *)
CountTwice(s) ==
  /\ send[s] # None /\ send[s].at = "count"
  /\ used' = used + 2
  /\ SendTo(s, None)
  /\ UNCHANGED <<row, conv, text, optedOut, hook, run, past, twice, faults>>

Count(s) ==
  /\ send[s] # None /\ send[s].at = "count"
  /\ used' = used + 1
  /\ SendTo(s, None)
  /\ UNCHANGED <<row, conv, text, optedOut, hook, run, past, twice, faults>>

(* A call after the text has gone out fails, and the request with it.      *)
SendFails(s) ==
  /\ send[s] # None /\ send[s].at # "text"
  /\ Fault
  /\ SendTo(s, None)
  /\ UNCHANGED <<store, hook, run, past, twice>>

(* deleteMessage: the row stays, without its body.                         *)
Delete(m) ==
  /\ row[m] # None
  /\ UpdateRow(m, "deleted", FALSE, row[m].sid)
  /\ UNCHANGED <<conv, text, used, optedOut, procs, past, twice, faults>>
-----------------------------------------------------------------------------
(* The job: one read, then a text and an update for each message it found. *)
DueWithoutBody ==  \* fault: deleted messages are found too
  {m \in Msgs : row[m] # None /\ row[m].kind = "scheduled" /\ row[m].status = "queued"}

Due == {m \in Msgs : /\ row[m] # None /\ row[m].kind = "scheduled"
                     /\ row[m].status = "queued" /\ row[m].body}

Held == UNION {run[j].batch : j \in {i \in Runs : run[i] # None}}
RunTo(j, p) == run' = [run EXCEPT ![j] = p]

StartRun(j) ==
  /\ run[j] = None /\ Due # {}
  /\ RunTo(j, [batch |-> Due, msg |-> None, sid |-> None])
  /\ twice' = twice \cup (Due \cap Held)
  /\ UNCHANGED <<store, send, hook, past, faults>>

RunText(j, m, k) ==
  /\ run[j] # None /\ run[j].msg = None /\ m \in run[j].batch
  /\ Accepted(k, m)
  /\ RunTo(j, [batch |-> run[j].batch, msg |-> m, sid |-> k])
  /\ UNCHANGED <<row, conv, used, optedOut, send, hook, past, twice, faults>>

Rest(j, m) == LET left == run[j].batch \ {m}
              IN  IF left = {} THEN None
                  ELSE [batch |-> left, msg |-> None, sid |-> None]

(* Fault: the update leaves the status.                                    *)
RunUpdateSid(j) ==
  /\ run[j] # None /\ run[j].msg # None
  /\ row' = [row EXCEPT ![run[j].msg].sid = run[j].sid]
  /\ RunTo(j, Rest(j, run[j].msg))
  /\ UNCHANGED <<conv, text, used, optedOut, send, hook, past, twice, faults>>

(* The update after the text; when it fails, the row says failed.          *)
RunUpdate(j) ==
  /\ run[j] # None /\ run[j].msg # None
  /\ LET m == run[j].msg
     IN  /\ \/ /\ UpdateRow(m, "sent", row[m].body, run[j].sid)
               /\ UNCHANGED faults
            \/ Fault /\ UpdateRow(m, "failed", row[m].body, row[m].sid)
         /\ RunTo(j, Rest(j, m))
  /\ UNCHANGED <<conv, text, used, optedOut, send, hook, past, twice>>

(* The provider does not take a text: the row says failed.                 *)
RunRefused(j, m) ==
  /\ run[j] # None /\ run[j].msg = None /\ m \in run[j].batch
  /\ Fault
  /\ UpdateRow(m, "failed", row[m].body, row[m].sid)
  /\ RunTo(j, Rest(j, m))
  /\ UNCHANGED <<conv, text, used, optedOut, send, hook, past, twice>>

(* The process ends in the middle of a run.                                *)
RunCrash(j) ==
  /\ run[j] # None
  /\ Fault
  /\ twice' = twice \cup {run[j].msg}
  /\ RunTo(j, None)
  /\ UNCHANGED <<store, send, hook, past>>
-----------------------------------------------------------------------------
(* The webhooks. An inbound text says STOP or it does not.                 *)
HookTo(h, p) == hook' = [hook EXCEPT ![h] = p]

Inbound(h, m, stop) ==
  /\ hook[h] = None /\ m \in Free
  /\ HookTo(h, Find([at |-> "store", msg |-> m, stop |-> stop]))
  /\ stops' = IF stop THEN stops \cup {m} ELSE stops
  /\ UNCHANGED <<store, send, run, losers, twice, faults>>

HookMakes(h) ==
  /\ hook[h] # None /\ Make(hook[h])
  /\ HookTo(h, IF conv THEN None ELSE [hook[h] EXCEPT !.at = "store"])
  /\ UNCHANGED <<row, text, used, optedOut, send, run, stops, twice, faults>>

HookStoresOnly(h) ==  \* fault: what the text says is not looked at
  /\ hook[h] # None /\ hook[h].at = "store"
  /\ NewRow(hook[h].msg, "inbound", "delivered", None)
  /\ HookTo(h, None)
  /\ UNCHANGED <<conv, text, used, optedOut, send, run, past, twice, faults>>

HookStores(h) ==
  /\ hook[h] # None /\ hook[h].at = "store"
  /\ NewRow(hook[h].msg, IF hook[h].stop THEN "stop" ELSE "inbound", "delivered", None)
  /\ HookTo(h, IF hook[h].stop THEN [hook[h] EXCEPT !.at = "optout"] ELSE None)
  /\ UNCHANGED <<conv, text, used, optedOut, send, run, past, twice, faults>>

HookOptsOut(h) ==
  /\ hook[h] # None /\ hook[h].at = "optout"
  /\ optedOut' = TRUE
  /\ HookTo(h, None)
  /\ UNCHANGED <<row, conv, text, used, send, run, past, twice, faults>>

(* One of its calls fails: of the first two the provider learns, and does  *)
(* not ask again; the last is caught.                                      *)
HookFails(h) ==
  /\ hook[h] # None
  /\ Fault
  /\ HookTo(h, None)
  /\ UNCHANGED <<store, send, run, past, twice>>

(* handleSmsStatus: whatever the receipt says, if the row is known.        *)
Receipt(m, status) ==
  /\ row[m] # None /\ row[m].sid # None
  /\ UpdateRow(m, status, row[m].body, row[m].sid)
  /\ twice' = IF status = "queued" THEN twice \cup {m} ELSE twice
  /\ UNCHANGED <<conv, text, used, optedOut, procs, past, faults>>
-----------------------------------------------------------------------------
Next ==
  \/ \E s \in Senders :
       \/ \E m \in Msgs, kind \in {"now", "scheduled"} : Request(s, m, kind)
       \/ \E k \in Sids : SendText(s, k)
       \/ MakeConversation(s) \/ Store(s) \/ Count(s) \/ SendFails(s)
  \/ \E j \in Runs :
       \/ StartRun(j) \/ RunUpdate(j) \/ RunCrash(j)
       \/ \E m \in Msgs : RunRefused(j, m) \/ \E k \in Sids : RunText(j, m, k)
  \/ \E h \in Hooks :
       \/ \E m \in Msgs, stop \in BOOLEAN : Inbound(h, m, stop)
       \/ HookMakes(h) \/ HookStores(h) \/ HookOptsOut(h) \/ HookFails(h)
  \/ \E m \in Msgs : Delete(m) \/ \E status \in Receipts : Receipt(m, status)

Spec == Init /\ [][Next]_vars
-----------------------------------------------------------------------------
Sent(m) == {k \in Sids : text[k] = m}
Texts == {k \in Sids : text[k] # None}

(* The texts that went out for requests: those of the job are not counted. *)
Charged == {k \in Sids : \E m \in Msgs : text[k] = m /\ (row[m] = None \/ row[m].kind = "now")}

Typed ==
  /\ row \in [Msgs -> Message \cup {None}] /\ text \in [Sids -> Msgs \cup {None}]
  /\ conv \in BOOLEAN /\ optedOut \in BOOLEAN
  /\ send \in [Senders -> Sending \cup {None}] /\ hook \in [Hooks -> Hooking \cup {None}]
  /\ run \in [Runs -> Running \cup {None}]
  /\ stops \subseteq Msgs /\ losers \subseteq Msgs /\ twice \subseteq Msgs \cup {None}
  /\ faults \in 0..MaxFaults

(* Types; no more requests are counted than texts have gone out.           *)
TypeOK ==
  /\ Typed /\ used \in Nat
  /\ used <= Cardinality(Texts)

(* A message goes out once, whether it is sent at once or scheduled, unless*)
(* a receipt has put its row back to queued, a run has ended between the   *)
(* text and the update, or two runs hold it: there is no fourth way        *)
(* (scheduled-message.job.ts:24, sms-webhook.controller.ts:179).           *)
SentOnce == \A m \in Msgs \ twice : Cardinality(Sent(m)) <= 1

(* Requests that check the quota before any of them is counted pass it     *)
(* together; each failure after a text lets one more pass, and so does each*)
(* loser of the race for the conversation, which is not counted. The       *)
(* overshoot is no larger than that (messaging.service.ts:91, :155).       *)
raced == losers # {}

QuotaOvershoot ==
  Cardinality(Charged)
    <= Quota + Cardinality(Senders) - 1 + faults + (IF raced THEN Cardinality(Senders) ELSE 0)

(* Messages whose handler is through and has left out what it was for: a   *)
(* text that went out is not in the history, or a STOP is not on the list. *)
(* Those that lost the race for the conversation are counted apart.        *)
Forgotten ==
  {m \in Msgs \ losers :
     /\ (row[m] = None /\ \E k \in Sids : text[k] = m) \/ (m \in stops /\ ~optedOut)
     /\ \A p \in Working : p.msg # m}

(* Handlers that go on after their first call leave out no more texts and  *)
(* STOPs than calls have failed, and those of the callers that lost the    *)
(* race for the conversation, each of which drops a text that was sent, or *)
(* a STOP. That race is run once, by those who wanted the conversation     *)
(* when it was made (messaging.service.ts:123, :248,                       *)
(* sms-webhook.controller.ts:79, :114).                                    *)
Recorded ==
  /\ Cardinality(Forgotten) <= faults
  /\ losers # {} => Cardinality(losers) < Cardinality(Senders) + Cardinality(Hooks)

(* A message that is deleted and in the hands of no run is not sent any    *)
(* more: no run takes it up again, whatever a receipt makes of its status  *)
(* (scheduled-message.job.ts:29, sms-webhook.controller.ts:181).           *)
DeletedNotSent ==
  [][\A m \in Msgs : row[m] # None /\ ~row[m].body /\ m \notin Held
       => m \notin Held' /\ {k \in Sids : text'[k] = m} = Sent(m)]_vars
-----------------------------------------------------------------------------
(* The strengthening that makes SentOnce inductive.                        *)
NotSent(m) == \A k \in Sids : text[k] # m

(* A message under way is its request's or its webhook's own, and has no   *)
(* row before that stores it.                                              *)
Own ==
  /\ \A s \in Senders : send[s] # None =>
       /\ row[send[s].msg] = None <=> send[s].at # "count"
       /\ send[s].at \in {"text", "count"} => send[s].kind = "now"
       /\ send[s].at = "text" \/ send[s].kind = "scheduled" => NotSent(send[s].msg)
       /\ \A t \in Senders \ {s} : send[t] # None => send[t].msg # send[s].msg
       /\ \A h \in Hooks : hook[h] # None => hook[h].msg # send[s].msg
  /\ \A h \in Hooks : hook[h] # None =>
       /\ row[hook[h].msg] = None <=> hook[h].at # "optout"
       /\ \A g \in Hooks \ {h} : hook[g] # None => hook[g].msg # hook[h].msg

(* The job holds scheduled messages, and is sending one of them.           *)
Batched ==
  \A j \in Runs : run[j] # None =>
    /\ \A m \in run[j].batch : row[m] # None /\ row[m].kind = "scheduled"
    /\ run[j].msg # None => run[j].msg \in run[j].batch

(* A message that nothing has made ready twice is held by one run, which   *)
(* has not sent it until it is the one being sent.                         *)
HeldOnce ==
  \A m \in Msgs \ twice :
    /\ \A k, l \in Sids : text[k] = m /\ text[l] = m => k = l
    /\ \A i, j \in Runs : run[i] # None /\ run[j] # None /\ m \in run[i].batch \cap run[j].batch
         => i = j
    /\ \A j \in Runs : run[j] # None /\ m \in run[j].batch /\ run[j].msg # m => NotSent(m)
    /\ row[m] # None /\ row[m].kind = "scheduled" /\ row[m].status = "queued" /\ m \notin Held
         => NotSent(m)

(* What is counted, what the requests under way have still to count, and   *)
(* which of them may yet lose the race for the conversation.               *)
Admitted == {s \in Senders : send[s] # None /\ send[s].kind = "now"}
Owing == {s \in Admitted : send[s].at # "text"}
Making == {s \in Senders : send[s] # None /\ send[s].at = "create"}

(* The strengthening that makes TypeOK and QuotaOvershoot inductive: each  *)
(* request was let in under the quota, and each text is counted, owed, or  *)
(* left out by a failure or by the race, which only those that wanted to   *)
(* make the conversation when it was made can lose.                        *)
Counting ==
  /\ IsFiniteSet(Texts) /\ used \in Nat
  /\ used + Cardinality(Owing) <= Cardinality(Texts)
  /\ used + Cardinality(Admitted) <= Quota + Cardinality(Senders) - 1
  /\ raced => conv
  /\ ~raced => Cardinality(Charged) <= used + Cardinality(Owing) + faults
  /\ conv => Cardinality(Charged) + Cardinality(Making)
               <= used + Cardinality(Owing) + faults + Cardinality(Senders)

(* The strengthening that makes Recorded inductive: a webhook that is not  *)
(* through knows whether it said STOP, and once the conversation is there  *)
(* nobody new wants to make it.                                            *)
HookMaking == {h \in Hooks : hook[h] # None /\ hook[h].at = "create"}

Recording ==
  /\ \A h \in Hooks : hook[h] # None => (hook[h].stop <=> hook[h].msg \in stops)
  /\ \A s \in Senders : send[s] # None => send[s].msg \notin stops
  /\ IsFiniteSet(Forgotten) /\ Cardinality(Forgotten) <= faults
  /\ IsFiniteSet(losers) /\ (losers # {} => conv)
  /\ conv => Cardinality(losers) + Cardinality(Making) + Cardinality(HookMaking)
               < Cardinality(Senders) + Cardinality(Hooks)

IInv == Typed /\ Own /\ Batched /\ HeldOnce
=============================================================================
