-------------------------- MODULE MessagingProofs ---------------------------
(***************************************************************************)
(* The invariants of Messaging, for any number of messages, requests,      *)
(* webhooks and runs of the job that overlap.                              *)
(***************************************************************************)
EXTENDS Messaging, FiniteSetTheorems, TLAPS

USE DEF store, procs, past, raced

Statuses == {"queued", "sent", "delivered", "failed", "deleted"}

LEMMA FaultCounts ==
  ASSUME Typed, Fault PROVE faults' \in 0..MaxFaults /\ faults' # 0
BY BoundsAssumption DEF Typed, Fault

(* What a step on the rows leaves alone: which there are and their kinds.  *)
RowsKept ==
  /\ row' \in [Msgs -> Message \cup {None}]
  /\ \A n \in Msgs : /\ row'[n] = None <=> row[n] = None
                     /\ row[n] # None => row'[n].kind = row[n].kind

(* A row that is written once more keeps its kind.                         *)
LEMMA RowUpdated ==
  ASSUME Typed, NEW m \in Msgs, row[m] # None,
         NEW status \in Statuses,
         NEW body \in BOOLEAN, NEW sid \in Sids \cup {None},
         UpdateRow(m, status, body, sid)
  PROVE  /\ RowsKept
         /\ row'[m] # None /\ row'[m].status = status /\ row'[m].body = body
         /\ \A n \in Msgs \ {m} : row'[n] = row[n]
<1>. DEFINE new == [kind |-> row[m].kind, status |-> status, body |-> body, sid |-> sid]
<1>1. row \in [Msgs -> Message \cup {None}] /\ row[m] \in Message
  BY DEF Typed
<1>2. new \in Message /\ new.kind = row[m].kind /\ new.status = status /\ new.body = body
  BY <1>1 DEF Message, Statuses
<1>3. new # None
  BY <1>2, NoneAssumption
<1>4. row' = [row EXCEPT ![m] = new]
  BY DEF UpdateRow
<1>. HIDE DEF new
<1>. QED  BY <1>1, <1>2, <1>3, <1>4 DEF RowsKept

LEMMA MessageParts ==
  ASSUME Typed, NEW m \in Msgs, row[m] # None
  PROVE  row[m].status \in Statuses /\ row[m].body \in BOOLEAN
         /\ row[m].sid \in Sids \cup {None}
BY DEF Typed, Message, Statuses

LEMMA RowMade ==
  ASSUME Typed, NEW m \in Msgs, NEW kind \in {"now", "scheduled", "inbound", "stop"},
         NEW status \in {"queued", "delivered"}, NEW k \in Sids \cup {None},
         NewRow(m, kind, status, k)
  PROVE  /\ row' \in [Msgs -> Message \cup {None}]
         /\ row'[m] # None /\ row'[m].kind = kind
         /\ \A n \in Msgs \ {m} : row'[n] = row[n]
<1>. DEFINE new == [kind |-> kind, status |-> status, body |-> TRUE, sid |-> k]
<1>1. new \in Message /\ new.kind = kind
  BY DEF Message
<1>2. new # None
  BY <1>1, NoneAssumption
<1>3. row' = [row EXCEPT ![m] = new]
  BY DEF NewRow
<1>. HIDE DEF new
<1>. QED  BY <1>1, <1>2, <1>3 DEF Typed

(* A message is under way in a request or in a webhook.                    *)
LEMMA WorkingIs ==
  ASSUME NEW m
  PROVE  (\E p \in Working : p.msg = m) <=>
           \/ \E s \in Senders : send[s] # None /\ send[s].msg = m
           \/ \E h \in Hooks : hook[h] # None /\ hook[h].msg = m
BY DEF Working

LEMMA FreeIs ==
  ASSUME NEW m \in Free
  PROVE  /\ m \in Msgs /\ row[m] = None /\ NotSent(m)
         /\ \A s \in Senders : send[s] # None => send[s].msg # m
         /\ \A h \in Hooks : hook[h] # None => hook[h].msg # m
BY DEF Free, Working, NotSent
-----------------------------------------------------------------------------
(* The parts of the invariant that a step on the rows, and one that leaves *)
(* alone what they are about, keep.                                        *)
LEMMA OwnKept ==
  ASSUME Own, RowsKept, UNCHANGED <<send, hook, text>>, Typed PROVE Own'
BY DEF Own, RowsKept, NotSent, Typed, Sending, Hooking

LEMMA BatchedKept ==
  ASSUME Batched, RowsKept, UNCHANGED run, Typed PROVE Batched'
BY DEF Batched, RowsKept, Typed, Running

(* A run takes up or puts down messages: their texts stay, and whatever it *)
(* holds that another held is in twice.                                    *)
LEMMA HeldLess ==
  ASSUME Typed, HeldOnce, RowsKept, UNCHANGED text, twice \subseteq twice',
         \A j \in Runs : run'[j] # None =>
           run[j] # None /\ run'[j].batch \subseteq run[j].batch /\
           (\A m \in run'[j].batch : run[j].msg = m => run'[j].msg = m),
         \A m \in Msgs \ twice' : row'[m] # None /\ row'[m].status = "queued" /\ m \notin Held'
           => row[m].status = "queued" /\ m \notin Held
  PROVE  HeldOnce'
BY DEF HeldOnce, RowsKept, NotSent

(* Requests to send.                                                       *)
LEMMA RequestStep ==
  ASSUME IInv, NEW s \in Senders, NEW m \in Msgs, NEW kind \in {"now", "scheduled"},
         Request(s, m, kind)
  PROVE  IInv'
<1>. DEFINE new == send'[s]
<1>1. Typed /\ Own /\ Batched /\ HeldOnce
  BY DEF IInv
<1>2. /\ new \in Sending /\ new.msg = m /\ new.kind = kind
      /\ new.at \in {"text", "create", "store"} /\ (new.at = "text" => kind = "now")
      /\ \A t \in Senders \ {s} : send'[t] = send[t]
      /\ send' \in [Senders -> Sending \cup {None}]
  BY <1>1 DEF Request, SendTo, Find, Typed, Sending
<1>3. new # None /\ send[s] = None /\ m \in Free
  BY <1>2, NoneAssumption DEF Request
<1>4. Typed'
  BY <1>1, <1>2 DEF Typed, Request
<1>5. RowsKept /\ UNCHANGED <<row, conv, text, used, optedOut, hook, run, past, twice, faults>>
  BY <1>1 DEF RowsKept, Typed, Request
<1>6. Own'
  BY <1>1, <1>2, <1>3, <1>5, FreeIs DEF Own, NotSent
<1>7. Batched' /\ HeldOnce'
  BY <1>1, <1>5 DEF Batched, HeldOnce, NotSent, Held
<1>. QED  BY <1>4, <1>6, <1>7 DEF IInv

LEMMA SendTextStep ==
  ASSUME IInv, NEW s \in Senders, NEW k \in Sids, SendText(s, k)
  PROVE  IInv'
<1>. DEFINE m == send[s].msg
<1>1. Typed /\ Own /\ Batched /\ HeldOnce
  BY DEF IInv
<1>2. send[s] \in Sending /\ m \in Msgs /\ m # None /\ send[s] # None
  BY <1>1, NoneAssumption DEF Typed, Sending, SendText
<1>3. row[m] = None /\ NotSent(m) /\ send[s].kind = "now"
      /\ (\A t \in Senders \ {s} : send[t] # None => send[t].msg # m)
      /\ (\A h \in Hooks : hook[h] # None => hook[h].msg # m)
  BY <1>1, <1>2 DEF Own, SendText
<1>4. RowsKept /\ UNCHANGED <<row, conv, used, optedOut, hook, run, past, twice>>
  BY <1>1 DEF RowsKept, Typed, SendText
<1>5. CASE /\ Accepted(k, m) /\ SendTo(s, Find([send[s] EXCEPT !.sid = k]))
           /\ UNCHANGED faults
  <2>. DEFINE new == send'[s]
  <2>1. /\ new \in Sending /\ new.msg = m /\ new.kind = "now"
        /\ new.at \in {"create", "store"}
        /\ \A t \in Senders \ {s} : send'[t] = send[t]
        /\ send' \in [Senders -> Sending \cup {None}]
    BY <1>1, <1>2, <1>3, <1>5 DEF SendTo, Find, Typed, Sending
  <2>2. /\ text[k] = None /\ text'[k] = m /\ text' \in [Sids -> Msgs \cup {None}]
        /\ \A l \in Sids \ {k} : text'[l] = text[l]
    BY <1>1, <1>2, <1>5 DEF Accepted, Typed
  <2>3. new # None
    BY <2>1, NoneAssumption
  <2>4. Typed'
    BY <1>1, <1>4, <1>5, <2>1, <2>2 DEF Typed
  <2>5. Own'
    BY <1>1, <1>2, <1>3, <1>4, <2>1, <2>2, <2>3 DEF Own, NotSent
  <2>6. Batched'
    BY <1>1, <1>4 DEF Batched
  <2>7. \A j \in Runs : run[j] # None => m \notin run[j].batch
    BY <1>1, <1>3 DEF Batched
  <2>8. HeldOnce'
    BY <1>1, <1>2, <1>3, <1>4, <2>2, <2>7 DEF HeldOnce, NotSent, Held
  <2>. QED  BY <2>4, <2>5, <2>6, <2>8 DEF IInv
<1>6. CASE Fault /\ SendTo(s, None) /\ UNCHANGED text
  <2>1. /\ send' \in [Senders -> Sending \cup {None}] /\ send'[s] = None
        /\ \A t \in Senders \ {s} : send'[t] = send[t]
    BY <1>1, <1>6 DEF Typed, SendTo
  <2>2. Typed'
    BY <1>1, <1>4, <1>6, <2>1, FaultCounts DEF Typed
  <2>3. Own'
    BY <1>1, <1>4, <1>6, <2>1 DEF Own, NotSent
  <2>4. Batched' /\ HeldOnce'
    BY <1>1, <1>4, <1>6 DEF Batched, HeldOnce, NotSent, Held
  <2>. QED  BY <2>2, <2>3, <2>4 DEF IInv
<1>. QED  BY <1>5, <1>6 DEF SendText

LEMMA MakeConversationStep ==
  ASSUME IInv, NEW s \in Senders, MakeConversation(s)
  PROVE  IInv'
<1>. DEFINE m == send[s].msg
<1>1. Typed /\ Own /\ Batched /\ HeldOnce
  BY DEF IInv
<1>2. send[s] \in Sending /\ m \in Msgs /\ send[s] # None /\ send[s].at = "create"
  BY <1>1, NoneAssumption DEF Typed, Sending, MakeConversation, Make
<1>3. RowsKept /\ UNCHANGED <<row, text, used, optedOut, hook, run, stops, twice, faults>>
      /\ conv' = TRUE /\ losers' \in {losers, losers \cup {m}}
  BY <1>1 DEF RowsKept, Typed, MakeConversation, Make
<1>4. losers' \subseteq Msgs
  BY <1>1, <1>2, <1>3 DEF Typed
<1>5. Batched' /\ HeldOnce'
  BY <1>1, <1>3 DEF Batched, HeldOnce, NotSent, Held
<1>7. CASE conv
  <2>1. /\ send' \in [Senders -> Sending \cup {None}] /\ send'[s] = None
        /\ \A t \in Senders \ {s} : send'[t] = send[t]
    BY <1>1, <1>7 DEF Typed, SendTo, MakeConversation
  <2>2. Typed'
    BY <1>1, <1>3, <1>4, <2>1 DEF Typed
  <2>3. Own'
    BY <1>1, <1>3, <2>1 DEF Own, NotSent
  <2>. QED  BY <2>2, <2>3, <1>5 DEF IInv
<1>8. CASE ~conv
  <2>. DEFINE new == send'[s]
  <2>1. /\ new \in Sending /\ new.msg = m /\ new.kind = send[s].kind /\ new.at = "store"
        /\ \A t \in Senders \ {s} : send'[t] = send[t]
        /\ send' \in [Senders -> Sending \cup {None}]
    BY <1>1, <1>2, <1>8 DEF SendTo, Typed, Sending, MakeConversation
  <2>2. new # None
    BY <2>1, NoneAssumption
  <2>3. Typed'
    BY <1>1, <1>3, <1>4, <2>1 DEF Typed
  <2>4. Own'
    BY <1>1, <1>2, <1>3, <2>1, <2>2 DEF Own, NotSent
  <2>. QED  BY <2>3, <2>4, <1>5 DEF IInv
<1>. QED  BY <1>7, <1>8

LEMMA StoreStep ==
  ASSUME IInv, NEW s \in Senders, Store(s)
  PROVE  IInv'
<1>. DEFINE m == send[s].msg
<1>1. Typed /\ Own /\ Batched /\ HeldOnce
  BY DEF IInv
<1>2. /\ send[s] \in Sending /\ m \in Msgs /\ send[s] # None /\ send[s].at = "store"
      /\ send[s].sid \in Sids \cup {None} /\ send[s].kind \in {"now", "scheduled"}
  BY <1>1, NoneAssumption DEF Typed, Sending, Store
<1>3. /\ row[m] = None /\ (send[s].kind = "scheduled" => NotSent(m))
      /\ (\A t \in Senders \ {s} : send[t] # None => send[t].msg # m)
      /\ (\A h \in Hooks : hook[h] # None => hook[h].msg # m)
  BY <1>1, <1>2 DEF Own
<1>4. /\ row' \in [Msgs -> Message \cup {None}]
      /\ row'[m] # None /\ row'[m].kind = send[s].kind
      /\ \A n \in Msgs \ {m} : row'[n] = row[n]
  BY <1>1, <1>2, RowMade DEF Store
<1>5. UNCHANGED <<conv, text, used, optedOut, hook, run, past, twice, faults>>
  BY DEF Store
<1>6. Batched'
  BY <1>1, <1>3, <1>4, <1>5 DEF Batched, Typed, Running
<1>7. HeldOnce'
  BY <1>1, <1>2, <1>3, <1>4, <1>5 DEF HeldOnce, NotSent, Held
<1>9. CASE send[s].kind = "now"
  <2>. DEFINE new == send'[s]
  <2>1. /\ new \in Sending /\ new.msg = m /\ new.kind = "now" /\ new.at = "count"
        /\ \A t \in Senders \ {s} : send'[t] = send[t]
        /\ send' \in [Senders -> Sending \cup {None}]
    BY <1>1, <1>2, <1>9 DEF SendTo, Typed, Sending, Store
  <2>2. new # None
    BY <2>1, NoneAssumption
  <2>3. Typed'
    BY <1>1, <1>4, <1>5, <2>1 DEF Typed
  <2>4. Own'
    BY <1>1, <1>2, <1>3, <1>4, <1>5, <2>1, <2>2 DEF Own, NotSent, Typed, Sending, Hooking
  <2>. QED  BY <2>3, <2>4, <1>6, <1>7 DEF IInv
<1>10. CASE send[s].kind = "scheduled"
  <2>1. /\ send' \in [Senders -> Sending \cup {None}] /\ send'[s] = None
        /\ \A t \in Senders \ {s} : send'[t] = send[t]
    BY <1>1, <1>10 DEF Typed, SendTo, Store
  <2>2. Typed'
    BY <1>1, <1>4, <1>5, <2>1 DEF Typed
  <2>3. Own'
    BY <1>1, <1>2, <1>3, <1>4, <1>5, <2>1 DEF Own, NotSent, Typed, Sending, Hooking
  <2>. QED  BY <2>2, <2>3, <1>6, <1>7 DEF IInv
<1>. QED  BY <1>2, <1>9, <1>10

(* A request that ends without writing a row.                              *)
LEMMA SendEnds ==
  ASSUME IInv, NEW s \in Senders, send[s] # None, SendTo(s, None), Typed',
         UNCHANGED <<row, text, hook, run, optedOut, past, twice>>
  PROVE  IInv'
<1>1. Typed /\ Own /\ Batched /\ HeldOnce
  BY DEF IInv
<1>2. /\ send'[s] = None /\ \A t \in Senders \ {s} : send'[t] = send[t]
      /\ send[s].msg \in Msgs
  BY <1>1 DEF Typed, SendTo, Sending
<1>3. Own'
  BY <1>1, <1>2 DEF Own, NotSent
<1>4. Batched' /\ HeldOnce'
  BY <1>1 DEF Batched, HeldOnce, NotSent, Held
<1>. QED  BY <1>1, <1>3, <1>4 DEF IInv

LEMMA CountStep ==
  ASSUME IInv, NEW s \in Senders, Count(s) PROVE IInv'
<1>1. Typed'
  BY DEF IInv, Typed, Count, SendTo
<1>. QED  BY <1>1, SendEnds DEF Count

LEMMA SendFailsStep ==
  ASSUME IInv, NEW s \in Senders, SendFails(s) PROVE IInv'
<1>1. Typed'
  BY FaultCounts DEF IInv, Typed, SendFails, SendTo
<1>. QED  BY <1>1, SendEnds DEF SendFails
-----------------------------------------------------------------------------
(* Deletions and receipts.                                                 *)
LEMMA RewriteStep ==
  ASSUME IInv, NEW m \in Msgs, RowsKept, \A n \in Msgs \ {m} : row'[n] = row[n],
         row'[m].status = "queued" => m \in twice',
         twice \subseteq twice', twice' \subseteq Msgs \cup {None},
         UNCHANGED <<conv, text, optedOut, procs, past, faults>>
  PROVE  IInv'
<1>1. Typed /\ Own /\ Batched /\ HeldOnce
  BY DEF IInv
<1>2. Typed'
  BY <1>1 DEF Typed, RowsKept
<1>3. Held' = Held
  BY DEF Held
<1>4. HeldOnce'
  BY <1>1, <1>3, HeldLess
<1>. QED  BY <1>1, <1>2, <1>4, OwnKept, BatchedKept DEF IInv

LEMMA DeleteStep ==
  ASSUME IInv, NEW m \in Msgs, Delete(m) PROVE IInv'
<1>1. Typed /\ "deleted" \in Statuses
  BY DEF IInv, Statuses
<1>2. /\ RowsKept /\ row'[m].status = "deleted"
      /\ \A n \in Msgs \ {m} : row'[n] = row[n]
  BY <1>1, RowUpdated, MessageParts DEF Delete
<1>. QED  BY <1>1, <1>2, RewriteStep DEF Delete, Typed

LEMMA ReceiptStep ==
  ASSUME IInv, NEW m \in Msgs, NEW status \in Receipts, Receipt(m, status) PROVE IInv'
<1>1. Typed /\ status \in Statuses
  BY ReceiptsAssumption DEF IInv, Statuses
<1>2. /\ RowsKept /\ row'[m].status = status
      /\ \A n \in Msgs \ {m} : row'[n] = row[n]
  BY <1>1, RowUpdated, MessageParts DEF Receipt
<1>3. /\ twice \subseteq twice' /\ twice' \subseteq Msgs \cup {None}
      /\ (status = "queued" => m \in twice')
  BY <1>1 DEF Receipt, Typed
<1>. QED  BY <1>1, <1>2, <1>3, RewriteStep DEF Receipt

(* The job.                                                                *)
LEMMA StartRunStep ==
  ASSUME IInv, NEW j \in Runs, StartRun(j) PROVE IInv'
<1>1. Typed /\ Own /\ Batched /\ HeldOnce
  BY DEF IInv
<1>. DEFINE new == [batch |-> Due, msg |-> None, sid |-> None]
<1>2. Due \subseteq Msgs /\ new \in Running /\ new.batch = Due /\ new.msg = None
  BY DEF Due, Running
<1>3. new # None
  BY <1>2, NoneAssumption
<1>4. run' = [run EXCEPT ![j] = new] /\ run[j] = None /\ twice' = twice \cup (Due \cap Held)
      /\ UNCHANGED <<store, send, hook, past, faults>>
  BY DEF StartRun, RunTo
<1>. HIDE DEF new
<1>5. /\ run' \in [Runs -> Running \cup {None}] /\ run'[j] = new
      /\ \A i \in Runs \ {j} : run'[i] = run[i]
  BY <1>1, <1>2, <1>4 DEF Typed
<1>6. Typed'
  BY <1>1, <1>2, <1>4, <1>5 DEF Typed
<1>7. RowsKept
  BY <1>1, <1>4 DEF RowsKept, Typed
<1>8. Own'
  BY <1>1, <1>4, <1>7, OwnKept
<1>9. Batched'
  <2>1. \A m \in Due : row[m] # None /\ row[m].kind = "scheduled"
    BY DEF Due
  <2>. QED  BY <1>1, <1>2, <1>4, <1>5, <2>1 DEF Batched
<1>10. HeldOnce'
  <2>. SUFFICES ASSUME NEW m \in Msgs \ twice'
                PROVE  /\ \A k, l \in Sids : text[k] = m /\ text[l] = m => k = l
                       /\ \A g, h \in Runs : run'[g] # None /\ run'[h] # None
                                             /\ m \in run'[g].batch \cap run'[h].batch => g = h
                       /\ \A h \in Runs : run'[h] # None /\ m \in run'[h].batch
                                          /\ run'[h].msg # m => NotSent(m)
                       /\ row[m] # None /\ row[m].kind = "scheduled"
                          /\ row[m].status = "queued" /\ m \notin Held' => NotSent(m)
    BY <1>4 DEF HeldOnce, NotSent
  <2>1. m \in Msgs \ twice /\ (m \in Due => m \notin Held)
    BY <1>4
  <2>2. m \in Due => NotSent(m) /\ \A h \in Runs : run[h] # None => m \notin run[h].batch
    BY <1>1, <2>1 DEF Due, HeldOnce, Held
  <2>3. m \in Held => m \in Held'
    BY <1>4, <1>5 DEF Held
  <2>. QED  BY <1>1, <1>2, <1>3, <1>4, <1>5, <2>1, <2>2, <2>3 DEF HeldOnce
<1>. QED  BY <1>6, <1>8, <1>9, <1>10 DEF IInv

LEMMA RunTextStep ==
  ASSUME IInv, NEW j \in Runs, NEW m \in Msgs, NEW k \in Sids, RunText(j, m, k)
  PROVE  IInv'
<1>1. Typed /\ Own /\ Batched /\ HeldOnce
  BY DEF IInv
<1>. DEFINE new == [batch |-> run[j].batch, msg |-> m, sid |-> k]
<1>2. run[j] # None /\ run[j] \in Running /\ run[j].msg = None /\ m \in run[j].batch
  BY <1>1 DEF Typed, RunText
<1>3. new \in Running /\ new.batch = run[j].batch /\ new.msg = m
  BY <1>2 DEF Running
<1>4. new # None
  BY <1>3, NoneAssumption
<1>5. run' = [run EXCEPT ![j] = new] /\ text[k] = None /\ text' = [text EXCEPT ![k] = m]
      /\ UNCHANGED <<row, conv, used, optedOut, send, hook, past, twice, faults>>
  BY DEF RunText, RunTo, Accepted
<1>. HIDE DEF new
<1>6. /\ run' \in [Runs -> Running \cup {None}] /\ run'[j] = new
      /\ \A i \in Runs \ {j} : run'[i] = run[i]
      /\ text' \in [Sids -> Msgs \cup {None}] /\ text'[k] = m
      /\ \A l \in Sids \ {k} : text'[l] = text[l]
  BY <1>1, <1>3, <1>5 DEF Typed
<1>7. Typed'
  BY <1>1, <1>5, <1>6 DEF Typed
<1>8. row[m] # None /\ row[m].kind = "scheduled"
  BY <1>1, <1>2 DEF Batched
<1>9. Batched'
  BY <1>1, <1>2, <1>3, <1>5, <1>6 DEF Batched
<1>10. Own'
  <2>1. \A s \in Senders :
          send[s] # None /\ (send[s].at = "text" \/ send[s].kind = "scheduled")
            => send[s].msg # m
    BY <1>1, <1>8 DEF Own, Typed, Sending
  <2>. QED  BY <1>1, <1>5, <1>6, <2>1 DEF Own, NotSent
<1>11. Held' = Held
  BY <1>2, <1>3, <1>4, <1>6 DEF Held
<1>12. HeldOnce'
  <2>1. m \notin twice => NotSent(m)
    BY <1>1, <1>2, NoneAssumption DEF HeldOnce
  <2>2. m # None
    BY NoneAssumption
  <2>3. m \in Held
    BY <1>2 DEF Held
  <2>. QED  BY <1>1, <1>2, <1>3, <1>4, <1>5, <1>6, <1>11, <2>1, <2>2, <2>3 DEF HeldOnce, NotSent
<1>. QED  BY <1>7, <1>9, <1>10, <1>12 DEF IInv

(* A run writes the row of a message and goes on to the next.              *)
LEMMA RunGoesOn ==
  ASSUME IInv, NEW j \in Runs, NEW m \in Msgs, run[j] # None, m \in run[j].batch,
         RowsKept, row'[m].status # "queued", \A n \in Msgs \ {m} : row'[n] = row[n],
         run[j].msg \in {m, None}, RunTo(j, Rest(j, m)),
         UNCHANGED <<conv, text, optedOut, send, hook, past, twice>>,
         faults' \in 0..MaxFaults
  PROVE  IInv'
<1>1. Typed /\ Own /\ Batched /\ HeldOnce
  BY DEF IInv
<1>. DEFINE left == run[j].batch \ {m}
            new == [batch |-> left, msg |-> None, sid |-> None]
<1>2. new \in Running /\ new.batch = left /\ new.msg = None
  BY <1>1 DEF Running, Typed
<1>3. new # None
  BY <1>2, NoneAssumption
<1>4. run' = [run EXCEPT ![j] = IF left = {} THEN None ELSE new]
  BY DEF RunTo, Rest
<1>. HIDE DEF new
<1>5. /\ run' \in [Runs -> Running \cup {None}]
      /\ run'[j] = IF left = {} THEN None ELSE new
      /\ \A i \in Runs \ {j} : run'[i] = run[i]
  BY <1>1, <1>2, <1>4 DEF Typed
<1>6. Typed'
  BY <1>1, <1>5 DEF Typed, RowsKept
<1>7. Own'
  BY <1>1, OwnKept
<1>8. Batched'
  BY <1>1, <1>2, <1>5 DEF Batched, RowsKept, Typed, Running
<1>9. HeldOnce'
  <2>1. \A h \in Runs : run'[h] # None =>
          run[h] # None /\ run'[h].batch \subseteq run[h].batch /\
          (\A n \in run'[h].batch : run[h].msg = n => run'[h].msg = n)
    <3>. SUFFICES ASSUME NEW h \in Runs, run'[h] # None
                  PROVE  /\ run[h] # None /\ run'[h].batch \subseteq run[h].batch
                         /\ \A n \in run'[h].batch : run[h].msg = n => run'[h].msg = n
      OBVIOUS
    <3>1. CASE h # j
      BY <3>1, <1>5
    <3>2. CASE h = j
      BY <3>2, <1>2, <1>5
    <3>. QED  BY <3>1, <3>2
  <2>2. \A n \in Msgs : n # m /\ n \notin Held' => n \notin Held
    BY <1>2, <1>3, <1>5 DEF Held
  <2>3. \A n \in Msgs \ twice' : row'[n] # None /\ row'[n].status = "queued" /\ n \notin Held'
          => row[n].status = "queued" /\ n \notin Held
    BY <2>2
  <2>. QED  BY <1>1, <2>1, <2>3, HeldLess
<1>. QED  BY <1>1, <1>6, <1>7, <1>8, <1>9 DEF IInv

LEMMA RunUpdateStep ==
  ASSUME IInv, NEW j \in Runs, RunUpdate(j) PROVE IInv'
<1>. DEFINE m == run[j].msg
<1>1. Typed /\ Batched /\ {"sent", "failed"} \subseteq Statuses
  BY DEF IInv, Statuses
<1>2. /\ run[j] # None /\ run[j] \in Running /\ m \in Msgs /\ m \in run[j].batch
      /\ run[j].sid \in Sids \cup {None} /\ row[m] # None
  BY <1>1 DEF RunUpdate, Typed, Running, Batched
<1>3. /\ RowsKept /\ row'[m].status \in {"sent", "failed"}
      /\ \A n \in Msgs \ {m} : row'[n] = row[n]
  <2>1. CASE UpdateRow(m, "sent", row[m].body, run[j].sid)
    BY <2>1, <1>1, <1>2, RowUpdated, MessageParts
  <2>2. CASE UpdateRow(m, "failed", row[m].body, row[m].sid)
    BY <2>2, <1>1, <1>2, RowUpdated, MessageParts
  <2>. QED  BY <2>1, <2>2 DEF RunUpdate
<1>4. faults' \in 0..MaxFaults
  BY <1>1, FaultCounts DEF RunUpdate, Typed
<1>. QED  BY <1>1, <1>2, <1>3, <1>4, RunGoesOn DEF RunUpdate

LEMMA RunRefusedStep ==
  ASSUME IInv, NEW j \in Runs, NEW m \in Msgs, RunRefused(j, m) PROVE IInv'
<1>1. Typed /\ Batched /\ "failed" \in Statuses
  BY DEF IInv, Statuses
<1>2. row[m] # None
  BY <1>1 DEF RunRefused, Batched
<1>3. /\ RowsKept /\ row'[m].status = "failed"
      /\ \A n \in Msgs \ {m} : row'[n] = row[n]
  BY <1>1, <1>2, RowUpdated, MessageParts DEF RunRefused
<1>4. faults' \in 0..MaxFaults
  BY <1>1, FaultCounts DEF RunRefused
<1>. QED  BY <1>1, <1>3, <1>4, RunGoesOn DEF RunRefused

LEMMA RunCrashStep ==
  ASSUME IInv, NEW j \in Runs, RunCrash(j) PROVE IInv'
<1>1. Typed /\ Own /\ Batched /\ HeldOnce
  BY DEF IInv
<1>2. /\ run[j] # None /\ twice' = twice \cup {run[j].msg} /\ run[j].msg \in Msgs \cup {None}
      /\ UNCHANGED <<store, send, hook, past>>
  BY <1>1 DEF RunCrash, Typed, Running
<1>3. /\ run' \in [Runs -> Running \cup {None}] /\ run'[j] = None
      /\ \A i \in Runs \ {j} : run'[i] = run[i]
  BY <1>1 DEF RunCrash, RunTo, Typed
<1>4. faults' \in 0..MaxFaults
  BY <1>1, FaultCounts DEF RunCrash
<1>5. Typed' /\ RowsKept
  BY <1>1, <1>2, <1>3, <1>4 DEF Typed, RowsKept
<1>6. Own'
  BY <1>1, <1>2, <1>5, OwnKept
<1>7. Batched'
  BY <1>1, <1>2, <1>3 DEF Batched
<1>8. HeldOnce'
  <2>1. \A m \in Msgs \ twice' : m \in Held /\ m \notin Held' => NotSent(m)
    BY <1>1, <1>2, <1>3 DEF HeldOnce, Held
  <2>. QED  BY <1>1, <1>2, <1>3, <2>1 DEF HeldOnce, NotSent
<1>. QED  BY <1>5, <1>6, <1>7, <1>8 DEF IInv

(* The webhooks.                                                           *)
LEMMA InboundStep ==
  ASSUME IInv, NEW h \in Hooks, NEW m \in Msgs, NEW stop \in BOOLEAN, Inbound(h, m, stop)
  PROVE  IInv'
<1>. DEFINE new == hook'[h]
<1>1. Typed /\ Own /\ Batched /\ HeldOnce
  BY DEF IInv
<1>2. /\ new \in Hooking /\ new.msg = m /\ new.at \in {"create", "store"}
      /\ \A g \in Hooks \ {h} : hook'[g] = hook[g]
      /\ hook' \in [Hooks -> Hooking \cup {None}]
  BY <1>1 DEF Inbound, HookTo, Find, Typed, Hooking
<1>3. new # None /\ hook[h] = None /\ m \in Free
  BY <1>2, NoneAssumption DEF Inbound
<1>4. /\ UNCHANGED <<row, conv, text, used, optedOut, send, run, losers, twice, faults>>
      /\ stops' \in {stops, stops \cup {m}}
  BY DEF Inbound
<1>5. Typed'
  BY <1>1, <1>2, <1>4 DEF Typed
<1>6. Own'
  BY <1>1, <1>2, <1>3, <1>4, FreeIs DEF Own, NotSent
<1>7. Batched' /\ HeldOnce'
  BY <1>1, <1>4 DEF Batched, HeldOnce, NotSent, Held
<1>. QED  BY <1>5, <1>6, <1>7 DEF IInv

LEMMA HookMakesStep ==
  ASSUME IInv, NEW h \in Hooks, HookMakes(h)
  PROVE  IInv'
<1>. DEFINE m == hook[h].msg
<1>1. Typed /\ Own /\ Batched /\ HeldOnce
  BY DEF IInv
<1>2. hook[h] \in Hooking /\ m \in Msgs /\ hook[h] # None /\ hook[h].at = "create"
  BY <1>1, NoneAssumption DEF Typed, Hooking, HookMakes, Make
<1>3. UNCHANGED <<row, text, used, optedOut, send, run, stops, twice, faults>>
      /\ conv' = TRUE /\ losers' \in {losers, losers \cup {m}}
  BY DEF HookMakes, Make
<1>4. losers' \subseteq Msgs
  BY <1>1, <1>2, <1>3 DEF Typed
<1>5. Batched' /\ HeldOnce'
  BY <1>1, <1>3 DEF Batched, HeldOnce, NotSent, Held
<1>6. CASE conv
  <2>1. /\ hook' \in [Hooks -> Hooking \cup {None}] /\ hook'[h] = None
        /\ \A g \in Hooks \ {h} : hook'[g] = hook[g]
    BY <1>1, <1>6 DEF Typed, HookTo, HookMakes
  <2>2. Typed'
    BY <1>1, <1>3, <1>4, <2>1 DEF Typed
  <2>3. Own'
    BY <1>1, <1>3, <2>1 DEF Own, NotSent
  <2>. QED  BY <2>2, <2>3, <1>5 DEF IInv
<1>7. CASE ~conv
  <2>. DEFINE new == hook'[h]
  <2>1. /\ new \in Hooking /\ new.msg = m /\ new.at = "store"
        /\ \A g \in Hooks \ {h} : hook'[g] = hook[g]
        /\ hook' \in [Hooks -> Hooking \cup {None}]
    BY <1>1, <1>2, <1>7 DEF HookTo, Typed, Hooking, HookMakes
  <2>2. new # None
    BY <2>1, NoneAssumption
  <2>3. Typed'
    BY <1>1, <1>3, <1>4, <2>1 DEF Typed
  <2>4. Own'
    BY <1>1, <1>2, <1>3, <2>1, <2>2 DEF Own, NotSent
  <2>. QED  BY <2>3, <2>4, <1>5 DEF IInv
<1>. QED  BY <1>6, <1>7

LEMMA HookStoresStep ==
  ASSUME IInv, NEW h \in Hooks, HookStores(h)
  PROVE  IInv'
<1>. DEFINE m == hook[h].msg
            kind == IF hook[h].stop THEN "stop" ELSE "inbound"
<1>1. Typed /\ Own /\ Batched /\ HeldOnce
  BY DEF IInv
<1>2. hook[h] \in Hooking /\ m \in Msgs /\ hook[h] # None /\ hook[h].at = "store"
  BY <1>1, NoneAssumption DEF Typed, Hooking, HookStores
<1>3. /\ row[m] = None /\ (\A s \in Senders : send[s] # None => send[s].msg # m)
      /\ (\A g \in Hooks \ {h} : hook[g] # None => hook[g].msg # m)
  BY <1>1, <1>2 DEF Own
<1>4. /\ row' \in [Msgs -> Message \cup {None}]
      /\ row'[m] # None /\ row'[m].kind = kind
      /\ \A n \in Msgs \ {m} : row'[n] = row[n]
  BY <1>1, <1>2, RowMade DEF HookStores
<1>5. UNCHANGED <<conv, text, used, optedOut, send, run, past, twice, faults>>
  BY DEF HookStores
<1>6. Batched'
  BY <1>1, <1>3, <1>4, <1>5 DEF Batched, Typed, Running
<1>7. HeldOnce'
  BY <1>1, <1>2, <1>3, <1>4, <1>5 DEF HeldOnce, NotSent, Held
<1>8. CASE hook[h].stop
  <2>. DEFINE new == hook'[h]
  <2>1. /\ new \in Hooking /\ new.msg = m /\ new.at = "optout"
        /\ \A g \in Hooks \ {h} : hook'[g] = hook[g]
        /\ hook' \in [Hooks -> Hooking \cup {None}]
    BY <1>1, <1>2, <1>8 DEF HookTo, Typed, Hooking, HookStores
  <2>2. new # None
    BY <2>1, NoneAssumption
  <2>3. Typed'
    BY <1>1, <1>4, <1>5, <2>1 DEF Typed
  <2>4. Own'
    BY <1>1, <1>2, <1>3, <1>4, <1>5, <2>1, <2>2 DEF Own, NotSent, Typed, Sending, Hooking
  <2>. QED  BY <2>3, <2>4, <1>6, <1>7 DEF IInv
<1>9. CASE ~hook[h].stop
  <2>1. /\ hook' \in [Hooks -> Hooking \cup {None}] /\ hook'[h] = None
        /\ \A g \in Hooks \ {h} : hook'[g] = hook[g]
    BY <1>1, <1>9 DEF Typed, HookTo, HookStores
  <2>2. Typed'
    BY <1>1, <1>4, <1>5, <2>1 DEF Typed
  <2>3. Own'
    BY <1>1, <1>2, <1>3, <1>4, <1>5, <2>1 DEF Own, NotSent, Typed, Sending, Hooking
  <2>. QED  BY <2>2, <2>3, <1>6, <1>7 DEF IInv
<1>. QED  BY <1>8, <1>9

(* A webhook that is through, or has failed.                               *)
LEMMA HookEnds ==
  ASSUME IInv, NEW h \in Hooks, hook[h] # None, HookTo(h, None), Typed',
         UNCHANGED <<row, conv, text, used, send, run, past, twice>>
  PROVE  IInv'
<1>1. Typed /\ Own /\ Batched /\ HeldOnce
  BY DEF IInv
<1>2. hook'[h] = None /\ \A g \in Hooks \ {h} : hook'[g] = hook[g]
  BY <1>1 DEF HookTo, Typed
<1>3. Own'
  BY <1>1, <1>2 DEF Own, NotSent
<1>4. Batched' /\ HeldOnce'
  BY <1>1 DEF Batched, HeldOnce, NotSent, Held
<1>. QED  BY <1>3, <1>4 DEF IInv

LEMMA HookOptsOutStep ==
  ASSUME IInv, NEW h \in Hooks, HookOptsOut(h) PROVE IInv'
<1>1. Typed'
  BY DEF IInv, Typed, HookOptsOut, HookTo
<1>. QED  BY <1>1, HookEnds DEF HookOptsOut

LEMMA HookFailsStep ==
  ASSUME IInv, NEW h \in Hooks, HookFails(h) PROVE IInv'
<1>1. Typed'
  BY FaultCounts DEF IInv, Typed, HookFails, HookTo
<1>. QED  BY <1>1, HookEnds DEF HookFails
-----------------------------------------------------------------------------
LEMMA Invariance == Spec => []IInv
<1>1. Init => IInv
  <2>. SUFFICES ASSUME Init PROVE IInv
    OBVIOUS
  <2>1. Typed
    <3>1. /\ row \in [Msgs -> Message \cup {None}] /\ text \in [Sids -> Msgs \cup {None}]
          /\ send \in [Senders -> Sending \cup {None}] /\ hook \in [Hooks -> Hooking \cup {None}]
          /\ run \in [Runs -> Running \cup {None}]
      BY DEF Init
    <3>2. faults \in 0..MaxFaults
      BY BoundsAssumption DEF Init
    <3>3. conv \in BOOLEAN /\ optedOut \in BOOLEAN /\ stops = {} /\ losers = {} /\ twice = {}
      BY Zenon DEF Init
    <3>. QED  BY <3>1, <3>2, <3>3 DEF Typed
  <2>2. (\A m \in Msgs : row[m] = None /\ NotSent(m)) /\ \A k \in Sids : text[k] = None
    BY NoneAssumption DEF Init, NotSent
  <2>3. Own /\ Batched
    BY DEF Init, Own, Batched
  <2>4. HeldOnce
    BY <2>2 DEF HeldOnce, NotSent, Init
  <2>. QED  BY <2>1, <2>3, <2>4 DEF IInv
<1>2. IInv /\ [Next]_vars => IInv'
  <2>. SUFFICES ASSUME IInv, [Next]_vars PROVE IInv'
    OBVIOUS
  <2>1. ASSUME NEW s \in Senders,
               \/ \E m \in Msgs, kind \in {"now", "scheduled"} : Request(s, m, kind)
               \/ \E k \in Sids : SendText(s, k)
               \/ MakeConversation(s) \/ Store(s) \/ Count(s) \/ SendFails(s)
        PROVE  IInv'
    BY <2>1, RequestStep, SendTextStep, MakeConversationStep, StoreStep, CountStep,
       SendFailsStep
  <2>2. ASSUME NEW j \in Runs,
               \/ StartRun(j) \/ RunUpdate(j) \/ RunCrash(j)
               \/ \E m \in Msgs : RunRefused(j, m) \/ \E k \in Sids : RunText(j, m, k)
        PROVE  IInv'
    BY <2>2, StartRunStep, RunUpdateStep, RunCrashStep, RunRefusedStep, RunTextStep
  <2>3. ASSUME NEW h \in Hooks,
               \/ \E m \in Msgs, stop \in BOOLEAN : Inbound(h, m, stop)
               \/ HookMakes(h) \/ HookStores(h) \/ HookOptsOut(h) \/ HookFails(h)
        PROVE  IInv'
    BY <2>3, InboundStep, HookMakesStep, HookStoresStep, HookOptsOutStep,
       HookFailsStep
  <2>4. ASSUME NEW m \in Msgs, Delete(m) \/ \E status \in Receipts : Receipt(m, status)
        PROVE  IInv'
    BY <2>4, DeleteStep, ReceiptStep
  <2>5. CASE UNCHANGED vars
    BY <2>5 DEF IInv, vars, Typed, Own, Batched, HeldOnce, NotSent, Held
  <2>. QED  BY <2>1, <2>2, <2>3, <2>4, <2>5 DEF Next
<1>. QED  BY <1>1, <1>2, PTL DEF Spec

(* A message goes out once, unless a receipt has put its row back, a run   *)
(* has ended before the update or two runs hold it, for any number of runs *)
(* (scheduled-message.job.ts:24-63).                                       *)
THEOREM SentOnceHolds == Spec => []SentOnce
<1>1. IInv => SentOnce
  <2>. SUFFICES ASSUME IInv, NEW m \in Msgs \ twice PROVE Cardinality(Sent(m)) <= 1
    BY DEF SentOnce
  <2>1. \A k, l \in Sent(m) : k = l
    BY DEF IInv, HeldOnce, Sent
  <2>2. CASE Sent(m) = {}
    BY <2>2, FS_EmptySet
  <2>3. CASE Sent(m) # {}
    <3>1. PICK k : Sent(m) = {k}
      BY <2>1, <2>3
    <3>2. Cardinality({k}) = 1
      BY FS_Singleton
    <3>. QED  BY <3>1, <3>2
  <2>. QED  BY <2>2, <2>3
<1>. QED  BY <1>1, Invariance, PTL

(* A run of the job that writes a row or ends takes up no message.         *)
LEMMA PutsDown ==
  ASSUME Typed, NEW j \in Runs, RunUpdate(j) \/ RunCrash(j) \/ \E m \in Msgs : RunRefused(j, m)
  PROVE  Held' \subseteq Held /\ UNCHANGED text
<1>1. ASSUME NEW m, run[j] # None, RunTo(j, Rest(j, m)) PROVE Held' \subseteq Held
  <2>. DEFINE left == run[j].batch \ {m}
              new == [batch |-> left, msg |-> None, sid |-> None]
  <2>1. new.batch = left
    OBVIOUS
  <2>2. run' = [run EXCEPT ![j] = IF left = {} THEN None ELSE new]
    BY <1>1 DEF RunTo, Rest
  <2>. HIDE DEF new
  <2>3. /\ run'[j] = IF left = {} THEN None ELSE new
        /\ \A i \in Runs \ {j} : run'[i] = run[i]
    BY <2>2 DEF Typed
  <2>. QED  BY <1>1, <2>1, <2>3 DEF Held
<1>2. CASE RunUpdate(j)
  BY <1>2, <1>1 DEF RunUpdate
<1>3. CASE RunCrash(j)
  <2>1. run'[j] = None /\ \A i \in Runs \ {j} : run'[i] = run[i]
    BY <1>3 DEF RunCrash, RunTo, Typed
  <2>. QED  BY <1>3, <2>1 DEF RunCrash, Held
<1>4. ASSUME NEW m \in Msgs, RunRefused(j, m) PROVE Held' \subseteq Held /\ UNCHANGED text
  BY <1>4, <1>1 DEF RunRefused
<1>. QED  BY <1>2, <1>3, <1>4

(* A deleted message that no run holds is taken up by none and not sent,   *)
(* whatever receipts say of it (scheduled-message.job.ts:29).              *)
THEOREM DeletedHolds == Spec => DeletedNotSent
<1>. DEFINE Kept == \A m \in Msgs : row[m] # None /\ ~row[m].body /\ m \notin Held
                      => m \notin Held' /\ {k \in Sids : text'[k] = m} = Sent(m)
<1>1. IInv /\ Next => Kept
  <2>. SUFFICES ASSUME IInv, Next, NEW m \in Msgs, row[m] # None, ~row[m].body, m \notin Held
                PROVE  m \notin Held' /\ {k \in Sids : text'[k] = m} = Sent(m)
    OBVIOUS
  <2>1. Typed /\ Own /\ Batched
    BY DEF IInv
  <2>2. ASSUME NEW s \in Senders, NEW k \in Sids, SendText(s, k)
        PROVE  m \notin Held' /\ {l \in Sids : text'[l] = m} = Sent(m)
    <3>1. send[s].msg # m
      BY <2>1, <2>2 DEF Own, SendText
    <3>2. \A l \in Sids : text'[l] = m <=> text[l] = m
      BY <2>1, <2>2, <3>1, NoneAssumption DEF SendText, Accepted, Typed
    <3>3. Held' = Held
      BY <2>2 DEF SendText, Held
    <3>. QED  BY <3>2, <3>3 DEF Sent
  <2>3. ASSUME NEW j \in Runs, NEW n \in Msgs, NEW k \in Sids, RunText(j, n, k)
        PROVE  m \notin Held' /\ {l \in Sids : text'[l] = m} = Sent(m)
    <3>1. n # m
      BY <2>3 DEF RunText, Held
    <3>2. \A l \in Sids : text'[l] = m <=> text[l] = m
      BY <2>1, <2>3, <3>1, NoneAssumption DEF RunText, Accepted, Typed
    <3>. DEFINE new == [batch |-> run[j].batch, msg |-> n, sid |-> k]
    <3>3. new.batch = run[j].batch /\ run[j] # None /\ run' = [run EXCEPT ![j] = new]
      BY <2>3 DEF RunText, RunTo
    <3>. HIDE DEF new
    <3>4. run'[j] = new /\ \A i \in Runs \ {j} : run'[i] = run[i]
      BY <2>1, <3>3 DEF Typed
    <3>5. m \notin Held'
      BY <3>3, <3>4 DEF Held
    <3>. QED  BY <3>2, <3>5 DEF Sent
  <2>4. ASSUME NEW j \in Runs, StartRun(j)
        PROVE  m \notin Held' /\ {l \in Sids : text'[l] = m} = Sent(m)
    <3>. DEFINE new == [batch |-> Due, msg |-> None, sid |-> None]
    <3>1. new.batch = Due /\ run' = [run EXCEPT ![j] = new] /\ UNCHANGED text
      BY <2>4 DEF StartRun, RunTo
    <3>. HIDE DEF new
    <3>2. run'[j] = new /\ \A i \in Runs \ {j} : run'[i] = run[i]
      BY <2>1, <3>1 DEF Typed
    <3>3. m \notin Due
      BY DEF Due
    <3>4. m \notin Held'
      BY <3>1, <3>2, <3>3 DEF Held
    <3>. QED  BY <3>1, <3>4 DEF Sent
  <2>5. ASSUME NEW j \in Runs, RunUpdate(j) \/ RunCrash(j) \/ \E n \in Msgs : RunRefused(j, n)
        PROVE  m \notin Held' /\ {l \in Sids : text'[l] = m} = Sent(m)
    BY <2>1, <2>5, PutsDown DEF Sent
  <2>6. ASSUME UNCHANGED <<run, text>>
        PROVE  m \notin Held' /\ {l \in Sids : text'[l] = m} = Sent(m)
    BY <2>6 DEF Held, Sent
  <2>7. ASSUME NEW s \in Senders,
               \/ \E n \in Msgs, kind \in {"now", "scheduled"} : Request(s, n, kind)
               \/ MakeConversation(s) \/ Store(s) \/ Count(s) \/ SendFails(s)
        PROVE  UNCHANGED <<run, text>>
    BY <2>7 DEF Request, MakeConversation, Store, Count, SendFails
  <2>8. ASSUME NEW h \in Hooks,
               \/ \E n \in Msgs, stop \in BOOLEAN : Inbound(h, n, stop)
               \/ HookMakes(h) \/ HookStores(h) \/ HookOptsOut(h) \/ HookFails(h)
        PROVE  UNCHANGED <<run, text>>
    BY <2>8 DEF Inbound, HookMakes, HookStores, HookOptsOut, HookFails
  <2>9. ASSUME NEW n \in Msgs, Delete(n) \/ \E status \in Receipts : Receipt(n, status)
        PROVE  UNCHANGED <<run, text>>
    BY <2>9 DEF Delete, Receipt
  <2>. QED  BY <2>2, <2>3, <2>4, <2>5, <2>6, <2>7, <2>8, <2>9 DEF Next
<1>2. UNCHANGED vars => Kept
  BY DEF vars, Held, Sent
<1>3. IInv /\ [Next]_vars => [Kept]_vars
  BY <1>1, <1>2
<1>. QED  BY <1>3, Invariance, PTL DEF Spec, DeletedNotSent
-----------------------------------------------------------------------------
(* How many: sets of requests that differ in one, and sets of texts.       *)
Bit(b) == IF b THEN 1 ELSE 0

LEMMA SetMoves ==
  ASSUME NEW U, IsFiniteSet(U), NEW A \in SUBSET U, NEW B \in SUBSET U, NEW x \in U,
         A \ {x} = B \ {x}
  PROVE  /\ Cardinality(A) \in 0..Cardinality(U) /\ Cardinality(B) \in 0..Cardinality(U)
         /\ Cardinality(B) = Cardinality(A) + Bit(x \in B) - Bit(x \in A)
<1>1. IsFiniteSet(A) /\ IsFiniteSet(B)
  BY FS_Subset
<1>2. Cardinality(A) \in Nat /\ Cardinality(B) \in Nat /\ Cardinality(U) \in Nat
  BY <1>1, FS_CardinalityType
<1>3. Cardinality(A) <= Cardinality(U) /\ Cardinality(B) <= Cardinality(U)
  BY FS_Subset
<1>4. Cardinality(A \ {x}) = Cardinality(A) - Bit(x \in A)
  <2>1. Cardinality(A \ {x}) = IF x \in A THEN Cardinality(A) - 1 ELSE Cardinality(A)
    BY <1>1, FS_RemoveElement
  <2>. QED  BY <2>1, <1>2 DEF Bit
<1>5. Cardinality(B \ {x}) = Cardinality(B) - Bit(x \in B)
  <2>1. Cardinality(B \ {x}) = IF x \in B THEN Cardinality(B) - 1 ELSE Cardinality(B)
    BY <1>1, FS_RemoveElement
  <2>. QED  BY <2>1, <1>2 DEF Bit
<1>. HIDE DEF Bit
<1>6. Cardinality(A) - Bit(x \in A) = Cardinality(B) - Bit(x \in B)
  BY <1>4, <1>5
<1>7. Bit(x \in A) \in Nat /\ Bit(x \in B) \in Nat
  BY DEF Bit
<1>. QED  BY <1>2, <1>3, <1>6, <1>7

LEMMA CountsAre ==
  /\ Cardinality(Senders) \in Nat
  /\ Cardinality(Owing) \in Nat /\ Cardinality(Admitted) \in Nat /\ Cardinality(Making) \in Nat
  /\ Cardinality(Owing) <= Cardinality(Admitted)
  /\ Cardinality(Admitted) <= Cardinality(Senders)
  /\ Cardinality(Making) <= Cardinality(Senders)
<1>1. Admitted \in SUBSET Senders /\ Making \in SUBSET Senders /\ Owing \in SUBSET Admitted
  BY DEF Admitted, Making, Owing
<1>2. IsFiniteSet(Admitted) /\ IsFiniteSet(Making)
  BY <1>1, SendersAssumption, FS_Subset
<1>3. IsFiniteSet(Owing)
  BY <1>1, <1>2, FS_Subset
<1>. QED  BY <1>1, <1>2, <1>3, SendersAssumption, FS_Subset, FS_CardinalityType

LEMMA CountsNext ==
  ASSUME NEW s \in Senders, \A t \in Senders \ {s} : send'[t] = send[t]
  PROVE  /\ Cardinality(Owing') = Cardinality(Owing) + Bit(s \in Owing') - Bit(s \in Owing)
         /\ Cardinality(Admitted') = Cardinality(Admitted) + Bit(s \in Admitted')
                                       - Bit(s \in Admitted)
         /\ Cardinality(Making') = Cardinality(Making) + Bit(s \in Making') - Bit(s \in Making)
         /\ Cardinality(Owing') \in Nat /\ Cardinality(Making') \in Nat
         /\ Cardinality(Admitted') \in 0..Cardinality(Senders)
         /\ Cardinality(Making') <= Cardinality(Senders)
<1>1. /\ Admitted \in SUBSET Senders /\ Making \in SUBSET Senders /\ Owing \in SUBSET Senders
      /\ Admitted' \in SUBSET Senders /\ Making' \in SUBSET Senders /\ Owing' \in SUBSET Senders
  BY DEF Admitted, Making, Owing
<1>2. /\ Admitted \ {s} = Admitted' \ {s} /\ Making \ {s} = Making' \ {s}
      /\ Owing \ {s} = Owing' \ {s}
  BY DEF Admitted, Making, Owing
<1>3. Cardinality(Owing') = Cardinality(Owing) + Bit(s \in Owing') - Bit(s \in Owing)
      /\ Cardinality(Owing') \in 0..Cardinality(Senders)
  BY <1>1, <1>2, SendersAssumption, SetMoves
<1>4. Cardinality(Admitted') = Cardinality(Admitted) + Bit(s \in Admitted')
                                 - Bit(s \in Admitted)
      /\ Cardinality(Admitted') \in 0..Cardinality(Senders)
  BY <1>1, <1>2, SendersAssumption, SetMoves
<1>5. Cardinality(Making') = Cardinality(Making) + Bit(s \in Making') - Bit(s \in Making)
      /\ Cardinality(Making') \in 0..Cardinality(Senders)
  BY <1>1, <1>2, SendersAssumption, SetMoves
<1>. QED  BY <1>3, <1>4, <1>5, SendersAssumption, FS_CardinalityType

LEMMA ChargedIs ==
  ASSUME Typed, IsFiniteSet(Texts)
  PROVE  /\ Charged \subseteq Texts /\ IsFiniteSet(Charged)
         /\ Cardinality(Charged) \in Nat /\ Cardinality(Texts) \in Nat
         /\ \A S \in SUBSET Charged : Cardinality(S) \in Nat
                                      /\ Cardinality(S) <= Cardinality(Charged)
<1>1. Charged \in SUBSET Texts
  BY NoneAssumption DEF Charged, Texts
<1>2. IsFiniteSet(Charged)
  BY <1>1, FS_Subset
<1>. QED  BY <1>1, <1>2, FS_Subset, FS_CardinalityType

(* A text that goes out for a request is one more of both; one the job     *)
(* sends is not charged.                                                   *)
LEMMA TextMore ==
  ASSUME Typed, IsFiniteSet(Texts), NEW k \in Sids, NEW m \in Msgs, Accepted(k, m), UNCHANGED row
  PROVE  /\ IsFiniteSet(Texts') /\ Cardinality(Texts') = Cardinality(Texts) + 1
         /\ Cardinality(Texts) \in Nat /\ Cardinality(Charged) \in Nat
         /\ Cardinality(Charged') \in Nat /\ Cardinality(Charged') <= Cardinality(Charged) + 1
         /\ row[m] # None /\ row[m].kind # "now" => Cardinality(Charged') = Cardinality(Charged)
<1>1. /\ text[k] = None /\ text'[k] = m /\ m # None
      /\ \A l \in Sids \ {k} : text'[l] = text[l]
  BY NoneAssumption DEF Typed, Accepted
<1>2. k \notin Texts /\ Texts' = Texts \cup {k}
  BY <1>1 DEF Texts
<1>3. IsFiniteSet(Texts') /\ Cardinality(Texts') = Cardinality(Texts) + 1
  BY <1>2, FS_AddElement
<1>4. IsFiniteSet(Charged) /\ Cardinality(Charged) \in Nat /\ Cardinality(Texts) \in Nat
  BY ChargedIs
<1>5. k \notin Charged /\ (Charged' = Charged \cup {k} \/ Charged' = Charged)
      /\ (row[m] # None /\ row[m].kind # "now" => Charged' = Charged)
  BY <1>1, NoneAssumption DEF Charged
<1>6. Cardinality(Charged \cup {k}) = Cardinality(Charged) + 1
  BY <1>4, <1>5, FS_AddElement
<1>. QED  BY <1>3, <1>4, <1>5, <1>6
-----------------------------------------------------------------------------
(* Steps of the job and of the webhooks count nothing.                     *)
LEMMA CountingKept ==
  ASSUME Counting, Typed, UNCHANGED <<send, used, conv, losers>>,
         IsFiniteSet(Texts'), Cardinality(Texts') \in Nat,
         Cardinality(Texts') >= Cardinality(Texts), Cardinality(Texts) \in Nat,
         Cardinality(Charged') \in Nat, Cardinality(Charged') <= Cardinality(Charged),
         Cardinality(Charged) \in Nat, faults' \in Nat, faults' >= faults
  PROVE  Counting'
<1>1. Owing' = Owing /\ Admitted' = Admitted /\ Making' = Making
  BY DEF Owing, Admitted, Making
<1>2. used' \in Nat /\ used' + Cardinality(Owing') <= Cardinality(Texts')
      /\ used' + Cardinality(Admitted') <= Quota + Cardinality(Senders) - 1
  BY <1>1, CountsAre, BoundsAssumption DEF Counting
<1>3. ~raced => Cardinality(Charged') <= used' + Cardinality(Owing') + faults'
  BY <1>1, CountsAre DEF Counting, Typed
<1>4. conv => Cardinality(Charged') + Cardinality(Making')
                <= used' + Cardinality(Owing') + faults' + Cardinality(Senders)
  BY <1>1, CountsAre DEF Counting, Typed
<1>5. (raced' => conv') /\ (raced' <=> raced) /\ (conv' <=> conv)
  BY Zenon DEF Counting
<1>. QED  BY <1>2, <1>3, <1>4, <1>5 DEF Counting

LEMMA CountingAside ==
  ASSUME Counting, Typed, UNCHANGED <<send, text, used, conv, losers>>,
         \A m \in Msgs : row'[m] = None \/ row'[m].kind = "now"
                         => row[m] = None \/ row[m].kind = "now",
         UNCHANGED faults \/ Fault
  PROVE  Counting'
<1>1. Texts' = Texts /\ Charged' \in SUBSET Charged /\ IsFiniteSet(Texts)
  BY DEF Texts, Charged, Counting
<1>2. faults \in Nat /\ faults' \in Nat /\ faults' >= faults
  BY BoundsAssumption DEF Typed, Fault
<1>. QED  BY <1>1, <1>2, ChargedIs, CountingKept

(* Every update of a row keeps which rows there are and their kinds.       *)
LEMMA UpdatesKeepRows ==
  ASSUME IInv,
         \/ \E j \in Runs : RunUpdate(j) \/ \E m \in Msgs : RunRefused(j, m)
         \/ \E m \in Msgs : Delete(m) \/ \E status \in Receipts : Receipt(m, status)
  PROVE  RowsKept
<1>1. Typed /\ Batched /\ {"sent", "failed", "deleted"} \subseteq Statuses
      /\ Receipts \subseteq Statuses
  BY ReceiptsAssumption DEF IInv, Statuses
<1>2. ASSUME NEW j \in Runs, RunUpdate(j) PROVE RowsKept
  <2>1. /\ run[j].msg \in Msgs /\ run[j].sid \in Sids \cup {None} /\ row[run[j].msg] # None
    BY <1>1, <1>2 DEF RunUpdate, Typed, Running, Batched
  <2>. QED  BY <1>1, <1>2, <2>1, RowUpdated, MessageParts DEF RunUpdate
<1>3. ASSUME NEW j \in Runs, NEW m \in Msgs, RunRefused(j, m) PROVE RowsKept
  <2>1. row[m] # None
    BY <1>1, <1>3 DEF RunRefused, Batched
  <2>. QED  BY <1>1, <1>3, <2>1, RowUpdated, MessageParts DEF RunRefused
<1>4. ASSUME NEW m \in Msgs, Delete(m) PROVE RowsKept
  BY <1>1, <1>4, RowUpdated, MessageParts DEF Delete
<1>5. ASSUME NEW m \in Msgs, NEW status \in Receipts, Receipt(m, status) PROVE RowsKept
  BY <1>1, <1>5, RowUpdated, MessageParts DEF Receipt
<1>. QED  BY <1>2, <1>3, <1>4, <1>5

LEMMA CountingRewrites ==
  ASSUME IInv, Counting,
         \/ \E j \in Runs : RunUpdate(j) \/ \E m \in Msgs : RunRefused(j, m)
         \/ \E m \in Msgs : Delete(m) \/ \E status \in Receipts : Receipt(m, status)
  PROVE  Counting'
<1>1. Typed /\ RowsKept
  BY UpdatesKeepRows DEF IInv
<1>2. UNCHANGED <<send, text, used, conv, past>> /\ (UNCHANGED faults \/ Fault)
  BY DEF RunUpdate, RunRefused, Delete, Receipt
<1>. QED  BY <1>1, <1>2, CountingAside DEF RowsKept

LEMMA CountingRuns ==
  ASSUME IInv, Counting, NEW j \in Runs,
         \/ StartRun(j) \/ RunCrash(j)
         \/ \E m \in Msgs, k \in Sids : RunText(j, m, k)
  PROVE  Counting'
<1>1. Typed /\ Batched
  BY DEF IInv
<1>2. ASSUME NEW m \in Msgs, NEW k \in Sids, RunText(j, m, k) PROVE Counting'
  <2>1. Accepted(k, m) /\ UNCHANGED <<row, send, used, conv, past, faults>>
    BY <1>2 DEF RunText
  <2>2. row[m] # None /\ row[m].kind # "now"
    BY <1>1, <1>2 DEF RunText, Batched
  <2>3. IsFiniteSet(Texts) /\ faults \in Nat
    BY <1>1, BoundsAssumption DEF Counting, Typed
  <2>4. /\ IsFiniteSet(Texts') /\ Cardinality(Texts') = Cardinality(Texts) + 1
        /\ Cardinality(Texts) \in Nat /\ Cardinality(Charged) \in Nat
        /\ Cardinality(Charged') = Cardinality(Charged)
    BY <1>1, <2>1, <2>2, <2>3, TextMore
  <2>. QED  BY <1>1, <2>1, <2>3, <2>4, CountingKept
<1>3. CASE StartRun(j) \/ RunCrash(j)
  BY <1>1, <1>3, CountingAside DEF StartRun, RunCrash
<1>. QED  BY <1>2, <1>3

(* A webhook that makes the conversation decides the race, too.            *)
LEMMA CountingHooks ==
  ASSUME IInv, Counting, NEW h \in Hooks,
         \/ \E m \in Msgs, stop \in BOOLEAN : Inbound(h, m, stop)
         \/ HookMakes(h) \/ HookStores(h) \/ HookOptsOut(h) \/ HookFails(h)
  PROVE  Counting'
<1>1. Typed
  BY DEF IInv
<1>2. CASE \/ \E m \in Msgs, stop \in BOOLEAN : Inbound(h, m, stop)
           \/ HookOptsOut(h) \/ HookFails(h)
  BY <1>1, <1>2, CountingAside DEF Inbound, HookOptsOut, HookFails
<1>3. CASE HookStores(h)
  <2>. DEFINE m == hook[h].msg
              kind == IF hook[h].stop THEN "stop" ELSE "inbound"
  <2>1. hook[h] \in Hooking /\ m \in Msgs
    BY <1>1, <1>3 DEF Typed, HookStores, Hooking
  <2>2. /\ row'[m] # None /\ row'[m].kind = kind
        /\ \A n \in Msgs \ {m} : row'[n] = row[n]
    BY <1>1, <1>3, <2>1, RowMade DEF HookStores
  <2>. QED  BY <1>1, <1>3, <2>2, CountingAside DEF HookStores
<1>4. CASE HookMakes(h)
  <2>1. UNCHANGED <<row, text, used, send, faults>> /\ conv'
    BY <1>4 DEF HookMakes, Make
  <2>2. /\ Owing' = Owing /\ Admitted' = Admitted /\ Making' = Making
        /\ Texts' = Texts /\ Charged' = Charged
    BY <2>1 DEF Owing, Admitted, Making, Texts, Charged
  <2>3. ~raced' => ~raced /\ ~conv
    BY <1>4 DEF HookMakes, Make
  <2>4. Cardinality(Charged) \in Nat /\ faults \in Nat
    BY <1>1, BoundsAssumption, ChargedIs DEF Counting, Typed
  <2>5. ~raced' => Cardinality(Charged') <= used' + Cardinality(Owing') + faults'
    BY <2>1, <2>2, <2>3 DEF Counting
  <2>6. Cardinality(Charged') + Cardinality(Making')
          <= used' + Cardinality(Owing') + faults' + Cardinality(Senders)
    <3>1. CASE conv
      BY <2>1, <2>2, <3>1 DEF Counting
    <3>2. CASE ~conv
      <4>1. Cardinality(Charged) <= used + Cardinality(Owing) + faults
        BY <3>2 DEF Counting
      <4>. QED  BY <2>1, <2>2, <2>4, <4>1, CountsAre DEF Counting
    <3>. QED  BY <3>1, <3>2
  <2>. QED  BY <2>1, <2>2, <2>5, <2>6 DEF Counting
<1>. QED  BY <1>2, <1>3, <1>4

(* The requests. One is let in under the quota and owes nothing before its *)
(* text is out.                                                            *)
LEMMA CountingRequest ==
  ASSUME IInv, Counting, NEW s \in Senders, NEW m \in Msgs, NEW kind \in {"now", "scheduled"},
         Request(s, m, kind)
  PROVE  Counting'
<1>. DEFINE new == send'[s]
<1>1. Typed
  BY DEF IInv
<1>2. /\ new \in Sending /\ new.kind = kind
      /\ (kind = "now" => new.at = "text") /\ (new.at = "create" => ~conv)
      /\ \A t \in Senders \ {s} : send'[t] = send[t]
  BY <1>1 DEF Request, SendTo, Find, Typed, Sending
<1>3. new # None /\ send[s] = None
  BY <1>2, NoneAssumption DEF Request
<1>4. UNCHANGED <<row, conv, text, used, past, faults>> /\ used < Quota
  BY DEF Request, UnderQuota
<1>5. s \notin Owing /\ s \notin Owing' /\ s \notin Making /\ (conv => s \notin Making')
  BY <1>2, <1>3, <1>4 DEF Owing, Admitted, Making
<1>6. Cardinality(Owing') = Cardinality(Owing)
      /\ (conv => Cardinality(Making') = Cardinality(Making))
  BY <1>2, <1>5, CountsNext, CountsAre DEF Bit
<1>7. Texts' = Texts /\ Charged' = Charged
  BY <1>4 DEF Texts, Charged
<1>8. used' + Cardinality(Admitted') <= Quota + Cardinality(Senders) - 1
  <2>1. Cardinality(Admitted') \in 0..Cardinality(Senders)
    BY <1>2, CountsNext
  <2>. QED  BY <2>1, <1>4, CountsAre, BoundsAssumption DEF Counting
<1>9. used' \in Nat /\ used' + Cardinality(Owing') <= Cardinality(Texts') /\ IsFiniteSet(Texts')
  BY <1>4, <1>6, <1>7 DEF Counting
<1>10. ~raced => Cardinality(Charged') <= used' + Cardinality(Owing') + faults'
  BY <1>4, <1>6, <1>7 DEF Counting
<1>11. conv => Cardinality(Charged') + Cardinality(Making')
                 <= used' + Cardinality(Owing') + faults' + Cardinality(Senders)
  BY <1>4, <1>6, <1>7 DEF Counting
<1>12. (raced' => conv') /\ (raced' <=> raced) /\ (conv' <=> conv)
  BY <1>4, Zenon DEF Counting
<1>. QED  BY <1>8, <1>9, <1>10, <1>11, <1>12 DEF Counting

LEMMA CountingSendText ==
  ASSUME IInv, Counting, NEW s \in Senders, NEW k \in Sids, SendText(s, k) PROVE Counting'
<1>1. Typed /\ Own
  BY DEF IInv
<1>2. /\ send[s] # None /\ send[s].at = "text" /\ send[s].kind = "now"
      /\ send[s] \in Sending /\ send[s].msg \in Msgs
  BY <1>1 DEF SendText, Own, Typed, Sending
<1>3. s \in Admitted /\ s \notin Owing /\ s \notin Making
  BY <1>2 DEF Admitted, Owing, Making
<1>4. UNCHANGED <<row, conv, used, past>>
  BY DEF SendText
<1>5. (raced' => conv') /\ (raced' <=> raced) /\ (conv' <=> conv)
  BY <1>4, Zenon DEF Counting
<1>6. faults \in Nat /\ IsFiniteSet(Texts) /\ used \in Nat
  BY <1>1, BoundsAssumption DEF Typed, Counting
<1>7. CASE /\ Accepted(k, send[s].msg) /\ SendTo(s, Find([send[s] EXCEPT !.sid = k]))
           /\ UNCHANGED faults
  <2>. DEFINE new == send'[s]
  <2>1. /\ new \in Sending /\ new.kind = "now" /\ new.at \in {"create", "store"}
        /\ (new.at = "create" => ~conv)
        /\ \A t \in Senders \ {s} : send'[t] = send[t]
    BY <1>1, <1>2, <1>7 DEF SendTo, Find, Typed, Sending
  <2>2. new # None
    BY <2>1, NoneAssumption
  <2>3. s \in Admitted' /\ s \in Owing' /\ (conv => s \notin Making')
    BY <2>1, <2>2 DEF Admitted, Owing, Making
  <2>4. /\ Cardinality(Owing') = Cardinality(Owing) + 1
        /\ Cardinality(Admitted') = Cardinality(Admitted)
        /\ (conv => Cardinality(Making') = Cardinality(Making))
    BY <1>3, <2>1, <2>3, CountsNext, CountsAre DEF Bit
  <2>5. /\ IsFiniteSet(Texts') /\ Cardinality(Texts') = Cardinality(Texts) + 1
        /\ Cardinality(Texts) \in Nat /\ Cardinality(Charged) \in Nat
        /\ Cardinality(Charged') \in Nat /\ Cardinality(Charged') <= Cardinality(Charged) + 1
    BY <1>1, <1>2, <1>4, <1>6, <1>7, TextMore
  <2>6. /\ used' \in Nat /\ used' + Cardinality(Owing') <= Cardinality(Texts')
        /\ used' + Cardinality(Admitted') <= Quota + Cardinality(Senders) - 1
    BY <1>4, <2>4, <2>5, CountsAre DEF Counting
  <2>7. ~raced => Cardinality(Charged') <= used' + Cardinality(Owing') + faults'
    BY <1>4, <1>6, <1>7, <2>4, <2>5, CountsAre DEF Counting
  <2>8. conv => Cardinality(Charged') + Cardinality(Making')
                  <= used' + Cardinality(Owing') + faults' + Cardinality(Senders)
    BY <1>4, <1>6, <1>7, <2>4, <2>5, CountsAre DEF Counting
  <2>. QED  BY <1>5, <2>5, <2>6, <2>7, <2>8 DEF Counting
<1>8. CASE Fault /\ SendTo(s, None) /\ UNCHANGED text
  <2>1. send'[s] = None /\ \A t \in Senders \ {s} : send'[t] = send[t]
    BY <1>1, <1>8 DEF Typed, SendTo
  <2>2. s \notin Admitted' /\ s \notin Owing' /\ s \notin Making'
    BY <2>1 DEF Admitted, Owing, Making
  <2>3. /\ Cardinality(Owing') = Cardinality(Owing)
        /\ Cardinality(Admitted') = Cardinality(Admitted) - 1
        /\ Cardinality(Making') = Cardinality(Making)
    BY <1>3, <2>1, <2>2, CountsNext, CountsAre DEF Bit
  <2>4. Texts' = Texts /\ Charged' = Charged /\ Cardinality(Charged) \in Nat
    BY <1>1, <1>4, <1>6, <1>8, ChargedIs DEF Texts, Charged
  <2>5. faults' = faults + 1
    BY <1>8 DEF Fault
  <2>6. /\ used' \in Nat /\ used' + Cardinality(Owing') <= Cardinality(Texts')
        /\ used' + Cardinality(Admitted') <= Quota + Cardinality(Senders) - 1
    BY <1>4, <2>3, <2>4, CountsAre, BoundsAssumption DEF Counting
  <2>7. ~raced => Cardinality(Charged') <= used' + Cardinality(Owing') + faults'
    BY <1>4, <1>6, <2>3, <2>4, <2>5, CountsAre DEF Counting
  <2>8. conv => Cardinality(Charged') + Cardinality(Making')
                  <= used' + Cardinality(Owing') + faults' + Cardinality(Senders)
    BY <1>4, <1>6, <2>3, <2>4, <2>5, CountsAre DEF Counting
  <2>. QED  BY <1>5, <1>6, <2>4, <2>6, <2>7, <2>8 DEF Counting
<1>. QED  BY <1>7, <1>8 DEF SendText

(* The race: the first to make the conversation leaves at most Senders     *)
(* others on their way to the same call, and each of those is left out.    *)
LEMMA CountingMakes ==
  ASSUME IInv, Counting, NEW s \in Senders, MakeConversation(s) PROVE Counting'
<1>1. Typed
  BY DEF IInv
<1>2. /\ send[s] # None /\ send[s].at = "create" /\ send[s] \in Sending
      /\ UNCHANGED <<row, text, used, faults>> /\ conv'
  BY <1>1 DEF MakeConversation, Make, Typed
<1>3. s \in Making /\ (s \in Owing <=> s \in Admitted)
  BY <1>2 DEF Making, Admitted, Owing
<1>4. ~raced' => ~raced /\ ~conv
  BY DEF MakeConversation, Make
<1>5. Texts' = Texts /\ Charged' = Charged
  BY <1>2 DEF Texts, Charged
<1>6. /\ faults \in Nat /\ used \in Nat /\ IsFiniteSet(Texts)
      /\ Cardinality(Texts) \in Nat /\ Cardinality(Charged) \in Nat
  BY <1>1, BoundsAssumption, ChargedIs DEF Typed, Counting
<1>7. CASE conv
  <2>1. send'[s] = None /\ \A t \in Senders \ {s} : send'[t] = send[t]
    BY <1>1, <1>7 DEF Typed, SendTo, MakeConversation
  <2>2. s \notin Admitted' /\ s \notin Owing' /\ s \notin Making'
    BY <2>1 DEF Admitted, Owing, Making
  <2>3. /\ Cardinality(Making') = Cardinality(Making) - 1
        /\ Cardinality(Owing') <= Cardinality(Owing)
        /\ Cardinality(Owing') >= Cardinality(Owing) - 1
        /\ Cardinality(Admitted') <= Cardinality(Admitted)
        /\ Cardinality(Owing') \in Nat /\ Cardinality(Admitted') \in Nat
    BY <1>3, <2>1, <2>2, CountsNext, CountsAre DEF Bit
  <2>4. raced'
    BY <1>7 DEF MakeConversation, Make
  <2>5. /\ used' \in Nat /\ used' + Cardinality(Owing') <= Cardinality(Texts')
        /\ used' + Cardinality(Admitted') <= Quota + Cardinality(Senders) - 1
    BY <1>2, <1>5, <1>6, <2>3, CountsAre, BoundsAssumption DEF Counting
  <2>6. Cardinality(Charged') + Cardinality(Making')
          <= used' + Cardinality(Owing') + faults' + Cardinality(Senders)
    <3>1. Cardinality(Charged) + Cardinality(Making)
            <= used + Cardinality(Owing) + faults + Cardinality(Senders)
      BY <1>7 DEF Counting
    <3>. QED  BY <1>2, <1>5, <1>6, <2>3, <3>1, CountsAre
  <2>. QED  BY <1>2, <1>5, <1>6, <2>4, <2>5, <2>6 DEF Counting
<1>8. CASE ~conv
  <2>. DEFINE new == send'[s]
  <2>1. /\ new \in Sending /\ new.kind = send[s].kind /\ new.at = "store"
        /\ \A t \in Senders \ {s} : send'[t] = send[t]
    BY <1>1, <1>2, <1>8 DEF SendTo, Typed, Sending, MakeConversation
  <2>2. new # None
    BY <2>1, NoneAssumption
  <2>3. /\ s \in Admitted' <=> s \in Admitted
        /\ s \in Owing' <=> s \in Owing
    BY <1>2, <2>1, <2>2 DEF Admitted, Owing, Making
  <2>4. /\ Cardinality(Owing') = Cardinality(Owing)
        /\ Cardinality(Admitted') = Cardinality(Admitted)
        /\ Cardinality(Making') \in Nat /\ Cardinality(Making') <= Cardinality(Senders)
    BY <2>1, <2>3, CountsNext, CountsAre DEF Bit
  <2>5. Cardinality(Charged) <= used + Cardinality(Owing) + faults
    BY <1>8 DEF Counting
  <2>6. /\ used' \in Nat /\ used' + Cardinality(Owing') <= Cardinality(Texts')
        /\ used' + Cardinality(Admitted') <= Quota + Cardinality(Senders) - 1
        /\ Cardinality(Charged') <= used' + Cardinality(Owing') + faults'
        /\ Cardinality(Charged') + Cardinality(Making')
             <= used' + Cardinality(Owing') + faults' + Cardinality(Senders)
    BY <1>2, <1>5, <1>6, <2>4, <2>5, CountsAre DEF Counting
  <2>. QED  BY <1>2, <1>5, <1>6, <2>6 DEF Counting
<1>. QED  BY <1>7, <1>8

LEMMA CountingStore ==
  ASSUME IInv, Counting, NEW s \in Senders, Store(s) PROVE Counting'
<1>. DEFINE m == send[s].msg
<1>1. Typed /\ Own
  BY DEF IInv
<1>2. /\ send[s] # None /\ send[s].at = "store" /\ send[s] \in Sending /\ m \in Msgs
      /\ send[s].sid \in Sids \cup {None} /\ send[s].kind \in {"now", "scheduled"}
  BY <1>1 DEF Store, Typed, Sending
<1>3. row[m] = None
  BY <1>1, <1>2 DEF Own
<1>4. \A n \in Msgs \ {m} : row'[n] = row[n]
  BY <1>1, <1>2, RowMade DEF Store
<1>5. UNCHANGED <<conv, text, used, past, faults>>
  BY DEF Store
<1>6. Texts' = Texts /\ Charged' \in SUBSET Charged
  BY <1>3, <1>4, <1>5 DEF Texts, Charged
<1>7. /\ faults \in Nat /\ used \in Nat /\ IsFiniteSet(Texts)
      /\ Cardinality(Charged) \in Nat /\ Cardinality(Charged') \in Nat
      /\ Cardinality(Charged') <= Cardinality(Charged)
  BY <1>1, <1>6, BoundsAssumption, ChargedIs DEF Typed, Counting
<1>8. /\ s \notin Making /\ s \notin Making' /\ \A t \in Senders \ {s} : send'[t] = send[t]
      /\ s \in Admitted' <=> s \in Admitted
      /\ s \in Owing' <=> s \in Owing
  <2>1. CASE send[s].kind = "now"
    <3>. DEFINE new == send'[s]
    <3>1. /\ new \in Sending /\ new.kind = "now" /\ new.at = "count"
          /\ \A t \in Senders \ {s} : send'[t] = send[t]
      BY <1>1, <1>2, <2>1 DEF SendTo, Typed, Sending, Store
    <3>2. new # None
      BY <3>1, NoneAssumption
    <3>. QED  BY <1>2, <2>1, <3>1, <3>2 DEF Admitted, Owing, Making
  <2>2. CASE send[s].kind = "scheduled"
    <3>1. send'[s] = None /\ \A t \in Senders \ {s} : send'[t] = send[t]
      BY <1>1, <2>2 DEF Typed, SendTo, Store
    <3>. QED  BY <1>2, <2>2, <3>1 DEF Admitted, Owing, Making
  <2>. QED  BY <1>2, <2>1, <2>2
<1>9. /\ Cardinality(Owing') = Cardinality(Owing)
      /\ Cardinality(Admitted') = Cardinality(Admitted)
      /\ Cardinality(Making') = Cardinality(Making)
  BY <1>8, CountsNext, CountsAre DEF Bit
<1>10. /\ used' \in Nat /\ used' + Cardinality(Owing') <= Cardinality(Texts')
       /\ used' + Cardinality(Admitted') <= Quota + Cardinality(Senders) - 1
  BY <1>5, <1>6, <1>9 DEF Counting
<1>11. ~raced => Cardinality(Charged') <= used' + Cardinality(Owing') + faults'
  BY <1>5, <1>7, <1>9, CountsAre DEF Counting
<1>12. conv => Cardinality(Charged') + Cardinality(Making')
                 <= used' + Cardinality(Owing') + faults' + Cardinality(Senders)
  BY <1>5, <1>7, <1>9, CountsAre DEF Counting
<1>13. (raced' => conv') /\ (raced' <=> raced) /\ (conv' <=> conv)
  BY <1>5, Zenon DEF Counting
<1>. QED  BY <1>6, <1>7, <1>10, <1>11, <1>12, <1>13 DEF Counting

(* A request that ends: counted, or by a failure.                          *)
LEMMA CountingEnds ==
  ASSUME IInv, Counting, NEW s \in Senders, Count(s) \/ SendFails(s) PROVE Counting'
<1>1. Typed /\ Own
  BY DEF IInv
<1>2. /\ send[s] # None /\ send[s].at # "text" /\ SendTo(s, None)
      /\ (Count(s) => send[s].at = "count" /\ send[s].kind = "now")
      /\ UNCHANGED <<row, text, conv, past>>
  BY <1>1 DEF Count, SendFails, Own
<1>3. send'[s] = None /\ \A t \in Senders \ {s} : send'[t] = send[t]
  BY <1>1, <1>2 DEF Typed, SendTo
<1>4. /\ s \notin Admitted' /\ s \notin Owing' /\ s \notin Making'
      /\ (s \in Owing <=> s \in Admitted)
      /\ (Count(s) => s \in Owing /\ s \notin Making)
  BY <1>2, <1>3 DEF Admitted, Owing, Making
<1>5. Texts' = Texts /\ Charged' = Charged
  BY <1>2 DEF Texts, Charged
<1>6. /\ faults \in Nat /\ used \in Nat /\ IsFiniteSet(Texts)
      /\ Cardinality(Texts) \in Nat /\ Cardinality(Charged) \in Nat
  BY <1>1, BoundsAssumption, ChargedIs DEF Typed, Counting
<1>7. /\ used' \in Nat /\ faults' \in Nat
      /\ used' + Cardinality(Owing') <= used + Cardinality(Owing)
      /\ used' + Cardinality(Admitted') <= used + Cardinality(Admitted)
      /\ used' + Cardinality(Owing') + faults' >= used + Cardinality(Owing) + faults
      /\ Cardinality(Making') <= Cardinality(Making)
      /\ Cardinality(Owing') \in Nat /\ Cardinality(Admitted') \in Nat
      /\ Cardinality(Making') \in Nat
  <2>1. CASE Count(s)
    <3>1. used' = used + 1 /\ faults' = faults
      BY <2>1 DEF Count
    <3>. QED  BY <1>3, <1>4, <1>6, <2>1, <3>1, CountsNext, CountsAre DEF Bit
  <2>2. CASE SendFails(s)
    <3>1. used' = used /\ faults' = faults + 1
      BY <2>2 DEF SendFails, Fault
    <3>. QED  BY <1>3, <1>4, <1>6, <3>1, CountsNext, CountsAre DEF Bit
  <2>. QED  BY <2>1, <2>2
<1>8. /\ used' + Cardinality(Owing') <= Cardinality(Texts')
      /\ used' + Cardinality(Admitted') <= Quota + Cardinality(Senders) - 1
  BY <1>5, <1>6, <1>7, CountsAre, BoundsAssumption DEF Counting
<1>9. ~raced => Cardinality(Charged') <= used' + Cardinality(Owing') + faults'
  BY <1>5, <1>6, <1>7, CountsAre DEF Counting
<1>10. conv => Cardinality(Charged') + Cardinality(Making')
                 <= used' + Cardinality(Owing') + faults' + Cardinality(Senders)
  BY <1>5, <1>6, <1>7, CountsAre DEF Counting
<1>11. (raced' => conv') /\ (raced' <=> raced) /\ (conv' <=> conv)
  BY <1>2, Zenon DEF Counting
<1>. QED  BY <1>5, <1>6, <1>7, <1>8, <1>9, <1>10, <1>11 DEF Counting
-----------------------------------------------------------------------------
LEMMA CountingInit == Init => Counting
<1>. SUFFICES ASSUME Init PROVE Counting
  OBVIOUS
<1>1. \A k \in Sids, m \in Msgs : text[k] = None /\ None # m
  BY NoneAssumption DEF Init
<1>2. Texts = {} /\ Charged = {} /\ Owing = {} /\ Admitted = {} /\ Making = {}
  BY <1>1 DEF Texts, Charged, Owing, Admitted, Making, Init
<1>3. IsFiniteSet(Texts) /\ Cardinality(Texts) = 0 /\ Cardinality(Charged) = 0
      /\ Cardinality(Owing) = 0 /\ Cardinality(Admitted) = 0 /\ Cardinality(Making) = 0
  BY <1>2, FS_EmptySet
<1>4. used = 0 /\ faults = 0 /\ ~raced /\ ~conv
  BY DEF Init
<1>. QED  BY <1>3, <1>4, CountsAre, BoundsAssumption DEF Counting

LEMMA CountingInvariance == Spec => []Counting
<1>1. IInv /\ Counting /\ [Next]_vars => Counting'
  <2>. SUFFICES ASSUME IInv, Counting, [Next]_vars PROVE Counting'
    OBVIOUS
  <2>1. ASSUME NEW s \in Senders,
               \/ \E m \in Msgs, kind \in {"now", "scheduled"} : Request(s, m, kind)
               \/ \E k \in Sids : SendText(s, k)
               \/ MakeConversation(s) \/ Store(s) \/ Count(s) \/ SendFails(s)
        PROVE  Counting'
    BY <2>1, CountingRequest, CountingSendText, CountingMakes, CountingStore, CountingEnds
  <2>2. ASSUME NEW j \in Runs,
               \/ StartRun(j) \/ RunUpdate(j) \/ RunCrash(j)
               \/ \E m \in Msgs : RunRefused(j, m) \/ \E k \in Sids : RunText(j, m, k)
        PROVE  Counting'
    BY <2>2, CountingRuns, CountingRewrites
  <2>3. ASSUME NEW h \in Hooks,
               \/ \E m \in Msgs, stop \in BOOLEAN : Inbound(h, m, stop)
               \/ HookMakes(h) \/ HookStores(h) \/ HookOptsOut(h) \/ HookFails(h)
        PROVE  Counting'
    BY <2>3, CountingHooks
  <2>4. ASSUME NEW m \in Msgs, Delete(m) \/ \E status \in Receipts : Receipt(m, status)
        PROVE  Counting'
    BY <2>4, CountingRewrites
  <2>5. CASE UNCHANGED vars
    <3>1. UNCHANGED <<row, send, text, used, conv, past, faults>>
      BY <2>5 DEF vars
    <3>2. Typed
      BY DEF IInv
    <3>. QED  BY <3>1, <3>2, CountingAside
  <2>. QED  BY <2>1, <2>2, <2>3, <2>4, <2>5 DEF Next
<1>. QED  BY <1>1, CountingInit, Invariance, PTL DEF Spec

(* The state keeps its types, and no more requests are counted than texts  *)
(* have gone out (messaging.service.ts:155).                               *)
THEOREM TypeCorrect == Spec => []TypeOK
<1>1. IInv /\ Counting => TypeOK
  <2>. SUFFICES ASSUME IInv, Counting PROVE TypeOK
    OBVIOUS
  <2>1. Typed /\ Cardinality(Texts) \in Nat
    BY FS_CardinalityType DEF IInv, Counting
  <2>. QED  BY <2>1, CountsAre DEF Counting, TypeOK
<1>. QED  BY <1>1, Invariance, CountingInvariance, PTL

(* However many requests pass the check of the quota together, the texts   *)
(* sent for requests exceed it by their number at most, and by one for     *)
(* each failure and each loser of the race for the conversation            *)
(* (messaging.service.ts:91, :155).                                        *)
THEOREM OvershootBounded == Spec => []QuotaOvershoot
<1>1. IInv /\ Counting => QuotaOvershoot
  <2>. SUFFICES ASSUME IInv, Counting PROVE QuotaOvershoot
    OBVIOUS
  <2>1. faults \in Nat /\ used \in Nat /\ Quota \in Nat /\ Cardinality(Charged) \in Nat
    BY BoundsAssumption, ChargedIs DEF IInv, Typed, Counting
  <2>2. CASE raced
    <3>1. Cardinality(Charged) + Cardinality(Making)
            <= used + Cardinality(Owing) + faults + Cardinality(Senders)
      BY <2>2 DEF Counting
    <3>2. Cardinality(Charged) <= Quota + Cardinality(Senders) - 1 + faults
                                    + Cardinality(Senders)
      BY <2>1, <3>1, CountsAre DEF Counting
    <3>. QED  BY <2>2, <3>2 DEF QuotaOvershoot
  <2>3. CASE ~raced
    <3>1. Cardinality(Charged) <= Quota + Cardinality(Senders) - 1 + faults
      BY <2>1, <2>3, CountsAre DEF Counting
    <3>2. (IF raced THEN Cardinality(Senders) ELSE 0) = 0
      BY <2>3
    <3>. QED  BY <2>1, <3>1, <3>2, CountsAre DEF QuotaOvershoot
  <2>. QED  BY <2>2, <2>3
<1>. QED  BY <1>1, Invariance, CountingInvariance, PTL
-----------------------------------------------------------------------------
(* What is left out. A step is about one message: it forgets no other.     *)
LEMMA ForgetsOne ==
  ASSUME NEW m, losers \subseteq losers', optedOut => optedOut',
         \A n \in Msgs \ {m} :
           /\ row'[n] = None => row[n] = None
           /\ n \in stops' => n \in stops
           /\ \A k \in Sids : text'[k] = n => text[k] = n
           /\ (\E p \in Working : p.msg = n) => \E p \in Working' : p.msg = n
  PROVE  Forgotten' \subseteq Forgotten \cup {m}
BY DEF Forgotten

LEMMA WorkingNext ==
  ASSUME NEW m
  PROVE  (\E p \in Working' : p.msg = m) <=>
           \/ \E s \in Senders : send'[s] # None /\ send'[s].msg = m
           \/ \E h \in Hooks : hook'[h] # None /\ hook'[h].msg = m
BY DEF Working

(* It leaves none out, or one when a call has failed.                      *)
Tallied ==
  \/ Forgotten' \subseteq Forgotten /\ (UNCHANGED faults \/ Fault)
  \/ Fault /\ \E m : Forgotten' \subseteq Forgotten \cup {m}

LEMMA TalliedKeeps ==
  ASSUME Typed, IsFiniteSet(Forgotten), Cardinality(Forgotten) <= faults, Tallied
  PROVE  IsFiniteSet(Forgotten') /\ Cardinality(Forgotten') <= faults'
<1>1. faults \in Nat /\ Cardinality(Forgotten) \in Nat
  BY BoundsAssumption, FS_CardinalityType DEF Typed
<1>2. CASE Forgotten' \subseteq Forgotten /\ (UNCHANGED faults \/ Fault)
  <2>1. faults' >= faults /\ faults' \in Nat
    BY <1>1, <1>2 DEF Fault
  <2>2. /\ IsFiniteSet(Forgotten') /\ Cardinality(Forgotten') \in Nat
        /\ Cardinality(Forgotten') <= Cardinality(Forgotten)
    BY <1>2, FS_Subset, FS_CardinalityType
  <2>. QED  BY <1>1, <2>1, <2>2
<1>3. ASSUME Fault, NEW m, Forgotten' \subseteq Forgotten \cup {m}
      PROVE  IsFiniteSet(Forgotten') /\ Cardinality(Forgotten') <= faults'
  <2>1. /\ IsFiniteSet(Forgotten \cup {m})
        /\ Cardinality(Forgotten \cup {m}) = IF m \in Forgotten THEN Cardinality(Forgotten)
                                             ELSE Cardinality(Forgotten) + 1
    BY FS_AddElement
  <2>2. /\ IsFiniteSet(Forgotten')
        /\ Cardinality(Forgotten') <= Cardinality(Forgotten \cup {m})
    BY <1>3, <2>1, FS_Subset
  <2>3. Cardinality(Forgotten') \in Nat
    BY <2>2, FS_CardinalityType
  <2>. QED  BY <1>1, <1>3, <2>1, <2>2, <2>3 DEF Fault
<1>. QED  BY <1>2, <1>3 DEF Tallied

(* The race: how many want to make the conversation.                       *)
LEMMA MakersAre ==
  /\ Cardinality(Making) \in Nat /\ Cardinality(HookMaking) \in Nat
  /\ Cardinality(Making) <= Cardinality(Senders) /\ Cardinality(Senders) \in Nat
  /\ Cardinality(HookMaking) <= Cardinality(Hooks) /\ Cardinality(Hooks) \in Nat
<1>1. Making \in SUBSET Senders /\ HookMaking \in SUBSET Hooks
  BY DEF Making, HookMaking
<1>2. IsFiniteSet(Making) /\ IsFiniteSet(HookMaking)
  BY <1>1, SendersAssumption, FS_Subset
<1>. QED  BY <1>1, <1>2, SendersAssumption, FS_Subset, FS_CardinalityType

Racing ==
  /\ IsFiniteSet(losers) /\ (losers # {} => conv)
  /\ conv => Cardinality(losers) + Cardinality(Making) + Cardinality(HookMaking)
               < Cardinality(Senders) + Cardinality(Hooks)

(* Nobody new wants to, once the conversation is there.                    *)
LEMMA RacingAside ==
  ASSUME Racing, UNCHANGED <<conv, losers>>,
         conv => Making' \subseteq Making /\ HookMaking' \subseteq HookMaking
  PROVE  Racing'
<1>1. IsFiniteSet(Making) /\ IsFiniteSet(HookMaking)
  <2>1. Making \in SUBSET Senders /\ HookMaking \in SUBSET Hooks
    BY DEF Making, HookMaking
  <2>. QED  BY <2>1, SendersAssumption, FS_Subset
<1>2. conv => /\ Cardinality(Making') <= Cardinality(Making) /\ Cardinality(Making') \in Nat
              /\ Cardinality(HookMaking') <= Cardinality(HookMaking)
              /\ Cardinality(HookMaking') \in Nat
  BY <1>1, FS_Subset, FS_CardinalityType
<1>3. Cardinality(losers) \in Nat
  BY FS_CardinalityType DEF Racing
<1>. QED  BY <1>2, <1>3, MakersAre DEF Racing

(* One that wanted to has made it, or has lost; it wants to no more.       *)
LEMMA RacingMade ==
  ASSUME Racing, NEW m, conv', losers' = IF conv THEN losers \cup {m} ELSE losers,
         \/ \E s \in Making : Making' = Making \ {s} /\ UNCHANGED HookMaking
         \/ \E h \in HookMaking : HookMaking' = HookMaking \ {h} /\ UNCHANGED Making
  PROVE  Racing'
<1>1. IsFiniteSet(Making) /\ IsFiniteSet(HookMaking)
  <2>1. Making \in SUBSET Senders /\ HookMaking \in SUBSET Hooks
    BY DEF Making, HookMaking
  <2>. QED  BY <2>1, SendersAssumption, FS_Subset
<1>2. Cardinality(Making') + Cardinality(HookMaking')
        = Cardinality(Making) + Cardinality(HookMaking) - 1
  <2>1. ASSUME NEW s \in Making, Making' = Making \ {s}
        PROVE  Cardinality(Making') = Cardinality(Making) - 1
    BY <1>1, <2>1, FS_RemoveElement
  <2>2. ASSUME NEW h \in HookMaking, HookMaking' = HookMaking \ {h}
        PROVE  Cardinality(HookMaking') = Cardinality(HookMaking) - 1
    BY <1>1, <2>2, FS_RemoveElement
  <2>. QED  BY <2>1, <2>2, MakersAre
<1>3. Cardinality(Making') \in Nat /\ Cardinality(HookMaking') \in Nat
  BY <1>1, FS_Subset, FS_CardinalityType
<1>4. CASE conv
  <2>1. /\ IsFiniteSet(losers')
        /\ Cardinality(losers') \in {Cardinality(losers), Cardinality(losers) + 1}
    BY <1>4, FS_AddElement DEF Racing
  <2>2. Cardinality(losers) \in Nat
    BY FS_CardinalityType DEF Racing
  <2>. QED  BY <1>2, <1>3, <1>4, <2>1, <2>2, MakersAre DEF Racing
<1>5. CASE ~conv
  <2>1. losers = {} /\ losers' = {} /\ Cardinality(losers') = 0 /\ IsFiniteSet(losers')
    BY <1>5, FS_EmptySet DEF Racing
  <2>. QED  BY <1>2, <1>3, <2>1, MakersAre DEF Racing
<1>. QED  BY <1>4, <1>5

(* What a webhook under way is about, and what a request is not.           *)
Said ==
  /\ \A h \in Hooks : hook[h] # None => (hook[h].stop <=> hook[h].msg \in stops)
  /\ \A s \in Senders : send[s] # None => send[s].msg \notin stops

LEMMA RecordingIs ==
  Recording <=> Said /\ IsFiniteSet(Forgotten) /\ Cardinality(Forgotten) <= faults /\ Racing
BY DEF Recording, Said, Racing

LEMMA RecordingNext ==
  ASSUME IInv, Recording, Said', Tallied, Racing' PROVE Recording'
BY TalliedKeeps DEF Recording, Said, Racing, IInv

(* Steps of the job, deletions and receipts.                               *)
LEMMA RecordingRuns ==
  ASSUME IInv, Recording,
         \/ \E j \in Runs : \/ StartRun(j) \/ RunUpdate(j) \/ RunCrash(j)
                            \/ \E m \in Msgs : \/ RunRefused(j, m)
                                               \/ \E k \in Sids : RunText(j, m, k)
         \/ \E m \in Msgs : Delete(m) \/ \E status \in Receipts : Receipt(m, status)
  PROVE  Recording'
<1>1. Typed /\ Batched /\ Said /\ Racing
  BY RecordingIs DEF IInv
<1>2. UNCHANGED <<conv, optedOut, send, hook, past>> /\ (UNCHANGED faults \/ Fault)
  BY DEF StartRun, RunUpdate, RunCrash, RunRefused, RunText, Delete, Receipt
<1>3. Said' /\ Working' = Working /\ Making' = Making /\ HookMaking' = HookMaking
  BY <1>1, <1>2 DEF Said, Working, Making, HookMaking
<1>4. Racing'
  BY <1>1, <1>2, <1>3, RacingAside
<1>5. Forgotten' \subseteq Forgotten
  <2>1. ASSUME NEW j \in Runs, NEW m \in Msgs, NEW k \in Sids, RunText(j, m, k)
        PROVE  Forgotten' \subseteq Forgotten
    <3>1. row[m] # None /\ UNCHANGED row /\ \A l \in Sids : text'[l] # text[l] => text'[l] = m
      BY <1>1, <2>1 DEF RunText, Batched, Accepted, Typed
    <3>. QED  BY <1>2, <1>3, <3>1 DEF Forgotten
  <2>2. CASE UNCHANGED text /\ RowsKept
    BY <1>2, <1>3, <2>2 DEF Forgotten, RowsKept
  <2>3. ASSUME NEW j \in Runs, StartRun(j) \/ RunCrash(j) PROVE UNCHANGED text /\ RowsKept
    BY <1>1, <2>3 DEF StartRun, RunCrash, RowsKept, Typed
  <2>4. ASSUME \/ \E j \in Runs : RunUpdate(j) \/ \E m \in Msgs : RunRefused(j, m)
               \/ \E m \in Msgs : Delete(m) \/ \E status \in Receipts : Receipt(m, status)
        PROVE  UNCHANGED text /\ RowsKept
    BY <2>4, UpdatesKeepRows DEF RunUpdate, RunRefused, Delete, Receipt
  <2>. QED  BY <2>1, <2>2, <2>3, <2>4
<1>. QED  BY <1>2, <1>3, <1>4, <1>5, RecordingNext DEF Tallied

(* Steps of a request leave the webhooks and the other requests alone.     *)
LEMMA RequestForgets ==
  ASSUME IInv, Recording, NEW s \in Senders, NEW m \in Msgs,
         UNCHANGED <<hook, stops, optedOut>>, losers \subseteq losers',
         \A t \in Senders \ {s} : send'[t] = send[t],
         send[s] # None => send[s].msg = m,
         send'[s] # None => send'[s].msg = m, m \notin stops,
         \A n \in Msgs \ {m} : row'[n] = row[n],
         \A k \in Sids : text'[k] = text[k] \/ text'[k] = m
  PROVE  Said' /\ Forgotten' \subseteq Forgotten \cup {m}
<1>1. Said
  BY RecordingIs
<1>2. Said'
  BY <1>1 DEF Said
<1>3. \A n \in Msgs \ {m} : (\E p \in Working : p.msg = n) => \E p \in Working' : p.msg = n
  BY WorkingIs, WorkingNext
<1>. QED  BY <1>2, <1>3, ForgetsOne

LEMMA RecordingRequests ==
  ASSUME IInv, Recording, NEW s \in Senders,
         \/ \E m \in Msgs, kind \in {"now", "scheduled"} : Request(s, m, kind)
         \/ \E k \in Sids : SendText(s, k)
         \/ MakeConversation(s) \/ Store(s) \/ Count(s) \/ SendFails(s)
  PROVE  Recording'
<1>1. Typed /\ Own /\ Said /\ Racing
  BY RecordingIs DEF IInv
<1>2. ASSUME NEW m \in Msgs, NEW kind \in {"now", "scheduled"}, Request(s, m, kind)
      PROVE  Recording'
  <2>. DEFINE new == send'[s]
  <2>1. /\ new \in Sending /\ new.msg = m /\ (new.at = "create" => ~conv)
        /\ \A t \in Senders \ {s} : send'[t] = send[t]
    BY <1>1, <1>2 DEF Request, SendTo, Find, Typed, Sending
  <2>2. new # None /\ m \notin stops /\ send[s] = None
    BY <1>2, <2>1, NoneAssumption DEF Request, Free
  <2>3. UNCHANGED <<row, conv, text, optedOut, hook, past, faults>>
    BY <1>2 DEF Request
  <2>4. Said' /\ Forgotten' \subseteq Forgotten \cup {m}
    BY <2>1, <2>2, <2>3, RequestForgets
  <2>5. m \notin Forgotten'
    BY <2>1, <2>2, WorkingNext DEF Forgotten
  <2>6. Racing'
    BY <1>1, <2>1, <2>2, <2>3, RacingAside DEF Making, HookMaking
  <2>. QED  BY <2>3, <2>4, <2>5, <2>6, RecordingNext DEF Tallied
<1>. DEFINE m == send[s].msg
<1>3. ASSUME send[s] # None PROVE m \in Msgs /\ m \notin stops /\ send[s] \in Sending
  BY <1>1, <1>3 DEF Typed, Sending, Said
<1>4. ASSUME NEW k \in Sids, SendText(s, k) PROVE Recording'
  <2>1. /\ UNCHANGED <<row, conv, optedOut, hook, past>> /\ send[s] # None
        /\ send[s].at = "text"
    BY <1>4 DEF SendText
  <2>2. CASE /\ Accepted(k, m) /\ SendTo(s, Find([send[s] EXCEPT !.sid = k]))
             /\ UNCHANGED faults
    <3>. DEFINE new == send'[s]
    <3>1. /\ new \in Sending /\ new.msg = m /\ (new.at = "create" => ~conv)
          /\ \A t \in Senders \ {s} : send'[t] = send[t]
      BY <1>1, <1>3, <2>1, <2>2 DEF SendTo, Find, Typed, Sending
    <3>2. new # None /\ \A l \in Sids : text'[l] = text[l] \/ text'[l] = m
      BY <1>1, <2>2, <3>1, NoneAssumption DEF Accepted, Typed
    <3>3. Said' /\ Forgotten' \subseteq Forgotten \cup {m}
      BY <1>3, <2>1, <3>1, <3>2, RequestForgets
    <3>4. m \notin Forgotten'
      BY <3>1, <3>2, WorkingNext DEF Forgotten
    <3>5. Racing'
      BY <1>1, <2>1, <3>1, <3>2, RacingAside DEF Making, HookMaking
    <3>. QED  BY <2>2, <3>3, <3>4, <3>5, RecordingNext DEF Tallied
  <2>3. CASE Fault /\ SendTo(s, None) /\ UNCHANGED text
    <3>1. send'[s] = None /\ \A t \in Senders \ {s} : send'[t] = send[t]
      BY <1>1, <2>3 DEF Typed, SendTo
    <3>2. Said' /\ Forgotten' \subseteq Forgotten \cup {m}
      BY <1>3, <2>1, <2>3, <3>1, RequestForgets
    <3>3. Racing'
      BY <1>1, <2>1, <3>1, RacingAside DEF Making, HookMaking
    <3>. QED  BY <2>3, <3>2, <3>3, RecordingNext DEF Tallied
  <2>. QED  BY <1>4, <2>2, <2>3 DEF SendText
<1>5. CASE MakeConversation(s)
  <2>1. /\ UNCHANGED <<row, text, optedOut, hook, stops, faults>> /\ send[s] # None /\ conv'
        /\ losers' = (IF conv THEN losers \cup {m} ELSE losers) /\ send[s].at = "create"
    BY <1>5 DEF MakeConversation, Make
  <2>2. /\ \A t \in Senders \ {s} : send'[t] = send[t]
        /\ send'[s] # None => send'[s].msg = m /\ send'[s].at = "store"
        /\ ~conv => send'[s] # None
    <3>1. CASE conv
      BY <1>1, <1>5, <3>1 DEF MakeConversation, SendTo, Typed
    <3>2. CASE ~conv
      <4>1. /\ send'[s] \in Sending /\ send'[s].msg = m /\ send'[s].at = "store"
            /\ \A t \in Senders \ {s} : send'[t] = send[t]
        BY <1>1, <1>3, <1>5, <2>1, <3>2 DEF MakeConversation, SendTo, Typed, Sending
      <4>. QED  BY <4>1, NoneAssumption
    <3>. QED  BY <3>1, <3>2
  <2>3. Said' /\ Forgotten' \subseteq Forgotten \cup {m}
    BY <1>3, <2>1, <2>2, RequestForgets
  <2>4. m \notin Forgotten'
    BY <2>1, <2>2, WorkingNext DEF Forgotten
  <2>5. s \in Making /\ Making' = Making \ {s} /\ HookMaking' = HookMaking
    BY <2>1, <2>2 DEF Making, HookMaking
  <2>6. Racing'
    BY <1>1, <2>1, <2>5, RacingMade
  <2>. QED  BY <2>1, <2>3, <2>4, <2>6, RecordingNext DEF Tallied
<1>6. CASE Store(s)
  <2>1. /\ UNCHANGED <<conv, text, optedOut, hook, past, faults>> /\ send[s] # None
        /\ send[s].at = "store" /\ send[s].kind \in {"now", "scheduled"}
        /\ send[s].sid \in Sids \cup {None}
    BY <1>3, <1>6 DEF Store, Sending
  <2>2. row'[m] # None /\ \A n \in Msgs \ {m} : row'[n] = row[n]
    BY <1>1, <1>3, <1>6, <2>1, RowMade DEF Store
  <2>3. /\ \A t \in Senders \ {s} : send'[t] = send[t]
        /\ send'[s] # None => send'[s].msg = m /\ send'[s].at = "count"
    BY <1>1, <1>3, <1>6, <2>1 DEF Store, SendTo, Typed, Sending
  <2>4. Said' /\ Forgotten' \subseteq Forgotten \cup {m}
    BY <1>3, <2>1, <2>2, <2>3, RequestForgets
  <2>5. m \notin Forgotten'
    BY <1>3, <2>1, <2>2 DEF Forgotten
  <2>6. Racing'
    BY <1>1, <2>1, <2>3, RacingAside DEF Making, HookMaking
  <2>. QED  BY <2>1, <2>4, <2>5, <2>6, RecordingNext DEF Tallied
<1>7. CASE Count(s) \/ SendFails(s)
  <2>1. /\ UNCHANGED <<row, conv, text, optedOut, hook, past>> /\ send[s] # None
        /\ SendTo(s, None)
    BY <1>7 DEF Count, SendFails
  <2>2. send'[s] = None /\ \A t \in Senders \ {s} : send'[t] = send[t]
    BY <1>1, <2>1 DEF Typed, SendTo
  <2>3. Said' /\ Forgotten' \subseteq Forgotten \cup {m}
    BY <1>3, <2>1, <2>2, RequestForgets
  <2>4. Racing'
    BY <1>1, <2>1, <2>2, RacingAside DEF Making, HookMaking
  <2>5. CASE Count(s)
    <3>1. row[m] # None /\ UNCHANGED faults
      BY <1>1, <2>5 DEF Own, Count
    <3>2. m \notin Forgotten'
      BY <1>3, <2>1, <3>1 DEF Forgotten
    <3>. QED  BY <2>3, <2>4, <3>1, <3>2, RecordingNext DEF Tallied
  <2>6. CASE SendFails(s)
    BY <2>3, <2>4, <2>6, RecordingNext DEF Tallied, SendFails
  <2>. QED  BY <1>7, <2>5, <2>6
<1>. QED  BY <1>2, <1>4, <1>5, <1>6, <1>7

(* The webhooks.                                                           *)
LEMMA HookForgets ==
  ASSUME IInv, Recording, NEW h \in Hooks, NEW m \in Msgs,
         UNCHANGED <<send, text>>, losers \subseteq losers', optedOut => optedOut',
         \A g \in Hooks \ {h} : hook'[g] = hook[g],
         hook[h] # None => hook[h].msg = m,
         hook'[h] # None => hook'[h].msg = m /\ (hook'[h].stop <=> m \in stops'),
         \A g \in Hooks \ {h} : hook[g] # None => hook[g].msg # m,
         \A s \in Senders : send[s] # None => send[s].msg # m,
         \A n \in Msgs \ {m} : row'[n] = row[n] /\ (n \in stops' <=> n \in stops)
  PROVE  Said' /\ Forgotten' \subseteq Forgotten \cup {m}
<1>1. Said /\ Typed
  BY RecordingIs DEF IInv
<1>2. Said'
  BY <1>1 DEF Said, Typed, Sending, Hooking
<1>3. \A n \in Msgs \ {m} : (\E p \in Working : p.msg = n) => \E p \in Working' : p.msg = n
  BY WorkingIs, WorkingNext
<1>. QED  BY <1>2, <1>3, ForgetsOne

LEMMA RecordingHooks ==
  ASSUME IInv, Recording, NEW h \in Hooks,
         \/ \E m \in Msgs, stop \in BOOLEAN : Inbound(h, m, stop)
         \/ HookMakes(h) \/ HookStores(h) \/ HookOptsOut(h) \/ HookFails(h)
  PROVE  Recording'
<1>1. Typed /\ Own /\ Said /\ Racing
  BY RecordingIs DEF IInv
<1>2. ASSUME NEW m \in Msgs, NEW stop \in BOOLEAN, Inbound(h, m, stop) PROVE Recording'
  <2>. DEFINE new == hook'[h]
  <2>1. /\ new \in Hooking /\ new.msg = m /\ new.stop = stop /\ (new.at = "create" => ~conv)
        /\ \A g \in Hooks \ {h} : hook'[g] = hook[g]
    BY <1>1, <1>2 DEF Inbound, HookTo, Find, Typed, Hooking
  <2>2. /\ new # None /\ m \notin stops /\ hook[h] = None
        /\ (\A g \in Hooks \ {h} : hook[g] # None => hook[g].msg # m)
        /\ (\A s \in Senders : send[s] # None => send[s].msg # m)
    BY <1>2, <2>1, NoneAssumption, FreeIs DEF Inbound, Free
  <2>3. /\ UNCHANGED <<row, conv, text, optedOut, send, losers, faults>>
        /\ stops' = IF stop THEN stops \cup {m} ELSE stops
    BY <1>2 DEF Inbound
  <2>4. Said' /\ Forgotten' \subseteq Forgotten \cup {m}
    BY <2>1, <2>2, <2>3, HookForgets
  <2>5. m \notin Forgotten'
    BY <2>1, <2>2, WorkingNext DEF Forgotten
  <2>6. Racing'
    BY <1>1, <2>1, <2>2, <2>3, RacingAside DEF Making, HookMaking
  <2>. QED  BY <2>3, <2>4, <2>5, <2>6, RecordingNext DEF Tallied
<1>. DEFINE m == hook[h].msg
<1>3. ASSUME hook[h] # None
      PROVE  /\ m \in Msgs /\ (hook[h].stop <=> m \in stops) /\ hook[h] \in Hooking
             /\ \A g \in Hooks \ {h} : hook[g] # None => hook[g].msg # m
             /\ \A s \in Senders : send[s] # None => send[s].msg # m
  BY <1>1, <1>3 DEF Typed, Hooking, Said, Own
<1>4. CASE HookMakes(h)
  <2>1. /\ UNCHANGED <<row, text, optedOut, send, stops, faults>> /\ hook[h] # None /\ conv'
        /\ losers' = (IF conv THEN losers \cup {m} ELSE losers) /\ hook[h].at = "create"
    BY <1>4 DEF HookMakes, Make
  <2>2. /\ \A g \in Hooks \ {h} : hook'[g] = hook[g]
        /\ hook'[h] # None => /\ hook'[h].msg = m /\ hook'[h].at = "store"
                              /\ hook'[h].stop = hook[h].stop
        /\ ~conv => hook'[h] # None
    <3>1. CASE conv
      BY <1>1, <1>4, <3>1 DEF HookMakes, HookTo, Typed
    <3>2. CASE ~conv
      <4>1. /\ hook'[h] \in Hooking /\ hook'[h].msg = m /\ hook'[h].at = "store"
            /\ hook'[h].stop = hook[h].stop
            /\ \A g \in Hooks \ {h} : hook'[g] = hook[g]
        BY <1>1, <1>3, <1>4, <2>1, <3>2 DEF HookMakes, HookTo, Typed, Hooking
      <4>. QED  BY <4>1, NoneAssumption
    <3>. QED  BY <3>1, <3>2
  <2>3. Said' /\ Forgotten' \subseteq Forgotten \cup {m}
    BY <1>3, <2>1, <2>2, HookForgets
  <2>4. m \notin Forgotten'
    BY <2>1, <2>2, WorkingNext DEF Forgotten
  <2>5. h \in HookMaking /\ HookMaking' = HookMaking \ {h} /\ Making' = Making
    BY <2>1, <2>2 DEF Making, HookMaking
  <2>6. Racing'
    BY <1>1, <2>1, <2>5, RacingMade
  <2>. QED  BY <2>1, <2>3, <2>4, <2>6, RecordingNext DEF Tallied
<1>5. CASE HookStores(h)
  <2>. DEFINE kind == IF hook[h].stop THEN "stop" ELSE "inbound"
  <2>1. /\ UNCHANGED <<conv, text, optedOut, send, past, faults>> /\ hook[h] # None
        /\ hook[h].at = "store"
    BY <1>5 DEF HookStores
  <2>2. row'[m] # None /\ \A n \in Msgs \ {m} : row'[n] = row[n]
    BY <1>1, <1>3, <1>5, <2>1, RowMade DEF HookStores
  <2>3. /\ \A g \in Hooks \ {h} : hook'[g] = hook[g]
        /\ hook'[h] # None => /\ hook'[h].msg = m /\ hook'[h].at = "optout"
                              /\ hook'[h].stop = hook[h].stop
        /\ hook[h].stop => hook'[h] # None
    <3>1. CASE hook[h].stop
      <4>1. /\ hook'[h] \in Hooking /\ hook'[h].msg = m /\ hook'[h].at = "optout"
            /\ hook'[h].stop = hook[h].stop
            /\ \A g \in Hooks \ {h} : hook'[g] = hook[g]
        BY <1>1, <1>3, <1>5, <2>1, <3>1 DEF HookStores, HookTo, Typed, Hooking
      <4>. QED  BY <4>1, NoneAssumption
    <3>2. CASE ~hook[h].stop
      BY <1>1, <1>5, <3>2 DEF HookStores, HookTo, Typed
    <3>. QED  BY <3>1, <3>2
  <2>4. Said' /\ Forgotten' \subseteq Forgotten \cup {m}
    BY <1>3, <2>1, <2>2, <2>3, HookForgets
  <2>5. m \notin Forgotten'
    <3>1. CASE hook[h].stop
      BY <2>3, <3>1, WorkingNext DEF Forgotten
    <3>2. CASE ~hook[h].stop
      BY <1>3, <2>1, <2>2, <3>2 DEF Forgotten
    <3>. QED  BY <3>1, <3>2
  <2>6. Racing'
    BY <1>1, <2>1, <2>3, RacingAside DEF Making, HookMaking
  <2>. QED  BY <2>1, <2>4, <2>5, <2>6, RecordingNext DEF Tallied
<1>6. CASE HookOptsOut(h) \/ HookFails(h)
  <2>1. /\ UNCHANGED <<row, conv, text, send, past>> /\ hook[h] # None
        /\ HookTo(h, None) /\ (optedOut => optedOut')
    BY <1>6 DEF HookOptsOut, HookFails
  <2>2. hook'[h] = None /\ \A g \in Hooks \ {h} : hook'[g] = hook[g]
    BY <1>1, <2>1 DEF Typed, HookTo
  <2>3. Said' /\ Forgotten' \subseteq Forgotten \cup {m}
    BY <1>3, <2>1, <2>2, HookForgets
  <2>4. Racing'
    BY <1>1, <2>1, <2>2, RacingAside DEF Making, HookMaking
  <2>5. CASE HookOptsOut(h)
    <3>1. row[m] # None /\ UNCHANGED faults /\ optedOut'
      BY <1>1, <2>5 DEF Own, HookOptsOut
    <3>2. m \notin Forgotten'
      BY <2>1, <3>1 DEF Forgotten
    <3>. QED  BY <2>3, <2>4, <3>1, <3>2, RecordingNext DEF Tallied
  <2>6. CASE HookFails(h)
    BY <2>3, <2>4, <2>6, RecordingNext DEF Tallied, HookFails
  <2>. QED  BY <1>6, <2>5, <2>6
<1>. QED  BY <1>2, <1>4, <1>5, <1>6

(* No more texts and STOPs are left out than calls have failed, and those  *)
(* of the callers that lost the race for the conversation, for any number  *)
(* of requests and webhooks; and of those that wanted to make it, one at   *)
(* least has not lost (messaging.service.ts:123, :248,                     *)
(* sms-webhook.controller.ts:79, :114).                                    *)
THEOREM RecordedHolds == Spec => []Recorded
<1>1. Init => Recording
  <2>. SUFFICES ASSUME Init PROVE Recording
    OBVIOUS
  <2>1. Forgotten = {} /\ losers = {} /\ faults = 0 /\ ~conv
    BY NoneAssumption DEF Init, Forgotten
  <2>2. IsFiniteSet({}) /\ Cardinality({}) = 0
    BY FS_EmptySet
  <2>. QED  BY <2>1, <2>2 DEF Recording, Init
<1>2. IInv /\ Recording /\ [Next]_vars => Recording'
  <2>. SUFFICES ASSUME IInv, Recording, [Next]_vars PROVE Recording'
    OBVIOUS
  <2>1. CASE UNCHANGED vars
    BY <2>1 DEF vars, Recording, Forgotten, Working, Making, HookMaking
  <2>2. CASE Next
    BY <2>2, RecordingRequests, RecordingRuns, RecordingHooks DEF Next
  <2>. QED  BY <2>1, <2>2
<1>3. IInv /\ Recording => Recorded
  <2>. SUFFICES ASSUME Recording, losers # {}
                PROVE  Cardinality(losers) < Cardinality(Senders) + Cardinality(Hooks)
    BY DEF Recording, Recorded
  <2>1. Cardinality(losers) \in Nat
    BY FS_CardinalityType DEF Recording
  <2>. QED  BY <2>1, MakersAre DEF Recording
<1>. QED  BY <1>1, <1>2, <1>3, Invariance, PTL DEF Spec
=============================================================================
