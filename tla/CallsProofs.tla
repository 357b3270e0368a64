----------------------------- MODULE CallsProofs ----------------------------
(***************************************************************************)
(* The invariants of Calls, for every set of calls and of providers, and   *)
(* every number of webhooks that come again or are lost, and of writes     *)
(* that fail.                                                              *)
(***************************************************************************)
EXTENDS Calls, FiniteSetTheorems, TLAPS

USE DEF world, saved, past

LEMMA ReadingsTyped ==
  /\ \A p : \A at \in Under \cup Ends : Readings(p, at) \subseteq Statuses
  /\ \A p : \A at \in Under :
       Readings(p, at) \cap {"completed", "no-answer", "failed", "busy"} = {}
<1>1. ASSUME NEW p, NEW at \in Under PROVE Readings(p, at) = {at}
  BY DEF Readings, Under, Ends
<1>2. \A at \in Under : at \in Statuses /\ at \notin {"completed", "no-answer", "failed", "busy"}
  BY DEF Under, Ends, Statuses
<1>3. ASSUME NEW p, NEW at \in Ends PROVE Readings(p, at) \subseteq Statuses
  <2>. DEFINE named == IF at = "canceled" THEN "failed" ELSE at
  <2>1. at \notin Under /\ {named, "completed"} \subseteq Statuses
    BY DEF Under, Ends, Statuses
  <2>2. Readings(p, at) \subseteq {named, "completed"}
    BY <2>1 DEF Readings
  <2>. QED  BY <2>1, <2>2
<1>. QED  BY <1>1, <1>2, <1>3

LEMMA RankTyped ==
  /\ \A at : Rank(at) \in 0..5
  /\ \A at \in Ends : Rank(at) = 5
  /\ \A at \in Under : Rank(at) < 5
<1>1. \A at : Rank(at) \in 0..5
  BY DEF Rank
<1>2. \A at \in Ends : Rank(at) = 5
  BY DEF Rank, Ends
<1>3. \A at \in Under : Rank(at) < 5
  BY DEF Rank, Under
<1>. QED  BY <1>1, <1>2, <1>3

LEMMA UrlsTyped == TypeOK => reports \in {"voice", "status"}
BY DEF TypeOK, Urls

(* What comes of a webhook that is handled.                                *)
LEMMA HandledTyped ==
  ASSUME TypeOK, NEW w \in wire, Handled(w)
  PROVE  /\ w \in Hook /\ wire' \subseteq wire /\ wire \ {w} \subseteq wire'
         /\ again' \in [Calls -> 0..MaxAgain]
         /\ \A c \in Calls : again'[c] >= again[c]
         /\ w \notin wire' \/ again'[w.call] = again[w.call] + 1
<1>1. w \in Hook /\ w.call \in Calls /\ again \in [Calls -> 0..MaxAgain] /\ MaxAgain \in Nat
  BY BoundsAssumption DEF TypeOK, Hook
<1>2. CASE wire' = wire \ {w} /\ UNCHANGED again
  BY <1>1, <1>2
<1>3. CASE /\ again[w.call] < MaxAgain /\ again' = [again EXCEPT ![w.call] = @ + 1]
           /\ UNCHANGED wire
  BY <1>1, <1>3
<1>. QED  BY <1>2, <1>3 DEF Handled

LEMMA FaultTyped ==
  ASSUME TypeOK, Fault PROVE faults' \in 0..MaxFaults
BY BoundsAssumption DEF TypeOK, Fault

(* How far the webhooks of a call have come.                               *)
LEMMA ReachedTyped ==
  ASSUME TypeOK, NEW w \in wire, Reached(w)
  PROVE  /\ seen' \in [Calls -> 0..5] /\ late' \in Nat
         /\ \A e \in Calls \ {w.call} : seen'[e] = seen[e]
         /\ late' > late \/ (late' = late /\ seen[w.call] <= Rank(w.at))
         /\ seen'[w.call] >= Rank(w.at) /\ seen'[w.call] >= seen[w.call]
<1>1. w.call \in Calls /\ seen \in [Calls -> 0..5] /\ late \in Nat
  BY DEF TypeOK, Hook
<1>2. Rank(w.at) \in 0..5
  BY RankTyped
<1>3. CASE seen[w.call] < Rank(w.at)
  <2>1. seen' = [seen EXCEPT ![w.call] = Rank(w.at)] /\ late' = late
    BY <1>1, <1>2, <1>3 DEF Reached
  <2>. QED  BY <1>1, <1>2, <1>3, <2>1
<1>4. CASE ~(seen[w.call] < Rank(w.at))
  <2>1. seen' = seen /\ late' = IF Rank(w.at) < seen[w.call] THEN late + 1 ELSE late
    BY <1>4 DEF Reached
  <2>. QED  BY <1>1, <1>2, <1>4, <2>1
<1>. QED  BY <1>3, <1>4

(* The types.                                                              *)
LEMMA TypeVoice ==
  ASSUME TypeOK, NEW w \in wire, Voice(w)
  PROVE  TypeOK'
<1>1. w.call \in Calls
  BY DEF TypeOK, Hook
<1>2. /\ wire' \subseteq wire /\ again' \in [Calls -> 0..MaxAgain]
      /\ seen' \in [Calls -> 0..5] /\ late' \in Nat
  BY HandledTyped, ReachedTyped DEF Voice
<1>3. CASE Rejected(w.call)
  BY <1>2, <1>3 DEF TypeOK, Rejected, Voice
<1>4. CASE Recorded(w.call)
  <2>1. RowOf(w.call) \in Row
    BY DEF RowOf, Row, Statuses, Under
  <2>2. row' \in [Calls -> Row \cup {None}] /\ rings' \in [Calls -> Nat]
    BY <1>1, <1>4, <2>1 DEF Recorded, Announced, TypeOK
  <2>. QED  BY <1>2, <1>4, <2>2 DEF TypeOK, Recorded, Voice
<1>5. CASE Unrecorded(w.call)
  <2>1. faults' \in 0..MaxFaults
    BY <1>5, FaultTyped DEF Unrecorded, TypeOK
  <2>. QED  BY <1>2, <1>5, <2>1 DEF TypeOK, Unrecorded, Voice
<1>. QED  BY <1>3, <1>4, <1>5 DEF Voice

(* What a status leaves in the row of its call.                            *)
LEMMA KnownRow ==
  ASSUME TypeOK, NEW w \in wire, w.kind = "status", Known(w)
  PROVE  \E status \in Readings(provider, w.at) :
           /\ w.call \in Calls /\ w.at \in Under \cup Ends /\ row[w.call] # None
           /\ row' \in [Calls -> Row \cup {None}]
           /\ \A e \in Calls \ {w.call} : row'[e] = row[e]
           /\ row'[w.call] # None /\ row'[w.call].status = status
           /\ status = "completed" => row'[w.call].ended
           /\ mails' = [mails EXCEPT ![w.call] = @ + IF Missed(w, status) THEN 1 ELSE 0]
                \/ mails' = mails
           /\ UNCHANGED faults \/ Fault
<1>. DEFINE c == w.call
<1>1. c \in Calls /\ w.at \in Under \cup Ends
  BY DEF TypeOK, Hook
<1>2. row \in [Calls -> Row \cup {None}] /\ row[c] \in Row
  BY <1>1 DEF Known, TypeOK
<1>3. PICK status \in Readings(provider, w.at) :
         /\ Keep(c, status)
         /\ \/ /\ mails' = [mails EXCEPT ![c] = @ + IF Missed(w, status) THEN 1 ELSE 0]
               /\ UNCHANGED faults
            \/ Missed(w, status) /\ Fault /\ UNCHANGED mails
  BY DEF Known
<1>4. status \in Statuses
  BY <1>1, ReadingsTyped
<1>5. PICK ended \in BOOLEAN : ended = (row[c].ended \/ status = "completed")
  <2>1. (row[c].ended \/ status = "completed") \in BOOLEAN
    BY Zenon
  <2>. QED  BY <2>1
<1>6. row' = [row EXCEPT ![c] = [status |-> status, ended |-> ended]]
  BY <1>3, <1>5 DEF Keep
<1>7. [status |-> status, ended |-> ended] \in Row
  BY <1>4, <1>5 DEF Row
<1>8. /\ row' \in [Calls -> Row \cup {None}]
      /\ \A e \in Calls \ {c} : row'[e] = row[e]
      /\ row'[c] = [status |-> status, ended |-> ended]
  BY <1>1, <1>2, <1>6, <1>7
<1>9. row'[c] # None /\ row'[c].status = status /\ row'[c].ended = ended
  BY <1>7, <1>8, NoneAssumption
<1>10. status = "completed" => row'[c].ended
  BY <1>5, <1>9, Zenon
<1>. QED  BY <1>1, <1>3, <1>8, <1>9, <1>10 DEF Known

LEMMA TypeStatus ==
  ASSUME TypeOK, NEW w \in wire, Status(w)
  PROVE  TypeOK'
<1>1. w \in Hook /\ wire' \subseteq wire /\ again' \in [Calls -> 0..MaxAgain]
  BY HandledTyped DEF Status
<1>2. w.call \in Calls
  BY <1>1 DEF Hook
<1>3. seen' \in [Calls -> 0..5] /\ late' \in Nat
  BY ReachedTyped DEF Status
<1>4. faults' \in 0..MaxFaults
  BY FaultTyped DEF Status, Unknown, Known, NotKept, TypeOK
<1>5. row' \in [Calls -> Row \cup {None}] /\ mails' \in [Calls -> Nat]
  <2>1. CASE row' = row /\ mails' = mails
    BY <2>1 DEF TypeOK
  <2>2. CASE Known(w)
    <3>1. PICK status :
            /\ row' \in [Calls -> Row \cup {None}]
            /\ mails' = [mails EXCEPT ![w.call] = @ + IF Missed(w, status) THEN 1 ELSE 0]
                 \/ mails' = mails
      BY <2>2, KnownRow DEF Status
    <3>. QED  BY <1>2, <3>1 DEF TypeOK
  <2>. QED  BY <2>1, <2>2 DEF Status, Unknown, NotKept
<1>6. UNCHANGED <<world, call, rings>>
  BY DEF Status
<1>. QED  BY <1>1, <1>3, <1>4, <1>5, <1>6 DEF TypeOK

LEMMA TypeStep ==
  ASSUME TypeOK, [Next]_vars
  PROVE  TypeOK'
<1>1. ASSUME NEW c \in Calls, NEW d \in {"inbound", "outbound"}, Arrive(c, d)
      PROVE  TypeOK'
  <2>1. [dir |-> d, at |-> "asked"] \in Call
    BY DEF Call
  <2>2. call' \in [Calls -> Call \cup {None}]
    BY <1>1, <2>1 DEF Arrive, TypeOK
  <2>3. Webhook(c, "voice", "asked", FALSE) \in Hook
    BY DEF Webhook, Hook
  <2>. QED  BY <1>1, <2>2, <2>3 DEF Arrive, TypeOK
<1>2. ASSUME NEW c \in Calls, NEW at \in Under, NEW report \in BOOLEAN, Proceed(c, at, report)
      PROVE  TypeOK'
  <2>1. call[c] \in Call /\ call \in [Calls -> Call \cup {None}]
    BY <1>2 DEF Proceed, TypeOK
  <2>2. [call[c] EXCEPT !.at = at] \in Call
    BY <2>1 DEF Call
  <2>3. call' \in [Calls -> Call \cup {None}]
    BY <1>2, <2>1, <2>2 DEF Proceed
  <2>4. Webhook(c, reports, at, FALSE) \in Hook
    BY UrlsTyped DEF Webhook, Hook
  <2>. QED  BY <1>2, <2>3, <2>4 DEF Proceed, TypeOK
<1>3. ASSUME NEW c \in Calls, NEW at \in Ends, NEW recorded \in BOOLEAN, NEW mailed \in BOOLEAN,
             End(c, at, recorded, mailed)
      PROVE  TypeOK'
  <2>1. call[c] \in Call /\ call \in [Calls -> Call \cup {None}]
    BY <1>3 DEF End, TypeOK
  <2>2. [call[c] EXCEPT !.at = at] \in Call
    BY <2>1 DEF Call
  <2>3. call' \in [Calls -> Call \cup {None}]
    BY <1>3, <2>1, <2>2 DEF End
  <2>4. Webhook(c, reports, at, recorded) \in Hook /\ Webhook(c, "voicemail", at, recorded) \in Hook
    BY UrlsTyped DEF Webhook, Hook
  <2>. QED  BY <1>3, <2>3, <2>4 DEF End, TypeOK
<1>4. ASSUME NEW w \in wire, Voicemail(w) PROVE TypeOK'
  <2>1. w.call \in Calls
    BY DEF TypeOK, Hook
  <2>2. wire' \subseteq wire /\ again' \in [Calls -> 0..MaxAgain]
    BY <1>4, HandledTyped DEF Voicemail
  <2>3. mails' \in [Calls -> Nat] /\ faults' \in 0..MaxFaults
    BY <1>4, <2>1, FaultTyped DEF Voicemail, TypeOK
  <2>. QED  BY <1>4, <2>2, <2>3 DEF Voicemail, TypeOK
<1>5. ASSUME NEW w \in wire, Lose(w) PROVE TypeOK'
  <2>1. w.call \in Calls
    BY DEF TypeOK, Hook
  <2>. QED  BY <1>5, <2>1, FaultTyped DEF Lose, TypeOK
<1>6. ASSUME NEW w \in wire, Voice(w) PROVE TypeOK'
  BY <1>6, TypeVoice
<1>7. ASSUME NEW w \in wire, Status(w) PROVE TypeOK'
  BY <1>7, TypeStatus
<1>8. CASE Reassign \/ UNCHANGED vars
  BY <1>8 DEF Reassign, vars, TypeOK
<1>. QED  BY <1>1, <1>2, <1>3, <1>4, <1>5, <1>6, <1>7, <1>8 DEF Next

(* A step is calm if it neither ends a call nor touches what its end sent. *)
Final(v) == Missing(v) \/ v.kind = "voicemail"

Calm ==
  /\ \A e \in Calls :
       /\ call[e] # None => call'[e] # None
       /\ Over(e)' <=> Over(e)
       /\ Over(e) => call'[e].at = call[e].at /\ call'[e].dir = call[e].dir
       /\ again'[e] >= again[e]
  /\ \A v : Final(v) => (v \in wire' <=> v \in wire)
  /\ \A v \in wire' : /\ call'[v.call] # None
                      /\ v.kind = "voice" /\ reports = "status" => v.at = "asked"
  /\ UNCHANGED <<provider, reports, mails>>

LEMMA CalmKeeps ==
  ASSUME TypeOK, TypeOK', EndsAgree, MailsDue, Calm
  PROVE  EndsAgree' /\ MailsDue'
<1>1. \A e, v : Last(v, e) \/ Mailed(v, e) => Final(v)
  BY DEF Last, Mailed, Final
<1>2. \A e, v : /\ v \in wire' /\ Last(v, e) <=> v \in wire /\ Last(v, e)
                /\ v \in wire' /\ Mailed(v, e) <=> v \in wire /\ Mailed(v, e)
  BY <1>1 DEF Calm
<1>3. EndsAgree'
  BY <1>2 DEF EndsAgree, Calm
<1>4. ASSUME NEW e \in Calls, Over(e)
      PROVE  /\ MissedCall(e)' <=> MissedCall(e)
             /\ call'[e].dir = call[e].dir
  BY <1>4 DEF Calm, MissedCall, Readings
<1>6. MailsDue'
  <2>. SUFFICES ASSUME NEW e \in Calls
                PROVE  IF Over(e)' THEN mails'[e] + StillToCome(e)' <= Due(e)' ELSE mails'[e] = 0
    BY DEF MailsDue
  <2>1. CASE ~Over(e)'
    BY <2>1 DEF MailsDue, Calm
  <2>2. CASE Over(e)'
    <3>1. Over(e) /\ mails[e] + StillToCome(e) <= Due(e) /\ mails' = mails
      BY <2>2 DEF MailsDue, Calm
    <3>2. StillToCome(e)' = StillToCome(e)
      BY <1>2, <1>4, <3>1 DEF StillToCome
    <3>3. Due(e)' >= Due(e)
      <4>1. again[e] \in Nat /\ again'[e] \in Nat /\ again'[e] >= again[e]
        BY BoundsAssumption DEF TypeOK, Calm
      <4>. QED  BY <1>4, <3>1, <4>1 DEF Due
    <3>4. mails[e] \in Nat /\ Due(e) \in Nat /\ Due(e)' \in Nat /\ StillToCome(e) \in Nat
      BY BoundsAssumption DEF TypeOK, Due, StillToCome
    <3>. QED  BY <2>2, <3>1, <3>2, <3>3, <3>4
  <2>. QED  BY <2>1, <2>2
<1>. QED  BY <1>3, <1>6

LEMMA CalmArrive ==
  ASSUME TypeOK, EndsAgree, NEW c \in Calls, NEW d \in {"inbound", "outbound"}, Arrive(c, d) PROVE Calm
<1>1. call[c] = None /\ call \in [Calls -> Call \cup {None}]
  BY DEF Arrive, TypeOK
<1>2. /\ call'[c] = [dir |-> d, at |-> "asked"]
      /\ \A e \in Calls \ {c} : call'[e] = call[e]
  BY <1>1 DEF Arrive
<1>3. ~Over(c) /\ ~Over(c)'
  BY <1>1, <1>2 DEF Over, Ends
<1>4. \A e \in Calls \ {c} : Over(e)' <=> Over(e)
  BY <1>2 DEF Over
<1>5. \A v : Final(v) => (v \in wire' <=> v \in wire)
  BY DEF Arrive, Final, Missing, Webhook
<1>6. call[c] # None => call'[c] # None
  BY <1>1
<1>7. \A e \in Calls : again'[e] >= again[e]
  BY BoundsAssumption DEF Arrive, TypeOK
<1>8. \A v \in wire' : /\ call'[v.call] # None
                       /\ v.kind = "voice" /\ reports = "status" => v.at = "asked"
  <2>1. call'[c] \in Call
    BY <1>2 DEF Call
  <2>2. \A v \in wire : v.call \in Calls /\ call[v.call] # None
    BY DEF EndsAgree, TypeOK, Hook
  <2>3. call'[c] # None
    BY <2>1, NoneAssumption
  <2>. QED  BY <1>1, <1>2, <2>2, <2>3 DEF Arrive, Webhook, EndsAgree
<1>. QED  BY <1>1, <1>2, <1>3, <1>4, <1>5, <1>6, <1>7, <1>8 DEF Calm, Arrive

LEMMA CalmProceed ==
  ASSUME TypeOK, EndsAgree, NEW c \in Calls, NEW at \in Under, NEW report \in BOOLEAN,
         Proceed(c, at, report)
  PROVE  Calm
<1>1. call[c] \in Call /\ call \in [Calls -> Call \cup {None}] /\ call[c] # None
  BY DEF Proceed, TypeOK
<1>2. /\ call'[c] = [call[c] EXCEPT !.at = at]
      /\ \A e \in Calls \ {c} : call'[e] = call[e]
  BY <1>1 DEF Proceed
<1>3. call'[c].at = at /\ call'[c] \in Call
  BY <1>1, <1>2 DEF Call
<1>4. ~Over(c) /\ ~Over(c)'
  <2>1. at \notin Ends
    BY DEF Under, Ends
  <2>. QED  BY <1>3, <2>1 DEF Over, Proceed
<1>5. \A e \in Calls \ {c} : Over(e)' <=> Over(e)
  BY <1>2 DEF Over
<1>6. \A v : Final(v) => (v \in wire' <=> v \in wire)
  <2>1. ~Final(Webhook(c, reports, at, FALSE))
    BY UrlsTyped DEF Final, Missing, Webhook, Under, Ends
  <2>. QED  BY <2>1 DEF Proceed
<1>7. call'[c] # None
  BY <1>3, NoneAssumption
<1>8. \A e \in Calls : again'[e] >= again[e]
  BY BoundsAssumption DEF Proceed, TypeOK
<1>9. \A v \in wire' : /\ call'[v.call] # None
                       /\ v.kind = "voice" /\ reports = "status" => v.at = "asked"
  <2>1. \A v \in wire : v.call \in Calls /\ call[v.call] # None
    BY DEF EndsAgree, TypeOK, Hook
  <2>. QED  BY <1>2, <1>7, <2>1 DEF Proceed, Webhook, EndsAgree
<1>. QED  BY <1>1, <1>2, <1>4, <1>5, <1>6, <1>7, <1>8, <1>9 DEF Calm, Proceed

LEMMA CalmVoice ==
  ASSUME TypeOK, EndsAgree, NEW w \in wire, Voice(w) PROVE Calm
<1>1. \A e \in Calls : Over(e)' <=> Over(e)
  BY DEF Over, Voice
<1>2. /\ wire' \subseteq wire /\ wire \ {w} \subseteq wire'
      /\ \A e \in Calls : again'[e] >= again[e]
  BY HandledTyped DEF Voice
<1>3. \A v : Final(v) => (v \in wire' <=> v \in wire)
  <2>1. ~Final(w)
    BY DEF Voice, Final, Missing
  <2>. QED  BY <1>2, <2>1
<1>4. \A v \in wire' : /\ call'[v.call] # None
                       /\ v.kind = "voice" /\ reports = "status" => v.at = "asked"
  <2>1. \A v \in wire : v.call \in Calls /\ call[v.call] # None
    BY DEF EndsAgree, TypeOK, Hook
  <2>. QED  BY <1>2, <2>1 DEF EndsAgree, Voice
<1>. QED  BY <1>1, <1>2, <1>3, <1>4 DEF Calm, Voice

LEMMA CalmRest ==
  ASSUME TypeOK, EndsAgree, Reassign \/ UNCHANGED vars PROVE Calm
<1>1. UNCHANGED <<provider, reports, call, wire, saved, again>>
  BY DEF Reassign, vars
<1>2. \A e \in Calls : Over(e)' <=> Over(e)
  BY <1>1 DEF Over
<1>3. \A e \in Calls : again'[e] >= again[e]
  BY <1>1, BoundsAssumption DEF TypeOK
<1>4. \A v \in wire' : /\ call'[v.call] # None
                       /\ v.kind = "voice" /\ reports = "status" => v.at = "asked"
  BY <1>1 DEF EndsAgree, TypeOK, Hook
<1>. QED  BY <1>1, <1>2, <1>3, <1>4 DEF Calm

(* The end of a call: nothing has come of it yet, and all it sends is due. *)
LEMMA EndSends ==
  ASSUME TypeOK, EndsAgree, NEW c \in Calls, NEW at \in Ends,
         NEW recorded \in BOOLEAN, NEW mailed \in BOOLEAN, End(c, at, recorded, mailed)
  PROVE  /\ call'[c].at = at /\ call'[c].dir = call[c].dir /\ call'[c] # None
         /\ \A e \in Calls \ {c} : call'[e] = call[e]
         /\ ~Over(c) /\ Over(c)' /\ \A e \in Calls \ {c} : Over(e)' <=> Over(e)
         /\ reports = "status" => \E v \in wire' : Last(v, c)
         /\ \A v \in wire' : Last(v, c) => v.at = at
         /\ \A v, w \in wire' : /\ Last(v, c) /\ Last(w, c) => v = w
                                /\ Mailed(v, c) /\ Mailed(w, c) => v = w
         /\ (\E v \in wire' : Mailed(v, c)) => call[c].dir = "inbound"
         /\ \A v : \A e \in Calls \ {c} :
              /\ v \in wire' /\ v.call = e <=> v \in wire /\ v.call = e
              /\ v \in wire' /\ Last(v, e) <=> v \in wire /\ Last(v, e)
              /\ v \in wire' /\ Mailed(v, e) <=> v \in wire /\ Mailed(v, e)
         /\ \A v \in wire' \ wire : v.kind = "voice" => reports = "voice"
<1>. DEFINE l == Webhook(c, reports, at, recorded)
            m == Webhook(c, "voicemail", at, recorded)
<1>1. call[c] \in Call /\ call \in [Calls -> Call \cup {None}] /\ call[c] # None /\ ~Over(c)
  BY DEF End, TypeOK
<1>2. /\ call'[c] = [call[c] EXCEPT !.at = at]
      /\ \A e \in Calls \ {c} : call'[e] = call[e]
  BY <1>1 DEF End
<1>3. call'[c].at = at /\ call'[c].dir = call[c].dir /\ call'[c] \in Call /\ call'[c] # None
  BY <1>1, <1>2, NoneAssumption DEF Call
<1>4. Over(c)' /\ \A e \in Calls \ {c} : Over(e)' <=> Over(e)
  BY <1>2, <1>3 DEF Over
<1>5. /\ (Last(l, c) <=> reports = "status") /\ l.at = at /\ ~Mailed(l, c)
      /\ Mailed(m, c) /\ ~Last(m, c)
      /\ l.kind = reports /\ m.kind = "voicemail"
      /\ \A e \in Calls \ {c} : /\ ~Last(l, e) /\ ~Mailed(l, e) /\ l.call # e
                              /\ ~Last(m, e) /\ ~Mailed(m, e) /\ m.call # e
  BY UrlsTyped DEF Last, Mailed, Missing, Webhook
<1>6. /\ wire' = wire \cup {l} \cup IF mailed THEN {m} ELSE {}
      /\ mailed => call[c].dir = "inbound"
  BY DEF End
<1>7. \A v \in wire : ~Last(v, c) /\ ~Mailed(v, c)
  BY <1>1 DEF EndsAgree
<1>. HIDE DEF l, m
<1>8. /\ \A v \in wire' : (Last(v, c) => v = l) /\ (Mailed(v, c) => v = m /\ mailed)
      /\ reports = "status" => l \in wire' /\ Last(l, c)
  BY <1>5, <1>6, <1>7
<1>9. \A v : \A e \in Calls \ {c} :
        /\ v \in wire' /\ v.call = e <=> v \in wire /\ v.call = e
        /\ v \in wire' /\ Last(v, e) <=> v \in wire /\ Last(v, e)
        /\ v \in wire' /\ Mailed(v, e) <=> v \in wire /\ Mailed(v, e)
  BY <1>5, <1>6
<1>10. \A v \in wire' \ wire : v.kind = "voice" => reports = "voice"
  BY <1>5, <1>6
<1>. QED  BY <1>1, <1>2, <1>3, <1>4, <1>5, <1>6, <1>8, <1>9, <1>10

LEMMA EndKeeps ==
  ASSUME TypeOK, TypeOK', EndsAgree, MailsDue, NEW c \in Calls, NEW at \in Ends,
         NEW recorded \in BOOLEAN, NEW mailed \in BOOLEAN, End(c, at, recorded, mailed)
  PROVE  EndsAgree' /\ MailsDue'
<1>1. UNCHANGED <<provider, reports, mails, again>>
  BY DEF End
<1>2. EndsAgree'
  <2>1. ASSUME NEW v \in wire', NEW w \in wire'
        PROVE  /\ w.call = c => call'[c] # None
               /\ Last(w, c) => Over(c)' /\ w.at = call'[c].at
               /\ Mailed(w, c) => Over(c)'
               /\ Last(v, c) /\ Last(w, c) => v = w
               /\ Mailed(v, c) /\ Mailed(w, c) => v = w
    BY EndSends
  <2>2. ASSUME NEW e \in Calls \ {c}, NEW v \in wire', NEW w \in wire'
        PROVE  /\ w.call = e => call'[e] # None
               /\ Last(w, e) => Over(e)' /\ w.at = call'[e].at
               /\ Mailed(w, e) => Over(e)'
               /\ Last(v, e) /\ Last(w, e) => v = w
               /\ Mailed(v, e) /\ Mailed(w, e) => v = w
    BY EndSends DEF EndsAgree
  <2>3. ASSUME NEW w \in wire', w.kind = "voice", reports = "status" PROVE w.at = "asked"
    <3>1. w \in wire
      BY <2>3, EndSends
    <3>. QED  BY <2>3, <3>1 DEF EndsAgree, TypeOK, Hook
  <2>. QED  BY <1>1, <2>1, <2>2, <2>3 DEF EndsAgree
<1>3. MailsDue'
  <2>1. mails'[c] + StillToCome(c)' <= Due(c)'
    <3>1. mails'[c] = 0 /\ again'[c] \in Nat
      BY <1>1, EndSends, BoundsAssumption DEF MailsDue, TypeOK
    <3>2. (\E w \in wire' : Mailed(w, c)) => call'[c].dir = "inbound"
      BY EndSends
    <3>. QED  BY <3>1, <3>2 DEF StillToCome, Due
  <2>2. ASSUME NEW e \in Calls \ {c}
        PROVE  IF Over(e)' THEN mails'[e] + StillToCome(e)' <= Due(e)' ELSE mails'[e] = 0
    <3>1. call'[e] = call[e] /\ (Over(e)' <=> Over(e))
      BY EndSends
    <3>2. MissedCall(e)' <=> MissedCall(e)
      BY <1>1, <3>1 DEF MissedCall, Readings
    <3>3. /\ (\E v \in wire' : Last(v, e)) <=> (\E v \in wire : Last(v, e))
          /\ (\E v \in wire' : Mailed(v, e)) <=> (\E v \in wire : Mailed(v, e))
      BY EndSends
    <3>4. StillToCome(e)' = StillToCome(e)
      BY <3>2, <3>3 DEF StillToCome
    <3>5. Due(e)' = Due(e)
      BY <1>1, <3>1, <3>2 DEF Due
    <3>. QED  BY <1>1, <3>1, <3>4, <3>5 DEF MailsDue
  <2>3. Over(c)'
    BY EndSends
  <2>. QED  BY <2>1, <2>2, <2>3 DEF MailsDue
<1>. QED  BY <1>2, <1>3

(* A webhook is taken, to be handled or lost.                              *)
Taken(w) ==
  /\ UNCHANGED <<provider, reports, call>>
  /\ wire' \subseteq wire /\ wire \ {w} \subseteq wire'

LEMMA TakenFrame ==
  ASSUME TypeOK, EndsAgree, NEW w \in wire, Taken(w)
  PROVE  /\ EndsAgree'
         /\ \A e \in Calls :
              /\ Over(e)' <=> Over(e)
              /\ MissedCall(e)' <=> MissedCall(e)
         /\ \A e \in Calls :
              /\ (\E v \in wire' : Last(v, e)) => (\E v \in wire : Last(v, e))
              /\ (\E v \in wire' : Mailed(v, e)) => (\E v \in wire : Mailed(v, e))
              /\ ~Last(w, e) /\ (\E v \in wire : Last(v, e)) => \E v \in wire' : Last(v, e)
              /\ w \notin wire' /\ Last(w, e) => ~\E v \in wire' : Last(v, e)
              /\ w \notin wire' /\ Mailed(w, e) => ~\E v \in wire' : Mailed(v, e)
<1>1. \A e \in Calls : Over(e)' <=> Over(e)
  BY DEF Taken, Over
<1>2. \A e \in Calls : MissedCall(e)' <=> MissedCall(e)
  BY DEF Taken, MissedCall, Readings
<1>3. EndsAgree'
  BY <1>1 DEF EndsAgree, Taken
<1>4. ASSUME NEW e \in Calls
      PROVE  /\ w \notin wire' /\ Last(w, e) => ~\E v \in wire' : Last(v, e)
             /\ w \notin wire' /\ Mailed(w, e) => ~\E v \in wire' : Mailed(v, e)
  BY DEF EndsAgree, Taken
<1>5. ASSUME NEW e \in Calls
      PROVE  ~Last(w, e) /\ (\E v \in wire : Last(v, e)) => \E v \in wire' : Last(v, e)
  BY DEF Taken
<1>. QED  BY <1>1, <1>2, <1>3, <1>4, <1>5 DEF Taken

(* One more voicemail takes the place of a webhook, or comes of one more.  *)
LEMMA MailsTaken ==
  ASSUME TypeOK, TypeOK', EndsAgree, MailsDue, NEW w \in wire, Taken(w),
         \A e \in Calls : again'[e] >= again[e],
         w \notin wire' \/ again'[w.call] = again[w.call] + 1,
         \A e \in Calls \ {w.call} : mails'[e] = mails[e],
         \/ mails'[w.call] = mails[w.call]
         \/ /\ mails'[w.call] = mails[w.call] + 1
            /\ Mailed(w, w.call) \/ (Last(w, w.call) /\ MissedCall(w.call))
  PROVE  MailsDue'
<1>. SUFFICES ASSUME NEW e \in Calls
              PROVE  IF Over(e)' THEN mails'[e] + StillToCome(e)' <= Due(e)' ELSE mails'[e] = 0
  BY DEF MailsDue
<1>. DEFINE last  == \E v \in wire : Last(v, e)
            lastp == \E v \in wire' : Last(v, e)
            mail  == \E v \in wire : Mailed(v, e)
            mailp == \E v \in wire' : Mailed(v, e)
            one(b) == IF b THEN 1 ELSE 0
            fixed == one(call[e].dir = "inbound") + one(MissedCall(e))
<1>1. (Over(e)' <=> Over(e)) /\ (MissedCall(e)' <=> MissedCall(e))
  BY TakenFrame
<1>2. (lastp => last) /\ (mailp => mail)
  BY TakenFrame
<1>3. /\ again[e] \in Nat /\ again'[e] \in Nat /\ again'[e] >= again[e]
      /\ mails[e] \in Nat /\ mails'[e] \in Nat
  BY BoundsAssumption DEF TypeOK
<1>4. /\ StillToCome(e) = one(mail) + one(last /\ MissedCall(e))
      /\ StillToCome(e)' = one(mailp) + one(lastp /\ MissedCall(e))
  BY <1>1 DEF StillToCome
<1>5. Due(e) = again[e] + fixed /\ Due(e)' = again'[e] + fixed /\ fixed \in Nat
  <2>1. call' = call
    BY DEF Taken
  <2>. QED  BY <1>1, <1>3, <2>1 DEF Due
<1>6. CASE ~Over(e)
  <2>1. mails[e] = 0 /\ (w.call = e => ~Last(w, e) /\ ~Mailed(w, e))
    BY <1>6 DEF MailsDue, EndsAgree
  <2>2. mails'[e] = 0
    BY <2>1
  <2>. QED  BY <1>1, <1>6, <2>2
<1>7. CASE Over(e)
  <2>1. mails[e] + StillToCome(e) <= Due(e)
    BY <1>7 DEF MailsDue
  <2>2. CASE mails'[e] = mails[e]
    <3>. HIDE DEF last, lastp, mail, mailp, fixed
    <3>. QED  BY <1>1, <1>2, <1>3, <1>4, <1>5, <1>7, <2>1, <2>2
  <2>3. CASE mails'[e] # mails[e]
    <3>1. /\ e = w.call /\ mails'[e] = mails[e] + 1
          /\ Mailed(w, e) \/ (Last(w, e) /\ MissedCall(e))
      BY <2>3
    <3>2. /\ w \notin wire' /\ Last(w, e) => last /\ ~lastp
          /\ w \notin wire' /\ Mailed(w, e) => mail /\ ~mailp
      BY TakenFrame
    <3>3. w \notin wire' \/ again'[e] = again[e] + 1
      BY <3>1
    <3>. HIDE DEF last, lastp, mail, mailp, fixed
    <3>4. CASE again'[e] = again[e] + 1
      BY <1>1, <1>2, <1>3, <1>4, <1>5, <1>7, <2>1, <3>1, <3>4
    <3>5. CASE w \notin wire'
      BY <1>1, <1>2, <1>3, <1>4, <1>5, <1>7, <2>1, <3>1, <3>2, <3>5
    <3>. QED  BY <3>3, <3>4, <3>5
  <2>. QED  BY <2>2, <2>3
<1>. QED  BY <1>6, <1>7

LEMMA TakenLose ==
  ASSUME TypeOK, TypeOK', EndsAgree, MailsDue, NEW w \in wire, Lose(w)
  PROVE  EndsAgree' /\ MailsDue'
<1>1. Taken(w) /\ w \notin wire'
  BY DEF Taken, Lose
<1>2. EndsAgree'
  BY <1>1, TakenFrame
<1>3. w.call \in Calls /\ mails' = mails /\ again' = again
  BY DEF Lose, TypeOK, Hook
<1>4. \A e \in Calls : again'[e] >= again[e]
  BY <1>3, BoundsAssumption DEF TypeOK
<1>5. MailsDue'
  BY <1>1, <1>3, <1>4, MailsTaken
<1>. QED  BY <1>2, <1>5

LEMMA TakenVoicemail ==
  ASSUME TypeOK, TypeOK', EndsAgree, MailsDue, NEW w \in wire, Voicemail(w)
  PROVE  EndsAgree' /\ MailsDue'
<1>1. /\ wire' \subseteq wire /\ wire \ {w} \subseteq wire'
      /\ \A e \in Calls : again'[e] >= again[e]
      /\ w \notin wire' \/ again'[w.call] = again[w.call] + 1
  BY HandledTyped DEF Voicemail
<1>2. Taken(w) /\ w.call \in Calls
  BY <1>1 DEF Taken, Voicemail, TypeOK, Hook
<1>3. EndsAgree'
  BY <1>2, TakenFrame
<1>5. /\ \A e \in Calls \ {w.call} : mails'[e] = mails[e]
      /\ mails'[w.call] = mails[w.call] \/ mails'[w.call] = mails[w.call] + 1
  BY <1>2 DEF Voicemail, TypeOK
<1>6. Mailed(w, w.call)
  BY DEF Mailed, Voicemail
<1>7. MailsDue'
  BY <1>1, <1>2, <1>5, <1>6, MailsTaken
<1>. QED  BY <1>3, <1>7

LEMMA TakenStatus ==
  ASSUME TypeOK, TypeOK', EndsAgree, MailsDue, NEW w \in wire, Status(w)
  PROVE  EndsAgree' /\ MailsDue'
<1>1. /\ wire' \subseteq wire /\ wire \ {w} \subseteq wire'
      /\ \A e \in Calls : again'[e] >= again[e]
      /\ w \notin wire' \/ again'[w.call] = again[w.call] + 1
  BY HandledTyped DEF Status
<1>2. Taken(w) /\ w.call \in Calls /\ w.kind = "status"
  BY <1>1 DEF Taken, Status, TypeOK, Hook
<1>3. EndsAgree'
  BY <1>2, TakenFrame
<1>4. ASSUME mails' = mails PROVE MailsDue'
  BY <1>1, <1>2, <1>4, MailsTaken
<1>5. ASSUME Known(w), mails' # mails PROVE MailsDue'
  <2>1. PICK status \in Readings(provider, w.at) :
          /\ w.at \in Under \cup Ends
          /\ mails' = [mails EXCEPT ![w.call] = @ + IF Missed(w, status) THEN 1 ELSE 0]
    BY <1>2, <1>5, KnownRow
  <2>2. Missed(w, status)
    BY <1>2, <1>5, <2>1 DEF TypeOK
  <2>3. /\ mails'[w.call] = mails[w.call] + 1
        /\ \A e \in Calls \ {w.call} : mails'[e] = mails[e]
    BY <1>2, <2>1, <2>2 DEF TypeOK
  <2>4. Last(w, w.call)
    <3>1. w.at \notin Under
      BY <2>1, <2>2, ReadingsTyped DEF Missed
    <3>. QED  BY <1>2, <2>1, <3>1 DEF Last, Missing
  <2>5. MissedCall(w.call)
    BY <1>2, <2>1, <2>2, <2>4 DEF EndsAgree, Missed, MissedCall
  <2>. QED  BY <1>1, <1>2, <2>3, <2>4, <2>5, MailsTaken
<1>6. MailsDue'
  BY <1>4, <1>5 DEF Status, Unknown, NotKept
<1>. QED  BY <1>3, <1>6

(* The calls whose row is wrong, or may come to be: Spoilt, for one call.  *)
Astray(c) ==
  /\ Over(c) /\ \A w \in wire : ~Last(w, c)
  /\ seen[c] < 5 \/ (row[c] # None /\ ~Right(c))

NoMore == faults' + late' >= faults + late /\ \A e \in Calls : Astray(e)' => Astray(e)
OneMore ==
  /\ faults' + late' > faults + late
  /\ \E p \in Calls : \A e \in Calls \ {p} : Astray(e)' => Astray(e)

(* Another call than the one a webhook is about goes on as it was.         *)
LEMMA OthersStay ==
  ASSUME TypeOK, EndsAgree, NEW w \in wire, Taken(w), NEW e \in Calls,
         row'[e] = row[e], seen'[e] = seen[e], ~Last(w, e)
  PROVE  Astray(e)' => Astray(e)
<1>1. (Over(e)' <=> Over(e)) /\ ((\E v \in wire : Last(v, e)) => \E v \in wire' : Last(v, e))
  BY TakenFrame
<1>2. Right(e)' <=> Right(e)
  BY DEF Right, Readings, Taken
<1>. QED  BY <1>1, <1>2 DEF Astray

LEMMA AstrayVoice ==
  ASSUME TypeOK, EndsAgree, reports = "status", NEW w \in wire, Voice(w)
  PROVE  OneMore \/ NoMore
<1>1. w.call \in Calls /\ w.at = "asked" /\ faults \in Nat /\ late \in Nat /\ seen[w.call] \in 0..5
  BY BoundsAssumption DEF TypeOK, Hook, EndsAgree, Voice
<1>2. Taken(w)
  BY HandledTyped DEF Voice, Taken
<1>3. \A e \in Calls : ~Last(w, e)
  BY DEF Voice, Last, Missing
<1>4. \A e \in Calls \ {w.call} : row'[e] = row[e]
  BY DEF Voice, Rejected, Recorded, Unrecorded, TypeOK
<1>5. \A e \in Calls \ {w.call} : Astray(e)' => Astray(e)
  BY <1>2, <1>3, <1>4, ReachedTyped, OthersStay DEF Voice
<1>6. /\ late' \in Nat /\ (late' > late \/ (late' = late /\ seen[w.call] <= Rank(w.at)))
      /\ faults' \in Nat /\ (faults' = faults \/ faults' = faults + 1)
  BY <1>1, ReachedTyped DEF Voice, Rejected, Recorded, Unrecorded, Fault
<1>7. CASE faults' + late' > faults + late
  BY <1>1, <1>5, <1>7 DEF OneMore
<1>8. CASE ~(faults' + late' > faults + late)
  <2>1. seen[w.call] = 0 /\ faults' + late' >= faults + late
    BY <1>1, <1>6, <1>8 DEF Rank
  <2>2. (\A v \in wire' : ~Last(v, w.call)) => \A v \in wire : ~Last(v, w.call)
    BY <1>1, <1>2, <1>3, TakenFrame
  <2>3. Over(w.call)' => Over(w.call)
    BY <1>1, <1>2, TakenFrame
  <2>4. PICK c \in Calls : c = w.call
    BY <1>1
  <2>5. Astray(c)' => Astray(c)
    BY <2>1, <2>2, <2>3, <2>4 DEF Astray
  <2>. QED  BY <1>5, <2>1, <2>4, <2>5 DEF NoMore
<1>. QED  BY <1>7, <1>8

LEMMA AstrayStatus ==
  ASSUME TypeOK, TypeOK', EndsAgree, NEW w \in wire, Status(w)
  PROVE  OneMore \/ NoMore
<1>1. w.call \in Calls /\ w.at \in Under \cup Ends /\ faults \in Nat /\ late \in Nat
      /\ w.kind = "status" /\ seen[w.call] \in 0..5 /\ seen'[w.call] \in 0..5
  BY BoundsAssumption DEF TypeOK, Hook, Status
<1>2. Taken(w)
  BY HandledTyped DEF Status, Taken
<1>3. \A e \in Calls \ {w.call} : row'[e] = row[e] /\ ~Last(w, e)
  BY KnownRow DEF Status, Unknown, NotKept, Last
<1>4. \A e \in Calls \ {w.call} : Astray(e)' => Astray(e)
  BY <1>2, <1>3, ReachedTyped, OthersStay DEF Status
<1>5. /\ late' \in Nat /\ (late' > late \/ (late' = late /\ seen[w.call] <= Rank(w.at)))
      /\ faults' \in Nat /\ (faults' = faults \/ faults' = faults + 1)
  <2>1. UNCHANGED faults \/ Fault
    BY KnownRow DEF Status, Unknown, NotKept
  <2>. QED  BY <1>1, <2>1, ReachedTyped DEF Status, Fault
<1>6. CASE faults' + late' > faults + late
  BY <1>1, <1>4, <1>6 DEF OneMore
<1>7. CASE ~(faults' + late' > faults + late)
  <2>1. seen[w.call] <= Rank(w.at) /\ faults' = faults /\ faults' + late' >= faults + late
    BY <1>1, <1>5, <1>7
  <2>2. PICK c \in Calls : c = w.call
    BY <1>1
  <2>3. CASE w.at \in Under
    <3>1. seen[c] < 5
      BY <1>1, <2>1, <2>2, <2>3, RankTyped
    <3>2. ~Last(w, c)
      BY <2>3 DEF Last, Missing, Under, Ends
    <3>3. /\ Over(c)' => Over(c)
          /\ (\A v \in wire' : ~Last(v, c)) => \A v \in wire : ~Last(v, c)
      BY <1>2, <3>2, TakenFrame
    <3>4. Astray(c)' => Astray(c)
      BY <3>1, <3>3 DEF Astray
    <3>. QED  BY <1>4, <2>1, <2>2, <3>4 DEF NoMore
  <2>4. CASE w.at \in Ends
    <3>1. Last(w, c) /\ w.at = call[c].at
      BY <1>1, <2>2, <2>4 DEF Last, Missing, EndsAgree
    <3>2. seen'[c] = 5
      BY <1>1, <2>2, <2>4, RankTyped, ReachedTyped DEF Status
    <3>3. row'[c] # None => Right(c)'
      <4>1. CASE Unknown(w)
        BY <2>2, <4>1 DEF Unknown
      <4>2. CASE Known(w)
        <5>1. PICK status \in Readings(provider, w.at) :
                /\ row'[w.call].status = status
                /\ status = "completed" => row'[w.call].ended
          BY <1>1, <4>2, KnownRow
        <5>2. Readings(provider, call[c].at)' = Readings(provider, w.at)
          BY <1>2, <3>1 DEF Taken
        <5>. QED  BY <2>2, <5>1, <5>2 DEF Right
      <4>3. CASE NotKept(w)
        BY <1>1, <2>1, <4>3 DEF NotKept, Fault
      <4>. QED  BY <4>1, <4>2, <4>3 DEF Status
    <3>4. ~Astray(c)'
      BY <3>2, <3>3 DEF Astray
    <3>. QED  BY <1>4, <2>1, <2>2, <3>4 DEF NoMore
  <2>. QED  BY <1>1, <2>3, <2>4
<1>. QED  BY <1>6, <1>7

(* A webhook that is lost or fails, or that comes late, spoils one call at *)
(* most; no other step spoils any.                                         *)
LEMMA AstrayStep ==
  ASSUME TypeOK, TypeOK', EndsAgree, reports = "status", [Next]_vars
  PROVE  OneMore \/ NoMore
<1>0. faults \in Nat /\ late \in Nat
  BY BoundsAssumption DEF TypeOK
<1>1. ASSUME UNCHANGED <<provider, row, seen, late, faults>>,
             NEW c \in Calls, ~Over(c)' \/ (\E v \in wire' : Last(v, c)),
             \A e \in Calls \ {c} : /\ call'[e] = call[e]
                                    /\ (\E v \in wire : Last(v, e)) => \E v \in wire' : Last(v, e)
      PROVE  NoMore
  <2>1. ~Astray(c)'
    BY <1>1 DEF Astray
  <2>2. ASSUME NEW e \in Calls \ {c} PROVE Astray(e)' => Astray(e)
    <3>1. (Over(e)' <=> Over(e)) /\ (Right(e)' <=> Right(e))
      BY <1>1 DEF Over, Right, Readings
    <3>. QED  BY <1>1, <3>1 DEF Astray
  <2>. QED  BY <1>0, <1>1, <2>1, <2>2 DEF NoMore
<1>2. ASSUME NEW c \in Calls, NEW d \in {"inbound", "outbound"}, Arrive(c, d) PROVE NoMore
  <2>1. ~Over(c)'
    BY <1>2 DEF Over, Ends, Arrive, TypeOK
  <2>2. \A e \in Calls \ {c} : call'[e] = call[e]
    BY <1>2 DEF Arrive, TypeOK
  <2>. QED  BY <1>1, <1>2, <2>1, <2>2 DEF Arrive
<1>3. ASSUME NEW c \in Calls, NEW at \in Under, NEW report \in BOOLEAN, Proceed(c, at, report)
      PROVE  NoMore
  <2>1. ~Over(c)'
    <3>1. call[c] \in Call /\ at \notin Ends
      BY <1>3 DEF Proceed, TypeOK, Under, Ends
    <3>2. call'[c] = [call[c] EXCEPT !.at = at]
      BY <1>3 DEF Proceed, TypeOK
    <3>. QED  BY <3>1, <3>2 DEF Over, Call
  <2>2. \A e \in Calls \ {c} : call'[e] = call[e]
    BY <1>3 DEF Proceed, TypeOK
  <2>. QED  BY <1>1, <1>3, <2>1, <2>2 DEF Proceed
<1>4. ASSUME NEW c \in Calls, NEW at \in Ends, NEW recorded \in BOOLEAN, NEW mailed \in BOOLEAN,
             End(c, at, recorded, mailed)
      PROVE  NoMore
  BY <1>1, <1>4, EndSends DEF End
<1>5. CASE Reassign \/ UNCHANGED vars
  <2>1. UNCHANGED <<provider, call, wire, row, seen, late, faults>>
    BY <1>5 DEF Reassign, vars
  <2>. QED  BY <1>0, <2>1 DEF NoMore, Astray, Over, Right, Readings
<1>6. ASSUME NEW w \in wire, Lose(w) PROVE OneMore
  <2>1. Taken(w) /\ w.call \in Calls /\ UNCHANGED <<row, seen>>
    BY <1>6 DEF Taken, Lose, TypeOK, Hook
  <2>2. \A e \in Calls \ {w.call} : Astray(e)' => Astray(e)
    BY <2>1, OthersStay DEF Last
  <2>. QED  BY <1>0, <1>6, <2>1, <2>2 DEF OneMore, Lose, Fault
<1>7. ASSUME NEW w \in wire, Voicemail(w) PROVE NoMore
  <2>1. Taken(w) /\ UNCHANGED <<row, seen>>
    BY <1>7, HandledTyped DEF Taken, Voicemail
  <2>2. \A e \in Calls : Astray(e)' => Astray(e)
    BY <1>7, <2>1, OthersStay DEF Last, Missing, Voicemail
  <2>. QED  BY <1>0, <1>7, <2>2 DEF NoMore, Voicemail, Fault
<1>. QED  BY <1>2, <1>3, <1>4, <1>5, <1>6, <1>7, AstrayVoice, AstrayStatus DEF Next

LEMMA GrowsByOne ==
  ASSUME NEW S, NEW T, NEW p, IsFiniteSet(S), T \subseteq S \cup {p},
         NEW n \in Nat, Cardinality(S) <= n, NEW m \in Nat, m > n \/ (m >= n /\ T \subseteq S)
  PROVE  IsFiniteSet(T) /\ Cardinality(T) <= m
<1>1. /\ IsFiniteSet(S \cup {p})
      /\ Cardinality(S \cup {p}) = IF p \in S THEN Cardinality(S) ELSE Cardinality(S) + 1
  BY FS_AddElement
<1>2. IsFiniteSet(T) /\ Cardinality(T) <= Cardinality(S \cup {p})
  BY <1>1, FS_Subset
<1>3. T \subseteq S => Cardinality(T) <= Cardinality(S)
  BY FS_Subset
<1>4. Cardinality(S) \in Nat /\ Cardinality(T) \in Nat /\ Cardinality(S \cup {p}) \in Nat
  BY <1>1, <1>2, FS_CardinalityType
<1>. QED  BY <1>1, <1>2, <1>3, <1>4

LEMMA SumTyped == \A a, b \in Nat : a + b \in Nat
OBVIOUS

LEMMA EndKnownStep ==
  ASSUME TypeOK, TypeOK', EndsAgree, EndKnown, [Next]_vars
  PROVE  EndKnown'
<1>1. reports' = reports
  BY DEF Next, vars, Arrive, Proceed, End, Reassign, Lose, Voice, Status, Voicemail
<1>2. Spoilt = {c \in Calls : Astray(c)} /\ Spoilt' = {c \in Calls : Astray(c)'}
  BY DEF Spoilt, Astray
<1>. DEFINE n == faults + late
<1>3. ASSUME reports = "status"
      PROVE  IsFiniteSet(Spoilt') /\ Cardinality(Spoilt') <= n'
  <2>1. IsFiniteSet(Spoilt) /\ Cardinality(Spoilt) <= n
    BY <1>3 DEF EndKnown
  <2>2. n \in Nat /\ n' \in Nat
    <3>1. faults \in Nat /\ late \in Nat /\ faults' \in Nat /\ late' \in Nat
      BY BoundsAssumption DEF TypeOK
    <3>2. n' = faults' + late'
      OBVIOUS
    <3>. QED  BY <3>1, <3>2, SumTyped
  <2>3. \E p : Spoilt' \subseteq Spoilt \cup {p} /\ (n' > n \/ (n' >= n /\ Spoilt' \subseteq Spoilt))
    <3>1. CASE NoMore
      BY <1>2, <3>1 DEF NoMore
    <3>2. CASE OneMore
      BY <1>2, <3>2 DEF OneMore
    <3>. QED  BY <1>3, <3>1, <3>2, AstrayStep
  <2>. HIDE DEF n
  <2>. QED  BY <2>1, <2>2, <2>3, GrowsByOne
<1>. QED  BY <1>1, <1>3 DEF EndKnown

LEMMA ToldStep ==
  ASSUME TypeOK, ToldWithRow, [Next]_vars
  PROVE  ToldWithRow'
<1>1. CASE UNCHANGED <<row, rings>>
  BY <1>1 DEF ToldWithRow
<1>2. ASSUME NEW w \in wire, Recorded(w.call) PROVE ToldWithRow'
  <2>1. w.call \in Calls
    BY DEF TypeOK, Hook
  <2>2. row'[w.call] # None
    <3>1. RowOf(w.call) \in Row
      BY DEF RowOf, Row, Statuses, Under
    <3>. QED  BY <1>2, <2>1, <3>1, NoneAssumption DEF Recorded, TypeOK
  <2>3. \A e \in Calls \ {w.call} : row'[e] = row[e] /\ rings'[e] = rings[e]
    BY <1>2, <2>1 DEF Recorded, Announced, TypeOK
  <2>4. rings'[w.call] <= 1
    BY <1>2, <2>1 DEF Recorded, Announced, TypeOK, ToldWithRow
  <2>. QED  BY <2>2, <2>3, <2>4 DEF ToldWithRow
<1>3. ASSUME NEW w \in wire, w.kind = "status", Known(w), UNCHANGED rings PROVE ToldWithRow'
  <2>1. \A e \in Calls : row'[e] = None => row[e] = None
    BY <1>3, KnownRow
  <2>. QED  BY <1>3, <2>1 DEF ToldWithRow
<1>. QED  BY <1>1, <1>2, <1>3 DEF Next, vars, Arrive, Proceed, End, Reassign, Lose,
          Voice, Rejected, Unrecorded, Status, Unknown, NotKept, Voicemail

LEMMA Initial == Init => IInv
<1>. SUFFICES ASSUME Init PROVE IInv
  OBVIOUS
<1>1. TypeOK
  BY BoundsAssumption DEF Init, TypeOK
<1>2. \A c \in Calls : ~Over(c) /\ row[c] = None /\ mails[c] = 0 /\ rings[c] = 0
  BY DEF Init, Over
<1>3. EndsAgree /\ ToldWithRow /\ MailsDue
  BY <1>2 DEF Init, EndsAgree, ToldWithRow, MailsDue
<1>4. Spoilt = {} /\ faults = 0 /\ late = 0
  BY <1>2 DEF Init, Spoilt
<1>5. EndKnown
  BY <1>4, FS_EmptySet DEF EndKnown
<1>. QED  BY <1>1, <1>3, <1>5 DEF IInv

LEMMA Inductive == IInv /\ [Next]_vars => IInv'
<1>. SUFFICES ASSUME IInv, [Next]_vars PROVE IInv'
  OBVIOUS
<1>1. TypeOK /\ EndsAgree /\ EndKnown /\ ToldWithRow /\ MailsDue
  BY DEF IInv
<1>2. TypeOK'
  BY <1>1, TypeStep
<1>3. ToldWithRow'
  BY <1>1, ToldStep
<1>4. EndKnown'
  BY <1>1, <1>2, EndKnownStep
<1>5. EndsAgree' /\ MailsDue'
  <2>1. ASSUME NEW c \in Calls, NEW d \in {"inbound", "outbound"}, Arrive(c, d)
        PROVE  Calm
    BY <1>1, <2>1, CalmArrive
  <2>2. ASSUME NEW c \in Calls, NEW at \in Under, NEW report \in BOOLEAN, Proceed(c, at, report)
        PROVE  Calm
    BY <1>1, <2>2, CalmProceed
  <2>3. ASSUME NEW w \in wire, Voice(w) PROVE Calm
    BY <1>1, <2>3, CalmVoice
  <2>4. CASE Reassign \/ UNCHANGED vars
    BY <1>1, <1>2, <2>4, CalmRest, CalmKeeps
  <2>5. ASSUME NEW c \in Calls, NEW at \in Ends, NEW recorded \in BOOLEAN, NEW mailed \in BOOLEAN,
               End(c, at, recorded, mailed)
        PROVE  EndsAgree' /\ MailsDue'
    BY <1>1, <1>2, <2>5, EndKeeps
  <2>6. ASSUME NEW w \in wire, Status(w) \/ Voicemail(w) \/ Lose(w)
        PROVE  EndsAgree' /\ MailsDue'
    BY <1>1, <1>2, <2>6, TakenStatus, TakenVoicemail, TakenLose
  <2>7. Calm => EndsAgree' /\ MailsDue'
    BY <1>1, <1>2, CalmKeeps
  <2>. QED  BY <2>1, <2>2, <2>3, <2>4, <2>5, <2>6, <2>7 DEF Next
<1>. QED  BY <1>2, <1>3, <1>4, <1>5 DEF IInv

(* Every variable keeps its type, and every status in the column is one    *)
(* the column has (provider maps, webhook handlers).                       *)
THEOREM TypeCorrect == Spec => []TypeOK
<1>1. IInv => TypeOK
  BY DEF IInv
<1>. QED  BY <1>1, Initial, Inductive, PTL DEF Spec

(* Rows that do not tell the end of their call, where statuses are sent to *)
(* the webhook for them, are no more than the webhooks that were lost, that*)
(* failed or that came after a later one of their call (handleCallStatus). *)
THEOREM SettledHolds == Spec => []Settled
<1>1. IInv => Settled
  <2>. SUFFICES ASSUME IInv, reports = "status" PROVE Cardinality(Wrong) <= faults + late
    BY DEF Settled
  <2>1. Wrong \subseteq Spoilt
    BY DEF Wrong, Spoilt
  <2>2. IsFiniteSet(Spoilt) /\ Cardinality(Spoilt) <= faults + late
    BY DEF IInv, EndKnown
  <2>3. IsFiniteSet(Wrong) /\ Cardinality(Wrong) <= Cardinality(Spoilt)
    BY <2>1, <2>2, FS_Subset
  <2>4. Cardinality(Wrong) \in Nat /\ Cardinality(Spoilt) \in Nat /\ faults \in Nat /\ late \in Nat
    BY <2>2, <2>3, FS_CardinalityType, BoundsAssumption DEF IInv, TypeOK
  <2>. QED  BY <2>2, <2>3, <2>4
<1>. QED  BY <1>1, Initial, Inductive, PTL DEF Spec

(* The user is told once of a call, and every voicemail has a webhook of   *)
(* its own (handleInboundCall, handleCallStatus, handleVoicemail).         *)
THEOREM OnceEachHolds == Spec => []OnceEach
<1>1. IInv => OnceEach
  <2>. SUFFICES ASSUME IInv, NEW c \in Calls
                PROVE  /\ rings[c] <= 1
                       /\ mails[c] > 0 => Over(c)
                       /\ Over(c) => mails[c] <= Due(c)
    BY DEF OnceEach
  <2>1. rings[c] <= 1
    BY DEF IInv, ToldWithRow
  <2>2. mails[c] > 0 => Over(c)
    BY DEF IInv, MailsDue
  <2>3. Over(c) => mails[c] <= Due(c)
    <3>1. mails[c] \in Nat /\ again[c] \in Nat
      BY BoundsAssumption DEF IInv, TypeOK
    <3>2. StillToCome(c) \in Nat /\ Due(c) \in Nat
      BY <3>1 DEF StillToCome, Due
    <3>. QED  BY <3>1, <3>2 DEF IInv, MailsDue
  <2>. QED  BY <2>1, <2>2, <2>3
<1>. QED  BY <1>1, Initial, Inductive, PTL DEF Spec
=============================================================================
