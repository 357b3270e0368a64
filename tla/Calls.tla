------------------------------- MODULE Calls --------------------------------
(***************************************************************************)
(* The record the backend keeps of each call, and its voicemails           *)
(* (voice-webhook.controller.ts), as the provider's webhooks make it: one  *)
(* that asks what to do with a call, one for each status the provider      *)
(* chooses to report, and one when the dial of an inbound call has ended.  *)
(*                                                                         *)
(* Webhooks are delivered in any order, may be delivered again, and may be *)
(* lost; a write to the database may fail. The instructions in the reply   *)
(* to the first webhook are wrapped in JSON by the interceptor of every    *)
(* reply (transform.interceptor.ts:55), and what the provider makes of the *)
(* call then is left open.                                                 *)
(***************************************************************************)
EXTENDS Naturals, FiniteSets

CONSTANTS
  Calls,      (* calls, by the provider's id                                *)
  Providers,  (* which of the providers that parse statuses are configured  *)
  MaxAgain,   (* bound: webhooks delivered again, for each call             *)
  MaxFaults,  (* bound: webhooks lost and writes that fail                  *)
  None

ASSUME ProvidersAssumption == Providers \subseteq {"twilio", "telnyx", "bandwidth"}
ASSUME BoundsAssumption == MaxAgain \in Nat /\ MaxFaults \in Nat

(* The moments of a call at the provider, and the statuses of the column.  *)
Under == {"initiated", "ringing", "in-progress", "other"}
Ends  == {"completed", "busy", "failed", "no-answer", "canceled"}
Statuses == (Under \cup Ends) \ {"canceled"}

Call == [dir : {"inbound", "outbound"}, at : {"asked"} \cup Under \cup Ends]
Row == [status : Statuses, ended : BOOLEAN]
Hook ==
  [call : Calls, kind : {"voice"}, at : {"asked"} \cup Under \cup Ends, recorded : BOOLEAN]
    \cup [call : Calls, kind : {"status", "voicemail"}, at : Under \cup Ends, recorded : BOOLEAN]

ASSUME NoneAssumption == None \notin Call \cup Row

VARIABLES
  provider,  (* TELEPHONY_PROVIDER                                          *)
  reports,   (* the webhook that gets the statuses of calls                 *)
  owned,     (* the number called, or called from, belongs to a user        *)
  call,      (* calls at the provider: direction, how far                   *)
  wire,      (* webhooks on their way                                       *)
  row,       (* calls: status, and whether endedAt is set                   *)
  rings,     (* times call:inbound was sent to the user's browsers          *)
  mails,     (* voicemails of each call                                     *)
  again,     (* webhooks delivered again                                    *)
  seen,      (* history: how far each call was by the webhooks handled      *)
  late,      (* history: webhooks that came after a later one of their call *)
  faults

world == <<provider, reports, owned>>
saved == <<row, rings, mails>>
past  == <<seen, late>>
vars  == <<world, call, wire, saved, again, past, faults>>

(* Twilio's numbers are bought with a URL for statuses of its own. Telnyx  *)
(* is told the URL of new calls only, and may have another in its console; *)
(* Bandwidth is told none and has those of its console.                    *)
Urls(p) == IF p = "telnyx" THEN {"voice", "status"} ELSE {"status"}

(* Fault: the name of the provider is stored.                              *)
ReadingsRaw(p, at) == {at}

(* parseStatusCallback and the status maps: what may become of the name    *)
(* each provider gives to a moment of a call. Bandwidth has one name for   *)
(* every end, and so has Telnyx when the webhook says what event it is; a  *)
(* name no map has is stored as it comes.                                  *)
Readings(p, at) ==
  LET named == IF at = "canceled" THEN "failed" ELSE at IN
  CASE at \in Under -> {at}
    [] at \in Ends /\ p = "twilio" -> {named}
    [] at \in Ends /\ p = "telnyx" -> {named, "completed"}
    [] OTHER -> {"completed"}

Webhook(c, kind, at, recorded) ==
  [call |-> c, kind |-> kind, at |-> at, recorded |-> recorded]

Init ==
  /\ provider \in Providers /\ reports \in Urls(provider) /\ owned \in BOOLEAN
  /\ call = [c \in Calls |-> None] /\ wire = {}
  /\ row = [c \in Calls |-> None]
  /\ rings = [c \in Calls |-> 0] /\ mails = [c \in Calls |-> 0]
  /\ again = [c \in Calls |-> 0]
  /\ seen = [c \in Calls |-> 0] /\ late = 0 /\ faults = 0

Over(c) == call[c] # None /\ call[c].at \in Ends
Fault == faults < MaxFaults /\ faults' = faults + 1
-----------------------------------------------------------------------------
(* The provider. It asks about a new call, reports what it likes of its    *)
(* course, and always its end; it may ask for the action of an inbound     *)
(* call's dial, answered or not. Only Twilio's browsers place calls.       *)
Arrive(c, d) ==
  /\ call[c] = None
  /\ d = "inbound" \/ provider = "twilio"
  /\ call' = [call EXCEPT ![c] = [dir |-> d, at |-> "asked"]]
  /\ wire' = wire \cup {Webhook(c, "voice", "asked", FALSE)}
  /\ UNCHANGED <<world, saved, again, past, faults>>

(* The order of the moments of a call.                                     *)
Rank(at) ==
  CASE at = "asked" -> 0
    [] at = "initiated" -> 1
    [] at = "ringing" -> 2
    [] at = "in-progress" -> 3
    [] at = "other" -> 4
    [] OTHER -> 5

Proceed(c, at, report) ==
  /\ call[c] # None /\ ~Over(c) /\ Rank(call[c].at) < Rank(at)
  /\ call' = [call EXCEPT ![c].at = at]
  /\ wire' = IF report THEN wire \cup {Webhook(c, reports, at, FALSE)} ELSE wire
  /\ UNCHANGED <<world, saved, again, past, faults>>

End(c, at, recorded, mailed) ==
  /\ call[c] # None /\ ~Over(c)
  /\ mailed => call[c].dir = "inbound"
  /\ call' = [call EXCEPT ![c].at = at]
  /\ wire' = wire \cup {Webhook(c, reports, at, recorded)}
       \cup IF mailed THEN {Webhook(c, "voicemail", at, recorded)} ELSE {}
  /\ UNCHANGED <<world, saved, again, past, faults>>

(* numbers.service.ts: the number is bought, or released.                  *)
Reassign ==
  /\ owned' = ~owned
  /\ UNCHANGED <<provider, reports, call, wire, saved, again, past, faults>>

(* A webhook that has been handled is gone, or will come again.            *)
Handled(w) ==
  \/ wire' = wire \ {w} /\ UNCHANGED again
  \/ /\ again[w.call] < MaxAgain
     /\ again' = [again EXCEPT ![w.call] = @ + 1]
     /\ UNCHANGED wire

Missing(w) == w.kind = "status" /\ w.at \in Ends

Lose(w) ==
  /\ Fault
  /\ wire' = wire \ {w}
  /\ UNCHANGED <<world, call, saved, again, past>>

(* A webhook is handled: it may come after a later one of its call.        *)
Reached(w) ==
  LET c == w.call IN
  /\ seen' = IF seen[c] < Rank(w.at) THEN [seen EXCEPT ![c] = Rank(w.at)] ELSE seen
  /\ late' = IF Rank(w.at) < seen[c] THEN late + 1 ELSE late
-----------------------------------------------------------------------------
(* handleInboundCall: a call to a number nobody has is rejected; any other *)
(* call gets its row, and an inbound one is announced to its user. A       *)
(* status that Telnyx sends here is taken for a new call.                  *)
Rejected(c) ==
  /\ call[c].dir = "inbound" /\ ~owned
  /\ UNCHANGED <<row, rings, faults>>

RowOf(c) ==
  [status |-> IF call[c].dir = "inbound" THEN "ringing" ELSE "initiated", ended |-> FALSE]

Announced(c) == rings' = [rings EXCEPT ![c] = @ + IF call[c].dir = "inbound" THEN 1 ELSE 0]

(* Fault: a request that comes again writes the row and announces again.   *)
RecordedAnew(c) ==
  /\ call[c].dir = "outbound" \/ owned
  /\ row' = [row EXCEPT ![c] = RowOf(c)]
  /\ Announced(c)
  /\ UNCHANGED faults

Recorded(c) ==
  /\ call[c].dir = "outbound" \/ owned
  /\ row[c] = None
  /\ row' = [row EXCEPT ![c] = RowOf(c)]
  /\ Announced(c)
  /\ UNCHANGED faults

(* The insert fails: the provider's id is there already, or a fault.       *)
Unrecorded(c) ==
  /\ call[c].dir = "outbound" \/ owned
  /\ \/ row[c] # None /\ UNCHANGED faults
     \/ Fault
  /\ UNCHANGED <<row, rings>>

Voice(w) ==
  /\ w.kind = "voice"
  /\ Rejected(w.call) \/ Recorded(w.call) \/ Unrecorded(w.call)
  /\ Handled(w) /\ Reached(w)
  /\ UNCHANGED <<world, call, mails>>

(* handleCallStatus: a status without a row is dropped; any other replaces *)
(* the one in the row, and a call that was missed may bring a recording.   *)
Unknown(w) ==
  /\ row[w.call] = None
  /\ UNCHANGED <<row, mails, faults>>

(* Fault: only a call that has not been answered takes a new status.       *)
KeepUnanswered(c, status) ==
  row' = IF row[c].status \in {"initiated", "ringing"}
         THEN [row EXCEPT ![c] = [status |-> status, ended |-> status = "completed"]]
         ELSE row

Keep(c, status) ==
  row' = [row EXCEPT ![c] = [status |-> status, ended |-> @.ended \/ status = "completed"]]

Missed(w, status) == w.recorded /\ status \in {"no-answer", "failed", "busy"}

Known(w) ==
  LET c == w.call IN
  /\ row[c] # None
  /\ \E status \in Readings(provider, w.at) :
       /\ Keep(c, status)
       /\ \/ /\ mails' = [mails EXCEPT ![c] = @ + IF Missed(w, status) THEN 1 ELSE 0]
             /\ UNCHANGED faults
          \/ Missed(w, status) /\ Fault /\ UNCHANGED mails

NotKept(w) ==
  /\ row[w.call] # None /\ Fault
  /\ UNCHANGED <<row, mails>>

Status(w) ==
  /\ w.kind = "status"
  /\ Unknown(w) \/ Known(w) \/ NotKept(w)
  /\ Handled(w) /\ Reached(w)
  /\ UNCHANGED <<world, call, rings>>

(* handleVoicemail: a voicemail is stored, whatever came with the request. *)
Voicemail(w) ==
  /\ w.kind = "voicemail"
  /\ \/ mails' = [mails EXCEPT ![w.call] = @ + 1] /\ UNCHANGED faults
     \/ Fault /\ UNCHANGED mails
  /\ Handled(w)
  /\ UNCHANGED <<world, call, row, rings, past>>
-----------------------------------------------------------------------------
Next ==
  \/ \E c \in Calls :
       \/ \E d \in {"inbound", "outbound"} : Arrive(c, d)
       \/ \E at \in Under, report \in BOOLEAN : Proceed(c, at, report)
       \/ \E at \in Ends, recorded, mailed \in BOOLEAN : End(c, at, recorded, mailed)
  \/ Reassign
  \/ \E w \in wire : Voice(w) \/ Status(w) \/ Voicemail(w) \/ Lose(w)

Spec == Init /\ [][Next]_vars
-----------------------------------------------------------------------------
(* Every variable keeps its type: no name of a provider reaches the column.*)
TypeOK ==
  /\ provider \in Providers /\ reports \in Urls(provider) /\ owned \in BOOLEAN
  /\ call \in [Calls -> Call \cup {None}]
  /\ wire \subseteq Hook
  /\ row \in [Calls -> Row \cup {None}]
  /\ rings \in [Calls -> Nat] /\ mails \in [Calls -> Nat]
  /\ again \in [Calls -> 0..MaxAgain]
  /\ seen \in [Calls -> 0..5] /\ late \in Nat /\ faults \in 0..MaxFaults

(* The row has a status that the provider's map gives to the call's end,   *)
(* and an end time if that status is completed.                            *)
Right(c) ==
  /\ row[c].status \in Readings(provider, call[c].at)
  /\ row[c].status = "completed" => row[c].ended

Last(w, c) == w.call = c /\ Missing(w)

(* Calls that are over, whose last status is no longer on its way, and     *)
(* whose row does not say so.                                              *)
Wrong == {c \in Calls : Over(c) /\ (\A w \in wire : ~Last(w, c)) /\ row[c] # None /\ ~Right(c)}

(* Where statuses reach the webhook for statuses: the rows of ended calls  *)
(* that do not tell the end, as the provider's map has it, are no more     *)
(* than the webhooks lost or failed and those that came after a later one  *)
(* of their call. Each spoils one call at most, and nothing else does:     *)
(* not a delivery in order that is repeated, not a status before the row,  *)
(* not a release of the number (voice-webhook.controller.ts:138-175).      *)
Settled == reports = "status" => Cardinality(Wrong) <= faults + late

MissedCall(c) == Readings(provider, call[c].at) \cap {"no-answer", "failed", "busy"} # {}

Due(c) ==
  again[c] + (IF call[c].dir = "inbound" THEN 1 ELSE 0) + (IF MissedCall(c) THEN 1 ELSE 0)

(* However often the webhooks of a call are delivered, its user is told of *)
(* it once, and a voicemail is kept for the end of an inbound dial and for *)
(* the recording of a missed call, and one more for each webhook that is   *)
(* delivered again (voice-webhook.controller.ts:107, :186, :256).           *)
OnceEach ==
  \A c \in Calls :
    /\ rings[c] <= 1
    /\ mails[c] > 0 => Over(c)
    /\ Over(c) => mails[c] <= Due(c)
-----------------------------------------------------------------------------
(* The strengthening that makes the invariants above inductive.            *)

(* Webhooks are about calls; the two that the end of a call sends say how  *)
(* it ended, and there is one of each. Statuses go where they should.      *)
Mailed(w, c) == w.call = c /\ w.kind = "voicemail"

EndsAgree ==
  \A c \in Calls, v, w \in wire :
    /\ w.call = c => call[c] # None
    /\ w.call = c /\ w.kind = "voice" /\ reports = "status" => w.at = "asked"
    /\ Last(w, c) => Over(c) /\ w.at = call[c].at
    /\ Mailed(w, c) => Over(c)
    /\ Last(v, c) /\ Last(w, c) => v = w
    /\ Mailed(v, c) /\ Mailed(w, c) => v = w

(* A call whose last status was not handled counts as spoilt already: its  *)
(* row may come later.                                                     *)
Spoilt ==
  {c \in Calls : /\ Over(c) /\ \A w \in wire : ~Last(w, c)
                 /\ seen[c] < 5 \/ (row[c] # None /\ ~Right(c))}

EndKnown ==
  reports = "status" => IsFiniteSet(Spoilt) /\ Cardinality(Spoilt) <= faults + late

(* A user is told with the row; what may still become a voicemail is due.  *)
ToldWithRow == \A c \in Calls : rings[c] <= 1 /\ (row[c] = None => rings[c] = 0)

StillToCome(c) ==
  (IF \E w \in wire : Mailed(w, c) THEN 1 ELSE 0)
    + (IF (\E w \in wire : Last(w, c)) /\ MissedCall(c) THEN 1 ELSE 0)

MailsDue ==
  \A c \in Calls : IF Over(c) THEN mails[c] + StillToCome(c) <= Due(c) ELSE mails[c] = 0

IInv == TypeOK /\ EndsAgree /\ EndKnown /\ ToldWithRow /\ MailsDue
=============================================================================
