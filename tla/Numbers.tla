------------------------------- MODULE Numbers -------------------------------
(***************************************************************************)
(* Phone numbers: the provider's inventory, the rows of phone_numbers, and *)
(* the Redis entry that routes a number's calls and texts to its owner.    *)
(* NumbersService provisions, releases and looks numbers up, each across   *)
(* several awaits; the daily job ends the grace period. Faults, at most    *)
(* MaxFaults of them, are failed calls to PostgreSQL or Redis, and replies *)
(* of the provider that are lost.                                          *)
(***************************************************************************)
EXTENDS Naturals, FiniteSets

CONSTANTS
  Users, Digits,  (* customers, and the numbers themselves                 *)
  Sids,           (* purchases: one providerSid each                       *)
  Requests,       (* requests the backend works on at the same time        *)
  MaxNumbers,     (* plan.maxNumbers                                       *)
  MaxFaults,
  None

ASSUME LimitAssumption == MaxNumbers \in Nat /\ MaxFaults \in Nat

Row == [user : Users, number : Digits, status : {"active", "releasing", "released"}]

ASSUME NoneAssumption == None \notin Users \cup Digits \cup Sids \cup Row

VARIABLES
  held,     (* provider: the number each purchase holds, or None           *)
  rows,     (* phone_numbers: the row of each purchase, or None            *)
  past,     (* rows whose grace period of seven days is over               *)
  cache,    (* Redis number:<number>: the owner, or None                   *)
  work,     (* what each request is doing                                  *)
  faults,
  stale     (* history: numbers whose entry was written late, or not gone  *)

stores == <<held, rows, past, cache>>
history == <<faults, stale>>
vars == <<stores, work, history>>

Idle == [step |-> "idle", user |-> None, number |-> None, sid |-> None]

Init ==
  /\ held = [s \in Sids |-> None] /\ rows = [s \in Sids |-> None] /\ past = {}
  /\ cache = [n \in Digits |-> None]
  /\ work = [r \in Requests |-> Idle]
  /\ faults = 0 /\ stale = {}

HasRow(s) == rows[s] # None
IsActive(s) == HasRow(s) /\ rows[s].status = "active"
ActiveOf(u) == {s \in Sids : IsActive(s) /\ rows[s].user = u}

At(r, step) == work[r].step = step
Goto(r, step) == work' = [work EXCEPT ![r].step = step]
Done(r) == work' = [work EXCEPT ![r] = Idle]
Fault == faults < MaxFaults /\ faults' = faults + 1
FailedCall == Fault /\ UNCHANGED stale

(***************************************************************************)
(* provisionNumber                                                         *)
(***************************************************************************)
(* The plan's limit is read, and the active rows are counted.              *)
Provision(r, u, n) ==
  /\ At(r, "idle")
  /\ Cardinality(ActiveOf(u)) < MaxNumbers
  /\ work' = [work EXCEPT ![r] = [step |-> "buy", user |-> u, number |-> n, sid |-> None]]
  /\ UNCHANGED <<stores, history>>

(* Fault: what the provider sold is not remembered.                        *)
BuyWithoutSid(r) ==
  /\ At(r, "buy")
  /\ \E s \in Sids :
       /\ held[s] = None /\ ~HasRow(s)
       /\ held' = [held EXCEPT ![s] = work[r].number]
  /\ Goto(r, "insert")
  /\ UNCHANGED <<rows, past, cache, history>>

(* The provider sells a number nobody holds, or refuses. Its reply may be  *)
(* lost.                                                                   *)
Buy(r) ==
  /\ At(r, "buy")
  /\ IF \E s \in Sids : held[s] = work[r].number
     THEN Done(r) /\ UNCHANGED <<held, history>>
     ELSE \E s \in Sids :
            /\ held[s] = None /\ ~HasRow(s)
            /\ held' = [held EXCEPT ![s] = work[r].number]
            /\ \/ /\ work' = [work EXCEPT ![r] =
                             [step |-> "insert", user |-> work[r].user,
                              number |-> work[r].number, sid |-> s]]
                  /\ UNCHANGED history
               \/ FailedCall /\ Done(r)
  /\ UNCHANGED <<rows, past, cache>>

Insert(r) ==
  LET s == work[r].sid
  IN  /\ At(r, "insert")
      /\ \/ /\ rows' = [rows EXCEPT ![s] = [user |-> work[r].user, status |-> "active",
                                            number |-> work[r].number]]
            /\ Goto(r, "cache")
            /\ UNCHANGED history
         \/ FailedCall /\ Done(r) /\ UNCHANGED rows
      /\ UNCHANGED <<held, past, cache>>

(* The owner's entry is written, by a purchase or a lookup, on the word of *)
(* a row that may have been released since.                                *)
SetEntry(r) ==
  LET n == work[r].number
  IN  /\ At(r, "cache")
      /\ \/ /\ cache' = [cache EXCEPT ![n] = work[r].user]
            /\ stale' = IF IsActive(work[r].sid) THEN stale ELSE stale \cup {n}
            /\ UNCHANGED faults
         \/ Fault /\ UNCHANGED <<cache, stale>>
      /\ Done(r)
      /\ UNCHANGED <<held, rows, past>>

(***************************************************************************)
(* releaseNumber                                                           *)
(***************************************************************************)
Release(r, s) ==
  /\ At(r, "idle") /\ IsActive(s)
  /\ work' = [work EXCEPT ![r] = [step |-> "release", user |-> rows[s].user,
                                  number |-> rows[s].number, sid |-> s]]
  /\ UNCHANGED <<stores, history>>

(* The provider takes the number back at once, before the days of grace    *)
(* that the row then waits for; it knows no second release.                *)
(* The request ends with its refusal, and with a reply that is lost.       *)
GiveBack(r) ==
  LET s == work[r].sid
  IN  /\ At(r, "release")
      /\ held' = [held EXCEPT ![s] = None]
      /\ \/ held[s] = None /\ Done(r) /\ UNCHANGED history
         \/ held[s] # None /\ Goto(r, "update") /\ UNCHANGED history
         \/ held[s] # None /\ FailedCall /\ Done(r)
      /\ UNCHANGED <<rows, past, cache>>

(* Fault: the row is found by its number instead of its id.                *)
MarkReleasingByNumber(r) ==
  /\ At(r, "update")
  /\ \E s \in Sids :
       /\ HasRow(s) /\ rows[s].number = work[r].number
       /\ rows' = [rows EXCEPT ![s].status = "releasing"]
  /\ Goto(r, "forget")
  /\ UNCHANGED <<held, past, cache, history>>

MarkReleasing(r) ==
  LET s == work[r].sid
  IN  /\ At(r, "update")
      /\ \/ /\ rows' = [rows EXCEPT ![s].status = "releasing"]
            /\ Goto(r, "forget")
            /\ UNCHANGED history
         \/ FailedCall /\ Done(r) /\ UNCHANGED rows
      /\ UNCHANGED <<held, past, cache>>

(* Fault: a release leaves the entry to its time to live.                  *)
ForgetNothing(r) ==
  /\ At(r, "forget")
  /\ Done(r)
  /\ UNCHANGED <<stores, history>>

Forget(r) ==
  LET n == work[r].number
  IN  /\ At(r, "forget")
      /\ \/ /\ cache' = [cache EXCEPT ![n] = None]
            /\ stale' = stale \ {n}
            /\ UNCHANGED faults
         \/ Fault /\ stale' = stale \cup {n} /\ UNCHANGED cache
      /\ Done(r)
      /\ UNCHANGED <<held, rows, past>>

(***************************************************************************)
(* getUserByNumber, for a call or a text to the number                     *)
(***************************************************************************)
(* Redis has no entry, and the row is read; without one nobody is found.   *)
Lookup(r, n) ==
  /\ At(r, "idle") /\ cache[n] = None
  /\ \E s \in Sids :
       /\ IsActive(s) /\ rows[s].number = n
       /\ work' = [work EXCEPT ![r] = [step |-> "cache", user |-> rows[s].user,
                                       number |-> n, sid |-> s]]
  /\ UNCHANGED <<stores, history>>

(***************************************************************************)
(* Time                                                                    *)
(***************************************************************************)
(* An entry lives 24 hours.                                                *)
EntryExpires(n) ==
  /\ cache[n] # None
  /\ cache' = [cache EXCEPT ![n] = None]
  /\ stale' = stale \ {n}
  /\ UNCHANGED <<held, rows, past, work, faults>>

WeekPasses(s) ==
  /\ HasRow(s) /\ rows[s].status = "releasing" /\ s \notin past
  /\ past' = past \cup {s}
  /\ UNCHANGED <<held, rows, cache, work, history>>

(* NumberGracePeriodJob: what the provider answers is only logged.         *)
GracePeriodJob ==
  /\ past # {}
  /\ held' = [s \in Sids |-> IF s \in past THEN None ELSE held[s]]
  /\ rows' = [s \in Sids |-> IF s \in past THEN [rows[s] EXCEPT !.status = "released"]
                                           ELSE rows[s]]
  /\ past' = {}
  /\ UNCHANGED <<cache, work, history>>

Step(r) == Buy(r) \/ Insert(r) \/ SetEntry(r) \/ GiveBack(r) \/ MarkReleasing(r) \/ Forget(r)

Next ==
  \/ \E r \in Requests :
       \/ \E u \in Users, n \in Digits : Provision(r, u, n)
       \/ \E s \in Sids : Release(r, s)
       \/ \E n \in Digits : Lookup(r, n)
       \/ Step(r)
  \/ \E n \in Digits : EntryExpires(n)
  \/ \E s \in Sids : WeekPasses(s)
  \/ GracePeriodJob

Spec == Init /\ [][Next]_vars

(***************************************************************************)
(* Properties.                                                             *)
(***************************************************************************)
Steps == {"idle", "buy", "insert", "cache", "release", "update", "forget"}
OrNone(S) == S \cup {None}

(* Every variable keeps its type, and a request knows what it is about.    *)
TypeOK ==
  /\ held \in [Sids -> OrNone(Digits)]
  /\ rows \in [Sids -> OrNone(Row)]
  /\ past \subseteq Sids /\ cache \in [Digits -> OrNone(Users)]
  /\ work \in [Requests -> [step : Steps, user : OrNone(Users),
                            number : OrNone(Digits), sid : OrNone(Sids)]]
  /\ faults \in 0 .. MaxFaults /\ stale \subseteq Digits
  /\ \A r \in Requests : ~At(r, "idle") =>
       /\ work[r].user # None /\ work[r].number # None
       /\ ~At(r, "buy") => work[r].sid # None

(* A purchase nobody is working on whose number the provider holds without *)
(* an active row, or which has an active row and is held no more.          *)
Quiet(s) == \A r \in Requests : work[r].sid = s => work[r].step \notin {"insert", "update"}

Mismatched == {s \in Sids : Quiet(s) /\ (held[s] # None) # IsActive(s)}

(* What the provider charges for and the active rows go together: the      *)
(* purchases on which they disagree are no more than the calls that        *)
(* failed, each of which costs one at most, whatever runs beside it.       *)
InventoryAgrees == Cardinality(Mismatched) <= faults

(* A number without an active row is routed to nobody: only a lookup or a  *)
(* purchase that straddles the release, or a failed delete, leaves an      *)
(* owner in Redis, and only until the entry expires.                       *)
RoutedToOwner ==
  \A n \in Digits \ stale :
    cache[n] # None =>
      \/ \E s \in Sids : IsActive(s) /\ rows[s].number = n /\ rows[s].user = cache[n]
      \/ \E r \in Requests : At(r, "forget") /\ work[r].number = n

(***************************************************************************)
(* The strengthening that makes the invariants above inductive.            *)
(***************************************************************************)
(* A purchase under way is held and has no row, and no two requests are    *)
(* about one purchase; a purchase with a row never loses it, and the       *)
(* request about it knows its owner and its number.                        *)
Purchasing(r) ==
  LET w == work[r]
  IN  At(r, "insert") =>
        /\ held[w.sid] # None /\ ~HasRow(w.sid)
        /\ \A q \in Requests \ {r} : At(q, "insert") => work[q].sid # w.sid

Knows(r) ==
  LET w == work[r]
  IN  work[r].step \in {"cache", "release", "update", "forget"} =>
        /\ HasRow(w.sid)
        /\ rows[w.sid].user = w.user /\ rows[w.sid].number = w.number

GivenBack(r) == At(r, "update") => held[work[r].sid] = None

Placed == \A r \in Requests : Purchasing(r) /\ Knows(r) /\ GivenBack(r)

(* The daily job touches released numbers only.                            *)
PastReleased == \A s \in past : HasRow(s) /\ rows[s].status = "releasing"

IInv ==
  /\ TypeOK /\ Placed /\ PastReleased
  /\ IsFiniteSet(Mismatched) /\ InventoryAgrees
  /\ RoutedToOwner
=============================================================================
