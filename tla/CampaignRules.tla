---------------------------- MODULE CampaignRules ----------------------------
(***************************************************************************)
(* The decision rules of a power-dialing campaign, as the dialer service   *)
(* computes them: which status may follow which, when a contact is dialed  *)
(* again, how a provider's answer becomes a contact status, whether the    *)
(* clock is inside the calling window, and the size of the worker pool.    *)
(* The rules hold no state; the modules of the dialer share them.          *)
(***************************************************************************)
EXTENDS Integers

(* domain/campaign.go: CampaignStatus                                      *)
CampaignStatus == {"draft", "running", "paused", "completed", "stopped"}

(* domain/contact.go: ContactStatus                                        *)
ContactStatus ==
  {"pending", "dialing", "answered", "failed", "busy", "no-answer", "dnc"}

(* The statuses that follow a finished call attempt; "dnc" is the outcome  *)
(* of an attempt that was skipped.                                         *)
CallOutcome == {"answered", "failed", "busy", "no-answer"}

-----------------------------------------------------------------------------
(* lifecycle.go: ValidateTransition returns nil exactly on these pairs.    *)
Successors(status) ==
  CASE status = "draft"   -> {"running"}
    [] status = "running" -> {"paused", "completed", "stopped"}
    [] status = "paused"  -> {"running", "stopped"}
    [] OTHER              -> {}

CanTransition(current, next) == next \in {current} \cup Successors(current)

-----------------------------------------------------------------------------
(* retry.go: only a contact that was busy or did not answer is dialed      *)
(* again, and it is dialed at most retryMax + 1 times in all.              *)
ShouldRetryOnceMore(status, attempts, retryMax) ==  \* fault: <= for <
  /\ retryMax > 0
  /\ status \in {"no-answer", "busy"}
  /\ attempts <= retryMax + 1

ShouldRetry(status, attempts, retryMax) ==
  /\ retryMax > 0
  /\ status \in {"no-answer", "busy"}
  /\ attempts < retryMax + 1

-----------------------------------------------------------------------------
(* call_outcome.go: every provider status the switch does not name,        *)
(* "queued" and "initiated" among them, counts as a failed attempt.        *)
ProviderStatus ==
  {"completed", "answered", "in-progress", "no-answer", "busy", "failed",
   "canceled", "queued", "initiated", "ringing"}

ClassifyOutcome(status) ==
  CASE status \in {"completed", "answered", "in-progress"} -> "answered"
    [] status \in {"no-answer", "busy"} -> status
    [] OTHER -> "failed"

-----------------------------------------------------------------------------
(* calling_hours.go: a window is a record [start, end] of minutes since    *)
(* midnight, or NoWindow when one of its ends is missing, empty or does    *)
(* not parse. Both ends are inside the window, and a window whose end is   *)
(* before its start contains no minute at all.                             *)
NoWindow == [start |-> -1, end |-> -1]

IsWithinCallingHours(window, now) ==
  window = NoWindow \/ (window.start <= now /\ now <= window.end)

-----------------------------------------------------------------------------
(* worker_pool.go, NewWorkerPool: the pool has between 1 and 10 slots.     *)
PoolSize(concurrency) ==
  IF concurrency < 1 THEN 1 ELSE IF concurrency > 10 THEN 10 ELSE concurrency
=============================================================================
