------------------------------ MODULE Softphone ------------------------------
(***************************************************************************)
(* Calls in one browser tab: lib/webrtc.ts (the provider's device and the  *)
(* current call), store/callStore.ts (what the screen shows), the layout   *)
(* that builds the device when a user signs in and destroys it when they   *)
(* sign out, the pages that place calls, and the overlay that counts an    *)
(* incoming call down. The provider's SDK is Twilio's, version 2, and not  *)
(* part of the repository: a call is offered, open or closed, and its      *)
(* events reach the handlers later, in any order. Its connect() returns a  *)
(* promise, and nothing calls accept() on a call it offers.                *)
(***************************************************************************)
EXTENDS Naturals, FiniteSets

CONSTANTS
  Calls,     (* calls at the provider                                      *)
  Devices,   (* devices of the SDK                                         *)
  Handlers,  (* runs of the asynchronous functions that build a device     *)
  Ring,      (* ticks before the overlay declines: 30 in the code          *)
  None,
  Undefined, (* the callSid of a socket event, whose fields are not found  *)
  Pending    (* what connect() returns: a promise, and not a call          *)

ASSUME RingAssumption == Ring \in Nat \ {0}
ASSUME NoneAssumption == None \notin Calls \cup Devices \cup {Pending}

VARIABLES
  signedIn,     (* is there a user, and does the layout hold an access token? *)
  device,       (* webrtc.ts: device                                       *)
  currentCall,  (* webrtc.ts: currentCall                                  *)
  activeCall,   (* callStore: the call on the screen                       *)
  incomingCall, (* callStore: the call in the overlay, open iff not None   *)
  timeLeft,     (* the overlay's countdown                                 *)
  pc,           (* where each handler awaits                               *)
  dials,        (* does the handler place a call once the device is ready? *)
  alive,        (* SDK: devices not destroyed                              *)
  sdk,          (* SDK: the state of each call                             *)
  on,           (* SDK: the device of each call                            *)
  events        (* SDK: events of offered calls not yet handled            *)

store == <<activeCall, incomingCall, timeLeft>>
tab == <<signedIn, device, currentCall, store, pc, dials>>
provider == <<alive, sdk, on, events>>
vars == <<tab, provider>>

Init ==
  /\ signedIn = FALSE /\ device = None /\ currentCall = None
  /\ activeCall = None /\ incomingCall = None /\ timeLeft = Ring
  /\ pc = [h \in Handlers |-> "idle"] /\ dials = [h \in Handlers |-> FALSE]
  /\ alive = {} /\ events = {}
  /\ sdk = [c \in Calls |-> "unused"] /\ on = [c \in Calls |-> None]

CallsOf(d) == {c \in Calls : on[c] = d}

(* destroy() of a device ends its calls. Whether it emits disconnect for a *)
(* call it was offering is left open; a call placed here has no handlers.  *)
Destroy(d) ==
  /\ alive' = alive \ {d}
  /\ sdk' = [c \in Calls |-> IF c \in CallsOf(d) THEN "closed" ELSE sdk[c]]
  /\ on' = [c \in Calls |-> IF c \in CallsOf(d) THEN None ELSE on[c]]
  /\ \E told \in SUBSET {c \in CallsOf(d) : sdk[c] = "offered"} :
       events' = events \cup (told \X {"disconnect"})

(***************************************************************************)
(* Building the device.                                                    *)
(***************************************************************************)
Begin(h, places) ==
  /\ pc[h] = "idle"
  /\ pc' = [pc EXCEPT ![h] = "token"]
  /\ dials' = [dials EXCEPT ![h] = places]

Leave(h) ==
  /\ pc' = [pc EXCEPT ![h] = "idle"]
  /\ dials' = [dials EXCEPT ![h] = FALSE]

(* The button of a conversation, or of the dial pad, and its Enter key,    *)
(* which looks at activeCall but not at a call being placed.               *)
handleCall(h) ==
  /\ signedIn
  /\ Begin(h, TRUE)
  /\ UNCHANGED <<signedIn, device, currentCall, store, provider>>

(* Fault: the SDK's destroy leaves the calls of the device open.           *)
GotTokenKeepsCalls(h) ==
  /\ pc[h] = "token"
  /\ alive' = alive \ {device}
  /\ pc' = [pc EXCEPT ![h] = "import"]
  /\ UNCHANGED <<signedIn, device, currentCall, store, dials, sdk, on, events>>

(* GET /calls/token answers: the device there is, if any, is destroyed     *)
(* before the SDK has been imported.                                       *)
GotToken(h) ==
  /\ pc[h] = "token"
  /\ IF device = None THEN UNCHANGED provider ELSE Destroy(device)
  /\ pc' = [pc EXCEPT ![h] = "import"]
  /\ UNCHANGED <<signedIn, device, currentCall, store, dials>>

(* The import is done: another handler may have built a device since, and  *)
(* the user may have signed out.                                           *)
BuildDevice(h) ==
  /\ pc[h] = "import"
  /\ \E d \in Devices \ alive :
       /\ device' = d
       /\ alive' = alive \cup {d}
  /\ pc' = [pc EXCEPT ![h] = "register"]
  /\ UNCHANGED <<signedIn, currentCall, store, dials, sdk, on, events>>

(* connect() is not awaited: the SDK opens a call, or its promise is       *)
(* rejected, as on a destroyed device. The promise becomes the current     *)
(* call, and registering a handler on it throws: no handler hears of the   *)
(* call, and the screen never shows it.                                    *)
makeCall ==
  /\ currentCall' = Pending
  /\ \/ UNCHANGED <<sdk, on>>
     \/ /\ device \in alive
        /\ \E c \in Calls : /\ sdk[c] = "unused"
                           /\ sdk' = [sdk EXCEPT ![c] = "open"]
                           /\ on' = [on EXCEPT ![c] = device]

(* register() has returned. A handler that dials uses whatever device      *)
(* there is now, and fails when there is none.                             *)
Registered(h) ==
  /\ pc[h] = "register"
  /\ Leave(h)
  /\ IF dials[h] /\ device # None THEN makeCall ELSE UNCHANGED <<currentCall, sdk, on>>
  /\ UNCHANGED <<signedIn, device, store, alive, events>>

(* Any of the three awaits is rejected, and the handler reports it.        *)
Fails(h) ==
  /\ pc[h] # "idle"
  /\ Leave(h)
  /\ UNCHANGED <<signedIn, device, currentCall, store, provider>>

(***************************************************************************)
(* The layout.                                                             *)
(***************************************************************************)
SignIn(h) ==
  /\ ~signedIn
  /\ signedIn' = TRUE
  /\ Begin(h, FALSE)
  /\ UNCHANGED <<device, currentCall, store, provider>>

(* A promise has no disconnect(): destroyCallClient throws before it has   *)
(* reached the device, which stays registered.                             *)
destroyCallClient ==
  \/ /\ currentCall = Pending
     /\ UNCHANGED <<device, provider>>
  \/ /\ currentCall # Pending /\ device # None
     /\ Destroy(device)
     /\ device' = None
  \/ /\ currentCall # Pending /\ device = None
     /\ UNCHANGED <<device, provider>>

(* Without a user the layout renders nothing: the overlay is unmounted and *)
(* its countdown is lost, and the store keeps the call.                    *)
SignOut ==
  /\ signedIn
  /\ signedIn' = FALSE
  /\ destroyCallClient
  /\ timeLeft' = Ring
  /\ UNCHANGED <<currentCall, activeCall, incomingCall, pc, dials>>

(***************************************************************************)
(* The provider.                                                           *)
(***************************************************************************)
(* A device rings, and the store has the call; whether the SDK rings       *)
(* during a call is left open.                                             *)
Incoming(c) ==
  /\ sdk[c] = "unused"
  /\ \E d \in alive : on' = [on EXCEPT ![c] = d]
  /\ sdk' = [sdk EXCEPT ![c] = "offered"]
  /\ incomingCall' = c
  /\ UNCHANGED <<signedIn, device, currentCall, activeCall, timeLeft, pc, dials, alive, events>>

(* call:inbound on the socket, which may come after the call's end. The    *)
(* gateway wraps the call in an envelope, and the handler reads the fields *)
(* from the envelope itself.                                               *)
SocketInbound(c) ==
  /\ sdk[c] \in {"offered", "closed"} /\ signedIn
  /\ incomingCall' = Undefined
  /\ UNCHANGED <<signedIn, device, currentCall, activeCall, timeLeft, pc, dials, provider>>

(* The caller gives up, or the 30 seconds of the dial have passed.         *)
CallerLeaves(c) ==
  /\ sdk[c] = "offered"
  /\ sdk' = [sdk EXCEPT ![c] = "closed"] /\ on' = [on EXCEPT ![c] = None]
  /\ events' = events \cup {<<c, "cancel">>}
  /\ UNCHANGED <<tab, alive>>

(* The other end ends a call placed here, and no handler hears of it.      *)
RemoteHangsUp(c) ==
  /\ sdk[c] = "open"
  /\ sdk' = [sdk EXCEPT ![c] = "closed"] /\ on' = [on EXCEPT ![c] = None]
  /\ UNCHANGED <<tab, alive, events>>

(* setupTwilioCallHandlers: whichever call an event is about, it clears    *)
(* currentCall, and a disconnect clears the screen. Nobody accepts or      *)
(* rejects at the SDK, so those two events do not happen.                  *)
OnDisconnect(c) ==
  /\ <<c, "disconnect">> \in events
  /\ events' = events \ {<<c, "disconnect">>}
  /\ currentCall' = None /\ activeCall' = None
  /\ UNCHANGED <<signedIn, device, incomingCall, timeLeft, pc, dials, alive, sdk, on>>

OnCancel(c) ==
  /\ <<c, "cancel">> \in events
  /\ events' = events \ {<<c, "cancel">>}
  /\ currentCall' = None
  /\ UNCHANGED <<signedIn, device, store, pc, dials, alive, sdk, on>>

(***************************************************************************)
(* The user.                                                               *)
(***************************************************************************)
(* The button is there while the screen shows a call. While the current    *)
(* call is a promise hangUp throws, and nothing changes.                   *)
hangUp ==
  /\ signedIn /\ activeCall # None /\ currentCall # Pending
  /\ activeCall' = None
  /\ UNCHANGED <<signedIn, device, currentCall, incomingCall, timeLeft, pc, dials, provider>>

(* The overlay accepts in the store; nobody tells the SDK.                 *)
acceptCall ==
  /\ signedIn /\ incomingCall # None
  /\ activeCall' = incomingCall
  /\ incomingCall' = None /\ timeLeft' = Ring
  /\ UNCHANGED <<signedIn, device, currentCall, pc, dials, provider>>

declineCall ==
  /\ signedIn /\ incomingCall # None
  /\ incomingCall' = None /\ timeLeft' = Ring
  /\ UNCHANGED <<signedIn, device, currentCall, activeCall, pc, dials, provider>>

(* Fault: no countdown while the user is on a call.                        *)
TickWhenIdle ==
  /\ signedIn /\ incomingCall # None /\ activeCall = None /\ timeLeft > 0
  /\ timeLeft' = timeLeft - 1
  /\ UNCHANGED <<signedIn, device, currentCall, activeCall, incomingCall, pc, dials, provider>>

(* One second of the overlay; a second call does not start it again.       *)
Tick ==
  /\ signedIn /\ incomingCall # None /\ timeLeft > 0
  /\ timeLeft' = timeLeft - 1
  /\ UNCHANGED <<signedIn, device, currentCall, activeCall, incomingCall, pc, dials, provider>>

AutoDecline == timeLeft = 0 /\ declineCall

Handling(h) == GotToken(h) \/ BuildDevice(h) \/ Registered(h) \/ Fails(h)
Deliver(c) == OnDisconnect(c) \/ OnCancel(c)

Next ==
  \/ \E h \in Handlers : handleCall(h) \/ SignIn(h) \/ Handling(h)
  \/ \E c \in Calls : Incoming(c) \/ SocketInbound(c) \/ CallerLeaves(c)
                      \/ RemoteHangsUp(c) \/ Deliver(c)
  \/ SignOut \/ hangUp \/ acceptCall \/ declineCall \/ Tick \/ AutoDecline

Spec == Init /\ [][Next]_vars

(* The browser runs the timer of an overlay that is mounted.               *)
FairSpec == Spec /\ WF_vars(Tick) /\ WF_vars(AutoDecline)

(***************************************************************************)
(* Properties.                                                             *)
(***************************************************************************)
Shown == Calls \cup {None, Undefined}

(* Every variable keeps its type, and no call is on a destroyed device.    *)
TypeOK ==
  /\ signedIn \in BOOLEAN
  /\ device \in Devices \cup {None} /\ alive \subseteq Devices
  /\ currentCall \in {None, Pending}
  /\ activeCall \in Shown /\ incomingCall \in Shown /\ timeLeft \in 0 .. Ring
  /\ pc \in [Handlers -> {"idle", "token", "import", "register"}]
  /\ dials \in [Handlers -> BOOLEAN]
  /\ sdk \in [Calls -> {"unused", "offered", "open", "closed"}]
  /\ on \in [Calls -> Devices \cup {None}]
  /\ events \subseteq Calls \X {"disconnect", "cancel"}
  /\ \A c \in Calls : on[c] # None => on[c] \in alive

(* The overlay of an incoming call closes by itself while the user stays   *)
(* signed in, also when they are on a call, and when further calls, or the *)
(* same call on the socket, take its place before the countdown is over.   *)
OverlayCloses == incomingCall # None ~> (incomingCall = None \/ ~signedIn)

(* "Accepting connects the call via WebRTC": a call that the screen shows  *)
(* as in progress is no longer being offered at the provider.              *)
AcceptConnects == activeCall \in Calls => sdk[activeCall] # "offered"
=============================================================================
