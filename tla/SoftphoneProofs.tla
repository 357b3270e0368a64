--------------------------- MODULE SoftphoneProofs --------------------------
(***************************************************************************)
(* The type invariant of Softphone, for any number of calls, of devices    *)
(* and of runs of the functions that build one.                            *)
(***************************************************************************)
EXTENDS Softphone, TLAPS

USE DEF store, tab, provider

CallTypes ==
  /\ alive \subseteq Devices
  /\ sdk \in [Calls -> {"unused", "offered", "open", "closed"}]
  /\ on \in [Calls -> Devices \cup {None}]
  /\ events \subseteq Calls \X {"disconnect", "cancel"}
  /\ \A c \in Calls : on[c] # None => on[c] \in alive

(* What a device's destroy leaves of its calls.                            *)
LEMMA Destroying ==
  ASSUME TypeOK, NEW d \in Devices, Destroy(d) PROVE CallTypes'
<1>1. /\ alive' \subseteq Devices
      /\ sdk' \in [Calls -> {"unused", "offered", "open", "closed"}]
      /\ on' \in [Calls -> Devices \cup {None}]
  BY DEF TypeOK, Destroy
<1>2. events' \subseteq Calls \X {"disconnect", "cancel"}
  <2>1. PICK told \in SUBSET CallsOf(d) : events' = events \cup (told \X {"disconnect"})
    BY DEF Destroy
  <2>2. told \subseteq Calls
    BY DEF CallsOf
  <2>. QED  BY <2>1, <2>2 DEF TypeOK
<1>3. \A c \in Calls : on'[c] # None => on'[c] \in alive'
  BY DEF TypeOK, Destroy, CallsOf
<1>. QED  BY <1>1, <1>2, <1>3 DEF CallTypes

LEMMA TypeBuilding ==
  ASSUME TypeOK, NEW h \in Handlers, handleCall(h) \/ SignIn(h) \/ Handling(h)
  PROVE  TypeOK'
<1>1. ASSUME handleCall(h) \/ SignIn(h) \/ BuildDevice(h) \/ Fails(h) PROVE TypeOK'
  BY <1>1 DEF TypeOK, handleCall, SignIn, BuildDevice, Fails, Begin, Leave
<1>2. ASSUME GotToken(h), device = None PROVE TypeOK'
  BY <1>2 DEF TypeOK, GotToken
<1>3. ASSUME GotToken(h), device # None PROVE TypeOK'
  <2>1. CallTypes'
    BY <1>3, Destroying DEF GotToken, TypeOK
  <2>. QED  BY <1>3, <2>1 DEF TypeOK, GotToken, CallTypes
<1>4. ASSUME Registered(h), makeCall PROVE TypeOK'
  <2>1. CASE UNCHANGED <<sdk, on>>
    BY <1>4, <2>1 DEF TypeOK, Registered, makeCall, Leave
  <2>2. CASE device \in alive /\ \E c \in Calls : /\ sdk[c] = "unused"
                                                  /\ sdk' = [sdk EXCEPT ![c] = "open"]
                                                  /\ on' = [on EXCEPT ![c] = device]
    BY <1>4, <2>2 DEF TypeOK, Registered, makeCall, Leave
  <2>. QED  BY <1>4, <2>1, <2>2 DEF makeCall
<1>5. ASSUME Registered(h), UNCHANGED <<currentCall, sdk, on>> PROVE TypeOK'
  BY <1>5 DEF TypeOK, Registered, Leave
<1>. QED  BY <1>1, <1>2, <1>3, <1>4, <1>5 DEF Handling, Registered

LEMMA TypeProvider ==
  ASSUME TypeOK, NEW c \in Calls,
         Incoming(c) \/ SocketInbound(c) \/ CallerLeaves(c) \/ RemoteHangsUp(c) \/ Deliver(c)
  PROVE  TypeOK'
<1>1. ASSUME Incoming(c) PROVE TypeOK'
  BY <1>1 DEF TypeOK, Incoming, Shown
<1>2. ASSUME SocketInbound(c) PROVE TypeOK'
  BY <1>2 DEF TypeOK, SocketInbound, Shown
<1>3. ASSUME CallerLeaves(c) \/ RemoteHangsUp(c) PROVE TypeOK'
  BY <1>3 DEF TypeOK, CallerLeaves, RemoteHangsUp
<1>4. ASSUME Deliver(c) PROVE TypeOK'
  BY <1>4 DEF TypeOK, Deliver, OnDisconnect, OnCancel, Shown
<1>. QED  BY <1>1, <1>2, <1>3, <1>4

LEMMA TypeUser ==
  ASSUME TypeOK,
         SignOut \/ hangUp \/ acceptCall \/ declineCall \/ Tick \/ AutoDecline \/ UNCHANGED vars
  PROVE  TypeOK'
<1>1. ASSUME SignOut PROVE TypeOK'
  <2>1. timeLeft' \in 0 .. Ring
    BY <1>1, RingAssumption DEF SignOut
  <2>2. CASE UNCHANGED <<device, provider>>
    BY <1>1, <2>1, <2>2 DEF TypeOK, SignOut
  <2>3. CASE device # None /\ Destroy(device) /\ device' = None
    <3>1. CallTypes'
      BY <2>3, Destroying DEF TypeOK
    <3>. QED  BY <1>1, <2>1, <2>3, <3>1 DEF TypeOK, SignOut, CallTypes
  <2>. QED  BY <1>1, <2>2, <2>3 DEF SignOut, destroyCallClient
<1>2. ASSUME hangUp \/ acceptCall \/ declineCall \/ Tick \/ AutoDecline \/ UNCHANGED vars
      PROVE  TypeOK'
  BY <1>2, RingAssumption
     DEF TypeOK, hangUp, acceptCall, declineCall, Tick, AutoDecline, vars, Shown
<1>. QED  BY <1>1, <1>2

(* Every variable keeps its type, and no call is on a device that has been *)
(* destroyed, however many runs build devices at once, whoever signs out   *)
(* in between and whether or not the destroy is reached (webrtc.ts:140-235,*)
(* 290-300, callStore.ts).                                                 *)
THEOREM TypeCorrect == Spec => []TypeOK
<1>1. Init => TypeOK
  <2>. SUFFICES ASSUME Init PROVE TypeOK
    OBVIOUS
  <2>1. /\ pc \in [Handlers -> {"idle", "token", "import", "register"}]
        /\ dials \in [Handlers -> BOOLEAN]
        /\ sdk \in [Calls -> {"unused", "offered", "open", "closed"}]
        /\ on \in [Calls -> Devices \cup {None}]
    BY DEF Init
  <2>2. \A c \in Calls : on[c] = None
    BY DEF Init
  <2>3. timeLeft \in 0 .. Ring
    BY RingAssumption DEF Init
  <2>. QED  BY <2>1, <2>2, <2>3 DEF Init, TypeOK, Shown
<1>2. TypeOK /\ [Next]_vars => TypeOK'
  BY TypeBuilding, TypeProvider, TypeUser DEF Next
<1>. QED  BY <1>1, <1>2, PTL DEF Spec
=============================================================================
