--------------------------- MODULE SessionsProofs ---------------------------
(***************************************************************************)
(* The invariants of Sessions, for every number of tabs, requests, tokens  *)
(* and expiries.                                                           *)
(***************************************************************************)
EXTENDS Sessions, TLAPS

(* Two callers in each tab, no caller in two tabs.                         *)
LEMMA CallFacts ==
  /\ \A t \in Tabs : Client(t) \in Calls /\ Guard(t) \in Calls
  /\ \A t, u \in Tabs : (Client(t) = Client(u) => t = u) /\ Client(t) # Guard(u)
  /\ \A c \in Calls : c[1] \in Tabs /\ (c = Client(c[1]) \/ c = Guard(c[1]))
  BY DEF Calls, Client, Guard

LEMMA InitIInv == Init => IInv
<1> SUFFICES ASSUME Init PROVE IInv
  OBVIOUS
<1> USE DEF Init
<1>1. TypeOK
  <2>1. user \in [Tabs -> BOOLEAN] /\ isRefreshing \in [Tabs -> BOOLEAN]
    OBVIOUS
  <2>2. cred \in [Requests -> BOOLEAN] /\ retried \in [Requests -> BOOLEAN]
    OBVIOUS
  <2>3. call \in [Calls -> {"none", "sent", "found", "revoked", "issued", "refused"}]
        /\ tok \in [Calls -> Tokens \cup {None}]
    OBVIOUS
  <2>4. jarGood \in BOOLEAN /\ raced \in BOOLEAN /\ disturbed \in BOOLEAN
    OBVIOUS
  <2>5. failedQueue \in [Tabs -> SUBSET Requests]
        /\ at \in [Requests -> {"idle", "sent", "queued", "refreshing"}]
        /\ family \in [Tokens -> Tokens] /\ live \subseteq Tokens
        /\ jarRefresh \in Tokens \cup {None} /\ expiries \in 0..MaxExpiries
    BY BoundsAssumption
  <2>6. QED
    BY <2>1, <2>2, <2>3, <2>4, <2>5, Zenon DEF TypeOK
<1>2. OwnFamily /\ OwnQueue /\ QueueServed
  BY CallFacts DEF OwnFamily, OwnQueue, QueueServed
<1>3. Undelivered /\ OneCall /\ Presented /\ SessionSurvives /\ NoRefusal
  BY DEF Undelivered, OneCall, Presented, SessionSurvives, NoRefusal
<1>4. QED
  BY <1>1, <1>2, <1>3 DEF IInv

LEMMA TypeKept == TypeOK /\ [Next]_vars => TypeOK'
<1> SUFFICES ASSUME TypeOK, [Next]_vars PROVE TypeOK'
  OBVIOUS
<1> USE TabOfAssumption, BoundsAssumption, CallFacts
    DEF TypeOK, tab, refresh, jar, table, history
<1>1. ASSUME NEW r \in Requests, Send(r) PROVE TypeOK'
  BY <1>1 DEF Send
<1>2. ASSUME NEW r \in Requests, Answered(r) PROVE TypeOK'
  BY <1>2 DEF Answered, Over
<1>3. ASSUME NEW r \in Requests, Unauthorized(r) PROVE TypeOK'
  <2>1. raced' \in BOOLEAN
    BY <1>3 DEF Unauthorized, StartCall
  <2>2. retried' \in [Requests -> BOOLEAN] /\ isRefreshing' \in [Tabs -> BOOLEAN]
    BY <1>3 DEF Unauthorized, Over
  <2>3. at' \in [Requests -> {"idle", "sent", "queued", "refreshing"}]
    BY <1>3 DEF Unauthorized, Over
  <2>4. failedQueue' \in [Tabs -> SUBSET Requests]
    BY <1>3 DEF Unauthorized
  <2>5. call' \in [Calls -> {"none", "sent", "found", "revoked", "issued", "refused"}]
        /\ tok' \in [Calls -> Tokens \cup {None}]
    <3>1. CASE UNCHANGED refresh
      BY <3>1
    <3>2. CASE StartCall(Client(TabOf[r]))
      BY <3>2 DEF StartCall
    <3>3. QED
      BY <1>3, <3>1, <3>2 DEF Unauthorized
  <2>6. QED
    BY <1>3, <2>1, <2>2, <2>3, <2>4, <2>5 DEF Unauthorized
<1>4. ASSUME NEW c \in Calls, Find(c) PROVE TypeOK'
  BY <1>4 DEF Find, CallTo
<1>5. ASSUME NEW c \in Calls, Revoke(c) PROVE TypeOK'
  BY <1>5 DEF Revoke, CallTo
<1>6. ASSUME NEW c \in Calls, Issue(c) PROVE TypeOK'
  BY <1>6 DEF Issue, CallTo, Issued, StillHeld
<1>7. ASSUME NEW c \in Calls, Deliver(c) PROVE TypeOK'
  <2>1. cred' \in [Requests -> BOOLEAN]
    <3>1. CASE cred' = [r \in Requests |-> cred[r] \/ r \in Waiters(c[1])]
      BY <3>1
    <3>2. QED
      BY <1>7, <3>1 DEF Deliver, Renewed
  <2>2. user' \in [Tabs -> BOOLEAN] /\ isRefreshing' \in [Tabs -> BOOLEAN]
    BY <1>7 DEF Deliver, Renewed, Settle
  <2>3. at' \in [Requests -> {"idle", "sent", "queued", "refreshing"}]
        /\ failedQueue' \in [Tabs -> SUBSET Requests]
    <3>1. CASE Settle(c[1], "sent")
      BY <3>1 DEF Settle
    <3>2. QED
      BY <1>7, <3>1 DEF Deliver, Renewed
  <2>4. QED
    BY <1>7, <2>1, <2>2, <2>3 DEF Deliver, Renewed, EndCall, StillHeld
<1>8. ASSUME NEW c \in Calls, Reject(c) PROVE TypeOK'
  <2>1. retried' \in [Requests -> BOOLEAN]
    <3>1. CASE retried' = [r \in Requests |-> retried[r] /\ r \notin Waiters(c[1])]
      BY <3>1
    <3>2. QED
      BY <1>8, <3>1 DEF Reject
  <2>2. user' \in [Tabs -> BOOLEAN] /\ isRefreshing' \in [Tabs -> BOOLEAN]
    BY <1>8 DEF Reject, Settle
  <2>3. at' \in [Requests -> {"idle", "sent", "queued", "refreshing"}]
        /\ failedQueue' \in [Tabs -> SUBSET Requests]
    BY <1>8 DEF Reject, Settle
  <2>4. QED
    BY <1>8, <2>1, <2>2, <2>3 DEF Reject, EndCall, StillHeld
<1>9. ASSUME NEW c \in Calls, Lose(c) PROVE TypeOK'
  BY <1>9 DEF Lose, CallTo
<1>10. ASSUME NEW t \in Tabs, Login(t) PROVE TypeOK'
  BY <1>10 DEF Login, Issued, StillHeld
<1>11. ASSUME NEW t \in Tabs, LeaveTab(t) PROVE TypeOK'
  BY <1>11 DEF LeaveTab
<1>12. ASSUME NEW t \in Tabs, OpenDashboard(t) PROVE TypeOK'
  <2>1. raced' \in BOOLEAN
    BY <1>12 DEF OpenDashboard, StartCall
  <2>2. QED
    BY <1>12, <2>1 DEF OpenDashboard, StartCall
<1>13. CASE Logout
  BY <1>13 DEF Logout, StillHeld
<1>14. CASE ResetPassword
  BY <1>14 DEF ResetPassword
<1>15. CASE Expire
  <2>1. cred' \in [Requests -> BOOLEAN]
    <3>1. \E S \in SUBSET Requests : cred' = [r \in Requests |-> cred[r] /\ r \notin S]
      BY <1>15, Zenon DEF Expire
    <3>2. PICK S \in SUBSET Requests : cred' = [r \in Requests |-> cred[r] /\ r \notin S]
      BY <3>1, Zenon
    <3>3. QED
      BY <3>2
  <2>2. /\ expiries < MaxExpiries /\ expiries' = expiries + 1 /\ jarGood' = FALSE
        /\ UNCHANGED <<user, isRefreshing, failedQueue, at, retried, refresh, jarRefresh,
                       table, raced, disturbed>>
    BY <1>15, Zenon DEF Expire
  <2>3. expiries' \in 0..MaxExpiries
    BY <2>2
  <2>4. jarGood' \in BOOLEAN
    BY <2>2, Zenon
  <2>5. QED
    BY <2>1, <2>2, <2>3, <2>4, Zenon
<1>16. CASE UNCHANGED vars
  BY <1>16 DEF vars
<1>17. QED
  BY <1>1, <1>2, <1>3, <1>4, <1>5, <1>6, <1>7, <1>8, <1>9, <1>10, <1>11, <1>12,
     <1>13, <1>14, <1>15, <1>16 DEF Next, Serve

(* The queue of a tab is released with the refresh it waits for.           *)
QInv == OwnQueue /\ QueueServed

LEMMA SettleKeeps ==
  ASSUME TypeOK, QInv, NEW t \in Tabs, NEW place \in {"sent", "idle"},
         Settle(t, place), EndCall(Client(t))
  PROVE  QInv'
<1> USE CallFacts DEF TypeOK, QInv, OwnQueue, QueueServed
<1>1. at' = [r \in Requests |-> IF r \in Waiters(t) THEN place ELSE at[r]]
      /\ failedQueue' = [failedQueue EXCEPT ![t] = {}]
      /\ isRefreshing' = [isRefreshing EXCEPT ![t] = FALSE]
      /\ call' = [call EXCEPT ![Client(t)] = "none"]
  BY DEF Settle, EndCall
<1>2. \A r \in Waiters(t) : r \in Requests /\ TabOf[r] = t
  BY DEF Waiters
<1>3. \A r \in Requests : TabOf[r] = t => at'[r] # "refreshing"
  BY <1>1 DEF Waiters
<1>4. \A r \in Requests : TabOf[r] # t => at'[r] = at[r]
  BY <1>1, <1>2
<1>5. \A u \in Tabs : u # t => /\ failedQueue'[u] = failedQueue[u]
                              /\ isRefreshing'[u] = isRefreshing[u]
                              /\ call'[Client(u)] = call[Client(u)]
  BY <1>1
<1>6. failedQueue'[t] = {} /\ ~isRefreshing'[t] /\ call'[Client(t)] = "none"
  BY <1>1
<1>7. OwnQueue'
  BY <1>5, <1>6
<1>8. ASSUME NEW u \in Tabs
      PROVE  /\ isRefreshing'[u] <=> call'[Client(u)] # "none"
             /\ isRefreshing'[u] <=> \E r \in Requests : TabOf[r] = u /\ at'[r] = "refreshing"
             /\ \A r \in failedQueue'[u] : at'[r] = "queued" /\ isRefreshing'[u]
  <2>1. CASE u = t
    BY <1>3, <1>6, <2>1
  <2>2. CASE u # t
    <3>1. \A r \in Requests : TabOf[r] = u => at'[r] = at[r]
      BY <1>4, <2>2
    <3>2. \A r \in failedQueue[u] : r \in Requests /\ TabOf[r] = u
      OBVIOUS
    <3>3. QED
      BY <1>5, <2>2, <3>1, <3>2
  <2>3. QED
    BY <2>1, <2>2
<1>9. QED
  BY <1>7, <1>8

LEMMA QueueKept == TypeOK /\ QInv /\ [Next]_vars => QInv'
<1> SUFFICES ASSUME TypeOK, QInv, [Next]_vars PROVE QInv'
  OBVIOUS
<1> USE TabOfAssumption, CallFacts DEF TypeOK, QInv, OwnQueue, QueueServed
<1>1. ASSUME NEW r \in Requests, Send(r) PROVE QInv'
  BY <1>1 DEF Send, refresh
<1>2. ASSUME NEW r \in Requests, Answered(r) PROVE QInv'
  BY <1>2 DEF Answered, Over, refresh
<1>3. ASSUME NEW r \in Requests, Unauthorized(r) PROVE QInv'
  <2>1. at[r] = "sent" /\ TabOf[r] \in Tabs
    BY <1>3 DEF Unauthorized
  <2>2. CASE Over(r) /\ UNCHANGED <<isRefreshing, failedQueue, refresh>>
    BY <2>1, <2>2 DEF Over, refresh
  <2>3. CASE /\ isRefreshing[TabOf[r]]
             /\ at' = [at EXCEPT ![r] = "queued"]
             /\ failedQueue' = [failedQueue EXCEPT ![TabOf[r]] = @ \cup {r}]
             /\ UNCHANGED <<isRefreshing, refresh>>
    BY <2>1, <2>3 DEF refresh
  <2>4. CASE /\ ~isRefreshing[TabOf[r]]
             /\ at' = [at EXCEPT ![r] = "refreshing"]
             /\ isRefreshing' = [isRefreshing EXCEPT ![TabOf[r]] = TRUE]
             /\ call' = [call EXCEPT ![Client(TabOf[r])] = "sent"]
             /\ UNCHANGED failedQueue
    BY <2>1, <2>4
  <2>5. QED
    BY <1>3, <2>2, <2>3, <2>4 DEF Unauthorized, StartCall
<1>4. ASSUME NEW c \in Calls, Serve(c) \/ Lose(c) PROVE QInv'
  <2>1. \A d \in Calls : call'[d] = "none" <=> call[d] = "none"
    BY <1>4 DEF Serve, Find, Revoke, Issue, Lose, CallTo
  <2>2. UNCHANGED <<isRefreshing, failedQueue, at>>
    BY <1>4 DEF Serve, Find, Revoke, Issue, Lose, tab
  <2>3. QED
    BY <2>1, <2>2
<1>5. ASSUME NEW c \in Calls, Deliver(c) PROVE QInv'
  <2>1. CASE c = Client(c[1])
    <3>1. Settle(c[1], "sent") /\ EndCall(Client(c[1]))
      BY <1>5, <2>1 DEF Deliver, Renewed
    <3>2. QED
      BY <3>1, SettleKeeps
  <2>2. CASE c # Client(c[1])
    BY <1>5, <2>2 DEF Deliver, Renewed, EndCall
  <2>3. QED
    BY <2>1, <2>2
<1>6. ASSUME NEW c \in Calls, Reject(c) PROVE QInv'
  <2>1. CASE c = Client(c[1])
    <3>1. Settle(c[1], "idle") /\ EndCall(Client(c[1]))
      BY <1>6, <2>1 DEF Reject
    <3>2. QED
      BY <3>1, SettleKeeps
  <2>2. CASE c # Client(c[1])
    BY <1>6, <2>2 DEF Reject, EndCall
  <2>3. QED
    BY <2>1, <2>2
<1>7. ASSUME NEW t \in Tabs, Login(t) \/ LeaveTab(t) \/ OpenDashboard(t) PROVE QInv'
  BY <1>7 DEF Login, LeaveTab, OpenDashboard, StartCall, tab, refresh
<1>8. CASE Logout \/ ResetPassword
  BY <1>8 DEF Logout, ResetPassword, tab, refresh
<1>9. CASE Expire
  <2>1. UNCHANGED <<isRefreshing, failedQueue, at, refresh>>
    BY <1>9, Zenon DEF Expire
  <2>2. QED
    BY <2>1 DEF refresh
<1>10. CASE UNCHANGED vars
  BY <1>10 DEF vars, tab, refresh
<1>11. QED
  BY <1>1, <1>2, <1>3, <1>4, <1>5, <1>6, <1>7, <1>8, <1>9, <1>10 DEF Next

(* Tokens: what is known of those in the cookie, in the table and in calls.*)
TInv == OwnFamily /\ Undelivered /\ OneCall /\ Presented /\ SessionSurvives /\ NoRefusal

LEMMA TokensUntouched ==
  ASSUME TInv, UNCHANGED <<call, tok, jarRefresh, live, family, raced, disturbed>>
  PROVE  TInv'
  BY DEF TInv, OwnFamily, Undelivered, OneCall, Presented, SessionSurvives, NoRefusal

(* A call presents the cookie of the moment: if it is the only one, no     *)
(* other is about to replace what it presents.                             *)
LEMMA StartKeeps ==
  ASSUME TypeOK, TInv, NEW c \in Calls, StartCall(c),
         UNCHANGED <<jarRefresh, live, family, disturbed>>
  PROVE  TInv'
<1> USE DEF TypeOK, TInv
<1>1. /\ call[c] = "none" /\ call'[c] = "sent" /\ tok'[c] = jarRefresh
      /\ \A d \in Calls \ {c} : call'[d] = call[d] /\ tok'[d] = tok[d]
      /\ raced' = (raced \/ \E d \in Calls : call[d] # "none")
  BY DEF StartCall
<1>2. OwnFamily'
  BY DEF OwnFamily
<1>3. Undelivered'
  BY <1>1 DEF Undelivered
<1>4. OneCall' /\ (~raced' => \A d \in Calls : call[d] = "none")
  BY <1>1 DEF OneCall
<1>5. SessionSurvives'
  <2>1. \A d \in Calls : call[d] \in {"revoked", "issued"}
                         => d # c /\ call'[d] = call[d] /\ tok'[d] = tok[d]
    BY <1>1
  <2>2. QED
    BY <2>1 DEF SessionSurvives
<1>6. Presented'
  BY <1>1, <1>4 DEF Presented, SessionSurvives
<1>7. NoRefusal'
  BY <1>1, <1>4 DEF NoRefusal
<1>8. QED
  BY <1>2, <1>3, <1>4, <1>5, <1>6, <1>7

(* A token that is issued is new, and takes nothing away that is held.     *)
LEMMA IssueKeeps == ASSUME TypeOK, TInv, NEW c \in Calls, Issue(c) PROVE TInv'
<1> USE NoneAssumption DEF TypeOK, TInv
<1>1. PICK k \in Tokens : tok' = [tok EXCEPT ![c] = k] /\ Issued(k)
  BY DEF Issue
<1>2. /\ call[c] = "revoked" /\ call'[c] = "issued" /\ tok'[c] = k
      /\ \A d \in Calls \ {c} : call'[d] = call[d] /\ tok'[d] = tok[d]
      /\ UNCHANGED <<jarRefresh, raced, disturbed>>
  BY <1>1 DEF Issue, CallTo, jar, history
<1>3. k # jarRefresh /\ \A d \in Calls : tok[d] # k
  BY <1>1 DEF Issued, Held
<1>4. /\ k \in live'
      /\ jarRefresh \in live => jarRefresh \in live'
      /\ \A d \in Calls \ {c} : tok[d] \in live => tok[d] \in live'
  BY <1>1, <1>2 DEF Issued, StillHeld
<1>5. OwnFamily'
  BY <1>1 DEF OwnFamily, Issued
<1>6. Undelivered'
  BY <1>2, <1>3, <1>4 DEF Undelivered
<1>7. OneCall' /\ NoRefusal'
  BY <1>2 DEF OneCall, NoRefusal
<1>8. Presented' /\ SessionSurvives'
  BY <1>2, <1>4 DEF Presented, SessionSurvives
<1>9. QED
  BY <1>5, <1>6, <1>7, <1>8

LEMMA TokensKept == TypeOK /\ TInv /\ [Next]_vars => TInv'
<1> SUFFICES ASSUME TypeOK, TInv, [Next]_vars PROVE TInv'
  OBVIOUS
<1> USE NoneAssumption, CallFacts DEF TypeOK
<1>1. ASSUME NEW r \in Requests, Send(r) \/ Answered(r) PROVE TInv'
  BY <1>1, TokensUntouched DEF Send, Answered, refresh, jar, table, history
<1>2. ASSUME NEW r \in Requests, Unauthorized(r) PROVE TInv'
  <2>1. UNCHANGED <<jarRefresh, live, family, disturbed>>
    BY <1>2 DEF Unauthorized, jar, table
  <2>2. CASE UNCHANGED <<refresh, raced>>
    BY <2>1, <2>2, TokensUntouched DEF refresh
  <2>3. CASE StartCall(Client(TabOf[r]))
    BY <2>1, <2>3, TabOfAssumption, StartKeeps
  <2>4. QED
    BY <1>2, <2>2, <2>3 DEF Unauthorized
<1>3. ASSUME NEW c \in Calls, Find(c) PROVE TInv'
  <2>1. UNCHANGED <<tok, jarRefresh, family, raced, disturbed>>
    BY <1>3 DEF Find, jar, history
  <2>2. call[c] = "sent" /\ \A d \in Calls \ {c} : call'[d] = call[d]
    BY <1>3 DEF Find, CallTo
  <2>3. live' = live
    <3>1. CASE tok[c] \in live
      BY <1>3, <3>1 DEF Find
    <3>2. CASE tok[c] \notin live
      <4>1. \A k \in live : tok[c] # None => family[k] = k /\ family[tok[c]] = tok[c]
        BY DEF TInv, OwnFamily
      <4>2. {k \in live : tok[c] # None /\ family[k] = family[tok[c]]} = {}
        BY <3>2, <4>1
      <4>3. QED
        BY <1>3, <3>2, <4>2 DEF Find
    <3>3. QED
      BY <3>1, <3>2
  <2>4. \/ tok[c] \in live /\ call'[c] = "found"
        \/ tok[c] \notin live /\ call'[c] = "refused"
    BY <1>3 DEF Find, CallTo
  <2>5. QED
    BY <2>1, <2>2, <2>3, <2>4
       DEF TInv, OwnFamily, Undelivered, OneCall, Presented, SessionSurvives, NoRefusal
<1>4. ASSUME NEW c \in Calls, Revoke(c) PROVE TInv'
  <2>1. UNCHANGED <<jarRefresh, family, raced, disturbed>> /\ live' = live \ {tok[c]}
    BY <1>4 DEF Revoke, jar, history
  <2>2. /\ call[c] = "found" /\ call'[c] = "revoked" /\ tok'[c] = None
        /\ \A d \in Calls \ {c} : call'[d] = call[d] /\ tok'[d] = tok[d]
    BY <1>4 DEF Revoke, CallTo
  <2>3. QED
    BY <2>1, <2>2
       DEF TInv, OwnFamily, Undelivered, OneCall, Presented, SessionSurvives, NoRefusal
<1>5. ASSUME NEW c \in Calls, Issue(c) PROVE TInv'
  BY <1>5, IssueKeeps
<1>6. ASSUME NEW c \in Calls, Deliver(c) PROVE TInv'
  <2>1. UNCHANGED <<family, raced, disturbed>> /\ jarRefresh' = tok[c]
    BY <1>6 DEF Deliver, history
  <2>2. /\ call[c] = "issued" /\ call'[c] = "none" /\ tok'[c] = None
        /\ \A d \in Calls \ {c} : call'[d] = call[d] /\ tok'[d] = tok[d]
    BY <1>6 DEF Deliver, EndCall
  <2>3. /\ tok[c] \in live => tok[c] \in live'
        /\ \A d \in Calls \ {c} : tok[d] \in live => tok[d] \in live'
    BY <1>6, <2>1, <2>2 DEF Deliver, StillHeld
  <2>4. QED
    BY <2>1, <2>2, <2>3
       DEF TInv, OwnFamily, Undelivered, OneCall, Presented, SessionSurvives, NoRefusal
<1>7. ASSUME NEW c \in Calls, Reject(c) PROVE TInv'
  <2>1. UNCHANGED <<jarRefresh, family, raced, disturbed>>
    BY <1>7 DEF Reject, jar, history
  <2>2. /\ call[c] = "refused" /\ call'[c] = "none" /\ tok'[c] = None
        /\ \A d \in Calls \ {c} : call'[d] = call[d] /\ tok'[d] = tok[d]
    BY <1>7 DEF Reject, EndCall
  <2>3. /\ jarRefresh \in live => jarRefresh \in live'
        /\ \A d \in Calls \ {c} : tok[d] \in live => tok[d] \in live'
    BY <1>7, <2>1, <2>2 DEF Reject, StillHeld
  <2>4. QED
    BY <2>1, <2>2, <2>3
       DEF TInv, OwnFamily, Undelivered, OneCall, Presented, SessionSurvives, NoRefusal
<1>8. ASSUME NEW c \in Calls, Lose(c) PROVE TInv'
  <2>1. /\ UNCHANGED <<tok, jarRefresh, live, family, raced>> /\ disturbed'
        /\ call[c] # "none" /\ call'[c] = "refused"
        /\ \A d \in Calls \ {c} : call'[d] = call[d]
    BY <1>8 DEF Lose, CallTo, jar, table
  <2>2. QED
    BY <2>1 DEF TInv, OwnFamily, Undelivered, OneCall, Presented, SessionSurvives, NoRefusal
<1>9. ASSUME NEW t \in Tabs, Login(t) PROVE TInv'
  <2>1. PICK k \in Tokens : jarRefresh' = k /\ Issued(k)
    BY <1>9 DEF Login
  <2>2. UNCHANGED <<call, tok, raced, disturbed>>
    BY <1>9 DEF Login, refresh, history
  <2>3. \A d \in Calls : tok[d] # k
    BY <2>1 DEF Issued, Held
  <2>4. k \in live' /\ \A d \in Calls : tok[d] \in live => tok[d] \in live'
    BY <2>1, <2>2 DEF Issued, StillHeld
  <2>5. OwnFamily'
    BY <2>1 DEF TInv, OwnFamily, Issued
  <2>6. QED
    BY <2>1, <2>2, <2>3, <2>4, <2>5
       DEF TInv, Undelivered, OneCall, Presented, SessionSurvives, NoRefusal
<1>10. ASSUME NEW t \in Tabs, LeaveTab(t) PROVE TInv'
  BY <1>10, TokensUntouched DEF LeaveTab, refresh, jar, table, history
<1>11. ASSUME NEW t \in Tabs, OpenDashboard(t) PROVE TInv'
  BY <1>11, StartKeeps DEF OpenDashboard, jar, table
<1>12. CASE Logout
  BY <1>12 DEF Logout, refresh, TInv, OwnFamily, Undelivered, OneCall, Presented, SessionSurvives,
     NoRefusal
<1>13. CASE ResetPassword
  BY <1>13 DEF ResetPassword, refresh, jar, TInv, OwnFamily, Undelivered, OneCall, Presented,
     SessionSurvives, NoRefusal
<1>14. CASE Expire
  <2>1. UNCHANGED <<refresh, jarRefresh, table, raced, disturbed>>
    BY <1>14, Zenon DEF Expire
  <2>2. QED
    BY <2>1, TokensUntouched DEF refresh, table
<1>15. CASE UNCHANGED vars
  BY <1>15, TokensUntouched DEF vars, refresh, jar, table, history
<1>16. QED
  BY <1>1, <1>2, <1>3, <1>4, <1>5, <1>6, <1>7, <1>8, <1>9, <1>10, <1>11, <1>12,
     <1>13, <1>14, <1>15 DEF Next, Serve

LEMMA Invariance == Spec => []IInv
<1>1. Init => IInv
  BY InitIInv
<1>2. IInv /\ [Next]_vars => IInv'
  BY TypeKept, QueueKept, TokensKept DEF IInv, QInv, TInv
<1>3. QED
  BY <1>1, <1>2, PTL DEF Spec

(* Every variable keeps its type, for any number of tabs and requests.     *)
THEOREM TypeCorrect == Spec => []TypeOK
<1>1. IInv => TypeOK
  BY DEF IInv
<1>2. QED
  BY <1>1, Invariance, PTL

(* In every tab a request waits only while the refresh that will release   *)
(* it runs, and no tab runs two refreshes (api.ts:60-84).                  *)
THEOREM QueueHolds == Spec => []QueueServed
<1>1. IInv => QueueServed
  BY DEF IInv
<1>2. QED
  BY <1>1, Invariance, PTL

(* However many tabs race for the cookie, they do not end the session by   *)
(* that (auth.service.ts:317-354, proxy.ts:96-131).                        *)
THEOREM SurvivalHolds == Spec => []SessionSurvives
<1>1. IInv => SessionSurvives
  BY DEF IInv
<1>2. QED
  BY <1>1, Invariance, PTL

(* A refresh that no other overlaps is not refused, unless the session was *)
(* ended or a reply was lost (auth.service.ts:327).                        *)
THEOREM RefusalHolds == Spec => []NoRefusal
<1>1. IInv => NoRefusal
  BY DEF IInv
<1>2. QED
  BY <1>1, Invariance, PTL
=============================================================================
