------------------------------ MODULE Sessions ------------------------------
(***************************************************************************)
(* A signed-in user: the tabs of one browser, each with its API client     *)
(* (lib/api.ts) and its store (authStore.ts); the cookie jar they share,   *)
(* filled by the proxy (lib/proxy.ts); and the refresh tokens in the       *)
(* backend (auth.service.ts).                                              *)
(*                                                                         *)
(* A request that is answered 401 starts a refresh in its tab, or waits    *)
(* for the one that runs. The backend looks a refresh token up, revokes it *)
(* and issues the next in three calls to the database, and other tabs do   *)
(* the same with the same cookie meanwhile. A step in a browser is what    *)
(* one event makes its single thread do.                                   *)
(***************************************************************************)
EXTENDS Naturals, FiniteSets

CONSTANTS
  Tabs, Requests,
  TabOf,        (* the tab of each request                                  *)
  Tokens,       (* refresh tokens that somebody can hold at a time          *)
  MaxExpiries,  (* bound: expiries of an access token                       *)
  None

ASSUME TabOfAssumption == TabOf \in [Requests -> Tabs]
ASSUME BoundsAssumption == MaxExpiries \in Nat
ASSUME NoneAssumption == None \notin Tokens

(* Two callers of /auth/refresh in each tab: the interceptor of the API    *)
(* client, and the guard of the dashboard.                                 *)
Calls == Tabs \X {"client", "guard"}

Client(t) == <<t, "client">>
Guard(t) == <<t, "guard">>

VARIABLES
  user,        (* the store of each tab holds a user and an access token    *)
  isRefreshing,
  failedQueue, (* requests that wait for the refresh of their tab           *)
  at,          (* where each request is                                     *)
  cred,        (* the access token it carries has not expired               *)
  retried,     (* its _retry                                                *)
  call,        (* where each call of /auth/refresh is                       *)
  tok,         (* the refresh token it carries until that is revoked, then  *)
               (* the one it is given                                       *)
  jarRefresh,  (* the refresh_token cookie                                  *)
  jarGood,     (* the access_token cookie is there and has not expired      *)
  live,        (* refresh tokens in the table that are not revoked          *)
  family,      (* their family                                              *)
  expiries,    (* expiries so far, with their bound                         *)
  raced,       (* history: two refresh calls have overlapped                *)
  disturbed    (* history: a logout, a reset or a lost reply                *)

tab     == <<user, isRefreshing, failedQueue, at, cred, retried>>
refresh == <<call, tok>>
jar     == <<jarRefresh, jarGood>>
table   == <<live, family>>
history == <<expiries, raced, disturbed>>
vars    == <<tab, refresh, jar, table, history>>

Init ==
  /\ user = [t \in Tabs |-> FALSE] /\ isRefreshing = [t \in Tabs |-> FALSE]
  /\ failedQueue = [t \in Tabs |-> {}]
  /\ at = [r \in Requests |-> "idle"] /\ cred = [r \in Requests |-> FALSE]
  /\ retried = [r \in Requests |-> FALSE]
  /\ call = [c \in Calls |-> "none"] /\ tok = [c \in Calls |-> None]
  /\ jarRefresh = None /\ jarGood = FALSE
  /\ live = {} /\ family = [k \in Tokens |-> k]
  /\ expiries = 0 /\ raced = FALSE /\ disturbed = FALSE

(* A token that nobody holds is as good as deleted, and its name is free.  *)
Held == ({jarRefresh} \cup {tok[c] : c \in Calls}) \ {None}

StillHeld == {k \in live : k = jarRefresh' \/ \E c \in Calls : tok'[c] = k}

(* Fault: all the tokens of a user are one family.                         *)
IssuedToUser(k) ==
  /\ k \notin Held
  /\ live' = {k} \cup StillHeld
  /\ family' = [family EXCEPT ![k] = CHOOSE j \in Tokens : TRUE]

(* issueTokens: a row with a family of its own.                            *)
Issued(k) ==
  /\ k \notin Held
  /\ live' = {k} \cup StillHeld
  /\ family' = [family EXCEPT ![k] = k]

-----------------------------------------------------------------------------
(* The API client.                                                         *)
Send(r) ==
  /\ at[r] = "idle"
  /\ user[TabOf[r]]
  /\ at' = [at EXCEPT ![r] = "sent"]
  /\ cred' = [cred EXCEPT ![r] = jarGood]
  /\ UNCHANGED <<user, isRefreshing, failedQueue, retried, refresh, jar, table, history>>

Over(r) ==
  /\ at' = [at EXCEPT ![r] = "idle"]
  /\ retried' = [retried EXCEPT ![r] = FALSE]

Answered(r) ==
  /\ at[r] = "sent"
  /\ cred[r]
  /\ Over(r)
  /\ cred' = [cred EXCEPT ![r] = FALSE]
  /\ UNCHANGED <<user, isRefreshing, failedQueue, refresh, jar, table, history>>

(* POST /auth/refresh: the proxy takes the token from the cookie.          *)
StartCall(c) ==
  /\ call[c] = "none"
  /\ call' = [call EXCEPT ![c] = "sent"]
  /\ tok' = [tok EXCEPT ![c] = jarRefresh]
  /\ raced' = (raced \/ \E d \in Calls : call[d] # "none")

(* The answer is 401: a request that has been retried is rejected; one     *)
(* that finds a refresh running waits for it; any other starts one.        *)
Unauthorized(r) ==
  LET t == TabOf[r]
  IN  /\ at[r] = "sent"
      /\ ~cred[r]
      /\ \/ /\ retried[r]
            /\ Over(r)
            /\ UNCHANGED <<isRefreshing, failedQueue, refresh, raced>>
         \/ /\ ~retried[r] /\ isRefreshing[t]
            /\ at' = [at EXCEPT ![r] = "queued"]
            /\ failedQueue' = [failedQueue EXCEPT ![t] = @ \cup {r}]
            /\ UNCHANGED <<isRefreshing, retried, refresh, raced>>
         \/ /\ ~retried[r] /\ ~isRefreshing[t]
            /\ at' = [at EXCEPT ![r] = "refreshing"]
            /\ retried' = [retried EXCEPT ![r] = TRUE]
            /\ isRefreshing' = [isRefreshing EXCEPT ![t] = TRUE]
            /\ StartCall(Client(t))
            /\ UNCHANGED failedQueue
      /\ UNCHANGED <<user, cred, jar, table, expiries, disturbed>>

(* The requests of a tab that wait for its refresh, the first included.    *)
Waiters(t) == failedQueue[t] \cup {r \in Requests : TabOf[r] = t /\ at[r] = "refreshing"}

EndCall(c) ==
  /\ call' = [call EXCEPT ![c] = "none"]
  /\ tok' = [tok EXCEPT ![c] = None]

(* processQueue, and the end of the refresh.                               *)
Settle(t, place) ==
  /\ at' = [r \in Requests |-> IF r \in Waiters(t) THEN place ELSE at[r]]
  /\ failedQueue' = [failedQueue EXCEPT ![t] = {}]
  /\ isRefreshing' = [isRefreshing EXCEPT ![t] = FALSE]

(* What the browser makes of a reply: the interceptor sends its requests   *)
(* again, with the new cookie; the guard puts the user into the store.     *)
Renewed(c) ==
  LET t == c[1]
  IN  IF c = Client(t)
        THEN /\ Settle(t, "sent")
             /\ cred' = [r \in Requests |-> cred[r] \/ r \in Waiters(t)]
             /\ UNCHANGED <<user, retried>>
        ELSE /\ user' = [user EXCEPT ![t] = TRUE]
             /\ UNCHANGED <<at, cred, retried, failedQueue, isRefreshing>>

(* Fault: the proxy sets the cookie from a field the reply does not have.  *)
DeliverUndefined(c) ==
  /\ call[c] = "issued"
  /\ jarRefresh' = "undefined" /\ jarGood' = TRUE
  /\ EndCall(c)
  /\ Renewed(c)
  /\ UNCHANGED <<table, history>>

(* Fault: the proxy leaves the refresh token as it is.                     *)
DeliverAccessOnly(c) ==
  /\ call[c] = "issued"
  /\ jarGood' = TRUE
  /\ EndCall(c)
  /\ Renewed(c)
  /\ UNCHANGED <<jarRefresh, table, history>>

(* Fault: a success does not release the requests in the queue.            *)
DeliverToFirst(c) ==
  LET first == {r \in Requests : TabOf[r] = c[1] /\ at[r] = "refreshing"}
  IN  /\ call[c] = "issued"
      /\ jarRefresh' = tok[c] /\ jarGood' = TRUE
      /\ EndCall(c)
      /\ IF c = Client(c[1])
           THEN /\ at' = [r \in Requests |-> IF r \in first THEN "sent" ELSE at[r]]
                /\ isRefreshing' = [isRefreshing EXCEPT ![c[1]] = FALSE]
                /\ cred' = [r \in Requests |-> cred[r] \/ r \in first]
                /\ UNCHANGED <<user, failedQueue>>
           ELSE /\ user' = [user EXCEPT ![c[1]] = TRUE]
                /\ UNCHANGED <<at, cred, failedQueue, isRefreshing>>
      /\ UNCHANGED <<retried, table, history>>

(* The reply sets both cookies.                                            *)
Deliver(c) ==
  /\ call[c] = "issued"
  /\ jarRefresh' = tok[c] /\ jarGood' = TRUE
  /\ EndCall(c)
  /\ Renewed(c)
  /\ live' = StillHeld
  /\ UNCHANGED <<family, history>>

(* Fault: the catch clause leaves the flag set.                            *)
RejectStillRefreshing(c) ==
  LET t == c[1]
  IN  /\ call[c] = "refused"
      /\ EndCall(c)
      /\ user' = [user EXCEPT ![t] = FALSE]
      /\ IF c = Client(t)
           THEN /\ at' = [r \in Requests |-> IF r \in Waiters(t) THEN "idle" ELSE at[r]]
                /\ failedQueue' = [failedQueue EXCEPT ![t] = {}]
           ELSE UNCHANGED <<at, failedQueue>>
      /\ UNCHANGED <<isRefreshing, cred, retried, jar, table, history>>

(* The call has failed, for whatever reason: the requests are rejected and *)
(* the tab goes to the login page.                                         *)
Reject(c) ==
  LET t == c[1]
  IN  /\ call[c] = "refused"
      /\ EndCall(c)
      /\ user' = [user EXCEPT ![t] = FALSE]
      /\ IF c = Client(t)
           THEN /\ Settle(t, "idle")
                /\ retried' = [r \in Requests |-> retried[r] /\ r \notin Waiters(t)]
           ELSE UNCHANGED <<at, retried, failedQueue, isRefreshing>>
      /\ UNCHANGED <<cred, jar, family, history>>
      /\ live' = StillHeld

-----------------------------------------------------------------------------
(* AuthService.refresh, in three calls to the database.                    *)
CallTo(c, place) == call' = [call EXCEPT ![c] = place]

(* A token that is unknown or revoked is refused, and its family revoked:  *)
(* that is the token itself, since every token has a family of its own.    *)
Find(c) ==
  /\ call[c] = "sent"
  /\ IF tok[c] \in live
       THEN CallTo(c, "found") /\ UNCHANGED live
       ELSE /\ CallTo(c, "refused")
            /\ live' = live \ {k \in live : tok[c] # None /\ family[k] = family[tok[c]]}
  /\ UNCHANGED <<tab, tok, jar, family, history>>

Revoke(c) ==
  /\ call[c] = "found"
  /\ CallTo(c, "revoked")
  /\ live' = live \ {tok[c]}
  /\ tok' = [tok EXCEPT ![c] = None]
  /\ UNCHANGED <<tab, jar, family, history>>

Issue(c) ==
  /\ call[c] = "revoked"
  /\ CallTo(c, "issued")
  /\ UNCHANGED <<tab, jar, history>>
  /\ \E k \in Tokens : tok' = [tok EXCEPT ![c] = k] /\ Issued(k)

(* The call, the backend or the reply is lost on the way.                  *)
Lose(c) ==
  /\ call[c] \in {"sent", "found", "revoked", "issued"}
  /\ CallTo(c, "refused")
  /\ disturbed' = TRUE
  /\ UNCHANGED <<tab, tok, jar, table, expiries, raced>>

Serve(c) == Find(c) \/ Revoke(c) \/ Issue(c)

-----------------------------------------------------------------------------
(* The user and the clock.                                                 *)

(* Any of the logins: a token is issued and the proxy sets the cookies.    *)
Login(t) ==
  /\ ~user[t]
  /\ user' = [user EXCEPT ![t] = TRUE]
  /\ jarGood' = TRUE
  /\ UNCHANGED <<isRefreshing, failedQueue, at, cred, retried, refresh, history>>
  /\ \E k \in Tokens : jarRefresh' = k /\ Issued(k)

(* "Log out" in the sidebar: the store is emptied, and nothing else.       *)
LeaveTab(t) ==
  /\ user[t]
  /\ user' = [user EXCEPT ![t] = FALSE]
  /\ UNCHANGED <<isRefreshing, failedQueue, at, cred, retried, refresh, jar, table, history>>

(* The dashboard is opened without a user: its guard tries the cookie.     *)
OpenDashboard(t) ==
  /\ ~user[t]
  /\ StartCall(Guard(t))
  /\ UNCHANGED <<tab, jar, table, expiries, disturbed>>

(* POST /auth/logout, which no page sends: the cookies are deleted, and    *)
(* the token is revoked if the request carries it and an access token.     *)
Logout ==
  /\ jarRefresh # None
  /\ jarRefresh' = None /\ jarGood' = FALSE
  /\ disturbed' = TRUE
  /\ UNCHANGED <<tab, refresh, family, expiries, raced>>
  /\ \E carried \in BOOLEAN :
       live' = IF carried /\ jarGood THEN StillHeld \ {jarRefresh} ELSE StillHeld

(* The last step of a password reset, one transaction.                     *)
ResetPassword ==
  /\ live' = {}
  /\ disturbed' = TRUE
  /\ UNCHANGED <<tab, refresh, jar, family, expiries, raced>>

(* Access tokens expire, in the jar and perhaps on the way.                *)
Expire ==
  /\ expiries < MaxExpiries
  /\ expiries' = expiries + 1
  /\ jarGood' = FALSE
  /\ \E S \in SUBSET Requests : cred' = [r \in Requests |-> cred[r] /\ r \notin S]
  /\ UNCHANGED <<user, isRefreshing, failedQueue, at, retried, refresh, jarRefresh, table,
                 raced, disturbed>>

Next ==
  \/ \E r \in Requests : Send(r) \/ Answered(r) \/ Unauthorized(r)
  \/ \E c \in Calls : Serve(c) \/ Deliver(c) \/ Reject(c) \/ Lose(c)
  \/ \E t \in Tabs : Login(t) \/ LeaveTab(t) \/ OpenDashboard(t)
  \/ Logout \/ ResetPassword \/ Expire

Spec == Init /\ [][Next]_vars

(* Requests are answered, by the backend or by a time-out; the user is     *)
(* free to do nothing.                                                     *)
Fairness ==
  /\ \A r \in Requests : WF_vars(Answered(r) \/ Unauthorized(r))
  /\ \A c \in Calls : WF_vars(Serve(c) \/ Deliver(c) \/ Reject(c))

FairSpec == Spec /\ Fairness

-----------------------------------------------------------------------------
TypeOK ==
  /\ user \in [Tabs -> BOOLEAN] /\ isRefreshing \in [Tabs -> BOOLEAN]
  /\ failedQueue \in [Tabs -> SUBSET Requests]
  /\ at \in [Requests -> {"idle", "sent", "queued", "refreshing"}]
  /\ cred \in [Requests -> BOOLEAN] /\ retried \in [Requests -> BOOLEAN]
  /\ call \in [Calls -> {"none", "sent", "found", "revoked", "issued", "refused"}]
  /\ tok \in [Calls -> Tokens \cup {None}]
  /\ jarRefresh \in Tokens \cup {None} /\ jarGood \in BOOLEAN
  /\ live \subseteq Tokens /\ family \in [Tokens -> Tokens]
  /\ expiries \in 0..MaxExpiries /\ raced \in BOOLEAN /\ disturbed \in BOOLEAN

(* A request waits only while the refresh that will release it runs, and   *)
(* no tab runs two (api.ts:60-84).                                         *)
QueueServed ==
  \A t \in Tabs :
    /\ isRefreshing[t] <=> call[Client(t)] # "none"
    /\ isRefreshing[t] <=> \E r \in Requests : TabOf[r] = t /\ at[r] = "refreshing"
    /\ \A r \in failedQueue[t] : at[r] = "queued" /\ isRefreshing[t]

(* However the tabs race, nobody but the user ends the session: the cookie *)
(* holds a token the backend accepts, or a reply with one is on its way    *)
(* (auth.service.ts:317-354, proxy.ts:96-131).                             *)
SessionSurvives ==
  ~disturbed /\ jarRefresh # None =>
    \/ jarRefresh \in live
    \/ \E c \in Calls : call[c] = "revoked" \/ (call[c] = "issued" /\ tok[c] \in live)

(* A refresh is refused only if the session was ended, a reply was lost or *)
(* two refreshes overlapped: the requests of one tab never overlap theirs. *)
NoRefusal ==
  ~disturbed /\ ~raced =>
    \A c \in Calls : call[c] = "refused" => tok[c] = None

(* Every request is answered or rejected in the end, those in the queue of *)
(* a refresh too.                                                          *)
RequestsSettle == \A r \in Requests : at[r] # "idle" ~> at[r] = "idle"

-----------------------------------------------------------------------------
(* What the invariants rest on. A family has one token; a request in the   *)
(* queue of a tab is of that tab.                                          *)
OwnFamily == family = [k \in Tokens |-> k]

OwnQueue == \A t \in Tabs : \A r \in failedQueue[t] : TabOf[r] = t

(* A token that is on its way to the browser is known to nobody else, and  *)
(* good.                                                                   *)
Undelivered ==
  \A c \in Calls : call[c] = "issued" =>
    /\ tok[c] # None /\ tok[c] # jarRefresh
    /\ \A d \in Calls \ {c} : tok[d] # tok[c]
    /\ ~disturbed => tok[c] \in live

(* Without a race there is one call, and the token it presents is good.    *)
OneCall == ~raced => \A c, d \in Calls : call[c] # "none" /\ call[d] # "none" => c = d

Presented ==
  ~disturbed /\ ~raced =>
    \A c \in Calls : call[c] \in {"sent", "found"} /\ tok[c] # None => tok[c] \in live

IInv ==
  /\ TypeOK /\ OwnFamily /\ OwnQueue /\ QueueServed
  /\ Undelivered /\ OneCall /\ Presented /\ SessionSurvives /\ NoRefusal
=============================================================================
