# VoiceLink, specified

VoiceLink is a telephony service: a NestJS backend (`backend/`), a power dialer
in Go (`dialer-service/`), and a Next.js frontend (`frontend/`). They share one
PostgreSQL database and one Redis. This directory holds TLA+ models of the parts
whose correctness depends on the order in which things happen, the TLC
configurations that check them, and machine-checked proofs.

## 1. Inventory

### The dialer service

| Part | State | Operations | Talks to |
|---|---|---|---|
| `campaign/worker_pool.go` | state of the pool, context, semaphore, wait group, counters | `Start` (the loop), `dialOne`, `updateProgress`, `finish`, `Pause`, `Resume`, `Stop` | Redis list and hash, contact and campaign rows, provider, NestJS |
| `campaign/service.go` | map from campaign to pool | create and start, pause, resume, stop, results, export | the pools, the rows, Redis |
| `lifecycle.go`, `retry.go`, `calling_hours.go`, `call_outcome.go` | none | decision rules | - |
| `csv_parser.go` | none | rows of an uploaded file | - |
| `queue/`, `repository/`, `callback/`, `dialer/` | external | one call each | Redis, PostgreSQL, NestJS, Twilio or Telnyx |

Hard behaviours: goroutines that finish in any order; a loop that checks first
and waits afterwards; a stop that cancels the context under the feet of the
goroutines; errors that are logged or dropped; counters copied under a lock and
published after it.

What makes it correct: no contact is lost, none is dialed twice at once or too
often, blocked numbers are not called, calls stop when the campaign is paused,
stopped or outside its hours, the counters account for every dial, and every
campaign ends.

### The backend

| Part | State | Hard behaviours |
|---|---|---|
| `dialer/` | campaign row, shared with the dialer service | HTTP first and write afterwards, callbacks racing user requests, a row that two processes write |
| `messaging/` | messages, conversations, opt-outs | provider call between a check and a write, receipts out of order or before the row, duplicates |
| `jobs/` | scheduled messages, released numbers | a run that overlaps the next, a deletion while sending |
| `calling/` | call records, voicemails | status webhooks out of order, again, or before the row |
| `numbers/` | numbers, cache from number to user | purchase and row in two calls, stale cache after a release, count before a purchase |
| `billing/` | subscription, invoices, usage | events twice or out of order, check before increment |
| `auth/` | sessions, refresh-token families, one-time codes | two refreshes of one token, attempts counted in Redis |
| `contacts/`, `templates/`, `api-keys/`, `audit/` | rows of one user | none: plain reads and writes |
| `telephony/` | none | none: translation to five providers |

### The frontend

`lib/api.ts` (one token refresh for many failed requests), `lib/webrtc.ts` with
`store/callStore.ts` (events of the user, the SDK and the socket on one call),
`store/messageStore.ts` with `lib/websocket.ts` (optimistic messages and their
acknowledgement). Pages and components are presentation.

`PROJECT.json` lists every component with its files and status, and every hazard
with its line and the property that covers it.

## 2. Plan

In the order of their weight for the system. What is marked written is in this
directory, with its run; what is marked proved has a module of theorems beside it.

1. `CampaignRules`, `WorkerPool`, `DialPromise`: the dialer's core. Written, checked, proved.
2. `CampaignService`: the registry of pools, creation, resume without a pool,
   two pools on one campaign, restart of the process. Written, checked, proved.
3. `Sessions`: the refresh of a session, from the queue in the browser over the
   proxy's cookies to the rotation in the backend, composed in one module
   because the properties are about the three together. Written, checked, proved.
4. `CampaignSync`: a campaign across browser, backend and dialer, from the file to
   the row that two programs write. Written, checked, proved.
5. `Messaging`: sending, scheduled messages and their deletion, inbound texts, receipts.
   Written, checked, proved.
6. `Softphone`: a call in the browser under the user, the SDK, the layout and the
   socket. Written, checked, proved.
7. `Numbers`: purchase, release, routing, the end of the grace period. Written, checked, proved.
8. `Calls`: the record of a call under the webhooks of the provider. Written, checked, proved.
9. Left for later: `Billing` (the events of the payment provider), the rate limiter, the
   message store of the browser, the simulated device of the providers other than Twilio.

Abstract specifications: what a campaign promises of its requests to the provider
(`DialPromise`, done). Theorems: every safety invariant and every action property that a run
checks has its theorem (section 5). Left for later: that pools which share a campaign together
implement a promise like `DialPromise`, with as many requests at a time as there are slots in all.

## 3. The modules

### `CampaignRules`

The rules that hold no state: which status may follow which
(`CanTransition`, `lifecycle.go`), when a contact is dialed again (`ShouldRetry`,
`retry.go`), how a provider's answer is classified (`ClassifyOutcome`), whether a
minute is inside the calling window (`IsWithinCallingHours`), and the size of a pool.

### `WorkerPool`

One campaign and its pool. A step is the code between two points at which another
goroutine can act: a lock, a channel, or a call to another process.

| Model | Code |
|---|---|
| `loop` | where `Start` is: `start`, `check` (top of the loop), `dequeue` (BRPOP), `acquire` (the select on semaphore and context), `drain` (`wg.Wait`), `record` and `report` (the two calls of `finish`), `done` |
| `held` | the contact id between BRPOP and the launch of its goroutine |
| `pc`, `contact`, `tries`, `outcome`, `snap` | a goroutine of `dialOne` and its variables |
| `sem`, `cancelled`, `state`, `progress`, `dialCount` | the fields of the pool |
| `queue`, `redisProg` | the list and the hash in Redis |
| `row`, `dbCount`, `dbStatus` | the rows in PostgreSQL |
| `reported`, `astray` | the last callback NestJS handled, and callbacks the pool gave up waiting for that it will handle later |
| `now` | minutes since midnight where the campaign is |
| `faults` | calls to another process that failed, with their bound |
| `began`, `calls`, `late`, `halted` | history, used by properties only |

A pool begins with what it finds (`Found`). `CreateAndStart` gives it counters of zero,
whatever an earlier start has left in the row; `ResumeCampaign` gives it the counters of the
row, and what remains is the number of contacts less the dials, which is negative once
retries were more than the contacts left (`service.go:211-216`, `worker_pool.go:68-75`).
Two programs write the row's counters: a goroutine adds its dial to them, and NestJS, when it
handles a callback, assigns the values copied into it (`dialer.service.ts:289-297`), which may
be old by then.

Every call to another process may fail (`Attempt`, `AttemptDetached`), a call that
takes the pool's context fails once it is cancelled, and the code's reaction,
mostly to go on, is in the action. A pop whose reply is lost removes the
element (`DequeueError`). The provider's answer is any of `Outcomes`, or an error.
`CtxAware` says whether the client heeds its context: the Telnyx client does, the
Twilio client does not.

Left out: durations and the text of logs; the phone number (a contact stands for
it); writes to Redis by other campaigns; the reply of NestJS, which the code ignores.
A second pool on the same campaign is in `CampaignService`.

### `DialPromise`

What a campaign promises of its requests to the provider: at most `Limit` in progress
at once, never two at once for a contact, at most `Budget` for each, and after the campaign is
closed none but those already on their way (`grace`), or none at all if the client heeds its
context (`Heeds`). `WorkerPool` implements it with either kind of client: a request is in progress
while a goroutine is between the two writes of the row, and a campaign is closed when its
context is cancelled. How long the calls last that the provider creates is not said:
`provider.Call` returns when the call is created (section 4).

### `CampaignService`

The service around the pools of one campaign: requests of the API beside each
other and beside the pools, and the process that ends and starts again.

| Model | Code |
|---|---|
| `registry` | the entry of the campaign in `s.pools` |
| `at`, `target`, `ids`, `hours` | an HTTP request: how far its handler is, the pool it found, the contacts it carries, whether its campaign struct has calling hours |
| `state`, `loop`, `cancelled`, `hand`, `timed` | a pool: its fields, its loop, the contact the loop holds |
| `pc`, `owner`, `contact`, `tries`, `outcome` | a goroutine of `dialOne` and the pool it belongs to |
| `queue`, `row`, `dbStatus`, `dbHours` | the list in Redis, the rows of contacts and campaign in PostgreSQL |
| `creates`, `asked`, `crashes`, `faults` | events so far, each with its bound |
| `orderly`, `halted`, `pushed`, `calls`, `dropped` | history, used by properties only |

A creation goes through `look` (`GetByID`), `mark` or `insert` (the campaign's row),
`contacts` (insert or read), `enqueue` (LPUSH) and `register` (map and goroutine);
each is one call to another process, or one critical section. A creation carries its
contacts, or none when NestJS has inserted them with the row (`Uploaded`). Pause, resume and stop
find the pool under the lock (`Ask`) and use it after the lock is released
(`Pause`, `ResumePool`, `StopPool`); without a pool they write the row unseen
(`Pause`, `StopClear`, `StopRecord`) or make a pool of it (`ResumeRow`, then `Register`).
Nothing but the map forbids two pools on one campaign, and `Register` replaces the
entry whether there is one or not.

A pool is that of `WorkerPool` at a coarser grain: no clock, no counters, no lookup
of blocked numbers, a provider that heeds its context, and row and call in one step.
The steps that several pools can race on, the list and the rows, are kept apart.
`Crash` empties the memory and leaves Redis and PostgreSQL alone: on a signal `main`
shuts the HTTP server down and waits for no pool, and at the start nothing is resumed.

### `Sessions`

A signed-in user: the tabs of one browser, the proxy with the cookies the tabs share,
and the refresh tokens in the backend.

| Model | Code |
|---|---|
| `user` | the store of a tab has a user and an access token (`authStore.ts`) |
| `isRefreshing`, `failedQueue` | the variables of `lib/api.ts`, one pair in each tab |
| `at`, `cred`, `retried` | a request: sent, waiting or idle; whether the access token it carries is good; its `_retry` |
| `call`, `tok` | a call of `/auth/refresh`: where it is, and its refresh token. A tab has two callers, the interceptor and the guard of the dashboard |
| `jarRefresh`, `jarGood` | the cookies |
| `live`, `family` | the rows of `refresh_tokens` that are not revoked, and their families |
| `expiries` | expiries of an access token, with their bound |
| `raced`, `disturbed` | history, used by properties only |

The backend's `refresh` is three actions, one for each call to the database: `Find`,
`Revoke`, `Issue`. `Deliver` is the reply: the cookies are set, and what the one thread
of the browser does then, for the interceptor `processQueue`, the repeated requests
and the flag. `Reject` is every failure. A page that is loaded anew during a refresh
appears as a lost reply (`Lose`); the 30 days of a refresh token do not run out.
A token that no cookie and no call holds is dropped from `live`, since nothing can
present it again; this keeps the names few.

### `CampaignSync`

A campaign across its three programs. The browser and the backend read the uploaded
file, each with rules of its own; the backend keeps the row and forwards; the dialer
runs the pool, writes rows of the same table (both services are given the same database,
`docker-compose.yml:49`, `:75`) and calls the backend back.

| Model | Code |
|---|---|
| `File`, `BrowserAccepts`, `Validate`, `ContactsOf` | a file as the kind of its phone column and of each phone cell; what the page `dialer/new` accepts, how many rows `csv-validator.ts` counts, which rows `createCampaign` inserts |
| `dnc` | the do-not-call list of the user (`dnc_entries`) |
| `row`, `contacts` | `campaigns` (status, dialed, total) and `campaign_contacts` |
| `req` | a request of the browser: sent, or answered by the dialer and not yet recorded |
| `pool` | the dialer's pools: the row each was started from, its state, whether its loop dials, waits for its goroutines or is done, its context, the contacts it was given and those in its queue, how often each was dialed, its counters |
| `reports` | goroutines that have tallied a dial, with the copy they made under the lock (`worker_pool.go:231`), and what each does next: increment of the row, callback, status, return of the contact to the queue; and the last callback of a pool |
| `lost` | calls that have failed, with their bound |

A start makes a campaign with an id of its own in the dialer, because the dialer reads
the id under another name (`findings`); what the user stops afterwards is not what dials. The button
that starts a campaign is on the list of campaigns (`dialer/page.tsx:269-277`), the others there and on
its page; `startCampaign` looks at no status. A pool leaves its loop when nothing remains or the
queue is empty, waits for its goroutines, which may have filled the queue again, and finishes
whatever its state is then. One that was stopped finishes with a cancelled context, so that its last report is not
sent and the row may keep the counters it had.
The increments of the dialer (`UPDATE ... SET dialed = dialed + n`) and the values the
callback assigns (`dialer.service.ts:289`) end up in one column, in any order.
Abstracted: the moment between the answer of the dialer and the start of its pool (it is in
`CampaignService`), a callback that is executed after its client has given up waiting
(it is a report that takes long), a restart of the dialer (in `CampaignService`).
`ParseCSV` of the dialer is called by its tests only and is not part of the model.

### `Messaging`

The texts of one user with one other number.

| Model | Code |
|---|---|
| `row`, `conv`, `optedOut` | `messages`, `conversations`, `dnc_entries` |
| `text` | the texts the provider has accepted, by the id it gave them, with the message each was sent for |
| `used` | the counter `usage:<user>:sms` in Redis |
| `send`, `hook`, `run` | a request (`sendMessage`), an inbound webhook, a run of the job: where each is between two calls |
| `stops`, `losers`, `twice` | history: webhooks that have said STOP; callers that tried to make the conversation after another had; messages made ready to be sent again |

`Request` checks the quota, `SendText` is the provider, then the conversation is found or
created (`Find`, `Make`, unique in the table, so that the loser of a race fails), the
row is stored, the counter incremented. An inbound webhook does the same with its text and then
writes the opt-out, so that each of its calls can fail and lose what comes after it (`HookFails`). A run of the job reads the messages that are due
(`StartRun`), and for each sends, then writes the provider's id and the status. `Delete`
empties a row and leaves it. `Receipt` assigns the status of a webhook to the
row with its id, whatever is there. The month that resets the counter does not end, and the
bodies of messages are not kept.

### `Softphone`

Calls in one tab of the browser.

| Model | Code |
|---|---|
| `device`, `currentCall` | the two variables of `lib/webrtc.ts`; `currentCall` may be `Pending`, the promise that `connect()` returns |
| `activeCall`, `incomingCall` | `store/callStore.ts` |
| `timeLeft` | the countdown of `InboundCallOverlay.tsx` |
| `signedIn` | there is a user, and the layout holds an access token; without them the overlay is not mounted and its timer does not run |
| `pc`, `dials` | a run of `initializeDevice`, and whether it was begun to place a call: it awaits the token, the import of the SDK, the registration |
| `alive`, `sdk`, `on`, `events` | the SDK: devices not destroyed, calls with their state and device, events not yet handled |

One thread runs the handlers; between two awaits nothing intervenes, at an await anything
may. The SDK is outside the repository: its calls are offered, open or closed and its events
come later and in any order. The event of the socket announces an incoming call a second
time with fields the store does not find (`Undefined`). `connect()` of the SDK's version 2 returns
a promise, which `webrtc.ts:225-234` does not await: the attachment of handlers throws, the store is told nothing, and
an outbound call is never on the screen. No code calls `accept()` on a call that is offered. The devices that
`webrtc.ts` simulates for other providers are not modelled.

### `Numbers`

| Model | Code |
|---|---|
| `held` | the provider: the number each purchase holds |
| `rows`, `past` | `phone_numbers`, and the rows whose seven days of grace are over |
| `cache` | the entry `number:<number>` in Redis, with its time to live |
| `work` | a request of `provisionNumber` or `releaseNumber` between two of its calls |
| `faults` | failed calls to PostgreSQL or Redis, and lost replies of the provider, with their bound |
| `stale` | history: numbers whose entry was written late or not deleted |

`getUserByNumber` reads the row and then writes the entry; the write may come after a
release has deleted it, which `Lookup` and `stale` show.

### `Calls`

| Model | Code |
|---|---|
| `call` | a call at the provider: direction, and how far it is |
| `wire` | webhooks on their way: the question about a new call, statuses, the end of an inbound dial |
| `row`, `mails` | `calls` (status, and whether `endedAt` is set) and the voicemails of the call |
| `rings` | how often `call:inbound` was sent |
| `provider`, `owned` | which provider is configured, and whether a user has the number |
| `reports` | the webhook that gets the statuses: the one for them, or, for Telnyx, the one for new calls, the only URL it is told (`telnyx.provider.ts:221`) |
| `again`, `faults` | webhooks delivered again, and those lost or failed, with their bounds |
| `seen`, `late` | history: how far each call was by the webhooks handled; webhooks that came after a later one of their call |

A provider reports any of the moments of a call, and always its end. `Readings` is what may
become of the name it gives: Twilio keeps the ends apart; Telnyx keeps them apart when the webhook
names the end and calls it completed when the webhook names the event (`call.hangup`,
`telnyx.provider.ts:497-501`); Bandwidth has one name for all; a name that is in no map (`other`) is stored
as it comes. Webhooks are delivered in any order, again, or never. The instructions in the reply to
the first of them are wrapped in JSON by the interceptor of every reply (`main.ts:33-36`,
`transform.interceptor.ts:54-55`); what the provider makes of the call then is left open: it may go any way.
Owner, cost and duration of a row are not kept. Calls share nothing but the number and the bounds, so one
call shows all there is.

### Theorems and instances

`WorkerPoolProofs`, `CampaignServiceProofs`, `SessionsProofs`, `CampaignSyncProofs`,
`MessagingProofs`, `SoftphoneProofs`, `NumbersProofs` and `CallsProofs` hold the theorems (section 5). `MCWorkerPool`, `MCCampaignService`,
`MCSessions`, `MCCampaignSync`,
`MCMessaging`, `MCSoftphone`, `MCNumbers` and `MCCalls` hold the instances for TLC.

## 4. The runs

Bounds: two goroutines suffice for every race between two dials, with the loop
and the API as third and fourth actor; one retry makes a contact pass through the
queue twice; one failing call can strike at every call site; a day of
three minutes, of which the window covers one, has a closing and an opening.

| Run | Instance | States | Shows |
|---|---|---|---|
| `worker_pool` | two contacts, two slots, one retry, a first start, a start over old counters or a resume with a negative remainder, no failing call, a client that ignores its context | 2,435,337 | no contact is lost or held twice; every dial is in one counter and what remains is exact; the row leads the pool by less than its slots and is exact after the last callback, whatever old copies land on it; the pool implements `DialPromise` |
| `worker_pool_ends` | one slot, one contact blocked, one failing call, a window of one minute in three, fairness | 108,180 | retries stay in budget, the blocked contact is not called, at most one dial is launched after the campaign closes, a stopped pool winds up, and a campaign not left paused ends |
| `campaign_service` | two contacts or one that the backend has inserted, two requests beside each other, two of pause, resume and stop, two pools, one restart, one failing call | 2,618,768 | a contact is in one place and within its retry limit whatever pools there are; a restart loses the contacts in flight, no others, and dials none of them again; requests that come one at a time never make a second pool |
| `sessions` | one tab, two requests, one expiry, fairness | 231,455 | no request waits for a refresh that does not run; races between callers leave the cookie with a token the backend accepts; a refresh is refused only after an overlap, a logout, a reset or a loss; every request is answered or rejected |
| `campaign_sync` | two lines in a file with three kinds of cell under two headers, one retry, two slots, one campaign with its counterpart in the dialer, one request beside the callbacks, one lost call | 4,036,922 | the total of a row is the number of its contacts; its counters settle on those of a pool that was not stopped; a row says completed with contacts undialed only if there were as many retries |
| `messaging` | three messages, three texts, two requests, two inbound webhooks, two runs of the job, quota 1, one failing call | 440,233 | a message goes out once but in three named ways; the quota is exceeded by no more than the requests under way; texts and STOPs left out are no more than the calls that failed and the losers of a race that is run once; a deleted message is not taken up again |
| `softphone` | two calls, two devices, two handlers, a countdown of one, fairness | 672,228 | no call is left on a device that is gone; the overlay closes while the user stays signed in |
| `numbers` | two customers, two numbers, three purchases, two requests, two failing calls | 451,108 | the purchases on which provider and active rows disagree are no more than the failed calls; a released number is routed to nobody but for late entries |
| `calls` | one call, each of three providers, statuses to either webhook, one redelivery, one loss or failure | 1,740,100 | where statuses have a webhook, the rows that do not tell the end are no more than the webhooks lost, failed or overtaken; the user is told once; a voicemail has a webhook of its own |

`worker_pool` has no failing call and `worker_pool_ends` has one: with both the two slots and the
failures the instance is too large, and the theorems of section 5 hold for every number of each.
In `campaign_service` two pools are enough for every race on the list and the rows, and
one slot each keeps the instance small: races within a pool are the matter of
`WorkerPool`. `CallsBounded`, `OnePlace` and `NotRedialed` are claimed for a single creation:
a second one without contacts puts what is pending into the list again.

In `sessions` the tab has two callers of the refresh, the interceptor with a queue of two
requests and the guard of the dashboard; both use one cookie, which is the race that more
tabs would repeat. More tabs and requests are covered by the theorems of section 5. A refresh token
is needed for the cookie and for each of the two calls: three.

In `messaging` a quota of one lets the second of two requests find it used, or not. A third
message is one too many for the requests, so that the job or a webhook always has one left. Two webhooks
race each other, or one of them a request, for the conversation.
Receipts are of two kinds, one that makes a row due again and one that does not: the job
tells no others apart. In `softphone` and `numbers` two of everything is a race, and the third
purchase lets a number be bought again after its release; two failing calls can strike
the purchase and the release of one number.
In `calls` one redelivery and one fault meet in every order; a second of either repeats the first, and the
theorem covers any number. In `campaign_sync` the kinds of cell are one that browser and backend both
take and two that only one of them takes; the theorems cover the others.

Symmetry is used where the names are interchangeable (pools, requests, goroutines;
campaigns, lines of a file; messages, texts; customers, numbers) and in no run with a
liveness property.

`CHECK_DEADLOCK FALSE` stands where the system really stops: requests are bounded
(`campaign_service`), the provider's ids or purchases are used up (`messaging`, `numbers`), every
call is over (`softphone`, `calls`).

The runs named `doc_...` each check one sentence of the documents, comments
or tests that the code does not keep; `PROJECT.json` quotes the sentence in
"findings" and TLC gives the behaviour:

- `doc_stopped_is_final`: a stopped campaign can become running or completed;
- `doc_stop_reaches`: a stop does not reach the campaign that was started, which goes on dialing;
- `doc_accept_connects`: a call accepted in the overlay is shown in progress and still rings at the provider.

Other places where code and documents differ, or where the code does what a reader would not
expect, met on the way and without a run.

The dialer:

- the concurrency of a campaign bounds the requests to the provider, not the calls: Twilio answers
  `queued` and Telnyx answers a POST when the call is created, the slot is given back, and more calls than
  `Concurrency` are in progress (SRS:241, FR-PD-04, "1 to 10 simultaneous calls"). `DialPromise` is
  about the requests only;
- two requests make two pools, which together exceed the concurrency (FR-PD-04);
- the counters count dials, not contacts: what remains of a campaign with retries is below the number of
  contacts left, and negative when such a campaign is resumed (`worker_pool.go:68-75`). A row is completed with
  contacts undialed when there were as many retries (`NotCompletedEarly` is the bound);
- a campaign is completed over a queue that a retry has just refilled (`worker_pool.go:124`), and `finish`
  overwrites a pause or a stop;
- the last report of a stopped pool is not sent, and the row and the hash in Redis may keep old counters;
- a resume by the row of a campaign whose pool ran under another id finds an empty queue, dials nobody and
  completes it; a resume by the row takes stopped and completed campaigns too;
- calls go out after a stop with a client that ignores its context (Twilio's);
- a restart forgets the calling hours, which the insertion of the row leaves out (FR-PD-14);
- the outcome "failed" is not retried; a failed lookup dials a blocked number, which is why `BlockedNotCalled`
  is claimed only while lookups work; a stop leaves the row of a call in progress "dialing".

Sessions:

- the documents revoke the whole family when a revoked token is presented again (`auth-token-flow.md:101-106`).
  The code does so too, but it gives each token a family of its own (`auth.service.ts:526`), so that the family is
  the token presented and the session goes on. `SessionSurvives` holds because of it: with one family for a
  session, two tabs that refresh at once would end it;
- a logout revokes the refresh token by the documents (`auth-token-flow.md:110-115`, `API.md:66-67`); the button of
  the sidebar clears the browser and leaves the token live (`SidebarUser.tsx:25-28`).

Texts:

- a STOP is dropped when its webhook loses the race for the conversation, or fails there, before the text is
  stored or the opt-out written (`sms-webhook.controller.ts:79-86`): the losers that `Recorded` counts;
- the gateways wrap what they send as `{event, data}` and `websocket.ts` reads the fields of the
  envelope (SRS:185, FR-MSG-02);
- the counter of texts is given its time to live anew at each text (`messaging.service.ts:156`).

Calls:

- an outbound call has no button that ends it: the promise of `connect()` is taken for a call
  (`webrtc.ts:225-234`), so that `makeCall` throws after the call was placed, and so do `hangUp` and
  `destroyCallClient` while the promise is the current call, which leaves the device registered after a sign-out;
- an accepted incoming call that the caller cancels stays on the screen; the overlay is unmounted at a sign-out
  with `incomingCall` set (`layout.tsx:109`), and is there again, with a countdown from the start, after the next sign-in;
- mute is toggled twice by one click (`DialPad.tsx:375-378`, `ActiveCallBar.tsx:52-55`; URD:218);
- the instructions to the provider are wrapped in JSON (`transform.interceptor.ts:54-55`);
- Bandwidth's ends that are busy, a timeout or an error are stored as completed (`PAL.md:236-238` lists them apart), and Telnyx's
  where the webhook says `call.hangup` (`telnyx.json:20-24` has names for them). `Settled` says that a row tells
  what the provider's map makes of the end;
- Telnyx is told the URL of new calls for all its events (`telnyx.provider.ts:221`): its statuses reach a handler
  that reads none, and rows stay as they were made. `Settled` is about statuses that have a webhook;
- the voicemail webhook stores a row for answered calls too (`voice-webhook.controller.ts:256`;
  `schema.prisma:162`), and a repeated "completed" stretches duration and cost.

Numbers and money:

- a released number has seven days of grace in the rows and none at the provider
  (`numbers.service.ts:127`; SRS:167, FR-NUM-08; `API.md:240`), and its customer sees it for that time
  as releasing (`numbers.service.ts:24-28`). `InventoryAgrees` compares the provider with the active rows, which is what the
  code does and not what FR-NUM-08 asks. A release whose second write failed cannot be repeated;
- a checkout of an existing subscription does not change its plan, and a repeated `invoice.paid` inserts
  the invoice again (`stripe-webhook.controller.ts`).

Fairness of the pool: the Go scheduler runs every goroutine, and every call to
another process returns (each has a timeout), which is weak fairness of `DialOne(g)`.
The loop gets strong fairness: while paused or outside the window it sleeps one
second or thirty and looks again, which the model does not show as steps, and a
window of a minute or more is not slept through. The clock ticks. Nothing obliges
anyone to pause, resume or stop, so `CampaignEnds` has to assume that the campaign
is not left paused for ever. Weak fairness of the loop would not do: a user who
pauses and resumes between two looks of the loop could starve it, and in the code
that takes a pause at every single wake-up.

Fairness of the session: a request is answered or times out (15 seconds in
`lib/api.ts`), and a call of `/auth/refresh`, which has no time limit of its own in the
browser, ends because the `fetch` of the proxy does. Nobody has to log in or out.
Fairness of the browser: it runs the timer of the overlay while the overlay is mounted, which takes a user, and the SDK delivers the events
it has emitted. Nobody has to accept, decline or hang up.

## 5. The theorems

Eight modules prove, for every value of the constants that meets the named assumptions,
what the runs check on small instances. Each rests on an inductive invariant, which was
model-checked before it was proved.

### `WorkerPoolProofs`

Assumptions: a pool of 1 to 10 slots, as `NewWorkerPool` ensures; a finite set of goroutines; of what the
pool may find (`FoundAssumption`), that the counters are natural numbers with as many dials as outcomes, that
the queue has no repetition, which `BulkCreate`'s fresh ids ensure, and that a queued contact has attempts
left and is not marked as blocked, since only such a one is ever queued. What remains may be any number.

| Theorem | Says |
|---|---|
| `TypeCorrect` | types, with a remainder that may be negative, and the semaphore counts the goroutines that hold a slot |
| `OnePlaceHolds` | a contact is never in two places |
| `BudgetHolds` | calls per contact are bounded by the retry limit and the failed calls |
| `LateHolds` | at most one dial after the campaign closes |
| `BlockedHolds` | a blocked number is not called while lookups work and the client heeds its context |
| `NothingLostHolds` | what was queued is never lost while no call fails and nobody stops the campaign |
| `CountersAgree` | the row leads the pool by less than its slots, or by what it led at the start, and is exact after the last callback, in any order of increments and old copies and with any failures |
| `DialsCounted` | each dial is in one counter of the pool, which goes on from those it found, and what remains goes down by one a dial, to zero or not at all |
| `Refinement` | the pool implements `DialPromise`, whether or not the client heeds its context |

The argument. `TInv` adds to the types `Shape` (the loop holds a contact exactly
while it waits for a slot; a goroutine that is not idle has one) and the
semaphore's account, which is needed to show that releasing a slot keeps `sem` in
range. `OnePlace` is inductive relative to it: a contact moves from the queue to
the hand, to a goroutine, and back, and `OnePlaceKept` covers every step that moves
none. `OnlyQueued` says that nobody else is ever dialed. The budget needs `Budgeted`: the row of a contact about to be dialed has
attempts left and knows of every call but those whose write was lost; a goroutine
past its call knows at least as much as the row. `LateBound` says that a
loop that has passed its checks while the campaign was open has no late dial to its
account. `BlockedAway` says that no goroutine past its lookup has a blocked contact.
`NothingMissing` says of each contact that was queued that it is in the queue, in the hand, with a goroutine, or
settled (`Placed`), and of each goroutine past its call that the row says what it will
decide the retry by (`Noted`).

`CountersConverge` follows from `Ahead`. The copy a goroutine makes under the lock holds the dials
of the others that have counted and not yet added theirs to the row, at most one for each slot but its own; where its callback assigns the copy,
these are added a second time. So the row, and every callback on its way, leads the pool by no more than that, less what is still to be
added. The last copy is made when all goroutines are idle, and none is made after it. `EveryDialCounted` is a
sum over the contacts, which the prover cannot do by induction; it is stated with the cardinalities of three
sets, the calls placed (contact and number of the call), the contacts skipped, and the goroutines that have not counted,
each of which a step changes by one at most (`Countable`, `Balanced`). It needs `Apart`: who was skipped is
not dialed again, or the skip would be counted and forgotten. The refinement maps a step to `Begin`, `End`, `Close` or a stutter; that there
is room for one more request, and in the grace for those past the loop at a stop, follows from the semaphore's account.

### `CampaignServiceProofs`

Assumptions: the contacts are a finite set; the batches of the creations have no contact in common, since
`BulkCreate` gives each contact a fresh id; 1 to 10 slots, a natural retry limit and natural bounds; None is no contact
or pool. Pools, requests, goroutines and restarts are of any number.

| Theorem | Says |
|---|---|
| `TypeCorrect` | types |
| `OnePoolHolds` | requests that come one at a time never make a second pool that runs, across restarts too |
| `OnePlaceHolds` | after a single creation a contact is never in two places, whatever pools share the list |
| `DroppedStayDropped` | who was in flight at a crash is not called again (an action property) |
| `CallsBoundedHolds` | pools that share a campaign call a contact no more often than one pool would |
| `LossBoundedHolds` | without faults and stops, only those in flight at a crash are lost |

The argument, in the order of the module. `Shape`: the loop of a pool holds a contact exactly while it
waits for a slot, only a stop cancels, and a goroutine at work has a pool that runs and a contact with a row.
`Serial`: while requests come one at a time, a creation or a resume that is about to make a pool has found
the map empty and it still is, so the pool it makes is the only one. `Origins` and `Single`: what is dialed has been
pushed, a single creation finds nothing pushed before, and a dropped contact is nowhere; `OnePlace` is
inductive relative to these. `Budgeted`, as in the pool: who is about to be dialed has
attempts left and a row that knows of all calls but those whose write failed; two pools cannot both be
dialing a contact, by `OnePlace`, so that no write of one undoes the count of the other. `Batched` and `Kept`:
no creation inserts the contacts of another, a contact has its row before it is pushed, and while nothing
fails it stays in a place, is settled, or was dropped. A crash is one step in each of these proofs: it empties
every place in memory at once and leaves the list and the rows.

### `SessionsProofs`

Assumptions: every request belongs to a tab (`TabOfAssumption`), and None is no token.

| Theorem | Says |
|---|---|
| `TypeCorrect` | types |
| `QueueHolds` | a request waits only while the refresh that will release it runs, in every tab |
| `SurvivalHolds` | however many tabs race, the cookie holds a good token or one is on its way |
| `RefusalHolds` | a refresh that no other overlaps is not refused |

The argument. `QueueServed` needs that the queue of a tab holds its own requests (`OwnQueue`); `Settle`
empties the queue, lets its requests go and clears the flag in one step, since the browser has one
thread. `SessionSurvives` needs that a token on its way to the browser is known to nobody else
(`Undelivered`) and that a family has one token (`OwnFamily`), so that revoking the presented token
cannot take the delivered one with it. `NoRefusal` needs that without a race there is one call
(`OneCall`) and that what it presents is good (`Presented`).

### `CampaignSyncProofs`

Assumptions: a natural retry limit, at least one slot, a natural bound on lost calls; headers and cells of the kinds
the parser tells apart; a finite file; None is no row, pool or request.

| Theorem | Says |
|---|---|
| `TypeCorrect` | types |
| `CountsHold` | a total is the number of contacts, and once a pool that was not stopped is done and its reports have arrived the row counts its dials, unless a call was lost |
| `NotEarlyHolds` | a row says completed with contacts undialed only if there were as many retries |

The argument. `Based`: rows, pools, reports and requests are about rows and pools that exist, and a
campaign under creation has the total its contacts will have. `PoolsSound`: what remains and what was dialed make up
at least the length of the queue, so that a pool with nothing remaining has dialed as often as it had contacts, and a contact
dialed twice stands for each that was not dialed; what is undialed is in the queue of a pool that was not stopped, so that
its loop ends with nobody undialed. `ReportsHeld`: a goroutine's contact is in no queue, and a
report that says completed is about a pool that reached that number. `Settling`: after the end of a pool its last report is
the only one, and once it has arrived the row has its count. The cardinalities use the library's facts on finite sets.

### `NumbersProofs`

Assumptions: the limits are natural numbers, and None is no customer, number, purchase or row.

| Theorem | Says |
|---|---|
| `TypeCorrect` | types, and a request between two calls knows what it is about |
| `InventoryHolds` | the purchases on which provider and active rows disagree, but for those of requests under way, are no more than the calls that failed |
| `RoutedHolds` | a number is routed to its owner or to nobody, but for late entries |

The argument. `Placed` says where a request stands: what it has bought is held, has no row and is
nobody else's; a row it is about has its customer and its number; what it has given back is not
held. `PastReleased` says that the daily job touches released numbers only. A step
adds no disagreement (`NoMore`), or it is a call that fails and adds one (`OneMore`).

### `CallsProofs`

Assumptions: the bounds are natural numbers, the providers are among the three with a status map,
and None is no call or row.

| Theorem | Says |
|---|---|
| `TypeCorrect` | types |
| `SettledHolds` | where statuses have a webhook, the rows of ended calls that do not tell the end are no more than the webhooks lost, failed or overtaken |
| `OnceEachHolds` | the user is told once, and every voicemail has a webhook of its own |

The argument. `EndsAgree`: what the end of a call sends agrees with it, and there is one of each.
`EndKnown`: the calls that are `Spoilt`, whose last status is neither on its way nor in the row, are no more than the
faults and the late webhooks; a step spoils none (`NoMore`), or is a loss, a failure or a late webhook and spoils one
(`OneMore`), and a call whose last status has been handled is spoilt by late webhooks only. `MailsDue`: the voicemails
kept and those that may still come are no more than what is due; a
webhook that is taken leaves `wire` or raises the count of redeliveries (`MailsTaken`). Steps that neither end a
call nor touch what its end sent are treated together (`Calm`).

### `MessagingProofs`

Assumptions: the bounds are natural numbers, the requests and the inbound webhooks finite sets, a receipt has one of four
statuses (a name in no map of a provider is stored as it comes, and no step but the job's query reads a
status, so any name but `queued` stands for it), and None is no message, text, row, request, webhook or run.

| Theorem | Says |
|---|---|
| `TypeCorrect` | types |
| `SentOnceHolds` | a message goes out once, but for the three named ways, for any number of overlapping runs |
| `RecordedHolds` | texts sent and STOPs that are left out are no more than the failed calls and the losers of the race for the conversation, which are fewer than the callers there are |
| `DeletedHolds` | a deleted message that no run holds is not taken up again |
| `OvershootBounded` | the quota is exceeded by less than the number of requests, and one for each failure and each loser of the race |

The argument. `Own`: a message under way belongs to one request or webhook and has no row before that
stores it, so no run can hold it. `Batched`: runs hold scheduled messages that have a row. `HeldOnce`:
a message that nothing has made ready twice has at most one text, is held by at most one run, and has no
text while it waits in a batch or is due; that is what lets a run that starts take up what is due. Steps
that write a row again (`RowsKept`), and runs that put messages down (`HeldLess`), are treated together.
`Counting` relates the texts sent to the counter: each request was let in under the quota, and each text is
counted, owed by a request under way, or left out by a failure or by the race for the conversation, which
only those who were making it then can lose. `Recording` counts those for requests and webhooks together: once the
conversation is there nobody new wants to make it, so the losers and those still to lose are fewer than the
callers. A handler that is through has left out nothing, or lost, or failed. That `used` is a natural number is part of it.

### `SoftphoneProofs`

Assumptions: the overlay counts down from a positive number, and None is no call, device or promise.

| Theorem | Says |
|---|---|
| `TypeCorrect` | types, and no call is on a device that has been destroyed |

The argument. `TypeOK` is inductive: a call is put on the device that offers or opens it, and a device that is
destroyed gives up its calls in the same step.

### Only model-checked

The liveness properties `StopEnds` and `CampaignEnds` of the pool, `RequestsSettle` of the sessions,
`OverlayCloses` of the browser: the prover reaches neither liveness under
fairness nor ENABLED. The sentences of the documents that the code does not keep are refuted by runs, and have
no theorem. The models define nothing by recursion, so nothing is left out on that account.

## 6. What is not modelled

- Billing and usage: each event of the payment provider is one or two writes by the id in the
  event, and the order of events is the provider's; the usage tracker is called by nothing.
- The message store of the browser: no event of a message reaches it (section 4), and what is left is one
  list in one tab. The simulated device of the providers other than Twilio.
- Passwords, one-time codes, two-factor login and the mail flows of the authentication.
- The jobs that delete or report by date.
- Contacts, templates, API keys, audit: plain reads and writes of one user's rows.
- The translation to the five telephony providers, but for the status of a call; the rate limiter;
  the clients of Redis and PostgreSQL; configuration.
- Pages and components, which are presentation, and most of the repository's lines. With the row-by-row
  code above they are why the models stand for about a tenth of the implementation.
