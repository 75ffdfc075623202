# Hex-Zone-Server: formal models

TLA+ models of the server in `src/` (FastAPI, SQLAlchemy, one WebSocket hub): what
the parts promise, how the code keeps those promises when requests, threads, timers,
sockets, restarts and administrators interleave, and proofs of the most important
ones for any number of guests, passes, links, accounts, requests and phones.

    tlc -workers 2 -config GuestSafety.cfg MCGuests.tla  # model-check one run
    tlapm GuestAccess_proofs.tla                         # check the proofs of a module

## 1. The system

A *zone* is a property (a home, a campus) with administrators and members, the
*owners*. Strangers reach it as *guests*, with no account: they scan a QR link,
ask to be let in, wait for an administrator or present a pass, get a JWT, chat
with the zone and call it. Members exchange alarms and messages by geography,
register phones and smart-home hubs, get keys to the hubs of other networks, and
buy zones and seats within the quota of their account type.

### How it runs

One uvicorn process runs one asyncio loop; what interleaves follows from how each
route is declared.

* An `async def` route with *synchronous* SQLAlchemy calls runs without
  interruption from its first query to the next `await` that really suspends: a
  WebSocket `send_json`, an HTTP client call, a timer. Everything between two such
  points is one atomic step of the models.
* A `def` route runs on a thread of a pool: between any two of its statements
  others may commit. `UniversalAccess` (edit and remove), `Delivery` (hub
  commands) and `Wellness` (the reminder worker) have such threads.
* The mobile `POST /register` and `POST /login` run on a thread and commit back on
  the loop (`contract_routes.py:440, 466`): in between their transaction holds row
  locks. `Accounts` models the locks, because a route on the loop can wait for them.
* The schema is patched by a daemon thread after the port is open (`main.py`),
  while the previous container of a rolling deploy may still hold locks: `Startup`.

Each request has one session; an exception rolls it back. Broadcasts, webhooks and
pushes happen after the commit.

### Inventory

| Component | State | Operations | Hard behaviour | What makes it correct | Modelled in |
|---|---|---|---|---|---|
| Guest access sessions (`guest_access_service.py`, `routers/access.py`) | `guest_access_sessions`: kind, resolution, exchange code, consumed and revoked times | arrival, approve, reject, poll, exchange, bearer check | decisions in any order, codes that expire between poll and exchange, JWTs that outlive decisions | one JWT per session; a denied guest stays out; a cleared one gets in | `GuestAccess`, `GuestAdmission` |
| Guest passes (`guest_pass_service.py`) | `guest_passes`: status, expiry, used_by | create, accept, reject, revoke, delete, clear expired, consume | single use across expiry, re-creation and revocation | a pass admits one guest; pass and session agree | `GuestAccess` |
| Guest QR links (`guest_access_qr_token_service.py`) | `guest_access_qr_tokens` | create, rotate, revoke, count a use | limits under racing arrivals; rotation | uses counted exactly, one active link per kind | `GuestAccess` |
| Guest calls (`guest_call_service.py`, `websocket/routes.py`) | in-memory calls, FIFO per zone, cancelled ids, ring timers | invite, accept, reject, cancel, end, promote, time out, auto-close | handlers suspended at broadcasts, timers that fired already, sockets that close | one call per zone line and per guest, FIFO, ringing and waiting end | `GuestCalls`, `WaitingLines` |
| Guest API and chat (`guest_api_service.py`, `routers/guest.py`, `routers/messages.py`) | PERMISSION and CHAT rows, member chats, the chat queue | write in both directions, decide, page | the head of the queue moves; writing and reading are decided by different code | a waiting guest keeps its turn and one voice; what is written is shown; pages leave nothing out | `GuestChat` |
| Messages (`message_feature_service.py`, `network_zone_propagation.py`, `private_plus_messaging.py`, `message_block_service.py`, `alarm_read_service.py`, `ns_panic_privacy.py`, `unknown_fanout_service.py`) | `zone_message_events`, rules, reads, positions | send to zones, UNKNOWN to the nearest, private search and send, inbox, read | tiers, Private+, positions, rules and rate windows combined | an emergency loses nobody inside a primary zone; search and send agree; readers keep sight | `Messages` |
| Delivery (`push_notification_service.py`, `smart_home_webhook_service.py`, `hub_command_service.py`) | push tokens, hubs, commands | call hubs, push, retry, command | awaits between reading and calling; failures half-way; restarts | no hub keeps an alarm from the phones; retries stop only when every phone was called and none failed | `Delivery` |
| Device sessions and presence (`device_entitlements.py`, `routers/devices.py`, `member_presence_service.py`) | `devices`, plans, sockets | enrol, claim, heartbeat, edit, delete, connect | presence set by sockets, heartbeats and whoever asks | a live session is not expired by others, nor by whoever lists or claims | `Devices` |
| Universal access (`universal_access_service.py`, `routers/universal_access.py`) | requests, credentials, activations | ask, invite, decide, edit, remove, select, send to hubs | threads that write on what they read; hubs called one by one | a key follows the decision; openings were agreed; nothing hidden | `UniversalAccess` |
| Access schedules (`access_schedule_service.py`) | `access_schedules` | create, accept, reject, revoke | a backfill at every start | a start decides nothing | `Startup` |
| Server start (`main.py`, `database.py`) | schema patches | patch, retry, skip, wait, restart | lock timeouts against the previous container | a quiet start applies every patch | `Startup`, `Zones` (two migrations) |
| Registration codes, invites, seats (`registration_code_service.py`, `crud/qr_registration.py`, `auth_service.py`, `routers/owners.py`, `routes/contract_routes.py`) | codes, invites, owners, transactions of threads | mint, issue, redeem, join, activate | web and mobile requests overlapping, row locks held across the loop | a code admits once; seats are oversold only by overlap; the loop runs | `Accounts` |
| Zones and quota (`zone_policy.py`, `routers/zones.py`, `zone_service.py`, `crud/owner.py`) | zones, tiers, account types and roots | create, rename, delete, evict; join, re-type, delete an account | quota of a member that shrinks; a migration that runs again | quota kept, names unique, eviction takes the newest | `Zones` |
| Wellness checks (`wellness_ack_service.py`, `startup_jobs.py`) | acknowledgements, asks, replies, reminder count | acknowledge, ask, reply; a worker scans, pushes, counts | an answer racing a reminder; a push not counted | reminders capped, who answered is spared | `Wellness` |
| WebSocket hub (`websocket/manager.py`) | sockets per user | connect, disconnect, broadcast | a socket dies during a broadcast | a dead socket is dropped | `GuestCalls`, `Devices` |
| Geometry, area budgets, geocoding, communal IDs, government zones | none, or identifiers | point in zone, overlap, area | numeric edges | | not modelled |
| Mail, uploads, links, seeds, schemas, migrations of the past | | | | | not modelled |

The complete list, with the reason for each part that is left out, is in
`PROJECT.json` under `components`; what is hard to test, line by line, under
`hazards`.

## 2. Modules

| Module | Models |
|---|---|
| `GuestAdmission` | the promise: a guest session moves absent -> waiting / cleared -> inside, and to denied, never back |
| `GuestAccess` | sessions, passes and QR links of one zone, with a clock; implements `GuestAdmission` |
| `WaitingLines` | the promise: one guest talks on a zone's line, the others wait in their order, and the first one no other line serves is next |
| `GuestCalls` | call lines, queues, timers, sockets and the decisions that touch them; implements `WaitingLines` |
| `GuestChat` | the access channel of a zone: chat queue, thread, inboxes, paging |
| `UniversalAccess` | requests and keys to the hubs of other networks |
| `Messages` | whom a geo-propagated or private message reaches, and who sees it |
| `Delivery` | what happens after an alarm is committed; commands to hubs |
| `Devices` | login sessions, hubs, presence |
| `Wellness` | one wellness check, its dialogue and the reminder worker |
| `Accounts` | registration codes, invites, seats, and the threads that register |
| `Zones` | zones, their quota, and the accounts as far as zones depend on them |
| `Startup` | the bootstrap thread, its patches, and the rows its backfills touch |
| `GuestAccess_proofs`, `GuestCalls_proofs`, `UniversalAccess_proofs`, `Accounts_proofs`, `Zones_proofs` | theorems about the modules they are named for |
| `Messaging_proofs` | theorems about `Messages` and `GuestChat` |
| `Delivery_proofs` | theorems about `Delivery` and `Devices` |
| `Background_proofs` | theorems about `Startup` and `Wellness` |
| `MCGuestAccess`, `MCGuestCalls`, `MCZones` | instances of one module for TLC |
| `MCSharedLine` | an instance of `GuestCalls` that keeps the order of the keys of `_queue_by_zone`, with two zones of one administrator |
| `MCGuests` (`GuestCalls`, `GuestAccess`, `UniversalAccess`), `MCAccounts` (`Zones`, `Accounts`), `MCMessaging` (`Messages`, `GuestChat`, `Wellness`, `Devices`, `Delivery`), `MCProgress` (`GuestCalls`, `GuestAccess`, `Startup`) | instances of several modules, checked together |

Where two components touch one row, the module that depends on it has the other's
step as an action of its own: approving or rejecting a guest, which ends its calls
(`GuestCalls`); a change of role or plan (`UniversalAccess`, `Devices`); the rules,
positions and active flags that messages read (`Messages`, `GuestChat`); edits of
hubs (`Delivery`, `Startup`). What is left to share is read-only.

The MC modules of several components therefore do not interleave them: an initial
choice `focus` says which component moves in a behaviour, and the others keep
their initial state. One run then asks its questions of every component at the
cost of the sum of their states, not of the product. Within a focus, named
constraints (`PassesOnly`, `LinksOnly`, `KeysOnly`, `CodesOnly`, `SeatsOnly`,
`ChatOnly`, ...) cut an instance to one combination of operations; a comment at
each says what it leaves out. Sets of different components share model values, so
that one small group of permutations is a symmetry of all of them.

### GuestAccess

`sess[g]` is the row of `guest_access_sessions` of guest `g`: `codeExpires` is
`exchange_expires_at` (0 when the code is NULL), `consumed` and `revoked` say
whether `exchange_consumed_at` and `access_revoked_at` are set. `pass[e]` is the
row of `guest_passes` with event id `e` (unique per zone), `token[t]` a row of
`guest_access_qr_tokens`. `issued[g]` counts the JWTs `POST /guest-session`
returned. Each action is one handler, from its first read to its commit:
`ArriveWithPass` and `ArriveUnannounced` are `POST /permission` with its token
lock, pass lookup, session insert, pass consumption and use count; `Approve` and
`Reject` the administrator routes; `Poll` and `Exchange` what the guest's app
calls; the rest are the pass and link routes. A handler that answers with an error
changes nothing and is not an action. Guest ids are fresh UUIDs: an arrival takes
a guest without a row. Times are ticks of `now`, which `Tick` advances.

A table of passes may hold `PENDING` rows written before passes were created
`ACCEPTED` (`accept_guest_pass` still reviews them): `Init` allows them.
Left out: who may act (authorisation reads owners and zones, and changes none of
these tables), names and locations, and the zone events the handlers also write
(`GuestChat` has them).

### GuestCalls

`call`, `activeOf`, `queue` and `cancelled` are the module's four tables of
`guest_call_service.py`. A handler is atomic up to a broadcast that suspends it;
what it still has to do is `task[k]`, one per user (a socket reads its next frame
when the last handler returned) and one per call for `_timeout_call`. `Deliver`
is `deliver_live_call` over a list of calls: it suspends while the invites travel
(`Delivered` resumes), and when `strict` ends the calls whose invite reached
nobody, as `_broadcast_promoted` and the invite branches do; promotions after a
ring timeout are not strict, because `_timeout_call` ignores the count. `Ending`
is `_finish_call_end`: broadcast, auto-close if due, promotion. `Disconnect`
makes a broadcast under way miss its socket. `Promotions` is a set because
`_queue_by_zone` is walked in the insertion order of its keys, which the module does
not keep; `MCSharedLine` does. `CancelUnknown` is a cancellation that drops nothing
(nobody there to cancel, somebody else's waiting call, a `CALL_END`, or a frame that
names no guest): the id is remembered all the same.

`WaitingLines` is what is left when calls, ids, handlers and sockets are taken
away: who talks on each line (`Talking`) and the names of those who wait for it
(`WaitingLine`). Its steps are those a guest would recognise. Calls end (`HangUp`);
one guest leaves the lines, and nobody changes places (`GiveUp`); or all lines are
served at once (`Serve`): on a free line the first guest gets the turn
(`TakeTurn`), or stays because the administrator is busy elsewhere (`Wait`), or a
newcomer finds nobody (`WalkIn`). A guest may be passed over only if another line
serves that very guest (`ServedBeside`): they talk there, or have the turn there in
the same step. Two lines that each drop a guest and point at the other are thus
ruled out.

Left out: `CALL_ARM` and the watcher list (they decide who is told, not what
happens), payloads of `CALL_SIGNAL` and `CALL_LIVEKIT` (only the take-over they
cause is kept), several sockets of one user. One deviation: an invite whose
re-delivery is due at once (`Retry`) runs as a step of its own, which only adds
interleavings.

### GuestChat

`visits[g]` is what the chat reads of a guest's session, `arrivals` their order by
`created_at`, `rows` the PERMISSION and CHAT rows of `zone_message_events`,
`chats` the rows of `messages`. An arrival (`ArriveExpected`, `ArriveUnexpected`,
`ArriveAtNetwork`), a decision (`ApproveVisit`, `RejectVisit`), `GuestWrites`,
`MemberWritesToGuest` and `MemberWrites` are one handler each, with the rows they
write and whom they name. `Thread`, `MemberThread`, `GuestInbox` and `MemberInbox`
are the views, as queries over the rows. `OpenThread` and `NextPage` are the
guest's `GET /api/guest/messages`, with the cursor the code returns. Rules against
CHAT (`MuteChat`) or a member (`Shun`) and inactive owners (`SetLive`) change
meanwhile. Left out: profiles, zone information and presence answers.

### Messages

`At` maps places to the zone records that contain them, `Far` ranks distances: what
geometry answers is a constant of the model, and everything the code does with the
answer is translated. `SendToZones` is the geo routes with tier, Private+ union,
stored positions and a choice of zones; `SendUnknown` the nearest owners; both
apply rules and rate limits and store one row (`Store`). `InboxOf`, `PrivateFound`
and `PrivateReaches` are the reading side. Between messages owners are activated,
move, set rules, read alarms, and the rate window passes. Left out: propagation on
behalf of guests, previews and the emergency log, which write nothing, and the
shapes of rows; SERVICE and WELLNESS_CHECK are routed as PA and SENSOR are.

### Delivery

`stage` says how far the delivery of one alarm is: `Raise` (committed, broadcast),
`SelectHubs` (all hubs and addresses are read at once), `PostHub` (one await per
hub), `ReadPhones`, `PushBatch` (one platform per await), `FinishFirst` and
`FinishRetry`. `outcome` is the statistics the code keeps, `read` and `batch` the
phones of the attempt under way: a phone is counted as sent, as failed, or by an
answer not at all (`uncounted`: Expo returns fewer tickets than phones, FCM no
numbers). `PushBreaks` is an answer that is no JSON object: the request or the
retry ends there. An arrival notice ends after the hubs
(`NoticeDone`). `DeliveryRestart` loses what is in memory. `Command` and
`RecordCommand` are `send_hub_command` around the answer, on several threads.
Left out: texts, channels, deduplicated notices to hub owners, pushes outside alarms.

### Devices

`device[d]` is the row with hardware id `d`; `fresh` stands for `last_seen` within
the timeout, and `Age` is the time that passes. A route that is refused rolls back
its expiry of others too, as the code does. `ClaimSession` deletes the other
sessions and, with `Room`, hubs. `SetLoginsOnline` is what the first and last
socket of an owner do. Left out: the system administrator, who passes every check,
and locations.

### UniversalAccess

`request[r]`, `key[r]` and `activated[r]` are the three tables; `job[p]` is a `def`
route on a thread that has read its request (`BeginEdit`, `BeginRemove`) and not
written yet; `sending[p]` a `POST /keys/send` between two hubs. `Decide`, `Select`,
`SetEnabled` and the others are one step. `Mine`, `Offered`, `PrivateKeys`,
`PublicKeys` and `ActivatedKeys` are what the lists answer. `told`, `agreed`,
`judged` and `opened` are histories. Left out: the system administrator and the
shape of documents, of which only the edits are counted.

### Accounts

`acct`, `regCode` and `invite` are the three tables, `reg[t]` the mobile request of
thread `t`: where it is, and which rows its transaction holds. `RegisterWithCode`,
`RegisterUser` and `JoinWithQr` are the web routes, one step each; `ConsumeCode`,
`CheckSeat`, `InsertOwner`, `FlushLogin` and `Finish` are the mobile ones. A thread
waits for a held row by not being enabled; a web route that needs one sets `stuck`
(`WaitsOrElse`), after which the loop does nothing. `AcRestart` drops what is not
committed. Left out: passwords and tokens, profile fields, the second URLs of the
same handlers.

### Zones

`account[o]` is what zones read of a row of `owners`: role, account type and
`account_owner_id`, the root of its account (`NoAccount` when NULL). `zones[o]`
lists the rows `o` created, oldest first, with name and tier. `CreateZone` is
`POST /zones` under its account lock: `prepare_create_zone_policy` (quota, tier,
eviction of the members' newest secondaries) and the name check against what the
eviction leaves. `RenameZone` and `DeleteZone` are PATCH and DELETE.
`RegisterAdministrator`, `Join`, `RegisterSolo`, `Regrade` and `DeleteOwner`
change accounts. `Backfilling` and `Realign` are the two statements of `init_db`
that rewrite live rows at every start; they run on a thread beside the first
requests and commit separately, so they are actions of their own.

A soft-deleted zone is `Gone`: nothing reads it again but the backfill, which
counts it among the oldest rows, so only the first `BackfillDepth` are
remembered (`Forget`). Counts are cardinalities of sets of places: `ActiveRows`,
`PrimaryRows`, `SecondaryRows`; `Nth` is the place with a given `Rank` among such a
set, and `Active` lists the zones that are there. `regraded` and `backfilled` record the accounts the system
administrator or a start rewrote: neither looks at the quota, and `WithinQuota`
excepts their accounts. Left out: authorisation (the system administrator may
always), geometry and area budgets, Communal IDs. Two account types stand
for the four that behave in pairs (`enhanced_plus` as `private_plus`, `private`
as `enhanced`).

### Startup

`Program` is the sequence of patches with what a failure does: try again, try
`init_db` again, skip with a log line, or wait without a timeout. `Succeed`,
`FailAgain` and `FailSkipped` are the thread's steps, `OldExits` the platform
ending the previous container, `Restart` a new start. `Apply` is what a patch does
to rows: the backfills of schedules, keys and hubs. Meanwhile people write such rows
(`CreateSchedule`, `AcceptSchedule`, `SelectKey`, `EditHub`, ...) once their
columns are there. `StInit` allows what an earlier version left behind. The SQL of
single columns is abstracted to the patch it belongs to.

### Wellness

One WELLNESS_CHECK event that tracks responses. `ack[p]` is the row of
`wellness_check_acknowledgements` of `p`; the rows of `wellness_recipient_asks`
are `1..asked` in the order of `created_at`, with `asker` and `answer`
(`sender_reply_id`, 0 for NULL); the replies are `1..replies`. `reminders` and
`lastAt` are the two keys the worker keeps in `metadata_json`. `Acknowledge`,
`Ask` and `Reply` are the three routes, each committed before its broadcast.

The worker is a thread: `Scan` chooses the pending recipients of the event, `Push`
is the delivery, `Count` writes count and time and commits. Handlers run in
between; `Lose` is a delivery that raises, a commit that fails or a process that
dies, before or after the push: the pushes stay, the count does not. A scan uses
the time at which it began for every event, so `at` may lie before `now`. Left
out: which events a scan reads (200 at most), the transport of pushes, the
listing routes.

## 3. What is checked

| Run | Instance | Shows |
|---|---|---|
| `CallLines` | 3 guests, 2 zones, 2 administrators of whom one is responsible for guests of both, 2 suspended handlers; 2 of the guests with sockets that drop and a decision | one call per line and per guest; one place per line; first come, first served; `WaitingLines` is implemented |
| `GuestSafety` | 2 guests, and in turn: 2 passes and a clock to 3; 2 links with limits 0 and 1; calls of 1 zone with sockets that drop, escalations and decisions; 3 persons of 2 networks, 1 request, 2 hubs | pass and session agree, a pass admits one guest, one JWT per session, a served bearer is cleared, `GuestAdmission` is implemented; link uses are exact, one active link per kind; ring timers spare answered calls, auto-close spares approved guests; keys follow decisions, openings were agreed, nothing is hidden |
| `AccountSafety` | 2 owners, 3 names, 2 zones of which 1 primary; 3 addresses, 2 threads, 1 code or 1 invite, 2 seats | quotas kept, names unique, eviction spares the oldest; codes and invites admit once; seats are oversold by overlap only |
| `MessagingSafety` | 3 owners, 2 networks, 3 zones, 2 messages; a chat of 2 guests and 3 owners with 4 rows; 2 recipients, 2 reminders, 3 asks; 2 phones and 2 hubs of 2 owners; an alarm to 3 phones on 3 platforms; 2 threads of commands | panic reaches whom it must, search agrees with send, readers keep sight; turns kept, one voice, chats shown; reminders capped, answers spared, asks answered once; live sessions kept; retries stop only when every phone was called and none failed |
| `Progress` | 3 guests and 1 line with stable sockets, an administrator who also calls one of them; 1 guest with 1 pass and 1 link; 2 starts with 2 retries; fairness | nobody waits for nothing, ringing ends, and whoever waits, as second or third, is served; a cleared guest gets in or is turned away; a quiet start applies every patch; no start decides a schedule |
| `GuestPassDeletion` | 1 guest, 1 pass | **violated**: deleting an expired pass revives the bearer its expiry invalidated |
| `CallStranded` | 2 guests, sockets drop | **violated**: an invite that reaches nobody ends its call without promoting the line |
| `ZoneRestart` | 1 owner, 3 names, the default limits 3 and 2 | **violated**: the backfill of a start makes an administrator's secondary zone its third primary |
| `LoopWaits` | 2 threads, 1 code | **violated**: a web registration waits, on the event loop, for the row of a mobile one whose commit needs the loop |
| `AlarmReachesPhones` | 2 hubs, 3 phones | **violated**: one hub with an address `httpx` cannot parse ends the request before any phone is pushed |
| `SharedAdministrator` | 4 guests, 2 zones, 1 administrator; fairness | **violated**: the guest of the second zone waits for ever while those of the first keep calling |
| `GuestPaging` | 1 guest, pages of 1 row | **violated**: the first row left out of a page is on no page |

### Findings

The seven violated runs are disagreements between the code and what it or its
documents say; `PROJECT.json` quotes both sides. Those that take most to see:

* **LoopWaits.** `contract_routes.py:466` leaves a transaction open on return from
  the thread and commits it on the event loop; a route on the loop that updates the
  same row waits there for a lock whose release needs the loop, and no lock timeout
  is set. The comments promise that the loop "stays responsive".
* **AlarmReachesPhones.** `smart_home_webhook_service.py:483` catches
  `httpx.HTTPError`; `httpx.InvalidURL` is none, so an address that
  `is_valid_webhook_url` accepts and `httpx` cannot parse makes the function that
  "never raises" raise, before the phones are pushed.
* **SharedAdministrator.** `_promote_holding_lock` walks over the zones in the order
  of their keys and drops a key when its line is empty. Where one administrator serves
  two zones, a first line that is never empty gets every turn. It takes three guests
  there, two of whom wait when a call begins: with two the key goes, comes back behind
  the other, and the order is fair.
  `routes.py:149` promises the guest of the second zone an invite "when the line
  frees".
* **GuestPaging.** `guest_api_service.py:704` hands out the first omitted row as
  the cursor and the next page excludes it.

Three more disagreements are in the models, without a run of their own:

* **Alarms that did not fully deliver** are to be pushed again
  (`push_notification_service.py:311`). Expo's tickets are paired with the phones by
  `zip` (522-532) and FCM's two numbers default to 0 (616-617): phones an answer
  leaves out are neither sent nor failed (`uncounted`), and without a failure there is
  no retry. `DoneMeansAnswered` therefore says that every phone was called and none
  counted as failed, not that all were reached.
* **A claim of the login session** deletes offline hubs of an owner whose plan is full
  (`ClaimSession` with `Room`, from `routers/devices.py:218`), while the route's
  description says that hubs are not deleted (190-191).
* **The approval of a guest** leaves the guest's waiting calls in line (`ApproveGuest`);
  `guest_call_service.py:628` says of `remove_queued_for_guest` that it drops those of
  guests approved or rejected, but only the reject handlers call it.

### Bounds

* Two guests are enough to race for a pass, a link or a line; three to have two
  waiting behind one call, which first come, first served and the end of waiting need. Two passes and
  two links let each have a successor. A clock of three ticks lets a code or a
  pass be created, expire and be replaced; links, which have no code of their own,
  need two.
* `CallIds` are reused once no call and no suspended handler refers to them, and no
  call starts while none is free, so calls go on for ever in a finite instance. `MaxSuspended` bounds handlers
  suspended at once; two give every pair of overlapping handlers (an invite and
  a timer, two hang-ups, a delivery and a disconnect). `AdminCalls` bounds whom
  administrators call.
* Three persons in two networks: two of one network, administrators until a change of
  role, and one outside, so every kind of request has its parties. One request id is
  used once, so each of its lives (asked, edited, decided, turned off, removed) meets
  every thread; two hubs give a send an await between them. `MaxDocs` bounds edits,
  and `KeysOnly` sends of different people, which read the same rows and write none.
* With two owners of zones one is the administrator and the other its member, a
  stranger or an administrator too; eviction, the split of an account and a name
  taken by somebody else need no third. Limits of 2 and 1 leave a member room for
  one zone, which the administrator's primary takes: each limit is met and crossed.
  `MaxRegraded` stops the system administrator once one owner is regraded.
* Two threads and the loop give every overlap of two registrations with a third;
  `CodesOnly` keeps to two persons for one code, `SeatsOnly` to members for two
  seats, of which the administrator takes one.
* Messages: three places put a sender inside two zones of one network, inside zones
  of two networks, or outside; owner 3 is the system administrator. A second
  message follows only an UNKNOWN or SENSOR, which are the types whose windows
  limit the next one; in between or after one message one change, read or rule
  may happen, and `MaxScan` 1 lets an event fall out of the inbox.
* The chat has four rows and pages of one: a second page, and one after it.
  `AdminScan`, 300 in the code, is 1, so that rows fall out of that search too. Rules
  and inactive owners are present one at a time (`MaxAside`).
* A clock of 4 with a lookback of 3 lets the window of a check close with
  reminders left; 3 asks let each recipient ask again after a reply. `MaxLost`
  bounds the deliveries that are not counted.
* Three phones, one per platform, of which one has no credentials; `MaxTries` 2
  has a retry after a failed retry; `MaxMoves` 1 lets one phone or hub change
  between any two awaits; `MaxLedger` bounds the commands recorded.
* Two starts with two retries: a start that gives up is followed by one that may
  not. `OneKindOld` and `OneChosen` look at one kind of row at a time, since the
  three backfills touch different tables.
* `CHECK_DEADLOCK FALSE` in the runs where a component may come to its end: with
  the clock at its bound, every link used and everyone decided, all rows written or
  the alarm delivered, nothing is left to do. `CallLines`, `CallStranded`,
  `SharedAdministrator`, `ZoneRestart` and `LoopWaits` check deadlock.

### Fairness

`ProgressSpec` of `MCProgress` is the conjunction of three assumptions,
of which `SharedSpec` of `MCSharedLine` needs `CallFairness` alone.
`GuestFairness`: the guest's app polls the session (`WF Poll`) and exchanges a code
it is shown (`SF Exchange`, because codes expire in between). `CallFairness`: the
loop runs every scheduled callback (`WF Resume`); ring timers of a zone that rings
again and again fire, and the parties of its connected calls hang up at last (`SF`).
Nothing is assumed of accepts, rejects or cancels. `WaitingEnds` speaks of lines whose
administrators serve no other zone (`OwnLine`) and is checked with stable sockets:
`SharedAdministrator` and `CallStranded` show what happens without the one and the
other. `StFairness`: the bootstrap thread takes its
steps (`WF StThread`), a lock nobody holds being granted, and the platform ends
the previous container (`WF OldExits`). A failure is always possible while that
container is there, so `QuietStartPatches` speaks of the last start once it is gone.

## 4. What is proved

The eight proof modules hold for all values of the constants that satisfy the named
assumptions: `ConstantsOK` of `GuestAccess` and of `Wellness`, `CallConstantsOK`,
`UaConstantsOK` and `UaNullsOK`, `AccountsConstantsOK` and `AccountsNullsOK`,
`MessagesConstantsOK`, `GuestChatConstantsOK`, `DeliveryConstantsOK`,
`DevicesConstantsOK`, `StartupConstantsOK`, `LimitsAssumption` and `ZnNullsOK`. They type the constants, keep ids and
nulls apart, and take the zones of `GuestCalls` and the guests, links or seats that
are counted as finite sets; no theorem assumes a number of anything. TLC evaluates
each of them in a run.

| Theorem | States | Run on an instance in |
|---|---|---|
| `GuestAccess_proofs!TypeCorrect` | `Spec => []TypeOK` | `GuestSafety` |
| `OneJwtPerSession` | `Spec => []ExchangeOnce` | `GuestSafety` |
| `PassSessionConsistent` | `Spec => []PassAndSessionAgree` | `GuestSafety` |
| `BearerNeedsClearance` | `Spec => []LiveBearerIsCleared` | `GuestSafety` |
| `OneActive` | `Spec => []OneActiveToken` | `GuestSafety` |
| `PassUsedOnce` | `Spec => PassAdmitsOnce` | `GuestSafety` |
| `TokensCountGuests` | `Spec => []TokenUsesHonest` | `GuestSafety` |
| `Implementation` | `Spec => AdmissionSpec`, the refinement of `GuestAdmission` | `GuestSafety` |
| `GuestCalls_proofs!CallTypesHold` | `CallSpec => []CallTypeOK` | `CallLines` |
| `LinesAreExclusive` | `CallSpec => []LineExclusive` | `CallLines` |
| `GuestsHaveOneCall` | `CallSpec => []OneCallPerGuest` | `CallLines` |
| `QueuesAreSound` | `CallSpec => []QueueSound` | `CallLines` |
| `FirstComeFirstServed` | `CallSpec => NoOvertaking`, of a zone's calls what `ServesLines` says of its guests | |
| `LinesAreServed` | `CallSpec => ServesLines`, the refinement of `WaitingLines` | `CallLines` |
| `AnsweredCallsSpared` | `CallSpec => TimeoutSparesAnswered` | `GuestSafety` |
| `ApprovalsSpared` | `CallSpec => AutoCloseSparesApproved` | `GuestSafety` |
| `IdsNeverRunOut` | `~IsFiniteSet(CallIds) => (CallSpec => []IdsLeft)` | |
| `ServedWhileIdsLast` | `StableCalls => (CallSpec /\ []IdsLeft => []NoStrandedQueue)` | `Progress` |
| `NobodyIsStranded` | `StableCalls /\ ~IsFiniteSet(CallIds) => (CallSpec => []NoStrandedQueue)` | `Progress` |
| `UaTypeCorrect` | `UaSpec => []UaTypeOK` | `GuestSafety` |
| `KeysFollowDecisions` | `UaSpec => []KeyFollowsDecision` | `GuestSafety` |
| `OpeningsAreAgreed` | `UaSpec => []OpeningWasAgreed` | `GuestSafety` |
| `NothingIsHidden` | `UaSpec => []NothingHidden` | `GuestSafety` |
| `AcTypesHold` | `AcSpec => []AcTypeOK` | `AccountSafety` |
| `CodesAdmitOnce` | `AcSpec => []AdmitsOnce` | `AccountSafety` |
| `OnlyOverlapOversells` | `AcSpec => []SeatsOversoldByOverlap` | `AccountSafety` |
| `ZnTypesHold` | `ZnSpec => []ZnTypeOK` | `AccountSafety` |
| `QuotaHolds` | `ZnSpec => []WithinQuota` | `AccountSafety` |
| `NamesDiffer` | `ZnSpec => []NamesUnique` | `AccountSafety` |
| `EvictionSpares` | `ZnSpec => EvictionSparesTheOldest` | `AccountSafety` |
| `MessageTypesHold` | `MsSpec => []MsTypeOK` | `MessagingSafety` |
| `SearchAndSendAgree` | `MsSpec => []SearchMatchesSend` | `MessagingSafety` |
| `ReadersSeeAlarms` | `MsSpec => []ReadersKeepSight` | `MessagingSafety` |
| `PanicIsDelivered` | `MsSpec => PanicReachesInside` | `MessagingSafety` |
| `ChatTypesHold` | `GcSpec => []GcTypeOK` | `MessagingSafety` |
| `OneVoiceHolds` | `GcSpec => []OneVoiceWhileWaiting` | `MessagingSafety` |
| `TurnsAreKept` | `GcSpec => TurnIsKept` | `MessagingSafety` |
| `ChatsAreShown` | `GcSpec => ChatIsShown` | `MessagingSafety` |
| `DeliveryTypesHold` | `DlSpec => []DlTypeOK` | `MessagingSafety` |
| `DeliveredIsAnswered` | `DlSpec => []DoneMeansAnswered` | `MessagingSafety` |
| `DeviceTypesHold` | `DvSpec => []DvTypeOK` | `MessagingSafety` |
| `LiveSessionsStay` | `DvSpec => LiveSessionsKeep` | `MessagingSafety` |
| `StartTypeCorrect` | `StSpec => []StTypeOK` | |
| `StartsDecideNothing` | `StSpec => StartSparesSchedules` | `Progress` |
| `WellnessTypesHold` | `Spec => []TypeOK` | `MessagingSafety` |
| `BoundedReminders` | `Spec => []RemindersBounded` | `MessagingSafety` |
| `StandingAnswers` | `Spec => AnswersStand` | `MessagingSafety` |

The arguments:

* **GuestAccess.** `IInv` is `TypeOK`, `ExchangeOnce`, `PassAndSessionAgree` and
  `SessionShape`: which combinations of kind, resolution, code, consumption and
  revocation a row can show. Without it `Exchange` could be taken from a row no
  handler writes, and neither `ExchangeOnce` nor the refinement would be
  inductive. `PassAdmitsOnce` needs that an absent pass names no guest
  (`AbsentPassEmpty`), `TokenUsesHonest` that an absent link has no uses
  (`AbsentTokenEmpty`) and that the guests are a finite set: an arrival then adds
  exactly one to the counter and to the cardinality. `Implementation` maps each
  handler to one move of one guest (`OneMoves`).
* **GuestCalls.** `CallInv` has two halves. `SoundTables` says what the four tables
  show between two steps: one live call per zone and per guest (`OneLine`,
  `OneCall`), one place per waiting guest in a line, whose zone is not calling that
  guest (`OnceInLine`, `NotCalledHere`; an administrator may have calls in two zones,
  and a guest may wait in one zone during a call with another); the run checks its
  parts as `LineExclusive`, `OneCallPerGuest` and `QueueSound`. `HandlersFit` says that whatever a suspended handler still holds
  is well typed, nothing more: a handler reads the tables anew when it resumes, and
  that this is enough is what the proof shows. Promotion walks over the lines of
  all zones, and within a line over the waiting guests. These walks are recursive
  functions on `0..n`; `AlongARun` and `RunExists` do the induction over `n` with a
  least counterexample, and `Promoted` is what any walk, in any order, leaves: the
  calls there stand, and each line that was free lost a prefix, whose guests are in
  calls by now, the last one in the call of this line if it has a new one
  (`LineServed`). `FirstComeFirstServed` follows from `LineServed` and
  from `OrderKept`, which says that all the other changes of a line only thin it.

  `LinesAreServed` reads the same walk as one step of `WaitingLines`. The lines with
  a new call had their turn (`Turns`). A guest who was passed over is in a call: one
  from before the walk is on another line, since nobody waits in the line of their
  own call (`NotCalledHere`); a new one is the turn of another line, which that guest
  left as the last of its prefix (`PassedIsServed`). That the guest behind a prefix
  is the one who was behind it before, a newcomer set aside, is `FirstsLeave`; that
  cancelling and rejecting remove one guest and keep the order is an injection
  carried through the walk of `remove_queued_for_guest` (`RemoveAtThins`,
  `WithoutThins`).

  `NoStrandedQueue` is false in general: a call whose invite reaches no socket ends
  without a promotion, and `CallStranded` shows the line that is left.
  `ServedWhileIdsLast` says when it is true, under `StableCalls`: no socket goes away,
  and administrators call guests from the zone the guests are in. The second
  condition is needed as well, since a guest who stands in a second zone's line may
  find that line called first, and a retried invite whose call is over closes the
  guest's socket (`Retry`). `StrandInv` adds what makes it inductive: everybody is
  connected, the lines hold guests of their own zone (`Home`), and no handler
  retries, forgets a promotion it owes, or broadcasts to nobody (`Calm`). The heart
  is `PromotionsServe`: after a walk over all lines, in any order, somebody is
  called or nobody waits. It needs a free id. In a finite instance that is the
  hypothesis `[]IdsLeft`; `IdsNeverRunOut` proves it from infinitely many ids, as
  calls are one per zone and only finitely many handlers are ever suspended
  (`BusyInv`), so `NobodyIsStranded` assumes nothing of the states.
* **UniversalAccess.** `UaInv` adds to the types and `KeyFollowsDecision` who has
  consented to a request by its kind and status (`Consent`), and that whoever is
  sending a key was entitled when the sending began (`UsersEntitled`): a key is
  checked before the hubs are called, and may be turned off or removed meanwhile.
  `NothingHidden` compares lists that different queries answer; beside the rows it
  rests on `DecidersTold`: who has a pending request to decide was told of it when it
  was made, and what is pending stays as it was (`NoNewPending`).
* **Accounts.** A code is counted at the commit, long after it was found live.
  `AcInv` follows it through the transaction: the row of a code is held by one
  request (`OneHolder`), which found it live (`HeldIsLive`) and holds it to the
  end (`WriterHolds`); what has admitted anybody is marked used (`CountedIsUsed`).
  `SeatsOversoldByOverlap` counts a seat where it is checked and takes it at the
  commit, so `SeatInv` says of each request under way that the seat it found is
  still free unless the account is excused by an overlap (`SeatStillFree`), that a
  row under way is nobody else's (`RowsFit`), and that members belong to an
  administrator (`Rooted`); the count itself is a cardinality.
* **Zones.** The quota of a member depends on the primaries of another owner, so
  `ZnInv` separates what an owner's account gives by itself (`QuotaKept`) from what
  its administrator leaves (`ShareKept`); both need that administrators and
  Individuals are the roots of their accounts (`RootsFit`), which joins, re-typing and
  the split of an account by a deletion keep. Names are apart in every account whose
  root is as it registered (`NamesApart`): a regraded root may become the root of
  owners who named their zones before, and the first form of the invariant, which
  spoke of any two owners with the same root, failed there. Deletion, eviction and
  forgetting only thin a list (`Thins`: an injection of the rows that stay), and
  thinning keeps quotas and names. `RankOrder` and `NthPlace` say that ranks number
  the places of a list; `EvictedCount` and `EvictedIsOldest` follow, and
  `OnlyCreationAdds` shows that `EvictionSparesTheOldest` speaks of `CreateZone` only.
* **Messages.** `MsInv` adds that an alarm was read only by somebody its row
  addresses (`ReadWasAddressed`): what a reader sees later depends on the row, not
  on who is active or where anybody is by then. The orders by distance and by id
  enter only as minima that exist.
* **GuestChat.** `GcInv` adds to the types that the administrator of a waiting
  session is known and may manage it (`VisitFits`) and whom a row names (`RowFits`).
  `TurnIsKept` follows the guest at the head through the arrivals; rows only get
  appended, so what was found is found again unless the search stops before it:
  `admin_has_initiated_pending_chat` reads the administrator's newest 300 chats only
  (`AdminScan`). The proof failed on the chat that pushes the guest's row out, and
  `TurnIsKept` excepts that step since.
* **Delivery.** Every phone an attempt has read is still to come, was reached,
  failed, was left out of an answer's count, or is skipped (`Accounted`), so an
  attempt without failures that stops the retries has called them all and been
  answered. It need not have reached those an answer left out. The types rest on `TriesFit`: a retry is for an
  alarm of the highest priority, and one is left while it waits.
* **Devices.** `DvInv` is the type invariant. A handler that expires the
  sessions of others spares those seen lately (`OthersExpire`), a listing or a claim likewise, whoever
  asks (`AsksSpare`), and `Sparing` is `LiveSessionsKeep` for one step.
* **Startup.** A schedule somebody wrote is live only if it was accepted
  (`ChosenIsSettled`): the backfill then changes nothing.
* **Wellness.** A step of the worker knows only what was counted: `IInv` adds that
  every push is counted, lost, or about to be counted (`PushesAccounted`) and that
  the count a delivery will write is the next one (`DeliverySound`).
  `RemindersBounded` also needs that those a delivery is about to push to were never
  reminded late (`LateSound`), and `AnswersStand` that the answered asks are the oldest ones,
  in the order of the replies (`AnswersOrdered`).

Only model-checked: liveness (`ClearedGuestGetsIn`, `RingingEnds`, `WaitingEnds`,
`QuietStartPatches`), because its fairness and `ENABLED` are out of the prover's
reach. `TypesOK` of an MC module is the conjunction of the type invariants of its
components, each of which is a theorem of its component's specification.

## 5. Not modelled

* **Geometry, areas, geocoding, government boundaries.** Floating-point geometry
  and map services are out of TLC's reach; `Messages` takes their answers as
  constants. Zone memberships are derived from them.
* **Two processes on the guest tables.** During a rolling deploy two containers may
  approve and reject one session at once, because the decisions read it without a
  row lock (`app/database.py:45`). The modules run the routes of one process;
  only `Startup` has the previous container.
* **I/O and text.** E-mail, uploads, app links, QR images, texts of notices, media
  tokens, password hashes and JWT signatures.
* **Derived or static data.** Communal IDs draw an identifier and rely on its
  unique index; the seed creates one account; schemas validate shapes; the arrival
  rate limit only refuses.
* **Permission messages.** `permission_service.py`, the older workflow that matches
  permission messages with schedules.
* **Listings that show rows as they are**, profiles, avatars and settings, and the
  contract routes that are second URLs of handlers modelled elsewhere.

## 6. Plan

1. Two processes on the guest tables: each decision of `GuestAccess` as a read and a
   write of its own, and which of its theorems survive.
2. The inbox of a Private+ account, which shares PRIVATE rows with the whole
   network: a property, once a document says what is meant.
3. Deduplicated notices to hub owners, which the wellness worker's second event
   loop sends as well.
