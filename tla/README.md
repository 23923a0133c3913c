# BeamOS: TLA+ models, checks and proofs

BeamOS is a digital-signage platform: a Node.js server (`src/server`) with a MySQL
database, players on Android, Tizen and the web, and a dashboard. This directory
holds TLA+ modules for the parts of it whose correctness depends on the order in
which things happen: registration and eviction of connections, timers and sweeps,
buffered writers, queues with acknowledgements, updates that overtake each other, an
append-only log that is pruned and verified while it is written, transactions that guard the
last administrator, periodic jobs over a log that ages away, and limits that must let a
device in again.

Contents: [inventory](#1-inventory), [how the code is read](#2-how-the-code-is-read),
[modules](#3-modules), [runs](#4-runs), [bounds](#5-bounds), [fairness](#6-fairness),
[proofs](#7-proofs), [where the code and its comments disagree](#8-where-the-code-and-its-comments-disagree),
[not modelled](#9-what-is-not-modelled), [plan](#10-plan).

## 1. Inventory

Paths are relative to `src/`. "State" is what outlives one synchronous piece of code.

| Component | State | Operations | Interacts with | Hard part, and what makes it correct |
|---|---|---|---|---|
| Device session (`server/ws/deviceSocket.js`, `server/services/heartbeat.js`, `server/lib/session-settle.js`) | `deviceConnections`, `pendingOfflines`, `evictedSockets`, settle window, `currentDeviceId` of each handler closure, `devices.status`, `devices.last_heartbeat` | `device:register`, fingerprint reclaim, `device:heartbeat`, `disconnect`, `offlineTransition`, `tick` | command queue, status log, playlists, walls | Every await lets other handlers in; statements land in any order. A device has one live session and the map names it; 'offline' is stored and recorded only for a device that is gone, and eventually if it is. |
| Status-log writer (`server/lib/status-log-writer.js`) | `pending`, `lastWritten`, `device_status_log` | `record`, `flush`, prune | device session, outage detection | Flushes overlap, transactions fail. The newest row is the last transition; no repeated rows. |
| Command queue (`server/lib/command-queue.js`, `server/ws/dashboardSocket.js`) | `pendingCommands`, `pendingPlaylistUpdate` | `queueCommand`, `queueOrEmitPlaylistUpdate`, `flushQueue`, `sweep` | register handler, dashboard | The flush awaits half-way. Nothing waits for a device that is there; the last command of a type wins. |
| Playlist delivery (`server/routes/playlists.js`, `WebSocketService.kt`) | published snapshot, refresh generation, `refreshInFlight` | push, refresh, timeout, payload guard | command queue, register handler | Payloads carry what was read before an await. The player ends up with the last publication and does not go back. |
| Proof of play (`PlayEventQueue.kt`, `WebSocketService.kt`, play-event handler) | SQLite queue, `lastPlayLogAt`, `play_logs` | enqueue, flush, upsert, ack | content deletion | Lost acks, repeats, reordering, foreign-key failures. What leaves the queue is stored; rows only gain information. |
| Flap limiter, reconnect throttle (`flap-limiter.js`, `reconnect-throttle.js`) | hits, cooldown, trips and quarantine per identity; hits, level and backoff per device; the warm-up | check, reject, allow, release, sweep | in front of `device:register`; load bands from `loop-lag.js`; the player's fixed delay | Two limits in a row and a client that tries again regardless. A ceiling over every window, and a device that goes on trying is let in. |
| Content-ack limiter, loop-lag valve, pairing and TOTP lockouts (`server/lib`) | counters and windows per device or address | admit, refuse, expire | in front of `content:ack`, pairing, login | Boundaries of windows; a quiet client is let in again. |
| OTA breaker and download guard (`server/lib/ota-breaker.js`, `ota-download-guard.js`) | failures per device and version, active downloads | request, success, failure, release | update check of the player | Half-open state, releases that never come. |
| Provisioning (`server/routes/provisioning.js`, first contact in `deviceSocket.js`) | `devices` rows, pairing codes, tokens, fingerprints | create, pair, reclaim, prune | device session, maintenance | Two reclaims, a pairing racing the prune. |
| Maintenance and usage accrual (`heartbeat.js`, `lib/billing.js`) | retention windows, accrued usage | prune, accrue | all tables | Overlapping ticks must not count a day twice. |
| Activity chain (`server/lib/activity-chain.js`, `server/services/activity.js`) | `activity_log`, the head row and checkpoint of `activity_log_chain` | `appendInTx`, `pruneChain`, `backfillChain`, `verifyChain` | every audited route | Concurrent appends keep one chain; pruning keeps it verifiable; the verifier reads while rows arrive. |
| Scheduler (`server/services/scheduler.js`, `lib/schedule-eval.js`, `ScheduleEval.kt`) | `activeOverrides` in memory, device's playlist and layout | evaluate, override, revert | playlists | The record is lost on restart; server and player must agree on what is due. |
| Outage pipeline (`outage-detection.js`, `outage-history.js`, `outage-escalation.js`, `sla-breach-ticket.js`) | `device_status_log` as pruned, `outage_history`, `outage_escalations`, tickets | detect, record, prune, open and resolve tickets, claim, send | status log, a person who works on the ticket | Outages are derived again and again from a log whose old rows disappear; jobs overlap, fail and die between claim and mail. The history tells only of outages there were and of every one a run finds in reach, nobody is mailed twice, a ticket of an outage that is over is resolved. |
| Video walls (`deviceSocket.js`, `routes/video-walls.js`, `WallController.kt`) | leader of each wall, who is online | elect on register, elect on offline | device session | Two elections with two orders; one leader in the end. |
| Playlists (`routes/playlists.js`, `routes/assignments.js`) | items, draft marker, published snapshot | edit, publish, discard | delivery | The snapshot is what was published; an edit during publication stays a draft. |
| Screenshot scheduler (`services/screenshot-scheduler.js`) | rotation, pending requests | tick, reply, expire | device session | Replies that never come must not stop the rotation. |
| Users and tenancy (`lib/platform-admin-guard.js`, `user-deletion.js`, `user-deactivation.js`, `entra-role-sync.js`, `routes/auth.js`, `admin.js`, `organizations.js`, `workspaces.js`, `scim.js`) | `users`, `organization_members`, `workspace_members`, `workspace_invites`, the lock rows of `app_locks` | sign up, change of role, remove, move, sync at sign-in, deactivate, delete, invite, accept, create and delete groups | every request at once | What a request checked may have changed when it writes, unless it holds the right lock. The last administrator cannot be removed by two concurrent requests, only the first account becomes one by signing up, and the sync does not touch what was given by hand. |
| Database access (`db/database.js`) | connection pool | `transaction`, `retryOnDeadlock` | all | A retried transaction repeats its in-memory effects. |
| Android update and reconnect (`ConnectionGuard.kt`, `UpdateChecker.kt`, `OtaThrottle.kt`) | socket, backoff, attempts | connect, evicted, check, install | device session, OTA | One socket per device, no eviction ping-pong. |
| Player playback and cache (`PlaylistController.kt`, `ZoneManager.kt`, `ContentCache.kt`) | position, retries, cached files | advance, fail, evict | delivery | What plays is never evicted; a broken item does not stop the loop. |
| Web/Tizen players, dashboards, passwords and tokens, billing, reports | rows and views | request and response | - | No protocol state beyond a row; listed as not modelled in `PROJECT.json`. |

`PROJECT.json` lists the same components with their status, and the hazards of the
code, each at its line with the properties that would notice it.

## 2. How the code is read

The server is one event loop over a **pool** of database connections. So
* an action is the code between two awaits: it runs alone;
* a statement that was sent and has not run yet is a control state of its handler
  (`"online"`: the UPDATE is on its way; `"onlined"`: it ran and the handler has not
  resumed). Two statements of two handlers, or of one handler that did not wait, may
  run in either order, because they travel on different connections;
* a socket may close while its handler is suspended. The handler goes on: nothing in
  the code cancels it;
* a fault is an action of its own and does what the `catch` that surrounds the
  statement does (`protectSocket` disconnects the socket, a sweep ends its tick, the
  writer drops its batch);
* a restart empties every Map, Set, timer and closure and keeps the tables.

In most modules time is not a number. A window or a timeout is a flag that may flip at any moment after
it was set ("the settle window is open", "the last beat is older than the timeout",
"the gap between two play logs runs"). So every property that holds there holds for every
value of the corresponding setting. Two modules have to count, because what they say is about
lengths of time that are compared with each other: `Outages`, with a clock and rows stamped by it,
and `ReconnectGate`, where every stamp of the code is kept as its age, cut off where the code no
longer tells the difference, so that no clock is left.

Statements of MySQL transactions: a locking read is a step of its own, waits for a lock that another
transaction holds, and what it reads stays what it is until the commit. A gap lock hinders only an
INSERT. An ordinary read locks nothing, and what it found may be out of date when the transaction
writes.

Identities of devices, sockets, handler runs and play sessions are model values. Payloads
are reduced to what the properties tell apart: a playlist is its version number, a command
its type and the number of its sending, a play event its session and whether it is the
start or the end.

## 3. Modules

### DeviceSession (with DevicePresence)

`DeviceSession` models the connection handlers of `deviceSocket.js` and the sweep of
`heartbeat.js`.

| State | Code |
|---|---|
| `sock`, `authed` | the transport and `currentDeviceId` of its handler closure |
| `conn` | `deviceConnections`; `InNamespace(conn[d])` is the liveness test the code applies to it |
| `settling` | devices for which `isWithinSettleWindow` says yes |
| `pending`, `evicted` | `pendingOfflines`, `evictedSockets` |
| `reg`, `beat`, `off`, `tick`/`todo`/`judged` | where each register handler, heartbeat, offline transition and sweep is suspended |
| `superseded` | the map entry a tick judged has been replaced since (the comparison of the remembered entry with the current one) |
| `status`, `logged` | `devices.status`, and the last call of the status-log writer |

`SendRegister` and `SendReclaim` start the handler with a known device id and with a
fingerprint. `Refuse`, `RefuseAndClose`, `HoldDuplicate` and `AcceptRegister` are the
outcomes of the identified path after its awaits; `PassReclaimGate` and `AcceptReclaim`
are the reclaim before and after its token UPDATE; both end in `TakeOver`, which cancels
the timer, evicts the prior socket (whose disconnect handler runs at once) and installs
the entry. `Drop` and `Close` are a disconnect with its grace timer, `OfflineTimerFires` ...
`OfflineRestoreLands` the deferred transition, `TickStart` ... `TickEnds` the sweep with its
re-check after the UPDATE.

The device table at start is whatever an earlier process left: any status, any heartbeat. A
restart keeps it and empties the rest.

`DevicePresence` is what the server promises without any of this: a set of sessions per
device that never exceeds one, and rules for what may be recorded about a device.
`DeviceSession` implements it with `sessions` mapped to the sockets that are open and
authenticated, `convicted` to the ticks that passed their re-check, and `record` to the log
call.

### StatusLogWriter

`Record`; `Flush` (the timer swaps the buffer, drops what equals `lastWritten` and opens a
transaction); `InsertLands`/`InsertReturns` (one row; then `lastWritten` and the per-device
prune of what passed its retention); `Prune` (the maintenance sweep and the deletion of a device
or workspace: any number of the oldest rows, the newest one too); `Commit` (and the cut of
`lastWritten` to its bound, which may forget any devices); `FlushFails`; `Restart`. A row
carries the flush that inserted it until the commit, so a rollback removes exactly its rows.
Three history variables say what the code cannot remember: `forgotten`, the devices cut from
`lastWritten`, `disturbed`, whether two flushes ever overlapped or one failed, and `erased`, what the
last row of a device said whose rows are all gone. A device that stays in one state longer than the
rows are kept has no row at all, so `NetStateLogged` speaks of the last row the device got.

### CommandQueue

The dashboard handler looks at the room and emits or queues; the register handler joins the
room and runs `flushQueue`, which awaits the playlist payload between taking the marker and
draining the commands. On a reconnect the join and the start of the flush are one step (`Register`); a reclaim
by fingerprint awaits the query behind `emitToDeviceWorkspace` in between (`Reclaim`, `FlushReclaimed`), and there the
device is in its room with a queue and nobody building: `NothingStranded` allows an entry to wait for such a handler. A handler whose socket has closed is one that is no longer in `own`.
`Expire` may happen to any entry at any time (TTL). The history variable `passed` holds the types
of which a live command was emitted while older ones were still queued.

### PlaylistDelivery

`Publish`, `Check`, `BuildPush`, `EmitPush` are a push with its two awaits; `Accept` (or `Reclaim` and
`FlushReclaimed`, with a query in between) ... `EmitAnswer` the register handler, which flushes a pending
update and then answers with the generation of the request; `RequestRefresh`, `RefreshTimesOut` and `Receive` are the player.
Generations are only compared with the last applied one, so they are kept as the distance above
it, 0 for everything not above: the state space stays finite without a bound on refreshes.
`PushFails` ends the process: the push is not awaited and the server exits on an unhandled
rejection.

`PlaylistQuiet` adds one history variable, `overtaken`: on this connection a payload went out behind one with a
later version, or behind a later version the player had already applied. It changes no action. With it the module says, with invariants that need no fairness, what
the pushes and the register's answers achieve before a refresh repairs anything: a player at rest is up to date unless
payloads overtook each other (`QuietMeansCurrent`). The excuse is needed: TLC violates the property without it. `RefreshAnswered` says that the player never waits for an answer that nobody
is going to send or that its own generation guard would drop.

### PlayEvents

`Enqueue` writes the durable queue first. `Receive` is the flush of one event and the first half
of the handler, throttle included; `InsertLands`, `InsertRefused` (foreign key) and `InsertFails`
the statement; `Reply` the answer, which removes the event only on a connection that is still
open. `row` is what the table holds of the session, and the upsert never turns `"closed"` back.
Sending and receiving are one action: an event that gets lost before the handler sees it leaves
the queue as it is. Within one connection events could only arrive in queue order; the model lets
them arrive in any order, which only adds behaviours.

### ActivityChain

A row is its id, and so is its hash: rows differ, so hashes do, and nothing edits a stored row. A
`prev_hash` is then the id of the row it names. A transaction is `Begin` (`appendEntry`, `auditInTx`
and `pruneChain` alike), `LockChainRow`, for a prune `PruneNothing` or `PruneBlock`, `AppendInTx`, and
`Commit` or `RollBack`. Between the lock and the commit its effects are in `work[w]`; the statements in
between are few actions, because no one else can see or touch what they touch. `BackfillRow` and
`BackfillEnds` are `backfillChain`, one UPDATE at a time and outside any transaction, and `Crash` may
fall between them. `VerifyStart`, `VerifyRow`, `VerifyHead`, `VerifyCount` and `VerifyCheckpoint` are the
statements of `verifyChain`; a batch of its walk is one row, which adds interleavings. `Age` moves any
row out of the retention window, in any order.

### Membership

The platform, each organization and each workspace is a group of users; `row[g][u]` is the membership
row (`users.role` for the platform), with the source that the sign-in sync looks at. "top" is the role each
guard protects: platform administrator, organization owner, workspace administrator; every other role is "low".

A request of a route is `Arrive...` (what it reads before its transaction), `Lock...` (its locking reads, or its
lock on an `app_locks` row, and what it reads under them) and `Commit...`. `Covered` says which rows and gaps the
locking reads of each kind of request cover; `Grantable` when they do not have to wait, `Writable` when a write meets
no lock of another. `RollBack` is a refusal, a failing statement and the victim of a deadlock. SCIM's DELETE takes two
statements, of which the second (`Unlink`) is outside the transaction. Statements that run alone (accept an invitation, delete a
group, create an account in a workspace, create an organization) are one action each; their writes wait for locks too.
`Fresh` says that a new row has an id that no request in flight can name.

| Actions | Code |
|---|---|
| `ArriveChange`, `ArriveRemove`, `LockGroup`, `CommitChange`, `CommitRemove` | members of organizations and workspaces: PUT, POST, DELETE |
| `ArriveMove`, `LockMove`, `CommitMove` | an account moved to another workspace |
| `ArriveSync`, `LockSync`, `SyncedRow`, `CommitSync` | `entra-role-sync.js` |
| `ArriveRole`, `ArriveDeactivate`, `ArriveDelete`, `LockPlatformAdmins`, `CommitRole`, `CommitDeactivate`, `Unlink`, `CommitDelete`, `Reactivate` | `platform-admin-guard.js` and its callers |
| `ArriveRegister`, `LockRegister`, `CommitRegister` | `createAccountTx` |
| `ArriveInvite`, `ReadPending`, `CommitInvite`, `MailSent`, `Cancel`, `AcceptInvite` | invitations |

### Outages

One device; devices share nothing. `rows` is every row the device ever got, by timestamp and id, and `device_status_log` is what follows
the first `pruned` of them. `Write` adds a row of either state at the present second: a state may be repeated (the sweep after a disconnect,
the first row after a restart) and a second may hold any number of rows. `PruneStatusLog` takes the oldest away that are too old or too
many, all of them or some. `Detect` is `detectOutages` on the rows a run looks at; `Over` says independently of it, from all rows, which outages
there were. `Record` is a run of the recorder that completes, `RecordFails` one that inserts some or prunes some and fails; `Inserts` is what the
unique key makes of two outages that start in one second. The history variable `due` holds the outages a completed run found over and in reach (`InReach`: the
first row in the window and among the newest `Cap`). Nothing relates the cap, the interval and the pace of the rows, and `Pass` lets time pass
whether or not a run has completed: a run that fails is followed by the next, late or not.
A run of the escalation job is `StartOutage`, `OpenTicket`, `ResolveTicket` (one ticket a step), `Claim` and `Send`
(one outage each), with `RunFails` for a failing statement and `Restart` for a process that dies anywhere, between
claim and mail too. `Patch` is a person who changes a ticket.

`OutagesOnTime` adds what the recorder's comments take for granted, that a run completes in each interval, and is there for the run
that refutes what they conclude from it.

### ReconnectGate

`FlapCheck` and `ThrottleCheck` are `check` of the two limiters as functions of a bucket: what they answer and what they
leave. `Attempt` is a registration of the paired player, which passes the flap limiter before it reaches the throttle;
`Stranger` one for the same device without its token, which only counts with the flap limiter. `Drop` breaks the
connection, `Restart` loses both limits and starts the warm-up, `Tick` lets time pass and `Sweep` deletes a bucket that was
idle. The load band of an attempt is any of `Multipliers`: the valve that chooses it is not modelled.

## 4. Runs

States are distinct states found by TLC.

| Run | States | What it checks |
|---|---|---|
| `session_safety` | 2.8 M | Register, reclaim, eviction, grace and sweep of one device with a reconnecting and a reinstalled player and one failing statement: the map names the only live session (`UniqueIncumbent`), no timer is armed for it (`NoTimerWhileLive`), a live device stored 'offline' has a writer that will correct it (`NoFalseOffline`) and all of it implements `DevicePresence`, which records 'offline' only for a device that is gone. |
| `session_live` | 64 k | With two failing statements and a restart that loses all timers: a device nobody is connected for ends up 'offline', one whose session stays ends up 'online'. |
| `status_log` | 1.8 M | Overlapping flushes, a failure, a restart, a cut `lastWritten` and a sweep that may take every row: until the first overlap or failure the last row a device got is its last transition (`NetStateLogged`) and equal neighbours appear only for a forgotten device (`NeighboursDiffer`). |
| `command_queue` | 1.6 M | Nothing stays queued for a device that is in its room with no handler on its way to flush (`NothingStranded`), across the query a reclaim awaits between the two; and the commands of a type are executed in order unless a live one passed a queued one during a flush (`InOrder`). |
| `play_log` | 4.8 M | Lost answers, repeats, content deleted, failures and restarts: nothing leaves the player's queue unsaved except a live start (`NothingDropped`). |
| `play_eventually` | 121 k | With a flush window of one event the queue still drains: no event holds back the ones behind it for ever. |
| `playlist` | 2.6 M | Two handlers, two pushes, a timeout and a failed build: a player in its room that nothing is under way to plays the last publication unless payloads overtook each other (`QuietMeansCurrent`), a refresh that is awaited has an answer on its way that will be accepted (`RefreshAnswered`), and a player that stays connected ends up with the last publication for good (`EventuallyCurrent`). |
| `activity_chain` | 4.2 M | Two concurrent transactions, rows that age out of order, roll-backs, crashes inside the backfill and a verifier: what is served is one chain (`ChainIntact`), the checkpoint agrees with the newest `audit:pruned` entry (`CheckpointTold`), no row inside the window is pruned (`WindowKept`), an undisturbed verification reports nothing (`QuietVerifyPasses`), and appends beside it never look like a broken link (`AppendsBreakNoLink`). |
| `membership` | 557 k | Two requests of any kind among two users, an organization and two workspaces, with every statement that runs alone in between: the installation keeps an active administrator (`AdminPresent`), only an account that found nobody there becomes one by signing up (`OnlyFirstIsAdmin`), a group loses its last top member only in the ways the property names (`LastTopKept`), and the sync leaves what was given by hand (`ManualKept`). |
| `outages` | 1.3 M | Repeated states, rows of one second, pruning by age and by number, recorder runs that are late, fail half-way or stay away, two overlapping runs of the job, a fault or restart, a person at the ticket: the history tells only of outages there were (`HistorySound`) and of every one that a completed run found in reach (`NothingSlips`), no outage is mailed twice (`OneMail`), a ticket nobody takes up is resolved when its outage is over (`RecoveredTicketResolved`). |
| `reconnect_gate` | 165 k | A player that drops and tries again after its fixed delay, strangers, load bands and restarts: no window between two restarts sees more registrations than the ceiling (`CeilingKept`), the load flags nobody (`HealthyNeverFlagged`), and the player is let in in the end (`EventuallyAdmitted`). |
| `outage_unrecorded` | - | Expects a violation, section 8. |

## 5. Bounds

* **Devices.** The handlers of different devices share no state in `DeviceSession` except the
  sweep's `todo`, which is a set; one device is enough for TLC and the proofs cover any number.
* **Sockets.** Two give every pairwise race of takeover, eviction and disconnect. Chains of three, in
  which the evicting handler is itself evicted, are covered by the proofs, which hold for any number.
  Sockets are never reused, as socket ids are not. The liveness run needs one socket: it is about
  what remains when the others are gone.
* **Ticks.** One in TLC; overlapping ticks, which the asynchronous timer allows, are again covered by
  the proofs.
* **Faults and restarts.** One is enough for "a statement fails in the middle"; `NoFalseOffline`
  speaks of the time before the first fault (after it, `EventuallyOnline` says what remains).
* **StatusLogWriter.** Two statuses and `MaxRemembered` below the number of devices make the cut
  of `lastWritten` happen; `MaxRows` = 2 per device shows the newest row and its neighbour, and the prune makes
  room for more. Devices and flushes are interchangeable (`WriterSymmetry`).
* **CommandQueue.** Two handlers (the second register of a player that reconnects during the first
  flush), three sends per type for order, two pushes, two types for a drain of several.
* **PlaylistDelivery, PlaylistQuiet.** Two publications, two pushes and two handlers; `MaxWire` bounds only when the
  player asks again. Any number of pushes and handlers, and so any order of three payloads, is covered by the proofs.
* **PlayEvents.** Two sessions (the throttle needs another one to throttle), two runs of the handler.
  `Window` = 1 in `play_eventually` makes the flush window smaller than the queue.
* **ActivityChain.** Up to two legacy rows and five ids: a prune of legacy rows, a second prune that removes
  the entry of the first, and appends around them. Two transactions are a pair that races for the lock, two
  faults a crash inside the backfill and a roll-back. Transactions are interchangeable (`WriterSymmetry`).

* **Membership.** Two requests are every pair that races; what stands alone between them does not count against
  `MaxRequests`. Two users make "the last one" and "another one"; two workspaces of one organization make a move. The
  instance starts empty (the first account) or set up with one or two administrators. Requests and workspaces are
  interchangeable (`Symmetry`). Three requests at once are covered by the proofs.
* **Outages.** Four rows are two complete outages, which may begin in the same second, or one with repeated rows on either side. `Cap` 2
  cuts into them, and `Retention` 1 of `MaxTime` 2 lets the first row of an outage grow too old before the outage ends, before a run comes, or after.
  `HistoryRetention` 1 makes the history's own prune happen. `Threshold` 0 makes every outage breach that is older than
  an instant. Two runs overlap; one upset (a failing statement, a restart or a person at a ticket, `MaxUpsets`) is enough to cut off either between claim and
  mail, or a run of the recorder between two inserts; several are covered by the proofs. `outage_unrecorded` takes more time, one outage and no upset.
* **ReconnectGate.** The settings keep the order and the proportions of the defaults rather than their values:
  the cooldown is as long as the longest backoff, the idle reset longer than the window; the multipliers are 1 and 2 where the code has a third band with 4. The instance differs from the
  defaults in one thing on purpose: the ceiling (3 in 3 ticks) is low enough to be reached before the flap limiter trips
  (5 in 7), where the defaults (20 in 10 s, 20 in 5 min) never let the ceiling be met. `MaxDisturbances` 7 drops fill the
  flap limiter's window, trip it and leave one to spare. `MaxLevel` 4 is beyond the level at which the backoff is capped.

`CHECK_DEADLOCK FALSE` appears in the play-event runs, in `membership`, `outages`, `outage_unrecorded` and `reconnect_gate`,
where the model may stop: all sessions are played and nothing is left to send, all requests have been made, the clock or
the disturbances have reached their bound.

## 6. Fairness

Weak fairness on steps the server's event loop takes by itself: a handler whose statement has run
is resumed, a statement that was sent finishes or fails, a timer that is armed fires, ticks go on
(`setInterval`), replies are sent. An open, authenticated player sends heartbeats. Nothing forces a
client to connect, register or drop in `DeviceSession`: the liveness properties there are conditional
on what the clients do in the end. No fault is ever fair.

In `PlayEvents` and `PlaylistDelivery` the player reconnects for ever (the Socket.IO client is created
with unlimited attempts), flushes its queue on each register and each fourth heartbeat, and asks for a
refresh each fourth heartbeat; and both liveness properties are conditional on a connection that stays.
`Receive` of a play event is strongly fair per event: the whole window is sent at each flush, so an
event in it is not passed over for ever because the few handler runs of the model are busy with others.

In `Outages` a run of the job is begun again and again (`setInterval`) and goes on once begun; nothing makes
the recorder, a person or the device act, and time need not pass. In `ReconnectGate` time passes and the player's timer fires;
`Tick` waits for an attempt that is due, so the timer is punctual. Without that a player could be late each time in the
way that hits the limits worst, which no setting prevents. `Drop` is not fair and bounded, so the property speaks of
a player whose connections stop breaking for reasons of their own.

## 7. Proofs

`DeviceSession_proofs` proves, for every set of devices, sockets and ticks and every number of faults
and restarts, from `SessionAssumption` alone (owners are devices; the two null values are new; the
bounds are naturals):

| Theorem | Statement |
|---|---|
| `TypeCorrect` | `Spec => []TypeOK` |
| `IncumbentIsUnique` | `Spec => []UniqueIncumbent` |
| `TimerOnlyWhenGone` | `Spec => []NoTimerWhileLive` |
| `FalseOfflineIsCorrected` | `Spec => []NoFalseOffline` |
| `OfflineRecordIsTrue` | `Spec => OfflineLoggedOnlyWhenGone` |
| `Implementation` | `Spec => ImplementsPresence` |

The inductive invariant `IInv` adds three facts to the properties. `Origin`: a handler, a session and a
map entry belong to a socket that connected and authenticated as that device. `ClosedOwners`: timers
and deferred transitions belong to closed sockets. `JudgedGone`: a tick that writes 'offline' judged a
device without a live socket, *or* the entry has been replaced since and the comparison after the await
will notice. The last one is the reason the re-check of the sweep is needed: without it the tick could
drop the entry of a live session, and `UniqueIncumbent` would not be inductive. The step lemmas follow
the groups of `Next` (`ClientKeeps`, `HeartbeatKeeps`, `AcceptKeeps`, `RegisterKeeps`, `TransitionKeeps`,
`TickKeeps`, `FaultKeeps`); `CloseFacts` and `TakeOverFacts` say what the shared code does.
`Implementation` maps every step to a step of `DevicePresence` or to a stutter, with one lemma per kind of
step. `OfflineRecordIsTrue` says for the detailed steps what `DevicePresence` says of its own: the deferred transition records
'offline' only when no live session is left. It is proved and has no run of its own, since a step that breaks it breaks the refinement.

`Delivery_proofs` is about both parts of `command-queue.js`. For the commands it proves, from `QueueAssumption` alone (the types are
finitely many, the bounds naturals):

| Theorem | Statement |
|---|---|
| `NothingIsStranded` | `Spec => []NothingStranded` |
| `CommandsInOrder` | `Spec => []InOrder` |
| `TypeCorrect` | `Spec => []TypeOK` |

`NothingStranded` is not inductive: it allows entries to wait while some handler has joined and not yet begun to flush, or
builds the payload, and that handler could fail and leave them there. `Flushing` says that this handler
belongs to the socket that is connected, so its failure takes the device out of its room. For `InOrder`,
`Increasing` adds what is queued to what is on the wire: an entry of the queue is younger than all that was sent of
its type and no older than the last number given out, and a flush that emits the queue in any order of types keeps the order within each.

For the playlists the module takes an instance `P` of `PlaylistQuiet` with a state of its own, and proves for any handlers, pushes and bounds:

| Theorem | Statement |
|---|---|
| `DeliveryTypes` | `Delivery => (P!Spec => []P!TypeOK)` |
| `QuietIsCurrent` | `Delivery => (P!QuietSpec => []P!QuietMeansCurrent)` |
| `RefreshIsAnswered` | `Delivery => (P!QuietSpec => []P!RefreshAnswered)` |

`Delivery` is `P!DeliveryAssumption` (the null generation is no number, no handler is a push, the bounds are naturals): the
assumption of an instance is not an assumption of the module that makes it, so the theorems state it. TLC evaluates it in the run `playlist`. That run
checks the three statements, of the module the instance is made from.

`QuietMeansCurrent` speaks of a moment when nothing is left, and so its invariant has to say where the playlist is at all others
(`Covered`): with the player, on the wire in a payload no guard drops, with a push that will
read it or has, or with a handler of the connection. The steps that lose one of these, a push that finds the room empty, a socket
that is cut, a failing build, end the connection or find it not joined, and `Joining` is why the connection that enters
the room next has a handler to answer it. The step that could undo it is a payload that is applied after the right one:
`Growing` says that, as long as nothing was overtaken, versions grow from the player along the wire, and `Known` that none is
later than the database's. Two emits that no code orders are the place where `Growing` breaks, which is what
`overtaken` records. The answer to a refresh plays no part in `Covered`: the player may drop it as stale.

`RefreshAnswered` needs `Bounded`, that the generations still to come have a bound. Only then is the next request's generation
greater than all of them (`NextGenFacts`: a set of numbers below a bound has a greatest), and an answer older than the one that was applied
is not mistaken for the one that is awaited. `ReceiveFacts` says once what a payload that arrives does to the wire and to
the generations, which are renumbered from the one applied.

`StatusLogWriter_proofs` proves, from `WriterAssumption` alone (the null values are new, the bounds naturals), for any devices,
statuses and number of overlapping flushes:

| Theorem | Statement |
|---|---|
| `TypeCorrect` | `Spec => []TypeOK` |
| `NoRowIsOrphaned` | `Spec => []NoOrphanRows` |
| `LastTransitionIsLogged` | `Spec => []NetStateLogged` |
| `LogIsCoalesced` | `Spec => []NeighboursDiffer` |

The last two speak of a writer at rest, and the transition is on its way through three places before. `Calm` follows it: until the first
overlap or failure one flush runs at a time, and `NetAgrees` says whether the last transition is in the buffer, in that flush or
already the last row the device got. The prune may take that row at any moment; `PruneKeeps` is the lemma that what the last row said stays known. `BatchAgrees` and `MemoryAgrees` say that what a flush has still to insert differs from the newest row, which is
what coalescing rests on; `RowsAgree` carries it along the log. A rollback is stated by the positions it keeps (`Undone`), so that
`UndoneFacts` can prove that it takes away the rows of the failed flush and no others; `NoRowIsOrphaned`, which is only proved, rests on it.

`PlayEvents_proofs` proves, from `PlayAssumption` alone, for any sessions, handler runs and flush window:

| Theorem | Statement |
|---|---|
| `TypeCorrect` | `Spec => []TypeOK` |
| `NothingIsDropped` | `Spec => []NothingDropped` |
| `RowsGrow` | `Spec => RowsOnlyGrow` |

The handler decides and answers in different steps, and the player deletes when the answer arrives, so `NothingDropped` needs
`AnswersAreTrue`: a run that is about to answer ok answers for an event that is `Done` already, and `Done` is
stable because rows only grow (`RowsGrow`, only proved: TLC finds a row that loses its end as an event that was dropped). `StoredOnce` says that an event is queued once (the table's primary key), so that the deletion takes
away no other.

`ActivityChain_proofs` proves, from `ChainAssumption` alone (the bounds are naturals, and there are ids for the
legacy rows), for any number of concurrent transactions, rows and faults:

| Theorem | Statement |
|---|---|
| `TypeCorrect` | `Spec => []TypeOK` |
| `OneChain` | `Spec => []ChainIntact` |
| `CheckpointIsTold` | `Spec => []CheckpointTold` |
| `PruneKeepsWindow` | `Spec => WindowKept` |
| `QuietVerifierIsRight` | `Spec => []QuietVerifyPasses` |
| `VerifierIsRight` | `Spec => []AppendsBreakNoLink` |

`ChainIntact` speaks of what is committed and the next commit is prepared in `work[w]`, so it is not inductive.
`Prepared` says the same (`Sound`) of the tables as the transaction would leave them; `Exclusive`, the row lock,
makes that statement stable: nobody else changes the tables before the commit, which then has nothing left to
prove. `Committed` is what holds of the tables during a backfill as well: the chained rows are a prefix in id
order, and the rows are fewer than the ids handed out, which bounds the counts. `Walk` says how far the verifier
is: its expected hash is the row under its cursor, so the next row names it as long as only appends commit. The
counting facts come from `FiniteSetTheorems`. TLC checked `IInv` as an invariant of the `activity_chain`
configuration before it was proved.

`Membership_proofs` proves, for any users, groups and number of concurrent requests, from
`GroupsAssumption` and `RowAssumption` (each workspace has an organization, each organization a primary owner; the three
kinds of names differ; users and workspaces are finite):

| Theorem | Statement |
|---|---|
| `AdminIsPresent` | `Spec => []AdminPresent` |
| `FirstBecomesAdmin` | `Spec => OnlyFirstIsAdmin` |
| `TypeIsOK` | `Spec => []TypeOK` |
| `LastTopIsKept` | `Spec => LastTopKept` |
| `ManualIsKept` | `Spec => ManualKept` |

None of them follows from the guards alone, because a guard looks at what the request *read*. `Counted` says that who was
counted under the platform lock is still there: every step that takes an administrator away, or lets the first account in, holds the
same lock (`Exclusive`), and all the others only add (`Growing`). It needs a set rather than a number, so that a reactivation in
between, which takes no platform lock, does not matter. `Frozen` says the same for groups: what a request read of the rows it
locked is what they still say, because every step that changes a row of a group meets no lock on it
(`ChangesMeetNoLock`, with one lemma per kind of request). `LastTopKept` then has to look at each action that can take a top role away, and
its exceptions are exactly the places where the code takes no lock or none in time.

`TypeOK` says more than types: no group that is gone has members, and nobody without an account is active, a member or a
sender of invitations (`References`). What a deletion takes along keeps this, and the
proof has to show that every way a row can come about (a sign-up, an accepted invitation, a sync, a created group) fills in a user and a
group that exist at that moment, whatever was deleted since the request read them. `Complete` is what a request carries
for that from one stage to the next; it is preserved by every stage but must be stated, as `TypeOK` alone is not inductive.

`Outages_proofs` proves, for any retentions, cap and threshold, any moments the recorder's runs come at and any number of overlapping runs of the job,
from `OutagesAssumption` alone (the settings and bounds are naturals, the cap is positive):

| Theorem | Statement |
|---|---|
| `TypeIsOK` | `Spec => []TypeOK` |
| `HistoryIsSound` | `Spec => []HistorySound` |
| `NoOutageSlips` | `Spec => []NothingSlips` |
| `MailedOnce` | `Spec => []OneMail` |

What a run looks at is a tail of the rows in the order of time (`Ordered`, `WindowFacts`), and that is why it matters that both ways of pruning take
away the oldest rows: a log with a hole between an offline and an online row would run two outages together. `EndFacts`: what the detector finds to be over ends at the first online
row after its start. `FirstOfOutage` goes back from its start, over rows that may be gone, to the first row of the outage, so it is the rest of an outage there
was (`DetectedIsReal`). `Claimed` is the argument for the mail: a run that is about to send holds a key that it alone inserted, and nothing was mailed under it.

`NothingSlips` is the converse: whatever was over and in reach when a run completed has a history row. `PrunedRows` says of each row that is gone that it was too old or
one too many, which only gets truer as time passes and rows come, so the first row of an outage in reach is still there, and `InReachIsDetected` finds the outage by the
detector's own rule and with its own start. `Inserts` then leaves a row with that start, and nothing but the history's prune takes it away: not a run that
fails, and not what the log loses later. The condition is one of the moment the run completes. It says nothing of an outage that no run finds in reach,
because the runs were too late or failed for too long, or because the device wrote `Cap` rows between two of them: with the defaults (500 rows, a run each 1800 s, a flush each
second) a flapping device can. Such an outage is lost, and so is one that lasts about as long as the log is kept (section 8).

`ReconnectGate_proofs` proves, for any windows, levels, load multipliers and number of disturbances, from `GateAssumption` alone
(sizes are naturals, those the code cannot set to 0 are positive, and the idle reset is longer than the window; that `BaseMax` is below `HardCeiling`
is not needed):

| Theorem | Statement |
|---|---|
| `TypeIsOK` | `Spec => []TypeOK` |
| `CeilingIsKept` | `Spec => []CeilingKept` |
| `HealthyIsNeverFlagged` | `Spec => HealthyNeverFlagged` |

The code counts the hits of a window; the model counts the same as a set of single hits (`Each`), because a sum over a function is a fold,
about which nothing can be proved here. A hit is then one element more (`HitIsOneMore`), the passing of time an injection into the hits there were
(`OlderIsNoMore`), and fewer hits at every age a subset (`FewerIsLess`). `CeilingKept` is about a history that the code does not have. `Counted` ties it to
the bucket: everyone let in is still among the throttle's hits, and as long as one of them is inside the window the bucket has been seen too
lately for the idle reset to forget it. This is where the reset longer than the window matters: with a shorter one the ceiling could be
passed. That the backoff is a natural number needs that a power of two is one, which the library gives as the size of a power set.

`HealthyNeverFlagged` is about steps: a level that was 0, or that the idle reset has made 0, becomes positive only by attempts in excess. The attempt
that meets a running backoff is turned away whatever its count, so the theorem rests on the part of `TypeOK` that is no type: a backoff runs only at a level. For the passing
of time it rests on idleness only growing, so that a level the reset has forgotten does not come back.

TLC checked each of these invariants in the run's configuration before it was proved.

Only model-checked: the liveness properties, which are out of the prover's reach as `ENABLED` is: `EventuallyOffline` and `EventuallyOnline`,
`EndEventuallySaved`, `EventuallyCurrent`, `RecoveredTicketResolved` and `EventuallyAdmitted`. Every invariant and every action property that a
passing run checks is the statement of a theorem.

## 8. Where the code and its comments disagree

One of them is a run that TLC must find violated; `PROJECT.json` quotes the comment.

| Run | What happens |
|---|---|
| `outage_unrecorded` | An outage that lasts about as long as `statusLogRetentionDays` never reaches `outage_history`: while it lasts it is not recorded, and when it ends the row that began it is gone. |

The others are stated in the modules and are not invariants: putting one in a
configuration gives its counterexample. No run is kept for them.

| Definition | Code | What happens |
|---|---|---|
| `DeviceSession!EvictionKeepsDeviceLive` | `deviceSocket.js:567` | A register handler whose socket closed during its awaits evicts the live incumbent and leaves nobody. |
| `DeviceSession!EvictedDrained` | `deviceSocket.js:554`, against :39 | The settle refusal marks a socket as evicted whose disconnect handler may already have run: the mark is never consumed. |
| `DeviceSession!ReclaimSparesLive` | `deviceSocket.js:424`, against :385-386 | The reclaim's liveness gate is read before the token UPDATE and used after it; a session that registers in between is evicted. |
| `DeviceSession!TimeoutLoggedOnlyWhenGone` | `heartbeat.js:92`, against :69-73 | The sweep re-checks, awaits `deviceRoom` and then records 'offline_timeout' for a device that may be back. |
| `DeviceSession!MapIsLive` | `heartbeat.js:159`, against :155-156 | The connected count is the size of the map, which keeps entries of closed sockets during the grace window. |
| `StatusLogWriter!RemembersRows` | `status-log-writer.js` (`lastWritten`) | `lastWritten` is not put back when the transaction rolls back; the next equal transition is skipped too. Nor is it cleared when the sweep takes the row it stands for. |
| (guard `disturbed` of `NetStateLogged`) | `status-log-writer.js:80`, against :33 | Two flushes overlap; the older INSERT lands last and the newest row is not the newest transition. |
| `CommandQueue!LastOfTypeWins` | `command-queue.js:96`, against :17-18 | A queued command is emitted after a newer live one of its type, because the flush awaits with the device in its room. |
| `CommandQueue!FlushDelivers` | `command-queue.js:103`, against :4-6 | A handler whose socket closed drains the queue into an empty room. |
| `PlayEvents!RemovedWhenSaved` | `deviceSocket.js:1005`, against `PlayEventQueue.kt:22` | A throttled live start is acknowledged and removed without a row. |
| `PlayEvents!RefusalLosesNothing` | play-event handler of `deviceSocket.js` | The retry after the foreign-key failure is throttled by the attempt it retries, and the event is acknowledged unsaved. |
| `PlayEvents!InsertsCapped` | `deviceSocket.js:1016`, against :46-47 | The throttle covers play_start only; a play_end inserts the row. |
| `PlaylistDelivery!RefreshNeverRegresses` | `WebSocketService.kt` (generations) | Two answers arrive in the order of their requests and carry versions in the opposite order. |
| `PlaylistDelivery!OneRefreshInFlight` | `WebSocketService.kt:264`, against :497 | The in-flight flag is cleared by payloads that answer nothing. |
| `ActivityChain!AlarmMeansTampering` | `activity-chain.js:320` and :415, against :432 | The verifier is not a transaction: an append that commits between its reads is reported as a count mismatch or a truncated head, a prune as a broken link. |
| `Membership!SharedOrgStays` | `user-deletion.js:143`, against :15-17 | Whether an organization is shared is read before the transaction; a member who is added in between goes with the organization. |

Noticed while modelling, outside what the properties say:

* `routes/workspaces.js:897-972`: a PATCH decides from the status it read whether to set or clear `resolved_at`; the sweep may
  have resolved the ticket in between.
* A ticket that a person took up and put back to 'open' is resolved by the sweep, against `sla-breach-ticket.js:31-32` ("it is theirs and
  the sweep never touches it again"): the rule looks at the current status.
* When the pruning takes the first of two offline rows of one outage, the outage has another start. It may get a second history row or a
  second mail; `HistorySound` allows the first, and `OneMail` counts by start, as the keys do.
* `pruneStatusLog` goes by age, the newest row of a device included: a device that keeps one state for longer than
  `statusLogRetentionDays` has no row left (`Prune` of `StatusLogWriter`).
* Two outages that begin in the same second share a history row, and the one the key refuses is not recorded (`Inserts` of `Outages`).
* A process that dies between claim and mail loses that mail, by design.
* With the flap limiter switched off (`FLAP_LIMITER_ENABLED=false`), a player that tries every 3 s renews its throttle backoff each time and
  is never let in. No client looks at `retry_after_ms`, although `docs/146-hardening-fallout.md:28-29` says "clients already handle it". `EventuallyAdmitted`
  holds because the flap limiter's cooldown plus the player's delay exceeds the longest backoff.

## 9. What is not modelled

* `DeviceSession`: the pairing-code path, the limiters in front of the handler, wall re-election, the
  maintenance work on the same timer, and the events to dashboards. A socket belongs to one device; tokens
  are "accepted" or "refused".
* `PlayEvents`: players without session ids, the web player's in-memory fallback, the prune of `play_logs`,
  and the refusal of an event from a socket that is not authenticated (the event stays queued).
* `ActivityChain`: the ranged verification, the recomputation of a hash (nothing in the program edits a hashed
  field), `drainActivity` at shutdown, and the order of the chain lock with the other locks of a caller's transaction.
* `PlaylistDelivery`: the suspended-device payload, and a restart of the player's process.
* `Membership`: passwords, tokens, TOTP and the exchange with identity providers; resources of a deleted organization; audit rows (whose
  failure is a `RollBack`); three levels of workspace roles, of which the guards tell the top one apart. A member that SCIM creates gets the low
  role of the organization, where `scim.js:62-65` lets the tenant configure `org_owner`: one more top member, which the group properties do not mind.
* `Outages`: a row is in the log from the second it is stamped with (how it gets there is `StatusLogWriter`); a completed run of the recorder reads and writes at one
  moment; the sweep removes oldest rows first, while the code, when more than `statusLogPruneBatch` rows are beyond the cap, deletes the newest of
  those first and has a hole in the log between two batches; the deletion of the device; the cause of an outage, `resolved_at`, `ticket-escalation.js` (which claims and sends the way the alerts do), and
  the read of what is known before an insert, whose result the unique keys repeat.
* `ReconnectGate`: the refusal of a duplicate during the settle hold and the reclaim by fingerprint, which does not pass the throttle (both in
  `DeviceSession`, without the limiters); the bucket the flap limiter keeps for connections without any identity, and the measurement behind the load bands.
* Everything with status `not_modelled` in `PROJECT.json`, with its reason there.

## 10. Plan

In order of importance; each with its MC configuration, mutants and, where named, proofs.

1. *Done*: device session with its abstract specification and proofs; status log, command queue and
   proof of play with proofs; playlist delivery with proofs; activity chain with proofs; membership with proofs; outages with proofs; flap limiter and
   reconnect throttle in front of a player.
2. Provisioning: first contact, pairing codes, the two reclaims of one fingerprint, the prune of unpaired rows
   against a pairing that is under way. Abstract specification: a device has at most one valid token, and the
   player that was told last holds it.
3. The limits that are left: OTA breaker with its half-open state, content-ack limiter, loop-lag valve and lockouts.
4. WallLeader on top of the device session: two elections with two orders, one leader in the end.
5. Scheduler: overrides in memory, restart, and the agreement of `schedule-eval.js` with `ScheduleEval.kt` as pure
   functions checked against each other over a bounded week.
6. Usage accrual and the prunes on the heartbeat's timer; ticket escalation.
7. Playlists: publish and draft marker. The update of the Android application.
8. Proofs: that quiet windows lower the level of the throttle and never raise it.

A small component shares a run with the one it interacts with, so that each run asks one question of the
system rather than of one file.
