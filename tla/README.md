# A TLA+ model of the rbph website backend

`src/` is the backend of a website for puzzle hunts: a Rust server (actix-web, sqlx on PostgreSQL, Redis) of which several
processes may run behind one balancer. Teams of players submit answers, which are judged by rules or by JavaScript
"puzzle backends", unlock further puzzles, earn and spend a currency, buy hints, and appear on a leaderboard;
administrators schedule releases and switch features; clients listen on WebSockets.

Nothing is kept in a process that has to survive it: correctness lives in row locks, advisory locks, unique indexes,
Redis scripts and timers, and in what a handler does *between* the statements. That is what this project models:
each module cuts the handlers into the steps at which another process, request or failure can come in between.

1. [The parts](#1-the-parts) lists the components and how they interact.
2. [The modules](#2-the-modules) says which module models which part, and how.
3. [The runs](#3-the-runs) gives the instances that TLC checks, the bounds and the fairness.
4. [The proofs](#4-the-proofs) says what holds for every value of the constants and why.
5. [A divergence](#5-a-divergence) describes what the code does differently from what a test says of it.
6. [What is left](#6-what-is-left) lists what is not modelled, and the plan.

`PROJECT.json` holds the same inventory for tools: components, runs, the mutation that every property detects, the
source lines of every definition, the hazards and the theorems.

---

## 1. The parts

| Part | State | Operations | Modelled by |
|---|---|---|---|
| **Cluster membership** `module/cluster.rs`, `middleware/cluster.rs`, `main.rs` | `rb_cluster`, `rb_cluster_instance`, the schema version, the advisory lock "deployment gate"; per process: readiness, time of the last renewal | start-up (gate, schema, migration, registration), renewal loop, readiness, graceful and forced shutdown, crash | `ClusterLease` |
| **Puzzle progress** `db/puzzle.rs`, `db/content.rs` | per team: `rb_puzzle_state`, submissions, triggers, hints, blocks, dirty flag, started/finished, the currency row | submit, backend solve and add, purchase hint, unlock pass, view content, administrative reset and check | `PuzzleProgress` |
| **Puzzle backends** `db/puzzle_backend.rs`, `module/puzzle_backend_js/` | versioned keys with expiry, documents; connections of the pool | calls through the API and by the judge: get, set, increment, setIfAbsent, compare-and-set, delete, insert, emit | `PuzzleBackend`; what a call may do to progress is in `PuzzleProgress`, to currency in `Currency` |
| **Judge and gate expressions** `expr/` | two caches per process | parse, compile, evaluate, cache | `GateExpr`, `ExprCache` |
| **Team membership** `db/team.rs`, `api/team.rs`, `api/admin/team.rs` | `rb_team`, `rb_team_member`, names, passwords, bans, locks | create, join, leave, rename, kick, promote, disband, start, every administrative form | `TeamMembership` |
| **Team currency** `db/team.rs`, `db/feature.rs`, `db/game.rs` | amount, `utime_at`, growth, ceiling, feature state | settle, charge, reward, adjust, purchase, penalty, open, close, new growth | `Currency`, which implements `Wallet` |
| **Tickets** `db/ticket.rs`, `api/ticket.rs` | tickets, messages, assignment | open, send, take, give back, close, close on a solution, direct message, buy and unlock a message | `Tickets` |
| **Leaderboard** `db/board.rs`, `module/leaderboard.rs` | dirty marks with revisions, `full_rebuild`, `next_version`, frozen rows; snapshots and `latest` in Redis; a cache per process | mark a team or the game, freeze, thaw, refresh under an advisory lock, cold rebuild, read | `Leaderboard` |
| **Sync hub** `module/sync.rs`, `api/sync.rs` | Redis: a lease per connection and a sorted set per user; per process: the maps `users` and `connections`, the bus subscription, the limit | connect, evict, publish, close, renew, new limit, bus outage, shutdown | `SyncHub` |
| **Releases and features** `module/release.rs`, `db/release.rs`, `db/feature.rs`, `api/admin/{release,feature}.rs` | phases, their feature changes, events and `notified_at`; features, their source phase and history; an advisory lock per game | make, edit and delete a phase, immediate release, the pass, set a feature by hand | `Release` |
| **Asset uploads** `api/admin/asset_upload.rs`, `module/storage/direct.rs` | `rb_asset_upload`, an advisory lock per session, multipart uploads and objects of the store | create, sign a part, list, complete a file, complete, cancel, register, clean up | `AssetUpload` |
| **Asset groups** `api/admin/asset.rs`, `db/asset.rs`, `module/storage.rs` | rows of files, objects, the summary of the group | rename and move a file, rename and delete a folder, delete a file, delete the group | `AssetGroup` |
| **Frontend packages** `db/frontend.rs`, `api/admin/frontend.rs` | revisions, packages, bindings, features; the renderer in Redis | upload, bind, switch a feature, configure, delete, restore, publish, resolve | `Frontend` |
| **System settings** `db/system_settings.rs`, `module/system_settings.rs` | one row; a copy in every process | update, publish, subscribe, reconcile | `SystemSettings` |
| **Accounts and sessions** `db/user.rs`, `api/auth.rs`, `api/admin/user.rs`, `module/session.rs`, `middleware/privilege.rs` | `rb_user`; Redis: pending registrations, the list of sessions of a user | register, verify; log in and out, list and end sessions, change roles, temporary passwords | `Registration`; `Accounts` |
| **Notifications** `db/notification.rs` | rows that are read or marked as read | single idempotent statements | no |
| **Announcements, event log** `db/anmt.rs`, `db/event_log.rs` | append-only rows | insert in the caller's transaction, list | no |
| **Rounds, games, content administration** `db/{round,game,content}.rs`, `api/admin/` | configuration rows | forms and queries | no |
| **Middleware** `middleware/` | none | CORS, privilege, maintenance | readiness in `ClusterLease`, roles in `Accounts` |
| **Set-up and conversions** `config.rs`, `error.rs`, `kv.rs`, ... | none | parsing and formatting | no |

### How they interact

* *Start and stop of a process.* `main` registers the process (cluster membership), then starts the hub, the
  leaderboard scheduler, the release scheduler, the upload worker and the two tasks of the settings, and serves. When the lease is lost, readiness goes first, requests in
  progress are given `HTTP_SHUTDOWN_TIMEOUT_SECONDS`, the hub drains, and the process ends.
* *Progress to leaderboard.* A handler commits a change of a team and then calls `mark_dirty`: two transactions,
  with a failure possible between them. The refresh runs elsewhere, at another time.
* *Progress to backends and tickets.* A custom judge runs JavaScript inside the transaction of a submission, on its connection, and takes
  further connections to load the backend and to log. A submission that solves closes the ticket about its puzzle, which it locks after the team.
* *Release to everything.* A pass changes features (which freeze or thaw the leaderboard and open or close the
  currency), flags the content of all teams as dirty, refreshes their hints and tells the clients through the hub.
  Each of these is a call of its own; only `notified_at` says that all of them were made.
* *Content.* An unlock pass, a trigger and an administrator set `content_blocks_dirty`; the next request of the team that
  looks at content recomputes the blocks under the team's row lock and clears it.
* *Handlers among themselves* share the `rb_game`, `rb_team`, `rb_team_currency` and `rb_ticket` rows: FOR UPDATE, and the implicit key-share lock of
  foreign keys. They take them in different orders, so PostgreSQL may have to break a deadlock, and share the connections of one pool.
* *Processes among themselves* share only PostgreSQL and Redis: advisory locks, four Lua scripts of the hub, each one atomic, and a lossy publish/subscribe bus.
* *Rows and objects* of assets change one after the other; the store knows nothing of transactions.

### What is hard in it, and what correctness means

| Part | Hard | Correct when |
|---|---|---|
| Cluster membership | a renewal is cancelled by its timeout while its UPDATE goes on; builds that start together; processes that die with live rows | whoever works has a live lease and sees its own schema; a dead lease never comes back; nothing of a process that went wrong blocks the next deployment |
| Puzzle progress | an unlock pass reads the gate state in three statements outside a transaction, while others solve or reset; a balance read before and spent after a call of seconds; two row locks in two orders | a puzzle opens only while its condition holds; one whose condition holds opens or some running request will open it; the limit of submissions is exact; no overdraft; content that is not marked stale is not stale |
| Puzzle backends | writes of a judge inside a transaction that may be aborted; errors the function catches; versions that start again; waits for rows and for the pool | what a judge wrote and emitted is seen if and only if its submission is committed; a compare-and-set replaces what its caller read; nobody is stuck |
| Expressions | simplification while compiling; shared caches filled under no lock | a condition means what its text says, errors included; the caches keep their bound |
| Team membership | checks and writes in separate statements, two row locks in two orders, a second connection inside a transaction | checks still hold when it is written; one captain; names are unique; every call ends |
| Team currency | growth settled lazily, by the time a transaction *began*; saturating and checked 64-bit arithmetic | growth is worth the open time, but for the named cases; what the team is shown behaves like a wallet |
| Tickets | limits counted before inserting; assignment checked before answering; team and ticket, team and currency locked in two orders | limits hold; what costs is paid once and read only when paid; the staff does not talk over each other |
| Leaderboard | revisions are drawn before they are committed; marks that arrive during a refresh; a cancelled reader leaves the advisory lock with a pooled session; Redis or the process fails half-way | one version names one board; the published board never goes back; it is current, or there is a mark that will make it so |
| Sync hub | a connection may be evicted before its task has begun to listen, or while it waits for its client to read; commands get lost; a process dies with leases; hubs learn of a limit at different times | the limit of connections per user is exact across hubs; whoever was evicted or cut off ends, once its client reads on; leases of the dead go |
| Releases | the advisory lock goes with its connection while the pass goes on; an error between two of the effects; an administrator changes the same feature; a phase is edited when it has just become due | features follow the schedule; what was set by hand stands; an event counts as notified only when all of it is done; and in the end it is |
| Assets | a commit without an answer, lost locks, requests that end anywhere; a store that is not transactional | what is registered is kept, what was cleaned has left nothing, every session is settled; a failure half-way is undone |
| Frontend | uploads replace packages in use; a cache that is cleared by name | published pages change only by publication and keep their files; the cache follows |
| Settings, registration | lost messages, late reads; keys written, deleted and expiring one after the other | every process comes to the row; as long as a link can be redeemed nobody is sent another for its address |
| Accounts and sessions | roles read before the handler acts; a list pushed and cut by two commands, under a setting that changes | one Root, and nobody else touches administrators; a list is as short as the last login asked |

---

## 2. The modules

| Module | Models | Run |
|---|---|---|
| `ClusterLease`, `ServicesProofs` | the membership of processes | `cluster` |
| `PuzzleProgress`, `PuzzleProgressProofs` | the progress of one team | `progress` |
| `Leaderboard`, `LeaderboardProofs` | the leaderboard of one game | `leaderboard` |
| `SyncHub`, `ServicesProofs` | the WebSocket hubs | `sync`, `sync_outage` |
| `Release`, `ReleaseProofs` | the releases and features of one game | `release` |
| `TeamMembership`, `TeamMembershipProofs` | the teams of one game and their members | `team` |
| `Currency`, `Wallet`, `CurrencyProofs` | one currency of one team, and what the team sees of it | `currency` |
| `Tickets`, `TicketsProofs` | the tickets of one team | `tickets` |
| `Frontend`, `FrontendProofs` | the theme packages of one game | `frontend` |
| `PuzzleBackend`, `ServicesProofs` | calls of backend functions on shared entries | `parts` |
| `Accounts`, `ServicesProofs` | accounts, roles and sessions | `parts` |
| `AssetGroup`, `FrontendProofs` | the files of one asset group | `parts` |
| `GateExpr`, `ExprCache` | the language of conditions; the caches of compiled ones | `parts` |
| `AssetUpload`, `ServicesProofs` | one direct upload | `services` |
| `SystemSettings`, `ServicesProofs` | the settings of all processes | `services` |
| `Registration`, `ServicesProofs` | pending registrations | `services` |

`MCAllParts` and `MCServices` put several parts that share no state side by side: a variable (`moving`, `part`) says which of them a behaviour belongs to,
and each is an INSTANCE of its module. `MCParts` has those of the parts that are proved about, with what is to hold of them; `MCAllParts` extends it by the conditions,
whose operators are recursive, and by the backends with fewer connections. `MCSyncHub` is an INSTANCE as well; the other `MC` modules extend the module they check.
`ServicesProofs` proves about the parts that serve the whole installation, and `FrontendProofs` about asset groups next to theme packages, as these modules instantiate them.

In all modules: VARIABLES are the rows, keys and locals that the properties tell apart; an action is the code from one
point where others may come in to the next; a counter is bounded by a constant named in the module (`MaxVersion`,
`MaxFaults`, `MaxEvents`, `MaxTime`, `MaxSubmit`, ...); a variable described as HISTORY is read by properties, never by a
guard (a fault counter's bound excepted). Operators such as `JudgeErrorLeaks` or `ReadOnMessage`, in front of the definition they resemble, are plausible
mistakes (a dropped guard, a swapped order, a missing reset): no specification uses them, and each stands for the
definition after it to see that a property notices.

### ClusterLease

`pc[i]` follows a process through `main` and `ClusterInstance::start`: `Boot`, `AcquireGate`, `InspectSchema` (any live row
refuses a migration), `Migrate`, `RegisterFirst`/`RegisterNext` (`joinable`: fingerprint, generation, mode), `ReleaseGate` on every
path. The renewal loop is `StartRenew`, `ApplyRenew` (the UPDATE takes effect in the database), `RenewOk`, `RenewGone`, `RenewFail`
(a timeout or an error). A cancelled UPDATE may still be executed: `ApplyOrphan`. `Admit`/`Respond` are a request behind the
readiness middleware; `Terminate`, `Stop`, `Exit` and `Crash` the ends of a process. `Tick` passes a unit of time.

* An element of `Instance` is one run of a program, since `instance_id` is a fresh UUID: a restart is another element.
* `lease[i]` is what is left of the row's `expires_at`; expired and deleted are both 0, which no statement tells apart.
* The relations between the durations are `TimingAssumption`; 60, 15, 3, 3, 30 and 10 seconds of the code meet it.
* A process's clock and that of the database run at one rate.
* A process that has lost its lease stops to admit requests at once (`MarkLost`), but `main` waits for that only when it serves (`main.rs:346`): start-up code between the membership task (`main.rs:72`) and there, such as
  the pass over due releases (`main.rs:205`), runs on after the loss and is not work in the sense of `WorkUnderLease`. What such a pass does is in `Release`, which needs no lease.

### PuzzleProgress

`req[r]` is a call of a handler with its locals; `lock` and `purse` are the locked `rb_team` and `rb_team_currency` rows.
`SubmitLock`, `SubmitCheck`, `SubmitCommit`/`JudgeError` are `submit_answer`; `BackendAdd` and `BackendSolve` what a puzzle
backend may do to progress; `PurchaseRead`, `PurchaseCharge`, `PurchaseGrant` are `purchase_hint`, with
the backend's function between the first two. The unlock pass `unlock_new_puzzles` is `ReadOpened`, `ReadSolved`,
`ReadTriggers`, `CheckTriggers`, `CheckCandidates`, `InsertUnlocked`, `MarkDirty`: each a statement outside a transaction. An
INSERT that references a locked `rb_team` row waits for it. `Fail` is a failed statement or a lost process at any
step, `Deadlock` PostgreSQL ending a transaction of a cycle.

* Conditions are the sets of gate states in which they hold; a verdict is any of `Rules[p, a]`. How conditions
  are compiled and evaluated is in `GateExpr`. (The rules of a puzzle are judged inline in `submit_answer`; `judge_by_rules` of `game/judge.rs` has no caller.)
* `Monotone` conditions (without `Not`) are those of which completeness can be said at all.
* Of what `Due` says of a block, its condition and its puzzle are modelled; `release_at <= NOW()` and the blocks of rounds (`content.rs:501`) are not.
* `is_locked`, which `StartGame` sets on the team, the feature locks `StartGame` takes, tickets that close on a solve, the event log
  and the call of the leaderboard are left out: they write other tables (`Leaderboard`, `TeamMembership`, `Tickets`).

### Leaderboard

`Change` is a call that commits a change (`ChangeTeam`, `RemoveTeam`, `Freeze`, `Thaw`) and marks it: a revision is drawn and committed by
two steps. A refresh goes through `pc`: read the maximal revision, draw the version, read the flag and the rows, the
state of the lock, store the snapshot, set `latest`, update the cache, delete the marks up to that revision, clear the
flag, unlock. A reader with no snapshot rebuilds under the same lock, polls when it does not get it, and uses the
cache of its process when Redis fails.

* What the board shows of a team is a number that every change increases: the ranking of the rows is left out. The rows of a frozen board join the present name, ban and members of the team in the code;
  `frozen` keeps the number as a whole.
* The session that holds the lock ends with its process, or (`Recycle`) when the pool closes an idle or an old connection,
  which is sqlx's default.
* `made` is the history of all snapshots; the expiry of the `snapshot:<version>` keys is abstracted by it.

### SyncHub

A connection `c` goes through `phase[c]`: `create_ws` sees the hub ready, the Lua script registers (and evicts the
oldest), the handle goes into `users` and `connections`, the task is spawned, begins to run, and ends in three steps
(handle, user's entry, lease). `roster` and `lease` are Redis. `closing` is a close request that a task will see:
`close()` before the task has subscribed is missed, as `watch::Sender::subscribe` takes the present value for seen.
A task awaits what it writes inside the arm of its `select!`, on a channel that is full when the client does not read, and looks at no close request meanwhile: `Send` and `Sent`, for the clients in `Slow`.
`Disconnect` and `MarkUnavailable` are the outage of a bus, `Renew` the renewal every 20 seconds, `ApplyLimit`/`Trim` a new
limit, `Stop`/`Exit` the shutdown.

* Contents and recipients of messages are left out; that a queue is full is not.
* The Lua scripts are atomic. Steps with no await between them are merged (subscribing and `ready`; the insertion into the two maps).
* A roster is a sorted set: `score[c]` is the place of an entry (0: none), in the order of registration. Two entries with one score are left out, as the scores are the microseconds
  of Redis's clock, which is taken not to go back.
* A command for a connection that is no longer at its hub does nothing and is dropped.

### Release

`phase` is `rb_release_phase` with its feature changes, `id`/`notified` are `rb_release_event`. A worker (the scheduler of a process, or an
administrator's request to set a feature, which makes a pass first) takes the advisory lock (`Start`), materializes due
phases, lists the events that are not notified, and for each one (`NextEvent`) applies the changes (`ReadChanges`, `CheckHistory`, `LockFeature`, `Commit`:
history check, FOR UPDATE on the feature, writes visible at commit; `Refused` are the unique index
`(phase_id, feature_type)` and the foreign keys), marks the leaderboard, flags content, refreshes hints, tells the clients, and sets
`notified_at`. `Fail` ends a pass at any statement; `LoseLock` ends the connection that holds the lock while the pass
goes on with others. Editors create, edit (check, then write) and delete phases; immediate releases draw their id
before they commit.

* A feature is open or closed (for the leaderboard live or locked; `ExistingOnly` of tickets is left out).
* Ids burned by `ON CONFLICT` are left out: only their order matters.
* `late` are the phases written at or after their own time. The code applies what it finds of them, or nothing; the
  properties about order exempt exactly those.
* `sync_events`, `next_delay`, the growth of currency at its feature's change (`Currency`) and the rows that a freeze copies (`Leaderboard`) are left out.

### TeamMembership

A call goes through `call[c].pc`, from statement to statement: a connection of the pool, `LockGame` (`lock_duplicate_name_policy_conn`), the row of the team, its checks, its writes.
What a transaction writes is seen when it commits, so that its last write and its commit are one step. `join` asks for a *second* connection
while it holds one and the row (`PoolTimeout` is the end of that wait), and a statement that references a locked `rb_game` or `rb_team` row waits for it
(`Deadlock`: PostgreSQL ends one of a cycle). A promotion updates the rows of its snapshot when it gets to them.

* Exempted by name: a member who joins between the snapshot of a promotion and its write may leave two captains (`raced`); `disband` reads that the team is
  not locked and deletes it in a second statement, so that a game started in between loses its team.
* Names are those normalized by the code; the staff may give any name (`byStaff`). The deletion of a member by the staff and the choice of an heir are one step.
* Lists and the event log are left out, and what the form of the staff does to features and currency.

### Currency and Wallet

The row holds an amount and the time at which it was right. `Begin` fixes `NOW()`, the begin of the transaction, before the row's lock is had: `LockRuntime`,
`LockPurchase`, `LockFeature` then settle up to *that* time, which may lie before `utime_at`. `Cost`, `Add`, `Update`, `Adjust`, `Purchase`, `Penalty`, `Toggle` and `ChangeGrowth` are the
writers; sums are `MinInt..MaxInt`, saturating or checked as in the code.

* `Wallet` is the abstract specification: a balance that grows by itself while open, and is spent, added to or set. `Shown` maps `Current(now)`, what
  the team is shown, to its balance. `ShownWallet` says that every step of the row is a step of the wallet or a stutter: no spending beyond what is shown, no debt by spending,
  no growth while closed, nothing lost at opening or closing but a minute that has begun.
* The growth that the code gives beyond the open time is counted in two history variables and exempted by name: purchases and penalties settle whatever the state
  of the feature (`spilled`), and a transaction that waited sets `utime_at` back (`back`).

### Tickets

`Call` is a connection that serves one request after the other; `teamLock`, `ticketLock` and `messageLock` are the FOR UPDATEs. `Desk` are the single statements of the staff: taking a
ticket and giving it back; and the time that passes for a message. A submission that solves (`solve`) holds the team and wants the ticket; an answer holds the ticket and inserts a notification that waits for
the team (`MeetAtTicket`). A submission also locks the currency that its puzzle requires or a wrong answer costs (`SolvePay`); a purchase locks it (`BuyPay`) and then logs an event, which waits for the team
(`MeetAtCurrency`). PostgreSQL ends one of the two in both cases (`Deadlock`), and `SomeoneMoves` says that two requests wait for each other in no other.

* `DmLimit` is 3 in the code and 1 in the instance. What release, cooldown and feature say of a request is an input.
* The event of a purchase names the ticket as well. A purchase that waits for a ticket whose holder waits for the team, which a submission holds that waits for the purchase's currency, is a cycle of three: PostgreSQL ends
  it like the others, but it takes three requests, and neither the runs nor `SomeoneMoves` speak of it.
* What a team has in its currency is an input of the two payments; the amounts are in `Currency`.
* Members of the team in the model are not on the staff. A message may land in a ticket that was closed after the middleware looked; a deleted currency leaves a message that costs unreadable.

### Frontend

A revision is a draft or published; `binding` and `active` are its pages and features, `package` the rows, `stored` the groups of files, `cache` the resolved renderer. Registration
and publication are one step each, as their row locks make them; a deletion asks and deletes in two; a publication clears the cache afterwards, key by key (`CleanNext`), and may stop before it has.

* Exempted by name: a request that read a draft which was published before it writes; a deletion that asked before a publication; the late answer of a reader; a publication that
  stops before it clears the cache.
* Previews of drafts and their cache are left out; the two statements of `save_feature_activation` are one step.

### PuzzleBackend

An `Execution` is one call of a function: any sequence of host calls from its `Menu`, since the JavaScript is data. Through the API every call is a statement of its own on a connection of the pool; in
a judge all are statements of the submission's transaction: rows stay locked, `LockTimeout` is `SET LOCAL lock_timeout`, an error aborts the transaction although the function may catch it.
A statement that waits follows the row it found in its snapshot (`target`), so that one deleted and inserted anew is not changed. Which backend is found is any of none, disabled, enabled.

* Left out: executions by hint purchases, asset and store listings. Host calls on progress and currency are in `PuzzleProgress` and `Currency`.

### GateExpr and ExprCache

`Parse`, `Compile` and `Eval` follow `parser.rs`, `compiler.rs` and `types.rs`. `WellFormed` and `Means` (`ExprCache`) are the reference: they read the tree directly, without any simplification.
`ExprCache` adds the two caches with their read lock, the compilation under no lock, and the write lock with eviction in order of insertion.

* A text is a sequence of tokens; number widths and the spelling of trigger keys are left out. An unknown slug makes a set false or 0, and a puzzle named twice counts twice, as in the code.
* The round sets of content blocks include the round's own puzzle, those of gate states do not: both are inputs of the language.
* The operators are RECURSIVE and stay with TLC.

### AssetUpload and AssetGroup

`AssetUpload` is one session: a request holds `pg_try_advisory_lock(id)` on a connection of its own, reads the row once and writes back from that copy; the transaction
that registers runs on another connection (`rowLock`), so that its commit may be in flight when the lock is lost (`CommitFails`, `InFlight`, `LoseLock`). `multi` and `object` are the store. A worker on every
process registers what was confirmed and cleans what was cancelled or expired.
`AssetGroup` is one group, made by an upload through the process: a rename copies and deletes the object, then changes the row, and undoes what it did when the store refuses.

* Exempted in `AssetUpload`: a registration that took effect when somebody with the lock was about to write something else (`overtaken`), and what is left when a lock was lost (`lost`).
* Exempted in `AssetGroup`: the lost answer of a deletion that was executed, an error of the database after the renaming (an early return), a second failure while undoing, requests that meet on a path.
* Left out: the backends in the database or on a disk, empty files, signatures, theme locks, renaming of the group itself.

### SystemSettings, Registration, Accounts

In `SystemSettings` a stamp stands for the settings written with it; `Read`/`Apply` are `apply_latest_from_db`, on a message or every 30 seconds. Of two overlapping updates the one stored last may have
the earlier stamp, and a process that knows the other never adopts it: `overtaken`, exempted by name. A process that starts alone may write the row (`disable_unavailable_auth_features`), which it does not publish.

`Registration` has the two keys of a pending account, the token and the reservation of its address, written and deleted one after the other, each with the time it has left (`Tick`); administrators may make an account of
the address meanwhile, or take it from one (`freed`). Two requests for one address may pass the check together, so that there are two tokens and one reservation.

`Accounts` has roles, which the middleware reads (`Enter`) before the handler acts, and the lists of sessions, pushed and cut by two commands. `admin_update` reads the account FOR UPDATE and checks in one step
(`UpdateLook`) and writes in another (`UpdateUser`), while others wait for the row (`Free`). The setting `max_sessions` is read at each login: Root may lower it at any time, which trims connections but cuts no list, so that a
user keeps more sessions than the setting allows until their next login. `cap` is the setting that the last login has read, and `SessionsBounded` is about that one. The module meets `Registration` in
`Registered`, the insertion of an account.

* A demoted administrator still finishes a request on an account below administrators: `RolesGuarded` allows that, and nothing above.

* Left out: whether settings need a mail or captcha provider, counters of attempts, captchas, what a password is, profiles, logins that overlap the reset of a password.

---

## 3. The runs

| Run | Instance | States | Question |
|---|---|---|---|
| `cluster` | 2 processes, 2 fingerprints, versions 0..2, lease 5, timers and window 1; first deployment | 209,409 | does whoever works hold a live lease, on its own schema; and does neither a gate nor the row of a process that went wrong block the next deployment for ever? |
| `progress` | 2 requests, 2 puzzles, 2 answers, a trigger, a hint, a block; a new team and a team that plays | 45,995 | do unlocks, content, limits and payments survive every overlap and failure, and does every request end? |
| `leaderboard` | 1 team, 2 changes, a scheduler and a reader in 2 processes, one fault | 1,202,818 | is the board never older, is it current or marked, does every change reach it, also after a leaked lock or a dead process? |
| `sync` | 2 hubs, 1 user, 2 connections at one hub or at two, limits {1,2}, one event, one client that may stop to read | 86,414 | is the limit exact across the hubs, do the evicted and the cut off end, do leases go? |
| `sync_outage` | 3 connections | fails early | expected to fail, see section 5 |
| `release` | 2 phases, 2 features, time 0..2, one fault; two schedulers and an immediate release, or one with an admin, or one with an editor | 437,022 | do features follow the schedule, does what was set by hand stand, is what is notified complete, and is everything due announced and marked? |
| `team` | 4 users, 3 teams, 2 names, 2 passwords, a pool of 2; any two calls of 14 kinds, or a join and two that choose a captain | 221,594 | do the checks still hold when it is written, is there one captain, does every call end? |
| `currency` | 3 transactions of any kind (symmetric), a minute of 2 units, 4 units of time, numbers of 3 bits | 4,567,622 | is growth worth the open time, and does the row implement the wallet? |
| `tickets` | 2 requests at a time (symmetric), 2 of the staff, 2 tickets, 2 messages, one currency | 1,628,490 | do limits hold, is what costs paid once, does one voice answer, is there always somebody who can go on? |
| `frontend` | 2 admins who also read (symmetric), 2 package ids, 2 groups, 3 revisions | 575,875 | do published pages change by publication only, keep their files, and does the cache follow? |
| `parts` | 2 judges, or a judge and a call, 2 keys, a pool of 3; 2 judges and a pool of 2; 2 browsers, Root, an administrator and a third account, settings {1,2}; 2 requests, 2 files, 2 folders; 2 threads, caches of 2, 12,688 conditions; symmetry | 475,633 | are judges atomic and compare-and-set current, is nobody stuck, who makes administrators, are renames undone, do conditions mean what they say? |
| `services` | 1 request, 2 workers, 1 file, 2 days; 2 processes, 2 updates; 2 registrations of one address, 2 tokens of 2 ticks | 152,266 | are uploads kept, cleaned and settled, do settings converge, is the address of a link reserved? |

The properties, apart from the conjuncts that are type invariants. A name with parts groups statements about one component that one bug would break together:

* `WorkUnderLease`, `WorkOnOwnSchema`, `NothingStuck` = `GateReleased` and `LossEnds` (`ClusterLease`);
* `UnlockSound`, `UnlockComplete`, `ContentComplete`, `SubmitLimit`, `NoOverdraft`, `RequestsEnd` (`PuzzleProgress`);
* `BoardCurrent`, `NeverOlder`, `Converges` (`Leaderboard`);
* `HubsSound` (with `LimitExact`), `ConnectionsEnd` = `ForsakenEnds` (of what lost its lease or its bus) and `LeaseEnds`; `OutageCloses` (`SyncHub`); its type invariant also says what the phases mean for the shared maps;
* `InOrder`, `ManualStands`, `EventsSound` (with `NotifiedInFull`), `Completes` = `Announced` and `Marked` (`Release`);
* `RowsSound` (with `NamesUnique`, `OneCaptain`), `WritesSound` = `JoinAdmitted` and `StartedStays`, `CallsEnd` (`TeamMembership`);
* `GrowthSound` (with `GrowthBounded`), `ShownWallet` (`Currency`);
* `LimitsHold` (with `OneOpenTicket`, `PendingLimit`), `PaidToRead`, `OneVoice`, `SomeoneMoves` (`Tickets`);
* `PackagesSound` (with `FilesThere`), `CacheFresh`, `PublishedStands` (`Frontend`);
* `BackendSound` (with `JudgeAtomic`), `SomeoneMoves`, `CasCurrent` (`PuzzleBackend`); `AccountsSound` (with `OneRoot`, `SessionsBounded`, `RolesGuarded`); `FilesSound` (with `Intact`, `Tidy`);
  `ExpressionsSound` = `Faithful`, `CooldownSeen` and `CacheWhole`;
* `ServicesSound` (with `RegisteredKept`, `NothingLeft`), `Settled` (`AssetUpload`); `SettingsConverge` (`SystemSettings`); `LinksReserved` (`Registration`).

Many of them state their own limits, because the code has them; section 2 lists those of each module. Of the first five: `UnlockSound` allows an insert from a gate state that an
administrator reset meanwhile; `UnlockComplete` allows a request that failed between its commit and its pass (`missed`);
`BoardCurrent` names the two windows in which `mark_game_dirty` is cleared unseen; `Marked` exempts the pass that fails
between the commit of a freeze and its mark, which no later pass repeats. A limit is a name in the property, and what it leaves out is listed as a hazard.

### Why the bounds are enough

* *ClusterLease.* A lease of five units and timers of one keep the order of the real durations, so that a
  lost renewal, a retry, a shutdown and an expiry fit in one behaviour; two processes and two configurations give every
  pair of old and new, and nothing in the code involves three. The first process has the newest build and the schema starts at 0. The proofs lift these bounds, and state
  in addition what the run leaves out (`SameDeployment`, `NoResurrection`).
* *PuzzleProgress.* Races are between two requests. The limit is one
  submission, the currency 1 of at most 2, so the first extra one shows. The second puzzle needs a solve *and* a trigger or
  the start, which different requests provide. The proofs hold for any number.
* *Leaderboard.* Two marks, one of which commits later with the lower revision, or one of a team and one of the game;
  two builders, as the lock admits one and the other polls; one fault of each kind at each step. Rows of different teams do not meet.
* *SyncHub.* Two connections exceed a limit of one, and evict at the same hub or at another; one event is an outage, a process that ends or a
  new limit, at any step. One client, c1, may stop to read; where both connections are of one hub, the other hub has stopped.
* *Release.* Two phases are what an order needs; two schedulers overlap when one loses the lock; one fault is a failed
  statement or a lost lock at any step. Each phase has its time inside the clock's range, so that edits before,
  at and after it happen. `Without` chooses who takes part: a second scheduler, an admin or an editor meets the scheduler, never two of these.
* *TeamMembership.* The first team has two members and one place left, and two users have no team: two joins meet at the last place. Every pair of operations, and the three calls that can produce two captains. A pool of two is exhausted by two joins. `Ordered` and `Named` drop what only exchanges the names of two calls or of two users.
* *Currency.* Three transactions: one that waits, one that holds, one that toggles. A minute of two units has a fraction; sums reach both ends of the numbers, the ceiling and zero.
* *Tickets.* The limits are one, so that the second member shows. `Menus` are the pairs of requests that share a row, the currency's included. One message costs and waits.
* *Frontend.* Two uploads replace each other, and three revisions are one replaced, one published and a draft. `Alone`: on the third revision one admin works next to readers, two on the others.
* *MCAllParts.* In `backend` every function makes three calls at most on two keys, which is what a deadlock and a version that starts again need. Its pool of three is what lets two judges run
  at once, as each asks for a second connection when it looks its backend up: with two connections they would never come to want each other's rows. In `pool` there are two, so that
  they wait for connections instead. `sessions` has two browsers that log in as one user or as Root and a reset of a password between them, and two settings; a request is cut off only where no
  other browser has acted. In `administrators` Root and an administrator act on each other and on a third account, so that the one is demoted, or the other promoted, between the middleware and the handler; nobody logs in. `group` has one failed call, anywhere; after requests have met on a path no call fails and no other request begins. `expressions` has every nesting of depth two of the junctions over four leaves, one of every
  other form with malformed neighbours, and every sequence of up to six tokens; four texts are shared by the threads.
* *MCServices.* Two workers, since the lock lets one go on; a life of two days, since one passes before it; two faults, as a lost lock and a commit without an answer are one each. In the
  registration, keys live for two ticks, so that one written a tick after another outlives it, and two requests have one token each.

`CHECK_DEADLOCK FALSE` is in every configuration because in each of them the calls run out: all requests done, all
processes stopped, the clock at its end. Where waiting for each other is the question, `SomeoneMoves` or a liveness property asks it.

### Fairness

Each module states only what the code's scheduling gives:

* statements end, with an answer or an error (weak fairness of each worker's step); timers fire; time passes;
* PostgreSQL grants row and advisory locks in the order of the requests (strong fairness of taking one), looks for
  deadlocks (weak fairness of `Deadlock`) and ends a transaction whose client has gone (`InFlight`);
* loops run again: the leaderboard and release schedulers (the wake-up is at most 60 s), the renewals, the hub's
  subscriber that notices a broken stream, the reconciler of the settings (30 s), the upload worker (2 s), which finds the lock of a session free again and again (strong fairness of `TakeConfirming`, `TakeCleaning`);
  sqlx's pool closes idle and old connections (`Recycle`) and gives up waiting (`PoolTimeout`);
* a lease that no hub renews runs out, a stopping process exits, and is started again (`Boot` in `SystemSettings`).

* a task that comes back to its `select!` again and again takes a close request in the end, since `select!` looks at the arms that are ready in a random order (strong fairness of `Close`).

Nothing is assumed of clients, administrators and faults: they may or may not happen. A client that does not read keeps its task in `Send`, so that a close request need not be seen: `ForsakenEnds` therefore promises an
end only of connections whose client reads again and again, in its premise and not by fairness.

---

## 4. The proofs

Checked by TLAPS for every value of the constants that meets the modules' ASSUMEs.

### ServicesProofs: processes

`ServicesProofs` has the theorems of seven modules, one after the other; this section and the five after it follow its order.

The ASSUMEs are `TimingAssumption` and `ConstantAssumption`. The chain of lemmas, each an invariant that uses those before:

1. `TypeCorrect`.
2. `GateIsExclusive`: whoever is between the statements of the gate holds it. Thus start-ups are serial.
3. `RowsOnlyAfterJoin`: nobody has a live row before it registers, and there are none during a migration. The inspection
   under the gate found none, and while it holds the gate nobody else can insert one.
4. `SchemaFitsRows`: a live row's schema is the schema. A migration would need that there is none.
5. `AgeIsBounded`: the time since the last renewal is below window + retry + timeout while the process works, and within
   the shutdown budget when it drains.
6. `LeaseIsBounded`: lease + age covers `Lease - RenewTimeout`. The clause on an orphaned UPDATE is what makes
   it inductive: an UPDATE that outlives its cancellation only ever lengthens the lease.
7. Of 5, 6 and `TimingAssumption`: `WorksUnderLease`, that a process that works has a live lease. With 4 and 3:
   `WorksOnOwnSchema`. `OneDeployment` and `LeasesStayDead` (an action property) follow from the registration under the gate and from
   the renewal's guard.

None of the properties is inductive as it stands: a live lease says nothing of how long it will live, which is what the age
and the lease bounds add.

### ServicesProofs: uploads

From `ConstantAssumption` of `AssetUpload`, for any number of connections, workers, files and contents, and any number of faults. `UploadInv` has three parts, for the two exemptions of the properties:

1. `UploadTypes`, always.
2. `UploadCoherent`, until a registration has surprised somebody (`overtaken`). The row of a file is written in one order (`UploadWhole`); the copy of who holds the lock is what the row was when
   the lock was taken (`UploadCopy`); an object comes from the multipart upload that its row names, which is closed (`UploadOrigin`). `UploadVerified`: once a worker has compared the objects with
   the row, they stay so for as long as the session is `UploadAlive`, that is, waits for its worker or may be confirmed again. `RegisteredKept` is not inductive without it: the lock
   may be lost between the comparison and the commit, and the commit may take effect when nobody knows of it.
3. `UploadAlone`, while no lock was lost: who is at work has the lock, and when the objects are deleted no multipart upload is open. Hence `NothingLeft`.

A cleaning must not meet a registration: `UploadDoomed` says that a session which somebody has begun to clean cannot be revived, as it is cancelled, cleaned, or has expired, and the clock does not go back.
`UploadAdmissible(c, k)` is what a step must show of the call it leaves, and each step is a case of it. The theorems are `UploadTypeCorrect`, `UploadRegisteredKept`, `UploadNothingLeft`, and, with the types of the two
other services, `ServicesAreSound`.

### ServicesProofs: settings and registration

Of settings, the types (`SettingsInv`): a process that is at an update has its stamp; what they promise is liveness. `AccountInv` of registrations, from `RegistrationAssumption`, for any addresses, requests, tokens and lifetime:
the address of a link that was sent is reserved *for at least as long as its token has left*, or has its account, or was taken from one (`AccountReserved`). `LinksReserved` says only that it is reserved, which a tick
could end; the comparison of the two times is what `Tick` preserves. It holds before the mail goes out, too (`AccountCall`, of requests at `send`), as the reservation is written second; and a request that gives up the
address has made an account of it (`deleteEmail`). Hence `LinksStayReserved` (`LinksReserved`).

### ServicesProofs: hubs

From `ConstantAssumption` of `SyncHub`, for any number of hubs, users and connections, any limits, and any number of events. `HubsMaps`: what a hub lists is a connection that has come so far and has not left; a
lease is of a connection's own hub; and *every lease has a place in the sorted set of its user*. The last is what `LimitExact` needs: the Lua scripts count the entries of the set whose lease is there, the property
counts leases. Further, a connection that registers gets the highest score and the limit is positive, so that it is never among the oldest which the script evicts: `HubsRegisters`. `LimitIsExact` is then a
statement on cardinalities, for the two scripts: removing the oldest `n - m` of `n` leases leaves `m`, whatever dead entries the set has (`HubsExcess`). The sets are finite because a step adds at most one entry.

### ServicesProofs: backends of puzzles

For every `Backend!Spec`: any executions, judges, keys, menus of calls and numbers of connections, from `ConstantAssumption` of `PuzzleBackend`. `BkInv` is `BkAtomic` and `BkVersions`.

1. `BkLocks`, `BkWritten`: a locked row is locked by a judge at work; a row that nobody has locked is the committed one; and whoever wrote a row, or inserted it, has committed or holds it. What others see was
   therefore written by calls outside a judge or by judges that have committed: `JudgesAreAtomic` (`BackendSound`), with what is kept of the events and the documents.
2. `BkVersions`, for compare-and-set. A version is a number that starts again at 1 when the key is inserted anew, so that a number alone names nothing. The model keeps with each row who inserted it, by which call (`born`):
   `BkOlder` says of two versions of *one* entry that the numbers order them, `BkKnows` that what an execution has seen is no younger than what it would see now, `BkFresh` that no entry bears the mark of a call
   yet to come. Hence `CasIsCurrent` (`CasCurrent`): a statement that waited and follows its row finds this same entry, and with the number it asked for, this same version.

Every action is first shown to be one of thirteen kinds of step (`BkActs` and those beside it); the invariant is then proved for the kinds.

### ServicesProofs: accounts

For every `People!Spec`: any users, browsers and bounds, and a setting that is another at every login, from `ConstantAssumption` of `Accounts`, by which a user has at least one session (1 to 20 is what
`api/admin/system_settings.rs:47` accepts). `AcInv` has, besides types:

1. `AcRoot`: only Root's id has the role of Root.
2. `AcBounded`: a list which no login is about to cut has at most `cap` entries: of two logins that push at once each still has its cut before it, and whichever
   comes last leaves the list as short as the setting it read. A request that is cut off between the two commands is exempted, here as in the run. Lists that lose an entry are shortened by `RemoveFirst`, which the lemma
   `AcRemoves` describes by the least index (`AcLeast`).
3. `AcHolds`: a request that came in as Root's is of Root, whatever became of the others; an update about to be written (`AcMay`) is one that its user may make of the role which the account has *then*, since one
   request at a time holds the row (`AcWriting`). `RolesGuarded` is not inductive without it: the check is one step, the write another, and an account may be promoted in between.

`AcGuards` shows that each kind of step is one that `RolesGuarded` allows. The theorem is `AccountsAreSound` (`AccountsSound`), with `RolesGuarded` as an action property.

### LeaderboardProofs

From `ConstantAssumption`: `TypeCorrect` (with `Held`: who is in a phase of the refresh holds the advisory lock, and a snapshot
that is at hand was made), `VersionsInOrder` (what was made has a version at most `version`; what is being built or
published has exactly the last one), hence `VersionNamesSnapshot` (`PagesAgree`) and `PublishedInOrder` (`NeverOlder`): `publish_snapshot` overwrites `latest`
without comparing versions, and only the lock and the numbering make that safe.

`BoardAlwaysCurrent` (`BoardCurrent`): a team that the published board shows wrongly is marked, or will be. While a refresh runs this is not enough: a mark
may be there that the refresh is about to delete. `Pending(t, m)` is therefore a mark, present or owed by a call, with a revision *above m*, and `Covered(w)` says that whatever
worker `w` has in hand or has just published is right, or wrong in a team with a mark above the MAX(revision) that `w` read before it
read any row: such a mark survives `DeleteMarks`. `Known` is the property for everybody else, with m = 0. `Marks` says that revisions grow, and that only one call
at a time has drawn a revision for a team and not committed it. The argument rests on the order of two pairs of statements: the maximum is read before the
rows, and a call commits its change before it draws its revision. The two windows that the property names (`Forgets`, `lost`) are those in which it does not hold.

### PuzzleProgressProofs

From `ConstantAssumption`, and one more for the last theorem. All safety properties of the run `progress` are proved, for any number of
requests of one team, any puzzles, triggers, hints and blocks, and any conditions and rules.

1. `TypeCorrect`: with `Equipped`, that a request has at hand what its phase needs (a verdict when it judges, a hint when it pays).
2. `Holding`: who checks or judges an answer holds the team row; who grants a hint holds the currency row. `Funds` and `Within` say that what
   such a request found (enough funds; the limit not reached, no cooldown) is still so, since any other request that would
   spend, or record a failure, needs the same row. Hence `HintsPaid` (`NoOverdraft`) and `SubmissionsWithinLimit` (`SubmitLimit`).
3. `ContentIsComplete` (`ContentComplete`) is inductive by itself: whoever makes a block due marks the content in the same step,
   or is in phase `mark` after it; and from there it marks, or its failure is in `missed`.
4. `Fresh`: what a pass has read is still reached, unless it was marked `stale` by a reset. With `Monotone`, `UnlocksSound` (`UnlockSound`).
5. `Covered`: for *every* gate state that the team has reached, not only the present one, some running pass will have seen at
   least that much. `UnlockComplete` says this of the present state alone and is not inductive: a reset may take the team back to
   a state for which nobody was responsible. The passes of those who had solved are what remains. Hence `UnlocksComplete` (`UnlockComplete`).

`UnlocksComplete` assumes that no monotone condition holds of a team without any progress (`NothingYet`). The creation of a team opens only
puzzles without a condition (`init_team_puzzles_conn`, `db/team.rs:72`), so a condition that holds from the start is opened by the team's first pass,
and until then nobody is responsible for it. The conditions of the run meet the assumption.

### TicketsProofs

From `ConstantAssumption`, for any number of requests, staff, puzzles, tickets and messages. The one invariant, `IInv` (theorem
`Invariance`), has a part about the rows (`Rows`) and one about each request (`Fit`):

- `Shaped`: a request is about a ticket or a message that is there, and one that closes is of the staff.
- `Held`: after `lock`, an opening holds the row of the team, and a message or a closing the row of its ticket. The currency's lock is only typed: a payment leaves the rows and what others found (`PayKeeps`).
- `Found`: what a request found under that lock is still so. Before `OpenCommit` no ticket about a puzzle is open; before
  `SendCommit` a message of the team finds fewer than `Limit` unanswered ones, and one of the staff a ticket that nobody else has.

`OneOpenTicket`, `PendingLimit` and `PaidToRead` are not inductive without `Found`: each is established by a read some steps before
the write. The proof goes through `Keeps(d)`, what a step of another leaves to request `d`: its locks, the puzzle of every
ticket, and, of the tickets it has locked, the assignee and no more unanswered messages. `KeepsFit` shows that this suffices,
and each committing step is then shown to meet it: `Answered` for those that write to a ticket they have locked,
`OpenCommitKeeps` and `DmCreateKeeps` for those that add one. An opening by the staff or the team writes to a ticket nobody can name yet, so its one
message is within `PuzzleLimit`, which must therefore be positive.

`LimitsAlways` (`LimitsHold`), `ReadersPaid` (`PaidToRead`) and `StaffSpeaksAsOne` (the action property `OneVoice`) follow. `SomeoneMoves` uses ENABLED and
stays with TLC.

### TeamMembershipProofs

From `ConstantAssumption` (finitely many users, positive limits), for any number of calls, teams, users and names. `IInv` (`Invariance`) has the rows (`Rowed`, `OneCap`,
`NamesUnique`) and, for each call, `Fit`:

- `Shaped`: which operation is behind a phase, and that its team and its name are there.
- `Held`: a call that creates or renames holds the `rb_game` row from its look at the names to its write; a join that counts, a renaming that is saved and a
  start or a disbanding hold the row of the team.
- `Found`: before `insert` the team is live, is not banned, still has that password and a place left; before `write` and `save` the name is free but for teams the staff named.
- `Sighted`: what a promotion has seen is every member of the team, but for teams in `raced`; rows are numbered in the order of their insertion, so that a user who left and came
  back is another row, which the promotion does not touch.

`RowsAlwaysSound` (`RowsSound`) and the action properties `JoinsAdmitted`, `StartedTeamsStay` and, of both, `WritesAlwaysSound` (`WritesSound`) follow.
`JoinAdmitted` is a statement about the step that writes; the checks it relates to were made under the lock up to three statements before, and that a leave, a kick or a form of the staff does not
invalidate them is where each of the other actions is compared with `Found`. A cardinality enters at one point: others can only take members from a team whose row is locked (`FewerMembers`).

### CurrencyProofs

From `ConstantAssumption`, for any growth, prices, times, width of the numbers and number of transactions. `IInv`: nothing lies in the future (`Timed`); who holds the rows has read what they
still give at the time at which *it* began (`Holding`); and `Earned`: the growth that was credited, and what the row would still get at this moment, is within the time its currency was open, plus what
`spilled` and `back` count. `GrowthBounded` says this of the credited growth alone and is not inductive, as a settlement turns time into money.
`GrowthAlwaysSound` (`GrowthSound`) is then a matter of whole minutes: `Floor`, `FloorSum` and `FloorMonotone` are the lemmas on `div` that it needs, since two spans have together as many whole minutes as their
sum, or one less.

`ImplementsWallet` proves `ShownWallet`, the refinement, one lemma for each writer: the initial balance is one of `Wallet`'s, a tick is the wallet's own growth, a settlement alone is a stutter, because what
is shown is computed from the row by the same function that settles it; a purchase, an addition, an adjustment and a toggle are the wallet's steps of these names. The transaction's own time, which may lie before
`utime_at`, is where a step and what is shown could part: a writer that comes late settles nothing.

### ReleaseProofs

From `ConstantAssumption` (finitely many phases), for any schedule, features, schedulers, administrators, editors, immediate releases, and for any number of faults. All safety properties of the run `release` are proved.
*Standing* is a phase that is there and was not written at or after its time. `IInv`:

1. `IdsOrdered`: if a standing phase has an event, it is due, and every standing phase before it has an event with a smaller id. `materialize_due` numbers all that are due in one statement; an edit leaves
   a phase that may have an id alone, or makes it `late`.
2. `Listed(w)`: with any event on its list, a pass has every earlier one that is not notified on it, and the event in hand has none: `pending_notifications` reads all, in the order of the ids, and the pass ends
   at the first error. What was due when an administrator's request came in has an event before the list is read.
3. `Changing(w)`: a transaction holds exactly the features it writes, the history has no row of its phase for them, and what its phase changes is written, left to do, or in the history.
4. `HistoryOrdered`: if the history has a row of a standing phase, every earlier one was notified. `NotifiedInFull` says that the changes of those are in the history. So when `set_state_conn` finds no row of
   its phase under the row of the feature, the phase was not notified, and no later one has touched the feature: `InOrder`.
5. `SettledFirst`: what was due when a feature was set by hand was notified by then. With 4, `ManualStands`.

None of this needs the advisory lock: the proof is for passes that overlap at any statement, as they do when its connection is lost. What carries it is the order of the ids and the second look at the
history under the row of the feature. `Quiet` and `Grows` collect what a step may do to the tables so that the workers which do not move keep what they know (`OthersKeep`), and each action is shown to be such a step;
the actions that change what all see (`Materialize`, `MarkNotified`, `Commit`, `CommitUnheard`) have lemmas of their own.
`FeaturesInOrder`, `ManualAlwaysStands` and `EventsAlwaysSound` follow.

### FrontendProofs: theme packages

From `ConstantAssumption`, for any number of admins, readers, packages of the name, groups of files and revisions. All three properties of the run `frontend` are proved. `IInv`:

1. `Numbered`, `Single`: revisions get their numbers one after the other; one is published, one is a draft, and one package of the name is not pending deletion. `Single` is what makes `Answer` and `Named`,
   which choose, have one value.
2. `UsedThere`: what the published revision and the draft use is there. It is why `permanently_delete_package` has to look again at who uses a package, in the statement that deletes it.
3. `Apart`: no two packages share a group of files, and what is left to the worker of direct uploads is no package's.
4. `Owns(c)`: a request that will delete files holds a group that no package has; one that will delete a package, at most that package's; an upload that is not registered yet, one that nobody else holds. Without
   it `FilesThere` is not inductive: the deletion of files comes steps after the deletion of the row.
5. `Fit(c)`: a request is about a revision and a package that exist as numbers, and readers only read.

Every action is shown to preserve `IInv` and to be one of three kinds (`Stands`): what is published shows the same (`Seen`), another revision is published, or it is the write of a request that comes `Late`. `SeenShown` and
`SeenAnswer` then give `PublishedStands`, and `CacheFresh` for the actions that leave the cache alone. The registration of an upload is analysed once (`Registers`) for the handler and for the worker: the package that it
writes is not one the published revision uses. Admins may be readers and the other way round; the proof does not separate them.
`PackagesAlwaysSound`, `CacheAlwaysFresh` and `PublishedAlwaysStands` follow. The races that the properties leave out by name are left out of the theorems too.

### FrontendProofs: asset groups

For every `Files!Spec`: any files, folders, names and requests, with one failure, of which the property speaks, from `ConstantAssumption` of `AssetGroup` (a file or a path is not taken for `None`, and there is a path).
`FilesSound` is about the moments between requests; its invariant is about what is half done then. `FgInv` has types and bounds always, and

1. `FgCore`, while requests have met on no path and at most one call to the bucket was not executed. A request *owns* the old and the new paths of its files (`FgOwns`), and a deletion of the group all of them; no two
   own a path together (`FgApart`), and an upload is alone (`FgAlone`). Of each request: which files it has in hand (`FgShape`), that their rows still say the old path and no row the new one (`FgFound`), and that the bytes of
   those it is done with are at the new path, of the others at the old (`FgBytes`), which between the copy and the deletion holds of both. Of the group: no two files have one path (`FgRowed`), and a file that nobody
   has in hand has its bytes (`FgWhole`). When a call has failed, the undoing cannot fail, and `FgBytes` is what it needs.
2. The same with `FgTidy` and `FgNeat` when nothing has failed: every object is that of a row, or at a path that somebody owns, and of those it is said where there is none.
3. `FgSummed`, while no requests overlapped: size and sha256 are those of the files, or somebody is yet to sum up what it has listed.

The argument is one of ownership. A step that changes only what its request owns (`FgLocal`) leaves the others what they know (`FgOthers`), so each action shows `FgOwn` of its own request, and `FgKeeps` puts
the two together; `FgStarts` does this for the requests that begin, which own nothing that another owns as they met nobody. After a meeting, or a failure that the property exempts, only types are left to show (`FgInsane`).
The theorem is `FilesAreSound` (`FilesSound`).

### Only model-checked

* Liveness (`NothingStuck`, `RequestsEnd`, `Converges`, `ConnectionsEnd`, `Completes`, `CallsEnd`, `Settled`, `SettingsConverge`) and both `SomeoneMoves`: fairness and ENABLED are outside the prover.
* `ExpressionsSound`: what the recursive operators of `GateExpr` compute.
* `OutageCloses`, which does not hold (section 5).

---

## 5. A divergence

The test `bus_failure_marks_instance_unready_and_closes_connections` says of `mark_bus_unavailable`: "connection should be
closed" (`src/module/sync.rs:1432`). In the program the task of a connection subscribes to its close channel when it is first
polled (`handle.close_rx()` is evaluated inside the spawned future), and subscribing takes the present value for seen.
When the bus breaks after the handle was inserted and before that poll, the request to close is not noticed, and the
connection stays open across the outage. Run `sync_outage` gives the behaviour: `Spawn`, `Disconnect`, `MarkUnavailable`, `Run`. The run
`sync` shows what the periodic renewal repairs (evicted connections) and that connections which did see the request end.

---

## 6. What is left

### Plan

| # | What | Properties |
|---|---|---|
| 1 | An abstract membership with atomic expiry | implemented by `ClusterLease`, as `Currency` implements `Wallet`; the step simulation in `ServicesProofs` |
| 2 | Hints in `PuzzleProgress` | visibility and cooldowns, refreshed by releases; `GateExpr` instead of sets of gate states |
| 3 | A composition of `PuzzleProgress` with `Leaderboard` | the call between them may fail |

Every safety property that a run checks has a theorem, but for `ExpressionsSound` and both `SomeoneMoves` (section 4).

### Not modelled

External programs (the JavaScript engines, the object store, e-mail, captcha) but for what the code sees of them, lists, filters and paging,
parsing of requests, formatting and wording, configuration forms over single rows. The parts of section 1 that say "no" have
status `not_modelled` in `PROJECT.json`, with the reason; what is left out of the others is listed with each module in section 2 and in the notes there.

Hazards that no property covers: `sync_events` gives a client the last id as its cursor, and ids are taken before their transaction commits, so that an
immediate release may never be delivered to it; the four races of `Frontend` that its properties leave out. Seen on the way: `SyncHub::invalidate` has no callers; a trim to a new limit
is not repeated after a Redis error; two purchases of one hint at once are both paid.
