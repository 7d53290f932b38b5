# GaussMatrix: TLA+ models, model checks and proofs

GaussMatrix is a Matrix homeserver in Rust: the services of its parent
homeserver, and a set of `gm-*` crates (`src/src/{agent,fed,shard,store,
stateres,client,apimodel}`) with the services that put them to work. This
directory models the parts where events, records and decisions can be lost,
repeated or applied in the wrong order, checks the models with TLC and proves
the most important of their properties with TLAPS.

Paths below are relative to the repository; Rust sources are under `src/src/`
of this project's source tree, so `service/sending` is
`src/src/service/sending`. `PROJECT.json` maps each definition to its lines.

## 1. Inventory

### Components and their state

| Component | State | Operations | Hard because |
|---|---|---|---|
| sending (`service/sending`) | tables of queued and of active events, EDU counts; per worker a channel, a status map and a set of futures | queue, flush, cleanup, netburst, request, response, finish at shutdown | two tables written one after the other, a crash between any two writes or before they are flushed, a late announcement racing a response, no retry timer |
| audit log (`service/audit`) | entries in the store; head (hash, next number) behind a mutex | append, recover, verify, count, head hash | verify and the export read without the mutex; a crash between store and head |
| agent gateway (`service/agent`, `api/agent.rs`, `agent/*`) | grants in room state; registry, approvals and rate windows in the store; audit log; timeline | MCP request, result, approval, set grant, provision, deprovision | no lock spans two accesses; requests run concurrently |
| federation scheduler (`service/fed`, `fed/sender.rs`) | queue and health in the store; backoff and sequence counter in memory | queue, take, mark success/failure, tick, drive cycle, restore | memory and store are not changed together; timer, admin command and sending worker are concurrent |
| shard ring (`shard/ring.rs`) | ring of virtual nodes | add, remove, lookup, reassignments | hash collisions of virtual nodes |
| room timeline and state (`service/rooms/{timeline,state,event_handler,pdu_metadata}`, `service/membership`) | rows and their index, outliers, snapshots, room state, leaves, marks of referenced and soft-failed events; two mutexes per room | transaction, backfill, local event, join | two locks taken in different orders, concurrent upgrades of missing parents, several tables written one after the other |
| sync and the counter (`api/client/sync`, `service/sync`, `service/globals`, `core/utils/two_phase_counter.rs`, `database`) | numbers dealt out and pending; rows per number; watchers; tokens of clients | dispatch, write, announce, retire; long poll; inbox; selection of EDUs | a number is known before its row is there, rows wake readers, a crash loses the unflushed log |
| state resolution (`service/rooms/state_res`; `stateres` and `service/gm_resolve.rs` observe it) | events with their auth events; during a resolution the marks of the walks, a graph, a heap and the state so far | split, conflicted subgraph, power sort, mainline sort, auth checks | walks that run concurrently and share their marks; every server has to come to the same result |
| sliding window (`client/sync.rs`) | order of rooms, ranges | request, reorder | overlapping and out-of-range ranges |
| store, content store (`store`, `service/cas`) | a map per domain | get, put, delete, scan | key encoding; otherwise single atomic writes |
| other inherited services (`users`, `presence`, `pusher`, `media`, ...) | tables of RocksDB | one handler per API | room locks, timers, remote calls |

The full list, with what is left out and why, is `components` in `PROJECT.json`.

### How they interact

* Timeline, presence, typing and receipts hand events to **sending**, which
  writes them to its queue and announces them on the channel of one worker.
* The sending worker calls the **scheduler** for each federation transaction
  it starts (`fed.queue`) and for its outcome (`fed.take`, `mark_success`,
  `mark_failure`). The scheduler's drive cycle is off by default.
* The **gateway** writes to the room's timeline, to its three store domains
  and to the **audit log**; `sign_audit_export` verifies, counts and signs
  the log.
* A transaction of another server goes through the **event handler** under
  `mutex_federation` and, event by event, into the **timeline** under the
  state mutex; a local event takes the state mutex only; a join through
  another server takes both.
* The event handler resolves the states of an event's parents, and the room's
  state with that of an incoming event, through **state resolution**, which
  reads events and their auth chains.
* Every update takes a number from the **counter**; **sync** and `select_edus`
  of the sending worker read the updates between two numbers.
* Everything but channels, statuses, futures, mutexes and the scheduler's
  memory is in a database. The audit log, the gateway's domains and the
  scheduler are in the `gm-store`, whose writes survive a process that dies once
  they returned; the other services share a RocksDB with `manual_wal_flush`, in
  which a crash loses what was written under a cork and not flushed since.

### What makes each component correct

* sending: one transaction per destination at a time; an accepted event is
  not lost once it is on disk; EDUs are not repeated; the worker does not panic; events of a
  room go out in order; with traffic, everything is delivered.
* audit log: the chain has no gap or broken link unless somebody edited the
  store; an acknowledged entry keeps its number; an edit does not go unnoticed.
* gateway: the audit log knows first; a call that needs approval has no result
  without one; a decision stands; the rate limit is a limit.
* scheduler: numbers are not reused; health survives a restart; markers tell
  what is in flight; no peer waits longer than the cap.

* room: an event gets one place; it is not visible before its state is known,
  and states consist of known events; no fork is forgotten; tasks do not wait for each other in a circle.
* sync: no reader skips an update; an inbox is emptied only of what its device
  has received; numbers are not dealt out twice; a waiting device is woken.
* state resolution: the result is that of the definition and does not depend on
  the order in which fetches complete; who was banned or demoted on one fork
  does not get through with what he did on the other; no event is checked
  before one that authorises it.

The hazards behind these, each at its line, are `hazards` in `PROJECT.json`.

## 2. Modules

| Module | Role |
|---|---|
| `Sending` | the sending service |
| `Outbox` | what the sending service promises, abstractly |
| `SendingProofs` | proofs about `Sending` |
| `AuditLog`, `AuditLogProofs` | the audit log and the signed manifest |
| `AgentGateway`, `AgentGatewayProofs` | the gateway of one room |
| `FedScheduler`, `FedSchedulerProofs` | the scheduler and the calls of the sending worker |
| `RoomTimeline`, `RoomTimelineProofs` | one room: timeline, state, leaves, and the tasks that change them |
| `Sync`, `SyncProofs` | the counter, the updates and their readers |
| `AuthRules` | which state events the rules of a room allow |
| `StateRes`, `StateResProofs` | two forks of a room and the resolution of their states |
| `NatExtremes` | a bounded nonempty set of numbers has a largest and a smallest member |
| `MC*` and `*.cfg` | instances for TLC |

A definition `Op_Something` in front of `Op` is a mutant: a plausible bug of
that operation, which one of the properties has to notice.

### Sending

Handlers are split where another task or a crash can see the tables between
two writes. `job[d]` is what the handler of a destination still has to do.

| Code | Action |
|---|---|
| `send_pdu_*`, `send_edu_*`, `queue_requests` | `SendEvent` |
| `flush_servers` | `FlushServer` |
| `cleanup_events`, `delete_all_requests_for` | `CleanupActive`, `CleanupQueued` |
| `startup_netburst` | `StartupBurst` |
| `handle_request`, `select_events` | `RequestRefused`, `RequestRetry`, `RequestFresh` |
| `mark_as_active` (insert, remove, per event) | `MarkInsert`, `MarkRemove` |
| `select_edus`, `set_latest_educount`, `send_events` | `Compose` |
| `handle_response_ok` | `ResponseOk`, `DeleteActive`, `Dequeue` |
| `handle_response_err` | `ResponseErr` |
| `interrupt`, `finish_responses` | `Interrupt`, `FinishOk`, `FinishErr`, `FinishDeleted`, `Exit` |
| `Map::insert`, `Map::remove` outside of a cork, `cork_and_flush` of other services, a full log buffer | `FlushLog` |
| a process that dies | `Crash` |

`disk` is what a restart finds. The database is opened with `manual_wal_flush`
(`engine/db_opts.rs:34`), and the corks of `sending/mod.rs` and `sender.rs` do
not flush when they are dropped (`cork.rs:34-43`), so any number of writes may
be unflushed at any time, and any other writer of the server may flush them
(`FlushLog`). The log keeps the order of the writes of all tables: `Crash` takes
them back together. An event whose acceptance is undone counts as never
accepted; updates above the recorded count may be sent
again. An orderly `Exit` writes everything.

Abstractions: an event is its queue key, ordered as the table orders keys.
`delivered` collects the events of transactions that returned `Ok`, which for
a remote server is an HTTP success. The backoff is a flag that some later step
clears. What an EDU says is left out; an update is its count. `Addressed` says
which events are for which destination. The calls into
the scheduler are in `FedScheduler`.

`Outbox` has five actions: accept, deliver (again, if need be), forfeit on
purpose, settle (what was accepted becomes safe) and undo (what is not safe was
never accepted). `Sending` maps `pending` to what the tables hold and was neither
delivered nor forfeited, and `safe` to what was accepted when the log was last
flushed.

### AuditLog

`LockHead`, `PutEntry`/`PutFails`, `AdvanceHead` are the three steps of
`append` under the mutex; `Scan`, `ReportBreak`, `ReportMismatch`,
`AcceptChain`, `VerifyReturns` are `verify`; `CountEntries` and `SignManifest`
are what `sign_audit_export` does after it. `OverwriteEntry` and `RemoveEntry`
are edits of the store behind the service's back, which the log exists to show.

SHA-256 is taken to be collision free: a hash is the list of what it commits
to, and comparing hashes is comparing lists. `recover_head` adopts the last
entry of the store at startup, so `trusted`, what the process vouches for, is
what that entry commits to: an edit of the last entry while the server is down
is adopted, and the model says so.

### AgentGateway

One room; keys of the store contain the room. A request is a job of a task:
`AdmitCall`, `MediateCall`, `ReadWindow`, `WriteWindow`, `AuditCall`,
`PostCall`, `CloseGate` for an MCP request; `AdmitResult`, `CheckGate`,
`PostResult` for a result; `AuditApproval`, `DecideApproval`, `PostApproval`
for a decision; `BeginGrant`, `InstallGrant`, `AuditGrant`, `Provision`,
`Deprovision`, `AuditAgent` for operators. `FailRequest` is any `?` that
returns early, `Crash` loses the tasks. An append to the audit log is one
step here; `AuditLog` is where its steps are.

`load`, chosen at the beginning, is how the room is used: whether requests come
one after the other (`serial`), which grants and versions operators write,
whether room state may be unreadable, which counts as no grant as in
`grant_for`, and the bounds. `RateBound` names the loads under which it holds.

### FedScheduler

The sending worker is reduced to one transaction per destination, whether it is
durable (carries events), and the calls that mirror it. A drive cycle is
`TickReady`, `SelectDue`, `DrainScan`, `DrainDelete`, `DrainNext`,
`DrainFails`, `Dispatch`, `DriveClear`, `DriveEnds`. Only markers are ever
queued, and a marker parses to no PDU: the branch of `drive_once` for a failed
dispatch cannot be reached and is left out. `Restart` reseeds the counter from
the queue and restores the health; `Boot` resumes a durable transaction.
`mode`, chosen at the beginning, says whether drive cycles run (the default is
shadow mode, without them), whether the store may fail, and the bound of the clock; `HealthMirrors` and
`DeliveredClears` name the modes in which they hold.

### RoomTimeline

One room, as seen by one server. `handler[t]` is `handle_incoming_pdu` of a
task, `jobs` the concurrent upgrades of parents it has fetched, `writer` the
task that holds the state mutex and what it still has to write.

| Code | Action |
|---|---|
| `send.rs` under `mutex_federation`, the early returns and `handle_outlier_pdu` | `ReceivePdu`, `DropPdu`, `AcceptOutlier`, `SkipOldPdu` |
| `remote_invite` and the fallback of `join_local`: `handle_incoming_pdu` without `mutex_federation` | `ReceiveSigned` |
| `fetch_prev`, `handle_prev_pdu` | `FetchPrev`, `HandlePrevs`, `PrevsDone`, `HandlerDone` |
| `upgrade_outlier_to_timeline_pdu` up to the lock | `UpgradeEnds`, `UpgradePasses` |
| the same under the state mutex, `append_incoming_pdu`, `append_pdu` | `LockRoom`, `ForceState`, `SetEventState`, `MarkReferenced`, `ClearLeaves`, `PutLeaves`, `SoftFail`, `PutRow`, `PutIndex`, `AppendEffects` |
| `build_and_append_pdu` | `BuildLock`, `BuildFails`, `Build`, then the writes above, `SetRoomState` |
| `join`, `join_remote` | `BuildLock`, `MakeJoin`, `BelayEvents`, `SendJoin`, `JoinFails`, `ForceJoinState`, `JoinState` |
| `backfill_pdu` | `Backfill`, `BackfillEnds`, `BackfillOutlier`, `BackfillRow`, `BackfillIndex` |
| `TimeoutLayer` with `client_request_timeout` (240 s by default) | `TimeOut` |
| a process that dies | `Crash` |

Abstractions: a state is the set of its events; which event of a slot wins where
forks differ is a choice among the forks' events and the stored ones, of which
the auth chains are a part (`Resolutions`). What
authorisation, signatures, policy servers, the back-off of bad events and the
age of an event decide are choices. A remote event never refers to a local
one: other servers have not seen them yet. `append_incoming_pdu` and
`append_pdu` write one row, so a row stands for its count. Who is in the room,
the auth chains of `send_join` and the effects of an event on other services
are left out. Every write that another task or a crash can come between is a
step.

`TimeOut` drops a request at whatever it awaits, with its guards and its jobs;
where the code has no `await` between two writes it cannot come between them.
`bare` remembers the rows that were written without `mutex_federation`. A crash
that also loses the unflushed end of the log leaves the tables of an earlier
moment, and the properties are about the tables alone: it is the crash of that
moment, which the model has.

The states of several parents are keyed by the hash of the state before them
(`state_at_incoming.rs:133`): of parents with one state, one is resolved
(`OnePerState`). The origin is asked for the state when it is not known for a
parent, and when the resolution of several failed.

### Sync

`Dispatch`, `Put`, `Notify`, `Retire` are the life of an update:
`next_count`, the write of the row, the watchers of the map, and the permit
that is dropped. `Request`, `Watch`, `Count`, `WaitPending`, `Build`, `Skip`,
`Wake`, `Timeout`, `Deliver`, `Lose` are one long poll of a device (`sync_events_route` of
`v3.rs`); `SelectEdus` is `select_edus` of the sending worker with its three
limits; `Crash` takes the database back to what was flushed.

Abstractions: one room, one remote server, and every update is of a user of its
own, so receipts and presence that replace an earlier row are left out. The
rows between two numbers that are both retired do not change any more, which is
why a reader may read them in one step; `select_edus` is one step for the same
reason. The contents of a response (limited timelines, lazy loading) are left
out. Sliding sync (`v5.rs`) and `/events` wait and watch through the same two
functions. The database is opened with `manual_wal_flush`: `db` is what reads
see and `durable` what a restart finds, and a write may be flushed or not.

### AuthRules and StateRes

`AuthRules` has the rules of `event_auth` for memberships, power levels and
other state: an operator per `check_*` function over a state, which is a
function from slots (type and state key) to events. Knocks, restricted rooms,
third-party invites, aliases and redactions are left out.

`StateRes` lets a room grow along a trunk (`Extend`) and two forks (`Diverge`,
`Other`): an event is made by `create_hash_and_sign_event`, which takes its auth
events from the state of its fork and checks it against them. The two states are
then resolved.

| Code | Action |
|---|---|
| `resolve`, `split_conflicted_state` | `Split` |
| `conflicted_subgraph_dfs`: `pop`, `eval`, `push` of a walk, one fetch | `Walk`, `WalkEnds` |
| `full_conflicted_set`, `auth_difference`, `add_event_auth_chain` | `Collect` |
| `power_sort`, `topological_sort`, `kahn_sort` | `PopSmallest`, `Sorted` |
| `iterative_auth_check`, `auth_check` | `AuthCheck` |
| `mainline_sort` | `SortRemaining` |
| `resolve`, last step | `Finish` |

At most `width` walks (`automatic_width`) run at a time, in the order of the
inputs; each step is one completed fetch, and `marked` is the map that the
walks share. `rules` are those of three kinds of room versions: 2 to 11, the
same with `hydra_backports` (on by default), and 12. All events are known and
none was rejected; an event's id is its number, so ids order events of equal
time as they were made. An event lists its auth events in the order in which the
local server selects them, and `LastOf` depends on that order; events of other
servers may have any. The level of a creator in version 12, which is above every
integer, is 1000 (`INFINITE`), above every level of the instance. `Resolution` is the definition that the result is
compared with: the full conflicted set from the auth chains, both orders by
their definitions, and the same auth checks.

## 3. Runs

Passing runs (distinct states are those of the instance, after symmetry):

| Run | Instance | Checks | States |
|---|---|---|---|
| `sending_fed` | one remote server, 2 events of 2 rooms, batch of 2, 2 EDUs, 1 restart, flushes of the log | types, `NoPanic`, `SingleTransaction`, `EduAtMostOnce`, `ImplementsOutbox` | 1,948,203 |
| `sending_mixed` | an appservice with 3 events and a removable pusher with 1 on one worker, batch of 2, keep 1, 1 restart, flushes of the log | `TransactionIsActive`, `NoEventLost`, `InOrder` | 2,280,376 |
| `sending_live` | one remote server, 2 events, 1 restart, fair | `EventuallyDelivered` | 206,321 |
| `audit` | 2 appenders, 1 auditor, 3 entries, 2 edits, 2 crashes | `ChainIntact`, `AckedKept`, `NoFalseBreak`, `ManifestCovers`, `TamperEvident`, `SignedIntact` | 992,917 |
| `agent` | 2 tasks; concurrent: 2 requests for a call, a reviewed and an automatic grant; serial: 2 requests, limit 1 in 2 seconds and 2 versions, or limit 1 in 0 seconds | `AuditedFirst`, `GateHolds`, `RateBound` | 2,968,936 |
| `fed` | 2 destinations, 2 numbers, 3 failures, cap below the third delay; shadow mode or a drive cycle, a store that works or fails; the clock moves by 1 ms, but not where drive cycles meet a failing store | `KeysFresh`, `HealthMirrors`, `DeliveredClears`, `AvailableSoon` | 5,307,640 |
| `room_timeline` | a chain of 2 remote events, the first of them also signed on request, 1 local event or join, 2 tasks, 1 crash or timeout | `OnePlace`, `StateKnown`, `NoForkLost` | 3,868,637 |
| `sync` | 1 device, 2 numbers, 2 writers at a time, limits of 1, 1 crash or broken request, fair | `NoUpdateMissed`, `InboxKept`, `CounterAhead`, `EduNotMissed`, `Delivered` | 190,001 |
| `state_res` | 3 users, a trunk of 9 events, forks of 2 and 1 from 5 offers, 3 kinds of versions, 1 or 2 walks at a time | `RevokedLoses`, `SubgraphFound`, `ResolvesAsDefined` | 863,756 |

Why the bounds are enough for the case to happen: 3 events and a batch of 2
give a transaction, a follow-up and a queue behind it, and a batch of 2 with
`keep` 1 a startup that cuts what it finds; 2 failures reach the
saturated counter (`MaxTries` stands for the largest `u32`); one restart puts
a crash at every step of the run before it and exercises recovery from every
table state reached and flushed before it; in the audit log three entries have a first, an inner and
a last one to edit, and two crashes recover what a recovered process wrote;
two tasks are the smallest number that races, and both requests for a call id
may be under way at once, and two serial requests are the one that fills a
window and the one that is refused or starts the next; the numbers 1 and 2
(`MaxSeq` is 3, the first number that is not dealt) are two markers at a time, or
a drain, a restart and a fresh number after it; `CAP_BACKOFF_MS` is 2 with
a base of 1, so that delays are cut by the cap. In the room, a transaction brings
the last event of the chain, whose parent is missing, and a signed request brings
that parent, while a backfill, a local event or a join is under way; with one leaf
allowed (`MAX_LEAVES` is 20 in the code) a local event has to leave a fork
behind. Two numbers are enough for a number that is retired before an earlier
one, and limits of one for a limit that cuts. In the trunk of `state_res` bob's
power is alice's gift and carol's is bob's, and carol has set levels herself, so
that a conflict about a join rule or a ban reaches back over several power
levels events, on auth paths that meet; the offers take power and membership
away on one fork from who uses them on the other.

Deadlock is checked in every run. `InOrder` is about the time before the first
restart: netburst resumes what was active and leaves what was queued to the
next message, so a newer event may go first after it.

Violation runs: what a comment or a doc says and the code does not do. Each is
a `findings` entry with the quotation.

| Run | Property | What TLC shows |
|---|---|---|
| `agent_ungated` | `NeedsApproval` | a result is admitted between the posting of the call and the closing of its gate |
| `state_agree` | `ServersAgree` | with two walks at a time the resolved topic depends on the order in which fetches complete |
| `room_join` | `NoLockCycle` | a join holds the state mutex and waits for `mutex_federation`, a transaction holds that and waits for the state mutex, until `client_request_timeout` drops one of them |

The passing property next to the first, `GateHolds`, says what does hold: it is
`NeedsApproval` from the moment the client was told "requires_approval".

In `state_agree` a walk turns back at an event that the other walk has seen and
not finished with (`conflicted_subgraph.rs:194`), so that bob's levels, which
lie on its path, are missing from the full conflicted set; the event stays on
the path and is inserted later although it is between no two conflicted ones.
carol's levels are then checked against older ones and rejected, and her topic
loses. The properties next to it say what does hold: one walk at a time loses
nothing (`SubgraphFound`), and what follows the search adds nothing of its own:
the result is what the definition makes of the set that was found, and in
versions without the subgraph that is the set of the definition, so that all
servers agree (`ResolvesAsDefined`). One walk may still add to the set, and by
that change the result. Before the fork, let carol join, set a topic and levels
and be kicked; then let one fork ban bob and the other have a topic of his, so
that the old topic is conflicted. TLC with that trunk, these two offers and
`Widths = {1}` violates `ServersAgree` in versions before 12 with the subgraph
(`hydra_backports`): carol's join, which is between no two conflicted events,
stays on the path of the walk, enters the set and is replayed, and her topic is
accepted although both forks agree that she was kicked.

Some properties are stated with a condition, and the models show why:

* `NoEventLost` and its theorem assume `startup_netburst`. With
  `StartupNetburst` false in `MCSending_fed.cfg`, the first success after a
  restart deletes active events of the previous run that were never sent.
* `NoEventLost`, `EduAtMostOnce` and `ImplementsOutbox` are about what the log
  holds. An event accepted after the last flush is undone by a crash (`accepted`
  goes back with the tables), and so is the record that an update was sent: an
  EDU whose recorded count was not flushed is sent again after a crash.
* `EventuallyDelivered` is about a server for which something goes on being
  announced and which answers; see the fairness of `sending_live`.
* `NoFalseBreak` is about every error of `verify` but the comparison with the
  head: an append between the scan and that comparison is reported as a
  mismatch although nobody edited the store.
* `RateBound` is about serial requests. The window is read and written in two
  steps, so two concurrent calls pass a limit of one. The bound is that of one
  of the room's grants, and it counts the calls of the second in which the
  window starts only if the grants agree on a length that is not 0 (`Steady`):
  a window that starts because the limit was edited, or because it lasts 0
  seconds, forgets them.
* `SubgraphFound` is about one walk at a time, and `ResolvesAsDefined` takes the
  full conflicted set as it was found; see `state_agree`. The definition takes
  the power events and what they reach within the set, as `add_event_auth_chain`
  does. The comments of `power_sort.rs` say "the auth chain of P" (28-30): with
  the conflicted subgraph that is the same (`PowerSetFound`, section 4), without
  it an auth chain may leave the set and come back.
* `RevokedLoses` is about bans and levels that the events being resolved decide
  (`Decided`). What both forks agree on is not there in version 12 while events
  are checked: the checks begin with an empty state, and an event is measured by
  its own auth events. Before version 12 an older event of the full conflicted
  set may take such a slot until the last step gives it back.
* `OnePlace` excepts rows that a crash left without their index (`torn`): the
  row is written before `eventid_pduid`, and the event, which looks unknown
  after the restart, is appended again. It also excepts pairs of rows of which
  one was written without `mutex_federation` (`bare`): `invite.rs:142` and
  `join.rs:759` call `handle_incoming_pdu` without it, and
  `upgrade_outlier_pdu.rs` asks `get_pdu_id` at :44 and not again under the state
  mutex that it takes at :92. Without the second exception TLC finds the
  duplicate in `room_timeline`: the signed event and the transaction that brings
  its child both upgrade it.
* `NoForkLost` excepts three kinds of leaves (`forgotten`): those that a local
  event did not refer to because there were more than `MAX_LEAVES` (`create.rs`
  takes 20 leaves and `append_pdu` then replaces all of them); those that a join
  through another server replaces, which makes itself the only leaf whatever it
  refers to (`join.rs:285-291`); and those of a crash or a timeout while the old
  leaves are removed and the new ones put. An event that only a soft-failed event
  refers to counts as referenced (`append.rs:57-67`), although nothing joins the
  soft-failed one in.
* `NoUpdateMissed` and `InboxKept` except numbers that a client holds and whose
  record a crash lost before it was flushed (`reused`): they are dealt out a
  second time.
* `EduNotMissed` excepts what a limit has kept out (`overLimit`): the count is
  raised past what the limit cut off.
* No property orders the versions of a grant. `set_grant_from_spec` reads the
  current version before the room's state lock is taken, so two concurrent edits
  may get the same version and a slow one may set it back; edits that do not
  overlap add one each.
* `HealthMirrors` is about shadow mode with a store that does not fail. Memory
  and store are changed one after the other, so with a drive cycle the store may
  keep a backoff that the memory has cleared.
* `ManifestCovers` is an inequality: appends between the count and the head
  hash make the signed count smaller than the number of entries covered.
* `startup_netburst_keep` drops events (`forfeited`) also when
  `startup_netburst` is off.
* Markers of the scheduler outlive a transaction that a shutdown or a crash
  ends, and the follow-up of a successful transaction has none, so no property
  says that markers and transactions correspond; `DeliveredClears` says what a
  delivery guarantees.
* A drive cycle counts the dispatch of a marker as a success and clears the
  backoff of the peer.

### Fairness of `sending_live`

* Weak fairness of the netburst, of the steps of a running handler and of the
  end of a shutdown: tasks of the runtime make progress once nothing blocks
  them.
* Weak fairness of `BackoffElapsed`: time passes.
* Strong fairness of handling a request and a response: `select!` polls its
  branches in random order, so a branch that is ready again and again is taken.

Nothing is assumed of clients and networks. The code has no retry timer
(`select_events_current` is only reached from a message), so a failed
destination, or a queue that a restart left behind, waits until something is
announced for it; the only caller of `flush_room` is the read receipt of a local
user (`read_receipt/mod.rs:93`). `EventuallyDelivered` therefore has premises,
per destination: `Traffic`, that flushes for it never cease, and `Answering`,
that a server which is tried again and again answers some attempt. Without
`Traffic` TLC finds the event that waits for ever.

### Fairness of `sync`

Weak fairness of a writer's announcement and retirement of its number, of the
device that asks again, and of each step of a request except its timeout: tasks
of the runtime make progress. None is assumed of `Timeout`, so `Delivered` says
that a device is woken by the update and not by its timeout.

## 4. Proofs

All proofs are for every value of the constants that satisfies the named
assumptions (`SendingAssumption`, `AuditAssumption`, `GatewayAssumption`,
`FedAssumption`, `ShiftAssumption`, `RoomAssumption`, `SyncAssumption`,
`StateResAssumption`), which TLC evaluates on its instances. The
bounds of the models are constants too, so the theorems hold for every bound.

**Sending.** `TypeCorrect`, `NeverPanics`, `AtMostOneTransaction`, `NoLoss`,
`InFlightIsActive`, `DeliveredInOrder`, `SendingImplementsOutbox`, `EdusOnce`. None of these invariants is inductive. `Routed`
says that an announcement is on the channel of its worker, so that only one
worker touches a destination; `Coupled` ties the status to the transaction or
the handler that owns it, which gives `NoPanic` and `SingleTransaction`;
`Ledgers` says which part of the batch is in which table in each phase of a
handler, and that what is about to be deleted was delivered, which gives
`NoEventLost` and `TransactionIsActive`; `EdusCounted` says that the stored
count covers every update that was sent; `Stored` that what was accepted at the
last flush is in the flushed tables or was delivered or given up since, and
`StoredGenuine` that nothing else is there, which is what makes `Crash` keep the
others. For the order, `InSequence` says of the
time before the first restart that the announcements of a room are in order,
that a queued event of a destination without a status is announced, and that
nothing of the room is left behind by what is active, prepared or delivered
(`Ahead`); there `Ledgers` needs no startup burst, because nothing is active
when a worker starts (`NothingLeft`). For the refinement, `Accounted` says that
nothing is stored, prepared, sent or announced that was not accepted; with
`Ledgers` it makes `SendEvent` a step `Accept`, a success `Deliver`, a removal or
a startup `Forfeit`, a flush `Settle`, a crash `Undo`, and every other step a
stutter (`OutboxStep`). `NoLoss`,
`InFlightIsActive` and `SendingImplementsOutbox` assume `StartupNetburst`;
section 3 says what happens without it.

**AuditLog.** `AuditTypeCorrect`, `ChainNeverBreaks`, `AckedNeverLost`,
`BreakMeansEdit`, `AcceptedIsTrusted`, `SignedWasVerified`,
`ManifestNeverOverstates`. `Exclusive` and `Written` describe the appender that holds the mutex, `ScansLinked` says that
an auditor's scan of an unedited store is a chain, `Numbered` and `Vouched` tie
the head to what the process vouches for, and `Reached` bounds a count by what
the head will have reached when the mutex is free again. That a chain with a
given last hash determines every payload needs an induction along the chain; it is done as a
minimal-counterexample argument with `SmallestExists`, which the provers can
check without an induction rule.

**AgentGateway.** `GatewayTypeCorrect`, `AuditComesFirst`, `GateNeverOpens`,
`RateIsBounded`.
`Recorded` says that a request past its audit step has its record; `Gated`
that an answered call which needs approval has a stored status, and that
"approved" there implies an audited approval, through every interleaving; `Metered` that the stored window, or
the one a request is about to write, counts every call that passed since it
started, and is within the limit of one of the grants.

**FedScheduler.** `FedTypeCorrect`, `NumbersNeverClash`, `BackoffIsCapped`,
`DeliveryDrains`, `HealthIsDurable`. `Scanned` bounds what a drive cycle holds
by the counter; `AllWithin` bounds every backoff record, in memory, in the
store or on its way there; `Taken` follows the markers of a delivery until they
are deleted; `Follows` says how far the store is behind the memory in each step
of a worker. The provers know no powers:
that `2^s` is a number for the shifts the code uses is the assumption `ShiftAssumption`, evaluated by TLC.

**RoomTimeline.** `TypeCorrect`, `OneRow`, `StateIsKnown`, `ForksKept`.
`Locks` says who may be writing under which mutex; `JobFor` that a job belongs
to a handler that waits for it; `Origins` that nothing but the events
that were made, fetched or joined with appears in a table; `Numbers` which
counts a half-written event may have; `Carried` that the state a writer carries
is known; `Forks` what the leaves are in each stage of their replacement. The
conjunction is inductive (`Invariance`), its parts are not. The rows have a
second invariant (`RowsInv`), inductive relative to the first: `Pending`
describes the two tables of a half-written event and `Places` says that rows and
index agree but for that event, for `torn` and for `bare`. Under
`mutex_federation` an event that is about to get a row has none (`Settled`,
`Locked`); a request without it may find that it has one by now, and then its
own row is `bare`.

**Sync.** `TypeCorrect`, `NothingMissed`, `InboxSafe`, `CounterSafe`,
`EdusComplete`. `CounterOK` says that what is pending was dealt out and that the
released number is below every pending one; `TablesOK` that a row has a number
which was dealt out, in both copies of the database; `LogOK` that what was
flushed is not ahead of what is read. Per device, `ClientOK` says that the
client's token is retired, and `Sound` that the request's numbers are too and
that it has seen what lies before them.

**StateRes.** `AuthEventsFirst`, `SortIsComplete`, `StateResTypeCorrect`,
`OneWalkFindsAll`, `RevocationHolds`, `ResolvedByDefinition`,
`AgreeWithoutSubgraph`, `PowerSetFound`, `SortProceeds`, `EveryEventChecked`,
`SearchAddsNothingForeign`, `SearchMovesOn`, for every room and pair of forks and
not only those of the instance. The statements of `AuthEventsFirst`,
`SortIsComplete` and the last six are checked by no run of their own. `DagOK` says
that events are authorised by earlier ones only;
`SortOK` that an event of the graph refers to just those of its auth events that
are still in it and that no sorted event has one there. That the graph begins
like this is `ReachedClosed`; that a graph without a ready event is empty is the
argument of its oldest event (`HeapEmpty`, with `SmallestExists`).
`Typed` describes the chain of every event, the paths and stacks of the walks and
the sets of a resolution. `SearchOK` is the argument for one walk at a time: all
walks but the first are untouched, every auth event of a seen event was seen or
is on a stack, and a seen event outside the subgraph that leads to a conflicted
one owns a frame of the walk with something left that leads there (`Owners`,
`Pending`), so that turning back at it loses nothing. `Revoking` says that power
events are checked first, that a slot the forks agree on keeps its event as long
as none of the full set has that slot, and that whoever set a resolved topic may
set it in the state so far (`MaySet`); no event that is checked after the power
events can take that away from him, since a ban of another user is a power event.

`Resolving` is the argument that the result is that of the definition. The
definition is recursive, and no induction is needed to reason about it. That a
recursive function has the values its equation gives it is `RecursionExists`: the
smallest n up to which there is no such function would not be one
(`SmallestExists`). From this follow two equations, of the states that the checks
go through (`AuthCheckedLast`, `AuthCheckedStep`: the first event and then the
others) and of the beginnings of the power order (`PowerOrderLast`). `OrderOK`
says that what is sorted is such a beginning and that the graph has the rest: the
heap is just what may come next by the definition, and since no two events are
each before the other (`BeforeAsymmetric`), the event that is taken is the one
that the definition chooses (`SmallestUnique`). `ChecksOK` says that to check
what is left leads to the state of the definition, which every `AuthCheck`
keeps. `NoSearch` says that without the subgraph nothing is searched.
`AgreeWithoutSubgraph` is `ServersAgree`, which `state_agree` refutes, for the
versions without the subgraph. With it, the full conflicted set of the definition
is convex (`FullSetConvex`): an event between two others of the set that is in
the auth chains of both forks leads to a conflicted event and is behind one; so
the walk within the set misses nothing of the chains of its power events
(`PowerSetFound`). `SortProceeds` says that the heap has exactly one smallest
event until all are sorted, `EveryEventChecked` that the two rounds of checks
have every event of the set once, and `SearchAddsNothingForeign` bounds what the
walks may add, however many there are: conflicted events and their auth chains
(`SearchStays`). `SearchMovesOn` is the measure by which the search ends: a fetch
marks an event that was not seen or takes one from a frame and adds none
(`WalkProgress`), and a walk that ends is gone (`EndProgress`), while events,
walks and frames stay finite. That the resolution ends is then a matter of
fairness, which the prover does not reach.
`StateResAssumption` asks that the trunk has its create event and that power
levels are integers, which `power_levels.rs` makes of every level it reads.

Only model-checked: `Delivered` and `EventuallyDelivered` (liveness and fairness
are out of the prover's reach) and the violations. Every invariant that a run
checks is proved. What state resolution decides is a choice in `RoomTimeline`.

## 5. Not modelled

* HTTP, signatures and TLS: the outcome of a request is a choice.
* The contents of EDUs and the limit per transaction; push-rule evaluation.
* MCP parsing and patterns of tool names: `Mediate` sees the action that the
  grant has for the tool.
* Failing or reordered writes of RocksDB within one call: a single `insert`,
  `put` or `remove` is atomic, and the log keeps the order of the writes of all
  tables. That a crash loses writes which returned is in `Sending` and `Sync`;
  in `RoomTimeline` it is the crash of an earlier moment (section 2). The
  `gm-store` (`store/rocks.rs:33-45`) has no manual flush: what it returned
  survives a process that dies.
* The engine under `stateres`: `gm_resolve::shadow_compare` runs it beside the
  production path and logs whether they agree. Room version 1, events that
  cannot be read during a resolution, the cache of auth chains.
* In the room services: redactions, pagination, search, notification counts,
  caches of membership; in sync, the contents of rooms and the connection cache
  of sliding sync.
* An append that fails after its row was written (`timeline/append.rs:195`), and
  a knock through another server, which appends its event without
  `append_to_state` (`membership/knock.rs:304-312`), so that the event has no
  snapshot; `StateKnown` is not about it.
* The remaining user and media services; `components` gives the reasons.

## 6. Plan

Done: `Sending` and `Outbox`, `AuditLog`, `AgentGateway`, `FedScheduler`,
`RoomTimeline`, `Sync`, `AuthRules` and `StateRes`, with their proofs. What
remains, in this order:

1. `SendingFed`: `Sending` composed with `FedScheduler` in place of its reduced
   worker, so that the marker and health properties are about the real worker.
2. `RoomTimeline` with redactions, with `StateRes` in place of its choice of a
   resolution, and with its rows read through `Sync`.
3. `ShardRing`: placement and reassignment over an abstract hash with
   collisions, against a reference placement.
4. `SlidingWindow`: newly visible rooms against a reference definition.
5. `Devices`: tokens and one-time keys; registration tokens; push suppression.
6. Theorems: that servers with one walk at a time agree with each other, which
   compares two behaviours; that the steps after the search have
   such a measure too.
