# A verification development of fox-wamp

fox-wamp is a router for WAMP, MQTT and its own Hyper protocol, written in
TypeScript: publish/subscribe with retained state, remote procedure calls, and a
key-value store whose entries can be bound to the life of a session. It runs as
one process (`bin/`), in memory or on SQLite, or as a cluster of entry, sync and
storage nodes (`masterfree/`).

This directory holds TLA+ modules that model parts of it, TLC configurations that
check them on small instances, and proofs that TLAPS checks for instances of
every size. `PROJECT.json` lists the same facts for tools: the parts of the
system, the runs, the lines of code each definition stands for, the hazards.

- Model-check: `tlc -config MCDealer.cfg MCDealer.tla` (each run below likewise).
- Prove: `tlapm DealerProofs.tla`, and likewise `SynchronizerProofs`, `SqliteKvProofs`,
  `SqliteKvAtomicProofs`, `SegmentsProofs`, `TopicPatternProofs`, `SubscriptionProofs`,
  `MemRealmProofs`.

## 1. Inventory: what the system consists of

All handlers run in the one thread of Node: a handler that does not await runs to
its end before any other. Interleaving comes from the order of messages of
different sessions, from `await` (database calls, asynchronous realm creation),
from timers, and from the links between the nodes of a cluster.

| Part (source) | State | Operations | Hard behaviour | Correct when |
|---|---|---|---|---|
| RPC dealer (`lib/realm.ts`, `lib/session.ts`) | registrations by procedure (`wSub`), waiting calls (`qCall`), calls in flight (`qYield`), counters of each registration | REGISTER, UNREGISTER, CALL, YIELD/ERROR, progress results, join, leave | sessions leave with calls waiting or in flight; progress results; limits | no call lost or answered twice; the limit holds; waiting calls are served |
| Sync cluster (`lib/masterfree/synchronizer.ts`, `makeid.ts`) | drafts and votes of each sync node, its id generator; votes at each storage node | GENERATE_DRAFT, PICK_CHALLENGER, ELECT_SEGMENT, minute timer | delayed and interleaved messages, clocks that disagree, late votes | each closed segment gets one permanent id, the same everywhere, in order, and no other segment gets it |
| Session-persistent KV (`lib/sqlite/`, `kpqueue.ts`) | rows of values, rows of wills, parked conditional writes, a queue per key, a push queue | PUSH with retain/when/watch/will, getKey, session end, restart | steps between awaits, crash between two rows, parked writes | a lock has one holder; a will is applied once and only while its session holds the key |
| Memory KV and engine (`lib/mono/`) | values, waiting writes of each key, history | the same, each in one step | a write wakes waiting ones in a loop; ids are compared as texts | a lock has one holder and is fair; the history after an id is complete |
| Subscriptions (`lib/realm.ts`) | traces by pattern, delay stacks, waiters for an event id, their timers | TRACE, UNTRACE, PUSH, retained replay, snapshot | replay of the history while events come in; timeout against arrival | no event is lost between replay and live events; order; a snapshot ends |
| Sessions and realms (`router.ts`, `session.ts`, `base_gate.ts`) | sessions, realms, will message | connect, HELLO/LOGIN, disconnect | the realm is created asynchronously | a session that left is nowhere joined |
| Entry node (`lib/masterfree/netengine.ts`) | the current segment, the number of the last one, answers of sync nodes | PUSH, TRIM, INIT handshake, RESOLVED | several storage and sync nodes answer, in any order; restarts with a clock that is behind | no segment number is used twice; a segment ends |
| Storage node (`lib/masterfree/storage.ts`) | buffers by segment, history table | BEGIN, KEEP, OVER, RESOLVED, commit | lost links, events during and after the commit, failing commit | an event is stored under the same id everywhere |
| Topic patterns (`topic_pattern.ts`) | none | match, intersect, extract, merge | wildcards `*` and `#` | agrees with the set of topics a pattern stands for |
| Data filters (`realm.ts` 386-446) | none | isDataFit, deepDataMerge | arbitrary JSON | - |
| MQTT gate (`mqtt/`) | messages not acknowledged, last id written, will | connect, subscribe, publish, puback, disconnect | a client resumes where it acknowledged; events that match two topics | nothing is lost or written twice; a will is published once |
| WAMP and Hyper gates (`wamp/`, `hyper/`) | pending commands | translate protocol messages to realm commands | connections that close before the realm is there | - |
| Extensions, launchers, configuration (`ext/`, `bin/`, `masterfree/config.ts`) | counters | wire the parts together | none of their own | - |

How they interact: a gate turns a protocol message into a command of the session's
realm (a call). The realm keeps sessions and calls its engine. The engine keeps
the dealer's and the subscriptions' state and calls the key-value store, which
calls back into the realm when a session's will is to be published. In a cluster
the entry node's engine (`NetEngine`) sends events to storage nodes as segments;
storage nodes ask sync nodes for an id for each closed segment; sync nodes
exchange drafts and send votes to storage nodes, which store the segment under
the id elected. (Their report to the entry node does not arrive, see section 9.)

## 2. Modules and plan

| Module | Extends / instantiates | Models | Runs |
|---|---|---|---|
| `Dealer`, `DealerProofs` | - | the RPC dealer | dealer_safety, dealer_limit |
| `Synchronizer`, `SynchronizerProofs` | - | the election of segment ids | stage_one, election_unique, election_agree |
| `KvEvents`, `SqliteKv`; `SqliteKvProofs`, `SqliteKvAtomicProofs` | abstract: `KeyStore` | the key-value store on SQLite | kv_store, kv_crash, kv_stale, kv_lost |
| `OrderedSets`, `TopicPattern`, `Subscription`; `TopicPatternProofs`, `SubscriptionProofs` | - | topics; subscriptions over both engines | subscription |
| `MqttSession`, `MemRealm`; `MemRealmProofs` | `TopicPattern`; abstract: `Mutex` | a realm in memory with its Hyper and MQTT sessions | mem_realm |
| `Segments`, `SegmentsProofs` | - | entry, storage and sync nodes with their links | segments |

`KeyStore` and `Mutex` are abstract specifications; `SqliteKv` and `MemRealm` are
shown to implement them through refinement mappings (`Atomic`, `IsMutex`).

Every module has proofs of its safety properties (sections 3 to 8), and both
refinements are proved. Liveness stays with TLC (section 10). What the modules leave
out and could be taken next: conditional writes with watch on an absent key in
memory, LOGIN and CONNECT of a realm that is still launched, restarts of a sync node.

## 3. Dealer

`Dealer.tla` models one realm's dealer. One handler runs to its end without
awaiting, so one handler is one action:

| Action | Code |
|---|---|
| `JoinSession`, `LeaveSession` | `BaseRealm.joinSession`, `leaveSession` with `cleanupReg` |
| `RegRpc`, `UnRegRpc` | `cmdRegRpc`, `cmdUnRegRpc` |
| `CallRpc` = `CallDispatched`, `CallQueued` or `NoSuchProcedure` | `cmdCallRpc`, `doCall`, `callWorker` |
| `YieldFinal`, `YieldEmit`, then `ResponseArrived` = `NoTaskFound`, `NextTaskTaken` or `StillBusy` | `cmdYield`, `responseArrived`, `checkTasks` |

State: `joined`/`left` are the sessions whose `session.realm` is set or was reset;
`wSub` is both `BaseEngine.wSub` and every `Session.sSub` (they are always
changed together); `reg` and `call` are the ActorReg and ActorCall objects, which
live on when they are removed from the maps; `qCall` and `qYield` are as in the
code. `finals` and `emitted` record what was sent and are read by no action but
for the bound `MaxEmit`.

| Property | What it says | Checked by | Proved |
|---|---|---|---|
| `TypeOK` | types; offered registrations stand under their procedure | dealer_safety | `TypeCorrect` |
| `CallAccounting` | a call waits once, or is in flight, or has its one final reply; it vanishes only when its caller left | dealer_safety | `AccountingCorrect` |
| `ConcurrencyBound` | the counter of a registration is its calls in flight less the progress results; the limit bounds the calls in flight up to those | dealer_safety | `ConcurrencyBoundCorrect` |
| `QueueServed` | a live waiting call has another call of its procedure in flight, whose answer pulls the queue | dealer_safety | `QueueServedCorrect` |
| `DispatchToLive` | an invocation goes only to a session that is there, for the procedure called | dealer_safety | `DispatchToLiveCorrect` |
| `QueuedCallServed` | a waiting call is eventually handed over or dropped with its caller, but for the limit 0 and callees that left | dealer_safety | liveness: TLC only |
| `ConcurrencyLimit` | the limit as README.md of the repository states it | dealer_limit, **violated** | - |

*What dealer_limit shows.* `responseArrived` calls `taskResolved` for progress
results too. After one progress result of a call to a registration with
concurrency 1 a second invocation is sent while the first is in flight.

*Fairness.* `FairSpec` assumes that a callee that stays in the realm answers each
invocation (weak fairness of `YieldFinal` for each call). Nothing is assumed of
callers, of sessions joining or leaving or of registrations.

*Bounds.* dealer_safety: three sessions (caller, callee, and one that comes or
goes); three calls of one registration limited to 0 or 1 (one in flight and a queue
of two, enough to have a departed caller in front of one that stays); or two calls
and two registrations with the limits none, 0 and 1, one of them 1; or two procedures
with two sessions. One progress result for each registration. Ids are taken in
order (`InOrder`), which stands for symmetry and keeps liveness sound. Deadlock is
not an error: sessions may all leave.

*Abstractions.* Payloads, error texts and authorisation are left out. Procedures
are compared for equality only, as the code does. Ids are never reused. Sending
never throws (see the hazard at `realm.ts:136`).

### Proofs (`DealerProofs.tla`)

`AccountingCorrect == Spec => []CallAccounting` is proved for all constants that
satisfy the assumptions of `Dealer.tla` (`None` is not an id, calls are finitely
many, limits are integers). `CallAccounting` alone is not inductive: its part
`NoneLost` excuses a call that vanished when its caller left, and a session that
joins must not be the caller of such a call, or the call would be lost.
`AccountingInv` adds the type invariant and `CallersKnown` (the caller of an
issued call is in the realm or was in it). The proof has one lemma for each
action; the lemma for `NextTaskTaken` rests on lemmas about `SubSeq` and about the first
position of a queue that holds a live call. `TypeCorrect` is proved in the same way.

The other three build on it, each invariant on the one before:

- `DispatchToLiveCorrect`. `CalleeInv` adds what holds of callees: a registration on
  offer is of a session that is there (`OwnersThere`; so `cleanupReg` has to be done
  before the session is gone), and a call in flight is at a registration of its
  procedure (`FlightUri`).
- `ConcurrencyBoundCorrect`. `BoundInv` adds the bound itself, for registrations that
  were removed too, and that nothing was sent yet through one that is not there
  (`EmitsRegistered`). The counter is compared with the number of elements of a
  set, so the proof needs that calls are finitely many.
- `QueueServedCorrect`. `QueueInv` adds that a waiting call is served. When an answer
  comes, either the next live call is taken, and is itself in flight then, or the
  registration is still at its limit: `BusyServes` derives from the bound that
  a registration at its limit has a call in flight, unless the limit is 0.

## 4. Synchronizer

`Synchronizer.tla` models the election of the permanent id of each closed segment
(`StageOneTask` on sync nodes, `StageTwoTask` on storage nodes). An id is a pair
of a prefix (a minute) and a position; `keyComplexId` writes it so that texts
sort like pairs.

| Action | Code |
|---|---|
| `ActualizePrefix` | the timer of `startActualizePrefixTimer`; clocks need not agree |
| `GenerateDraft` | `event_generate_draft`, which ends in a call of `event_pick_challenger` on the node itself |
| `DraftArrived` | `event_pick_challenger` for a message from a peer |
| `PickChallenger` = `LateDraft`, `DraftVote` or `SegmentElected` | the three outcomes of `event_pick_challenger`, `extractDraft` and `setRecentValue` included |
| `ElectSegment` | `event_elect_segment` |

`pick` and `elect` are the links: sequences, since `HyperClient.pipe` sits on one
connection, and delayed for as long as one likes. A request for a draft comes from each
storage node in the order in which the entry closed its segments
(`GenerateDraft`'s guard); a request that was answered is skipped by the code. `halted` are
the nodes in which `setRecentValue` threw: the error leaves `FoxGate.handle`
and ends the process (stage_one reaches it).

| Property | What it says | Checked by | Proved |
|---|---|---|---|
| `TypeOK` | types; votes kept for a segment are fewer than a quorum | stage_one | `TypeCorrect` |
| `ElectBacked` | a segment is elected only when a quorum drafted for it | stage_one | `ElectBackedCorrect` |
| `ElectedInOrder` | a node elects the segments of an entry in their order, whoever voted | stage_one | `ElectedInOrderCorrect` |
| `StacksAscend` | drafts of an owner ascend, those on their way included, so the head of a stack is its minimum | stage_one | `StacksAscendCorrect` |
| `DraftAboveSeen` | a new draft is above every draft that the node saw or elected | stage_one | `DraftAboveSeenCorrect` |
| `ResolvedOnce` | a storage node resolves a segment once, late votes or not | stage_one | `ResolvedOnceCorrect`, for a majority quorum |
| `UniqueId` | no two segments have one id | election_unique, **violated** | - |
| `NdbAgree` | all storage nodes store a segment under one id | election_agree, **violated** | - |

*What the violated runs show.* Drafts carry no node id, and the stacks of drafts
belong to a sync node and not to a segment: a draft that arrives after its
segment was elected remains in the stack and is elected for the next one, so two
segments are resolved to the same id. And each storage node takes the maximum of
the first quorum of votes that reaches it, so with three sync nodes and a quorum of two
(the default of `config.ts`) two storage nodes may take different ids.

*Bounds.* Three sync nodes with the quorum 2, so that two quorums differ. stage_one
has one entry with two segments, one tick of each clock and one storage node, which
counts votes while no second segment is drafted for (votes are not read by sync
nodes, and `ResolvedOnce` is about one segment). Nodes are symmetric. A tick moves
the minute once, which is enough for a node to be a minute ahead of its peers.
Deadlock is not an error: all segments may be resolved.

### Proofs (`SynchronizerProofs.tla`)

All theorems hold for finite sets of sync nodes, any sets of storage and entry
nodes, any number of segments and minutes, and any quorum from one to all sync
nodes, unless the theorem asks for more. Each is proved from an inductive
invariant, with one lemma per action.

- `TypeCorrect`. The part that is not a type, fewer votes kept than a quorum, is
  needed by the theorems below.
- `ResolvedOnceCorrect` asks for `Majority` (two quorums share a node). Its
  invariant `VotesInv` follows a vote of a sync node on its way: the vote for a
  segment is sent to a storage node once (`SentOnce`), only for a segment that is
  done (`SentUncounted`, `UsedDone`), and is then in the link, in the votes kept,
  or in one resolution, never in two of these (`SentUncounted`, `ReadyUnused`).
  Hence resolutions of one segment have disjoint quorums (`QuorumsDisjoint`), and
  each is a quorum (`QuorumsFull`): there is at most one. The code takes any
  `syncQuorum`; with half of the nodes or fewer the theorem does not hold (the mutant
  of `ResolvedOnce` is such a quorum).
- `ElectBackedCorrect`, for any quorum. `BackedInv` says that a voter of a segment has
  drafted for it (`VotersDrafted`), as has the sender of a draft on its way
  (`SendersDrafted`), and that a voter is counted once (`VotersDiffer`).
- `ElectedInOrderCorrect`, for any quorum. `OrderInv` says what a node knows of a
  peer: a draft that was made is known to the node or on its way (`DraftsSent`),
  whatever is earlier than a draft in a link is known or ahead of it in the link
  (`LinksInOrder`), and the earlier drafts of a voter are known
  (`VotersInOrder`). So when a draft completes the quorum of a segment, its
  voters had voted for each earlier segment, which had its quorum by then. Without the order
  of links this fails: the mutant of stage_one takes messages from anywhere in the link.

- `StacksAscendCorrect` and the action property `DraftAboveSeenCorrect` share `StackInv`.
  For each owner and holder, the stack and then the link that feeds it ascend (`Rising`).
  That alone is not inductive: a new draft must be above all that its owner sent
  before, which needs that the owner's last id is not below any of them
  (`OwnerAbove`). Likewise the last id of the holder is not below what it has in its
  stacks (`HolderAbove`, which `reconcilePos` keeps when a draft arrives) nor below
  its last challenger (`RecentBelow`), and a node sends itself nothing (`NoSelf`). What
  `extractDraft` leaves of a stack is its end (`Later`), so the order is kept however
  much is dropped.

## 5. Key-value store on SQLite

`SqliteKv.tla` models `DbEngine.doPush` and `SqliteKvFabric` for events with the
option retain, with `KvEvents.tla` for events and their data. While a statement is
awaited other handlers run, so each statement is an action:

| Action | Code |
|---|---|
| `Join` | `Router.getRealm`: the realm is in `_realms` before `launchEngine` is done (constant `JoinWhileLaunching`) |
| `Push`, `StartPush` | `cmdPush`, `doPush`: the event enters `pushQueue`; it is run after those before it |
| `ReadValue` = `ConditionMet`, `Parked` or `NotAccepted` | `setKeyValueLocked`: the stored value is read, the condition decides |
| `DropWill`, `WriteValue`, `AddWill` | its three statements |
| `Confirm` = `NextWaiting` or `NoneWaiting` | `confirm` and `findNextWhenActor`: a parked event that now fits is applied by the same run |
| `Leave`, `BeginCleanup`, `SelectWills`, `PushWill`, `DeleteWill` | `leaveSession`, `cleanupSession`, `eraseSessionData`: wait for the queue, read the wills, push each and delete its row |
| `SelectWills`, `PushWill`, `DeleteWill` of `Launch` | `launchEngine`, `processStaleRecords`: the same for all rows |
| `Crash` | the process ends between two statements and starts again: only `kv` and `wills`, the two tables, are left |

State: `push` is the log of all events in the order in which `doPush` was called,
`run` what became of each (the queue are those not ended), `cleaner` the cleanups under way.
`parked` is `resWhen`: since pushes run one after the other, each of its lists is
in the order of arrival, and a set of indices of `push` is enough. For the same
reason `KPQueue` never holds two pushes of one key and is left out. An event of a
session that left is kept in `parked` until it is met or cleaned up, as in the code.

| Property | What it says | Checked by | Proved |
|---|---|---|---|
| `TypeOK` | types; no row of `kv` is empty | kv_store | `TypeCorrect` |
| `OldIsCurrent` | the value that a condition was tested on is still stored when the push writes, though it awaits in between | kv_store | `OldIsCurrentCorrect` |
| `NoMissedWakeup` | a waiting event of a live session does not fit the stored value unless a push of its key is under way | kv_store | `NoMissedWakeupCorrect` |
| `HeldByLive` | a value written with a will is held by a session that is there, or someone will still release it | kv_store; kv_lost, **violated** | `HeldByLiveCorrect`, without joins during the launch and without crashes |
| `WillAfterLeave` | a will is not applied while its session is there | kv_store | `WillAfterLeaveCorrect`, without joins during the launch |
| `Atomic` | the store implements `KeyStore` | kv_store | `AtomicCorrect`, as `HeldByLive` |
| `CleanupEnds` | the cleanup of every session that leaves ends | kv_store | liveness: TLC only |
| `NoStaleWill` | no row of `session_kv` is left without anyone to apply it, crashes included | kv_crash | `NoStaleWillCorrect` |
| `WillIsStored` | a will that is applied is still stored | kv_stale, **violated** | - |

*The abstract store.* `KeyStore.tla` applies each event at most once and in one
step, when the stored value fits its condition; merges the data; replaces the will
of the key; and accepts the event afterwards. `SqliteKv` implements it with this
mapping: a push takes effect with its first statement (`DELETE FROM session_kv`),
and until the others are done `SeenValue` and `SeenWill` are what they will
write. `DeleteWill` must be a stutter: it deletes a row only of its own session, and
so never the will of an event applied in between. `KeyStore` promises nothing of a
crash, and kv_store has none.

*What the violated runs show.* kv_stale: `eraseSessionData` reads all wills of a
session first and pushes them one by one; a push of another session that is ahead
in the queue removes such a will, and it is applied all the same, over the new
value. kv_lost: value and will are written by two statements without a
transaction; a crash between them leaves a lock with nothing to release it.
A third thing is not a run: with `JoinWhileLaunching` and without a crash
`WillAfterLeave` fails, for `processStaleRecords` takes the will of a session that
joined meanwhile for stale.

*Fairness.* The database answers (weak fairness of the run under way, of which
there is one) and a cleanup that can go on does (weak fairness of each). Nothing is
assumed of sessions: none must push or leave.

*Bounds.* kv_store: two sessions, two keys, three pushes of clients (a lock that
waits, one that does not and has a will of its own, an unlock; on the second key
an event that has only a will, so that a cleanup has two to apply). Three pushes
are a holder, one that waits and one that comes between. No symmetry, for
`CleanupEnds`. kv_crash and kv_lost: one key, all four requests, one crash; a
second crash meets the same tables, which is all that a crash leaves. Fields hold
one scalar value: conditions compare for equality only. Deadlock is not an error:
all sessions may have left.

*Left out.* Statements that fail; `getKey`; `applySegment` of the cluster; sessions
that push before the tables exist. Histories and waiters for an event id are in
`Subscription` (section 6).

### Proofs (`SqliteKvProofs.tla`, `SqliteKvAtomicProofs.tla`)

All hold for any sessions, keys, data and requests and any number of pushes, and, where
it is not said otherwise, of crashes.

- `TypeCorrect`, from `Types`, which says of each table and queue what it holds.
- `OldIsCurrentCorrect`. `OldInv` adds `Serial`: of two pushes that are not ended
  the later one has not begun. So nothing can write between the read of a push
  and its write. (The mutant lets a push begin whose turn it is not.)
- `NoMissedWakeupCorrect`. `WakeInv` adds that a push that finds its condition not
  met has nobody to wake (`ReadWakes`), and `Known`: no session comes back, so an
  event whose session is gone stays one that need not be woken.
- `NoStaleWillCorrect`. `WillInv` follows a will: a push may leave one only
  as long as the cleanup of its session still waits for that push (`Heir`); a
  stored will has an owner, that is a session that is there, its cleanup, or the
  launch (`Owned`); a cleanup under way has the rows of all wills that are left of its
  session (`OwnRows`).
- `WillAfterLeaveCorrect` assumes `~JoinWhileLaunching`. `LeaveInv` adds that
  while the realm is launched no session is there, and that what is pushed by a
  cleanup is of a session that is gone. The assumption is needed: with
  `JoinWhileLaunching`, as the code has it, TLC finds the launch taking the
  will of a session that joined meanwhile (see above).
- `HeldByLiveCorrect` assumes `MaxCrash = 0` as well: a crash between the two
  statements leaves a value without its will (kv_lost). `HeldInv` adds that each
  value that a session holds has its will or is being written (`Backed`), what a
  push has dropped before it writes (`Dropped`), and that a cleanup
  which deletes a row has released the value (`Released`).
- `AtomicCorrect`, under the same assumptions: the initial state is one of
  `KeyStore`, and every step is a step of it or a stutter. `AtomicInv` adds that
  the event a run applies is not answered yet and is in no other run (`Asked`,
  `ParkedOpen`), so that it is accepted once. `Forms` says how the store is seen
  when one push is under way, which is all there can be (`OnlyOne`).

## 6. Subscriptions

`Subscription.tla` models one realm's subscriptions (TRACE, `doTrace`) while events
are pushed, over the engine in memory or over SQLite (variable `engine`, chosen in
`Init`). Over SQLite a push is a queue entry, an INSERT, the dispersal, the write of
the value and the release of waiters, with other handlers in between; in memory it
is one step and the release of waiters, which hangs on a promise.

| Action | Code |
|---|---|
| `PushMem`; `EnqueueDb`, `Insert`, `InsertFails`, `Disperse`, `StoreDb` | `BaseEngine.doPush`; `DbEngine.doPush`, `saveHistory`, `updateKvFromActor` |
| `ResolveRetainedEventWaiters` | the function of that name, also after a push that the store refused |
| `CmdTrace` | `cmdTrace` and the first turn of `doTrace`: `ReplayHistory`, `ReplayRetained` |
| `SelectHistory`, `HistoryDone`, `SnapshotRetained`, `SelectRetained`, `SnapshotDone` | the promises of `doTrace`, in their order |
| `Timeout` | the timer of `waitForRetainedEventId` |
| `CmdUnTrace`, `LeaveSession`, `Restart` | `cmdUnTrace`; `cleanupTrace`; the process starts again with its tables |

State: `trace[t]` is an ActorTrace and what its promises wait for (`history`,
`replay`); `got` is what was sent to it; `committed` is `currentRetainedEventId`.
A subscription names any event pushed so far as its `after`, or none.

| Property | What it says | Proved |
|---|---|---|
| `TypeOK` | types; a subscription is ended once | `TypeCorrect` |
| `NoGap` | what was stored after `after` and dispersed is sent, whether as history, from the delay stack or live | `NoGapCorrect` |
| `InOrder` | events are sent in the order of their pushes and once, of each kind; in memory over all kinds | `InOrderCorrect` |
| `SnapshotReplayOnly` | a snapshot gets no live event | `SnapshotReplayOnlyCorrect` |
| `RetainedIsFresh` | a subscription that waits for an event reads the retained values only when no push up to that event is on its way to the store | `RetainedIsFreshCorrect` |
| `WaiterIsLive` | no wake-up is missed, and no waiter outlives its subscription | `WaiterIsLiveCorrect` |
| `ClosedIsSilent` | a subscription that ended gets nothing of the replay still under way | `ClosedIsSilentCorrect` |
| `SnapshotEnds` | every snapshot ends, though the event it waits for may never come | liveness: TLC only |
| `MatchIsMeaning`, `IntersectIsMeeting`, `KeyRoundTrip` | `TopicPattern` against the set of topics that a pattern means | `MatchIsMeaningCorrect`, `IntersectIsMeetingCorrect`, `KeyRoundTripCorrect` |

Three limits are in the properties because they are in the code. In memory ids are
compared as texts, so after event 9 the history from 9 on is not complete
(`Comparable`; the run starts at id 8 to meet it). The history of SQLite compares the
whole topic, so it has nothing for a pattern (`HistoryFits`). Over SQLite an event
stored before the history is read and dispersed after it is sent twice (`InOrder`
speaks of each kind there). A snapshot that ended before it came to wait leaves a
waiter, which its timer removes (`WaiterIsLive`).

*Fairness.* Promises are continued and the timer of a waiter fires (30 s in the
code); nothing is assumed of pushes, clients or sessions.

*Bounds.* One subscription of any of five kinds: with and without `after`, retained
state, retained only, two snapshots; three pushes (plain, retained, refused by the
store); one restart. Subscriptions do not touch each other's state, so one is
enough; three pushes are one before, one during and one after the replay. Patterns:
all of up to two or three levels over two words, against topics of up to three levels.

### Proofs (`TopicPatternProofs.tla`, `SubscriptionProofs.tla`)

`TopicPatternProofs` is about operators, with no state: `MatchMeans`,
`IntersectMeets` and `MergeRestores` say for any words, and patterns and topics of
any length, what the run checks for two words; they need that a pattern has `#`
only at its end, and `IntersectMeets` a word to stand for a wildcard. The three
theorems about `TopicPattern` are their instances. `Sorted` is what
`getHistoryAfter`'s and `extract`'s results are taken in the order of; `SortedAscends` and
`SortedHasAll` say that it ascends and leaves nothing out. (`SelectSeq`
would have been another form, but its recursion is out of the prover's reach.)

`SubscriptionProofs` holds for any subscriptions, sessions, topics and requests, any
number of pushes and restarts and both engines; `MaxPush` and the ids that the realm
in memory begins with keep ids below 100, which is how far `TextLess` compares texts
(`BoundAssumption`). Its backbone is `StepOf`: the dozen things that a step
can make of one subscription, whatever the other actors do (`TraceStep`). Then each
invariant is kept by each of them:

- `TypeCorrect`, from `Types` with `Once` (an open subscription was not ended).
- `ClosedIsSilentCorrect`, from `Types` and `StepOf` alone.
- `SnapshotReplayOnlyCorrect`. `ReplayInv`: a snapshot holds back no event.
- `WaiterIsLiveCorrect`. `WaitInv` adds that only a snapshot looks for retained
  values after its history, so that no other subscription comes to wait once it is closed.
- `RetainedIsFreshCorrect`. `SerialInv` says that pushes are done one after the other
  and that what is committed has passed the store (`PassedTo`); `FreshInv` carries
  it to the subscription that was told so.
- `InOrderCorrect`. `OrderAll`: the ids of the history ascend (`HistoryAscends`); an
  event that was sent or held back is below any that is still to be dispersed
  (`LowInv`); what is held back comes after what was sent (`InTurn`), and nothing is
  held back once a subscription has started (`Tidy`).
- `NoGapCorrect`. `Complete`: from the moment that a subscription has its history, what it is
  owed was sent or is held back. It is `NoGap` before `flushDelayStack`; afterwards
  nothing is held back. A row of the history and the push with its id have one
  topic (`RowsInv`), so an event that the SELECT came too early for reaches the
  subscription when it is dispersed; in memory the comparison of texts is that of
  numbers where their lengths are equal (`TextOrder`, `IdBound`).

`SnapshotEnds` is liveness and stays with TLC.

## 7. A realm in memory: lock, MQTT sessions, wills

`MemRealm.tla` models a realm of `FoxRouter`: Hyper sessions and the sessions of one
MQTT client, the history in memory, and `MemKeyValueStorage`. Here nothing is
awaited but promises that are resolved already: one step is a push, a packet, or the
end of a session, whose cleanup publishes wills and wakes waiting writes in the same
step. So the operations are functions from a record of the realm to another
(`DoPush`, `PubWhile`, `EraseSessionData`, `Cleanup`), composed as in the code.
`MqttSession.tla` is what the gate keeps of one connection.

| Action | Code |
|---|---|
| `Login`, `Push`, `Close` | Hyper `LOGIN`, `PUSH`, the close of a connection (`removeSession`) |
| `Connect` | `connect`, `joinRealm`: the will is set, the offset of the client is read |
| `Subscribe` | `subscribe`: history after the offset, retained values |
| `Publish`, `Puback`, `Disconnect` | the handlers; an acknowledgement is a push to `$FOX.clientOffset.<clientId>` |

| Property | What it says | Proved |
|---|---|---|
| `TypeOK` | types; a waiting write is of a session that is there | `TypeCorrect` |
| `IsMutex` | the lock of README.md of the repository (a key with when null, watch, will null) implements `Mutex`: one owner, first come first served, whoever leaves neither owns nor waits | `IsMutexCorrect` |
| `LiveOnce` | a live event is written once to a connection, though it matches two of its topics, and live events in their order | `LiveOnceCorrect` |
| `ResumeComplete` | a client that connects again gets all that was stored since the event it acknowledged | `ResumeCompleteCorrect` |
| `WillOnce` | a will is published once if the connection ends without DISCONNECT, else never | `WillOnceCorrect` |

All five are checked by mem_realm.

*Refinement.* The owner is the session of the row, the queue its waiting writes. Each
end of a session must be one step of `Mutex`: the lock goes to the first waiter that
is not of that session. This is why `eraseSessionData` has to drop the waiters of
the session before it erases values (the mutant swaps the two).

*Assumptions.* Sessions of the two gates are different, and so are the two keys. The ids
given lie within one number of digits, from after `FirstId` to `MaxId`
(`IdAssumption`), because the history compares ids as texts. MQTT clients send JSON,
retain nothing at the topic that the gate keeps their offset at, and empty the lock if
they retain anything there (`PacketAssumption`): the lock is that of the Hyper clients.
`WillOnce` tells a will by its topic, so it needs `WillsApart`: the client publishes
nothing else to the topics of its wills. It is a hypothesis of that one theorem.

*Bounds.* Three sessions that lock, try and unlock (owner and two waiters, so that
the order counts), two connections of one client (one before and one after an
acknowledgement), six or seven ids. Locks and wills are explored together, events and
subscriptions without locks (`Scope`): they share no key but through wills. Sessions
and connections are symmetric. Deadlock is not an error: the ids end.

### Proofs (`MemRealmProofs.tla`)

For any Hyper sessions and connections, any packets, wills and filters, and ids as far
as `MaxId`; without the constraint `Scope` of the run.

Operations are functions from realm to realm, so the lemmas say what an operation
makes of a realm in order, and only then what an action does. `IInv` says that the
realm is in order (`RealmOK`): its fields have their types; each row has a value, or
nobody waits for it, and whoever holds it or waits is there (`RowsOK`); the
ids of the history are of events so far; and each session is in order (`SessionOK`).
`LiveOnce` and `ResumeComplete` are parts of `SessionOK` but not inductive: the first
needs that all that was written has ids so far, the second that the text at `OffsetUri`,
after which a session goes on, is such an id too.

- *Folds.* What is sent to a connection is a fold over filters and ids. `FoldChain`
  says that such a fold is the last value of a chain, one value for each place, and
  `UpTo` carries a property along the chain. So each fold has an invariant:
  `Since` for a replay (something is only appended), `HasAll` (every id of every list
  was written). A live event that fits several filters changes a session once.
- *A push* (`Effect`, `Done`): the id rises, the event is kept and told, and one key
  changes, the lock in one of four ways (`LockMoved`). The loop over waiting pushes ends
  at its second turn: what the first turn stores meets no condition `null`.
- *Ends of sessions* (`HyperClosed`, `MqttClosed`): waiters are dropped before values,
  so a key that the session held goes to the first waiter of another session.
- `InvariantCorrect` is `[]IInv`; `TypeCorrect`, `LiveOnceCorrect` and
  `ResumeCompleteCorrect` follow from it.
- `WillOnceCorrect`: `WInv` adds that wills are published as `WillOnce` says
  (`WillsSent`); no other event has their topics (`WillsApart`).
- `IsMutexCorrect`: a step changes owner, queue and who is present as one of the
  actions of `Mutex` does or not at all (`Moves`, `LockStep`), a push according to
  `LockMoved`, an end by `Vacated`.

## 8. Segments: entry, storage and sync nodes

`Segments.tla` follows an event of the distributed mode from the entry node to the
tables. The entry node numbers events within its current segment and publishes them;
storage nodes pipe four topics, one after the other, over a connection that may be
lost; the first to hear of a segment closes it (TRIM); its end is relayed to sync
nodes; when it is resolved a storage node writes its buffer in a transaction.

| Action | Code |
|---|---|
| `Push` = `PushOpens` or `PushJoins` | `NetEngine.doPush`, `saveHistory`, `getSegment` |
| `TrimArrived` | `event_trim_advance_segment` |
| `SyncConnected`, `InitEntryAccepted` | `listenEntry` of a sync node; `event_init_entry_accepted` |
| `OpenPipe` | `StorageTask.listenEntry`, one pipe at a time |
| `NdbReceives` | the subscriptions of `StorageTask`: BEGIN, KEEP, OVER |
| `SegmentResolved`, `SaveRow`, `SaveCommitted` | `commit_segment`, `dbSaveSegment` |
| `GenerateDraft` | `event_generate_draft`, as far as it remembers the last segment |
| `LinkLost`, `SaveFailed`, `NdbRestart`, `EntryRestart` | `HyperNetClient` connects again; ROLLBACK; the processes start again |

Three of the pipes are subscriptions at the entry node and end with the connection. That
of TRIM is a subscription of the storage node to its own realm, so it survives a lost
connection (`exporting`) and is opened once more on the next one; the second TRIM of a
segment is only logged.

The choice of the id is the matter of `Synchronizer`; here a segment with a quorum of
drafts may be resolved, once on each storage node, at any time. So a storage node may
be told before the events have reached it, as in the code, where another node can
relay the end faster.

| Property | What it says | Proved |
|---|---|---|
| `TypeOK` | types; the current segment is not above the recent one | `TypeCorrect` |
| `IdIsOffset` | the position under which a storage node writes an event is the offset that the entry node gave it, or the node logged an error for the segment: two storage nodes agree on ids | `IdIsOffsetCorrect` |
| `FreshAfterInit` | after the handshake a restarted entry node is past every segment elected before, though its clock is behind | `FreshAfterInitCorrect` |
| `SegmentEnds` | a segment ends once a storage node whose TRIM pipe is open hears of it and keeps its connection | liveness: TLC only |

*Fairness.* A message on a connection arrives unless the connection is lost.

*Assumption.* The quorum of the entry node and that of the sync nodes add up to more
than there are sync nodes (`QuorumAssumption`); the two are configured apart from
each other, and `FreshAfterInit` needs it.

*Bounds.* Two storage nodes (one may miss what the other gets), three sync nodes with
both quorums 2, two segments, two events, one fault of any kind. Two explorations do
not mix (`Scope`): storing a segment on both nodes, and drafts for both segments with
the handshake after a restart. A segment above the first that begins after a fault has
one storage node. Sync nodes are taken in an order, in place of symmetry.

### Proofs (`SegmentsProofs.tla`)

For any storage and sync nodes, any numbers of segments, events and faults, and
quorums that satisfy `QuorumAssumption`; without the constraint `Scope` of the run.

- `TypeCorrect`, from `Types`, which says what is on the links too.
- `IdIsOffsetCorrect`. `IdInv` adds the same of the buffers (`BufferIsOffset`): a
  storage node that gets an event out of place logs an error, and what it writes
  is what its buffer held. No order of the links is needed, and no fault
  breaks it: a lost event shows as one out of place.
- `FreshAfterInitCorrect`. `FreshInv` says that a sync node has seen what it drafted
  for (`DraftSeen`), so that a quorum can tell the entry node of the last elected
  segment (`ElectorsTell`) from the moment it starts; the quorum that answers the
  handshake shares a node with it (`QuorumsMeet`).

`SegmentEnds` is liveness and stays with TLC.

## 9. What the code does besides

Facts met while modelling that no run states, because no document promises otherwise
or the part is not modelled. They are worth a look by whoever works on these files.

- *MQTT offset.* A second PUBACK merges two texts (`deepMerge`): the stored offset
  becomes an object of letters and the next SUBSCRIBE with it is refused
  (`mqtt/gate.ts` 283-290; `Merged` in `MqttSession`, guard of `Subscribe`).
- `mono/memkv.ts`: a woken write is merged with the value from before the first turn
  (line 54); a conditional write with watch on an absent key, whose condition is not
  null, is put in a list that is not stored (81); deleting a value drops its waiters
  when none fits; wills of stores with a pattern other than `#` go to the key, not the
  topic (115).
- *Stores with fixed levels.* `getKey` extracts the levels of the subscription's
  pattern; for `#` and a store on `cache.*.name.#` nothing is left and nothing found
  (`realm.ts` 850).
- *Replay.* Replayed events have no flag trace, so MQTT sends them with QoS 0; two
  topics that overlap replay the history twice; `sendEvent` deletes the flag trace of
  the event that other subscribers still get (`realm.ts` 197). An MQTT client with an
  id that subscribes to `#` acknowledges its own acknowledgements.
- *Realms that are launched.* LOGIN and CONNECT go on when the realm is there, also
  if the connection is closed by then, and a second LOGIN throws in a promise
  (`hyper/gate.ts` 169).
- *Entry node.* `entry.ts` builds `NetEngineMill` (28) before `setId` (30): the
  subscription for INIT_ENTRY_ACCEPTED has no node id in its topic and the ports of
  WAMP and MQTT are never opened. `Segments` models the node as it is with its id set
  first. ADVANCE_SEGMENT_RESOLVED is published without node id and is not piped to the
  entry node, so clients are not confirmed and `localSegments` grows; nothing publishes
  `dispatchEvent`, so subscribers at entry nodes get no events.
- *Segments.* An event that comes before any storage node has opened its fourth pipe
  opens a segment that never ends. A segment resolved while another is saved on the
  same connection is not saved (BEGIN TRANSACTION fails) nor tried again; one resolved
  before its events came is saved in part or never; a restarted storage node has lost
  its buffers. `ensureRealm` may create a table in a transaction that is rolled back.
- *Sync nodes* keep what they have seen in memory: after a restart they answer 0 in
  the handshake, and positions of the current minute start again.

## 10. Not modelled, and why

- *WAMP gate and client api, Hyper client's pending commands.* They translate; what
  reaches the realm is in `Dealer` and `Subscription`. Encodings and web sockets have
  no state that the properties need.
- *Authentication and asynchronous joins* (section 9): the handlers call code that the
  application supplies.
- *Parsers of topics and texts of ids*, other than the comparison in memory.
- *Filters over deep JSON, payloads of bytes*: data are a few values.
- *Send functions that throw*, and registrations with a reducer, in `Dealer`; restarts
  of sync nodes; `applySegment` of the store, which nothing calls;
  failing statements of the store.
- *Extensions, launchers, configuration*: they observe or wire.

Liveness (`QueuedCallServed`, `CleanupEnds`, `SnapshotEnds`, `SegmentEnds`) is checked
by TLC only; the prover handles neither fairness nor ENABLED. A constraint of a run
(`Scope`) cuts behaviours off: liveness is checked within it. The bounds of a run are
its constants; the proofs hold for all of them.
