# A formal model of asyncmachine-go

TLA+ modules for the core of [asyncmachine-go](/README.md), checked with TLC on small
instances and, where it says so, proved with TLAPS for all instances. `PROJECT.json` lists
components, runs, the source lines behind each definition, hazards and theorems.

## The system

asyncmachine-go is a state machine library in which many states are active at once, and a
set of packages on top of it.

| Part | Source | Model |
| --- | --- | --- |
| Mutation queue | `pkg/machine/machine.go`, `mutation.go` | `Queue` |
| Queue subscriptions | `pkg/machine/subscriptions.go` | `Queue` |
| Disposal | `pkg/machine/machine.go` | `Queue` (the queue's side of it) |
| Relations and schema | `pkg/machine/relations.go`, `schema.go` | `Relations`, `Slices` (list helpers) |
| Transitions and clocks | `pkg/machine/transition.go`, `machine.go` | `Transition` |
| Handler goroutines | `pkg/machine/machine.go` | `HandlerLoop` |
| State subscriptions, contexts | `pkg/machine/subscriptions.go` | `Subscriptions` (all but `WhenArgs`) |
| SetSchema, Export, Import | `pkg/machine/machine.go` | not modelled |
| aRPC (server, client, network machine) | `pkg/rpc` | `RpcSync`, `Replica` (how clocks travel), `RpcClient` (the client's connection) |
| Node supervisor | `pkg/node` | `Supervisor` |
| History | `pkg/history` | `History`, `HistoryQuery` (`FindLatest`) |
| Pipes, shared schemas | `pkg/states` | the schema of connections, in `RpcClient` |
| PubSub | `pkg/pubsub` | not modelled |
| Helpers, graph | `pkg/helpers`, `pkg/graph` | no state of their own worth modelling |
| Telemetry, integrations, tools | `pkg/telemetry`, `pkg/integrations`, `tools` | presentation and I/O |

A mutation (`Add`, `Remove`, `Set`) is put in the queue of its machine. The goroutine that
wins `queueProcessing` processes the queue until it is empty; the others get a queue tick
back. Every mutation taken becomes a transition: relations resolve the target states,
negotiation handlers may reject them, clocks tick, final handlers run. Handlers are called on
a goroutine of their own, with a timeout and a deadline. An accepted transition closes the
channels that wait for it and may prepend an auto mutation.

The modules cut this along the lines that make it tractable. `Queue` has the goroutines and
the steps of `processQueue`, with a transition reduced to one step and its outcome.
`Transition`, on top of `Relations`, has the steps of one transition at a time, which
`ProcessorLock` of `Queue` justifies until `Dispose`. `HandlerLoop` has one call of a handler
at a time, as `Transition` makes them, and the goroutines that serve it. `Subscriptions` has
the steps of a transition that change and report active states, with target states chosen
freely, and the callers in between; that clocks tell active states is `ClockParity` of
`Transition`. Above the machine, `RpcSync` has what goes on between a source machine, the server
that exports it and a client with its replica; the source is reduced to the clock which its
transitions advance. `RpcClient` has the machine that a client is itself, in which connections are
made, lost and retried; `RpcSync` takes the result of it, connections that come and go. `History` has a tracer of a machine and the goroutines of its databases.
`Supervisor` and `RpcClient` are applications of the library: their schemas are resolved by
`Relations`, their handlers and goroutines talk through the queue, which is processed one transition
at a time.

## Modules

### Queue

One action per atomic access or critical section of `queueMutation`, `PrependMut`,
`processQueue`, `WhenQueue`, `WhenQueueEnds` and `doDispose`. `pc` says where a goroutine is;
the names of the other variables are the fields' names. `queueLen` is not a variable: it is
only stored where `queue` changes, under `queueMx`. `mxLost` stands for a `queueMx` locked by
a goroutine that returned (`processQueue`, "missing queue item").

Transitions end in the ways of `Outcomes`: accepted, accepted with an auto mutation
prepended, canceled, a panic (`recoverToErr` prepends `Exception`), or a handler past its
deadline (the queue is cleared, `Exception` is appended, `Backoff` begins). Mutations call one
state, without relations. A refused call changes nothing and is not a step. `fate` is a
history variable for the properties.

`Dispose` clears `queueProcessing`; a mutation made from inside a transition could then process
the queue on the same stack. That recursion is not modelled: once `Dispose` was called,
transitions are accepted or canceled and make no mutations (`NoReentry`).

### Relations

Operators, no state: `Schema.Parse`, `parseAdd`, `parseRequire`, `stateBlockedBy`,
`SortStates`, `TargetStates`, `NewAutoMutation`, `statesToSet`. Lists of states are
sequences, since their order matters to blocking and to handlers; relation lists are sets,
walked in the order of the state index. `Slices` has what pkg/machine does with lists; functions passed to
its helpers are given by the set of what they hold for. `SliceStable` is Go's insertion sort for short
lists, step by step, because the comparison that `SortStates` uses is not an ordering and
its result depends on the algorithm. `Topologies` gives all the orders the code may arrive at, as it
walks a map.

### Transition

`newTransition`, `emitEvents`, `setActiveStates` and `recoverFinalPhase`. Negotiation is one
step, since nothing changes before it ends: `Cancel`, `Accept(R)` with the Auto states `R`
that an auto transition lost, or `ExitRejected`. Final handlers are one step each, since
other goroutines see the active states and clocks between them. A panic repairs the active
states once in `recoverToErr` and once in `emitEvents`, a timeout once. The mutations that
a transition prepends are in `prepended`, and come next.

### HandlerLoop

`processHandlers` and the `handlerLoop` goroutines, which exchange calls, results and panics
through unbuffered channels, each a joint step. Loops left behind by a deadline go on
and answer late. Call `n` starts loop `n + 1`, if any. `past` is a history variable: whether a
handler has hung past its deadline, and whether a panic in a mutation of `Exception` has left
the machine without a loop. Properties which only hold before that say so.

### Subscriptions

`When`, `WhenNot`, `WhenTime`, `WhenTimeSum`, `WhenQuery` and `NewStateCtx`, each under
`activeStatesMx` and so one step, may come between the steps of a transition:
`setActiveStates`, `ProcessStateCtx`, and `processSubscriptions` or a failed final handler.
Bindings go by the request they were made for. Lists of a state are sets (their order does not
matter), the list of `WhenTimeSum` is a sequence (it does). The maps from contexts to bindings
are one set, `byCtx`, as a request has its operation and its context. The counters of bindings
are kept the way the code does, from differences; the shortcuts in removing bindings (a list of one
is deleted unseen) are kept, too. A failed transition reports nothing, which the history
variables `missed` and `skipped` remember.

### Replica and RpcSync

`Replica` is what a user of a `NetworkMachine` may count on: it shows a clock that its source
has had (`past`), or there is an excuse. `RpcSync` is how pkg/rpc does it. The source's
transitions are two steps (the queue tick when one starts, the clocks when states are set),
and a third calls `sourceTracer.TransitionEnd`. `lock` is `lockExport`: `PushClient` and remote
calls hold it, and change `latest` and `last` (`dataLatest`, `lastPushData`). An update carries
differences, taken modulo the width of their types, and a checksum of one byte. `RemoteHello`,
`RemoteHandshake`, `RemoteMutation` (`RemoteAdd`, `RemoteRemove` and `RemoteSet`),
`RemoteAddNS` and `RemoteSync` are the server's calls; `Connect`, `Handshaken`,
`HandshakeDoneState`, `RemoteUpdate`, `MutationReply`, `SyncReply` and `Disconnect` the
client's. Replies are written after handlers return (`outbox`) and share the connection with
pushes (`wire`); a broken connection drops what is on it, and the server hears of it later
(`due`). The RPC library itself (`Open`, `Reply`, `ReceiveReply`) is modelled from its use.

Options are the defaults: all states tracked, schema synced, deep clocks, no mutation log; the
source was not imported. `odd` remembers the excuses: an update between data that are not two
clocks of the source in their order ("irregular": the first push has no times, a canceled
transition is noted as pushed without being sent, data older than the last push wraps), a
difference applied to a clock more than a checksum away ("wrapped"), and a `Sync` that read
time and queue tick of different moments ("torn").

### RpcClient

`ClientSchema` with the states of the connection, resolved by `Relations`. A transition with its
handlers and the auto mutation that follows is one step (`Process`), as both come before the next
mutation of the queue. Handlers change a record of the machine and the client (`st`) and start goroutines
(`gos`): each has the state whose context it checks, whether that context is live, where it waits, the
connection it waits for and the number of its try. What it does from one wait to the next is one step, and
its mutations are appended together; where code goes on without a look at its context, the
goroutine stays after the state is left, and its mutation comes late (`ConnectedAdd`, `RefusedErr`, `HandshakeEnd`,
`Close`). `Expire` ends the others. `conn`, `rpc` and `round` are `Client.Conn`, `Client.rpc` and
`connRetryRound`. The network refuses, loses or mutes a connection, or answers too late, up to `MaxFaults` times.
TCP without TLS is dialed, answers of the server are valid, `rpc.Close` does not hang, and `ReconnectOnDisconn`
is on.

### History

One module for the four backends, as they are copies of each other which differ in what
matters: the filters (`MatchMemory` and so on), how batches are written (`SaveBbolt`,
`SaveBadger`: one transaction; `SaveGorm`: three statements from a pool), how old records are
deleted, and, in `HistoryQuery`, how queries walk them (`Scan` is the cursor of bbolt and badger, which reads a record
and the one before). A record is its id and its place among all records, which stands for
its times. `tracer` is a transition's call of the tracer with `tracersMx` locked; `mx` and the
`locked` field of a job are `mx` and `syncMx`. `MachineInit` is a crash at any moment and a
restart on the same database. `swapped` and `gone` are history variables.

### Supervisor

`SupervisorSchema` with the states that the pool uses, resolved by `Relations`. A transition is
one step (`Process`): relations, negotiation (`Negotiated`), and the final handlers in their
order, which make mutations (`Put`, `Del`) and start goroutines. `norm` and `heart` are the
goroutines of `NormalizingPool` and `Heartbeat`; what one makes in a row is appended together.
`forks` has, for each worker, its bootstrap with its timeout, its process, its connection, its entry
in the map and its errors. Faults (a failing fork, a late list, a crash, a lost connection, a
worker that does not answer, a call of `CheckPool`) may happen up to `MaxFaults` times in any
state; a timeout that is a consequence of one is not another one. The process of an entry is nil, as the
code reads it before it starts the command, so killing a worker panics (`KillingWorkerState`),
and `WorkerKilled` is not reached.

## Runs

| Run | Shows |
| --- | --- |
| `QueueCore` | two goroutines, all outcomes, `Dispose`: ticks and every mutation are accounted for throughout, the processor's flag and the mutex until `Dispose` |
| `QueueLive` | calls return; a waiter for an accepted mutation wakes up |
| `Transition` | up to three relations between three states, and Auto and Multi states with handlers that reject, panic or time out: requirements, exclusion, results, order of handlers, clocks, dropped states |
| `HandlerLoop` | handlers that panic, time out, hang and come back late: one loop in service and calls end until a handler of `Exception` panics; each answer to its own call until a handler hangs |
| `Subscriptions` | every open channel is indexed, counters are exact, no wake-up is missed or early, state contexts have the current tick |
| `RpcSync` | connections made, lost and made again, remote mutations, `Sync`, pushes that overtake replies: the replica shows a past clock or has an excuse, a call sees its own mutation, calls return |
| `RpcClient` | a client that is started, stopped, called and told bye, two connections and two faults anywhere: it does not rest without a connection, notices that one is lost, ends its disconnecting, and calls return |
| `History` | four backends, batches, collection, `Sync`, `Dispose`, an expired context, a crash: records are accounted for, queries and collection keep the newest, ids go on |
| `Supervisor` | a pool of two workers with a fault anywhere: goroutines and their states agree, a reported worker is known, normalization, heartbeats and bootstraps end |
| `QueueLostWakeup` | violation: a queued mutation is left in the queue |
| `RpcDrift` | violation: a replica that missed an update stays behind a source at rest |
| `SupervisorHeartbeat` | violation: a normalized pool that loses a worker is not normalized again |

Deadlock is not checked: a machine nobody calls has nothing to do, and the bounds end every
behaviour.

### Bounds

* `MaxMuts` mutations in a behaviour of `Queue`, 2 to 3: enough for one in execution, one
  queued and one prepended or lost in a race, with a queue limit of 1 to 3. Two goroutines
  are enough for every race found; the proofs cover any number.
* Schemas of three states and `Exception`, with up to three relations (one, with failing
  handlers), and up to renaming; mutations with one or two states.
* `MaxTick`: no mutations after a clock reaches it, so every state can be set, removed and
  set again (without failing handlers), or set and removed.
* `MaxOpen` channels open at a time, 2, so that two bindings share a list; one context, shared by
  one request of each kind; two states, one of them Multi.
* `RpcSync`: one state, `MaxTx` transitions of the source besides remote mutations, two
  connections, so that the second meets what the first left, and one call. The moduli are small,
  so that checksums wrap; the proofs have them arbitrary.
* `RpcClient`: two connections, so that goroutines of the first meet the second, two faults, two uses of
  the API, one retry of a connection and of a call. Once both connections are used, dials are refused.
  `MaxQueued` only holds back goroutines and callers, never the queue.
* `History`: `MaxSeq` records (enough for two batches and a collection), one crash, lists of
  filters over one state.
* `Supervisor`: two workers, which is `Max` and `Min`, one round of normalization, one fault. With
  two rounds, two faults or `Min` 1 (not kept as runs, since they take longer) it passes, too. `MaxQueued`
  only holds back goroutines, never the queue.
* `MaxCalls` handler calls: one that hangs, one that panics, and two whose answers can be
  mistaken.

### Fairness

`Queue`: weak fairness of every goroutine's own steps once it has called the machine, and of the
disposal; Go's scheduler runs every runnable goroutine, and blocked locks are guards. Nobody
is obliged to call anything. `HandlerLoop`: weak fairness of the channels' operations, of the
loops' own steps and of timers; none for handlers, which may hang. `RpcSync`: weak fairness of
the source's started transitions, of the server's and the client's goroutines, and of messages on a
connection that is not lost; none for connections to be lost or made. `History`: the goroutines of jobs
and collection, and calls in progress; strong fairness for the lock of `Dispose`, as Go's mutex does not starve
a waiter. `Supervisor`: the queue, goroutines and timers go on, workers that run report and answer; since
`MaxQueued` may hold back a goroutine for a while, these are written as "not enabled by the code's own
guards again and again, or taken again and again". The checks of a round of normalization end, as
`ConnTimeout` limits them. `RpcClient`: the queue is processed, dials end, timers fire, a shut connection is
noticed, and a call gets its answer unless the server is mute; strong fairness for a call that waits for
`Ready`, as the channel of `When1` stays closed once `Ready` was there. Nothing is lost or muted by fairness.

## Proofs

| Theorem | Module | Says |
| --- | --- | --- |
| `TypeCorrect`, `LedgerCorrect` | `QueueProofs` | `[]TypeOK`, `[]TickLedger` |
| `OneProcessor`, `TickOrder`, `NoMissingItem` | `QueueProofs` | `[]ProcessorLock`, `[]PoppedTick`, `[]MutexKept` |
| `NoneLostOrTwice` | `QueueProofs` | `[]Conservation` |
| `ClocksTellStates` | `TransitionProofs` | `[]ClockParity` |
| `RequirementsMet`, `NoneRemoved` | `TransitionProofs` | `[]RequireClosed`, `[]RemoveExclusive` |
| `GreatestKept`, `RequirementsFirst` | `TransitionProofs` | `[]RequireGreatest`, `[]RequiredFirst` |
| `HonestResults`, `FailedLeaveOut` | `TransitionProofs` | `ResultHonest`, `FailedDropped`, action properties |
| `TypeCorrect`, `OneLoopInService`, `LockCorrect` | `HandlerLoopProofs` | `[]TypeOK`, `[]LoopInService`, `[]LockHeld` |
| `AnswersOwn` | `HandlerLoopProofs` | `OwnAnswer`, an action property |
| `AllIndexed`, `CountsStayExact`, `NobodyMissed` | `SubscriptionsProofs` | `[]Indexed`, `[]CountsExact`, `[]NoMissedWakeup` |
| `NoneEarly` | `SubscriptionsProofs` | `ClosedWhenMet`, an action property |
| `CtxsCurrent` | `SubscriptionsProofs` | `[]StateCtxCurrent` |
| `AlwaysSnapshot`, `AlwaysDerived` | `RpcSyncProofs` | `[]Snapshot`, `[]Derived` |
| `WritesAreRead` | `RpcSyncProofs` | `ReadYourWrites`, an action property |
| `Refinement` | `RpcSyncProofs` | `RpcSync` implements `Replica` (`ShowsPast`) |
| `AllAccounted`, `IdsResume`, `RowsStayWhole` | `HistoryProofs` | `[]Accounted`, `[]ResumesAfter`, `[]RowsWhole` |
| `LatestKept` | `HistoryProofs` | `GcKeepsLatest`, an action property |
| `LatestFound` | `HistoryProofs` | `[]QueryLatest` |

`TypeOK`, `LockHeld`, `Snapshot` (a part of what `ShowsPast` says) and `Derived` are left to the proofs; the
others are checked by runs, too.

They hold for every value of the constants allowed by the assumptions `QueueAssumption`,
`RelationsAssumption` (the index of states is a list), `TransitionAssumption`, `HandlerLoopAssumption`, `SubscriptionsAssumption`, `RpcSyncAssumption` and
`HistoryAssumption`, which say no more than the types of the constants (a machine has a finite number of
states), and `SumAssumption`, three facts about sums of clocks that TLC evaluates.

* The type of `queueTicksPending`, a natural number, is inductive only together with
  `TickLedger`: a shift may decrement it because the ledger says that a queued
  mutation with a tick has a pending one.
* `ProcessorLock`, `PoppedTick` and `MutexKept` hold until `Dispose`, and are inductive
  together with "no goroutine disposes yet" (`LockInv`): only the holder of
  `queueProcessing` takes mutations, so what it saw in the queue is still there.
* `Conservation` counts the places of a mutation. `Once` says the same without cardinalities: no two
  indexes of the queue and no two processors have one mutation, none is in both, and `fate` is "queued"
  exactly for those in one of them; inserting, shifting and clearing are followed by index.
* `ClockParity` is not inductive: a step of a failed final handler ticks clocks twice. `ParityInv`
  keeps clocks and states in step through both.
* The relations of active states follow from what `TargetStates` guarantees for any list of states
  (`TargetsResolved`), and from an invariant that carries it through a transition (`Settled`): targets are resolved,
  become active in one step, and lose states in a failed final phase only; until then the states and clocks of before are
  still there. `RemoveExclusive` survives the repair because a subset of an exclusive set is exclusive, while
  `RequireClosed` does not, and excepts schemas whose handlers may fail.
* What `TargetStates` guarantees is proved operator by operator: each pass of `ParseRequire` that drops
  nothing has reached the fixpoint, and a pass that drops something shortens the list, so as many passes as there are
  states suffice; every closed subset of the list survives each pass, so what is left is the greatest one;
  insertion keeps a list sorted if elements are compared by a key (`InsertSorted`), as `sortRequire` does with places in the topology and
  `After` does not; sorting, `Uniq` and `Reverse` keep the set of elements.
* `LoopInService` needs that the loops not started yet are those with numbers above the current
  call, and says nothing once `past` has recorded a lost loop.
* `OwnAnswer` needs that, until a handler hangs, a loop with a job or a result has that of the current call
  (`OwnJob`): loops that were replaced are not given calls, and a timeout is waited for.
* `SubInv` of `SubscriptionsProofs` ties four records of one thing together: which channels are open, which lists
  they are in (`Listing`), what their counters have seen (`Waiting`) and which clocks a transition in progress has
  changed (`Moving`). A counter is exact for the states it was told of (`Told`: not changed by the transition in
  progress, nor by a failed one), and is not complete, or the channel would be closed. So nothing that is the case
  is waited for. `ProcessWhenTimeSum` may stop at the first later time because the list is sorted (`Sums`); a list of one
  may be deleted unseen because what is deleted is in it (`GcListRemoves`); a request without states never
  waits, which is why `dispose` finds everyone in the list of a state.
* State contexts have an invariant of their own (`CtxInv`): before contexts are processed, a context has the tick
  from before the transition or the new one.
* `Snapshot` needs that all data in the server, in replies and on the wire are clocks of the source
  (`Derived`), that `hist` only grows and is ordered, and then arithmetic: a difference between two
  clocks of the source, added to a third one less than a checksum away, has the right checksum
  only if the third is the one the difference starts from. The refinement adds that each step changes
  `net` in one of the ways of `Replica`.
* `ReadYourWrites` needs that what a reply promises (`own`) is at most what its difference leads to, or that the
  `Sync` which replaces a refused difference is served after the mutation (`CallInv`).
* `Accounted` needs that the queue and the jobs have disjoint records, with the ids and places that were given
  out (`Ledger`); `ResumesAfter` that the next id of each job is above its records and the ids of batches are
  in order until one was saved out of order (`HistInv`); `GcKeepsLatest` that ids and saved records keep pace
  (`Counted`), so that the unsigned difference does not wrap, and that the id badger read at the start of a
  collection is still old enough (`Collecting`).
* `QueryLatest` needs that, in the first process, ids are places and nothing collected is saved again
  (`First`); with nothing pending and no hole, the ids in the database are an interval. Then the loop of bbolt and badger
  is followed pass by pass: after `p` passes it has looked at the `p` newest records, has their matches, with 0
  for the newest one, and the next record in hand (`Scanned`). It ends with the oldest record in hand, which it looks at only if
  it is the only one, or with `limit` matches. In the loops of all backends the list is, at any moment, that of the matches above some
  id, from the newest to the oldest (`Lists`), so it is all of them or the newest ones.

Operators on lists and sets are folds and recursive functions. `SlicesProofs` derives, from the well-founded order
of natural numbers, that these functions exist and that what holds for the empty list or set and is kept by
each element holds in the end (`UpTo`, `Subsets`, `SomeTrace`). The statements take sets instead of predicates as
parameters, as the provers cannot instantiate an operator. On top of these it has what `Filter`, `Uniq`, `SliceStable` and
the others return. `SubscriptionsFacts` has the same for the operators of `Subscriptions`. `HistoryProofs` has its own version for
the two loops of `FindLatest` (`UpTo`, `SomeLoop`).

Only model-checked:

* liveness, and what needs fairness, which TLAPS does not prove;
* `GoroutinesOwned` and `ForkedKnown` of `Supervisor` and `NeverStranded` of `RpcClient`: their transitions are the result of
  relations for one concrete schema of many states, in each set of active states that can be reached. TLC computes it; for a
  proof the resolver would have to be executed by the provers, a case for each mutation and set of states.

## Differences between the code and its documentation

The violation runs state what the repository says, and `PROJECT.json` quotes it. Others were met
while modelling, and have no run of their own:

* Two processors after `Dispose` can see one mutation; the slower one returns from `processQueue`
  with `queueMx` locked ("missing queue item"), and `doDispose` waits for it forever, although "You can wait for
  the completion of the disposal with `<-mach.WhenDisposed()`".
* `TargetStates` applies `parseAdd` once more after blocked states were dropped, and does not check the
  states implied then: two states can be active, one of which Removes the other ("Relations
  guarantee consistency among active states").
* `emitExitEvents` deletes a rejected exiting Auto state from the targets, where it is not:
  `slices.Delete` panics on the goroutine that processes the queue (`ExitRejected`).
* `recoverToErr` returns early in a mutation which called `Exception`, before it starts a new handler
  loop: the next call of a handler blocks, without a timeout (`past` of `HandlerLoop`).
* `When` for two states closes in a transition which activates one and deactivates the other
  (`Complete` of `Subscriptions`).
* `WhenQueue` closes once its mutation is taken from the queue, before the transition, and is
  only looked at after accepted transitions.
* `WhenQueueEnds` reads `queueRunning` before it takes `queueMx` and may miss the end.
* The last `queueRunning.Store(false)` of a processor may overwrite the next one's `true`.
* `processQueue` returns the first result of its run, not that of the caller's mutation.
* `detectQueueDuplicates` does not look for counter mutations.
* `QueueLimit` is read before the lock, and exceeded by concurrent callers and by
  prepended mutations.
* A panic in an Auto state's negotiation handler does not cancel an auto transition.
* A panic in an `End` handler removes no states; the repair ticks called Multi states again.
* The recheck of an auto transition may bring a rejected state back through `Add`.
* `After` is not respected between states that are not neighbours in the list to sort.
* A handler that returns right after its deadline may answer the next call.
* A handler that returns between timeout and deadline causes no `Exception`.
* A transition with a failed final handler changes clocks and states, and processes no
  subscriptions: `When` may miss a state that stays active, or count one that is gone, until
  the state changes again; the context of a state dropped by the repair is not canceled.
* `processWhenQueryCtx` deletes a done context from `whenArgsCtx` instead of `whenQueryCtx`. The
  next transition collects the same binding again, which drops the only other query, or panics
  in `slices.Delete` with `activeStatesMx` locked. `processWhenTimeSumCtx` deletes from
  `whenTimeCtx`; there the second collection is harmless.
* `WhenTimeSum` shares a channel between callers with different contexts.
* `WhenQuery` does not call its function before the next transition.
* `NewStateCtx` of an inactive state is not canceled right away, as its comment says, but with the
  next activation. A context made between `setActiveStates` and `ProcessStateCtx` is canceled
  at once, although its state stays active.
* `dispose` leaves the channels of `WhenTimeSum` and `WhenQuery` open.


aRPC:

* The first push after a connection compares with no clock, or is made from the initial data;
  a canceled transition is noted as pushed though nothing is sent; data older than the last push gives
  wrapped differences with a matching checksum.
* `RemoteSync` reads time and queue tick separately, and does not tell the next push about it.
* `OnDisconnect` of an old connection takes `ClientConnected` from the new one; `RemoteHandshake`
  returns no error when `HandshakeDone` is rejected.
* `RemoteUpdateMutations` calls `Sync` on the reader's goroutine, which waits for itself.
* `notifyFailsafe` never sets `worked`; a retried mutation may run twice.
* A handshake that fails adds `RetryingConn` ("send hello or retry conn", "confirm the handshake or retry
  conn"), which the active `Connected` Removes: the mutation is canceled, and the client stays in
  `Handshaking` (the first exception of `NeverStranded`).
* `ErrNetwork` ("Try to RetryingConn on ErrNetwork") removes `Connecting` in a transition of its own, so
  that `DisconnectedState`, which comes with the auto mutation, does not find it in the states of before.
  A call made during the first `Connecting`, or the late error of an earlier dial, leaves the client started and
  disconnected for good (the second exception).
* `call` gives `ctx` and not `callCtx` to the library, so `CallTimeout` ("the maximum time to wait for a
  call to complete") only turns late answers into errors.
* `connRetryRound` is reset by `ConnectedState` only: after `ConnRetryFailed` the next `Start` has no retries.
* `WaitForErrAny` waits for its timer twice and never for the machine's error.
* `Stop` is canceled while the client dials, and overtaken by a `Connected` that was about to be added. With
  `Conn` reset by a late `ErrNetwork`, a `Stop` that is canceled also cancels the `Disconnected` of a lost
  connection, and the client stays `Ready` (the exception of `LossNoticed`).
* A retry's `Connecting` that comes after `Connected` takes a new connection down again; if every one did, the
  client would reconnect forever. So `NeverStranded` says that it never rests, not that it gets `Ready`.
* `updateStatesSchema` leaves the active states of the replica as they were.

History:

* The allow lists of bbolt and badger, and that of called states in gorm, track what is not listed.
* The tracers of bbolt and badger dispose the history of an expired context from inside a transition,
  which waits for its own lock.
* A job of gorm that finds the history disposed keeps `syncMx`: `Sync` hangs.
* `Sync` returns before its records are written; `Dispose` drops queued ones.
* Batches may be saved in another order. A crash then leaves a hole, and ids are given again: gorm
  refuses such records, badger overwrites the old ones.
* `GetMachine` of bbolt decodes into nil, so a history begins at id 1 after every restart.
* The cursor of bbolt and badger leaves out the oldest record, and passes without an older record
  return one object several times ("from the newest to the oldest").
* Conditions on states skip an iteration of the inner loop only, so they filter nothing.

Supervisor:

* After `ErrPool`, `PoolNormalized` is canceled and `NormalizingPool` stays active without a goroutine;
  `CheckPool` cannot start it again.
* After two errors in a row `ErrWorker` stays active, and further errors are not handled.
* `ForkingWorkerEnter` compares `Max` with a map which queued `SetWorker` mutations have yet to fill.
* Killing a worker panics, as the process in its entry is nil; entries never leave the map.
* A heartbeat without ready workers does not look at `PoolReady`.
* `ProvideWorker` continues with the next worker if one has accepted, and then returns.

## Not modelled

* `WhenArgs`, `SetSchema`, `Export`, `Import`, `SetClock`, `QueueFlush`; the closing of internal channels by
  `doDispose`.
* The listening side of aRPC's server, whose order of events depends on the RPC library's callbacks, which are not in the
  repository; websockets; payloads, shallow clocks, mutation logs and partial tracking; the mux;
  handlers and subscriptions of a `NetworkMachine`.
* The worker's and the client's side of pkg/node.
* PubSub, whose delivery and peers libp2p defines, and pipes, which are calls of the mutation methods
  from handlers, without state of their own.
* Helpers, graph, telemetry, integrations, tools: presentation, formatting and I/O, a large part
  of the repository's lines, with no protocol of their own.
