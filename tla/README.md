# Open Match 2 (om-core): a TLA+ verification project

om-core, the server of Open Match 2, keeps no database: every instance holds a
replica of all ticket state in memory, every change of ticket state goes through
one Redis stream, and matchmaking functions (MMFs) are given pools of active
tickets from the replica. What can go wrong in it is concurrency: six kinds of
goroutines share maps, channels, wait groups and contexts without a lock, and
replication is asynchronous, bounded, trimmed and restarted. That is what the
modules here model. Paths below are relative to the repository root.

## 1. Inventory

| Part | Source | State it keeps | Operations |
|---|---|---|---|
| Replicated ticket cache | `internal/statestore/cache/replicatedticketcache.go` | the maps `Tickets`, `InactiveSet`, `Assignments` (`sync.Map`), the channel `UpRequests` | `OutgoingReplicationQueue`, `IncomingReplicationQueue` (a polling goroutine, a channel, an applier that also expires) |
| Redis replicator | `internal/statestore/redis/redis.go` | the stream `om-replication`, the last id read | `SendUpdates`, `GetUpdates` |
| Redis connections, start-up and signals | `redis.go` 57-345, `main.go` 69-135, `server.go` | a read and a write connection pool, two signal channels, a context | `New`, dials with retries, `main`, `start` |
| gRPC handlers for updates | `main.go` 190-566, 1191-1255 | a results channel per call | `CreateTicket`, `ActivateTickets`, `DeactivateTickets`, `CreateAssignments` |
| InvokeMatchmakingFunctions | `main.go` 585-1177 | a context, `matchChan`, three wait groups per call | snapshot, pools, chunks, fan-out per MMF, deactivation per match, fan-in |
| Pool filters | `internal/filter/filter.go` | none | `ValidatePoolFilters`, `In` |
| Ticket validation | `main.go` 255-335 | none | `validateAndMarshalIncomingTicket` |
| WatchAssignments (deprecated) | `main.go` 1265-1336 | a channel and a goroutine per ticket id | polling `Assignments` |
| In-memory replicator | `internal/statestore/memory/memory.go` | a local slice of updates | the same interface, for tests and development |
| Configuration, gateway, metrics, logging, protocol | `internal/config`, `server.go`, `metrics.go`, `proto`, `pkg` | - | settings and I/O |

How they interact:

* A handler turns a request into updates, sends them one by one on the
  unbuffered `UpRequests` and waits for one result each on a channel of its own.
  `OutgoingReplicationQueue` batches the updates of all handlers, writes a batch
  as one Redis pipeline (`SendUpdates`) and sends each result to its handler.
* Every instance polls the stream (`GetUpdates`), feeds a bounded channel, and
  applies the updates to its three maps. When the channel is empty the same
  goroutine removes what expired. `SendUpdates` trims the stream by age; an
  instance that starts asks for entries from a horizon on.
* `InvokeMatchmakingFunctions` reads the maps without a lock while they change,
  fills pools, calls each MMF in a goroutine, and for each match it receives
  starts a goroutine that deactivates the match's tickets (through the same
  `UpRequests`) and hands the match to the fan-in goroutine.
* The replicator is an interface. With the in-memory one `SendUpdates` and
  `GetUpdates` of the same process meet at an unbuffered channel instead of a stream.
* The Redis replicator borrows its connections from two pools, which dial when they
  have none. The dial functions listen for signals on a channel that `New` registered,
  and `start` for the same signals on another.

What is hard, and the properties that make each part correct:

| Part | Hard behaviour | Correct means |
|---|---|---|
| Cache, seen by readers | two maps read one after the other while a third goroutine changes both; two-step creation and expiration | a pool holds only tickets that were active, and all that stayed active |
| Incoming replication | trimming against slow or restarting readers, a full channel, expiration, replay | a cache is a function of the log and of its position in it; nothing live is skipped; everything arrives |
| Outgoing replication | results routed across batches and calls; faults of Redis; panics on closed channels; one goroutine serving all | every call is answered with its own results, in order; what is reported is true |
| InvokeMatchmakingFunctions | goroutines outliving the ones that started them; close against send; a caller that goes away; MMFs that fail or never end | what was received is delivered, after its deactivation; the call and its goroutines end |
| Pools, filters, validation | limits, aliasing, presence of optional fields, NaN and infinities, several looks at the clock | chunks together hold exactly the filtered tickets, and arrive as packed; the times of an admitted ticket fit each other |
| WatchAssignments | a timeout racing late assignments, goroutines outliving the call, duplicate ids | a call that ends early is complete; one that gives up does so only on tickets that are too old |
| In-memory replicator | a chain of senders and receivers each waiting for the next, a clock that is set back | updates are applied once and in order, and nobody waits for ever; ids are unique |
| Redis connections | outages, retries and signals during start-up and at run time; errors lost between scopes | no instance serves unconnected; signals end it and outages of the read endpoint do not |

## 2. Modules

| Module | Models | Depends on |
|---|---|---|
| `TicketSnapshot` | the applier and `setDifference`, one `sync.Map` operation per step | - |
| `TicketPool` | abstract: what an instance's cache promises | - |
| `TicketReplication` | Redis stream, polling, channel, applier, expiration, restart | `TicketPool` (refinement) |
| `UpdateStore` | abstract: what a call that replicates updates may rely on | - |
| `OutgoingReplication` | handlers, `OutgoingReplicationQueue`, `SendUpdates` | `UpdateStore` (refinement) |
| `RedisConnections` | the two pools, `New`, `main` and `start`, signals | - |
| `MemoryReplication` | the in-memory replicator between sender, poller and applier | - |
| `TicketFilter` | `ValidatePoolFilters` and `In` | - |
| `PoolFilling` | validation of tickets, filling and chunking of pools | `TicketFilter` |
| `FilterTestCases` | the table of the filter package's tests | `TicketFilter` |
| `InvokeMmf` | the goroutines of one `InvokeMatchmakingFunctions` call | - |
| `WatchAssignments` | the handler and its goroutines | - |
| `TicketSnapshot_proofs`, `TicketReplication_proofs`, `OutgoingReplication_proofs`, `RedisConnections_proofs`, `MemoryReplication_proofs`, `PoolFilling_proofs`, `InvokeMmf_proofs`, `WatchAssignments_proofs` | theorems | their module |
| `MC...` | instances for TLC | their module |

An operator whose comment begins with *Mutant* is a plausible wrong version of the
definition that follows it; it is part of no specification. Each property of a
passing run is violated when the definition is replaced by its mutant, so that the
property says something about the code.

### TicketSnapshot

`tickets` and `inactive` are the keys of `tc.Tickets` and `tc.InactiveSet`; `writer`
says where the applier is, because a `Ticket` update is two stores
(`CreateInactive`, `StoreTicket`) and an expiration of an inactive ticket two deletes
(`VisitInactive`, `DeleteInactive`). `sync.Map.Range` gives no snapshot: it visits
each key once, at some moment of the Range. A reader therefore samples each key at a
moment of its own choosing (`DumpInactive`, `RangeTickets`). The variables marked
*history* record what was active during a call.

* `ActiveWasActivated`: at no moment is a ticket active whose last update is not an
  Activate. It depends on the order of the two stores and of the two deletes.
* `PoolSound`, `PoolComplete`: a pool holds only tickets active at some moment of the
  call (or created during it), and all tickets active throughout.
* `PoolOnlyActive` is what `main.go:178-182` says; a ticket created between the two
  reads breaks it.

### TicketReplication and TicketPool

`log` is the whole history of the stream, and an entry's id is its index; `trimmed`
is how far `XTRIM` went, `readLen` and `readTrim` what the read endpoint has. An
instance has the poller's `cursor`, `next` (position in the last reply), the channel
`queue`, the three maps, and `done`, the last entry applied. The expiration closure is
one step here (`RemoveExpired`), since its grain is `TicketSnapshot`'s subject. Ids that
are no stream ids are `Malformed`: the deactivation of a match and the assignments let
them through, and the code reads two different ages from them.

`TicketPool` states the promise: there is one log; an instance's position moves
forward, passing over an entry only if it is older than the ticket TTL; and what the
instance can put in pools is the set of live tickets whose last update up to its
position is an Activate. `ImplementsTicketPool` is this specification under the mapping
`pos <- done`, `pool <- PoolOf`.

* `LiveViewMatchesLog`, `NothingLost`: the two parts of the argument, on the maps
  and on the channel.
* `AssignmentsKept`: an assignment is kept for the ticket's TTL, restarts included.
* `EveryUpdateArrives`, `EveryTicketLeaves`: liveness.

### OutgoingReplication and UpdateStore

`request[c]` is chosen initially from a set of requests whose ids are well formed,
malformed or empty, which is all that validation and `SendUpdates` look at. `batch` is
`pipelineRequests`; `pending` is the rest of the loop that delivers results, during
which nothing is collected. `Flush` is `SendUpdates` with any subset of refused
commands and a possible failure of the XTRIM command. `FlushBroken` is `SendUpdates` without
replies: the connection breaks, or the read of them times out (`redis.go:272`). Then some
first part of the commands has reached Redis, and the code does not learn when Redis runs them.
They are put into `adrift`, and `RunLate` appends the next one of a pipeline adrift to the stream:
at once, after the results were delivered, between the commands of later batches on a new
connection, or never. A panic in a handler ends the process.

`UpdateStore` is the contract that the handlers, and `InvokeMmf`, count on: a call gives
updates one by one and is answered as often; an update is written once or never, in the order
of its call and before its answer (`Write`), unless it goes astray before it is answered
(`Lose`): then it may be written at any later time (`WriteLate`). `ImplementsUpdateStore` is this
specification under the mapping `given <- sent`, `written <- stream`, `astray <- Adrift` and, for
each call, `answered <- Done`, the results in its channel or with its handler; updates go astray
only where pipelines can lose their replies. What an answer *says* is not part of it: see section 6.

* `EveryCallReturns`: the goroutine that serves all handlers never waits for one
  that waits for it. It depends on the room of the results channels.
* `NobodyWaitsInVain` is the safety behind it: the next result finds room, or the handler it
  is for has nothing left to send first; and a handler that waits has a result in its channel
  or one that is still to be delivered.
* `NoSendOnClosed`: the collecting goroutine never owes a result to a channel that its
  handler has closed. `ResultsInOrder`: a handler gets the results of its own updates,
  in their order. `CleanResultsTrue`: in a batch with all replies and without an invalid update a
  result without error has the id under which its update was written; in any batch an id that is
  reported is one of the stream, and is reported for one update only.
* `FailuresReported`: a client told *ok* got a result without error for each of its
  updates, and a handler dies only of a refused write of a well-formed request.
* `ResultIsOwnId`, `AcknowledgedIsWritten`, `NoHandlerPanics` are what the comments
  of `store.go` and `main.go` say; the code does otherwise (section 6).

### RedisConnections

`stage` is how far `main` is: the read pool is tested, then the write pool, then `New` looks
at its context, the goroutines start, and the process serves until it stops or dies. For
each side, `up` is the endpoint, `conn` the one connection its pool can have (its user
borrows one at a time), and `use` what the user is doing, with the four answers of a dial: a
connection, an error, a retry, or neither connection nor error (`"nil"`). The last comes
of a signal taken by the dial function, and on the write side of any failed dial.
`Down` breaks live connections, and `Borrow` may hand out a broken one, since the pool
tests only those idle for 15 seconds.

* `ConnectedBeforeRunning`: an instance runs only if it was connected to both endpoints.
* `SignalsEndOutagesDoNot`: a signal that a dial took is not forgotten: the process is
  about to end. An outage of the read endpoint never makes the pool return nil.
* `StartupEnds`, and `PollerRecovers`: once the read endpoint stays up, the poller reads
  from it again and again.
* `WriteOutageSurvived`, the same of the write endpoint, is violated.

### MemoryReplication

`batch` is what `SendUpdates` has still to hand over, `step` where `getReplId` is: it
compares the clock with the time of the last id and, if they differ, reads the clock once
more (`Stamp`), which may by then show another time. `HandOver` is the meeting of
`rc.replChan <- up` with `GetUpdates`; `polled`, `replStream` and `applied` are the way of an
update into the cache. Clients activate only tickets whose id was returned (`acked`).
`SetBack` is an adjustment of the wall clock.

* `AppliedInOrder`: what was handed over is applied once, in the order of the ids given.
* `TicketBeforeActivation`: an activation does not overtake the ticket it activates,
  whose own update would put it back on the inactive list.
* `IdsIncrease`: ids are unique and increase unless the clock was set back.
* `EveryUpdateApplied`: the chain of waiting goroutines does not close to a ring.

### TicketFilter and PoolFilling

`TicketFilter` has the two functions of `filter.go`, with Go's comparisons of doubles (false
for NaN) and the epoch for a timestamp that is not set. `PoolFilling` joins the two ends of a
ticket's way: `SetCreationTime`, `SetMaxExpiration` and `CheckExpiration` are
`validateAndMarshalIncomingTicket` between its looks at the clock, so the clock may advance
in between. `StartPacking` copies the active tickets and leaves out pools that do not
validate; `todo` is what the two nested loops have still to visit, in any order, as Go's maps
give it, but one ticket at a time (`Underway`). `chunks` are `chunkedPools`, counted in
`curChunkSize` as the code does. `Build` puts the rosters of a chunk into the pool objects of
the request (`participants`), which all requests share; the MMFs read them after all
requests are built (`MmfInput`). A behaviour begins with a scenario: the tickets asked for,
the pools, and the sizes.

* `PackedOnce`: the chunks hold every ticket that passes a pool's filters once, and no
  other. `ChunksFit`: a chunk stays below the limit unless it holds a single ticket.
* `UnbrokenPoolsArrive`: a pool with tickets in one chunk reaches the MMFs as packed.
* `PoolsReassemble`, the same for every pool, is what `main.go:676` says; it is violated.
* `AdmittedTimesSound`: the creation time of an admitted ticket is valid, past, and not after
  its expiration time, which leaves it no longer than the time to live.
* `TestCasesDecided`: the filter package's test cases come out as their table says, through
  the whole of this way.

### InvokeMmf

`mmf[m]` is where the fan-out goroutine of an MMF is, `task[x]` where the deactivation
goroutine of match `x` is, `fanIn` and `handler` the two others. The wait groups are not
variables: `EndMmf`, `Close` and `Return` have what they wait for as guards, `fanwg`
with its quirk that a goroutine that has not run `Add` is not waited for. `matchChan`
has no buffer, so `Take` is the meeting of sender and receiver. Closing it while a
goroutine is at its send, or sending after that, is a panic (`crashed`). `log` holds the
updates stored and not yet applied here: what lies in between is `OutgoingReplication`
and `TicketReplication`, of which it uses that updates of a handler are written and
applied in the order it made them, unless their replies were lost, and that every one is answered.
The tickets are not the call's own: `Reactivate` is another client's `ActivateTickets`, or an
expiration, which may take a ticket off the list while a match waits for it, and `Deactivate` puts
one on it: for a client, for another call here or on another instance, or for an update of this
call that Redis ran after its answer. `others` remembers the tickets this happened to.
`wait` is the setting `OM_MATCH_TICKET_DEACTIVATION_WAIT`, chosen initially.

* `CleanReturnDelivers`: a call that returns, with no MMF failed, no timeout and the
  caller's stream intact, has streamed every match with tickets.
* `PanicsOnlyAfterFailure`: if no MMF fails, nothing is sent on the closed channel.
* `DeactivatedFirst`: a match leaves after its deactivation was asked for; with `wait`,
  after all updates of it stored before their answers are applied, provided the last ticket
  *tells* and the check did not time out. The code looks for the last ticket only, so it tells
  nothing (`LastTells`) if it is in another match received, or twice in this one, or if
  somebody else has deactivated it: then the check may pass while the updates of this
  match are still on their way.
* `OffersAreTaken`: a goroutine that offers a match on `matchChan` finds the fan-in
  goroutine there, now or later, and close held back; else it would wait for ever or panic.
* `NothingAfterReturn`, and the liveness `CallEnds`: the handler returns and every
  goroutine ends, unless the caller's stream failed or the process panicked.
* `NoSendOnClosed`, `HandlerReturns`, `MatchWithoutTicketsArrives` and `WaitConfirmsAll`,
  that the check finds all tickets of the match inactive, are violated.

### WatchAssignments

`watcher[c][n]` is the goroutine of the n-th id: it polls every second, and once its ticket is
assigned it waits to send on the call's channel without a buffer. `taken` are the positions
whose assignment the handler took, `streamed` what the client got, `deadline` when the timeout
fires: the time to live after the newest of the call's time and the times the ids begin
with. Assignments come (`Assign`) and expire (`ExpireAssignments`); a client that leaves
(`ClientLeaves`) is noticed by nobody.

* `EarlyReturnIsComplete`: a call that returns before its deadline has streamed an assignment
  for each position of its request, duplicates included, unless its client left.
* `GivesUpAfterTTL`: a call gives up only on tickets whose id is older than the time to live.
* `PanicsOnlyAfterTimeout`: nothing but an assignment after the timeout kills the process.
* `PutsThenExits`, what `main.go:1280` says, is violated by such an assignment.

## 3. Runs

| Run | States | Bounds | Shows |
|---|---|---|---|
| `snapshot` | 200,000 | 2 tickets, 1 reader, symmetry | the invariants |
| `replication` | 2,115,000 | 1 instance, TTL = ATTL = 1, channel of 1, 3 entries, clock to 3, 1 restart | invariants and refinement of `TicketPool` |
| `replication_liveness` | 67,000 | 1 instance, 2 entries, clock to 3, 2 restarts | `EveryUpdateArrives`, `EveryTicketLeaves` |
| `outgoing` | 365,000 | 2 calls, 8 requests, batches of 2, all faults | invariants, refinement of `UpdateStore`, `EveryCallReturns` |
| `result_misaligned` | - | the same, no fault | violates `ResultIsOwnId` |
| `connections` | 3,300 | 2 dials before a retry gives up | invariants, `StartupEnds`, `PollerRecovers` |
| `write_dial` | - | the same | violates `WriteOutageSurvived` |
| `memory` | 271,000 | 4 updates, batches of 2, channel of 1, clock to 3, 1 setback | invariants and `EveryUpdateApplied` |
| `pools` | 729,000 | up to 3 tickets and 3 pools, chunks of 10, TTL 2, clock of 3 values | the five invariants |
| `chunks_reassembled` | - | the same | violates `PoolsReassemble` |
| `invoke` | 540,000 | 2 MMFs, 2 matches that share a ticket, 1 contested ticket, both settings | invariants, `NothingAfterReturn`, `CallEnds` |
| `watch` | 225,000 | 1 call, 3 ids, requests of up to 3, TTL 2, clock to 5 | the three invariants |

Further configurations end in a counterexample to what a comment or document says; they
are for TLC by hand (`tlc -config <cfg> <module>`) and belong to the table of section 6.

| Configuration | Module | Violates |
|---|---|---|
| `MCSnapshotNewTicket.cfg` | `MCTicketSnapshot` | `PoolOnlyActive` |
| `MCLostAcknowledged.cfg` | `MCOutgoingReplication` | `AcknowledgedIsWritten` |
| `MCHandlerPanics.cfg` | `MCOutgoingReplication` | `NoHandlerPanics` |
| `MCInvokePanic.cfg` | `MCInvokeMmf` | `NoSendOnClosed` |
| `MCInvokeHang.cfg` | `MCInvokeMmf` | `HandlerReturns` |
| `MCInvokeNoTickets.cfg` | `MCInvokeMmf` | `MatchWithoutTicketsArrives` |
| `MCInvokeWait.cfg` | `MCInvokeMmf` | `WaitConfirmsAll` |
| `MCWatchCrash.cfg` | `MCWatchAssignments` | `PutsThenExits` |

Why the bounds are enough to meet the interesting cases:

* *snapshot*: a race needs one ticket that changes and one reader. The second ticket
  lets the expiration closure be at one ticket while the other is read. Readers only
  write their own variables, so more of them add nothing; the proofs are for any number.
* *replication*: with a TTL of one tick a clock of 3 lets a ticket be created, die, be
  trimmed and be replayed; three entries are a ticket with an Activate and a Deactivate,
  an assignment, or two tickets; a channel of one entry is full at once. Instances share
  only the stream, and one with two instances (`MaxLog = MaxTime = 2`) gave nothing new.
* *outgoing*: two calls of up to two updates fill, split and share batches of two;
  the requests contain each form of id in each position that matters. The calls differ
  in nothing but their requests, so of two orders of a pair of requests the run takes one
  (`OrderedInit`). Two batches can be adrift at once, while a third is written.
* *invoke*: two MMFs are needed for one to fail while the other's matches are sent.
  `x1` and `x2` share a ticket that is the last of one and not of the other. `Contested`, the
  tickets that others may deactivate, is the last ticket of `x1`, which is the one its check looks
  for; the theorem is for any tickets. `MCInvokeNoTickets.cfg` has a match without tickets.
* *connections*: the only counter is that of failed dials; with two, a retry can succeed,
  be interrupted, and give up.
* *memory*: two batches of two fill the channel of one while the poller still holds
  updates, and an activation can follow its ticket within a batch's distance; three
  milliseconds allow ids of the same, of the next and, set back, of an earlier one.
* *pools*: the scenarios are the test cases of the filter package (one ticket and one pool
  each); a ticket with creation and expiration times that are absent, invalid, past,
  present, at the limit and beyond, with all forms of creation time filters; and three
  tickets of several sizes in pools that take all, two or none of them, where everything
  fits, chunks fill up exactly or overflow, a ticket is as large as a chunk, or the profile
  leaves no room. Packing looks at sizes and filters only, so more tickets add
  orders, which the proofs cover.
* *watch*: calls share the cache, which the model lets change freely, and the process; so
  one is enough. The ids are one from the past, one from a clock that is ahead and
  one that does not parse; the clock passes every deadline.

The counters that are cut off are `MaxLog`, `MaxTime` and `MaxRestarts` (replication),
`MaxUpdates`, `MaxTime` and `MaxSetbacks` (memory), `Horizon` (watch) and `End` (pools); each is
a guard of the action that would pass it, and a constant of the module. `MaxDials` is
the code's own: the number of dials that fit in its time limit for retries.

Deadlock is checked only in the snapshot run. The other systems do stop: when the
bounds are used up, when every call has returned, or after a panic.

## 4. Fairness

* *TicketReplication*: weak fairness of `Sync`, `Poll`, `Enqueue`, `Apply` and `EndBurst`:
  both goroutines are endless loops and Redis replicates. Nothing makes a client, the
  clock or a restart happen. `LockTimeout` is not fair: the timer is made anew for every
  update (`replicatedticketcache.go:216-223`), so it need not ever fire. For that reason
  `EveryTicketLeaves` rests on traffic that pauses, which the bounded log implies; with
  endless traffic the code has no such guarantee.
* *OutgoingReplication*: weak fairness of the goroutines and strong fairness of `Submit`:
  `UpRequests` is offered again and again and Go queues the senders of a channel.
  Nothing makes Redis run what is adrift.
* *MemoryReplication*: weak fairness of the goroutines and strong fairness of `HandOver`: the
  sender waits all the time, while `GetUpdates` comes and goes; when both its timeout and an
  update are there, Go's `select` chooses at random, so the timeout does not always win.
* *RedisConnections*: weak fairness of dials, of `main` and `start`, of the commands, and of
  `Borrow("read")`, because the poller is an endless loop. Endpoints and signals do
  as they like, and batches to be written come when clients send them.
* *WatchAssignments* and *PoolFilling* claim no liveness and assume no fairness.
* *InvokeMmf*: weak fairness of every goroutine and of the timers. MMFs have none: one
  may stay silent for ever, and only the expired context ends its stream. `stream.Send`
  is taken to return, with success or an error, as gRPC's does once its peer is gone.

## 5. Proofs

All theorems are for any values of the constants that satisfy the assumptions named
in the modules: `SnapshotAssumption` (finitely many tickets), `ReplicationAssumption`
(an additional assignment TTL of at least 1 and a channel of at least 1),
`OutgoingAssumption` and `MemoryAssumption` (batches and channels of at least 1),
`ConnectionsAssumption` (at least one dial), `FilterAssumption` (NaN and the values
for missing and invalid fields are no integers), `PoolAssumption` (scenarios are well typed),
`WatchAssumption` (ids have a time) and `InvokeAssumption` (each MMF returns matches of its own,
and the contested tickets are tickets).

| Theorem | States |
|---|---|
| `SnapshotTypeCorrect`, `OnlyActivatedActive`, `PoolsAreSound`, `PoolsAreComplete` | the invariants of `snapshot` |
| `ReplicationTypeCorrect`, `ViewMatchesLog`, `NoUpdateLost`, `AssignmentsAreKept` | the invariants of `replication` |
| `CacheImplementsPool` | `Spec => Cache!Spec`: replication refines `TicketPool` |
| `OutgoingTypeCorrect`, `NothingWrittenTwice` | types, and that no update is written twice |
| `NobodyWaitsForever`, `NothingOwedToClosed`, `ResultsAreInOrder`, `CleanResultsAreTrue`, `FailuresAreReported` | the invariants of `outgoing` |
| `OutgoingImplementsStore` | `Spec => Store!Spec`: the component refines `UpdateStore` |
| `ResultsCarryOwnIds`, `AcknowledgedWereWritten`, `NoPanicWithoutRefusal` | how far `ResultIsOwnId`, `AcknowledgedIsWritten` and `NoHandlerPanics` hold |
| `ConnectionsTypeCorrect`, `RunsOnlyConnected`, `SignalsAreNotForgotten` | types, and the invariants of `connections` |
| `MemoryTypeCorrect`, `UpdatesAppliedInOrder`, `TicketsBeforeActivations`, `IdsAreIncreasing` | types, and the invariants of `memory` |
| `FillingTypeCorrect`, `AdmittedTimesAreSound`, `PackingLosesNothing`, `ChunksStayBelowLimit`, `UnbrokenPoolsReassemble`, `TestCasesAreDecided` | types, and the invariants of `pools` |
| `InvokeTypeCorrect`, `OffersFindTaker`, `NoPanicWithoutFailure`, `CleanCallsDeliver`, `MatchesLeaveDeactivated`, `NothingIsStreamedAfterReturn` | the safety properties of `invoke` |
| `WatchTypeCorrect`, `EarlyReturnsAreComplete`, `GivesUpOnlyOnOldTickets`, `OnlyLateAssignmentsPanic` | types, and the invariants of `watch` |

*TicketSnapshot.* A half-created ticket is on the inactive list before it is in `Tickets`
and a half-expired one has left `Tickets` before it leaves the list (`WriterInv`). For a
reader, a ticket it did not see on the list was then active or not there: to be found in
`Tickets` afterwards it was active during the call or created in it (`ReaderInv`).

*TicketReplication.* `IInv` adds to the properties: entries are in the order of their
times and a ticket's key is its own id (`LogOK`); what was trimmed is dead
(`TrimmedDead`), at the write endpoint and so at the read endpoint; positions are in
order, and the channel holds entries between `done` and `next` (`PositionsOK`); and
tickets in the cache are entries seen (`StoredSeen`). The last update of a ticket that
matters is not lost because everything older than a dead entry is dead (`OlderIsDead`), and
a live ticket cannot have a dead update. `AssignmentsKept` uses that an assignment's entry
is younger than its ticket. For the refinement, `PoolIsOffered` shows that the pool is
`TicketPool`'s function of `log` and `done` in every state of `IInv`; a step of the log, the
clock, `Apply` or `Restart` is then `Publish`, `Tick`, `Advance` or `Recover`, and others stutter.

*InvokeMmf.* `GroupsOK` says what the wait groups are for: an MMF that is done has no
goroutine left, and at close every MMF is done or failed; so the only goroutines on offer
after close are those of failed MMFs, and they crash. `MatchesOK` follows a match from its
goroutine to the caller. `DeactivatedFirst` needs the order of updates (`LogOK`) and the
origin of each ticket on the list (`InactiveOK`): something else put it there, or an update of
some match, of which no earlier one is waiting. If the last ticket of a match tells, it got
there by the last update of this match (`LastTicketTells`), and none is waiting behind it.

*OutgoingReplication.* `Owed` is what the collecting goroutine has still to deliver: the batch,
or the updates of the results pending. `OwedOK` says that for each call it holds, in increasing
order, exactly the updates between those done (in the call's channel or with its handler) and
those not sent. So the next result of a call is the one its handler counts on
(`PlacedOK`), and a handler with as many results as it sent updates is owed nothing, which
is why closing its channel is safe. That the n-th command of a pipeline is the n-th valid update
of the batch is a fact about `Pick`, proved for any batch; a shift by an invalid update before
it is what `ResultIsOwnId` runs into, and why `CleanResultsTrue` excludes such batches.
`NobodyWaitsInVain` follows from `OwedOK` and from the room of the channels (`RoomForAll`): a
call that is owed a result has fewer of them than updates, so its channel has room, or it is
the one result of `CreateTicket`. For the refinement, an update is *spent* when it is in the
stream or adrift. What is adrift is there once, was not written, and is of a batch given up
(`AdriftOK`); and nothing of the batch is spent (`StreamOK`). So whatever of a call is spent
when a batch is flushed was answered before (`SpentBefore`), which makes `Flush` a `Write` of
updates that await their answers, after all earlier ones of their calls (`WriteStep`), and
`FlushBroken` a `Lose` (`LoseStep`). `RunLate` is `WriteLate`, `Submit` is `Give`, `Deliver` is
`Answer` (`DoneMoves`), and others stutter. For `CleanResultsTrue`, `IdsOK` says that an id in a
result, wherever it is, is that of a place in the stream at the time of its batch, and of no other
result: the stream only grows, whoever writes to it.

Three promises that this component breaks (section 6) are proved for the constants under which
it keeps them. *ResultsCarryOwnIds*: if every request makes valid updates only
(`OnlyValidUpdates`: assignments carry something to assign, and MMFs return tickets with ids)
and no connection breaks, every batch is clean, as there is a command for each of its updates
(`CommandsAreBatch`). *AcknowledgedWereWritten*: if no connection breaks and no XADD is
refused, what was acknowledged was written, even where invalid updates shift the replies: they
shift ids, not errors. *NoPanicWithoutRefusal*: handlers survive anything but a refused
command. So each counterexample needs the fault, or the request, that its configuration has.

*RedisConnections.* `main` leaves each stage of `New` with an answer of the pool it waited for
(`StagesInv`), a connection in use was dialled (`HeldReached`), and an answer that is neither
connection nor error does not pass the last stage. Only a signal makes the read pool
give such an answer, and only a panic takes it away.

*MemoryReplication.* The updates given an id are, in order, those applied, those in the channel,
those with the poller and at most one being handed over (`OneInHand`). An activation names
a ticket among those answered, whose update is earlier in that sequence (`KnownTickets`).
Without a setback `replTS` and `replCount` are past every id given, and `getReplId` passes on to a
later millisecond only (`IdsBelow`).

*PoolFilling.* Each look at the clock is no earlier than the one before, which orders the times
of a ticket (`ValidationOK`). Packing keeps the books: a ticket that a pool wants is either still
to be visited or stands at exactly one place in the chunks (`PackedOK`); admitted tickets do not
change any more, so what a pool wants is settled. A pool object shows the roster of the last
of its chunks that was built (`BuiltOK`): with one chunk, its own.
The size of a chunk is written as the number of the bytes of its entries, a set, so that
adding an entry adds its size (`SizeAdd`) without a sum over sets; `curChunkSize` is the size of
the chunk underway (`SizesOK`), and `Full` starts a new one before the limit is passed.
For the test cases, `TestCasesDecidedByFilters` reduces what arrives at the MMFs to what the
filters say of the tickets admitted, and `DoubleCase`, `StringCase`, `TagCase` and `MultipleCase` go
through the table. `TestCasesAreDecided` assumes that the scenarios with an expected answer are
test cases (`IsTestScene`: one ticket with the attributes of a case and its pool, of any size
and expiration) and that the clock starts after the creation times in the table, as it does
for the scenarios of the run.

*WatchAssignments.* The goroutine of a position ends when its assignment is taken, so the loop's
count of one per id is reached only when every position has answered (`CallInv`). A
handler that returned before that did so by its timeout, past the time to live of the newest
ticket; that a newest exists is shown by a least counterexample (`LatestExists`).

The inductive invariants were tried with TLC on the instances of the runs, or on smaller ones,
before they were proved.

Only model-checked: the liveness properties (`EveryUpdateArrives`, `EveryTicketLeaves`,
`EveryCallReturns`, `StartupEnds`, `PollerRecovers`, `EveryUpdateApplied`, `CallEnds`), which rest on
fairness and ENABLED and are beyond the proof system. `NobodyWaitsInVain` and `OffersAreTaken` are
the parts of `EveryCallReturns` and `CallEnds` that safety can say, and are proved. The types of
modules whose runs do not check them are theorems.

## 6. Where the code and what is said of it disagree

| Run or configuration | Code | What is said |
|---|---|---|
| `MCSnapshotNewTicket.cfg` | a ticket created between the two reads of `setDifference` counts as active | `main.go:178-182` |
| `result_misaligned` | an invalid update in a batch shifts the replies of the ones after it | `store.go:42-44` |
| `MCLostAcknowledged.cfg` | a broken pipeline is reported as success | `store.go:42-47` |
| `MCHandlerPanics.cfg` | a refused update of a well-formed request is a nil dereference | `main.go:398-401` |
| `write_dial` | a failed dial of the write endpoint is not retried and gives a nil connection without error (`redis.go:298`) | `redis.go:161` |
| `chunks_reassembled` | filling a chunk overwrites the participants shown by the chunks before it (`main.go:728`) | `main.go:676`, `main.go:725`, `proto/messages.proto:209` |
| `MCInvokePanic.cfg` | an MMF that fails leaves goroutines that send on the closed channel | `main.go:988-990`, `1173` |
| `MCInvokeHang.cfg` | when the caller's stream fails the handler never returns | `main.go:762-763` |
| `MCInvokeNoTickets.cfg` | a match with empty rosters is dropped | `docs/FAQ.md:84` |
| `MCWatchCrash.cfg` | an assignment found after the timeout is sent on the closed channel (`main.go:1288`) | `main.go:1280-1281` |
| - | assignments are trimmed before their additional TTL has passed | `replicatedticketcache.go:308-313` |
| `MCInvokeWait.cfg` | only the last ticket of a match is waited for, whoever deactivated it (`main.go:1106`) | `docs/FAQ.md:22` |
| - | the two values of the wait setting are described the wrong way round | `internal/config/config.go:48-56` |
| - | an expiration time is counted from the current time, not from the creation time given (`main.go:300`) | `main.go:274-276`, `docs/FAQ.md:58` |
| - | a chunk's profile has only the pools with tickets in it (`main.go:723`) | `main.go:668`, `main.go:707` |
| - | a timeout adds the watches left to the counter instead of taking them off (`main.go:1330`) | the increments and decrements at `main.go:1312`, `1324` |

## 7. Abstractions

* Time is a counter of ticks, and instances and Redis agree on it. Restarts keep the
  assignment TTL at least one tick, as its default does.
* Tickets, matches and ids are atoms: nothing but their form, their time and their
  equality is read by the code modelled.
* The results of an update are in `OutgoingReplication`, its effects in
  `TicketReplication`; the first ends with the stream and the second begins with it. The
  handlers that write the stream are `Add...` actions there, with the checks they make.
* In `InvokeMmf` a dial may fail for any reason. The fan-out goroutines append to the same
  `opts` and assign the same `ctx` and token maps without a lock, a data race in which one
  may be dialled with another's options; only its effect as a failing dial is modelled.
* The commands of a pipeline whose replies arrive are one step of the stream (`Flush`). Redis may
  run a command of an older connection, or of another instance, between two of them: that
  moves ids up, which a call cannot tell, since they are those of the replies.
* In `InvokeMmf` an update that is not stored by the time of its answer was refused or has lost
  its reply; if Redis runs it later, that is a `Deactivate`.
* The two looks at the clock at `main.go:289` and `291` are one in `SetCreationTime`. A bound of a
  filter that is none of the protocol's values, which the switch of `filter.go` lets pass
  without a comparison, is not among the filters modelled.
* A double is an integer or NaN, and Infinity an integer beyond all others used: the filters
  compare, and do not compute. Timestamps are integers too, absent, or invalid.
* The encoded sizes of tickets and of the empty request are numbers; that the names of pools
  and rosters are not counted by the code, which makes a chunk larger than it thinks,
  is outside `ChunksFit`, which goes by the sizes counted.
* A pool has one connection in `RedisConnections`, as each has one user that borrows one at
  a time. TLS and authentication are options of a dial, which may fail for any reason.
* `WatchAssignments` counts time in the second that its goroutines sleep. The cache around it is
  free to assign and to expire; what it really does is `TicketReplication`.

Not modelled: configuration parsing (its values are the CONSTANTS), metrics and logging (no
decision reads them), serving, the gRPC gateway and the statistics handler (I/O),
generated code, deployment and examples. The race of the fan-out goroutines on shared
options, and the leak of ill-formed ids on the inactive list, have no property: the first
shows only as a failing dial, the second changes no pool.

## 8. Plan

1. A composition of `OutgoingReplication` and `TicketReplication`: a call acknowledged on
   one instance and its effect on another's pools. Today the two meet in the text only: the
   first promises that a clean result is an entry of the stream, the second that
   an entry of the stream reaches every cache.
2. The same for `PoolFilling` and `InvokeMmf`, whose MMFs are given no pools.
3. `WatchAssignments` over the assignments of `TicketReplication`, with restarts.
4. Two instances in the liveness run, with a faster reader and a slower one.
