# Verification of DanmakuX

DanmakuX is a danmaku (live comment) server: clients connect to a node by
WebSocket, send short messages to a room, and receive the messages of the room.
Nodes exchange messages through Redis Pub/Sub, limit senders with a Lua script
in Redis, and write messages to MySQL behind the real-time path. This directory
holds TLA+ models of its concurrent core, TLC configurations that check them,
and TLAPS proofs. Paths below are relative to the root of the repository.

Contents: [System](#the-system) · [Modules](#modules) · [Runs](#runs) ·
[Fairness](#fairness) · [Proofs](#proofs) · [Findings](#findings) ·
[Not modelled](#what-is-not-modelled) · [Plan](#plan)

## The system

| Component | State | Operations | What makes it correct |
|---|---|---|---|
| `MessageService`, room subscriptions (`internal/service/message_service.go`) | `subscriptions` (reference count and unsubscribe function per room), `subMu` | `AcquireRoomSubscription`, `ReleaseRoomSubscription`, `Close` | counts equal users; who holds a room is subscribed; every subscription is ended by somebody; one subscription per room |
| `RedisPubSubBroker` (`internal/broker/redis_pubsub.go`) | `closers`, one goroutine and one Redis connection per subscription | `Publish`, `Subscribe`, unsubscribe, `Close` | unsubscribe is idempotent; nothing live is unknown to the broker unless somebody is about to end it |
| `ws.Handler` (`internal/ws/handler.go`) | `closing`, `clients`, the WaitGroup `active` | `ServeWS`, `readPump`, `writePump`, `Shutdown` | no connection escapes a shutdown; cleanup is complete and in order |
| `Hub`, `Client` (`internal/room`) | clients per room; send queue (256), context, `once` per client | `Join`, `Leave`, `BroadcastLocal`, `RoomSize`, `Enqueue`, `Close` | a joined client gets what the room's subscription gets, or the drop is counted |
| Persistence pipeline (`MessageService`) | `persistCh` (4096), `persistClosed`, `persistMu`, the batch of the worker | `Send`, `enqueuePersistence`, worker, `Close` | order, no loss without a metric, no send on a closed channel, `Close` drains |
| Limiter (`internal/limiter/limiter.go`, `checkLimit`) | three counters with timeouts in Redis | `Allow` | quota per window, all or nothing over three rules, honest `RetryAfter` |
| `main` (`cmd/danmakux/main.go`) | shutdown deadline | the shutdown sequence | it ends, and in the right order |
| Repository and history endpoint (`internal/repository`, `internal/api`) | the rows of MySQL | `SaveBatch`, `ListByRoom`, `GET …/messages` | paging repeats no row and hides none |
| Configuration (`internal/config/config.go`) | the values read at the start | `Load` | unusable values must not look like normal operation |
| Metrics (`internal/metrics/metrics.go`) | counters | increments, the text page | counters agree with each other and with what happened |
| Load generator (`scripts/load/ws_load.go`) | the map of unanswered messages, latency samples, statistics | workers, readers, report | one sample per message, no echo unmatched, a complete report, an end |
| Auth | none | token creation and check | out of scope, see below |

**How they interact.** Every connection is served by one `ServeWS` goroutine:
it checks `closing`, upgrades, registers with the handler, acquires the room's
subscription, joins the hub, runs the pumps until the client is closed, then
leaves the hub, releases the subscription and unregisters. The read pump calls
`MessageService.Send`, which asks the limiter, publishes to Redis and offers the
message to the persistence channel. The subscription goroutine of each node
calls back into the hub, which offers the message to every client's queue. On a
signal `main` shuts down the handler and the HTTP server under one deadline of
8 seconds and then closes the message service, which drains the persistence
worker and ends the subscriptions.

**What is hard.** The lock `subMu` is held across a network call. A last
`Release` lets go of it before it unsubscribes. A shutdown meets connections at
any point of `ServeWS`, and goes on after its deadline with handlers still
running. The persistence channel is closed while senders run. A failed batch is
given up. Messages are in flight in Redis and in goroutines while clients and
subscriptions come and go. History is paged by timestamps that are not unique.
The limiter's answers can be lost and its script repeated, and so can a PUBLISH.
A connection ends by three parties, between deadlines that a slow `Send` uses
up. The list,
with the line where each hazard bites and the properties aimed at it, is
`hazards` in `PROJECT.json`.

## Modules

| Module | Models | Composed with |
|---|---|---|
| `RoomSubscriptions` | the subscription map, its lock, the broker's closers, the subscription half of `Close` | |
| `NodeLifecycle` | `ServeWS`, registration, hub membership, `Handler.Shutdown`, the shutdown of `main` | extends `RoomSubscriptions` and uses its actions inside its own |
| `Persistence` | the tail of `Send`, the channel, the batch worker, the persistence half of `Close` | implements `WriteBehind` |
| `WriteBehind` | the abstract promise of the pipeline | |
| `Delivery` | Redis channels, the subscription goroutines, the broadcast handler, hub broadcasts, send queues | extends `RoomSubscriptions` and uses its actions inside its own |
| `ClientConn` | one connection in time: both pumps, the send queue, `Client.Close` with its `once`, ping and pong deadlines, the peer | implements `Outbox`; its end is `PumpsStop` of `NodeLifecycle` |
| `Outbox` | the abstract promise of a connection's outgoing messages | |
| `SendPath` | `Send` of every connection, repeated and late PUBLISH commands, the pipeline, the order of the shutdown | instantiates `WriteBehind`, which `Persistence` implements |
| `Limiter` | the limits of `config.Load`, the validation of rules, the Lua script, the three rules, key expiry, retries by the Redis client | |
| `LoadTest` | the Go load generator: workers, readers, their shared map, the report | |
| `History` | `SaveBatch`, `ListByRoom`, a client that pages through a room | |
| `ClientProofs` | the inductive invariants and the theorems about `History` and `ClientConn`, and that `ClientConn` implements `Outbox` | extends both |
| `PersistenceProofs` | the inductive invariant, the theorems and the refinement of `Persistence` | |
| `RoomSubscriptionsProofs` | the inductive invariant and the theorems about `RoomSubscriptions` | |
| `NodeLifecycleProofs`, `DeliveryProofs` | the same for the two compositions, and that they implement `RoomSubscriptions` | extend `RoomSubscriptionsProofs` |
| `SendPathProofs`, `LimiterProofs`, `LoadTestProofs` | the same for these modules | |
| `MC…` | constants of the TLC instances | |

### RoomSubscriptions

A caller is one `ServeWS` goroutine `c`; it acquires the room `RoomOf[c]` once
and releases it once. A broker subscription is named after the caller whose
`Acquire` made it, as `subIndex` makes the broker's names unique.
`refs[r]` and `subOf[r]` are the entry of `subscriptions`; a count of 0 means
that the map has no entry, as the code deletes an entry when it reaches 0.
`live` holds the subscriptions whose goroutine and Redis connection exist.

`subMu` is not a variable. Sections that take it, do local work and let go of it
are single steps; the two that last are visible as states: a caller in
`"subscribing"` is inside `broker.Subscribe` with the lock held, and
`closeState = "closing"` is the loop of `Close`. `SubMuFree` excludes both.
The last `Release` is split where the code lets go of the lock: `ReleaseLast`
removes the entry, `Unhook` removes the closer under the broker's lock, and
`Unsubscribe` ends the subscription. Errors of an unsubscribe only reach the
log: the subscription counts as ended, as `once` lets nobody try again.

### NodeLifecycle

`stage[c]` is the program counter of `ServeWS`; the actions follow its order,
with a failure branch wherever the code returns early: rejected or malformed
requests, a failed upgrade, a registration refused during shutdown, a failed
subscription. `AcquireRoom` and `ReleaseRoom` conjoin the actions of
`RoomSubscriptions`. The pumps are abstracted to the moment they stop:
`Disconnect` is any reason for which one of them closes the client, and
`PumpsStop` needs a closed client. `Unmap` and `Done` split `unregisterClient`
at its unlock. `mainPc` follows `main`; `Expire` is the 8 second deadline, which
may pass at any time after the signal, so that both a graceful and a timed out
shutdown are explored at every point. The part of `MessageService.Close` that
waits for the persistence worker comes before `CloseService` and is the subject
of `Persistence`.

### Persistence and WriteBehind

A message is one `Send`. `persistMu` is a readers-writer lock: `Readers` are the
Sends inside `enqueuePersistence`, and a waiting writer keeps new readers out,
as Go's `RWMutex` does. The check of the flag, the offer to the channel and the
metric are separate steps under the read lock. The worker's `select` is the
choice between `Recv`, `Tick` and `RecvClosed`. `Flush` has three outcomes:
committed, failed, and committed with the answer lost; the batch is emptied in
all of them. `enq` and `settled` are history variables: what entered the channel
and what was flushed, in order.

`WriteBehind` states what the pipeline is for: accept while open, settle in
order in batches of at most `BatchSize`, close when everything accepted is
settled. `Persistence` implements it with `accepted <- enq`,
`settled <- Len(settled)` and `mode` read from `persistClosed` and the progress
of `Close`.

### Delivery

The messages of a room's channel are numbered in the order of publication, so
the buffer of a subscription is an interval: from `pos[s]`, the last message its
goroutine took, to what is published or, once the subscription has ended, to
`cut[s]`. Redis listens from `Listen` on, which happens inside `Subscribe`,
before the entry exists. The goroutine of a subscription is `consumer[s]`: `Pick`
takes a message and reads `RoomSize`, `Broadcast` is `BroadcastLocal` with the
read lock of the hub, `CountDrops` the metrics. Between these steps clients join,
leave and release the room. `Pick` and `Stop` are both possible once the
subscription has ended and messages are buffered, as Go's `select` chooses at
random. `Skip` is every way in which a message is lost before the hub sees it.
`AcquireRoom` and `ReleaseRoom` conjoin the actions of `RoomSubscriptions`;
`Close` is left to `NodeLifecycle`. `since`, `wire`, `dropped`, `skipped` and
`listeners` are history variables.

Messages reach the queue of a client from one subscription in channel order, but
two overlapping subscriptions may interleave theirs; no property claims an order
across them, since the code gives none.

The handler reads `RoomSize` and then broadcasts, so its drop counter is the
difference of two readings of the hub: `DropsAreCounted` says by what it may be
wrong.

### ClientConn and Outbox

One connection from the start of its pumps to the end of `ServeWS`. `rd` is the
goroutine of `ServeWS` with its `readPump`, `wr` the `writePump`, `once` the
progress of `Client.once`, `sd` what `Handler.Shutdown` does with this client.
Time passes in ticks, and only when nothing can run: the model is about
deadlines that are long compared with a step of the program. `left` holds the
ticks left of each timer: the read deadline, the ping ticker, the write
deadline, and the longest duration of a `Send` and of a healthy peer's answer,
which are assumptions and not code. While a `Send` lasts nothing is read, and so
no pong moves the read deadline. A healthy peer that owes an answer keeps its
schedule: a second ping does not put the answer off.

`Cancel` and `CloseSocket` are the two halves of the function that `once` runs;
the other callers wait until it has returned, as `sync.Once` makes them. The
`Select` of the writer takes any ready case, so that queued messages may be
written after the cancellation, and the close frame usually meets a closed
socket. A peer is healthy, silent (it neither reads nor answers, but what it has
sent and even new frames still arrive) or gone.

`ReadMessage` hands out what its buffer holds before it looks at the socket, so
`Reads` asks neither for a deadline nor for an open connection: past both the
reader may get a frame or fail. What makes the end prompt all the same is the
context: a `Send` that begins after the cancellation fails at once, and only one
that had begun before takes its time. A pong read after the close ends the
reader, since the deadline of a closed socket cannot be set. A close frame is
answered by the library before `ReadMessage` fails: in `"reply"` the reader waits
for the write in progress, for at most `ReplyWait`, and the answer may not be
written (`ReplyEnds`). Ping frames of the peer are not among the kinds of frames;
the library answers them without moving a deadline.

`Outbox` is a bounded queue that is written in order until it ends.
`ClientConn` implements it with `accepted <- wire \o hand \o queue`,
`written <- Len(wire)`, and `open` as long as the socket is open and no close
frame has been written.

### SendPath

What `Send` does beyond the limiter, for the read pumps of a node. A PUBLISH is
a command in `pending`, which Redis executes at any time, also after the client
library has given up waiting for it and repeated it; `heard[c]` is what the
channel carried of a sender. `GiveUp` is the error of `Publish`, after
`MaxAttempts` commands or a cancelled context. The pipeline is the instance
`Pipe` of `WriteBehind`, whose actions are conjoined: `Persist` accepts or drops,
`ClosePipe` is `MessageService.Close`, `Settle` a batch. What is shown of
`Persistence` by its refinement is thus used here without its details. Settled is
not stored: `WriteBehind` counts a batch as settled when the repository was asked,
and `Settle` adds here what the repository made of it, the three outcomes of
`Flush` in `Persistence`, in `stored` and `persistFailed`. The counters
`messagesPublished`, `persistQueued`, `persistDropped` and `persistFailed` are
those of the metrics.

### Limiter

`config` is what `Load` makes of an environment: a variable that is not set or
does not parse gives the fallback, any other number is taken as it is. `Allow`
looks at it before anything else: `Refuse` is its error. One room, whose keys
share a hash slot. `Reject` and `Admit` are the two ends of
the Lua script, which Redis runs in one step. Redis drops a key when the time is
past its deadline: at the deadline itself the key still counts, and PTTL is 0.
`Executes` lets the answer be lost, and the
client then runs the script again up to `MaxAttempts` times, which is what
go-redis does on a network error with its default options
(`internal/store/redis/redis.go` sets no other). `log` is the history of
admitting executions; as every message that passes has one, a bound on `log` is
a bound on the messages.

### History

A row is a message with `created[m] # Zero`. Timestamps are taken by `Send`, on
any node, and rows are saved in batches later, so `SaveBatch` gives the rows of a
batch any timestamps, equal ones included (MySQL keeps milliseconds). `Matching`
is the WHERE clause and `IsPage` the ORDER BY and LIMIT, in which the database is
free to choose among equal timestamps. Without a cursor the code takes a time 24
hours ahead; the model takes it to be later than every row, that is, it assumes
that no node's clock is a day ahead. The reader is the client of the endpoint: it
sends the timestamp of the last row it got as the next `before`, may ask for
another limit each time, and stops at an empty page. A query that fails changes
nothing and is asked again.

### LoadTest

A worker is one goroutine of `ws_load.go` with the reader of its connection.
`inflight` is the `sync.Map` that all of them share, one message per content.
`Store`, `Write` and `CountSent` are separate, since the echo may arrive in
between; so are the removal of an entry and the recording of its latency. The
server is any behaviour of a room: what it has got reaches any client of the
room, any number of times. `conn` are the connections that neither side has
closed. A write may succeed on a connection that the server has closed, and the
message is lost; a reader may still get what its buffer holds, and fails at some
time. The statistics that only grow are left out but for
those the report relates.

## Runs

| Run | Checks | Bounds |
|---|---|---|
| `subscriptions` | type, exact references, holders are subscribed, one owner per live subscription | 5 callers, 2 rooms |
| `room_overlap` | violation: two subscriptions of a room | 2 callers on a room |
| `node` | type, no deaf client, shutdown reaches all and none registers after it, graceful means idle; shutdown ends, closed connections are cleaned up | 3 connections on a room |
| `node_hung_redis` | violation: shutdown does not end if Redis never answers | 2 connections |
| `node_close_leak` | violation: a subscription made after `Close` | 2 connections |
| `persistence` | type, no send on a closed channel, FIFO, no silent loss; `Close` returns, `WriteBehind` is implemented (so that everything queued is flushed, before `Close` returns) | 4 messages, queue 2, batch 2 |
| `delivery` | type, no unexplained gap, copies bounded by listening subscriptions, the error of the drop counter; messages are delivered, consumers of ended subscriptions stop | 2 clients on a room, 2 messages, queues of 1 |
| `client_conn` | type, a healthy peer is kept, a silent one dropped, a prompt end; `Outbox` is implemented, a client that somebody closes, the peer included, is served to its end | pong 5, ping 1, write 1, Send 1, close reply 2, answer 1 ticks; queue 1, 1 unread frame, 3 frames, 1 broadcast |
| `send_path` | type, acknowledged messages are heard in order, stored ones were heard, a graceful shutdown leaves nothing out of the repository that no metric covers, counters agree | 2 senders, 3 messages in all, 2 commands per message, batch 2 |
| `load_test` | type, one sample per message, echoes find their entry, complete report; the test ends | 2 workers of a room, 2 messages each |
| `history` | type and page length, no row twice, only ties hidden, reading ends | 5 rows (4 in the room), 3 timestamps, limits -1 to 4 around a default of 2 and a maximum of 3 |
| `limiter` | type, counters agree, burst bound, a call later than `RetryAfter` is in another window, rejections are earned | 4 calls, 2 users, 2 addresses, 2 attempts, clock to 3; 4 environments, 3 of them unusable |

**Why the bounds are enough.** Four callers on one room give two generations of
its subscription with a shared holder in each and a failed Subscribe besides; a
fifth on another room gives `Close` two entries, and shows that what happens to
one room does not touch the other. In `node` three connections cover one that is
registered before the signal, one that races with it and one that is refused.
In `persistence` four messages fill the queue and a batch at once, so that a drop
happens while a batch is being saved, and leave one Send to meet `Close` at every
step. In `delivery` a client that leaves while another one arrives makes an
overlap of two subscriptions, or a subscription that outlives its first holder;
two messages overflow a queue of one and can arrive in either order through two
subscriptions. In `client_conn` the bounds are the smallest for which
`KeepAliveMargin` holds, and both limits are tight: with a pong wait of 4 a
healthy peer is dropped if the margin is not required, and a silent peer with
frames still unread lasts longer than one Send past its deadline. Three frames
give a Send with a frame waiting behind it, and one more that arrives when the
first of them has been read; the peer then lasts until one tick before
`QuietBound`, and with a fourth frame, which is too much for a run with
fairness, until `QuietBound`. `ReplyWait` is longer than a Send, so that the
answer to a close, too, is seen to end early when the client is closed. The
proofs hold for any number. In `send_path` two messages of a
sender show that an earlier, late command does not pass a later acknowledged
one; two senders fill a batch together, and one of them can hold up a graceful
shutdown while the other has ended; a third message makes a second batch, so that
one may be saved and the other fail. In `load_test` two workers of one room race
for every echo. In
`history` four rows make two pages and a rest, or a page that is full of ties and
a row behind it, and three timestamps put a late row before, at and after a
cursor. In
`limiter` the user window is one tick and the others two, limits are 1 and 2, and
every call may run twice: windows expire, apart from each other, every rule is
the one that rejects, and calls run at the very deadline of a key, where
`retryAfter` is 0; the bound of `BurstBound` is reached. The clock bound `MaxTime` only ends the exploration.

Deadlock is checked in every run. The models stop only in `SubDone`, `Exited`,
`Finished`, `Ended` of `ClientConn`, the exit of `LoadTest` and the `Done` of
`Delivery`, `History` and `Limiter`, where all goroutines have returned.

The type invariant of a module is checked together with the invariant that is
closest to it, as `NodeInv`, `PipelineInv`, `DeliveryInv`, `ConnInv`, `SendInv`,
`CountsInv` and `LoadInv`.

Every property has a mutant in `PROJECT.json`: a definition changed as a
plausible bug would change it, next to the original in the module and named
after it (`ReleaseLast_OffByOne`), which the property catches.

## Fairness

`NodeLifecycle`, `Persistence` and `Delivery` assume weak fairness of what the runtime
guarantees: a goroutine that can go on does so (Go's scheduler and mutexes do
not starve), a timer fires, and an operation with a deadline returns (a save
after 3 seconds, the shutdown context after 8). Nothing is assumed of clients,
who connect, send and leave as they like, nor of the operator's signal. In
`Delivery` a connection writes what is queued (each write has a deadline, and a
client whose writes fail leaves), and nothing is assumed of Redis. In `History`
only the reader is fair, the workers may save or not.
In `ClientConn` both pumps, the waiters of `once` and time go on, a deadline
that has passed fails the operation that waits for it, and a healthy peer
answers its pings, which is what the word means; nothing is assumed of a silent
or broken one. `LoadTest` assumes that its goroutines go on, that requests end
(the HTTP client has a timeout), that the server closes a connection whose close
frame it has got (`ClosedConnectionEnds` of `ClientConn` shows it of this server,
for a close frame behind any other frames), and strong fairness of
the deadline's case in a select whose ticker is ready again and again: Go picks
among ready cases at random. `SendPath` states safety only.
`RedisAnswers` is separate, as the code does not guarantee it: `Subscribe` is
called with `context.Background()` and `pubsub.Receive` has no deadline of its
own. `node` assumes it, and `node_hung_redis` shows what happens
without it.

## Proofs

| Module | Theorems | Properties of runs they state |
|---|---|---|
| `RoomSubscriptionsProofs` | `SubTypeCorrect`, `ReferencesAreExact`, `HoldersAreSubscribed`, `NoSubscriptionLeaks` | all four of `subscriptions` |
| `NodeLifecycleProofs` | `NoDeafClients`, `NoClientSurvivesShutdown`, `NilMeansIdle`, `NodeImplementsSubscriptions` | the three invariants of `node` |
| `DeliveryProofs` | `JoinedClientsMissNothing`, `DuplicatesAreBounded`, `DropsAreCountedHolds`, `DeliveryImplementsSubscriptions` | the two invariants and the action property of `delivery` |
| `PersistenceProofs` | `PipelineIsFifo`, `NoPanicOnClose`, `LossesAreCounted`, `RefinesWriteBehind` | the three invariants of `persistence`, and `ImplementsWriteBehind` but for its fairness |
| `SendPathProofs` | `CountersOfSendAgree`, `HistoryWasHeard`, `SendersAreHeardInOrder`, `GracefulShutdownLosesNothing`, `PipelineRefusesNothing` | all four of `send_path` |
| `LimiterProofs` | `CountersCountAdmissions`, `BurstsAreBounded`, `RetryAfterIsEnough`, `RejectionsNameABusyRule` | all four of `limiter` |
| `ClientProofs` | `HistoryTypeCorrect`, `PagesRepeatNothing`, `PagesHideTiesOnly` | the three invariants of `history` |
| | `HealthyPeerIsKept`, `SilentPeerIsDropped`, `CancelledConnEndsPromptly`, `ConnImplementsOutbox` | the three invariants of `client_conn`, and `ImplementsOutbox` but for its fairness |
| `LoadTestProofs` | `SamplesAreDistinct`, `EchoesAreMatched`, `ReportsAreComplete` | the three invariants of `load_test` |

Each module also has a theorem that its inductive invariant holds of `Spec`,
or of `HistorySpec` (`SubInvHolds`, `NodeIndInvHolds`, …), with a lemma for the initial state and
lemmas for the steps. Every theorem rests on the named assumption about the
constants in its model (`ConnsAssumption`, `SendAssumption`, …) and on nothing
else: sets of callers and messages are finite, capacities and bounds are
natural numbers, those that the code makes positive are positive. The bounds
that keep TLC's state space finite (`MaxMessages`, `MaxSends`, `MaxSeq`,
`MaxTime`, `MaxFrames`, `MaxBroadcasts`) are constants without an upper limit, so that what is proved does not
depend on them. Each inductive invariant was checked with TLC before it was
proved.

`RoomSubscriptionsProofs` proves, for any finite set of callers, any rooms and
any assignment (`ConnsAssumption`):

* `SubTypeCorrect`: type correctness, and `closers` is a subset of `live`;
* `ReferencesAreExact`: until `Close` empties the map, `refs[r]` is the number of
  callers that hold `r`;
* `HoldersAreSubscribed`: while the service is open, who holds a room has a live
  subscription behind it;
* `NoSubscriptionLeaks`: every live subscription is the entry of its room or the
  victim of exactly one Release.

None of these is inductive. `SubInv` adds `LockInv` (one subscriber at a time,
whose room has no entry), `EntryInv` (an entry refers to a subscription of its
own room, made by a caller that has left `Acquire`, and known to the broker as
long as it is live) and `VictimInv` (a popped subscription belongs to one caller
and is no room's entry). `VictimInv` is what makes the window of the last
Release harmless for others: the subscription that ends is never the one a new
holder relies on. The argument about counts goes through three lemmas on the
cardinality of `Holders`. `SubInv` was checked with TLC on the instance of
`subscriptions` before it was proved. There is one lemma per action, with a step
per conjunct.

`ClientProofs` proves, for any finite set of messages, any timestamps and any
limits with `1 <= DefaultLimit <= MaxLimit`, `HistoryTypeCorrect` (with the
length of an answer), `PagesRepeatNothing` and `PagesHideTiesOnly`. The
invariant `HistoryInv` says that everything seen is at or after the cursor, and
that everything known from the start that is at or after it has been seen or
ties with a cut; an empty page then means that everything known has been passed.
The lemma `PageSize` gets from cardinalities that a page is empty only if
nothing matches.

Its second part proves, for any positive deadlines, durations and capacities,
any number of frames and broadcasts, what a connection promises. The three
bounds on time are not inductive, as each depends on what stands between the
present and the event it waits for; `ConnIndInv` says what that is:

* `SilentPeerIsDropped`. A silent peer may have sent a pong before. `LastPong`
  bounds the time until it is read by the Sends of what is ahead of it
  (`Ahead`); it sets the read deadline for the last time, so that `LastDeadline`
  bounds first the time until the deadline and then, as what had arrived in the
  meantime is still read, the Sends of the frames in the inbox. The last of them
  may be a close frame, whose answer takes `ReplyWait` and not a Send:
  `LastReply` bounds that. Together: `PongWait`, the Sends of twice a full inbox
  and one more, and the longer of a Send and an answer.
* `HealthyPeerIsKept`. `PongInTime` follows a pong backwards: it is in the inbox
  (`PongArrived`), owed (`PongOwed`), its ping is to be written (`PingDue`), or the
  ticker will fire (`PingAhead`). In each case what remains is less than
  what is left of the deadline. Time cannot pass in `PingDue`, every other case
  loses a tick on both sides, and reading the pong sets a deadline that leaves
  room for `PingAhead`, which is `KeepAliveMargin`. Until Shutdown nobody but a
  passed deadline could close the client, so that `Served` goes on.
* `CancelledConnEndsPromptly`. After the cancellation time passes only in a Send
  that had begun before (`TickInSend`), as every other place is ready to go on: a
  Send that begins later has no time left, and an answer to a close frame fails
  with the socket; `EndInv` keeps the sum of what has passed and what is left of it.
* `ConnImplementsOutbox`: every behaviour of `Spec` is one of the safety part of
  `Outbox`. An offer maps to `Accept` unless the queue is full, the write of a
  message to `Write`, the first of the close frames and `conn.Close` to `End`.
  `HandInv` says that the writer has a message in hand exactly when it writes
  one; `OfferInv` that every reply answers a frame of the peer's own, which
  bounds the numbers of the messages.

The lemmas `OwnTail` and `OwnAppend` count the frames ahead of a position when
one is read or arrives, by a bijection between the positions before and after.
The proofs corrected the model twice: in an earlier form a second ping put off
the answer to the first, which allowed a healthy peer with slow answers to be
dropped, and the bound on a silent peer left out what arrives while the last
pong waits. TLC then showed both on larger instances.

`PersistenceProofs` proves, for any finite set of messages, any queue capacity
and any batch size of at least one:

* `PipelineIsFifo`: types, the bounds of queue and batch, and that what is flushed,
  batched and queued is exactly what entered the channel, in that order;
* `NoPanicOnClose`: no Send offers its message to the closed channel;
* `RefinesWriteBehind`: every behaviour of `Spec` is one of the safety part of
  `WriteBehind`. The offer maps to `Accept`, the flush to `Settle`, the flag of
  `Close` to `Shut`, the return of `Close` to `Finish`; every other step stutters.

`NoSendOnClosed` is not inductive. `CloseInv` adds the lock discipline: once the
flag is up no Send is between its check and its unlock, and while the channel is
still open under the write lock no Send is about to check either. `WorkerInv`
says where the batch has room and that the last flush comes after the last
message, which is what `Finish` needs: when the worker has stopped, queue and
batch are empty. `EnqInv` (who is in the channel has passed its offer) gives
`Accept` its guard that no message is accepted twice. Two lemmas on sequences,
`AppendToConcat` and `MoveHead`, carry the order through an offer and a receive.
`LossesAreCounted` needs more, since a message is lost before it is counted:
between the offer to a full channel and the metric. `LossInv` therefore keeps
the bound for the messages that are in the queue or whose Send has returned
(`Gone`), and a Send joins them together with its metric.

`NodeLifecycleProofs` takes `SubInv` from `RoomSubscriptionsProofs`: every step of
a node is a step of `RoomSubscriptions` or leaves its variables alone
(`NodeImplementsSubscriptions`). On top of it, `StageInv` says how far a handler's
subscription is at each stage, `BookInv` that the map of clients, the WaitGroup,
the gauge and the hub are those of the handlers at certain stages, `ShutdownInv`
that what is registered is closed or in the copy that Shutdown is going through.
`IdleInv` is what `NilMeansIdle` needs: when the WaitGroup is empty no handler
holds anything, so that `LiveHasOneOwner` leaves nobody for a live subscription,
and as `closing` is up nobody starts again.

`DeliveryProofs` uses `SubInv` in the same way. `NoGap` is inductive together with
`BufferInv`, which says that Redis pushes everything to a live subscription and
nothing new to one that has ended; the point where clients could miss something,
the change from one subscription of a room to the next, is harmless because a
client in the hub holds the room (`MemberInv`), and then its room's entry does
not change. `DuplicatesAreBounded` is not inductive: a subscription that has
yet to hand a message on must be counted as well. `CopyInv` bounds the copies a
client has together with the subscriptions that may still bring one (`ToCome`);
a broadcast takes one from the second to the first. `DropsAreCountedHolds` is an
action property: between `Pick` and `CountDrops`, the difference of two readings
of the hub is compared with the queues that were full, by counting sets.

`SendPathProofs` proves that the order of a sender survives late and repeated
commands. `AckedInOrder` is the heart of it: the first copy of an acknowledged
message precedes every copy of a later one, because it was on the channel before
the sender went on (`PumpInv`) and nothing later was sent before (`NothingAhead`).
`LossCounted` says that an acknowledged message which is neither stored nor waiting
in the pipeline (`Lost`) is covered by a drop or a failed save, `CloseInv` that a
graceful shutdown closes the pipeline only when all pumps have ended, and that
nothing waits in a closed one. `SliceIsBounded` bounds what a failed batch adds. `FirstAt`
is a least element; `LeastExists` proves that there is one, from the
well-foundedness of inclusion on finite sets, as no induction is at hand.
The pipeline takes only the steps of `WriteBehind` by construction, as its actions
are used; `PipelineRefusesNothing` says that the guard against duplicates in
`Accept`, which the channel of the code does not have, keeps nothing out.

`LimiterProofs` splits the admissions of a key at the border of its current
window. `WindowInv` says that the counter is the number of admissions since the
border, the first of which is at it; `RecentInv` that the time before the border
that is as long as a window holds at most the limit less one, since it does not
reach back to the first admission of the window before. The sum of the two is
`BurstsAreBounded`. `AnswerInv` follows a rejection until its window has ended,
for `RetryAfterIsEnough`: a later window begins after the time the call was
told. `AttemptsInv` makes the entries of the log distinct. Limits
that are zero, negative or missing are included: nothing is assumed of
`Settings` but its type.

`LoadTestProofs` follows a message from the map through one reader's hand to one
sample (`FlowInv`), and counts: `CountInv` relates the statistics to the messages
whose write has ended, `NothingLost` says that without a failed send each of
them is in one of the three places, and `StageInv` that when the report
begins no reader is at work.

Model-checked only:

* liveness: `ShutdownEnds`, `ClosedIsCleanedUp`, `ClosedConnectionEnds`,
  `CloseReturns`, `EventuallyDelivered`, `ConsumersStop`, `TestEnds`, `ReaderEnds`,
  and the fairness
  half of `ImplementsWriteBehind` and `ImplementsOutbox`. Steps about ENABLED are
  outside what the installed provers can do;
* the violations of `room_overlap`, `node_hung_redis` and `node_close_leak`, which
  TLC's counterexamples show.

## Findings

1. **Two subscriptions of one room** (`room_overlap`). `ReleaseRoomSubscription`
   unlocks at line 160 and unsubscribes at line 162. A connection that arrives in
   between subscribes again, and until the first unsubscribe is done both
   goroutines broadcast every message to the new connection. The tests expect one
   subscription per room.
2. **`Close` may wait for ever** (`node_hung_redis`). `subMu` is held across
   `broker.Subscribe`, which has no deadline; `MessageService.Close` has none
   either, so the 8 seconds of `main` do not bound the shutdown.
3. **A subscription after `Close`** (`node_close_leak`). `Acquire` does not look
   at whether the service is closed. After a shutdown that timed out, a handler
   still on its way subscribes a room that nobody but itself will release.

Observations that are no disagreement with a checked property, but that the
models make plain:

* The broadcast drop counter is not the number of drops. The handler subtracts a
  `BroadcastLocal` from an earlier `RoomSize`; a client that leaves between the
  two is counted as a drop, one that joins hides one. `DropsAreCounted` bounds
  the error.
* The persistence drop counter also counts messages refused after `Close`, while
  its help text names the full queue only. In `SendPath`, `lateDrops` tells the
  two apart; a graceful shutdown has none.
* A peer that answers every ping is disconnected if Sends take longer than
  `PongWait` leaves after `PingPeriod` (10 seconds with the defaults), since the
  pong waits behind them; a configuration with `PingPeriod >= PongWait`
  disconnects everybody, one with a `PingPeriod` of 0 panics in the ticker.
  `config.Load` checks neither. `KeepAliveMargin` states what is needed.
* A sender who is told of an error may still have been heard, and more than once:
  the client library repeats a PUBLISH under the same message id, and nobody
  removes duplicates. What was heard but not acknowledged is never stored.
* A call made exactly when `RetryAfter` says may be rejected by the same key, and
  one at the deadline of its key is told "retry after 0s", as Redis keeps a key up
  to and at its deadline in milliseconds; the test of the limiter, which asks
  right after an admission, expects a positive value
  (`internal/limiter/limiter_test.go`). `RetryAfterSuffices` claims
  something of later calls only.
* A message whose script was repeated uses two units of its quota, and may be
  rejected because of its own first attempt. `CountsInv` and `BurstBound` count
  executions.
* A limit of 0 does not mean "nobody": every `Send` fails with an internal error.
* The latency the load generator reports is that of the first client of the room
  which gets the message, not that of the sender; after a failed send its report
  may count a message twice or not at all.

## What is not modelled

Tokens and query parsing have no state; their failures are choices in the
models. Of the configuration only the limits are loaded by a model, the other
values are constants. Formatting of metrics and logs is left out, and so are the
counters of rejected messages, which nothing relates to other state. The k6
script and the example page are clients. MySQL is the outcome of a save and a
table of rows, Redis Pub/Sub a channel that pushes to whoever listens and may
lose a message. A crash of the process loses what is in memory; nothing is
recovered at start, so there is no recovery to model. Nodes share nothing but
Redis and MySQL: `Delivery` has one node and any publishers, `Limiter` and
`SendPath` any callers, `History` workers of any node, and no model puts several
complete nodes together.

## Plan

In order of weight, with what each needs:

1. `Limiter` against an abstract limiter per rule.
2. The token's life from the guest endpoint to the check in `ServeWS`.
