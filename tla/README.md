# TLA+ models of neatworks

neatworks is a Rust code base for distributed-systems research: protocols written against a
small event-driven abstraction (`SendEvent`, `OnEvent`, `Timer`), layers that connect them to
sockets, timers, crypto workers and storage, and two applications built on top (the entropy
storage network and the boson clocks).  This directory holds TLA+ models of its core, TLC
configurations that check them on small instances and TLAPS proofs of what matters most.
`PROJECT.json` maps every definition to the source lines it models.

Paths below are relative to the repository root.

## 1. Inventory

| Component | State | Operations | What makes it correct |
|---|---|---|---|
| Unreplicated protocol, `src/unreplicated.rs` | client: `seq`, `invoke`; replica: `replies`, `app` | `Invoke`, `on_timer` (resend), `Recv<Reply>`, `Recv<Request>` | exactly-once execution in client order over a lossy, duplicating network; a result goes to the operation that asked; assertions about timers hold |
| Unreplicated `check` model, `src/unreplicated.rs` (345-613) | clients, replica, nets, linear timers | `events`, `step`, `launch`, `flush` | a dry state determines its successors |
| PBFT, `src/pbft.rs` | client: `seq`, `invoke.replies`; replica: `replies`, `requests`, `op_num`, `log`, quorums, `commit_num`, `app`, pending votes | request, (signed/received/verified) pre-prepare, prepare, commit; reply | agreement on the executed batches, exactly-once execution, quorums that intersect, no failing assertion, progress with f stopped replicas |
| Workloads, `src/workload.rs` | `workload_attach`, `done`, recorded invocations, a shared countdown | `next_op`, `on_result`, `Init`, `InvokeOk` | one outstanding operation, attachments match results |
| Session event loop, `src/event/session.rs` | channel, timer handles, timer tasks | `set`, `unset`, the loop of `run` | a handler never sees a timer that is unset |
| Other timers, `src/event/{ordered,linear,blocking}.rs`, `src/event.rs` | deadlines, states, attachments | `set`, `unset`, `advance`, `events`, `step_timer` | states and deadlines agree; a timer fires in turn |
| Worker, `src/worker.rs` | channel of closures, running tasks | `submit`, `run` | every submitted closure runs once |
| State-space search, `src/search.rs` | discovered map, two queues, barrier, flag | workers of breadth-first and random search | all states of a level are expanded before the next; workers end together |
| Kademlia, `src/kademlia.rs` | buckets, query states | `insert`, `remove`, `find_closest`, queries | buckets stay within their size and index; a query ends with the closest peers |
| Kademlia net control, `src/net/kademlia.rs` | queries, pending unicasts and multicasts, records | unicast, multicast, query result, timeout | every message is sent once or given up; timers for exactly the queries that go on |
| Session nets, `src/net/session.rs`, `src/net.rs` | connection table per remote, read and write tasks | outgoing, incoming, reclaim | messages are neither lost nor repeated while connections hold; no connection leaks |
| Bulk transfer, `src/bulk.rs` | offered buffers, connections, cancel tasks | offer, accept, transfer, cancel | a buffer is handed over once; an offer that nobody interrupts is handed over; no entry leaks |
| Crypto, `src/crypto.rs` | keys | sign, verify, digest | a library wrapper |
| Applications, `src/app/*.rs` | key-value stores, YCSB's shared insert numbers | `execute`, `next_op`, `on_result` | a record that is asked for is there, although loops insert at once |
| Entropy, `crates/entropy/src/lib.rs` | chunks in the states of put, store, get, recover; files | `Put`, `Invite`, `Encode`, `Get`, `Pull`, `Decode`, file and transfer results | PutOk means that enough different fragments are stored, GetOk returns what was put |
| Boson, `crates/boson/src/lib.rs` | clocks and their proofs | `genesis`, `increment`, `merge`, `verify` | clocks are ordered like causality |
| Entropy benchmark, `crates/entropy/src/main.rs`, `tools/entropy-control` | pending operations, peers, the controller's polls | HTTP handlers, upcalls, controller | every upcall finds its waiter; a benchmark ends, and fails only for a cause |
| Replication benchmark, `src/main.rs`, `tools/replication-control` | session, result, barrier, watchdogs | HTTP handlers, client groups, controller | rounds do not mix; a result counts every loop |
| Examples, serialization, bindings | - | wiring, measurement | not modelled: I/O and configuration |

**Interactions.** Components are state machines (`OnEvent`) in sessions with an unbounded
channel each; a call between components is an event in the channel of the other
(`Invoke`/`InvokeOk` between close loop and client), a message between nodes is serialized to a
UDP datagram, TCP or QUIC stream and becomes a `Recv` event; timers and crypto tasks run beside
the session and come back as events too.

**What is hard.** Events of one actor that were right when they were sent and are stale when they
are handled (timers, verified votes, late replies); UDP's loss, duplication and reordering; crypto
tasks that finish in any order; votes that wait for another vote's verification; threads of the
search that meet at a barrier; tables that are cleaned up by another path than the one that filled
them; two paths to one fragment; HTTP handlers that are dropped at an await because the caller has
given up; connections that both sides make at once and each side reclaims for itself.
`PROJECT.json` lists these hazards with their lines and the properties that would catch them.

## 2. Modules

| Module | Models | Checked by |
|---|---|---|
| `Service` | abstract specification: one log, every call takes effect once between invocation and response | target of the refinements (`UnreplicatedProofs`, `pbft_service`) |
| `SessionTimer` | `SessionTimer` and the timer part of `Session::run`, as operators | through `Unreplicated` |
| `Unreplicated` | `Client`, `Replica`, `CloseLoop`, their sessions and channels, UDP | `unreplicated`, `UnreplicatedProofs` |
| `Pbft` | `Client`, `Replica`, crypto tasks, network | `pbft`, `pbft_votes`, `pbft_straggler`, `pbft_gap`, `PbftProofs` |
| `PbftService` | the refinement mapping from `Pbft` to `Service` | `pbft_service`, `PbftServiceProofs` |
| `Buckets` | the bucket table of `kademlia.rs`, as operators | through `BucketTable` and `Kademlia` |
| `Kademlia` | peers: bootstrap, queries, refreshing, timers | `kademlia`, `KademliaProofs` |
| `PeerNet` | `net/kademlia.rs`: unicasts, multicasts and their queries in front of a Kademlia peer | `kademlia`, `PeerNetProofs` |
| `OrderedTimer` | `event/ordered.rs` and the timer part of `event/blocking.rs` | `structures`, `StructureProofs` |
| `BucketTable` | a table under any sequence of operations | `structures`, `KademliaProofs` |
| `LinearTimer` | `event/linear.rs`: the timers of a checked node | `structures`, `StructureProofs` |
| `UnreplicatedCheck` | `mod check` of `unreplicated.rs` with the key-value store and the `Iter`, `Recorded` and `Check` workloads | `structures` |
| `Boson` | the clocks of `crates/boson/src/lib.rs` | `structures`, `StructureProofs` |
| `Search` | `breadth_first` and `random_depth_first`, their workers and the main thread | `structures`, `search_timeout`, `StructureProofs` |
| `ChunkStore` | abstract specification: what puts and gets of chunks promise | target of the refinement of `Entropy`, `EntropyProofs` |
| `Entropy` | the peers of the chunk store, their files and transfers | `storage`, `EntropyProofs` |
| `Bulk` | `bulk.rs`: offers, connections, cancellation | `storage` |
| `Ycsb` | `app/ycsb.rs` against `app/btree.rs` | `storage`, `UnreplicatedProofs` |
| `Countdown` | `Total` of `workload.rs` | `storage`, `UnreplicatedProofs` |
| `EntropyServer` | `crates/entropy/src/main.rs` and its controller | `servers`, `ServerProofs` |
| `ReplicationServer` | `src/main.rs` and its controller | `servers`, `session_taken`, `ServerProofs` |
| `Dispatch` | the connection table of `net/session.rs` over TCP | `servers`, `ServerProofs` |

`MC*` modules hold instances for TLC, `*Proofs` modules theorems and their proofs.  A definition
whose comment begins with "Mutant" or "The mutant" is a plausible wrong version of the one that follows it; none
is used by a specification.  `PROJECT.json` pairs each with the property that it violates.

### How state and actions correspond to the code

**Unreplicated.**  One action per handler: `OnInvoke`, `OnTimer`, `OnReply`, `OnRequest` of the
protocol, `Launch` and `OnInvokeOk` of the close loop.  Sessions have their channels, since an
event that waits there may be stale when it is handled.  What a session does about timers is
`SessionTimer`: a set of handles, the tasks that tick, and Timer events that wait in the channel
(`Tick` puts one there, `OnTimer` takes it out and ignores it unless the timer is still set).  The
network is a set: receiving leaves the message there, so everything may be repeated and
reordered, and `LoseRequest`/`LoseReply` lose it.  The application is the log of what was executed.

**Pbft.**  The state of a replica is a record; a handler is an action, and a method that several
handlers share is an operator from record to record.  The view is 0 forever, because no code
assigns it.  A task of the crypto worker and the event it sends are one element of `tasks`, and
may finish in any order.  `InOrder` says that pre-prepares are verified in the order of their
numbers, which TCP with an inline worker gives and UDP with spawned tasks (what `main.rs` deploys)
does not.  `Slow` are the replicas that receive messages while tasks are under way; for the others a
task ends before the next message, a reduction of interleavings.  `MaxDup` and `MaxBad` bound
repeated messages and bad signatures.  Replicas fail by stopping (`Alive` are the others).
Equivocation is left out: its remedy, the view change, is not implemented.

**OrderedTimer.**  `deadlines` and `states` are the code's two structures.  Handlers set and unset
timers as they like, the clock runs beside, `Advance` is one turn of the loop.

**Search.**  A worker is a program counter with its locals; every access to shared state (pop,
discovered entry, push, result, barrier, flag, look at the queue, swap) is a step of its own.
`limit` says there is a time limit that may pass at any moment.  `prompt` says that the sleep at
`search.rs:427` is long enough for the other workers to have made the checks before it, as the
comment there hopes; properties that need it say so.  Random search has the same workers' record
with a path in the place of the queues; `random` of the system chooses which search runs.

**Buckets, BucketTable.**  An identifier is the set of its bits, of a reduced width in the runs, for
which the code's own `BITS` parameter exists.  The exclusive or is then the symmetric difference
(`Distance`), two distances compare by the highest bit in which they differ (`Below`), and `Index` is
the greatest element of a distance.  `Inserted` and `Without` do to one bucket what `insert` and
`remove` do.  `FindClosest` takes what the code's visits of the buckets come to, in their order
(`VisitedBefore`) and within a bucket by distance.  `remove` with the origin's identifier would panic
in `index`, and `insert` of it is refused; no caller does either.

**Kademlia.**  `Init` is the state after `bootstrap` has been called, as `examples/peer-hello.rs`
does before the session runs: the seed peers are in the buckets (`Filled`), and the seed itself
starts with empty ones.  `ApartAssumption` has no two peers differ in the lowest bit only, which
would let `refresh_buckets` run past the array; identifiers are hashes.  `SignedFindPeer`,
`ResendFindPeer`, `VerifiedFindPeer` and `VerifiedFindPeerOk` are the handlers.  Verification and
the signing of answers are part of the delay of a message.  `FindPeerOk.seq` only leads back to the
requester's address, and so the answer has its destination from the start.  `find_closest` is the
set that `FindsNearest` of `BucketTable` shows it to return.  A handler's error ends the session,
and with it the peer.  `Random` are the identifiers chance may pick to refresh a bucket.

**PeerNet.**  The control and the Kademlia peer are sessions, so that queries and results travel in
the channels `toPeer` and `toControl`.  The peer itself is what `Kademlia` shows of it: Progress
results, one final result, and an error for a second query of a target that is being looked up.
`unicasts`, `multicasts` and `waiting` are the code's maps, `netTimers` the QueryTimeouts that are
set; an unreachable target, a full cache and results that resolve another query are all there.
`OnQueryResult` is one step, of which `Found`, `Unreachable`, `Answers` and `Restarts` tell the four things
it may do, and `Destinations` what it sends.  `Pushed` is what an LRU cache may hold after a push.

**LinearTimer, UnreplicatedCheck.**  The table is a sequence, as in the code.  `UnreplicatedCheck`
keeps one record `state` as the code's `State`; `CheckStep` is `step` with the `flush` at its end,
and `Dry` what `DryState` keeps.  `Rehydrated` builds a state from a dry one the way the search
takes it to be: `DrySuffices` compares it with the state at hand.

**Boson.**  A clock is its counters and the circuit it was made by; a proof is what the circuit's
constraints accept (the counters of the inputs, the secret of the counter that grows, the same
circuit).  Beside it every event carries the set of events in its past.

**Entropy, ChunkStore.**  One action per handler, each taking one event of its peer from `inbox`,
where network, transfers, codec worker and file session put them in any order.  A fragment carries
the index it travels under and the one it was encoded for, which is what a mix-up would show.
`Draws` are the indices that `rand::random` may give, two peers' among them the same.  The code
`wirehair` is external: any `ChunkK` fragments decode, or up to `MaxExtra` more are needed.
Every assertion of `lib.rs` is modelled (`Panic`), and the errors that end a session (`failed`).
`EntropyAssumption` has each chunk put at one peer: a chunk is named by its digest, and the benchmark
puts fresh random bytes (`main.rs:419`, 504).  With two uploads of one chunk a peer would answer the second with
another draw than the one it keeps (`lib.rs:322`), and the assertions at 425 and 437 do not allow for that.

**Bulk.**  An offer is its entry in `pending_accept`, its cancel task and the tasks of those that
were told of it; connecting, accepting and both ends of the stream are steps of their own.

**Ycsb, Countdown.**  `InsertState` is shared by the loops under its mutex; the service executes an
operation at some moment between its start and its result.  `Countdown` has the load, and each
try of the weak compare-exchange, as steps.

**EntropyServer.**  A call is a handler with its place among its awaits; `HandlerDropped` drops it at any
of them, as axum does when the caller goes away.  The store is what `ChunkStore` promises, which is
safety only: it may never answer (`bulk.rs:201`).  Each request may fail, with the server having handled it
or not (`StartFails`, `BeginFails`, `PollFails`, `StopFails`, `CallFails`), and a decoder may err, or
want more than `K` chunks and run out of them (`DecodeFails`, `WantsMore`); `MaxMishaps` bounds these together
with the peers that end.  The controller's session (starting, polling every second, taking results) is `control`.

**ReplicationServer.**  `Started` and `Stopped` are what the handlers do with the state of a server.
The close loops, the group's main task (barrier, result, join) and each poll are steps; the
watchdogs poll `ok` beside the controller's own poll.

**Dispatch.**  A connection has two ends with a write task, a read task and what is on the wire
between them.  `table` holds an end and whether it was used since the last reclaim.  `Break` is a
connection that fails with what it carries.  `ReadFails` is a read task that gives up on a message (too
long, or rejected by `on_buf`) while the connection goes on: what the other side writes from then on is lost, the
writes may block (`MayBlock`), and when its own write task has ended too the socket is closed with unread data, which
resets the connection (`Torn`).

## 3. Runs

Each run is one question.  `structures`, `storage`, `servers` and `kademlia` each explore several
systems that do not interact: `part` chooses one of them in the initial state and only that one
moves, so that the states are the sum and never the product.  Where several invariants of a component
are checked under one name, the parts are named in brackets.

| Run | Instance | Shows |
|---|---|---|
| `unreplicated` | 2 clients with 2 and 1 operations | the inductive `Inv` (in it `NoFailure`: no session errs), `ExecutedInOrder`, `ResultsMatch`, `AllDone` under loss, refinement of `Service` |
| `pbft` | 4 replicas, one stopped, 2 requests in a row, every interleaving | `AllDone` with a network that delivers: no vote and no request is forgotten |
| `pbft_votes` | 1 request, a repeated message and a bad signature | `NoPanic` (the assertions of `insert_prepare`, `insert_commit`); `VotesRight`: `OneVerification`, `PendingMeansOngoing`, `QuorumBacked`; `RequestsKept`: `AcceptedNotForgotten`, `ExecutedOnce` |
| `pbft_straggler` | 4 replicas on a schedule with one far behind | `ExecutionAgreement` when pre-prepares are verified in order |
| `pbft_service` | 3 clients at once, batches of 2 | refinement of `Service` |
| `pbft_gap` | as `pbft_straggler`, any order | violates `PreparedHasPrePrepare` (finding 1) |
| `kademlia` | a seed and 2 peers joining at once, 3 queries, any delay and timeout; net control: 3 messages of both kinds to one peer, 2 multicasts to a target that is none | `PeersSound` (`NoFailure`, `QueriesAlive`), `FindsJoined`, `QueriesEnd`; `SentOnce`, `LookupsRight` (`TimersExact`, `NoneForgotten`, `QueriesApart`) (1.1 million states) |
| `structures` | ordered timer: 3 timers, periods 1, 2, 4, clock to 5; buckets: 4 bits, buckets of 2, 8 identifiers, 5 of them in one bucket; linear timer: 4 timers, 3 periods; check: 3 clients with 3 operations; boson: 3 counters to 2, 6 clocks; search: 2 workers, graphs of 6 states, depth limit | `Inv`, `FiresInOrder`, `DueFires`; `TableInv`, `NeverShrinks`, `FindsNearest`; `NoOvertaking`; `DrySuffices`, `ChecksRight` (`NoStepFails`, `AppendLinearizable`); `ClocksSound` (`ClocksOrderEvents`, `AssertionsHold`); `SearchSound` (`DepthIsDistance`, `NearestFirst`, `Exhaustive`, `NoneStuck`, `RandomSound`), `Terminates` (270 thousand states) |
| `search_timeout` | the search with a time limit | violates `TrapsEveryWorker` (finding 2) |
| `storage` | entropy: 4 peers, one puts, two get, indices that collide, a lost transfer; bulk: 2 offers, one announced twice; 3 YCSB loops with 3 inserts; 3 sharers of 4 operations | `DataSafe` (`FailsOnlyByOverlap`, `GenuineData`, `Durable`), refinement of `ChunkStore`, `EntropyEnds`; `BulkSettles` with `OfferOnce`; `InsertsRight` (`NeverNotFound`, `FrontierExact`); `CountShared` (360 thousand states) |
| `servers` | 2 entropy servers, a put and a get of 2 of 3 chunks, a mishap (a peer that dies, a request or a decoder that fails), a poll that times out; 2 replicas, 3 loops, 2 rounds, a failure; 2 nodes, 3 messages, 2 connections, a fault (a connection that fails or a reader that gives up) | `BenchmarkSound` (`UpcallsServed`, `FailsWithCause`), `BenchmarkEnds`; `RoundsSound` (`ResultsWhole`, `RoundsApart`), `RoundsEnd`; `DeliveryRight` (`Accounted`, `TableRight`), `DispatchSettles` (850 thousand states) |
| `session_taken` | 2 replicas, 2 loops, one round, no failure | violates `SessionAtHand` (finding 3) |

**Why the bounds are enough.**  The second operation of one client is what the leftovers of its
first one (requests, replies, Timer events) can meet; the other client shares the replica's log.
In PBFT n = 4 and f = 1 are the smallest values, two numbers are the fewest that can be handled out
of order, and the pipeline holds two (the bound is `<` at `pbft.rs:336` and `<=` at 745).  In
`pbft_votes` one request is enough, since the votes of a number meet only each other.  All four
replicas with free interleaving are out of reach for two requests; `StragglerSpec` is a schedule
whose behaviours are behaviours of `Spec`, chosen so that one replica gets everything late.  Two
workers are enough for one to be late; the graph has a cycle, a join and a way around.  Buckets
and caches of two have an order and can be full, and five identifiers of one bucket are the fewest
that overflow its cache.  In `kademlia` two peers join through one seed, one of them with two
buckets to refresh; that one repeats a query while answers to its first one are on their way, and
the seed asks before and after it has heard of anybody.  The net control needs two messages of a
kind to join a query, one of the other kind to meet its result, and a target that is no peer to have
several wait in turn.  Linear timers of three periods, equal ones among them, have
prefixes that fall, rise and stand still.  Two checked clients that append to one key and a third with its own are
what makes a stale request of one meet the state of another.  In the chunk store a peer in need of a
fragment can collide on its index, receive it, recover it from others, or lose the transfer, and the
getter is once the putter and once a peer that persists the chunk.  Two servers make the chunks of
one object come from different places, and the third chunk is the one a get may no longer need.  A second
object would repeat the first with other keys, and is left out of the instance.  A second
round meets what the first one left; two connections are what both sides can make at once, and three
messages use one again after it was reclaimed.

**Symmetry.**  `pbft_votes` permutes backups that play the same part, and
`pbft_service` clients.  No run that checks liveness uses symmetry.

**Deadlock** is not checked: every system here stops when its bounded work is done.  That nothing
stops early is what `AllDone`, `DueFires`, `Terminates`, `QueriesEnd`, `EntropyEnds`, `BulkSettles`,
`BenchmarkEnds`, `RoundsEnd` and `DispatchSettles` say.

### Fairness

- `Unreplicated`: sessions take their next event (weak fairness of each handler), a timer's task
  keeps ticking while it is set, and a message that is sent again and again is received again and
  again (strong fairness): UDP loses messages, but not all of them for ever.
- `Pbft`: weak fairness of each client and replica.  The client's `Resend` handler does nothing
  (`pbft.rs:150-156`), so nothing makes up for a lost message; liveness is stated for a network
  that delivers.  For replicas weak fairness is written out with what enables the action.
- `OrderedTimer`: the loop gets to its timers again and again.
- `Search`: threads run.
- `Kademlia`: workers and timers go on; the network promises nothing.
- `Entropy`, `Bulk`, `EntropyServer`, `ReplicationServer`, `Dispatch`: tasks and sessions that can go
  on do (weak fairness of all of them together: bounded work, so that each gets its turn), and the
  controllers keep polling, since they loop over a sleep.  What the outside does has no fairness:
  calls of applications, cancellations, lost transfers, timeouts, failing connections, requests and
  readers, dying peers; nor has the store of `EntropyServer`, which may never answer, nor a write of `Dispatch` to an
  end that reads no more.  The properties name what excuses a wait: an index that collides or an offer that
  timed out (`EntropyEnds`), an offer somebody interrupted (`BulkSettles`), a failure (`RoundsEnd`), a
  chunk that a running benchmark waits for, since its calls have no timeout (`Waiting` in
  `BenchmarkEnds`), two ends neither of which reads (`Deaf` in `DispatchSettles`).

### Findings

1. `pbft.rs:570`: prepares of a number with a default log entry, created by the pre-prepare of a
   later number, make the replica prepared without a pre-prepare, against the comment at 571; with
   commits it executes an empty batch there.  It takes pre-prepares handled out of order.
2. `search.rs:410`: the flag raised at the time limit is seen by one worker and not by another
   that left the same barrier; the other waits at the next barrier for good, which the comment at
   405 excludes.
3. `main.rs:346`: `take_benchmark_result` expects the session whose result it took, but a
   watchdog's `ok` (line 82) takes any session that has finished, and one that comes between the end
   of the clients' session and the next poll leaves none: the handler panics and the result is lost.

Also met, and visible in the models: a Kademlia peer that knows nobody starts a query that contacts
nobody and never ends, since `find_closest` always returns the origin and the check at
`kademlia.rs:406` never applies (`Stuck`, the exception in `AllAnswered`); `refresh_buckets` starts
at the first non-empty bucket after bucket 0, where its comment says it skips that one too, and
runs past the array when only bucket 0 holds a record (the instance has none there); a verified vote
after the quorum creates its entry anew; the late worker of a search without the sleep reports
`SpaceExhausted` too early.  Further:

- `pbft.rs:519`: a vote that does not verify leaves the pending entry of its number, and no later
  vote of the number is verified, where the comment at 493 takes the entry for an ongoing task.
  `PendingMeansOngoing` states the rest: apart from such a vote an entry means a task.
- `crates/entropy/src/lib.rs:656, 710`: a peer that gets a chunk it is itself to persist runs into the
  `unreachable!` or an error when the decode for the get meets the state of the store
  (`Overlap`, the exception in `FailsOnlyByOverlap`).
- `bulk.rs:201`: an offer without a token is dropped 2.5 s after it was made, also when the peer's
  accept is on the way; the exception in `EntropyEnds` and `BulkSettles`.  `bulk.rs:227`: an accept that
  states no length takes a dropped stream for an empty buffer; every caller states it.
- `session.rs:318`: a message that `on_buf` rejects ends the read task of a connection that is well; it stays in
  the table of the other side, whose later messages are lost without an error (`ReadFails`).
- `crates/entropy/src/main.rs:113`: calls between the servers have no timeout, and the store does not promise to
  answer: a benchmark that waits for one chunk too many keeps the controller polling for ever (`Waiting`).
- `event/linear.rs`: only a prefix of falling periods is offered, and a short timer behind a rise
  waits (armed in the order 10, 12, 5: that of 5 waits for that of 10), so `events` leaves out firings that clocks
  allow; `NoOvertaking` is the other direction, that it offers none they exclude.
- `app/ycsb.rs:405`: the count of transactions is compared and never incremented, so that a workload
  ends only with its loop.
- `crates/entropy/src/main.rs:536`: a poll takes the result out of the table before the answer is
  sent, and a poll that times out at the controller loses it (`"key"` in `FailsWithCause`).
- `net/kademlia.rs:205`: the handler returns when a unicast finds its target missing, before it looks
  at the multicasts behind it (`Mixed`, the exception in `NoneForgotten` and `QueriesApart`).
- `main.rs:336`: a close loop that ends with an error never reaches the barrier, and the group waits for
  it; the exception in `RoundsEnd`.
- `event.rs:148`: `unset` of the non-erased `Buffered` fails when the attachment is there; it is not used.

## 4. Proofs

TLAPS proves the following for every value of the constants allowed by the modules' assumptions.

| Theorem | Property | States |
|---|---|---|
| `UnreplicatedProofs!Invariance` | `Inv` | For any number of clients, operations and workload lengths, the inductive invariant relating close loops, channels, timers, network and replica holds in every reachable state. |
| `UnreplicatedProofs!NeverFails` |  | No session of client or close loop ever ends with an error or a failed assertion. |
| `UnreplicatedProofs!ExecutesInOrder` | `ExecutedInOrder` | The replica executes every request at most once and every client's requests in order. |
| `UnreplicatedProofs!RecordsOwnResults` | `ResultsMatch` | Every result a close loop records is the one of its own operation. |
| `UnreplicatedProofs!ImplementsService` | `ServiceSpec` | For any clients, workloads, losses, repetitions and timers the protocol implements the abstract service: every operation takes effect once, at one place of one log, between its invocation and its response. |
| `UnreplicatedProofs!CountInvariance` |  | The inductive invariant of the shared countdown: a sharer between its load and its exchange has seen a count that is no less than what remains. |
| `UnreplicatedProofs!SharesTheCount` | `CountShared` | For any number of sharers and any count, each operation is given out once, nothing is lost to a race and the count does not wrap below zero. |
| `UnreplicatedProofs!YcsbInvariance` |  | The inductive invariant of the shared insert numbers: no two loops insert the same number and what is acknowledged beyond the frontier waits. |
| `UnreplicatedProofs!InsertsAreRight` | `InsertsRight` | For any number of loops and any order of acknowledgements the insert frontier is exact, and what a loop draws below it is stored. |
| `PbftProofs!Invariance` |  | For any number of replicas, clients and requests the inductive invariant of PBFT holds: what a replica logs, gathers, verifies and sends is justified by the logs of the senders, with messages lost, repeated and reordered and crypto tasks that finish in any order. |
| `PbftProofs!NeverPanics` | `NoPanic` | No assertion of a replica fails: no second pre-prepare for a number, no second quorum for a number that is prepared or committed. |
| `PbftProofs!Agreement` | `ExecutionAgreement` | When pre-prepares are verified in order, any two replicas execute the same batches at the same numbers, for any number of replicas and faults. |
| `PbftProofs!AgreementButForGaps` |  | Without that assumption replicas still agree on every number for which neither executed an empty batch: the gap of the finding is the only way to disagree. |
| `PbftProofs!VotesAreRight` | `VotesRight` | One vote per number is verified at a time, a vote that waits has a verification under way unless a signature was bad, and what is prepared or committed has a quorum of distinct replicas behind it. |
| `PbftProofs!KeepsRequests` | `RequestsKept` | A request the primary accepted stays queued, in a batch being signed or in the log until it is executed, and no replica executes a request twice, however often it is delivered and however many batches are closed at once. |
| `PbftServiceProofs!ImplementsService` | `ServiceSpec` | When pre-prepares are verified in order, Pbft implements the abstract service for any number of replicas, clients, requests and repeated deliveries: every call takes effect once, at one place of one order common to all replicas, between its invocation and its completion, and f + 1 equal replies carry the result computed at that place. |
| `StructureProofs!Invariance` | `Inv` | For all periods and any number of timers the table and the ordered set agree, so the inconsistency errors of unset and advance are unreachable. |
| `StructureProofs!Ordered` | `FiresInOrder` | Timers fire in the order of their deadlines, whatever handlers set and unset in between. |
| `StructureProofs!LinearInvariance` |  | In the table of linear timers what a timer is owed stands before it, after any sequence of sets, unsets and firings. |
| `StructureProofs!NothingOvertakes` | `NoOvertaking` | For all periods and any number of timers the search is offered no timer before one that every clock fires first. |
| `KademliaProofs!Invariance` | `TableInv` | For any width of identifiers and any bucket size the table is well formed and every record is in its bucket, after any sequence of inserts and removes. |
| `KademliaProofs!Keeps` | `NeverShrinks` | For any width and bucket size no operation makes a bucket smaller, and only a removal that takes a record from the cache replaces one. |
| `KademliaProofs!Finds` | `FindsNearest` | For any width, bucket size, table and target `find_closest` returns the identifiers that are nearest to the target, nearest first. |
| `KademliaProofs!Sound` | `PeersSound` | For any peers, seeds, lookups and delays no session of a peer ends but by a timeout, every query waits for somebody and has its timers, and refreshing stays in the array. |
| `PeerNetProofs!SendsOnce` | `SentOnce` | For any messages, targets, cache size and results a message waits in one place, is sent once to distinct peers, no more than it is meant for, or is dropped. |
| `PeerNetProofs!KeepsLookups` | `LookupsRight` | The timers are those of the queries that go on, what waits has a query under way, and no target of one kind of messages is looked up twice at once. |
| `StructureProofs!SearchIsSound` | `SearchSound` | For any system, any number of workers and any depth a search reports shortest traces (a random one real walks), says "exhausted" only when all was seen (with the sleep long enough), and without a time limit leaves no worker at a barrier. |
| `StructureProofs!BosonInvariance` |  | For any set of counters every event held or published carries the exact account of its causal past. |
| `StructureProofs!ClocksAreSound` | `ClocksSound` | For any set of counters and any limit, comparing two clocks compares the pasts of their events, and no assertion of the provers fails except by overflow at the limit. |
| `EntropyProofs!Invariance` |  | For any peers, chunks and draws of indices, no event, task or transfer on its way is out of date for the handler that will take it, and the worker answers each encoder and decoder of a get once. |
| `EntropyProofs!DataIsSafe` | `DataSafe` | For any peers, chunks and draws, with events in any order and transfers that fail: only a peer that gets a chunk it persists can fail an assertion or end, what is stored and returned is genuine, and PutOk means ChunkN different fragments stored. |
| `EntropyProofs!ImplementsStore` | `ImplementsChunkStore` | The peers implement the abstract store: a put takes effect at one moment between the call and PutOk, a get is answered once and only for a chunk that is stored. |
| `ServerProofs!ServerInvariance` |  | The inductive invariant of the entropy benchmark: each call is in one place, pending while somebody will answer it, and the controller's phase tells which benchmarks were begun. |
| `ServerProofs!BenchmarkIsSound` | `BenchmarkSound` | For any number of peers, operations and chunks every upcall finds its call, though callers give up at any await and requests fail; and as long as no peer ended and no request or decoder failed, the benchmark fails only when it ran ahead of start-peers, a decoder wanted more chunks than there were, or the answer that carried a result was lost to a timeout. |
| `ServerProofs!ReplInvariance` |  | The inductive invariant of the replication benchmark: places are vacant when sessions start, and as long as nothing failed every session that should run does, with its watchdog. |
| `ServerProofs!RoundsAreSound` | `RoundsSound` | For any number of rounds, replicas and loops a result is of the round that asks for it and whole, no session replaces another, and the benchmark fails for a cause only. |
| `ServerProofs!DispatchInvariance` |  | The inductive invariant of the connections: there is one copy of a message, in one queue, and a table entry names an end of a connection between the two nodes. |
| `ServerProofs!DeliversRight` | `DeliveryRight` | For any number of nodes, messages and connections a message arrives at most once and is lost only when a connection has failed or a read task has given up, and nothing is sent to another node than it is for. |

**Unreplicated.**  For any clients, operations and length of the workloads (`NumOps` positive,
`None` no operation).  None of the properties is inductive.  `Inv` adds where the current operation
of a close loop is (`LoopInv`: nowhere, in the client's channel, with the client, on its way
back), that exactly the timer of the current invocation is set (`TimerInv`), and what may be in
the network: requests not newer than the client's last (`RequestInv`), replies not newer than the
stored one and equal to it if of the same number (`ReplyInv`), and the stored reply points at its
entry in the log (`StoredInv`, `AppInv`).  `NoFailure` needs `LoopInv` and `TimerInv`, `ResultsMatch` needs
`StoredInv` and `ReplyInv`.  For each handler a lemma first rules out its error branch and gives its
effect in flat form; then one lemma per conjunct goes through the actions.

That the protocol implements `Service` is proved on top of `Inv`.  The mapping reads the log off the
replica's, a call off the client's session (invoked and not executed, executed, or none) and the
results off what the close loop recorded plus what is on its way to it.  The service sees three
steps: the session takes an operation, the replica meets a request for the first time, the session
takes the reply.  Every other step, a repeated request and a late reply included, leaves the mapped
state as it is; that is a lemma each.

**OrderedTimer.**  `Inv` joins `Consistent` (both structures tell the same) and `NoneBehind` (no
deadline before the one that fired last); `FiresInOrder` follows from the latter.

**LinearTimer** (periods natural).  What a timer is owed is a history of firings, the table is a
sequence; `LinearInv` joins them: the timers that a timer is owed stand before it, with periods that
are no longer (`OwedBefore`).  In the prefix that `events()` offers every period is less than all
before it, by its least counterexample, so nothing in it is owed anything.

**Search** (finitely many workers, a positive depth limit, `None` neither a state's record nor a result; any
graph, also an infinite one, any settings).  The set of states within `k` events, `Within`, is shown to be a
function that grows with `k` and stops growing once a level has nothing to expand (`ReachIs`, `ReachGrows`,
`ReachStops`, by least numbers).  `SearchInv` then looks at the workers as two camps: those that work on a level,
and those between its barrier and the next, one depth behind (`Abreast`).  While some work at depth `d`
(`LevelRight`) everything within `d` events is discovered, without a violation, goal or error (`Clean`); of each state
at depth `d` every event has been taken, is left with the worker that expands the state, or the state is queued
(`Remaining`); and what was discovered at `d + 1` is queued, being checked, or was reported (`Coming`,
`Reporting`).  So when all are at the barrier and nobody left early, the level is complete (`LevelDone`), which is what a
worker that finds the flag down carries with it past the barrier (`PassedRight`), and the first to swap begins the next level
with it (`LevelBegins`).  A new state is not within `d` events, since all of those are known: the depth noted is
its distance (`FoundGrows`).  Where the sleep is assumed, nobody is between the barrier and the look at the queue while another
works (`PromptRight`): an empty queue then means that nothing is left (`NothingLeft`).  Without a time limit, who ends
the search has raised the flag or will before it comes to the barrier, or all find the same empty queue after
it (`Signalled`, `Together`, `Decided`), which is why no worker is left at a barrier.  `RandomInv` has that the
trace of a walk is a way through states that are expanded.

**BucketTable.**  Lemmas tell what removing, appending, prepending and dropping an end do to a
sequence without repetition; from them what `Inserted` and `Without` do to a well-formed bucket.
That nothing is cached unless the records are full is the part that makes the rest inductive:
without it `insert` could put an identifier among the records that is in the cache.  For `Finds` the
distances are shown to be strictly and totally ordered (two that differ have a highest bit where they
do, `HighestBit`), and the order of the visits to be the order of distance: a bucket whose bit is set in
the distance of the target holds what is nearer than anything in a lower bucket, one whose bit is not set what is
farther.  In any such order of a finite set the places, the numbers of elements before, are `0` to the
size less one, each taken once (`Places`), so that the first `n` are the `n` nearest.

**Kademlia** (finitely many bits, peers apart, `NumConcurrency` positive, each peer's seeds among the others;
any peers, targets, counts and messages delayed for ever).  `PeersInv` says what holds of a
peer by the parts of its state, whatever it receives and when.  A query (`QueryRight`) waits for somebody
unless its peer knew nobody, asks nobody twice, and leaves no slot unused while somebody is left to ask
(`Slots`), which is why the end of a query is met when the last answer comes.  The timers are exactly those of the
contacts (`Waits`), so that a timer finds its query and an answer its timer.  What is being signed is no query yet
(`SignsRight`), so that a signature never meets a concurrent query; during bootstrap there is one query, of the peer
itself or of a bucket being refreshed (`BootsRight`).  `BootstrapFails` is unreachable because a peer that
was answered has a bucket other than bucket 0 that is not empty (`InsertTyped`, from `ApartAssumption`).

**PeerNet** (finitely many peers, counts positive, a unicast for one peer).  `NetInv`: a message is
in one place under its own target and was not sent (`PlacesRight`); a query of multicasts is there for one of them
(`OngoingRight`); what was sent went to distinct peers (`SentRight`), since the peers of a result are.  For
`NoneForgotten` and `QueriesApart` a target that has one kind of messages has at most one query,
in one place of three, and what it was started for waits for it or is cached (`OnePlace`).

**Pbft** (finitely many replicas, `F >= 1` and `N >= 3F + 1`, a primary that has not stopped, `MaxBatch`
positive, `MaxSeq` natural, `None` neither a reply nor the replies gathered).  `IInv` says of each replica what its
own state may be (`Local`) relative to a *world*: the requests that were invoked, the pre-prepares
that the primary has logged and the votes that the logs of their senders justify.  The world is
computed from the state and grows with the logs, so that what was said of a message, a vote that
waits or a crypto task when it was made stays true however late it arrives.  The methods are proved
against a fixed world, then the handlers, then the world is exchanged for the larger one.  Two parts
carry the assertions: once a number is prepared at most one prepare for it is left, gathered or
being verified (`LeftOver`), and one is never a quorum again; and the primary has one pre-prepare
under way for a number that is not in its log (`SignedOnce`).  Agreement needs only that a committed
batch is the primary's, which holds because digests determine batches and the primary does not
equivocate (replicas that deviate from the code are outside this model), and that logs have no gap,
which is what in-order verification (`InOrder`) gives.  Without it `AgreementButForGaps` says that the gap
is all that can go wrong.  `VotesRight` adds `OInv`: a pending entry has a verification under way (`Ongoing`).

`RequestsKept` adds `KInv`.  A request that is accepted is queued, then in a batch being signed, then in
the log, then executed; `Held` is the batches of the middle two.  At the primary no request is in two
places (`Apart`), which closing a batch keeps because the batches and the rest of the queue are
disjoint stretches of it; and nothing in a place is newer than the replies table says (`Noted`), so that a
request that passes the match of `Recv<Request>` is in no place yet.  At every replica a request noted
without a reply is in a place beyond `commit_num` (`AllWait`): execution gives a reply to each client it
serves, and executes no gap at the primary, where a committed number always has its batch.  For
`ExecutedOnce` the executed batches of any replica are the primary's under the same numbers.

That `Pbft` implements `Service` is proved under `InOrder`, for finitely many clients, in `PbftServiceProofs`.
There is no log of the service in the system: the mapping takes the batches of the replica that has executed most,
one after the other (`Ordered`), and a call has its place there once that replica executed it, whoever that is at
the time.  `FlattenSeq` is a recursive function, so what concatenation gives (`FlatStep`, `FlatPrefix`, `FlatPlace`) is
shown by least counterexamples.  By agreement the batches of any replica are a prefix of the longest (`LeadIs`), and by `KInv` no
request is twice in them (`AppOnce`), so the order only grows (`FlatGrows`) and each of its requests has one place.
`RInv` follows a result from the table of a replica over the reply to the client: it is the one of its request at its
place in the batches of the replica it came from (`AnswersTo`), which stays so as these grow.  A client has one
result for each call but the one under way.  So a replica's step adds to the order only calls that
are under way, whose older ones are there already (`NewCalls`), and at most one for each client: `Execute`.  The reply that completes a
call was computed at the call's place: `Respond`.  `ClientInvoke` is `Invoke`, and every other step leaves the mapped state
as it is.  Without `InOrder` the gap of `pbft_gap` lets two replicas execute different batches under a number, so the
hypothesis cannot be dropped.

**Countdown, Ycsb** (finitely many loops).  `CountInv` bounds what a sharer has seen from below by
what remains: that is why the exchange cannot take from zero.  `YcsbInv` has that no two loops insert
the same number, without which an acknowledgement could remove a number twice; the loop that
advances the frontier is shown to stop at the least number missing.

**Boson** (any finite set of counters).  `BosonInv`: the past of an event is exactly what its counters
say.  Increment adds one to both; the maximum of counters is the union of pasts.

**Entropy** (finitely many peers, `ChunkN` positive, each chunk put at one peer; any chunks, closest peers and
draws, colliding ones too).  Every claim about this protocol is one about the events on their way, since
network, transfers, codec worker and file session deliver in any order.  `EInv` therefore says of each
kind of event, task and transfer what still holds when it will be handled: that the peer an encoded
fragment is for still waits and is offered no other (`EncodeRight`), that a transfer is the peer's own
and only one or the peer gets the chunk (`TransferRight`), that a task to store finds no directory
(`StoreRight`), that a peer that reports is stored and pending at the uploader under an index
nobody else has (`AvailableRight`, `Paired`), which is why `ChunkN` reports are `ChunkN` different
fragments (`Served`).  All of it is relative to the put being open or the peer not getting the chunk:
that is the overlap of section 3, the exception in `FailsOnlyByOverlap`.  `Awaited` adds that an
encoder or decoder that comes back from the worker finds its place empty, for gets.  What no step
undoes (`Mono`: an index, an answer, a status that only advances) is proved for a step first, and
the lemmas `Move*` and `Quiet*` carry the kinds of events that a step does not concern over it.

The refinement maps the calls to `asked` and `answered` and the chunks that can be got to those with
`ChunkN` indices stored.  A peer that becomes `Available` may make its chunk retrievable (`StoreTake`),
which needs the put still pending (`StoreOkTakes`): when it is answered, `Served` says that the chunk is
retrievable already.  The steps of the calls map to theirs and all others leave the mapped state.

**EntropyServer** (`K` of `N` chunks, `Url` a server for each call).  `ServerInv` follows a call from its
handler to the store and back (`CallRight`): while it is in the store or on its way back it is in
the table and its receiver is there, whoever gave up.  `ControlRight` ties the controller's phase to
the benchmarks begun, `PollRight` says that a result is gone only for a request that timed out.
`Cause` and `TaskCause` follow a failure back to what caused it: as long as `mishaps` is 0, a task that failed
found no peer started (`"peer"`) or its decoder ran out of chunks (`"recover"`).

**ReplicationServer.**  `ReplInv`: places are vacant when a session starts there (`Vacant`) and, while
there is no failure, the sessions that should run do and have their watchdogs (`NoFailures`), which is
why `"failed"` needs a cause.

**Dispatch** (messages between nodes, any bound on connections).  `DispatchInv` has one copy of each
message in one queue (`OneCopy`, no queue holds one twice) and a ledger: what was sent has arrived once, is lost, or is carried.
Without a fault no connection is broken and no reader has given up (`Faults`), so nothing is lost.
Closing a channel moves what is in it to `lost` as a set, which would lose count if copies existed.

Only model-checked, and why:

- all liveness (`AllDone`, `QueriesEnd`, `Terminates`, `DueFires`, `EntropyEnds`, `BulkSettles`, `BenchmarkEnds`,
  `RoundsEnd`, `DispatchSettles`): out of the prover's reach;
- `FindsJoined`: what a lookup comes to depends on who has heard of whom when each peer answers, which the
  instance decides;
- `DrySuffices` and `ChecksRight` of `UnreplicatedCheck`, which replays the commands of a client by a recursive
  operator.

## 5. Not modelled

`PROJECT.json` lists each part with its reason.

- Crypto (`src/crypto.rs`), the proof system under boson and the fountain code under entropy are
  libraries; the models use what they promise.
- The traits of `src/event.rs` and the adapters that attach an event to a timer: the models keep the
  event with the timer, which is what the adapters do.
- The QUIC and the simplex net: QUIC fills the table of `Dispatch` through another library, simplex
  opens a connection per message and keeps no state.
- SQLite's statements, the contents of YCSB's fields and the distributions of its keys: data.  The
  models choose any key the distribution may give.
- The IPFS comparison of the entropy benchmark, examples, serialization and deployment scripts: I/O,
  measurement and configuration.
- Of modelled parts: Byzantine replicas in `Pbft` (the code has no view change), signatures that do
  not verify in `Kademlia` and `Entropy`, the channel in front of the worker's executor, and in `Dispatch` a
  node that vanishes without a reset: the code sets no keepalive, and its read task would wait for good.

## 6. Plan

1. *Done*: unreplicated protocol with proofs; PBFT; ordered timers and buckets with proofs;
   breadth-first search; Kademlia.
2. *Done*: net control, check system, linear timers, random search, boson, entropy with its abstract
   store, bulk transfers, workloads, connection tables, both benchmark deployments.
3. *Done*: proofs for PBFT, the refinement from `Unreplicated` to `Service`, workloads, boson, timers,
   the chunk store and its refinement, connection tables and both benchmark deployments.
4. *Done*: proofs for the bucket table and its lookups, `Kademlia`, net control and the searches, and the
   refinement from `Pbft` to `Service`.
5. Left: `OfferOnce` and what `BulkSettles` rests on in `Bulk`; the check system, whose replay would have to
   be told without recursion.
