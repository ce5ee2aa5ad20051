# Formal models of connectivity-cloud

TLA+ models of the services that carry telemetry from sensors to the
blockchain, TLC configurations that check them on small instances, and TLAPS
proofs of the properties that matter most for every size of the instance.
Paths are relative to the root of the repository.

## The system

```
 sensors --POST--> endpoint x n --telemetry.authorized.v1--> batcher --telemetry.batched.v1--> blockchain-anchor --> chain
                    |   |   \--telemetry.rejected.v1           |                                  |
                    |   +-- Redis: nonce claims                +------- telemetry.dlq.v1 ---------+
                    +------ sensor auth (open | whitelist | CPS tree on the chain)
                                   telemetry.authorized.v1 --> heartbeat-tracker --> Redis, metrics
                                   telemetry.authorized.v1 --> pubsub-broadcaster --> libp2p
```

All services are single Node processes (the endpoint may run as several): code
between two `await`s is atomic, everything else interleaves.

| Component | State it keeps | Operations | What makes it correct |
|---|---|---|---|
| batcher (`services/batcher/src/index.ts`) with its flusher (`batch-flusher.ts`) | current batch, flight (`flushPromise`), timer, `shouldStop`; position and committed offset of the group | consume a record, flush by size, lag, timer or stop, route to the DLQ, produce, commit, stop | nothing committed before it is durable; nothing dropped or published twice by racing flushes; order within a partition kept; a failed batch is retried; stop drains |
| payload builder (`payload-builder.ts`) | none | `fitBatch` | every event in exactly one payload or oversized, in order, each payload within the limit |
| blockchain-anchor (`services/blockchain-anchor/src/index.ts`) | message in progress, watched extrinsic, `shouldStop`; committed offset; the chain | parse, reject oversized, check the chain, submit, wait for finality, commit, stop | committed means anchored or routed; one anchor per batch as far as the check can see; order; failures end the process |
| endpoint (`services/endpoint/src/index.ts`, `producer.ts`) | requests in progress, rejected publishes pending | the handler of `POST /v1/telemetry`, stop | one authorized event per signed envelope; every request answered; a client that waits is served before anything is closed |
| nonce store (`packages/infra/src/nonce-store.ts`) | claims in Redis with a TTL | `claim` | a claim outlives its acceptance window |
| CPS auth (`services/cps-auth/src`) | LRU cache, look-ups in flight | `authenticate` | fail closed, failed reads not cached, one look-up per sensor, bounded cache, answers that were true at some time |
| heartbeat-tracker (`services/heartbeat-tracker/src/index.ts`) | `firstSeen`, `lastSeen`, `onlineSince` per sensor in Redis | record (Lua compare-and-set), scrape and prune, stop | `lastSeen` monotone; a prune removes only stale sensors; a stop drops no event |
| pubsub-broadcaster (`services/pubsub-broadcaster/src`) | connected reserved peers, dial sweeps, monitor (paused or not, pending debounce), Kafka stream, run loop | start and its rollback, redial, poll, debounce timer, pause, resume, publish, stop | the stream follows the monitor and settles on the side of the threshold; a peer that answers is dialed again; a stop loses nothing in flight and leaves nothing running |
| whitelist, open auth | a set read at start | look-up | membership |
| shutdown handler (`packages/core/src/shutdown.ts`) | `shuttingDown`, listeners | signals | `stop` runs once, and the process exits by itself only at its end |
| infra helpers, topics, loggers, status page, CLI | none that matters here | | not modelled |

The hard behaviour: flush paths that interleave at every await, calls to Kafka,
Redis and the chain that fail although they took effect, crashes between an
effect and its commit, redelivery, clocks of several instances, reorganisations
of the chain, and stops that race all of these. `PROJECT.json` lists each hazard
at its line with the properties that cover it.

## Modules

| Module | What it is |
|---|---|
| `AtLeastOnce` | abstract: a record gets its outcome before the committed offset passes it |
| `Batcher` | the batcher with flusher and fitting; Kafka and crashes as environment |
| `BatcherProofs` | TLAPS proofs about `Batcher`: nothing is lost, and the refinement of `AtLeastOnce` |
| `BatcherOnceProofs` | on top of it: order, nothing published twice, a quiet end |
| `BlockchainAnchor` | the anchor; the chain and its pool as environment |
| `AnchorProofs` | TLAPS proofs about `BlockchainAnchor` |
| `Endpoint` | endpoint instances with the nonce store |
| `EndpointProofs` | TLAPS proofs about `Endpoint` |
| `HeartbeatTracker` | the heartbeat tracker with Redis, other instances and scrapes |
| `HeartbeatProofs` | TLAPS proofs about `HeartbeatTracker` |
| `CpsAuth` | the CPS authentication with its cache; the tree as environment |
| `CpsAuthProofs` | TLAPS proofs about `CpsAuth` |
| `FitBatch` | the recursive halving of `fitBatch`, over the batches `Batcher` produces |
| `FitBatchProofs` | TLAPS proofs about `FitBatch` |
| `Broadcaster` | the pubsub broadcaster with its connectivity monitor, its peers and the shutdown handler |
| `BroadcasterProofs` | TLAPS proofs about `Broadcaster` |
| `MCBatcher`, `MCBlockchainAnchor`, `MCEndpoint`, `MCHeartbeat`, `MCCpsAuth`, `MCBroadcaster` | model values and symmetry for TLC |

`Batcher` and `BlockchainAnchor` both instantiate `AtLeastOnce` with the
refinement mapping `owed <- Owed, settled <- Settled`: what a record owes is in
the log, what is settled is in the topics or on the chain.

### Batcher

`pending` is the flusher's `currentBatch`, `inflight` the detached batch
(`flushPromise` is null exactly when it is empty), `flushPc` the await at which
the flush handler is, `loopPc` the await at which the consume loop is, `timer`
whether `batchTimer` is armed. A record is its kind: what `fromBinary`,
`formatSensorId` and the size of its compressed payload make of it.

`SkipRecord` and `AddRecord` are one turn of the `for await`, up to the first
await of `maybeFlush()`; `LagLow` and `LagHigh` continue after `getTotalLag()`,
which answers 0 when it fails; `TimerFires` is the timer callback. `FlushPoison`,
`FlushOversized`, `FlushProduce` and `FlushCommit` are the awaited calls of the
flush handler, `FlushFails` the failure of any of them, with every partial
effect; a failure runs `Reattach` in the same step, as the flusher's catch and
`flushBatch()`'s catch do.

`phase` says where `stop()` is: "closing" awaits `consumer.close()`, "stopping" the run
promise, "closed" has closed the producer. `failed` says that the stream has failed by
itself, so that the run promise is to reject. `LoopEnds` and `Drain` are the `finally`
block. As `stop()` asks only whether the service was started, `Stop` may also come while
`finally` drains after the stream has failed. If a flush of that drain fails before the
stop, `shouldStop` is still false and the timer is armed again; `CloseProducer` then swallows the rejection and leaves the timer alone, and a flush
that the timer starts meets the closed producer (`Refused`, `FlushRefused`). When the run promise
rejects before `stop()` has put its catch on it, the process ends (`Rejected`, `Exit`).
`Due` is Node's order: continuations of settled promises run before the next timer,
signal or answer. `Crash` may fall anywhere and `Restart` resumes from the committed
offsets.

Abstractions: a batch id is the set of records it names (`computeBatchId` sorts
the offsets before hashing); `Fitted` allows every cut of a batch into runs of
consecutive fitting events, of which the recursive halving makes one (`FitBatch`
compares them); whether
the client's `getLag` counts from the committed or from the delivered position
is the constant `LagCountsUncommitted`.

### FitBatch

Compression is not monotone, so which lists of events fit is arbitrary but for two
facts: an event that is too large alone never fits, and neither does a list with
it. `Halve` is `fitBatch` for one such choice (`fitting`), as a recursive function on
slices; the payloads come out as slices of the events, the oversized events as their
numbers. `HalvingKeepsEvents` says of it, for every choice and on every batch that
reaches the produce call in `batcher_safety`, that every event comes out once and in order, and
that the payloads are in `Fitted`, which `Batcher` uses in its place.

### BlockchainAnchor

`current` is the message of the loop, `pc` its await, `watched` the extrinsic
whose status is awaited. The chain is external: `txs` are the account's
extrinsics in the order of their nonces, the first `best` of them are in the best
block and the first `final` are finalized. Storage queries read the best block
(`Shows`). `AnchorRejected` and `CallFails` rethrow: the loop ends and, as nothing
handles the run promise, so does the process, unless `stop()` awaits it.

### Endpoint

`pc[r]` is the await at which the handler of request `r` is, `rejection[r]` its
event that is published without being awaited, `expiry[e]` the claim of the nonce
of envelope `e`. Instances have clocks that differ from Redis' by `drift`.
`ClaimNonce`, `RefuseDuplicate` and `ClaimFails` are `SET NX EX` with the three
answers, the third with the command executed or not, or executed and repeated by
the client. `PublishFails` may leave the event in the topic.

`Stop`, `RunOnClose`, `CloseNonceStore`, `CloseProducer` and `Exit` are `stop()` and the end
of the process. Fastify refuses new requests, waits for the connections, and then runs the
`onClose` hook, which awaits the rejected events pending at that moment (`awaited`). A
handler whose client has given up (`Disconnect`, `gone`) holds no connection and runs on
past the hook: Redis answers what was sent before its QUIT and refuses the rest
(`ClaimRefused`), the closed producer refuses a send or leaves it without an answer
(`PublishRefused`), and a rejected event that it raises late is awaited by nobody.

### HeartbeatTracker

`sensors` and `stored` are the set and the hashes in Redis; a hash is the three
functions `firstSeen`, `lastSeen`, `onlineSince`. `RunScript` is the Lua script, one
step because Redis runs it alone; `handling` is the event awaited by the consume
loop. A scrape is one step per command: `ReadMembers`, one `ReadHeartbeat` per
sensor (with the stale check on what was read), then `RemoveMember` and
`DeleteHeartbeat` per stale sensor. `ReadFails`, `PruneFails` and `RecordFails` are the
failures, the last two with the command executed or not. `Stop`, `CloseRedis`, `Exit`
are `stop()`. Offsets are committed automatically, so the log is left out: any
event may be consumed at any time. `accepted`, `newest` and `raced` are history.

### CpsAuth

`identity` and `parent` are the CPS storage, which `Change` may alter at any time; a
node that does not exist has no parent, since the code denies in both cases.
`cache` is the `Map` of the `LruCache` in its order. A look-up in `inFlight` is
`pc[s]`, the read it awaits, with `node[s]` and `visited[s]`; `ReadIdentity` and
`ReadInfo` are one read each with what follows up to the next, `Hit` and `Miss` the
two ways of `authenticate()`. A call that joins a look-up changes nothing and is not an
action. The rest is history: `uses` the order of use, `disturbed` which look-ups began
before the latest change, `bindings` and `links` the tree as seen since.

A sensor may be authorized along a path that never existed at once: its node is
read, the sensor moves away, then an ancestor moves under the root and is read. The
answer is cached without expiry. `AuthorizedByLinks` states what does hold.

### Broadcaster

`phase` is the await at which `start()`, its rollback or `stop()` is. `CreateClient`,
`StartClient`, `EndFirstSweep` and `JoinGroup` are the parts of `start()` between its awaits,
`StartFails`, `UndoConsumer`, `UndoClient` the rollback. The node runs from `CreateClient` on,
since `createLibp2p()` starts what it makes; when the reserved peers that are parsed after it are
malformed (`wellFormed` is false), `start()` never gets the client, and the rollback
leaves the node running. A close of the rollback that fails is swallowed and leaves its
resource open (`leftOpen`). In both cases the process does not end by itself. `Stop` (the part before
`consumer.close()`), `CloseConsumer`, `LeaveTopic`, `StopNode`, `CloseServer` those of
`stop()`. `paused`, `pending` and `timer` are the monitor's `paused`,
`pendingDesiredPaused` and debounce timer, `Notify` and `TimerFires` its code;
`streamPaused` is what `onPause` and `onResume` have done to the Kafka stream. `dialing`
holds the peers that some sweep awaits: a sweep is `Sweep` and one `EndDial` per dial,
and sweeps of the interval overlap. `loopPc` is the await of the run loop, `position`
what it has taken and `committed` what the consumer has committed by itself.

The shutdown handler is `Signal` (with `once()`, a signal takes its listener away) and
`Shutdown`; `Kill` is the default action of a signal that has no listener, before the
handler is installed or when a signal comes twice. `Exit` and `StopFails` are its
`exit(0)` and `exit(1)`. All services install the same handler; the other modules
have its effect only.

## Runs

| Run | Bounds | Shows |
|---|---|---|
| `batcher_safety` | 2 partitions, 3 records of 4 kinds, batch size 2, 2 faults | `NoLoss`, `Accounted`, `BufferOrdered`, `NoDuplicateWithoutFault`, `ClosedIsQuiet` (a stop during the drain of a failed stream included), `HalvingKeepsEvents`, and that the batcher implements `AtLeastOnce` |
| `batcher_live` | 1 partition, 3 records, 2 faults | `FlightLands`, `StopCompletes` |
| `batcher_timer` (violation) | 1 partition, 3 records, no fault | a partial batch left without a timer |
| `anchor_safety` | 2 partitions, 3 records of every kind, 2 payloads that may repeat, 2 faults, 1 reorganisation | `AnchoredInOrder`, `DuplicatesWithinFaults`, `SoleAnchoredIsSkipped`, `EventuallyCommitted`, `StopCompletes`, and that the anchor implements `AtLeastOnce` until the first reorganisation |
| `anchor_partitions` (violation) | 2 partitions, 2 records, 1 crash | an anchored batch anchored again |
| `anchor_reorg` (violation) | 1 partition, 2 records, 1 reorganisation, 2 faults | a batch committed and anchored nowhere |
| `endpoint_safety` | 2 instances, 2 copies of an envelope, drift 1, delay 1, times 0..6, 1 fault | `AuthorizedOnce`, `ClaimCoversWindow`, `ConflictIsHonest`, `ServedBeforeClose` |
| `endpoint_live` | 1 instance, 2 copies, 2 faults | `RequestsAnswered`, `StopCompletes` |
| `heartbeat_safety` | 1 sensor, 2 scrapes, other instances, times 1..4, 1 fault | `HashIsSummary`, `FreshIsTrackedUnlessRaced`, `TakenIsRecorded` |
| `heartbeat_prune` (violation) | the same | a fresh heartbeat deleted by a prune |
| `cps_safety` | 3 sensors, 3 nodes, cache of 2, 2 steps, 1 change, 2 times | `CacheFollowsTree`, `AuthorizedByLinks`, `EvictsLeastRecent` |
| `broadcaster` | 2 peers, both needed, 1 message, 2 faults | `StreamFollowsMonitor`, `FlipsAreDebounced`, `SettlesOnSide`, `ReachablePeersRedialed`, `NoSilentLoss`, `StoppedIsQuiet`, `StopCompletes` |

Why the bounds are enough to be of use. Three records with a batch size of 2
give a full batch with one record behind it, a flush joined by another, and a
commit that could pass a pending record; two partitions a commit that touches
one of them only. Two faults give a failed call followed by a crash, or a retry
that fails again. Two instances and two requests are a race for one claim; the
time bound covers the whole life of the earliest claim (`Ttl`), after which its envelope may
be claimed again. A fault of the endpoint is a failed call, a crash or a client that gives up. For the
tracker, keys of different sensors are independent, so one sensor is enough; four
times hold a streak that breaks, and a sensor that goes stale and comes back. For the
CPS authentication, three sensors and two entries make an eviction depend on the
order of use, and three nodes make walks of two links, cycles and the step limit;
the run starts with at most one node that is bound (`MCInit`), which leaves the walks as
they are and keeps the run short. `anchor_safety` has liveness, where TLC's symmetry is
not sound, so `MCSpec` takes the logs up to a renaming of partitions and payloads: the log
never changes. For the broadcaster, two peers are enough for a sweep that waits
for one peer while the other answers, and for a count that crosses the minimum
and comes back; one message is in flight or it is not, and its offset committed or not;
two faults are a failed call or kill and another in the next life of the process.
Counters are bounded in the guards: `MaxPerPartition`, `MaxRecords`, `MaxFaults`,
`MaxReorgs`, `MaxMessages`, `MaxTime`. Deadlock is checked in every run: a process that is down can restart
and one that runs can stop, or be killed when it hangs after a failed start.

Fairness. Node runs a callback that is due, and every call returns or fails, so
the steps of loops, handlers and timers are weakly fair; the container platform
restarts a process that has ended; the chain goes on including and finalizing.
Nothing forces a fault, a stop, a stream failure or a reorganisation. For
`batcher_live` this holds for records that can be produced: a record whose
sensor id cannot be formatted fails each flush of its batch (see the hazards).
For `anchor_safety` it includes that the subscription of `signAndSend` reports an
outcome: the code sets no deadline of its own. For the broadcaster the intervals and the
debounce timer fire, a dial ends (libp2p bounds it), and calls return; peers that come
and go, autocommits, failures and signals are under no obligation.

### Disagreements with the documentation

1. `services/batcher/README.md:32`: the timer flushes partial batches. In the run the timer
   flushes a first record; a second one arrives during that flush, finds the lag low and
   arms the timer; the timer fires before the flush has ended, and its callback clears it and
   joins the flush, which does not carry the second record. `flushBatch()` arms the timer
   again only if the flush fails, so the record stays behind without one (`batcher_timer`).
2. `services/blockchain-anchor/README.md:43-46`: the check covers the crash
   window. It compares with the latest payload only; with several partitions
   another batch may have been anchored before the redelivery (`anchor_partitions`).
3. `services/blockchain-anchor/README.md:19-20`: commit only after finalization or
   a confirmed skip. The check reads the best block; a skip is not confirmed by
   finality (`anchor_reorg`).
4. `services/heartbeat-tracker/README.md:9`: `lastSeen` is the highest time seen. A
   scrape removes a sensor by what it read earlier; a heartbeat recorded between is
   deleted with the hash (`heartbeat_prune`).

Met while modelling, without a run of their own:

- `packages/core/src/shutdown.ts:36-38` says repeated signals are ignored while a shutdown
  is in progress. That holds for SIGTERM after SIGINT; the same signal again finds no
  listener, as `once()` has removed it, and ends the process at once (`Kill`).
- `services/pubsub-broadcaster/src/connectivity.ts:24` says connectivity must remain on one
  side for the interval. The monitor sees the count only when it is polled and when
  the timer fires: a count that comes back and leaves again between two polls does not
  restart the interval. `FlipsAreDebounced` states what holds.
- `services/endpoint/src/index.ts:462-464` says `stop()` waits for the requests in progress
  before it disconnects Redis or Kafka. Fastify and Node wait for connections: the handler of
  a client that has disconnected goes on while both are closed, its rejected event may be
  dropped, and its claim may be kept for an event that is refused. `ServedBeforeClose` states
  what holds.
- `services/batcher/README.md:14` says a shutdown flushes the remaining batch before closing
  resources, and the comment at `services/batcher/src/index.ts:666-667` that the run loop
  drains before Kafka resources are closed. When the stream has failed, a flush of the drain that fails arms the timer again, and
  a stop that comes then closes the producer under it. `ClosedIsQuiet` states what holds; the
  records stay uncommitted, and the next process takes them up.
- `services/pubsub-broadcaster/src/index.ts:351` logs `startup rollback complete` also when the
  node of `createLibp2p()` still runs after malformed `PUBSUB_RESERVED_PEERS`, or when the
  close of the consumer or of the client has failed. The failed start only sets an exit code, so the process
  hangs instead of being restarted; `StopCompletes` exempts these cases and no others.
- `minConnectedPeers` above the number of reserved peers is accepted, and leaves the
  stream paused for ever.

## Proofs

`BatcherProofs`, for any partitions, records, kinds, batch size and number of faults:
`TypeCorrect`, `NothingLost` (`NoLoss`), `EverythingAccounted` (`Accounted`),
`CommittedNeverGoesBack` (`CommittedMonotone`, which the runs check as part of the
refinement) and `Refinement` (`ImplementsAtLeastOnce`). `NoLoss` is not inductive: that a commit is safe depends on
what is in the batches. `IInv` adds that every delivered, uncommitted record has
the item that settles it in a batch (`Carried`), that items of the flight precede
the pending ones of their partition (`Separated`, so a commit of the flight
passes no pending record), that each batch reaches the committed offset of its
partitions even after a commit whose answer was lost (`Fresh`, so commits do not
go back), and that the calls already awaited had their effect (`FlightProgress`).
One lemma per action shows that it keeps `IInv`; lemmas about bags, `Fitted`,
`LastOffsets` and `ItemsOf` are stated once.

`BatcherOnceProofs`, under the same assumptions: `OrderKept` (`BufferOrdered`), `PublishedOnce`
(`NoDuplicateWithoutFault`) and `ClosingIsQuiet` (`ClosedIsQuiet`). The two batches are taken as
one sequence, `Buffer` (the detached batch, then the current one): a detach and a re-attach
leave it as it is, a commit drops its head, and a record is added at its end, so its
order needs no more. `OnceInv` adds that a record is in the buffer once, or as the valid and
the poison item of an unaddressable one (`BufferDistinct`); that until a fault a record in
the topic is committed or in the flight whose commit is due (`NothingReplayed`), which is why
no flush, restart or redelivery publishes it again; and what may still run when
the loop has ended (`WindingDown`): no timer unless the stream had failed, behind a flight of
`finally` nothing pending, and no flight once the loop is done but one that a leftover
timer has started after the producer was closed. What such a flight has passed it had
nothing to send for (`ClosedFlight`): every record needs a send before its commit, so it
reaches none, and what it holds is taken up by the next process.

`FitBatchProofs`, for any batch and any choice of the lists that fit: `HalvingIsFaithful`, and with
the batcher's `TypeCorrect` `HalvingKeeps` (`HalvingKeepsEvents`). That the recursion is defined on
every slice, and that what it returns for a slice is right, go by induction on the length
of the slice, since both halves are shorter (`Halves`); as the provers cannot use the library's
induction theorems, the induction is over a set of numbers, from well-foundedness. `PiecesFitted` gives the cut
into runs that `Fitted` asks for: an event's run is named by the first event of its payload. So
whatever is proved of `Batcher`, which allows every such cut, holds of the cut that the code makes.
(`Halve` is written with `IF`: tlapm 1.4.5 does not see that a function is recursive when its body is
a `CASE`.)

`AnchorProofs`, for any partitions, logs, faults and reorganisations: `TypeCorrect`, `InOrder`
(`AnchoredInOrder`), `Refinement` (`ImplementsAtLeastOnce`), `DuplicatesCostFaults`
(`DuplicatesWithinFaults`) and `SoleBatchAnchoredOnce` (`SoleAnchoredIsSkipped`). `IInv` adds that whatever the loop has
passed since the committed offset was ignored, but for the record it is at (`Following`), so
that a commit passes no other batch; what each await knows of that record, down to
"settled" at the commit (`InProgress`); and that only ignored records are between the
committed offset and a submitted batch (`Sent`), so that after any restart the loop
comes to that batch before a later one: order survives a crash for this reason. That
the best chain only grows up to the first reorganisation (`SettledStays`) is where the
hypothesis of the refinement is used.
`CostInv` counts what failures cost. A batch is at risk (`AtRisk`) when it was submitted, is
not committed, and the loop is not about to commit it: one that may be submitted again.
`Len(txs) + |AtRisk| <= |SentRecords| + faults`: a failure may put one batch at risk, a
second submission takes it out again, and a pool that drops extrinsics drops no more
records than extrinsics. A stop, a restart or a reorganisation changes neither side. On one
partition of distinct payloads, order and `Sent` make the last payload that the chain shows that
of the batch in progress as soon as the chain has it, so that the check finds it.

`EndpointProofs`, for any instances, requests, envelopes and any configuration
that `loadNonceConfig()` accepts: `TypeCorrect`, `OnlyTheGoneAreCutOff` (`ServedBeforeClose`) and
`DuplicatesAreReal` (`ConflictIsHonest`) with no more, `AtMostOnce` (`AuthorizedOnce`) and
`ClaimOutlivesWindow` (`ClaimCoversWindow`) under the hypothesis `MarginSuffices`: twice
the clock drift plus the time from the timestamp check to the claim is less than
`NONCE_TTL_MARGIN_SECONDS`. The code bounds neither, so these two theorems say what the
operator has to ensure. The invariant: a request waiting for its claim was checked within
the delay (`Timely`); a claim, once set, lasts until no instance can accept its
timestamp (`Lasting`); a rejected event comes with the answer, and from the
`onClose` hook on the handlers at work are those of clients that have gone, and an event that is
on its way is awaited or comes from such a handler (`Draining`); and the holder of an envelope is alone and has its claim (`Sole`), the only part that
needs the margin: a request that waits while a claim exists finds it alive. Until a fault every claim
has its holder, and nobody else publishes (`Attributed`), so a refused copy has a
twin that is published or about to be.

`HeartbeatProofs`, for any sensors, scrapes, windows, times and faults: `TypeCorrect`,
`HashSummarizes` (`HashIsSummary`), `FreshStaysTracked` (`FreshIsTrackedUnlessRaced`) and
`NoTakenDropped` (`TakenIsRecorded`). That the script keeps the summary is a lemma about sets of times:
what an event that is later, earlier or between does to the minimum, the maximum and the
start of the latest streak. For a prune the invariant says what a scrape in progress knows: it
removes only after it has read everything (`ScrapeOrder`), and a sensor on its list is past
the retention window, and stays so as time goes on, unless it was recorded meanwhile
(`PrunedIsOld`); with `SeenIsRecorded`, what the scrape read was the newest there was.
`HandledOnline` is what `TakenIsRecorded` rests on: the client outlives the message.

`CpsAuthProofs`, for any sensors, nodes, root, cache size, number of steps and of changes of the tree:
`TypeCorrect`, `AnswersFollowTree` (`CacheFollowsTree`), `AuthorizedAlongLinks` (`AuthorizedByLinks`) and
`ForgetsLeastRecent` (`EvictsLeastRecent`). As long as the tree does not change, the nodes that a
look-up has visited are the first ancestors of the sensor's node, none of them the root
(`WayFollowsTree`); when the walk ends, at the root, at a node without parent, in a cycle or at
the step limit, this decides `IsRootDescendant`, a cycle because the ancestors repeat from there on.
With a changing tree, `WayRecorded`: the node of a look-up is reached by links that were read. The cache is
in the order of the latest use (`CacheByUse`), so its first entry is the least recently used. `Ancestors`
and `Climb` are recursive functions; that they satisfy their equations is proved from
well-foundedness (lemma `Iteration`), as the library's theorem on it cannot be used by the
provers at hand.

`BroadcasterProofs`, for any number of peers, minimum, log and faults: `TypeCorrect`,
`NothingLost` (`NoSilentLoss`), `StreamIsGated` (`StreamFollowsMonitor`), `StopIsQuiet`
(`StoppedIsQuiet`) and `Debounced` (`FlipsAreDebounced`). The invariant adds that the timer runs
exactly while a flip is pending, to the side the last poll saw (`Debouncing`), that
the client is started as long as the loop may publish (`Serving`), and that, without a
failure, every message taken is published but the one in progress (`Delivered`): the
committed offset may be anywhere up to the position, so `NoSilentLoss` alone is not
inductive.

The assumptions are the named `ASSUME`s of the modules: types of the constants,
and for the endpoint the check `Ttl >= MinimumTtl`. TLC checks each inductive invariant on
the bounds of its component's run before it is proved.

Every safety invariant and action property of the passing runs is proved. Only model-checked, as
out of the prover's reach, is liveness: `FlightLands`, `StopCompletes`, `EventuallyCommitted`,
`RequestsAnswered`, `SettlesOnSide` and `ReachablePeersRedialed`. The four disagreements with the
documentation are counterexamples, not theorems.

## Assumptions about code outside the repository

The consumer delivers each partition in order and resumes at the committed offset;
`consumer.close()` ends the stream, and a commit after it is an ordinary call that may
fail. A closed producer refuses what is sent after its close. Redis executes a command at once,
keeps a claim until its TTL, and answers the commands sent before a QUIT. Fastify and Node wait for
connections at a close, not for handlers, and run `onClose` hooks then. Promise continuations run before
timers, and a rejection that nobody handles ends the process. `createLibp2p()` without
`start: false` starts the node. The chain includes an
account's extrinsics in the order of their nonces. libp2p joins dials of one peer, and
`node.stop()` closes the connections and ends the dials. A paused stream hands out no
message, and autocommit commits no offset that was not delivered. A signal without a
listener ends a Node process. zstd and the hashes are
deterministic and injective for the payloads at hand.

## Not modelled

Configuration parsing and client options (`config.ts` of the services, `kafka.ts`,
`redis.ts`, `env.ts`), topics, limits and rejection codes: values without behaviour; what the
client options allow (time-outs, repeated commands) is in the failures of the modules.
Logging, metrics counters, the status page and the health servers read state and
change none. The whitelist is a set read once. The fake sensor CLI sends what its
flags say in a straight loop, and its only state is that of the test that runs it.
`start()` of the consumers other than the broadcaster, up to the first record (connect,
roll back on failure), changes nothing durable.

## Plan

1. (done) `AtLeastOnce`, `Batcher`, `FitBatch`, `BlockchainAnchor`, `Endpoint`, `HeartbeatTracker`,
   `CpsAuth`, `Broadcaster`; proofs of the safety properties of each.
2. `CpsAuth`: a violation run for the authorization along a path that never existed at
   once, against the comment of the class.
3. `Pipeline`: batcher and anchor composed over `telemetry.batched.v1`, for what
   retries that change batch ids do downstream.
