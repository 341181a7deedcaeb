# A TLA+ model of nestjs-geteventstore

This directory holds TLA+ specifications of the parts of nestjs-geteventstore
that are asynchronous and keep state, the TLC configurations that check them on
small instances, and proofs that TLAPS checks for every instance. Paths are
those of the repository; `service.ts` is
`src/event-store/services/event-store.service.ts`.

## The system

| Component | State | Operations | Correct when |
|---|---|---|---|
| **Waiting lines** (`service.ts`, `reliability/implementations/in-memory`) | two arrays (event batches, metadata), two flags `isTryingToWrite*` | `writeEvents`, `writeMetadata`: put the write in its line, then drain the line unless the flag is up | every accepted write is stored once, in the order of the calls; a line that nobody drains is visible in the health status |
| **Connection** (`service.ts`) | `isTryingToConnect`, `connectionRetryFallback`, `persistentSubscriptions` | `onModuleInit`, `connect` (assert subscriptions, open their streams, assert projections, drain both lines), retry timer, `'error'` listener of a stream, `onModuleDestroy` | a failure is retried until it is repaired; connected means that the subsystems are there; no run, timer or stream is left behind |
| **Health indicator** (`health/`) | `connection`, `subscriptions` | `updateStatus` (merges), `check` (reads) | tells the truth about streams and waiting writes |
| **Aggregate roots** (`cqrs/aggregate-root.ts`, `event-store/event-store-aggregate-root.ts`) | array of uncommitted events, `autoCommit` | `apply`, `loadFromHistory`, `commit`, `uncommit` | an event leaves the array published or discarded, never otherwise; publishers see events in order |
| **Event store publisher** (`event-store/publisher`), **write event bus**, **prepublish service** (`cqrs/`) | none | prepare and validate events, write the stream's metadata, then the events | nothing invalid is written; metadata precedes events |
| **Read side** (`event.handler.helper.ts`, `read-event-bus.ts`, `default-event-mapper.ts`) | none of its own; acknowledgements at the store | parse, map, acknowledge and dispatch a delivered event | an event is handled before it is acknowledged; an unusable one is not delivered for ever |
| **CloudEvents prepublish service** (`cloudevents/`), with the constructor of events and `EventVersion` | the metadata object of each event, shared by events constructed over the same object | `prepare` fills the object in, `validate` looks at it, the publisher names the stream after it | what is written is what was validated; an event keeps what it was first prepared with |
| **Nest modules** | none | dependency injection | not a matter of states |
| **DTOs, interfaces, exceptions, tools** | none | definitions | not a matter of states |
| **Example application** (`examples/src/heroes`) | the hero's stream; sleeping sagas | kill a dragon, find and drop an item | causes are stored before effects; a kill is rewarded, and once unless something fails |

How they interact: an aggregate's `commit()` calls its publishers (the write
event bus, or the event store publisher); these call `writeMetadata` and
`writeEvents` of the service; the service puts the writes in the stacker's lines
and drains these towards EventStoreDB. `connect()` drains the same lines after
every (re)connection, without reading the flags. A persistent subscription that
fails emits `'error'` and starts `connect()`; one that delivers calls the event
handler helper, which acknowledges the event and gives it to the read event bus.
Every failure of a write or of `connect()` goes to the health indicator, and a
failed write to the application's `onConnectionFail` hook.

What is hard here is the asynchrony. JavaScript runs a function without
interruption from one `await` to the next, but nothing in this code keeps two
runs of the same asynchronous function apart except the flags: write calls,
several runs of `connect()`, timers, stream errors and late answers of the store
interleave at each `await`. Appends that failed at the client may have been
applied, and runs of `connect()` can fail at any of their requests.

## Modules

| Module | What it is |
|---|---|
| `Outbox` | Abstract specification of a line that keeps its promise: accept writes, deliver them once each in order. |
| `WaitingLine` | One waiting line and all the loops that drain it. Implements `Outbox` as long as no two of them overlap. |
| `WaitingLineProofs` | Theorems about `WaitingLine` and their proofs. |
| `EventStoreService` | The connection, its subscriptions, projections, timer and health status, composed with two instances of `WaitingLine` (`Ev`, event batches, and `Md`, metadata). |
| `Aggregate` | What the two aggregate roots share. |
| `EventStoreAggregateRoot`, `AggregateRoot` | The two aggregate roots: what `commit()` does to the array, before and after the publishers. |
| `AggregateProofs` | Theorems about `EventStoreAggregateRoot` and their proofs. |
| `AggregateRootProofs` | How general the loss is that TLC finds in `AggregateRoot`. |
| `CommitPath` | From `commit()` to the store: an `EventStoreAggregateRoot` whose publisher is the write event bus with its prepublish service and the event store publisher, over the two lines of the service (instances of `EventStoreAggregateRoot` and, twice, of `WaitingLine`). |
| `CommitPathProofs` | Theorems about `CommitPath`, over those of `WaitingLineProofs` and `AggregateProofs`. |
| `AtLeastOnce` | Abstract specification of a subscription that keeps its promise: an event is released only after it was handled. `Delivery` implements it. |
| `Delivery` | The read side: event handler helper, default mapper, read event bus and the application's handlers, over a store that delivers again. |
| `DeliveryProofs` | Theorems about `Delivery`. |
| `EventStoreServiceProofs` | Theorems about `EventStoreService`, over those of `WaitingLineProofs`. |
| `Prepublish` | The CloudEvents metadata of events that several publications prepare, validate and write. |
| `PrepublishProofs` | Theorems about `Prepublish`. |
| `Heroes` | The example application on a `WaitingLine` that `connect()` drains too, with the store's redelivery. |
| `HeroesProofs` | Theorems about `Heroes`, over those of `WaitingLineProofs`. |
| `MC*` | Small instances for TLC. |

### WaitingLine

An action is the code from one `await` to the next. A *drainer* is a write call,
named by the item it writes (`Items`), or a run of `connect()` (`Runs`).

| Model | Code |
|---|---|
| `fifo`, `accepted` | the stacker's array; everything ever put in it |
| `isTrying` | `isTryingToWriteEvents`, or `isTryingToWriteMetadatas` |
| `phase[d]`, `current[d]`, `result[d]` | where drainer `d` is suspended; the batch it awaits; `lastValidAppendResult` |
| `sent`, `stored` | requests that left the process; the store's log (external) |
| `Stack(i)`, `StackAndDrain(i)` | the two outcomes of the test at the end of `writeEvents`, `writeMetadata` |
| `Drain(r)`, `Reconnect(r)` | `connect()` starting a drain |
| `Resolve(d)` | the append resolves: shift; for events the helper `tryToWriteEventsFromBatch` then returns through its own promise (`Continue`), so other code runs between the shift and the next test; for metadata the shift and the test are one run of code (`YieldsAfterShift`) |
| `Reject(d)` | the catch: status down, hook, null, and the flag left up |
| `StoreApplies(x)` | the store applies a request, perhaps after it failed at the client |

An event append is idempotent on the event ids and is counted once however often
it is repeated. The same is assumed of metadata: a repeated
`setStreamMetadata` sets the same metadata again, and the log counts one.
`connection` starts up, or down when a reconnecting service is still waiting for
its first retry. `Runs = {}` is a service without subscriptions: its `connect()`
has nothing that can fail, runs once before the first write, and finds the lines
empty (proved of the whole service: `OneDrainWithoutSubscriptions`).

### EventStoreService

`stage[r]` is the `await` at which run `r` of `connect()` is, `cursor[r]` the
subscription or projection it is at. `Fails` is the catch of `connect()` with
`retryToConnect`; `Connected` is the code between the last request and the
event drain; `AfterUpsert` ends `upsertPersistentSubscriptions` and opens the
streams. The steps between the answer to the last upsert and the next request
are promise reactions with nothing but their own resolution to wait for, so they
are one action with it.

`groups`, `projections` and `storeUp` are the store's (external); the store may
hold groups of an earlier execution, may go down and come up at any time, and
may have carried out a request that failed. `Refused` are projections and
writes the store rejects even when it is up: a query that does not compile, a
wrong expected revision. A failed append needs a store that is down or refuses.
The optional members of the configuration (`settingsForCreation`, `onError`,
`onConnectionFail`) are a variable that never changes, `config`, so that a run
covers several configurations.

`instance[s]` is the state of the stream that `getPersistentSubscriptions()`
returns; `leaked[s]` says that an older stream of `s` is still open: a new
`connect()` overwrites the reference and closes nothing. How many are open is
abstracted: an error of one leaves some or none. `unheard[s]` says that a stream
of `s` is open with a `'data'` listener and none for errors: when a subscription
has no `onError`, `.on('error', undefined)` throws right after its stream was
opened, and the stream is referenced by nobody. `Throws` are the streams such a
run leaves behind, of the subscriptions before it (`leaked`) and of its own. An
error of an unheard stream is thrown by the emitter and ends the process, which
is no action here. `WillReopen` are the runs that will open the streams, once
they have asserted the subscriptions; one that asserts projections has done so
already. `Runs` bounds the runs of
`connect()` in progress at once: `OnSubscriptionError` needs a free one. The
application writes once `onModuleInit` has returned, as Nest starts listening
after it (`started`).

### Aggregate, EventStoreAggregateRoot, AggregateRoot

A publisher is asynchronous and reads the array it was called with at some time
after the call (`Copies`): the write event bus first resolves its prepublish
providers, the event store publisher first writes the metadata. It then
publishes its copy (`CallsNext`, `Finish`) or rejects at any time (`Fail`).
`received` and `accepted` are histories. `AppliesDuringCommit` and
`CommitsOverlap` say what the application waits for. An event of the history
under `autoCommit` starts a commit and adds nothing: that is `Commit`.

### CommitPath

| Model | Code |
|---|---|
| `step[c]` | what the publishing of commit `c` awaits: the prepare provider, the validator, `writeMetadata`, `writeEvents` |
| `streamMetadata`, `withMetadata` | `_streamMetadata` is set; the commits whose context has it |
| `Prepared` | `prepare`: the array itself, or the new one of a provider |
| `Validated`, `Refused` | `validate` and, when it finds nothing, the publisher up to its first `await`; a provider that throws, errors found, or nothing to make a stream name of |
| `WritesEvents` | the publisher maps the events (the array, if nobody copied it before) and calls `writeEvents` |
| `MetadataReturned`, `EventsReturned`, `HookThrows` | the service's promises settle; a missing or throwing hook makes them reject |
| `EventsStep`, `MetadatasStep`, `StoreApplies*` | the drain loops and the store |

The lines are drained by these writes only: what `connect()` adds is checked in
`EventStoreService`. The application does not apply or discard events while a
commit is at work: what it then loses is described below. `autoCommit` stays
off, since an `apply` under it is an `apply` and a `commit` in one step.

### Delivery, AtLeastOnce

| Model | Code |
|---|---|
| `kind[e]` | the cases that `onEvent` of the helper tells apart: not resolved, not JSON (`isJson`), data that does not parse, a type the mapper does not know, metadata that does not parse, a plain event, one with `ack` and `nack` |
| `autoAck`, `eventBus` | `_autoAck` of the subscription; a read event bus is there |
| `run[e][k]` | what the helper's run for the k-th delivery of `e` awaits |
| `OnEvent(e)` | the `'data'` listener of `service.ts`, which does not wait for the helper, with the helper up to its first `await` |
| `AckedAtOnce` | the helper's own `acknowledge`, or the client's when `_autoAck` is true |
| `Prepared`, `Validated`, `PublishThrows` | `publish` of the read event bus with its providers; `Passes` is `if (await validate(...))`, true of every list |
| `Handled`, `HandlerThrows`, `HandlerAcks`, `HandlerNacks` | a handler of the application, and the `ack` and `nack` the helper has put on the event |
| `TakesAnswer`, `TimesOut`, `StreamCloses` | the store, the stream and the process (external) |

The client's subscription is not in the repository: `_autoAck`, `acknowledge` and
`fail` are modelled from how the helper uses them. An answer names the event and
not the delivery, so a late one settles a later delivery. `answers` is a set: two
answers of one kind for one delivery count once. A run is `orphaned` when its
subscription was closed: it goes on, and its answers go nowhere. `AtLeastOnce`
maps `pending` to the events under the promise that the store still holds,
`released` to those it forgot because of an acknowledgement.

### Prepublish

`holder[e]` is the object that is the metadata of event `e`. The constructor
takes the object its options carry, if they carry one: `New` is an event with an
object of its own, that holds nothing, any partial metadata the application
gives (`Partials`: a correlation id, a version, a type), or a copy of what
another event has; `NewOver` is one constructed over an object there is, that of
another event perhaps, prepared or not. `Versioned` is the `EventVersion`
decorator, which writes into that object whosever it is. `prepare` gives each
event of a call a new object: `Spread` is the spread of what the event has over
what the context gives, so a type that came with the options goes over the one
computed. `origin` stands for the required keys that come from clock and context
alone, and names the publication that filled them. `Undefined` is a key that is
there with the value `undefined`, which the spread passes on and validation
refuses. `PrepareThrows` is a context without a hostname. Between `Prepare`,
`Validate` and `WriteEvents` other publications of the same events may come, as
they do when a commit that failed is tried again.

Two histories say where a property makes an exception: `given[e]`, the keys the
event was constructed with, and `overwritten`, the prepared events whose version
the construction of another event over the same object has replaced.

### Heroes

A kill is the command of `PUT hero/:id/kill`: the events of the fight are one
commit, one array, one write, so they stand for one item of the stream
(`Killed`). The store delivers it (`Receives`); the helper gives it to the read
bus, which awaits its hooks (`"dispatching"`), and then to the handler, which
acknowledges, and to the saga (`Handles`), whose command (`Wakes`, `AddsItem`,
`DropsItem`) finds and drops an item under `autoCommit`, one commit each.

| Model | Code |
|---|---|
| `Line` | the event line of the service, an instance of `WaitingLine`: the example configures a subscription and a projection, so `connect()` drains it next to the write calls |
| `connecting`, `Reconnects(r)` | the runs of `connect()` that are to come to their drain: the first one if it failed, one for a stream that closed, unless another is due |
| `Answered`, `Continues`, `Appends` | the steps of the drain loops; the store, which puts what it stores in the subscription's group |
| `autoAck` | `_autoAck` of the client's subscription. If it has none (`"absent"`), the helper does not replace `ack()`, which then does nothing: the kill is delivered and rewarded again up to the group's limit. If it is true, the client has acknowledged by itself |
| `drop[d]` | how far a delivery and its command are; `"adrift"` is a handler whose stream was closed under it (its `ack()` reaches nobody), `"unhandled"` a delivery that crashed before its handler |
| `overlapped` | history: two loops have drained the line at a time |
| `Crashes`, `StreamCloses`, `TimesOut`, `TakesAck` | the process, the stream and the group (external) |

A crash loses what is in memory only: the line, the sleeping sagas, the answers
under way; the process then starts again, and what the client had sent before
may still be applied. What `connect()` does besides the drain belongs to
`EventStoreService`. That it can lose a batch is found in `line_lost_batch`; the
properties that depend on it say so with `overlapped`. One hero stands for all,
since streams share nothing but the line.

## Runs

Deadlock is not checked in any of them: the application may stop writing or
committing, and a destroyed service does nothing more.

| Run | Instance | Shows |
|---|---|---|
| `line_write_only` | 3 writes, no `connect()`, fairness | `AtMostOneDrain`, `StoredInOrder`, `NothingLost`, `ResultMeansStored`, refinement of `Outbox`, `EventuallyStoredOrReported` |
| `line_reconnect` | 3 writes, 2 runs of `connect()` at any time | `StallReported`: although loops overlap and shift each other's batches, a line with nobody at work that holds writes or a raised flag is reported down |
| `service_connect` | 2 subscriptions, 3 runs, complete configuration, `settingsForCreation` or `onError` left out of one subscription, no projections | `ConnectingIsRetried`; `DownIsTransient`: a run will open the streams again; `HealthTellsTruth`: reported up, every current stream is alive and none is unheard |
| `service_writes` | 1 subscription, 2 runs, 1 write of each kind, with and without the hook | `EventStallReported`, `MetadataStallReported`, `SingleChain`, also when a drain makes `connect()` fail |
| `service_recovers` | 1 subscription, 2 projections (the second refused), 2 runs, 1 write, fairness | `Reconnects`, `RetryEmptiesLine`; `SubscriptionsAsserted` with projections |
| `aggregate_commit` | 3 events, 3 commits, 2 publishers, overlapping commits | `ClearedMeansPublished`, `ReceivedInOrder` if nothing is applied while a commit is at work; `ReturnedForGood`: only a commit that had copied the array before, or one after a commit that threw, publishes an event anew |
| `commit_path` | 3 events, one of them invalid, 2 overlapping commits, metadata set at any time or never, fairness | `AppliedIsKept`, `StoredAsApplied`, `OnlyValidWritten`, `MetadataFirst`, `CommitEnds`: failures at every step neither lose nor reorder events between the aggregate and the store, and hold up no commit; events get into their line only after their metadata is in its own (the two lines drain independently, so not: stored after it) |
| `delivery` | one event of each kind in turn, each `_autoAck`, with and without a read bus, 3 deliveries, 2 faults, fairness | `HandledBeforeAcked`, `PlainNotRetried`, `RetriedForCause`, refinement of `AtLeastOnce`; `UnansweredIsParked`, `HelperSettles` |
| `prepublish` | 2 publications of up to 2 of 3 events, constructed with nothing, a correlation id and a type, a version without value, another event's metadata or a copy of it; contexts that lack something | `StoredValid`, `TypeNamesEvent`, `StreamIsOwn`, `PreparedStable` |
| `heroes` | 1 kill, 2 deliveries of it, 1 run of `connect()`, 1 fault (a crash, a closed stream, a premature timeout, a first `connect()` that fails), each `_autoAck`, fairness | `CausesFirst`, `OneItemPerKill`, `NothingKept`, `KillIsRewarded` |

Two runs end in a counterexample, each against something the repository says:

| Run | Said | What happens |
|---|---|---|
| `line_lost_batch` | test "should shift batch only when appending is done properly" | `connect()` and a write call send the same head, both shift, and a batch that was never sent is gone |
| `aggregate_base_lost` | comment in `commit()`: "publish the event" | the array kept aside is the one that was just emptied |

Met while modelling, without a run of their own.

Writing:

* After a failed append the flag stays up: writes are stacked and nobody tries
  until a `connect()` does, where `upgrade.md` has each write retry all the
  events stacked.
* `clearEvents()` at the end of `EventStoreAggregateRoot.commit()` also removes
  events applied while it awaited its publishers, unpublished
  (`aggregate_commit` violates `ClearedMeansPublished` if `AppliesDuringCommit`
  is set), and an event applied while the metadata is being written is published
  without having been validated.
* `WriteEventBus.publish()` hands an array to the publisher as if it were one
  event. `CqrsEventStoreModule.register()` gives the whole `eventBusConfig` where
  the write bus reads its own part, so a configuration of the write bus has no
  effect. The expected revision of the metadata that `commit()` puts in its
  context is never read.
* The constructor of an event keeps the metadata object of its options and
  `EventVersion` writes into it: events constructed over one object share a
  version until they are prepared, and one constructed over the metadata of a
  prepared event changes that event's version after its type was made of the old
  one, and after it was validated (`overwritten`). A type given with the options
  goes over the one computed.
* The first context that prepares an event wins, also with a correlation id that
  is `undefined`: such an event is refused for ever.
* `readMetadata` and `readFromStream` return a promise from inside their `try`
  without awaiting it, so a rejection passes by the catch and the hook.

Connecting:

* Without `settingsForCreation`, which `upgrade.md` says is filled in with
  defaults, the update of an existing group reads a property of `undefined`, and
  `connect()` fails at every retry. So it does without `onError`, optional in its
  interface: each retry then leaves open streams behind, the last without a
  listener for its errors (`BeforeThrow`).
* A projection that the store refuses is logged, those after it are skipped, and
  the service is up, where `upgrade.md` has all projections asserted.
* The error of a stream during the first upsert of projections only sets the
  status down, and `connect()` then sets it up over a dead stream, which is why
  `HealthTellsTruth` and `DownIsTransient` are checked without projections.
  Healthy streams stay open and unreferenced after the error of another (`leaked`).
* A `connect()` in flight when the module is destroyed goes on, and sets a new
  timer when it fails. Properties are stated of a service that was not destroyed.
* A service without subscriptions that was reported down by a failed write stays
  so: only `connect()` raises the status.

Reading, and the example:

* `ReadEventBus` takes a list of errors for a truth value: it refuses nothing.
* Metadata that does not parse is thrown out of the helper and never answered,
  where data that does not parse is acknowledged. With a true `_autoAck` client
  and handler both answer, and the first answer settles the event.
* `examples/README.md` says that a dragon is killed once and that the store
  recognises the event: each event has a fresh id, so two calls store it twice.
  Two of the saga's commands may overlap, and the hero then finds a second item
  before he dropped the first, against the same page.
* The saga acknowledges before its command runs: a crash in between loses the
  item (`KillIsRewarded` names the exception). If the client's subscription has no
  `_autoAck`, `ack()` does nothing, and each delivery up to the limit is rewarded.
* Its `connect()` drains next to the commands' writes, so the item's finding may
  be lost and its dropping stored.

### Bounds

Three writes are needed for a lost batch (a head sent twice, the one behind it
shifted, and one that shows the line moving on); two overlapping runs of
`connect()` for every interference between runs that a pair can have, three in
`service_connect` so that two can be pending behind one that succeeds. Two
subscriptions are needed for an error of one while the other is healthy, and
for a configuration where one is complete; two projections for one that is
skipped. Two publishers are needed for one that fails after another succeeded;
three commits for a commit that runs into the remains of two. In `commit_path`
two commits fill both lines with one write behind another, and three events let
one commit have some and the next have more, an invalid one among them. In `delivery` one event
is enough, as an action reads and writes the state of one event (a fault that
of all), and three deliveries let two runs of the helper overlap behind one that
was given up; two faults are a closed stream and a premature timeout of what came
after it. In `prepublish` two publications of two events each give every overlap
of a pair, with a common event first, last or both; the third event has
a version of its own, which is 0 in the class with invalid data. In `heroes` one
fault suffices for a second delivery or a loss, and the second delivery is the
last; one run of `connect()` draining next to one call is what loses a batch, and
one kill with two deliveries has five writes in the line. More kills meet in the line
only, which `line_reconnect` checks with several writers; the proofs of its three
invariants have no bound. Sets named by a
`SYMMETRY` hold model values no action tells apart, and no run with liveness
properties uses symmetry.

### Fairness

`LiveSpec` of a line: the client gives each request a deadline, so a request is
answered or fails (weak fairness of `Answered`), and a resolved promise resumes
its caller (`Continue`). `LiveSpec` of the service: timers fire, a request of
`connect()` is answered by the store if it is up and fails otherwise, the store
applies the requests that a caller awaits if it is up and does not refuse them
(one that failed at the client may be applied later or never). Nothing is assumed
of the application, of the streams' errors, of the projections a store refuses,
or of the store staying up: `Reconnects` and `RetryEmptiesLine` have "the store
is up from some time on" as their hypothesis. `RetryEmptiesLine` says of a retry
that finds such a store that the waiting line ends empty; the run has one event
batch, as two exceed what it can explore. `LiveSpec` of `CommitPath`: the
providers of the prepublish service answer, and the lines as above; `CommitEnds`
needs nothing of the store. `LiveSpec` of `Delivery`: the store delivers what it
has queued, takes the answers that reach it, and notices a delivery for which
nobody is left to answer; providers and handlers end. Faults are never fair:
they are bounded. `LiveSpec` of `Heroes` assumes the same, that timers fire, and
that appends are answered or fail; of the kill commands, of `connect()` and of
appends that succeed nothing is assumed. It is one weak fairness condition over all
these steps together, which is enough because none of them can recur without end:
deliveries are bounded, and a loop ends or fails. `prepublish` states no fairness,
and checks no liveness.

## Proofs

`WaitingLineProofs`, for any sets `Items` and `Runs`, finite or not:

* `TypeCorrect` and `StallIsReported` hold of every line, whatever number of
  runs of `connect()` drain it. `StallReported` is nearly inductive: it needs
  only the types, since whoever leaves the loop either lowered the flag after it
  saw the line empty or reported the connection down, and a `connect()` that
  raises the status starts a loop or leaves with both empty.
* `OverlapNeedsConnect`: two loops drain the line at once only after a run of
  `connect()` has started to drain next to a loop. `WriteOnlyInv` is the
  invariant until then.
* `LossNeedsOverlap`, `DisorderNeedsOverlap`, `StaleResultNeedsOverlap`,
  `LoneLoopsImplementOutbox`: as long as no two loops drain at once, whoever
  starts them, fails and starts again, `NothingLost`, `StoredInOrder` and
  `ResultMeansStored` hold and the line implements `Outbox`. So the counterexample
  of `line_lost_batch` has one cause, the drain of `connect()` that does not read
  the flag. None of these properties is inductive; `LoneInv` adds what makes them
  so. `LockInv`: whoever drains awaits the head of the line, and a lowered flag
  means an empty line. `QueueInv`: the line is the end of the sequence of accepted
  writes, which are distinct. `LogInv`: the store's log is the beginning of that
  sequence, ahead of the line by the head at most, and nothing behind the head was
  ever sent, so that a late append can only be of the head. `OwnFirst`: what a
  call sends is its own write until that is stored. `LoneStep` proves it for each
  action, with the hypothesis used after the step only. `FlagInv` (a loop runs
  under a raised flag) is kept apart: `connect()` may lower the flag between the
  shift and the test of a loop, and the others survive that.
* With `Runs = {}` the hypothesis holds (`FlagIsALock`), and `OrderIsKept`,
  `NoWriteIsLost`, `ResultIsOwn` and `ImplementsOutbox` are corollaries. The
  refinement maps `Stack` and `StackAndDrain` to `Accept`, `StoreApplies` to
  `Deliver`, everything else to a stutter.

The lemmas are about `LineStep`, a step of the line whatever becomes of the
status, so that they also serve a line whose status others write to.

The assumption `LineAssumption` is that writes, runs and the null of the code
are different things.

`AggregateProofs`, for any events, commits and sequence of publishers:

* `AggregateTypeCorrect`, without further assumptions.
* `ClearedIsPublished` and `PublishersReceiveInOrder`, for an application that
  applies and discards nothing while a commit is at work
  (`AppliesDuringCommit = FALSE`; commits may overlap). The first needs
  `CommitInv`: a commit at work has given every publisher before the one it
  awaits all that is in the array *now*, and that one too once it has copied the
  array, because the array only shrinks meanwhile. Without the assumption this
  is what breaks, and with it `ClearedMeansPublished`. The second adds
  `ReadInv` (what a publisher published it had read, what it read was applied)
  and `OrderInv` (an event applied before one in the array is ahead of it there,
  or discarded, or published by all): lemma `CopyInOrder` concludes from both
  that the next copy a publisher reads brings no event ahead of an earlier one.

* `ReturnedStays`, without the assumption: `ReturnInv` says that nothing of the
  last copy of a commit that returned is in the array, since `Finish` cleared it
  and only events that were never applied before come in.

`AggregateRootProofs`: `BaseClassPublishesNothing`. In an application that waits
for a commit before it applies the next event, `commit()` of the base class gives
its publishers no event ever (`EmptyInv`: the array is empty while a commit is at
work, and a failure puts an empty array in front of itself): the run
`aggregate_base_lost` shows no unlucky interleaving, but the rule.

`AggregateAssumption` is that the publishers are a sequence of distinct
functions, one at least.

`EventStoreServiceProofs`, for any subscriptions, projections, configurations,
writes and runs of `connect()`:

* `ServiceTypeCorrect`, `SilenceIsRetried`, `ConnectedIsAsserted`. The first is inductive. `ConnectingIsRetried` is not:
  `RetryInv` weakens it to the time after the first `connect()`, and `OpenedInv`
  adds that streams exist only then, so that no stream error can raise the flag
  before. Every failure sets a timer.
  `AssertedInv` adds to `SubscriptionsAsserted` what each run that is under way
  has already asserted, up to its cursor.
* `DownIsRepaired` and `HealthIsTrue`, for a service without projections. The
  first is `DownInv`, subscriptions that are down are never left without a run of
  `connect()`, and that without projections such a run still has the opening of
  the streams ahead. For the second, whoever opens streams raises the
  status in the same step, and whoever kills one lowers it; an unheard stream
  exists only where an `onError` is left out (`UnheardInv`), and then no run gets
  to the step that raises the status.
* `OneChain`, for one subscription and no projections: `ChainInv` says that with
  the hook whoever connects is alone and finds no living stream, the timer is
  the one on record, and nothing is left open. With two subscriptions it is
  false: the error of the second starts a second `connect()`.
* `EventStallIsReported`, `MetadataStallIsReported`: the two lines as they are
  composed. `LinesInv` needs only the types of the lines' phases, as above.
* `EventsAreSafeAlone`, `MetadataIsSafeAlone`: every step of the service is a
  `LineStep` of each line (`StepsOfEventLine`, `StepsOfMetadataLine`), so that
  `LoneInv` carries over: through retries, stream errors, refused writes and
  failures of the other line, a line loses, reorders and repeats nothing unless two
  loops drain it at once. `EventsOverlapNeedsConnect` and
  `MetadataOverlapNeedsConnect` say when that is: after a drain of `connect()` that
  started next to a loop, and never before.
* `OneDrainWithoutSubscriptions`, `SafeWithoutSubscriptions`: without
  subscriptions nothing more is assumed. `ConnectsOnce` says that one run of
  `connect()` is under way at most, that it is never retried and that no
  application runs next to it; `EventsByCalls` and `MetadatasByCalls` that it finds
  its line at rest and that the line has `WriteOnlyInv` throughout.

`ServiceAssumption` is that subscriptions and projections are listed once each,
and that runs, writes and null are different things.

`DeliveryProofs`, for any events, kinds, retries and faults:

* `DeliveryTypeCorrect`: what is queued was not delivered to the limit.
* `AckedIsHandled`, `ImplementsAtLeastOnce`. `GuardInv` adds that an
  acknowledgement under way, or about to be sent, is of an event whose handler
  has done its work. `PromiseStep` maps `Handled` to `Handle`, `TakesAnswer` to
  `Release` or `GiveUp`, `TimesOut` and `StreamCloses` to `GiveUp`, the rest to
  stutters.
* `PlainIsNotRetried`, `RetriedOnlyForCause`, without faults: `PlainInv` says
  that the acknowledgement of a plain event is under way or was taken;
  `RetryInv` that all deliveries but the last are over and were not handled, and
  that the last has sent at most one answer, which tells whether it was.

`PrepublishProofs`, for any events, classes, contexts and publications:

* `PrepublishTypeCorrect`, `WhatIsStoredIsValid`, `TypeIsOfEvent`,
  `PreparedForGood`. `ObjectInv`: an object that `prepare` made belongs to a
  publication that is past that step, and is complete. From then on the spread
  changes nothing of what an event has, so what one publication has validated
  (`CallInv`) no other can spoil; only the construction of another event over
  the object writes to it, and only the version. `EventInv`: what an event was
  not given is missing until `prepare` computes it, the type from the version
  it finds.
* `StreamsAreOwn`: `EventInv` traces a correlation id to the context of the
  publication that filled the event (`OriginOf`), unless it was given; `CallInv` a
  stream name to the first event of the call; and `StoredFrom` what was stored
  to both. Two events of one call with the same origin then have the same id.

`CommitPathProofs`, for any events, commits and failures:

* It takes what is known of the parts. Lemmas `EventsLineMoves`,
  `MetadatasLineMoves` and `AggregateMoves` show that every step of the path is
  one of each line, of the aggregate, or a stutter, so that `WriteOnlyInv` of
  both lines and the aggregate's types hold here too (`CommitPathTypeCorrect`).
* `ValidIsWritten` and `MetadataIsFirst` follow from `CommitInv`: what a commit
  looked at and found valid is still valid when it is copied, because the array
  can only be cleared in between, never added to; and a commit that awaits the
  write of its metadata had it accepted by the line.
* `AppliedStays` and `StoredInOrder` need `KeptInv` and `OrderInv`: what was
  applied is in the array, discarded or written; and a commit that copied the
  array and has not written yet will, then, have written all that was applied
  before its events. When two commits overlap the second writes the same events
  again, or none, but never a later event without the earlier ones.

* `PathIsAnAggregate`: with the whole path as its publisher, the aggregate behaves
  as an `EventStoreAggregateRoot` (the bus copies the array when a step of the path
  does, and the commit finishes when the write of the events returns). `PathPublishes`
  concludes that what is proved of the aggregate holds on the path.
* `PathKeepsOutboxes`: so do both lines implement `Outbox`, though a failure of one
  shows in the status of the other.

`PathAssumption` is that null is no commit and invalid events are events. As in
the runs, no event is applied or discarded while a commit is at work.

`HeroesProofs`, for any kills, deliveries, faults and runs of `connect()`:

* `CausesAreFirst`: what a write depends on is stored or ahead of it in the line
  (`CauseInv`, `KeepInv`), as a command has its cause written before it
  writes (`DropInv`, `GroupInv`). For the kill that needs nothing of the line but
  that only what was stored is delivered; for the item it needs the line's
  `LockInv`, hence `overlapped`.
* `ItemsTakeFaults`: `FaultInv`, a delivery but the last was taken back by a fault,
  as long as acknowledgements are sent.
* `ItemsAreDropped`: a command that is over has its last write in the line or
  stored, if it neither failed nor was lost; and `HeroesTypeCorrect`.

`HeroesAssumption` is that writes, runs and null are different things, and that an
event is delivered once at least.

Only model-checked is liveness (`EventuallyStoredOrReported`, `Reconnects`,
`RetryEmptiesLine`, `CommitEnds`, `UnansweredIsParked`, `HelperSettles`,
`KillIsRewarded`), which is out of the prover's reach, as are `ENABLED` and induction
over data; no recursive operator occurs in these modules. Of the theorems with a
hypothesis, `HealthIsTrue` and `DownIsRepaired` are false with projections, `OneChain` with two
subscriptions, `ClearedIsPublished` with events applied during a commit (TLC finds
the counterexamples): the hypotheses are what the code needs.

## Not modelled

* Requests that keep nothing in the service: `readMetadata`, `readFromStream`,
  `getProjectionState`, `deletePersistentSubscription` and the public
  `createPersistentSubscription`, `updatePersistentSubscription`.
* `check()` before the first `updateStatus`, which throws.
* A crash of the service by itself: all its state is in memory and is lost by
  construction. What outlives one is in `Delivery` and `Heroes`.
* Revisions, event data, logging; stream names and metadata except in
  `Prepublish`.
* `WriteEventBus.publish()` and `ReadEventBus.publishAll()`.
* On the read side: the order among events, which nothing promises; the
  `onEvent` that `subsystems` may give in place of the helper; the nak actions
  `Unknown` and `Stop`; the version that `EventVersion` writes over the metadata
  of a read event.
* The optional keys of the metadata DTO, and providers of the application in
  place of the prepublish service (`CommitPath` has those).
* The Nest modules: dependency injection, no state after start.
* In the example: queries, projection, controllers, health, `maxAge` of the
  metadata, and correlation ids, whose context belongs to `nestjs-context`.
* The pages generated from comments (`documentation/`) and their scripts.

## Plan

1. `WaitingLine`, its proofs, `EventStoreService`, the aggregates, `CommitPath`.
   *(done)*
2. `Delivery` with `AtLeastOnce` and their proofs. *(done)*
3. `Prepublish` with its proofs, `Heroes`. *(done)*
4. Proofs for `EventStoreService`. *(done)*
5. Proofs for `CommitPath` and `Heroes`, with a line that `connect()` drains in the
   latter. *(done)*
6. Proofs of what the lines keep next to `connect()`, alone and in the service;
   of `StreamIsOwn`; of the refinements in `CommitPath`; of how
   general the loss in `AggregateRoot` is. *(done)*
7. The pass-through requests of the service and their hook. Deliveries by the
   client of the store are modelled from their use only; with its source they
   could be checked against it.
