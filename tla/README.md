# A verification project for the Auklet client for C

The Auklet client runs an instrumented C or C++ app as its child process, relays
what the agent library in the app says to the Auklet backend, and keeps within
limits of disk space and cellular data that the backend sets.  It is a Go program
of about 2600 lines; nearly all of it is goroutines connected by channels.  This
directory holds TLA+ modules translated from its source, TLC configurations
that check them, and proofs checked by TLAPS.

1. [The system](#1-the-system)
2. [The modules](#2-the-modules)
3. [The runs](#3-the-runs)
4. [Fairness](#4-fairness)
5. [The proofs](#5-the-proofs)
6. [What the runs found](#6-what-the-runs-found)
7. [What is not modelled](#7-what-is-not-modelled)
8. [Plan](#8-plan)

How to run: `tlc -config <run>.cfg <module>` with the pairs listed in section 3;
`tlapm <module>.tla` for the modules whose name ends in `Proofs`.

## 1. The system

Data flows from left to right; each box is one goroutine or more.

    app --agentData--> agent.Server ----------.
     |                     | Done             agent.Merge -> schema.Converter --.
     '--datapoints--> agent.DataPointServer --'                  |              |
                           v                             broker.Persistor       |
                    agent.PeriodicRequester ------------.        |              |
                                                        |    .auklet/message    |
                    broker.MessageLoader  <-------------|--------'     ^        |
                          '-------------.               |              |        |
                                        v               v              |        |
                                   message.Merge (channel of 10) <-----|--------'
                                        |                              | Remove
                                   message.DataLimiter --> broker.MQTTProducer --> broker

    pollConfig --> Persistor (storage limit), PeriodicRequester (emission period),
                   DataLimiter (cellular plan)

| Component | State | Operations | What makes it correct |
|---|---|---|---|
| Start-up: `main`, `newclient`, `client.run`, `app.Exec` | how far a start got; the credentials file; the app's sockets | choose a pipeline, load or request credentials, connect, check the release, start the app | saved credentials are never damaged; a password is not lost; only released apps get sockets; the app is executed in any case |
| `agent.Server`, `agent.DataPointServer` | decoder with its read-ahead, sticky error, whether an event was seen | `scan`, `serve` | values are passed on in order; one report of the exit |
| `agent.Merge`, `message.Merge` | one goroutine per source | relay, close when all sources closed | nothing lost, nothing reordered within a source, closed last |
| `schema.Converter` | the message in hand | convert, save, send or refuse | every message is sent or refused; the exit is reported after it happened |
| `broker.Persistor`, `Message`, `MessageLoader` | the message directory, a counter, the storage limit | `CreateMessage` (size, save), `load`, `Remove`, `serve` | a saved message survives until it is delivered, unless its file is misread; the directory keeps to the limit, but for the encoding of one message; names are unique among processes with different identifiers |
| `message.DataLimiter` with `FilePersistor` | budget, count and period end, in memory and in a JSON file | the state functions of `serve`, `apply`, `increment`, `reset` | from reset to reset no more than the budget is sent, plus one message per crash, as long as the file is not torn; dropping ends; the input is always read |
| `broker.MQTTProducer` | the message being published | publish, remove, disconnect | removes only what was delivered |
| `agent.PeriodicRequester` | ticker, previous error | request, reconfigure, give up, cancel | period zero stops requests; ends with the server |
| `pollConfig` | three channels of capacity one | poll hourly, three ordered sends | parameters reach their readers |
| `device.Monitor` | two samples of network counters | sample every second, hand out their difference, close | the rate in a report is the traffic between two samples; it closes after its last user |
| the forms of the client: `client.run`, `serial.run`, `dumper.run` | the loop at the end of each | publish, write a line, print | every message leaves in order and at most once, or is dropped, and never both; the loop ends |

The hard behaviours, each with its source line, are the `hazards` of
`PROJECT.json`: crashes between two system calls, a directory that three
goroutines use without a lock, publications that fail after they succeeded,
channels that fill up while the network is away, several ready branches of a
`select`, ints of 32 bits, counters that wrap, a channel that closes under its
reader, several clients in one directory.

## 2. The modules

An action is a handler, or one step of a handler if others can act between two
steps: a system call, a rendezvous on a channel, a request.  Variables carry the
names of the Go fields and locals; a variable `pc`, `conv`, `loader`, `producer`,
`requester` or `poll` says where a goroutine is.  `map` in `PROJECT.json` names the
source lines of every definition.

**`DataLimiter`** models `message/limiter.go` and `message/persistor.go`.  `pc` is
the state function that runs, with states of its own for the blocking send and
for the two halves of `Save` (`os.Create` empties the file, `Encode` fills it), as
a crash in between loses the file.  `Word` is the platform's int, which wraps at
`MaxInt`; `Ninety` is `9*l.Budget/10` computed with it.  Time is relative: `left`
counts ticks to `PeriodEnd`, and `phase` places now in the month, so the clock has
no bound and needs none.  A calendar of equal months replaces Go's: a day of the
month in [1,28] exists in every month, so the code's calendar arithmetic is
regular as well.  `conf` and `in` are channels as sets of at most one element.
`metered`, `restarts` and `periodBytes` are history.  `MCDataLimiter` names the
sets of plans.

**`MessageStore`** models `broker/message.go`, with the part of the converter that
saves a message, the loader's goroutine, the limiter reduced to forward-or-drop,
and `MQTTProducer.Serve`.  `files` is the message directory, a function from paths
`<<pid, count>>` to decoded contents and size; it survives `Restart`.  The steps of
`CreateMessage` are `TakeLimit`, `ListFiles`, `StatFile` (once per file), `Admit`,
`OpenFile`, `WriteFile`; each system call may fail if `DiskFails`, that of `Remove`
and those of the loader, too.  `filepaths` fails in two ways: opening or reading
the directory gives an error, but a `Stat` of the directory that fails gives an
empty list and none (`message.go:195-198`), so that the message is admitted, or
no leftovers are found.  A file between `OpenFile` and `WriteFile` is `Torn`, and
decodes to `NoMsg`.  `pipe` is the chain of channels between the sources and the
producer.  The history is `stored`, `published`, the paths the loader read in vain,
before a message was saved there (`early`) or after it (`misread`), and whether the
message in hand was admitted because the directory was taken for missing
(`unseen`).  `MCMessageStore` gives lengths and process identifiers.

**`Pipeline`** models the goroutines from the two sockets to the producer: the
decoder's read-ahead (`buf`), the sticky error (`err`), the deferred closes in their
order (`CloseOutput`, then `CloseDone`), the two goroutines of `agent.Merge`, the
converter that waits for the exit of the app, and the three sources of
`message.Merge`.  An unbuffered channel is one joint step of both sides.  The app
is the environment: it writes to its sockets, crashes with an event, exits; its
sockets may close before the exit or, held by children, after it.

**`ConfigPoll`** models `pollConfig` and `agent.PeriodicRequester`: three ordered
blocking sends, the ticker with its one pending tick, and the error counting.

**`Startup`** models a start of the client: `main` and `newclient`, the credentials
of `api/api.go` with a file that may be torn, `client.run` and `Exec.Connect`.
Several clients share the directory; each may die after any step and be started
again.  The backend, which gives the password once (`api/api.go:149-150`), is the
variable `issued`.

**`Reporting`** follows one message of the agent through each of the three forms of
the client.  It has the converter in detail (`Converted` says for every kind of
message, decodable or not, whether it gets contents and where its error goes; a
message may be refused by the persistor), the `Monitor` goroutine that the converter
asks for a rate while a crash is reported, and the loops that publish, write a
line to a serial device, or print.  `mon` is the monitor's `select`, `cur` and `prev`
its samples of the counter `total`, which wraps at `Wrap`; handing out a rate is one
joint step (`Measure`), which also has the outcome of a closed channel, a zero.
`CloseMonitor` and `CloseOutput` are the deferred calls in their order.  Inbound and
outbound traffic are counted alike, so one counter stands for both.  `traffic`,
`interval`, `arrived`, `lines` and `lost` are history; -1 bytes means that nobody can
know, because an interface went away, or there was no sample yet.  What
`metadata` asks (the public address) is part of `Receive`.  In a dumper there is no
converter (`conv` and `mon` are `none`) and nobody reads the requester's output.
A message that leaves the channel is passed on (`PassOn`) or lost (`Lose`): the
limiter of the client's chain may drop it (`LimiterDrop`), a publication may fail
and is skipped (`Publish`), a line may not be writable (`WriteLine`).

Two modules are abstract; they model no code, only what a part promises:

- **`Outbox`** is the promise of the message directory, in five variables and five
  actions: save under a new name, deliver, discard what was delivered, read a slot
  before anything is saved in it, spoil the slot of a saved message.  `MessageStore`
  implements it (`ImplementsOutbox`) with `saved <- stored`, `kept <-` those of them
  that are still in `files`, `spoiled <- misread \ early`, `delivered <- published`.
  Listing, sizing, creating, queueing and crashing are stutters.  `MayFail <- DiskFails`:
  with a disk that works, a slot is spoiled only if its message was delivered.  What
  is saved in a slot that was read early may be gone at once, or be discarded
  undelivered, and this the promise cannot exclude, because the code does it: the
  loader makes an empty message of a file that is created and not yet written, the
  producer removes the file, and the message is gone if its own publication fails
  or the limiter drops it (section 6).
- **`Relay`** is the promise of the pipeline: of each stream the values up to the
  first that cannot be decoded are delivered one by one and in order, an event or
  the report of a clean exit only after the exit, and the relay ends when nothing
  is left.  `Pipeline` implements it (`ImplementsRelay`); sockets, read-ahead,
  mergers, converter and channels vanish, as nobody outside sees them.

What of a stream is relayed (`Reports`, `Logs`, `Relayed`) is the same for both sides of
the second refinement; it stands in **`Stream`**, which `Pipeline` and `Relay` extend.

The modules overlap on purpose at their borders: `MessageStore` abstracts the
limiter to "forward or drop" (`LimiterDrop`, `Publish`) and `Pipeline` abstracts it
to a wire, because `InputDrained` and `ShutdownCompletes` of `DataLimiter` show that
it always reads its input and passes on its end; `ConfigPoll` abstracts the
persistor and the limiter to readers that always read, for the same reason.
`Reporting` lets messages arrive in any order, which `Pipeline` shows to be the
order of their stream, and lets saving fail at will, which `MessageStore` explains.

Operators named in a comment "Mutant of" are faulty variants of the action
below them.  They are no part of a specification; with one in place of the
action, the property it is for fails, which shows that the property depends on
the code.

## 3. The runs

Passing runs, with the bounds and why they are enough:

| Run (module) | Checks | Bounds |
|---|---|---|
| `limiter` (MCDataLimiter) | `TypeOK`, `CountWithinBudget`, `SentWithinBudget`, `InputDrained`, `DroppingEnds`, `ShutdownCompletes` | A megabyte of 3 bytes, messages of 2, budgets of 3 and 6: one message fits below 90%, the next lands above it or exceeds the budget. No plan, a small and a larger one with another day, in a month of two ticks: a plan can be withdrawn, shrink below the count, grow, and move the period's end. Two restarts, because the bound of `SentWithinBudget` grows with each. The three invariants are proved for all constants, so the run need only show each case once; the liveness properties depend on the order of events, not on the sizes. |
| `store_safety` (MCMessageStore) | `TypeOK`, `Durable`, `StorageBounded`, `ImplementsOutbox` | Two messages of different length, one restart, a limit that one file nearly fills, `PipeCap` 2 so that a message can wait behind another, every system call may fail (in the listing in each of its ways), the limiter may drop. |
| `store_liveness` (MCMessageStore) | `ConverterReturns`, `LoaderReturns`, `ImplementsOutbox` | The same with `PipeCap` 1, the tightest channel; publications fail, the disk does not, which is what makes the stronger half of `Outbox` apply: only what was read early is lost undelivered. |
| `pipeline_safety` (Pipeline) | `TypeOK`, `StreamsRelayed`, `ExitReported`, `ExitAwaited`, `ImplementsRelay` | Two writes per socket: an event, a log that is dropped, a data point, or what cannot be decoded; sockets of two values, so that read-ahead is lost; one leftover; a channel of one. |
| `pipeline_liveness` (Pipeline) | `ShutdownCompletes`, `SocketsRead` | An event, and up to four data points, with every buffer of size one: between a socket that stays full and a converter that waits, a stream has three places (server, merger, converter), so four values are needed to block it. |
| `poll_requester` (ConfigPoll) | `TypeOK`, `RequestsStop`, `RequesterEnds`, `ConfigFlows` | A period of zero and a positive one; nothing else is bounded. |
| `startup_safety` (Startup) | `TypeOK`, `PasswordIsIssued`, `ServedIfReleased`, `CredentialsStay` | Two clients, of any of the three kinds, four starts: a race, a crash of each side of it, and a start that finds the result. |
| `reporting` (Reporting) | `TypeOK`, `OneOutcomeEach`, `RateIsTraffic`, `RunEnds` | All three forms; two messages, so that one can be refused, lost or held back while another passes, of a kind that is dropped, one that waits for the exit and one that does not; a channel of one; counters that wrap at 2, so that every second byte wraps (any width is proved). |

`CHECK_DEADLOCK FALSE` stands in the runs of `MessageStore`, `Pipeline`, `ConfigPoll`,
`Startup` and `Reporting`: these systems come to rest when every message is handled, the
producer has disconnected, the requester has ended and the poller is blocked, or
the bounded number of starts is used up.  That nothing is stuck before is what
the liveness properties say.  `DataLimiter` never rests, because the clock ticks.

What the less obvious properties say:

- `SentWithinBudget`: the count is saved after the message went out, so that each
  crash may forget one message, and no more than one: when the save fails, the
  limiter stops sending.  It counts from reset to reset.
- `Durable` names its two exceptions, as in both an empty message goes out and the
  producer removes the file: the loader lists the directory while the converter
  already writes to it, and may read a file before the message is in it; and,
  only where the disk may fail, it may fail to read a file.  The first is a
  loss with a working disk (section 6).  It also rests on process identifiers
  that do not recur.
- `StorageBounded` bounds the excess over 90% of the limit by the encoding of one
  message.  It holds although the producer removes files while their sizes are
  added up, since a removal only makes the sum too large, or makes `Stat` fail.
  It excepts a message that was admitted because a failing `Stat` of the directory was
  taken for a missing directory: then there is no bound at all.
- `ExitReported`: one report, also if the data point stream outlives the agent's
  or an event was the last word.  `ExitAwaited`: none before the exit, for it tells
  the exit status.
- `ImplementsRelay` says more than `StreamsRelayed`: not only what was delivered at
  any time, but that each step delivers at most one value, in its turn.  A server
  that went on after an error (mutant `DecodeAfterError`) breaks it.
- `SocketsRead` has an exception in the code: an app that closes its agent stream,
  goes on, and fills its data point socket is not read, as the converter waits
  for its exit.
- `RequestsStop`: `Ticker.Stop` leaves a pending tick in the channel; one request
  may follow, a second never.
- `CredentialsStay`: several clients may find no credentials and ask for them; all
  but one get an empty password, and must not get as far as opening the file.
- `OneOutcomeEach` counts: every message that is not a log, and not the one in the
  converter's hand, was passed on or waits in the channel, once, in the order of
  arrival, a refused one as its error; or it was lost, and then neither it nor its
  error was passed on.  A publication that fails counts as lost, although the
  broker may have received the message.
- `RateIsTraffic`: the subtraction of unsigned counters is right also when they
  wrapped.  It excepts the time before the second sample, when the code reports
  all the traffic since boot, and an interface that went away in between, when it
  reports a huge number.  It also says that the converter never gets the zero of
  the closed channel.
- `RunEnds`: `run` returns once the streams have ended and the app has exited, even if
  every publication and every line fails and the requester's error is never read.
- The conjunct of `Startup`'s `TypeOK` about `OfflineStates` says that the serial and
  the dumping form never get into a state of registration.

Four more runs are expected to fail; section 6 is about them.

## 4. Fairness

- Goroutines are scheduled (`WF` on their steps).  A branch of a `select`, and a
  sender among several that wait for one channel, gets strong fairness: Go picks
  at random among ready branches, and queues waiting senders, while the branch
  may be disabled in between.
- The clock ticks and tickers fire (`Tick`).
- A publication ends, well or badly (`WF` on `Acknowledged \/ PublishFails`, and on
  `Publish` in `Reporting`); that it ever ends well is assumed only by `ConnectedSpec`.  The MQTT library fails
  pending publications when the connection is lost; without that assumption the
  code, which waits without timeout, stands still.
- In `Pipeline` an app that handles a crash exits, and the streams of an app that
  has exited end: the kernel closes its sockets, and its children end, too.  That
  the requester's writes fail is possible, never assumed: with a period of zero it
  writes nothing, and only the closing of `Done` ends it.
- In `ConfigPoll` a write to the agent may block while the agent does not read;
  it returns once the stream's other end is closed.  `ConfigFlows` therefore
  assumes that the requester is not blocked for ever.
- In `Reporting` the monitor's `select` is fair to each branch (`SF` on `Stop` and
  `Measure`), although its ticker keeps firing.  When the app exits and when the
  streams end is open: `RunEnds` is conditional on both.
- Nothing is assumed about restarts, arriving messages or the answers of the
  backend.  `DroppingEnds` is conditional on restarts ending: a client killed over
  and over need never see its period end.

## 5. The proofs

All proofs are checked by TLAPS with SMT, Zenon and LS4, for every value of the
constants that the `ASSUME` of the module allows.

**`DataLimiterProofs`.**  `TypeCorrect` is inductive by itself.  `CountCorrect` and
`BudgetEnforced` assume `FitsWord`, that the products and sums fit the int; without
it they are false: a product or a sum that wraps passes for a small one.  The
inductive invariant is `BudgetsHold`: the count alone does not bound what was sent, so
`CountsBoundMetered` relates the bytes sent to the count in memory and to the one
on disk, each with the lag the position in the code allows (`DiskIsCurrent`), and
a file being saved is known to hold no budget.

**`MessageStoreProofs`.**  `StoreTypeCorrect` is the type invariant.
`MessagesDurable` assumes `PidsFresh`, that no two runs share a process identifier;
otherwise one file overwrites another that still waits to be sent.  Durability is not
inductive: that the producer removes only what was published needs to know that
a path stands for one message for ever.  `PathsOwned` says that: every message in
flight is genuine, no two saved messages share a path, every path in use was
handed out before the next one, and, with a disk that works, what could not be read
after it was saved was delivered or had been read early.  `Saving` follows the
converter from the name it took to the file it wrote, which is still there unless
it was read early.

`StorageIsBounded` needs no `PidsFresh`.  Its invariant `Measured` says what the sum in
`size` is worth at each moment, while the loader and the producer use the
directory: as long as the directory was seen and no `Stat` failed, the files sized so far that still exist take
no more than `used`; from `Admit` to `WriteFile`, the payload and all *other* files keep
to 90% of the limit, as nobody but the converter writes and a removal only helps.
The other files, because a recurring name overwrites its own.  The section
before it shows what a sum over a finite set is and how it changes with one element
(`SumStep`, `SumRemove`, `SumSame`), by `SubsetInduction`: induction over the subsets
of a finite set, stated about a set of subsets instead of the predicate of the
library's theorem, and drawn from the well-foundedness of the naturals.

**`StartupProofs`.**  `CredentialsAreSafe` holds for any number of clients.  Its
invariant `OneHolder` says that at most one client is on its way from the POST to
the file with a password in hand, that there is no complete file while it is, and
that nobody else opens the file.  `PasswordsAreIssued` follows along the same
invariant; `OnlyReleasedServed` from `ReleaseFirst`.

**`OutboxProofs`.**  `StoreImplementsOutbox`: under `PidsFresh` every step of
`MessageStore` maps to a step of `Outbox` or a stutter (`StepImplementsOutbox`, one
step per action).  It needs no new invariant, but each of the old ones for a step
of its own: a message is saved under a new path, and stays there unless the path
was read early, by `Saving`; what is delivered or discarded was saved by
`PathsOwned`, and so was, when the disk works, a misread message delivered.

**`ConfigPollProofs`.**  `PollTypeCorrect` needs that what is handed out was polled.
`RequestsDoStop` follows from `TickerStopped`: a stopped ticker stays stopped and
leaves at most one tick, which is used up by the request it causes.

**`StreamProofs`.**  Lemmas about `FlattenSeq` and `Relayed`, which the next module
needs: appending one value to a stream adds it to what is relayed, or nothing
(`RelayedNext`); what is relayed of the beginning of a stream is the beginning of
what is relayed (`RelayedLater`).  The recursive function inside `FlattenSeq` is shown
to exist (`FlattensExists`), and facts about it are drawn by `SegmentInduction`, an
induction over a set of numbers.

**`PipelineProofs`.**  `PipelineTypeCorrect`, with `InHand` (whoever sends has a message).
`ExitIsAwaited` follows a report from the converter through the channel to the
producer (`ExitSeen`); that loader and requester cannot forge one is a type fact.

The other theorems rest on three more invariants.  `Written`: an event is the last
value of the agent's stream, and the data points carry none.  `Closing`: whatever
is closed was closed when nothing could come any more, a server after its socket
and read-ahead were empty, a merger after its server, the converter after both
mergers, the producer after all its sources.  `Flow` is the heart: at any moment
each stream splits into what the decoder has heard and the rest (`Heard`); the rest
is the read-ahead followed by the socket, unless the decoder has given up; and
what is relayed of the part that was heard, with the report of the exit where it is
due, is what was delivered followed by what is in the channel, in the converter,
in the merger and in the server (`Ahead`), in this order.  The last part also says when
`errd` is true, which decides whether an exit is reported.  `Flow` is inductive because
most steps only move a value from one of these places to the next
(`HeardStays`, and the lemmas `AheadOf...`).

- `StreamsAreRelayed`: what was delivered is a beginning of `Ahead`, so of what is
  relayed of the whole stream.
- `ExitIsReported`: a disconnected producer has, by `Closing`, nothing ahead, so that
  `Flow` gives all that was delivered.
- `PipelineImplementsRelay`: writes are accepted by the abstract relay
  (`WriteAccepts`), `Serve` delivers the next value (`ServeDelivers`) and disconnecting
  ends it (`DisconnectEnds`); the exit of the app and the end of a stream are
  steps of both, and every step of another goroutine is a stutter.

**`ReportingProofs`.**  `RatesAreTraffic` holds for counters of every width.  Its
invariant `RateInv` says that the counter is the last sample plus what is known to
have passed since, modulo `Wrap`, and that the monitor is closed only when the
converter has stopped asking.  `WrappedDifference` is the arithmetic.
`OutcomesAreOne` holds for any number of messages and each form.  The property is
inductive once `Draft` says that the message in the converter's hand is the last that
arrived and not a log.  It holds with every limiter and broker: any message may be
dropped, any publication and any line may fail.  The theorem states the order of what left and what waits by
its numbers (`Ascending`), so that receiving, sending, losing and printing each are
one append or one drop (`AscendingAppend`, `AscendingDrop`); as the numbers ascend, one
that is dropped is nowhere else.

TLC has checked the invariants `BudgetsHold`, `PathsOwned`, `Saving`, `Measured`,
`OneHolder`, `ReleaseFirst`, `InHand`, `Closing`, `ExitSeen` and `Draft` on the instances of
the safety runs.  It cannot evaluate `Written` and `Flow`, which quantify over all
sequences; the proof is their only check.

Every invariant, action property and refinement of the passing runs is thus stated
by a theorem.  Only model-checked is liveness under fairness, which is out of this
prover's reach, as is `ENABLED`: `InputDrained`, `DroppingEnds` and `ShutdownCompletes` of
`DataLimiter`, `ConverterReturns` and `LoaderReturns` of `MessageStore`,
`ShutdownCompletes` and `SocketsRead` of `Pipeline`, `RequesterEnds` and `ConfigFlows` of
`ConfigPoll`, `RunEnds` of `Reporting`.  The proofs speak of `Spec`; of a `FairSpec` they
hold as well, because it implies `Spec`.

## 6. What the runs found

Each violation run checks one statement of the repository that the code does not
keep.  `findings` in `PROJECT.json` quotes the statement and the lines.

| Run | Statement | What happens |
|---|---|---|
| `limiter_period_budget` | the budget is per period | each hourly poll resets the count |
| `store_upload` | data is uploaded once connectivity is back | a failed publication is not repeated before the next start |
| `pipeline_crash` | crashes are reported | after one undecodable value every message is dropped |
| `reporting_errors` | the backend is told when local storage runs out | it gets an empty message: the error is in a field that is not published |

`UploadedOnceConnected` is checked under `ConnectedSpec`, where publications do not
fail for ever.

The models show more behaviour that a reader of the comments may not expect.  It
was met while modelling; the actions contain it, and no run states it:

- `overBudget` (`message/limiter.go:189`) is entered also far below 90% of the
  budget, by one message that does not fit (line 168) or a count that was not
  saved (line 184).
- `9*l.Budget` (`message/limiter.go:142`) wraps a 32-bit int from 239 MB on; a
  limiter with a low count may then start over budget, or one with a high count
  under it.
- A client that dies between `os.Create` and `Encode` (`message/persistor.go:16`)
  leaves an empty `datalimit.json`.  The next start has no budget, and sends without
  one until the first poll; nothing counts against `SentWithinBudget` then.
- With a disk that works and no crash, a message may be lost: the converter creates
  its file; the loader lists the directory and reads the empty file; the converter
  writes and sends the message, but its publication fails; that of the loader's empty
  message succeeds, and its file is removed (`broker/message.go:115`, `mqtt.go:107`).
- The file names of `broker/message.go:169` recur with the process identifier: a
  later run with that of an earlier one overwrites messages that still wait.
- `CreateMessage` compares the length of the payload with 90% of the limit
  (`broker/message.go:163`) and stores an encoding a third longer, which may exceed
  the limit itself.
- A `Stat` of the message directory that fails, for whatever reason, admits every
  message, and hides every leftover (`broker/message.go:195`).
- A file that cannot be read for a moment goes out as an empty message and is
  removed (`broker/message.go:133`), with the message in it.
- `size` fails, and a message is refused, when the producer removes a file between
  the listing and `Stat` (`broker/message.go:184`), even if there is no limit.
- Any two write errors end the requester, not only "two errors in a row"
  (`agent/requester.go:53`), as nothing resets `prevErr`.
- When the requester has ended, its channel fills up, and the poller blocks
  (`cmd/client/main.go:378`).
- A password whose answer is lost, or that is not saved, is not given again
  (`api/api.go:149`).
- An app that cannot be confirmed to be released "is still executed"
  (`cmd/client/doc.go:8`), but not when `newclient` fails, without network for
  instance: `main` ends before (`cmd/client/main.go:79`; in `Startup`, `RequestFails`
  to `fatal` with no app started).
- The error of a profile or an event that cannot be decoded is overwritten by
  `metadata` (`schema/schema.go:71` and `97`) and never sent; that of a data point is.
- A rate before the monitor's second sample is all the traffic since boot, one
  after an interface went away is near 2^64 (`device/device.go:66`); a sample that
  failed makes "per second" a longer time.
- The line of a serial device that is a regular file is overwritten by the next
  one (`os.O_TRUNC`, `cmd/client/main.go:188`).
- In a dumper the requester's output is not read (`cmd/client/main.go:134`): after two
  failed writes its goroutine stays for ever, and nobody waits for it.
- `serial.run` and `dumper.run` give sockets to an app without asking whether it is
  released (`cmd/client/main.go:128` and `164`).

## 7. What is not modelled

- HTTP, TLS, MQTT and the encodings (JSON, MessagePack): external libraries.  A
  request succeeds, or fails with or without effect.
- The fields of the schema: data that no property tells apart.  Payloads are a
  length, messages a model value or a kind.
- CPU and memory use, the public address and the hash of MAC addresses: answers
  of libraries and services, of which one that never comes stops the converter.
- Flags, environment variables, logging, `MemPersistor` (tests only), the scripts.
- Two clients that share the message directory and `datalimit.json`.  Only the
  credentials are modelled as shared.
- The uneven lengths of months.

## 8. Plan

Written so far, in this order: `DataLimiter` and its proofs, `MessageStore` and its
proofs, `Pipeline`, `ConfigPoll`, `Startup` and its proofs; then `Outbox` and `Relay` with
the refinements, the proof of the first, `Reporting`, and the proofs of `Reporting`,
`ConfigPoll` and `Pipeline`; then `Stream` and its lemmas, the proof of the second
refinement, and those of `StorageBounded`, `StreamsRelayed`, `ExitReported` and
`OneOutcomeEach`, which left no safety property without a theorem.

Next, in this order:

1. A `Meter` (sent, budget, reset) that `DataLimiter` implements under `FitsWord`.
2. The billing calendar as pure operators (`AddDate`, days 1 to 28, uneven months)
   checked against a definition by enumeration over several years.
3. Two clients that share a message directory and `datalimit.json`.
4. A property that a saved message is lost with a working disk only by being read
   early and not published, and one that a budget is lost only while it is saved,
   so that the losses of section 6 are stated and not only excepted.
