# A verification project for pub-sub-tui

pub-sub-tui watches a Google Pub/Sub instance by standing in front of it: a
proxy forwards every call and reports what it saw, one task folds the reports
into a state, and terminal UIs stream snapshots of that state. The modules in
this directory specify those parts, TLC checks them on small instances, and
TLAPS proves what matters most about them for every instance. Paths below are
relative to the repository.

Run a model with `tlc -config X.cfg M` and check a module's proofs with
`tlapm XProofs.tla`. PROJECT.json lists the runs, the mutation that
shows each property can fail, the source lines behind each definition, the
hazards the properties are for, and the findings.

## 1. The system

| Component | State | Operations | Talks to |
| --- | --- | --- | --- |
| Observations, sink (`observe/events.rs`) | a channel of 8192 slots | `observe`: enqueue or drop, never wait | every handler → observer |
| State-owning task (`observe/state.rs`) | `AppState`; the watch channel | `recv`, `try_recv` until empty, trim, publish | channel → watch channel |
| Proxied StreamingPull (`proxy/subscriber.rs`) | latch, opened flag, two channels of 64, two pumps | relay frames and responses, report open, acks, deliveries, close | client ↔ server, → sink |
| Unary gRPC calls (`proxy/publisher.rs`, `subscriber.rs`, `forward.rs`) | per call | capture, forward, report, answer | client → server, → sink |
| REST relay (`proxy/rest.rs`) | per call | collect, forward, collect, report, answer | client → server, → sink |
| Admin poller (`poller.rs`) | the poll under way | list topics, list subscriptions, ask each parent, emit | server → sink |
| State server (`monitor/server.rs`) | a cursor per connection | send the current snapshot, then each newest one | watch channel → wire |
| Wire form (`monitor/convert.rs`) | none | instants to ages and back | |
| Monitor client (`monitor/client.rs`) | two watch channels | connect, subscribe, pump, report loss, back off | wire → UI |
| UI (`ui/app.rs`, `ui/mod.rs`) | focus, selection, view; key queue | one key or one snapshot at a time | watch channel, keys → screen |
| Topic tree (`ui/tree.rs`) | open and selected rows, by identifier, in the widget | rebuild from each snapshot; move, open, close | snapshot, keys → screen |
| Statistics, content viewer (`ui/widgets.rs`, `ui/message_view.rs`) | none | sums over a snapshot; a payload's form, lines and colours | |
| Listener (`proxy/mod.rs`) | none | route a request to gRPC or the relay; may stop | client → handlers |
| Monitor (`bin/pub-sub-monitor.rs`) | its life | spawn poller and proxy, serve snapshots, end | |
| Load generator (`loadgen.rs`) | setup progress, round, a consumer per subscription | connect, create with retries, publish, ack | proxy (both as publisher and as consumer) |
| Theme, CLI, logging | none | constants and options | |

What makes it hard:

* **Interleaving.** Handlers run on many threads and report between any two
  steps of the observer; the two pumps of a stream alternate at every await.
* **Loss.** The sink drops what it has no room for. Connections break, or go
  silently dead. A snapshot is skipped when a newer one is there.
* **Ends.** A stream can end in a dozen ways (half-close, reset, refusal,
  error, OK status, full channels), and each has to produce one close, after
  everything else. A unary handler is dropped at any await.
* **Staleness.** A poll is several requests while the server changes. A key is
  handled against a snapshot newer than the one the user saw. An instant means
  nothing on another host, a sequence number nothing in another life of the
  monitor.
* **Cycles.** The generator's consumer does not read while it waits to send an
  ack; the proxy's two pumps wait for room in opposite directions.
* **Edges.** Unmatched closes, buffers overflowing within one burst, ages the
  receiving clock cannot express, line counts beyond 16 bits.

## 2. The modules

```
ObservationSink <- AppState <- Observer <- ObserverHistory <- MCObserver
                      |           |            | refines
                      |           |         TrafficLedger
                      |           +-- ConsumerPipeline (INSTANCE) <- MCConsumerPipeline
                      |                    | EXTENDS
                      |                 Consumer
                      |                    ^ refines
                      |               StreamingPull <- MCStreamingPull
                      |                    ^ EXTENDS
                      |                 Loadgen <- MCLoadgen
                      +-- Poller
                      +-- Convert <- MonitorLink <- MCMonitorLink
                      +-- Statistics <- TopicTree <- MCTopicTree
UnaryCalls <- MCUnaryCalls      MessageView <- TuiApp <- MCTuiApp

AppStateProofs <- ObserverProofs (ObserverHistory), TopicProofs (Poller, TopicTree),
                  MonitorLinkProofs (MonitorLink)
               <- ConsumerPipelineProofs (ConsumerPipeline; by INSTANCE)
StreamingPullProofs (Loadgen), UnaryCallsProofs (UnaryCalls), TuiAppProofs (TuiApp)
```

* **ObservationSink**: observations as records, the bounded channel, `observe`
  (drop on full or closed), the receiver's `take` and its closing.
* **AppState**: a BTreeMap is a function on its set of keys. One operator per
  arm of `apply`, `apply_admin` in one go (the two loops over disjoint fields
  of a BTreeMap are a single map over the union of the keys), `push_recent` for
  a whole batch, `trim_recent`.
* **Observer**: `run()` with an action per channel operation: `Recv` (which
  fixes `now` for the burst), `TryRecv`, `TryRecvEmpty`, `Publish` (trim and
  send in one action: no await lies between), `RecvNone`. The environment
  observes, lets time pass, and drops handles.
* **ObserverHistory**, **TrafficLedger**: the ledger is the abstract
  specification. Every figure of a view is computed from scratch from a prefix
  of what was accepted: sums, the newest listing, the newest messages, and for
  live consumers the largest surplus of opens over closes in any suffix, which
  is what a saturating counter amounts to. ObserverHistory adds the accepted
  observations and how many the snapshot accounts for, as history variables.
* **StreamingPull**: the spawned task. Control changes hands only at awaits, so
  a pump's code between two awaits is one action, except that acks are counted
  in an action of their own during which the other pump cannot run. `Finish` is
  what follows `select!`.
* **Consumer**: what a call promises the observer: at most one open, movements
  on that subscription only, one close at the end. StreamingPull implements it.
* **ConsumerPipeline**: Consumers for the streams, with Observer instantiated
  for the channel and the task. StreamingPull itself is replaced by its
  specification, which keeps three concurrent streams within reach.
* **Loadgen**: the generator as a script (connect, create, spawn consumers,
  connect publishers) that retries each step, then rounds of publishing. Where
  a topic has no consumer the script has a step to pass over (`Continue`). Each
  consumer has its loop, its request channel and what its connection carries.
  The proxy in between is StreamingPull unchanged, whose client the consumer
  is; the server delivers what was published and no more.
* **UnaryCalls**: both protocols' handlers in one module, and the routing
  between them. A request is what the relay tells apart: path, method, content
  encoding, whether the body is JSON, and per payload its size and alphabet;
  `Asks` is what the API takes it for. Cancellation can strike at each await,
  and not between the report and the answer, where there is none. Two calls are
  `Counterparts` if they differ in nothing but their protocol.
* **Poller**: one action per request, against a server that creates and deletes
  between them; a deleted topic's subscriptions stay.
* **Convert**, **MonitorLink**: the conversion with its saturations; per UI a
  supervisor, a connection and its server-side cursor. `life` is the number of
  crashes so far. `next_seq` does not travel. A snapshot carries the whole
  buffer, and the UI's client decodes it only up to a limit (`Decodable`, by
  `PayloadSize` and `DecodeLimit`): a larger one ends the connection with an
  error (`ReceiveTooLarge`), and a new connection begins with the current
  snapshot. The monitor's process is in it:
  its proxy may stop, or never start, while the rest goes on; then the poller's
  listings are all that is still observed.
* **TuiApp**: `handle_event` as a state change by focus and view, `run_loop` as
  one branch at a time. A snapshot is a life and a number of messages, which
  determine the messages shown by Observer's `SnapshotHoldsNewest`. History
  variables keep the message the user aimed at and the life of the monitor in
  which the selection was made.
* **MessageView**: what the detail view shows of a payload: its form, how many
  lines (TuiApp scrolls over them), and the JSON scanner over characters
  reduced to the classes it distinguishes. The reference it is compared with is
  a grammar of what serde_json's pretty printer writes.
* **Statistics**: the sums the panel displays.
* **TopicTree**: the trie as the set of prefixes of the listed topics' segments,
  identifiers computed from it as the code does, and the widget's cursor and
  open set over rebuilt trees. `FoldIn` applies one observation and trims. A
  history variable keeps the row the user chose.
* **AppStateProofs** has the lemmas about the sink, about `apply` and
  `trim_recent`, and about sums over finite sets, that several proofs rest on.
  The other **...Proofs** modules extend what the diagram gives in parentheses,
  which includes the modules below it: StreamingPullProofs is about StreamingPull
  and about Loadgen. See section 5.

The operators headed "Mutation of ..." are plausible mistakes in the definition
that follows them. No specification uses them: each shows that some property
would notice.

## 3. What is checked

| Run | Bounds | Shows |
| --- | --- | --- |
| MCObserver | 2 topics, 2 subscriptions, 4 observations of 9 shapes, channel 2, buffer 2, fair | types; `SnapshotHoldsNewest`; `DisplayIsLedger`: every snapshot is the summary of a prefix of the accepted observations, and prefixes grow; `SeqIsIdentity`; `EventuallyShown` |
| MCStreamingPull | 1 stream, channels of 1, 3 frames of 0 to 2 acks, 1 response of up to 2 messages, fair | types; `RelayInOrder`, `TapIsExact`, `ImplementsConsumer`, `ResetDetected`, `EndPropagates`, `NoEstablishDeadlock` |
| MCConsumerPipeline | 3 streams, 2 subscriptions, channel 2 | `LiveIsConnected`, `DriftIsBounded` |
| MCLoadgen | 3 topics, 1 consumer, 2 attempts per step, 7 messages in responses of 1 or 2, every channel of 1, fair | `Rerunnable`, `TopologyFirst`, `AcksFollowDeliveries`, `EverythingIsAcked`, `NoneLeftBehind` |
| MCUnaryCalls | 2 calls, bodies of 0 to 2 messages, cap within a body's sizes, REST requests that differ from a good one in one respect | `CountedIsMoved`, `SuccessIsCounted`, `ProtocolsAgree` |
| MCPoller | 2 topics, 2 subscriptions, 4 changes, 1 failure, channel 1 | `NoFalseDisappearance`, `EventuallyReconciled`, no deadlock |
| MCMonitorLink | 1 UI, 2 versions per life, each a publication of one of 2 messages or a listing, one message above the decoding limit, buffer 1, 1 crash, 1 lost connection, the proxy running or not, clock to 2, the UI's host booted one tick after the monitor's, fair | `LocalMirrors`, `NeverBackwards`, `LossIsReported`, `EventuallySynced` |
| MCTuiApp | 3 messages (JSON of 6 lines, text of 65542, hex of 12), buffer 2, 1 restart, 3 pending keys, of which the third is Esc (`MaxAhead`), fair; lines of JSON with strings of up to 2 characters (`MaxCharacters`) | `UnfocusedFollowsTail`, `ScrollOnContent`, `HighlightFindsTokens`, `EnterOpensWhatWasSeen`, `FocusPausesScroll`, `QuitIsObeyed` |
| MCTopicTree | 4 topics in 2 projects, 1 subscription, 3 observations per life, 1 restart, 2 open rows | `CursorKeepsItsRow`, `TreeAddsUp` |

Why the bounds suffice. A channel or buffer of one to three slots is full, and
overflows within one burst, as a large one does; more slots add states of the
same kind. Two topics and subscriptions are needed for something listed beside
something not listed, two messages in a batch for numbering within it. Streams
share nothing but the sink and UIs nothing but the watch channel, so one of
each shows their own behaviour; contention for the sink is what
MCConsumerPipeline adds, with more streams than slots. One crash gives two
lives, which is what properties across lives compare. A message of 65542 lines
has 6 lines modulo 2^16, so that the cut to `u16` leaves something to scroll.
Two characters in a string are an escape followed by a quote, or two escapes,
which is what the scanner's parity of backslashes is about. In MCLoadgen the
consumer's channel, its connection, the proxy's two channels and both pumps
hold one frame each, so that six messages fill the whole cycle and the seventh
waits; only the first response varies in size (`MaxVaried`), and the server or
the generator ends a stream only early on (`EndsWithin`), since later ends add
no case to those of MCStreamingPull.
From an open message it takes three Esc to leave, so in MCTuiApp three keys may
wait; two are enough for the rest, and behind two the only further key is Esc.
In MCMonitorLink the
second publication of a life pushes the first message out of the buffer, so
that a snapshot above the limit can be the first, the second, both or neither,
and an instant the UI's host cannot express is one of the monitor's first tick.
In MCObserver the clock stands still: no figure of the ledger is an instant, and
for the two properties about buffered entries, which do carry one, the theorems
of section 5 hold at any time. MCTopicTree has a group in a group of the same
segment and a group that becomes a topic, the cases its identifiers are for; a
subscription whose topic is shadowed by another takes a fourth observation, and
only the theorem about `TreeAddsUp` covers it.

`CHECK_DEADLOCK FALSE` stands where the bounds or the system's own ends (a task
that returned, a finished call, a UI that quit) leave nothing to do. The poller
never stops, and its run checks deadlock.

### Disagreements between the code and its documentation

Three runs state what a comment or a document says, and TLC finds it violated.

| Run | Statement | What happens |
| --- | --- | --- |
| MCPullHalfClose | as if the client had talked to the server | a client that half-closes and reads on loses a response the server had already sent |
| MCMonitorLimit | each connecting UI gets the current snapshot, then each newer one | a snapshot above tonic's default decoding limit (4 MiB; a full buffer of the default size may have 12.8 MiB) makes the UI fail and reconnect for ever |
| MCTreeStable | identifiers are stable, so open rows stay open | a group's identifier changes with its first topic, and it closes |

Two more disagreements show in the text and need no search.
`connected_publishers` (`observe/state.rs:206-211`) counts one entry per topic
and peer, so a client on two topics counts twice, where architecture.md speaks
of clients; the figure is not modelled. And a gRPC call that moved nothing is
reported, with a count of zero (`proxy/subscriber.rs:85-90`, an empty Publish
likewise), which makes an entry for its topic or subscription, while the relay
reports nothing (`proxy/rest.rs:210,231`); architecture.md calls the two
protocols indistinguishable but for the peer. `ProtocolsAgree` states what they
have in common and where they part.

### What the passing properties presuppose

Some properties hold only under a premise that the code does not enforce; each
premise is part of the run's constants or of the property's statement.

* `EventuallyShown`: traffic pauses. The drain loop publishes only when it
  finds the channel empty, and while observations keep arriving as fast as they
  are folded in, it need not.
* `ResetDetected`: the server goes on reading. While the inbound pump waits for
  a slot in the request channel, nobody polls the client's stream.
* `ImplementsConsumer`: a client names its subscription in the first frame
  only, as the API requires. The code would let a later name replace the latch,
  and the close would then be reported for another subscription than the open.
* `EventuallySynced`: the monitor's snapshot is, from some time on, one that
  the UI's client decodes. MCMonitorLimit shows what happens otherwise.
* `ProtocolsAgree`: of calls that moved messages both taps report the same. For
  those that moved none it says only that gRPC reports zero, if anything, and
  REST nothing.
* `FocusPausesScroll`: the panel had a message to select when it got the focus.
  Focused while empty, it goes on following the newest message.
* `EnterOpensWhatWasSeen`: the selection was made in the monitor's present
  life. Numbers start again with each life, and nothing in the UI notices: a
  selection made before a restart opens another message after it, until some
  key selects anew.
* `EverythingIsAcked`: the call and the generator last. A consumer whose stream
  ends is never opened again, and what is published afterwards stays unread.
* `HighlightFindsTokens`: lines are those of serde_json's pretty printer, the
  only ones `as_json` passes on.
* `LocalMirrors` has no premise, but it does not promise right ages in every
  case: an instant that the UI's host cannot express (`EarliestInstant`) is
  shown as that of receipt. Whether that can happen depends on how a platform
  represents an `Instant`.
* `DriftIsBounded` says how far the figure for live consumers may be out, not
  that it recovers: a dropped close leaves a consumer on display for good.

## 4. Fairness

* **Observer** (`FairSpec`): weak fairness of the task, which the runtime polls
  while it can make progress. Nothing makes clients send, or stop sending:
  `EventuallyShown` holds in MCObserver because the run admits a bounded
  number of observations, i.e. traffic pauses.
* **StreamingPull**: weak fairness of each pump and of what follows `select!`
  (`PumpFairness`): `select!` polls both branches in every poll of the task.
  `ServerFairness`, a server that reads what it is sent and answers after a
  frame, is an assumption about the environment. Clients are under no
  obligation at all.
* **Loadgen**: weak fairness of each consumer's task, its connection and the
  proxy's pumps. The server reads, answers once it has a frame, and delivers
  its backlog; it owes nobody an end. Setup and publishing are under no
  obligation.
* **Poller**: weak fairness of the poller, whose ticker keeps ticking and whose
  requests get an answer or an error, and of the observer. Failures and changes
  end, because they are bounded.
* **MonitorLink**: time passes (`Tick`, without which a UI's host would never
  have booted), and weak fairness of the server's stream, of the supervisor and
  of the keepalive timer. A crashed monitor need not restart, hence the premise
  `up` of `EventuallySynced`.
* **TuiApp**: `select!` polls its branches in random order, so neither a queue
  of keys nor a changed snapshot is passed over for ever.

## 5. What is proved

The theorems hold for arbitrary sets of topics, subscriptions, streams, calls
and UIs, arbitrary capacities, buffer sizes and bounds, any offered
observations, frames and requests. They use the assumptions each module states
about its constants (`SinkAssumption`, `NoTopicAssumption`,
`ObserverAssumption`, `StreamAssumption`, `PipelineAssumption`,
`LoadgenAssumption`, `CallsAssumption`, `PollerAssumption`, `LinkAssumption`,
`ConvertAssumption`, `TreeAssumption`, `TuiAssumption`,
`ViewAssumption`), which say what the constants are and that stand-ins such as `NoTopic` are not names in use. Three
say more. `CallsAssumption`: a gRPC request carries bytes, never base64.
`TreeAssumption`: no two topics have the same project and segments, and a
listing is finite. `LoadgenAssumption`: the demo topics differ from each other
and from the subscriptions, and no two have the same subscription. The four
theorems that need a hypothesis beyond these give it in parentheses: the peers,
or the streams, are finitely many; or `NamesOnce`, a premise of section 3.

| Module | Theorem | States |
| --- | --- | --- |
| ObserverProofs | `TypeCorrect` | `TypeOK` |
| | `SnapshotsHoldNewest` | `SnapshotHoldsNewest` |
| | `SequenceNumbersIdentify` | `SeqIsIdentity` |
| | `DisplayShowsLedger` | `DisplayIsLedger`: the task implements TrafficLedger (finitely many peers) |
| StreamingPullProofs | `PullTypeCorrect` | `PullTypeOK` |
| | `RelayIsInOrder` | `RelayInOrder` |
| | `KeepsConsumersPromise` | `ImplementsConsumer`: a call implements Consumer (if `NamesOnce`) |
| | `TapsAreExact` | `TapIsExact` |
| | `TopologyComesFirst` | `TopologyFirst` |
| | `CanBeRerun` | `Rerunnable` |
| | `AcksFollowTheirDeliveries` | `AcksFollowDeliveries` |
| ConsumerPipelineProofs | `DropsAreTheOnlyDrift` | `DriftIsBounded` (finitely many streams) |
| | `NoDropsNoDrift` | `LiveIsConnected` (finitely many streams) |
| UnaryCallsProofs | `UnaryTypeCorrect` | `UnaryTypeOK` |
| | `ReportsWhatMoved` | `CountedIsMoved` |
| | `NothingMissing` | `SuccessIsCounted` |
| | `ProtocolsReportAlike` | `ProtocolsAgree` |
| TopicProofs | `PollerTypeCorrect` | `PollerTypeOK` |
| | `NothingVanishes` | `NoFalseDisappearance` |
| | `CursorStays` | `CursorKeepsItsRow` |
| | `TreeAccountsForTotals` | `TreeAddsUp` |
| MonitorLinkProofs | `LinkTypeCorrect` | `LinkTypeOK` |
| | `AgesSurvive` | `LocalMirrors` |
| | `ShownInOrder` | `NeverBackwards` |
| TuiAppProofs | `TuiTypeCorrect` | `TuiTypeOK` |
| | `LeavingResets` | `UnfocusedFollowsTail` |
| | `ScrollShowsContent` | `ScrollOnContent` |
| | `EnterOpensAimed` | `EnterOpensWhatWasSeen` |
| | `SnapshotKeepsHighlight` | `FocusPausesScroll` |
| | `TokensAreColoured` | `HighlightFindsTokens` |

Few of the properties are inductive as they stand. What had to be added, and why
it holds:

* **Sums** (AppStateProofs). The panel's and the ledger's figures are the
  library's recursive sums over finite sets. The induction theorems of the
  proof library cannot be used, so facts about all finite sets are proved by a
  least counterexample: among the finite sets that lack a property one has the
  fewest elements (`LeastSubset`, `FiniteInduction`). `SumProperties`,
  `SumUnion`, `SumOfImage` and `SumOfSums` follow, and the rest of the proofs
  cite these.
* **Observer.** The work for types is in `ApplyType` (AppStateProofs): each arm
  of `apply` maps well-formed states to well-formed states, and the saturating
  close keeps `live_consumers` a natural number. For the snapshot one has to
  know what the task holds in mid-burst: `BufferInv` adds that the numbers in
  the task's own buffer are contiguous up to `next_seq` (`Contiguous`) and that
  it never holds fewer messages than are to be shown (`HoldsEnough`). Folding in
  only appends (`ApplyBuffer`); a single trim then leaves exactly the newest
  ones (`TrimBuffer`), however long the burst was. `IdentityInv` adds that the
  state being built agrees with the latest snapshot on every number both have:
  entries are never rewritten, and new numbers start at `next_seq`, above all
  the snapshot's (`ApplyIdentity`).
* **The observer implements TrafficLedger.** `LedgerInv`: while the task
  receives, what was accepted is what it has folded in followed by the queue;
  `Folded` relates the state to the observations folded in, and the snapshot is
  the ledger's summary of a prefix. For each figure a lemma says how the ledger's
  definition grows by one observation, and `FoldedGrows` that `apply` does the
  same: counts are sums over places of the log (`SumGrows`); the largest surplus
  of opens over closes in any suffix goes up with an open and down with a close,
  but not below the empty suffix's zero, as the saturating counter does
  (`LiveGrows`); a listing replaces what exists and a parent is the one that the
  newest listing naming the subscription gives (`ListingsGrow`, `ParentGrows`);
  the captured messages grow at their end (`EverythingGrows`; that a flattening
  exists at all is shown by a shortest log without one). `FoldedTrimmed` says
  that trimming loses no figure and `FoldedShows` that a state which is trimmed
  and `Folded` displays the summary. `StepShows` then maps the steps: accepting an
  observation and publishing are the ledger's two actions, the rest stutters.
* **StreamingPull.** That what was received is a prefix of what was sent says
  nothing of the places in between. `RelayInv` follows each frame through them:
  while the pump runs, what the server has, the request channel, the pump's hand
  and the client's connection together are what was sent, but for what a reset
  lost; and at all times what the server has and the channel holds is a prefix
  of it (`FramesInOrder`). Responses likewise (`ResponsesInOrder`). `PumpsHold`
  ties each pump's hand to where it stands in its code.
* **StreamingPull implements Consumer.** Every step is shown to be a step of
  Consumer or a stutter. Acks are reported for the latched subscription, so one
  has to know that the latch does not change once the call is open. That is so
  if the first frame names a subscription and later ones name none (`NamesOnce`,
  as the API asks of clients), and if no frame overtakes the first: `NamesFirst`
  says that until the call is open nothing has got past the pump.
* **The taps.** `TapInv` says of each pump how far it has told: there is an n such
  that the acks reported are those of the first n frames sent, everything past
  the pump is among these, and what is still to come to it are the frames after
  them (`AcksTold`, with the frame whose ack is being counted in `InHand`);
  responses likewise (`DeliveriesTold`). The property compares two filtered
  sequences, which `SameAmounts` and `Rank` reduce to places: the k-th report
  carries the amount of the k-th frame that has one.
* **Loadgen, setting up.** `SetupInv`: every entity whose creation lies behind the
  script's position exists, and a consumer that was spawned has its step behind
  it. With the script as a function of the step's number, `ScriptAt` computes
  what stands at each place and `ScriptOrder` that topic, subscription and
  consumer come in that order. Creating then never meets a missing topic, so the
  generator fails only at its last attempt.
* **Loadgen, consuming.** `ConsumerHolds`: the frames a consumer has sent, has in
  its channel or is about to send (`Owed`) answer, after the first frame, the
  responses with messages that it got, in order and each by its amount
  (`Answers`). Together with `TapInv`, which puts what the consumer got among what
  was told as delivered, and what was told as acked among what it sent, this
  gives the order of the two kinds of reports.
* **ConsumerPipeline.** The figure for live consumers saturates, so it is not a
  sum of opens and closes, and reports still queued may be wrong or missing.
  `EndsNear` looks ahead: there is a forecast, the figures the state would go
  through as it folds in the queue, whose last one is within `lost` of the
  streams that are open. A step of a stream appends to the forecast or adds to
  `lost`; the task takes its head. The step that carries it is `AfterStaysNear`:
  two figures at most `lost` apart are still so after the same report, a
  saturating close included. `Published` says that between bursts the snapshot
  shows the state's figures, so once the queue is empty it is the forecast's
  last. The streams are finite in number, or open streams could not be counted.
  For the panel's total, `KnownInv` says that only finitely many subscriptions are
  known, and the figures of unknown ones are zero.
* **UnaryCalls.** `CallKeeps` ties each point of a handler to what the server
  did: when the server accepts, what it moved is what its answer says and what
  the request asks for, and the report is the one this request and answer call
  for; without success there is no report. `ReportsWhatMoved` then compares,
  case by case, what the handler reads out of a body with what the server takes
  the request for. For `ProtocolsReportAlike`, requests that ask
  the same are captured the same, in any encoding the relay knows
  (`SameReportButForPeer`), and the relay reports no call that moved nothing
  (`RelayIsSilent`).
* **Poller.** A listing is in four places on its way: the server, the poll under
  way, the channel and the state. `VersionsInOrder` says that a topic
  which an older one of them has and a newer one has not was deleted. A poll
  one of whose listings fails emits nothing, so it never makes a listing
  shorter.
* **TopicTree, the cursor.** A selection outlives the snapshot it was made in, so it
  cannot be understood with the help of one. `Denotes` says what an identifier
  says of its row by itself: each part names a topic whose segments lead there, or
  the segment of a group. Two rows that one identifier denotes are the same
  (`DenotesOne`), and a row's identifier denotes it in any snapshot
  (`IdentifierDenotes`). `TreeInv` also keeps snapshots finite, or a node need not
  have a last topic.
* **TopicTree, the totals.** `SubtreeSums`: the recursive `subtree_messages` is
  the sum over all nodes at or below a node: those sums satisfy the recursion's
  equation, and no two functions do. A node is shown by one line at most (`CountedOnce`) and by some line
  (`CountedSomewhere`); the topics a node does not keep are the shadowed ones.
* **MonitorLink.** `PublisherSurvives`, `TopicSurvives` and `MessageSurvives`:
  `from_wire` after `to_wire` keeps everything but instants, and an instant
  becomes `ShownInstant`, if it does not lie in the future of the monitor's
  clock when the snapshot is sent (`StampedBy`). `InTransit` says that a frame on the wire is an
  encoding of such a state, `LocalIsDecoded` that what the UI holds was decoded,
  by its clock at receipt, from an encoding of the state it has for its origin,
  by the monitor's clock at sending; `LocalMirrors` follows field by field.
  `OldestFirst` orders, by life and version, what the UI shows, what is on the
  wire and what the monitor has now; a reconnection starts with an empty wire
  and the newest snapshot, so no frame of an earlier connection comes after it.
* **TuiApp.** The snapshot the UI drew is never newer than the one in the watch
  channel (`NotAfter`). A selection made in the monitor's present life is a
  number below the snapshot's next (`SelectionIsOld`). While the Enter that was
  aimed is the first key in the queue, only snapshots have come since the user
  looked, so within that life the selected number is still the message aimed at,
  or has left the buffer (`EnterIsAimed`). `UnfocusedFollowsTail` and
  `ScrollOnContent` are kept by every step as they stand.
* **The scanner** (TuiAppProofs). Strings may be of any length, so the run's
  bound disappears. What the scanner computes by recursion on places is told from a
  least place where it would be wrong (`EscapesExist`, `SpansExist`), and a fact
  about all sequences from a shortest one without it (`SequenceInduction`).
  `TextEscapes` is the heart: after any run of whole characters the next place
  is not escaped, and every quote among them is, whatever the parity of the
  backslashes before it; so a string ends at its own quote (`StringEndIs`).
  `IsToken` says that a text is one span wherever it stands, given what follows it;
  one such lemma per kind of token. `Found` is the invariant of putting a line
  together from its end: the tokens so far are read where their characters
  stand, and what they begin with cannot be taken for the end of the token
  before.

The runs' TLC instances check what is proved here; where a property's statement
names its premise (section 3), the premise is also the theorem's hypothesis.

### What is only model-checked

Liveness, all of it, since TLAPS does not handle ENABLED: `EventuallyShown`,
`ResetDetected`, `EndPropagates`, `NoEstablishDeadlock`, `EverythingIsAcked`,
`NoneLeftBehind`, `EventuallyReconciled`, `LossIsReported`, `EventuallySynced`,
`QuitIsObeyed`. Every safety property of a passing run has its theorem.

## 6. Not modelled, and why

* Layout, colours and texts: the panels' sizes, the statistics panel's lines
  (its figures are modelled, but for connected publishers and the buffer's
  headroom), the digits of a
  hex dump, ages and sizes in words, the theme.
* Headers, metadata, status codes and texts: relayed or logged, nothing counted
  depends on them. Ordering keys are only logged.
* Payload bytes and protobuf: a payload is its size in UnaryCalls and
  MonitorLink and part of an opaque message elsewhere. The size of a snapshot is
  that of its payloads; names, attributes and publishers, which only make it
  larger, are left out. A frame that is no protobuf cannot come from this server. The counters' width of 64 bits cannot be
  exhausted; the only width that matters, `u16` in the detail view, is modelled.
* Option parsing and logging, and what the UI's binary does before its loop.
* Timeouts of a poller's request: the code sets none, and what the client
  library does when no answer comes is not in `src/`. Growth of the publisher
  map: the code bounds it nowhere and no text promises that it does.
* Outside `src/`: clients, the Pub/Sub server, HTTP/2, tokio's channels and the
  terminal, as far as the code can see them. They are marked external.
* Keys on a tree without rows: the widget then moves among the identifiers it
  drew last (`ui/app.rs:292-295`), and none of them is a row.

## 7. Plan

In order of importance; the modules above come first and are done.

1. Every safety property of the passing runs has its theorem; what is left to
   prove is liveness, which waits for a prover that handles ENABLED.
2. Weighed and left out: composing Poller and UnaryCalls with Observer (MCObserver
   already folds in every kind of observation in any order, which is all that
   such a composition could produce), and several UIs in MonitorLink (they share
   nothing but the watch channel, which no UI writes).
