# Verification of sketchup-mcp

A TLA+ development kept beside `giaokhoa/sketchup-mcp`: a Go MCP server that
drives models open in SketchUp Desktop through a Ruby extension. The two halves
talk over a private framed-JSON protocol on loopback TCP. The Ruby files below
are under `sketchup/giaokhoa_sketchup_mcp/`.

## 1. Inventory

| Part | State | Operations | Talks to |
| --- | --- | --- | --- |
| MCP tools (`internal/app`, `internal/model`) | none | validate input, build the bridge payload, `service.Call`, map domain errors | session registry |
| Session registry (`internal/sessions/sessions.go`) | `entries`, `refreshMu`, `mu` | `List`, `Call`, `Refresh`, `Close`, `probe`, `loadDescriptors` | descriptor files, bridge client |
| Bridge client (`internal/bridge/client.go`) | `conn`, `mu`, descriptor | `Dial`/`handshake`, `SessionInfo`, `Call`/`request`, `Close` | one TCP connection |
| Framing (`internal/bridge/protocol.go`, `bridge/protocol.rb`) | none | `readFrame`/`writeFrame`, `encode_frame`, `decode_payload`, `validate_*`, `secure_compare` | both ends |
| Bridge server (`bridge/server.rb`) | `@clients`, `@listener`, `@timer_id`, `@running`; per connection: `@state`, `@read_buffer`, `@write_queue`, `@pending_write_bytes`, `@outstanding`, `@close_after_write`, clocks | `start`, `stop`, `poll_once` (accept, read, flush, expire), `enqueue_response` | request queue, sockets, discovery |
| Dispatcher (`dispatcher/main_thread_dispatcher.rb`) | `@timer_id` | `drain_once`, `process` | request queue, command registry, response sinks |
| Discovery (`bridge/discovery.rb`) | the descriptor and its temporary file | `publish`, `remove` | file system |
| Runtime (`runtime.rb`) | the running server, dispatcher, model state, observer | `start`, `stop`, `track_model` | all of the extension |
| Model state (`model_state.rb`) | `@model`, `@guid`, `@revision` | `track`, `capture`, `transaction_changed`, `stop` | SketchUp observers |
| Command registry (`commands/registry.rb`) | none | `call`, read-only queries, entity references | model state, mutation engine |
| Mutation engine (`mutation_engine.rb`, `presentation_engine.rb`) | `@cache_model_guid`, `@records` | one method per write operation, `undo`, file operations | model state, SketchUp, files |
| LayOut operations (`layout_primitive_engine.rb`) | `.layout` documents and exports on disk | create a document, add viewports, dimensions and annotations, export | the engine's execution protocol, LayOut files |
| Live E2E client (`cmd/live-layout-e2e`) | `modelGuid`, `revision`, references, counters; the files of its output directory | `loadFixture`, a fixed sequence of stages, a report | MCP tools, file system |
| Packaging, CI (`scripts`, `.github`) | - | build artefacts | - |

### How a tool call travels

An MCP handler (a goroutine) validates its input and calls the registry. The
registry refreshes: it reads the descriptor files, probes the connection it has
to each bridge with `session.info`, or dials another, and installs the map of
the sessions that answered. The call then goes out on that session's client and
waits, holding the registry's read lock and the client's mutex.

On the other side one thread, SketchUp's main thread, does everything. A poll
timer accepts connections, reads frames, checks them, reserves a slot for each
request and puts it on a bounded queue; it also flushes responses and expires
connections. A drain timer takes requests off that queue, drops the cancelled,
answers the late, and runs the others in the command registry, which reads the
model or hands the request to the mutation engine. The engine compares guid and
revision with the tracker's snapshot, consults the table of operations it has
seen, and executes inside one SketchUp operation, or, for files, outside one.
The user works on the same model all the while; the tracker learns of it from
observer callbacks.

### What is hard about it

* Shared state between callers who cannot see each other: a caller computes a
  write from a snapshot, and the user or another caller changes the model
  before the write arrives. Only guid and revision stand between them.
* Retries: the Go side gives up after its deadline and cannot know what
  happened. The operation id has to make the retry harmless, through failures,
  changes of the active document and nested execution.
* An identity that changes silently: `Model#guid` rotates when a modified
  document is saved, without a callback, and a document that is opened again
  has its old one.
* Execution that is not atomic: file operations are not SketchUp operations,
  and a result can fail to be built after the commit.
* Slots, queues and buffers with limits, released on paths that lie in
  different callbacks (answer written, connection closed, queue full).
* One contract in two languages: what a tool accepts and sends is written in
  Go, what the extension accepts in Ruby, and some of its checks run only after
  the operation id has been spent.
* Files that outlive the process that made them: an export's image is read
  after the call has returned, and a run of the live client finds in its output
  directory what earlier, killed or concurrent runs left.
* On the Go side, two locks and one mutex per connection; a probe that fails
  closes a client which calls are waiting for; answers that come after their
  request has been given up stay in the connection.

### What makes each part correct

* Model state: in one life of an identity (until the document is left, or saved
  under a new identity) a snapshot's revision names one content and never falls.
* Mutation engine: in a life of an identity, an operation takes effect at most
  once; of two writes computed from one snapshot at most one takes effect;
  a write executes on the content its caller saw; a recorded success was
  executed with those parameters, and a retry gets the first answer; a file
  reported for a revision holds that revision.
* Bridge server and dispatcher: each request frame is answered once; the
  slots of a connection are its requests in flight; tables stay within their
  limits; nothing runs unasked or twice; whoever connects is accepted or turned
  away, whoever stalls is expired, and every slot is freed in the end.
* Session registry and client: a caller's success is the answer to its own
  request from the session it named; what was refused before it was sent never
  executes; only entries probed since the call began are used; no connection
  is forgotten; healthy sessions are served; every call returns.
* LayOut operations: an entity once acknowledged stays in the document; an
  operation adds at most one in a life of the model; an export that is
  reported shows what was acknowledged before it.
* MCP tools and input models: what they let through the extension finds
  well-formed, but for named texts and points; a refusal spends no operation
  id; an image that is handed out is no older than its export.
* Live client: it creates only what is missing, repeating it creates nothing,
  a run that passes drew from a prepared copy of a model nobody disturbed, and
  delivered its own, whole and validated drawing.
* Runtime, discovery: a descriptor is only ever a hint (`LooksAtFreshEntries`);
  starting and stopping are not modelled (section 6).

The hazards of the code, each at its line, with the properties that guard
against them, are the list "hazards" of `PROJECT.json`.

## 2. Modules

| Module | Models | State and code |
| --- | --- | --- |
| `ModelState` | `model_state.rb`, the observer of `runtime.rb`, an external SketchUp document | `ms` = `@guid`, `@revision`; `Track`, `Capture`, `TransactionChanged` are the methods; `UserCommit`, `UserUndo`, `UserRedo`, `UserSave`, `SwitchModel` are what the user does and the callback it triggers; `Snapshot` is any read-only command |
| `MutationEngine` (extends it) | `mutation_engine.rb` and the execution protocol of the other two engines | `cacheGuid`, `records` are the cache; `Admitted`, `EpochRecords` are `prepare_request` and `sync_cache_epoch`; `Answer`, `FailModelOp`, `Write`, `Undo` are the ends a request without files can come to; `BeginFile`, `WriteFile`, `FinishFile`, `FailFile` are a file operation on `stack` |
| `LayoutDocuments` (extends it) | `layout_primitive_engine.rb` | `drawing`, `sheet` are the two files; `opened` is what each executing operation holds in memory, one entry per frame of `stack`; `Begin`, `Save`, `Finish`, `Fail` are `BeginFile`, `WriteFile`, `FinishFile`, `FailFile` with the files; `told` is a history of answers |
| `OnceOnly` | what the engine promises, without records, caches or trackers | `version` is the model's identity and revision, `done` the operations that were done; `MutationEngine` implements it under the mapping of `KeepsPromise` |
| `ToolInputs` | `Validate` and `BridgePayload` of `internal/model`, beside the checks of `mutation_engine.rb`, `presentation_engine.rb`, `layout_primitive_engine.rb`, `registry.rb` | operators on inputs and payloads: for each operation `XFields`, `XValid`, `XPayload` (Go) and `XForm`, `XChecks`, `XBody` (Ruby) |
| `ToolCalls` (extends it) | the handlers of `internal/app` and the extension's end of a call | `asked`, `sent`, `answer` are the handler's input, payload and result; `records` the engine's table; `files` the exports; `Handle` is the common part of all handlers, `Malformed`, `Refuse`, `Replay`, `Fail`, `Complete`, `Export`, `Read` the ends of a request, `Return` the handler after its call |
| `LiveRun` | `runner.go` and `main.go` of `cmd/live-layout-e2e`: preparing the model | `run` is the `Runner` with its stage; `copy` is the saved copy; one action per stage or loop body; `Create` and `Confirm` are the mutation and the summary after it |
| `DrawingRun` | `spec.go`, `runner.go`, `main.go`: fixture, template, drawing, exports, report | `run` is one `Runner` per process, `disk` the output directory, `late` the calls of runs that are gone; one action per stage or loop body |
| `BridgeServer` | `server.rb`, the request queue, `main_thread_dispatcher.rb` | `conn[c]` is the Connection object and its socket; `main` is where in a tick the main thread is; one action per step of `poll_once` and `drain_once` between which a peer can act |
| `Sessions` | `sessions.go`, `client.go` | `proc` is where each tool call is; `refresher` is `refreshMu`; readers and the waiting writer of `mu` follow from `proc`; `client[c]` is a Client with its mutex and both directions of its connection |
| `ModelStateProofs`, `MutationEngineProofs`, `LayoutDocumentsProofs`, `BridgeServerProofs`, `SessionsProofs`, `ToolCallsProofs`, `LiveRunProofs`, `DrawingRunProofs` | theorems and proofs | |
| `MC*` | instances for TLC | |

`LayoutDocuments` composes with the engine: every action of the engine is a
conjunct of one of its own, so that the LayOut operations use the admission, the
records and the revision checks of the whole extension. `ToolCalls` has a
coarser engine of its own (a request is executed in one step, and the model's
verdict on it is any): its subject is the form of requests, the order of the
checks and the files, and it needs neither identities nor contents. `LiveRun`
and `DrawingRun` are the two halves of one client. The first has a model that
the user changes and no directory, the second a directory that other runs change
and a model that stands still; what they share is the order of the stages.

Abstractions shared by all: names, payloads and messages are model values or
kinds; clocks are what is done with them (a deadline that has passed, a timeout
that has run out). `MutationEngine` extends `ModelState` because every step of
the engine reads and may attach the tracker. The bridges of `Sessions` are a
small external part: they answer in order, late, or not at all, which is what
`BridgeServer` guarantees of one connection that no other client shares.

History variables record what properties talk about and the code does not keep:
`life`, `seen`, `applied`, `files`, `clock` (what callers were shown, what executed and
on which content), `asked`, `told`, `ran` (frames, answers, executions), and
`fresh`, `leaked`, `executed` (who was under way at a probe, clients given up,
calls executed). No guard of code reads them, except that callers send requests
computed from a snapshot they were given (`Sendable`) and that `clock` numbers
contents.

Some choices that matter:

* Identities come back. `kept` holds the documents as they would be found on
  return, with their stacks or, closed unsaved, as their files; `SwitchModel`
  goes to any document, the present one included. Each switch and each save
  begins a life, which the history variable `life` counts and no guard of code
  reads.
* A content is a stamp, so undo and redo really restore an earlier content, and
  equality of contents is not an accident.
* A SketchUp operation may be reported by more than one transaction callback
  (`MaxStep`), as ADR 0001 section 8 allows.
* A write and an undo are one step each: the dispatcher runs them on the main
  thread and they pump no events. Whether SketchUp or LayOut pumps events while
  it writes a file is not known, so `Pumps` is a parameter and both answers are
  checked. With `Pumps` other requests, also with the same id, nest on `stack`.
* `Write` may record a failure after its commit, because the result is built
  after `commit_operation`.
* The poll tick is as fine as its peers can observe; the order in which
  connections are served, and how much of a frame is written, is left open.
* The Ruby side cannot be interrupted between the steps of one tick other than
  by peers; the Go side can be between any two accesses to shared state. Steps
  of `Refresh` that touch nothing another goroutine can see are merged (reading
  the descriptors and copying the entries under `refreshMu`; dialling, the
  handshake and the first probe of a client nobody else has).
* LayOut: one document and the one sheet it is exported to, which is where
  operations disturb each other; with several documents they are disjoint. An
  entity is the operation id and the model identity of the operation that added
  it, which is what `tag_layout_entity` writes into the file. `Absent` stands for
  no document, and is assumed not to be one.
* `LiveRun` has a light model of the active document: of each item of the
  fixture it holds nothing, exactly the item, or something else under its name.
  The tracker is `ModelState`'s (its operators, by `INSTANCE`). A user edit may
  leave any such content, and a creation over nothing leaves exactly the item or
  something else under its name (`Created`): the client does not look at what a
  creation made before it lists again. Identities do not come back here: a run
  compares guid and revision and nothing else, and a document that is left,
  changed and returned to at the very revision passes for undisturbed. A call of
  the client is one step, since the main thread of SketchUp executes it alone;
  failures, timeouts and unmet checks are all `Fail`, which may happen after the
  call had its effect (`Create` followed by `Fail`).
* `ToolInputs` does not look inside a text. What the two languages tell apart
  is a parameter: how a text trims (`Blanks`; `WideBlanks`, which only Go's
  `TrimSpace` removes; `NulBlanks`, which only Ruby's `strip` removes), its
  length in bytes, whether it is an absolute path, its extension. Numbers are
  integers and one value that is not finite. Field names are kept, since a
  payload field under another name is a plausible error.
* An export of a document with several pages writes an image per page under
  names LayOut chooses (`PageFile`), and `resolve_layout_export` looks for them
  with a pattern (`Globbed`), which may match other files.
* `DrawingRun` assumes that one SketchUp process serves all runs of a directory
  and executes one call at a time in the order it reads them (the connections
  of a dead run are read before what comes later), that the user removes files
  only between runs, and that panel ids have no surrounding blanks. Which panel
  an item comes to lie in, and whether a dimension finds its points, is
  LayOut's doing and left open; panel validation is what finds out. The report
  is one of the files of the directory (`disk.report`).
* `ToolCalls` gives every written file a later modification time than those
  before it, and `Globbed` is a set of files that contains the wanted ones.
  What `ImageIsNoOlder` says rests on both: with equal times, or a path whose
  own characters are read as a pattern, `resolve_layout_export` may choose
  otherwise.
* A session id is used by one lifetime of an extension only (`runtime.rb`
  draws it at every start), so `SameConnection` is true of an entry's
  descriptor and a published one with its id.

## 3. Runs

| Run | Checks | Instance and why it is enough |
| --- | --- | --- |
| `engine` | `EngineTypeOK`, `AtMostOnce`, `OneWriterPerRevision`, `NoLostUpdate`, `SuccessWasApplied`, `SnapshotsNameContents`, `ResultsStick`; `KeepsPromise`: the engine implements `OnceOnly` | two ids and two identities: one to leave by a save or a switch, one to arrive at; three lives, so that a document is left and returned to; a write reported by up to two transactions; contents up to stamp 3 and revisions up to 4, the fewest in which a reused, a stale and a replayed request meet with undo and redo between (2,053,574 distinct states) |
| `engine_failed_result` | finding: `FailureChangedNothing` | |
| `bridge_any_frames` | `TypeOK`, `EveryRequestAnsweredOnce`, `SlotsAreInFlight`, `WithinLimits` | one peer, five frames of every kind under three ids; two outstanding requests over a queue of one, so that duplicates, excess and a full queue occur; a write queue of two; the idle timeout. The handshake and write timeouts are the next run's |
| `bridge_liveness` | `RunsAreAnswered`, `WithinLimits`, `SlotsAreFreed`, `HandshakesEnd`, `BacklogIsServed` | two peers for one place, with all three timeouts, each of which may stop reading or sending anywhere; the slots of a connection and the queue are one. Only the first sends frames, three of them: with two peers that ask, the state space is out of reach, and that an answer does not reach another connection's request of the same id is left to `RunsAreAsked` and `RequestsAnsweredOnce` (section 5) |
| `sessions` | `TypeOK`, `CallsAreTruthful`, `LooksAtFreshEntries`, `CallsKeepTheirEntry`, `OpenClientsAreOwned`, `ServedTogether` | two calls, one steady session, one that appears, stalls, breaks and dies; contexts may end; the registry may be closed; four clients are all that two refreshes of two sessions can dial |
| `sessions_liveness` | `CallsReturn` | two calls over a session about which nothing is assumed, so that a call and a refresh wait for each other's locks; a third caller behind a waiting writer is not in the instance |
| `sessions_cancelled` | finding: `ServedAlone` | |
| `layout_documents` | `LayoutTypeOK`, `AcknowledgedStay`, `EntitiesAreUnique`, `SheetsAreComplete`; `FilesHoldTheirRevision` and the inductive `EngineInv` with `Pumps` | two ids, two identities, operations nested two deep (an operation within another on the same document), one transaction of the user before the revision bound, contents up to stamp 3, two lives (1,476,753 distinct states) |
| `layout_stale_answer` | finding: `StaleAddedNothing` | |
| `live_run` | `PassedUndisturbed`, `CopyIsPrepared`, `RepeatCreatesNothing`, `CreatesOnlyWhatIsMissing` | a section plane and two scenes (so that references to sections go stale between two scenes); two identities; revisions up to 4: the three creations and one step of the user; a creation may take two transactions, and may leave something else than was asked for; two drawing operations (131,337 distinct states) |
| `tool_calls` | `AcceptedIsWellFormed`, `RefusalsLeaveTheId`, `ImageIsNoOlder` | one caller that sends every tool with a good input and with each field of it changed alone, to values on either side of the checks made of it; two others that export under shared operation ids and paths, to a document of one page and to one of several |
| `drawing_run` | `DimensionsFindViewports`, `PassesOnItsOwn`, `PassesSound` | three runs, one that works, one that is beside it or before it and one that left calls behind; a template of two pages, of a kind, with a panel of the same name on both; four fixtures that load, among them one whose panel spans two pages and one whose slot the template lacks, and six that each break another rule of a fixture (2,497,179 distinct states) |

Every property of a passing run is also checked to fail under a plausible bug
in the code (the definitions marked "Mutant" beside the ones they replace).

The bounds `MaxSent` (frames each peer sends), `MaxClock`, `MaxRevision`,
`MaxLives`, `MaxNest` and `MaxDrawn` only end behaviours; `MaxStep` and the capacities of
`BridgeServer` are parameters of the system at small values. `ToolCalls` and
`DrawingRun` need no bounds: callers ask once and runs end.

`EngineInv` is checked as well as proved: TLC is where it was found. So were
`BridgeInv`, `DrawingInv`, `RegistryInv` with `SteadyInv`, and `RunInv`, on the
instances of `bridge_any_frames`, `drawing_run`, `sessions` and `live_run`,
before they were proved.

`AcknowledgedStay` speaks of operations that were not nested in another. An
operation that ran within another on the same document is lost when the outer
one saves what it had opened before; whether LayOut lets that happen depends on
whether it pumps events.

`ResultsStick` is not claimed with `Pumps`. A file operation that began in
one life and ends after another request has moved the table to the next one
writes its record into the new table and can replace the result of an operation
that reused its id there (`record_terminal` does not look at the identity).
`AtMostOnce` survives this, and nothing else can replace a result: that is what
`ResultsStickWithinLife` proves (section 5).

The properties of the engine are promised for one life of an identity, and
identities come back in the runs. A document that is opened or activated again
begins a new life: `track` restarts its revision at 0, under the guid it had
before, and `sync_cache_epoch` forgets the records when another identity was met
in between (ADR 0001: a change of the active model "clears mutation-idempotency
state associated with the previous model"). Nothing in a request says which life
it was computed in. So the following is possible in the code, is behaviour of
the model too, and is excluded by no property: a snapshot of a former life is
accepted in the present one once the revision has come to its number, on another
content; an operation id of a former life is executed again, or, if no request
came in between that cleared the table, is answered from the record of the
former life; a file operation that is still running when the document is left
and returned to may find its revision again and report success
(`FilesHoldTheirRevision` is about operations that end in the life they began
in). ADR 0001 section 8 has the revision "reset to `0` when `model_guid`
changes" and calls it "monotonically increasing" for a session and a
`model_guid`; the two agree only within a life.

`AcceptedIsWellFormed` names the inputs on which the two validators part
(`Gap`): a text of NUL characters is blank to Ruby alone and a text of other
Unicode space to Go alone; a path whose last element is only an extension has
none for Ruby's `File.extname`; two points nearer than SketchUp's tolerance are
one point to it. Most of them are refused before the operation is recorded. For
`layout.viewport.add` and `layout.text.add` the check runs in the body, after
`mark_running`, so such an input costs its operation id.

### Fairness

Nothing is assumed of users, callers or peers.

* `BridgeServer`: a tick that has begun ends (weak fairness of `TickStep`: the
  main thread runs it to its end); each repeating UI timer fires again and
  again although the other competes for the thread (strong fairness of
  `StartPoll` and `StartDrain`: a timer that is due is not passed over for
  ever); clocks advance (weak fairness of `Lapse` for the handshake and write
  timeouts, which are measured against a monotonic clock). The idle timeout is
  not needed and not assumed.
* `Sessions`: weak fairness of each goroutine's next step, which includes the
  deadline that ends a read; a steady bridge answers what it was asked.
  Every call is made once, so no lock can be fought over for ever and weak
  fairness is enough; `sync.Mutex` and `sync.RWMutex` do not starve waiters.

## 4. Findings

* A failure that changed the model (`engine_failed_result`). The result is
  built after the commit; an exception there is recorded as a failure, and
  replayed as one, while the change stays.
* A refusal that changed the file (`layout_stale_answer`).
  `perform_layout_file_operation` checks that the model has not moved after the
  body has saved the document, and answers `STALE_REVISION` with the entity in
  the file. `docs/demo.md` tells callers to retry after `STALE_REVISION` with a
  new operation id, which adds the same entity again. (A retry under the old id
  is answered from the record: `EntitiesAreUnique` holds.)
* A caller that gives up disturbs another (`sessions_cancelled`). A refresh
  whose context ends in the middle of a probe closes the shared client, cannot
  dial another, and installs a map without the session. A second caller whose
  own refresh had found the session is then told that there is none.

## 5. Proofs

For every set of identities and ids and every bound:

| Module | Theorems | Assumes |
| --- | --- | --- |
| `ModelStateProofs` | `ModelTypeCorrect` | - |
| | `SnapshotsIdentifyContents`, `RevisionNeverFalls` | - |
| `MutationEngineProofs` | `TypeCorrect` | - |
| | `EngineInvariant`, `OperationsApplyAtMostOnce`, `RevisionIsCompareAndSet`, `WritesApplyToWhatWasSeen` | - |
| | `SuccessesAreTrue` | - |
| | `RecordedResultsStick` | `~Pumps` |
| | `ResultsStickWithinLife`, `FilesAreOfTheirRevision`, `SnapshotsIdentifyContentsOfTheEngine`, `EngineImplementsOnceOnly` | - |
| `LayoutDocumentsProofs` | `LayoutImplementsEngine`, `LayoutTypeCorrect`, `AcknowledgedEntitiesStay`, `ReportedSheetsAreComplete` | - |
| | `EntitiesAreAddedOnce` | - |
| `BridgeServerProofs` | `BridgeTypeCorrect`, `BridgeInvariant`, `LimitsHold`, `SlotsAreTheirRequests`, `RequestsAnsweredOnce`, `RunsAreAsked` | - |
| `SessionsProofs` | `RegistryInvariant`, `RegistryTypeOK`, `CallsTruthful`, `FreshEntriesOnly`, `EntriesKept`, `NoneForgotten`, `SteadySessionsKept`, `SteadySessionsServed` | - |
| `LiveRunProofs` | `RunInvariant`, `PassingRunsAlone`, `CopiesArePrepared`, `RepeatsCreateNothing`, `CreationsAreOfTheMissing` | - |
| `ToolCallsProofs` | `CallsInvariant`, `ValidatorsAgree`, `RefusedIdsAreFree`, `ImagesAreNoOlder` | - |
| `DrawingRunProofs` | `DrawingInvariant`, `DimensionsFound`, `PassingRunsOwnTheirSheet`, `PassingSheetsAreSound` | - |

Those of the engine hold for both values of `Pumps` and any depth of nesting,
but for `RecordedResultsStick`, and for identities that come back any number of
times: they speak of lives, as the properties do (section 3). The named
assumptions on the constants (`ModelAssumption` and the like) are in the modules
that declare them, and TLC evaluates them in the runs.

None of the engine's properties is inductive: they speak of what was seen and applied,
and a step is judged by what the tracker says now. The inductive invariant
`EngineInv` connects the two. Of the present life
(`life`): if the tracker has not met it, nothing was seen or executed in
it (`UntrackedIsNew`); what was seen lies at or below the tracked revision, and
at that very revision it is the present content (`SeenMatchesDocument`);
executed writes lie strictly below (`WritesArePast`); everything executed, and
everything being executed, is in the record table, and what is being executed
and has not written its file has not been executed before
(`ExecutedIsRecorded`). That is why a request that passes the revision check
executes on what its caller saw, and one that passes the record check was never
executed. Of a life that has just begun nothing is known, since everything known
is of a life up to the present one (`OfPastLives`). That is enough because what
begins a life also detaches or restarts the tracker: a rotated identity is one
it has not met, and a switch sets the revision to 0. The proof of each step
has a lemma: transactions of the user (`TransactionInv`), new lives
(`NewLifeInv`), requests that execute nothing, apply, begin, write and end
(`NothingAppliedInv`, `ApplyInv`, `BeginFileInv`, `WriteFileInv`, `EndFileInv`).

What the engine reports needs more. A success is true because a frame that has
written, and a record that is completed, each have their execution
(`WrittenIsApplied`). A result stays because a request is recorded only where
the epoch's table has nothing, and the end of a file operation finds its own
record still running: trivially when nothing runs beside it (`RunningAlone`),
and with nesting because the operations that began in the present life are
uppermost on the stack, each with its record in the table and running, so that
one of a former life ends after all of them (`RunningOfLife`). That one writes
into a table that need not be its own any more, the only way a result can be
replaced. A file is of its revision because of `FileInv`: a file written in the
present life lies at or below the tracked revision, and at that very revision it
has the present content (`Matches`); the revision an executing operation was
admitted at is not above the tracked one either (`Behind`). So whoever is shown
the model at a file's revision is shown what the file holds, whatever ran while
it was written.

`EngineImplementsOnceOnly` is a step simulation under the mapping of
`KeepsPromise`: the abstract version is the life and what a snapshot taken now would say
(`Capture`), so the rotation of an identity that the tracker has not noticed is
already the abstract move; `done` is what was applied. A step of the user
advances the version or leaves it, an application is `Do`, and admission,
records, replays and nesting stutter. `EngineInv` is what makes `Do` possible:
the version is the one the operation names, and its id was not done before.

The LayOut operations implement the engine by construction, and
`LayoutImplementsEngine` says so: each of their steps is a step of the engine
or leaves its variables alone, so all its theorems hold of them. On that
`EntityInv` rests: no document, on disk or opened, holds an entity twice, and
each entity it holds is of an operation that executed. The entity about to be
added is of one that has not (`EngineInv`), so it is not there yet.
`KeepInv` is the argument for acknowledged entities: the document keeps them,
and so does every opened document if it is saved (`Carries`). Only the end of
the outermost operation adds to what is acknowledged, and from its own save on
everything opened inside it carries its entity as well. None of this depends on
identities, lives or revisions.

The bridge keeps accounts (`BridgeServerProofs`). Of each connection and id,
the request frames that have arrived are those still unread, those queued and
those answered; the answers that release the id and the queued work for it are
together one if its slot is reserved and none otherwise; and what ran was
queued and is answered. `BridgeInv` says so, with the limits and with what
holds of a connection that is not open (`NothingHeld`). All of it is about
numbers of elements of sequences, so the proof first counts (`CountType`,
`CountEmpty`, `CountOne` and what concatenation, tails and filters do to a
count), then says what each operation on a connection returns, and then shows
connection by connection (`Settled`) that each action posts every amount twice:
a frame that leaves the buffer enters the queue or the write queue, work that
leaves the queue enters the write queue or, of a closed connection, is nobody's.
Only `Stop` changes more than one connection, and leaves each of them closed.

The registry needs an invariant of everything two goroutines share
(`RegistryInv`). One goroutine refreshes, and it is the one that holds
`refreshMu`; until it installs its result the entries are those it began with
(`InstallsItsResult`), since nobody else replaces them. What it has found
answered after everybody who is past the lock had begun (`FoundForAll`): whoever
comes later waits for the lock and refreshes again. That is why a caller may use
entries that another one's refresh has installed since its own. A client's mutex is held exactly
by the request that waits on it (`HeldWhileWaiting`), each answer on a
connection was executed there by the bridge at its other end
(`AnswersWereExecuted`), and each open client is an entry, is among what the
refresh has in hand, or was counted as given up (`OwnershipInv`).

That healthy sessions are served is a second induction (`SteadyInv`), conditional
on nobody having given up. It cannot be read off the first: that a probe of a
steady session succeeds needs that nothing but one request, or its answer, is on
the connection (`InExchange`), which holds because no earlier request was
abandoned; and that a call finds its session needs that no refresh has dropped
it (`IsFound`), which holds because no probe failed. The proof uses them in
turn. `ServedAlone`, the same promise when another caller gives up, is the
finding `sessions_cancelled`.

The live client is always in one of two situations (`RunInv`): nobody else has
acted since it read the revision, and the tracker is where the run believes,
one ahead while its own creation is unconfirmed; or somebody has, and the
tracker is at another identity or strictly above, and stays there
(`Undisturbed`, `Overtaken`). Every call compares guid and revision with the
run's, so in the second situation none succeeds, and in the first everything
the run has listed, created and found stays true (`ListIsTrue`, `PreparedInv`).
The proof shows which guards matter. What a creation made is known only from a
later list: the sections are looked at again before the scenes
(`RefreshSectionRefs`), and everything in the repeated pass, which has to find
each item as it should be. From then on the comparisons of revisions keep it so.
Neither the counts of the repeated pass (nothing created, everything reused) nor
the last look at sections and scenes is needed: they are a second line of
defence. That the repeated pass starts no creation (`RepeatCreatesNothing`) uses
that SketchUp keeps the name it is given.

`ToolCallsProofs` has one lemma per operation: an input of its type that
`Validate` accepts gives a payload that passes `Form`, `Checks` and `Body`,
unless `Gap` names it. On these rests the invariant that what is on its way is
well-formed (`CallsInv`), that what is recorded was served and not refused
(`RecordsInv`), and that a file that a record names is gone or as new as the
record (`FilesInv`): files are only ever replaced by newer ones.

`DrawingRunProofs` shows that from the creation of its document to its end a run
is alone. The names of its files are taken, so no other run gets past creating
its own; and no call of a dead run is left that could touch them, because the
call that created the document waited for all of them, and a run that has ended
since had not got that far (`FilesAreOwned`, `LateCallsAreOfNoRun`). What the
run knows of its document then stays true: the sheet holds the first so many
items of its fixture and nothing else (`SheetIsDrawn`), which a passing run
turns into the whole. A panel that passed validation is on one page only, so
everything in it was looked at. When it has passed, its report joins what is
kept (`ReportInv`): while the report and the copy are there, no run can create
the document or the exports anew, since creating a copy comes first and does
not replace one, and no late call is left that could.

Every safety property that a passing run checks, invariant or action property,
is stated by a theorem. Only model-checked are the liveness properties
(`SlotsAreFreed`, `HandshakesEnd`, `BacklogIsServed`, `CallsReturn`), which rest
on fairness and with it on `ENABLED`, out of the prover's reach.

## 6. Not modelled

* What an operation builds. `mutation_engine.rb` and `presentation_engine.rb`
  resolve references and check ancestors, materials, names and assemblies, and
  then hand the rest to SketchUp's API. The models have the checks of the
  payload (`ToolInputs`) and one abstract verdict and content for the rest
  (`Refuse`, `Write`): the tree of entities, its transformations and its
  materials are the library's, and no text of the repository says more of them
  than its tests do on fakes.
* Starting. `runtime.rb` builds its parts in one call on the main thread, and
  `bridge/discovery.rb` writes one descriptor under a temporary name and
  renames it. The readers of descriptors are modelled against sessions that
  appear, vanish, stall or are dead (`Sessions`), which is what any sequence of
  starts, crashes and leftovers can look like to them; the writers are not.
* Framing. A frame is of a kind and arrives whole or not at all, except that a
  written one may leave in parts. `decode_payload` and `readFrame` on bytes,
  lengths and JSON are sequential functions with tests of their boundaries. A
  read error in the middle of a frame on the Go side is a lost answer.
* The JSON schemas and annotations given to the MCP library, the description of
  entities that queries return, and the mapping of error codes to texts.
* Geometry: scale, fit and bounds of viewports, coordinates of dimensions and
  annotations, in LayOut's floating-point numbers.
* Of the live client: the counters of the report, the bytes of exported files,
  and the probe that asks Windows whether the process responds (`Pass` or
  `Fail`).
* Packaging, build scripts and CI.

`PROJECT.json` maps the definitions that translate code. What is not in the map
is the environment (users, peers, runs that are killed, calls that are late), the
shapes of records (`XFields`, `Processes`, `Directories`), and operators that only
dispatch to mapped ones (`Checks`, `Prepared`, `Body`) or complete a set whose
siblings are mapped; their comments or the headings of their sections name the
source.

What could come next: an abstract specification of the bridge as its clients see
it (a request is answered once, or its connection closes), implemented by
`BridgeServer`; a composition of `ToolCalls` with `MutationEngine`, so that the
caller's retry policy is checked against identities too.
