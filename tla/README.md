# go-langfuse in TLA+

A specification of the parts of `go-langfuse` whose correctness depends on the order of things: a bounded score queue
with one dispatcher, a stale-while-revalidate prompt cache, the life of a client on an OpenTelemetry provider it may
not own, what starting a span decides, REST operations and experiments, and the adapters that watch a provider's
response go by. TLC checks each module on small instances; TLAPS proves the main results for every value of the
constants.

`PROJECT.json` lists the runs, the mutants that show each property can fail, the source lines each definition stands
for, the hazards the properties are for, and the theorems.

    tlc -workers 2 -config Services.cfg MCServices.tla
    tlapm ServiceProofs.tla

## 1. The system

| component | state it keeps | operations | talks to |
|---|---|---|---|
| client (`client.go`) | `stopped`, `shutdownStarted`, `shutdownDone`, `shutdownResult`; the package's `borrowedProviderRegistry` | `New`, `Shutdown`, `Flush`, `admitObservation` | owns everything below; registers the processor with a provider |
| span processor (`internal/processor`) | `stopped`, `shutdownStarted`, the map of expected exports | `OnStart`, `OnEnd`, `Exports`, `Expect`, `Shutdown`, `ForceFlush` | called by OpenTelemetry on application goroutines; calls the batch processor |
| observation (`observation.go`) | `ended`, attribute sizes and total, metadata keys, explicit keys, error slots; trace claim and decision | `StartObservation`, `Update`, `RecordError`, `End`, trace attributes | an OpenTelemetry span; `Mask`, `Error` and span processors of the application |
| score queue (`internal/transport/scores.go`) | the queue, `accepted`, `completed`, waiters, `wake`, `space`, `started`, `stopped` | `Enqueue`, `Flush`, `Shutdown`; the dispatcher | the ingestion API; diagnostic handlers |
| prompt cache (`prompt_cache.go`) | entries, LRU list, flights, refreshes, counters, `closing` | `get`, `runFlight`, `refresh`, `shutdown` | the prompts API |
| REST gate and client (`rest.go`, `internal/transport/rest.go`) | the admission flag, the wait group, the lifecycle context | `enter`, `leave`, `beginShutdown`, `drain`; GET with retries, POST/PATCH/DELETE without | the public API |
| experiments (`experiments.go`, `experiment_runner.go`) | item roots, results, worker pool | `StartExperimentItem`, `RunExperiment` | observations, scores, datasets |
| context and sampling (`context.go`, `sampler.go`, `baggage.go`, `score.go`) | values in contexts: trace attributes, decisions, claims, baggage | `WithTraceAttributes`, `WithParent`, `WithSampleRate`, score suppression | the sampler, remote processes |
| wiretap (`contrib/*/internal/wiretap`) | a recorder per request body, an attempt per response, an SSE framer | `RoundTrip`, `Read`, `Close`, finalizer | HTTP transports; adapters' parsers |
| adapters (`contrib/openai`, `contrib/googlegenai`) | parser state | parse requests, responses, stream events | the wiretap and observations |
| attributes, exporter, types, prompts, datasets, review | none, or configuration only | serialization, limits, request building | |

Behaviour that is hard, and what makes each part correct:

* **score queue** — producers, flushes, shutdowns, the dispatcher and diagnostic handlers share one mutex, two one-slot
  signals, a lifecycle context and a `done` channel, and signal after unlocking. Correct when every accepted score is
  settled once and in order, no signal is lost, `Flush` is a barrier that later scores do not extend, and `Shutdown`
  drains or aborts but never returns while a score is unaccounted for.
* **prompt cache** — misses share a flight whose callers leave as their contexts end; refreshes finish after their entry
  was evicted or replaced; shutdown closes a gate while calls are between their checks. Correct when the cache never
  goes backward, a caller never sees another caller's cancellation, the counters and the LRU list are exact, and
  shutdown waits for everything it admitted and nothing else.
* **client and processor** — `Shutdown` is called concurrently, from inside span processors, and together with the
  application's `TracerProvider.Shutdown`; starts and ends race both. Correct when one client is attached to a
  borrowed provider at a time, application-root state never leaks, and every `Shutdown` reports the owner's result.
* **observation handle** — `Update` and `RecordError` unlock to run `Mask` and `Error`, which may re-enter the handle.
  Correct when the handle's books match the span, limits hold, an error always gets its marks, and `End` is final.
* **wiretap and adapters** — a read, a close and a runtime finalizer race to end an attempt; request bodies are
  replayed; the framer must not depend on where reads split a stream; parsers keep what fits a byte budget. Correct
  when an attempt ends exactly once with what the application saw, the parser receives each event of at most the cap,
  what is dropped is dropped whole and reported, and the severest of the terminals a stream claims decides.
* **REST** — a write whose response is lost may have been applied; a Mask may shut the client down; a server may
  repeat a cursor. Correct when a write is applied at most once and its outcome is reported unknown rather than
  failed, when a drained gate stays empty, and when every listing ends.
* **experiments** — a worker pool with cancellation; links to a dataset run that fail on either side; late acceptance
  of item roots. Correct when each item runs at most once and has a result, when the result names only what exists,
  and when item roots neither leak nor double.
* **sampling and suppression** — a score is withheld only if no exported span of its trace can hold it; authority
  carried in contexts must not return on a path that lost it.
* **trace attributes and baggage** — a path that imports one message after another must not carry the attribution of an
  earlier one, and the langfuse members of its baggage must be the state of the path.

## 2. Modules

| module | models | checked by |
|---|---|---|
| `ScoreDelivery` | what the score pipeline promises: scores settle one by one in acceptance order, flushes are barriers, closing refuses | `ImplementsDelivery` |
| `ScoreQueue` | `transport.ScoresClient` | `ScoreQueueSafety`, `ScoreQueueShutdown`, `Teardown` |
| `PromptCache` | `promptCache` and one fetch of `PromptsClient` | `PromptCacheSafety`, `Teardown` |
| `ClientLifecycle` | `New`, `Client.Shutdown`, `admitObservation`, the processor, `startObservation`, `acceptItemRoot` | `Starts`, `Teardown` |
| `TraceDecision` | the sampler, `WithSampleRate`, `WithParent`, the decision a span starts with, `suppressScore` | `Starts`, `AuthorityReturns` |
| `Baggage` | `WithTraceAttributes`, `PropagateAttributes` and the baggage that leaves and arrives | `Starts` |
| `ObservationHandle` | one `Observation` shared by goroutines | `Observation` |
| `WriteOnce` | what a REST write promises, counting applications: applied at most once, success and plain failure are true | `ImplementsWriteOnce` |
| `RestOperations` | every public REST method: its checks, its request, what it refuses of the answer | through `RestCall` |
| `RestCall` | one operation after another: masks, the gate, attempts, pages; `Client.Shutdown` as far as the gate goes | `Services` |
| `ExperimentRunner` | `RunExperiment`: workers, item roots, links, tasks, evaluators, the caller | `Services` |
| `WiretapAttempt` | one attempt: `RoundTrip`, `requestRecorder`, `bodyWrapper`, the finalizing function | `Adapters`, `WiretapClosed` |
| `SseFramer` | `sse.go`: the framer, with the lexer of oversized events | `Adapters`, `SseOversized` |
| `ResponsesStream`, `ChatStream`, `GeminiStream` | the parsers of the three response formats | `Adapters`, `ResponsesTruncated` |
| `StreamedOutputs` | what the chat and the Gemini parser promise alike: streamed output whole or not at all | `Adapters` |
| `MCTeardown`, `MCStarts`, `MCServices`, `MCAdapters` | instances, several modules side by side | the runs of the same names |
| `MCScoreQueue`, `MCPromptCache`, `MCObservationHandle` | instances of one module | their runs |
| `ScoreQueueProofs`, `PromptCacheProofs`, `StartProofs` (clients, decisions and baggage), `ObservationProofs`, `ServiceProofs` (REST calls and experiments), `AdapterProofs` (attempts and the three parsers), `FramerProofs` (the framer) | theorems | TLAPS |
| `Loops` | what every turn of a loop preserves holds when it ends: lemmas for `ObservationProofs`, `AdapterProofs` and `FramerProofs` | TLAPS |

`RestCall` extends `RestOperations`: an operation is a record of what distinguishes it, and `RestCall` gives every
record the same steps. `ClientLifecycle` takes the drains of the score queue, the prompt cache and the REST gate as a
step that ends well or not; `ScoreQueue`, `PromptCache` and `RestCall` model what those drains do. `WiretapAttempt`
takes from its response what framer and parser tell apart; `SseFramer` and the parsers model how. The components share
no other state, so there is no larger composition to check: the modules whose names begin with `MC` that hold several
components set them side by side. A variable `part` says which component a behaviour is of; the others stay in their
initial states. Every property of such a run is asked of the part it belongs to, and a liveness property of all of
them at once.

What could come next: the arithmetic of usage normalization with `int64` width, the bisection of oversized exports and
prompt compilation as functions against reference definitions; the JSON control scanner.

## 3. The models and the code

Common conventions. A region under a mutex, an atomic operation, a `select`, a channel send and a call out to foreign
code is one step; what the code does after an unlock is a later step. A context is a permission: a call may see its
context ended at any moment. Time is abstract: a timer, a retry budget or a TTL has or has not run out,
nondeterministically. Payloads are model values or sizes. Definitions named `Mut...` are the mutants; no specification
uses them.

**ScoreQueue.** A member of `Scores` is one `Enqueue` call and its goroutine (`call`), one of `Flushers` a `Flush` call
(`flush`, `target`), one of `Stoppers` a `Shutdown` call (`stop`). `buf` is the queue; `log` is a history variable whose
length is the code's `accepted`. `disp` is the dispatcher's program counter: `DispatchPop`, `DispatchIdle`,
`DispatchWake`, `DispatchSignal`, then `deliver` as check, attempt, retry wait, and `finishOne`. A reply is the status
class and, of a 207, what it says of this event. `reportAsync` takes a slot or drops the diagnostic; a handler may hang.

**PromptCache.** A member of `Callers` makes up to `MaxCalls` calls of `get`, with the cache or without it (`pc`).
`flights` and `refreshes` are the worker goroutines; an entry has an `id`, standing for the pointer the code compares,
and a generation. `server` holds the version of each key that the prompts API would answer with; `newest` is a history
variable. A fetch is two steps, an answer and its commit, so a slow worker commits an old answer.

**ClientLifecycle.** `New` is reserve, fail or register. `Client.Shutdown` is one stage per step (`down`), `caller` its
calls. `Processor.Shutdown` (`proc`) is reached from the client or from the application's `TracerProvider.Shutdown`
(`AppShutdown`, external). A span walks through `Tracer.Start`: the provider's list of processors is read, `OnStart`
checks, asks `admitObservation`, records under `expectationsMu` and marks; `startObservation` then returns, claims or
refuses. Item roots go on to `Exports`, `Expect` and `acceptItemRoot`. Ends interleave with all of it. The prompt and
REST gates, which the code closes between `PublishStopped` and the flush, are those of `PromptCache` and `RestCall`.
`Client.Flush` changes none of this state. Applications are assumed not to end a span from inside `Tracer.Start`, before
`StartObservation` has returned the handle.

**TraceDecision.** A path is a goroutine with its context: the ambient span, this client's decision, a sample rate and
the parent `WithParent` named. `spans` is every span in order of start, of this client or foreign (another tracer's, or
a remote parent). Each start samples as `ShouldSample` does, compares a hash with a rate, and derives the next decision
by `nextTraceDecision` and `overrideDecision`. A span records in `lost` the traces in which its path had lost
authority: history, read by properties alone. Only a client that owns its provider suppresses scores; the module is of
one such client.

**Baggage.** One path goes through several messages. `merge` and `mergeImportedMetadata` keep the local value over the
imported one; `syncBaggage` rebuilds the langfuse members in wire order within the member limit (`TheFirst` names the
members that have few enough before them); a message may carry members of another service, of another trace or none.
The masker is a map between keys. Sizes in bytes are left out: a member counts as one.

**ObservationHandle.** A member of `Calls` is one call on the handle. `Update` is begin (lock, copy the metadata keys),
build (unlocked) and apply (locked again); `RecordError` is begin (reserve a slot), message (unlocked) and record; `End`
is mark and the span's end. An attribute is a key and a size. A loop of the code over attributes or keys is a recursive
function of the turn (`fitObservationAttributeBudget`, `WithinMetadata`, `InOrder`); of a key it is given twice the span
keeps the last value. The version stands for all attributes that trace state also sets.

**WiretapAttempt.** `send[g]` is the request body of generation `g` in the base transport's hands, `rec` the
`requestRecorder`; reading a piece and `observe`, and closing and `markClosed`, are separate steps, so an old
transmission may act late. `actor` holds the application's reader, its closer and the runtime's finalizer; the lock
regions are `process`, `terminalRead` and `closeTelemetry`, and the function they return runs afterwards as `snapshot`
and `finalize`. A response chunk is what sniffer, framer and parser tell apart: an event, half of one, one that is
terminal or too large, a piece of a JSON document. The parser may panic whenever it is fed or told of the end
(`recoverParse`). Left out: how the framer finds events, status codes, clocks, the cancellation watcher (outcomes ask
the context itself) and a second read after an error.

**SseFramer.** A stream is a sequence of bytes; "D" stands for the letters of `data`. A turn of a loop of `feed` or of
`drain` is a step: a piece of a read goes to the buffer (`TakeChunk`), a byte to the lexer (`LexOne`), an event leaves
the buffer (`DrainEvent`), or what is left is kept, discarded or given to the lexer (`DrainRest`). `eventData` and
the lexer's loop are recursive functions of the turn. `handed`, what the parser got of each event, is history. The
reference is a reader with room for the whole stream (`Hears`, `Reading`): an event is one line at least, up to a blank
line. `FramesAreExact` compares the two: without salvage all events within the cap arrive and no others, with it all
events do, `pending` is true exactly within an event, and the buffer is bounded. The finding `SseOversized` is excepted
by name, as `Misread`: from the moment the lexer has, or may have, an event that begins with a blank line.

**ResponsesStream.** An event is its type, the slot of the item it writes (text or refusal by part, arguments,
summary), its text and the class and status of a terminal. Items gather by output index; `charge` counts bytes against
the cap and drops; `moreSevereClass` orders verdicts; `Visible` is what the completion stamp waits for. `Result` is
the switch of the function of that name: an error object without a final output is shown alone, then come the final
output, the unary one and the items accumulated (`renderFallback`, of which `render` shows one kind of each item).
`said`, `claims` and `exceeded` are history; `said` has of every item the texts of its slots and the kinds its events
were of, apart from the item's own state. **ChatStream** has choices with tool calls and finish reasons under one
budget, `[DONE]` and unary bodies. A choice holds a text, a content and a refusal, of which `consumeInto` takes the
first that is not empty; a tool call a name, which a later one replaces, and arguments, which are appended
(`Extended`). **GeminiStream** has candidates whose texts gather by candidate and whose other parts gather in one list.
The loops over choices, tool calls, candidates and parts are recursive functions of the turn; `spoken` and `told` are
history.

**RestCall.** A member of `Callers` makes one call of the method `Assignments` gives it. `at` is where it is: ready
checks, values the Mask has still to see, the gate, attempts with backoff, the answer or failure, and for listings the
loop body. `server` is what the server does with the request at hand, and may do after the caller has gone: the request
is transmitted, applied or refused, and the answer lost. `Statuses` groups HTTP statuses by what
`writeRejectedBeforeCommit` and `retryableStatus` make of them. A Mask may call `Client.Shutdown` (`MaskShutsDown`).
`PagesOf` lets the server claim any page count and any cursor. `applied` and `asked` are history.
`WriteOnce` counts: its one step that applies a write is of a write not yet applied, so that a repeated application is
a step of `RestCall` that `WriteOnce` does not have.

**ExperimentRunner.** `next` is the claim counter; a worker's step ends where an item calls out or reads what others
change. `result` is the slice of item results, `root` the item's root observation with the identity attributes it
carries, `link` what the server holds. The outcomes of the three masked values are computed from their kinds as
`experimentAttributeSets` does. A failed start blanks or ends the root and keeps nothing in the result.

## 4. What is checked

| run | instance | shows |
|---|---|---|
| `ScoreQueueSafety` | 3 scores, 1 flush, 1 shutdown, capacity 2, blocking producers, 2 attempts | accounting, no lost wake-up, no stranded producer, the flush barrier, `sent` means stored |
| `ScoreQueueShutdown` | 2 scores, 1 flush, 2 shutdowns, capacity 2, non-blocking producers, 2 attempts | a drain accounts for everything, only its expiry aborts; the queue implements `ScoreDelivery` |
| `PromptCacheSafety` | 2 keys, 2 callers with 2 calls, 1 entry, 1 refresh, 2 fetches, 2 versions, a shutdown | the cache never goes backward; LRU, flights and counters are exact; no caller sees a foreign cancellation; a drained cache fetches nothing |
| `Teardown` | the cache: 1 key, 2 callers with 2 calls, a shutdown. The client: 2 borrowing clients and an owned one, 2 shutdown calls, the application's shutdown. The queue: 2 blocking producers, capacity 1, a flush, a shutdown. Fairness | one attachment at a time, sound results of every shutdown; every call of the three returns |
| `Starts` | spans: 1 client, an item root, a child, an application span, 1 tracking slot, both shutdowns. Decisions: 4 spans on a path over 2 traces, 2 rates. Attributes: 1 scalar, 3 keys of which the masker moves one and restructures one, 5 messages of which 2 arrive, 3 members, 2 metadata places | root state holds active spans only; one root per path; suppression is sound, authority stays lost below the span that lost it; attribution and members are the path's own |
| `Observation` | 4 calls, 5 inputs, 3 metadata keys for 2 places, budget 7 of which 4 for data, 2 error slots | exact books, explicit wins, the end is final |
| `Adapters` | an attempt: 2 transmissions of 3 pieces with room for 2, 3 reads, room for 1 piece of a unary body, all modes, fairness. The framer: every stream of 4 lines of 7 kinds, taken in any pieces, with a cap of 4 bytes, salvaging or not. The parsers: every sequence of 4 events of their alphabets | one end with the terminal the application saw, the parser gets one transmission and is left alone once its result is taken; payloads are exact, the buffer bounded; accumulated items that are not marked partial are shown whole, choices and candidates are whole or absent, the severest terminal decides, the first output is stamped |
| `Services` | one call of every shape of operation, and two writes at once, with 1 retry, 1 page, 2 cursors and a shutdown, also from a Mask; 2 experiment items (one linked) over 2 workers with an evaluator, a composite and a run evaluator. Fairness | a drained gate stays empty; listings are bounded; REST implements `WriteOnce`; items run once with true results; every call returns |
| `WiretapClosed`, `SseOversized`, `ResponsesTruncated`, `AuthorityReturns` | those of `Adapters` and `Starts`, one part alone | **violated**: see below |

Why the bounds suffice. Every limit is reached: the queue fills with a producer left over, the retry budget runs out,
the cache evicts, both fetch slots are taken while a third fetch is wanted, the tracking map is full when a start
wants in, the metadata places, the data budget and the error slots run out, both captures of an attempt overflow, an
event exceeds the framer's cap in each of its states, each parser goes over its budget with events to come, a member
does not fit the baggage, a listing is told of more pages than there are and of a cursor it has seen. The pairs of
actors the code is about all exist: two shutdowns, two callers on a flight, a client replacing another, an update in
each of its phases when `End` comes (with a third and fourth call to change the account meanwhile), a write against a
gate that closes, two workers when the context ends. A second version and a second key are what it takes to evict an
entry while it is refreshed and fetch it again; a second trace is what it takes to leave a trace and come back. Methods
of the same shape (`MCServices.Shape`) take the same steps, so one of each is enough. What larger instances could add
to what is proved (section 5) is covered by the proofs, which have no bounds. The constants `MaxVersion`, `MaxCalls`,
`MaxShutdowns`, `MaxAppShutdowns`, `MaxTries`, `MaxSends`, `MaxReads`, `MaxEvents`, `MaxSpans`, `MaxTraces`,
`MaxMessages` and `PagesHeld` bound what the environment does; the others are the code's own limits with smaller values.

Runs use symmetry only without temporal properties. `PromptCacheSafety` and `Starts` use a view that merges states
differing in values no later step reads (`MCPromptCache`, `MCStarts` say which); `AuthorityStaysLost` is a property of
steps of the part the view keeps whole. `PromptCacheSafety` explores a shutdown only where every caller is in its
first call (`StopEarly`): a shutdown beside second calls is in `Teardown`. `Adapters` combines a captured request only
with a response that is not inspected (one with a content encoding), and explores inspected responses without it: the
two meet only in `snapshot`, which does not look at how the response was read. The runs switch deadlock checking off:
a finished instance, and a client nobody calls, stop.

Fairness is one weak fairness condition per component, that a step of `Running` is taken while one can be. Calls are
finite in number and in steps, so this is enough: it says that the goroutines of the component, taken together, do not
all stand still. `Running` has the steps of goroutines that run code of this repository and of those whose foreign call
must end, because each has a timeout in the code: the attempt timeouts of the score, prompt and REST clients, and the
exporter's timeout. It leaves out whatever a caller, the application or the network may never do: a call need not begin,
a context need not end, a cooldown need not be over, a diagnostic handler need not return, a server need not take a
request up. The application's own callbacks on a call's path (a Mask, an experiment's task, a loop body over a listing)
are assumed to return. In an attempt, only calls on the body that have begun are fair. `ScoreQueue` has no retries in
`Teardown`, since retries are bounded by `MaxTries` in any case.

The violated runs. Each quotes its line in `PROJECT.json`.

* `WiretapClosed`: the adapter's README reserves `closed_early` for a body closed before the protocol finished.
  `Close` closes the wrapped body first; a read in flight in another goroutine gets that body's error, reaches
  `terminalRead` before `closeTelemetry`, and the attempt is recorded as failed.
* `SseOversized`: the lexer of oversized events takes an empty line at its start for the end of the event, and `drain`
  does not look at how much of the buffer was consumed; of an oversized event behind two blank lines the data buffered
  so far never reaches the parser.
* `ResponsesTruncated`: over the cap, fallback output is said to be dropped entirely. `charge` drops what is kept but
  leaves no mark, and a later delta small enough to fit is kept again: the recorded output is the tail of a stream.
* `AuthorityReturns`: authority a path lost in a trace is said not to be restored by `WithParent`.
  `overrideDecision` compares with the one decision the context holds, so a path that started another trace in between
  gets it back. `AuthorityStaysLost` is what does hold.

Other differences between text and code met while modelling, which no run is about: `reportAsync` drops a diagnostic
when its slots are taken, where `deliver`'s comment has one for every terminal failure (`scores.go`); a `Close` by the
base transport marks a request complete however much of it was read, where `ParseRequest` is said to see the complete
body (`recorder.go`); the framer's slack lets an event of exactly the cap pass only if its delimiter is short
(`sse.go`); `parse.go` drops a refusal or audio beside content, a delta beside a choice's text, all but the last name of
a tool call, and finish reasons past the 128th, without marking the output partial, and its comment on several choices
in one event describes one; the Gemini parser drops parts past the 128th in the same way; the Responses parser leaves
out, without marking the result partial, all but one kind of an item whose events are of several (an
`output_item.added` of a `function_call` beside text, for instance), and content parts of types it does not know; of a
terminal over the event cap the comment at `applyScannedControl` has the output stay with what was accumulated, but
where the scanner salvages an error object, as after an error event of any size, `Result` shows that object alone and
hides what was accumulated (its branches that show both cannot be reached), unmarked when the event is within the cap; a REST write whose context ends while it is still dialing reports an unknown outcome though
nothing was sent.

`AttemptEnds` excludes a parser that panics when it is told of the end: `recoverParse` then leaves the attempt without
an outcome until a later `Close`, or the collector after one, ends it.

## 5. What is proved

`ScoreQueueProofs`, from the assumptions `CapacityAssumption`, `ModeAssumption`, `BoundsAssumption` and
`NoScoreAssumption` on the constants alone: for any number of callers, any capacity, any retry policy. None of the
properties is inductive: that a signal is not lost, for instance, depends on which program counter may see which queue.
The inductive invariant `IInv` joins

* `TypeOK`, and `Control`: which program counters go with `started`, `stopped`, an event in flight and an exited dispatcher;
* `LogOnce`: a score is accepted once, by a call that is past its lock;
* `QueueAccounting`, `NoLostWakeup`, `NoStrandedProducer` as checked, with `DrainOwned`: a stopped queue has a shutdown
  that owns its drain or has finished it;
* `FlushState` and `StopState`: what a flush or a shutdown in each state knows of `completed`, `released` and `canceled`;
* `AbortOnlyOnExpiry` and `SentMeansStored`.

Each part has a lemma that a step preserves it, using the parts before it; a lemma per group of actions says what the
group leaves alone. The theorems `TypeCorrect`, `Accounting`, `WakeNeverLost`, `ProducersNotStranded`,
`FlushIsABarrier`, `ShutdownAccountsForAll`, `AbortsAreExplained` and `SentIsStored` follow from `IInv`.
`Refines` is that `ScoreQueue`'s `Spec` implies `ScoreDelivery`'s under the mapping TLC checks; the step lemmas show
which abstract action each step is, most being stutters.

`PromptCacheProofs` proves `NeverBackward`, `OwnCancellation`, `FlightsCounted`, `DrainHolds` and `BooksBalance` for any
finite sets of keys and callers (`FiniteAssumption`, which a flight's counter of waiters needs) and any number of
flights and refresh slots. The invariant follows each worker from start to commit. A flight owns its key's reservation,
the key is not cached while it flies, and what it fetched is at least as new as anything ever installed: that is why its
commit cannot go backward. A refresh is known to be ahead only while the very entry and generation it started from are
installed, which is what the commit checks. A flight's counter is the number of callers that have not left it, so an
abandoned flight has nobody to hand its cancellation to; a drained cache has no reservation, so nobody can join one. The
books stand on this invariant and a second one, `Recency` and `EveryMark`: the LRU list repeats no key and holds just
those cached, within the limit, and an entry marked as refreshing has one refresh of its own under way; two lemmas say
what moving a key to the front and cutting the tail do to such a list.

`StartProofs` proves of clients `OneAttached`, `ExpectedActive`, `ExpectationsBounded`, `ShutdownIsSound` and
`OneRootAlways` for any number of clients, owning their provider or sharing one, shutdown calls and spans, and any
tracking limit. One half of the invariant ties the reservation to `New` and to the stage of teardown that gives it back:
a client that is attached to a live provider still holds it. The other ties each span to the processor that observed its
start: while that processor has not begun its own shutdown it is attached, and being the only one it is the one the
span's end reaches. That a path of a trace has one root (`OneRootPerPath`, whose ancestors are a recursive function of
the span) needs a third invariant, `OnPath`: a claim travels down the path, so a span below one that marked itself as
the root carries the claim and cannot mark itself again.

`Loops` has what the other modules say of loops. What a loop computes for every input is induction over data; it is
done here with the predicate as a set: `SetInduction` is induction over the naturals for the numbers of a set, from the
well-foundedness of `<`. From it follow `LoopEnds` and `LoopStays`, that a loop whose turns stay in a set ends in it,
and `LoopsAgree`, that two loops whose turns keep a relation side by side end in it.

`ObservationProofs` proves `AccountIsExact`, `ExplicitAlwaysWins` and `TheEndIsFinal` for any calls, inputs and limits.
`FitLoop`, `WithinLoop` and `OrderLoop` are what the three loops of an update preserve: an account that adds up and
stays within its limits (`Books`), keys within the lifetime limit, and a list of keys without repetition.
`MetadataChange` is that changing one metadata key's size changes the total by the difference. The invariant joins
`Books`, `Matches` (sizes and keys are those of the attributes the observation set on the span) and `SlotsHold`:
exceptions recorded and calls on their way to record one are at most the slots reserved.

Of decisions and baggage `StartProofs` proves `SuppressionSound` and `LostAuthorityStaysLost` for any paths, rates,
hashes and number of spans, and `AttributionHolds` and `BaggageMatches` for any attributes, messages, masker and
limits. None is inductive. For decisions the invariant (`PathsBacked`) says that an authoritative decision is backed:
it names an observation that holds authority itself, of the same trace and verdict, and above such an observation there
are only observations like it, up to the trace's root. So a score is withheld only where every span up to the root is
an unsampled observation of this client, and an authoritative decision is never derived from one that is not. For
baggage the invariant (`BaggageHolds`) joins `Attributed`, that every attribute is a local call's or of the last
namespace imported, where the masker put it, and `Synced`, that members written by the client are those its state
makes. The member limit rests on `TheFirstFew`: the members with fewer than `n` before them are at most `n`, because
counting those before maps them one to one into `0..n-1`.

`ServiceProofs` proves, of REST calls, `DrainIsFinal`, `ListingsEnd` and the refinement `WritesAreOnce` for any number
of calls of any operations, any retry limit, pages and finite set of cursors. The invariant, `CallsHold`, ties what the
server does with a write to where its caller is: before the write is sent the server knows nothing of it; a failure
that does not say unknown leaves the server with nothing to apply; a write is never in backoff, so it is sent once and
its count stays below two. For listings it counts
the pages asked for by the turn they are in: the page number, or the number of cursors met, which is where the finite
set of cursors bounds them. `OnlyReadsAreListings` goes through all methods of `RestOperations`.

Of experiments it proves `EveryItemOnce` and `ResultsHold` for any number of items, workers and evaluators
(`SizesAssumption` is what `RunExperiment` checks of them). The invariant, `RunsHold`, follows the claim counter: an
item beyond it is untouched, one within it is finished or is one busy worker's, and the worker's step says how far its
root, link and result have come.

`AdapterProofs` proves of one attempt (`WiretapAttempt`) `AttemptEndsOnce`, `CapturesOneSend`, `FirstTerminalWins` and
`ParserIsQuiet`, for any number of transmissions, reads and pieces and any capture limits. The invariant `IInv` says who
holds the attempt at each point: the claim to its end is taken once, under the lock, and belongs to one actor until the
end is recorded (`Standing`, `Reading`); the recorder has observed pieces of the generation it was last started for, so
an old transmission that acts late changes nothing (`Recording`); what the parser was fed is what the reads delivered
(`Delivery`). Of the Responses parser it proves `FallbackStaysWhole`, `VerdictsAreSevere` and `StampsShow`, for any
sequence of events and any cap. The invariant, `StreamInv`, compares the call with the history of what was sent, item by
item: while the call is not partial every slot and every finished item is as sent, and an item's kind and image are
among the kinds sent (`Accounted`); what `render` shows of such an item is then of a kind that was sent, and all of it
if there was one kind. `StreamInv` also has that a call with an error object is over: its verdict is there, or it is
unary; so no event can be stamped as visible behind an object that stands alone. Each operator on calls is shown to
have the `Effect` that one event may have, so the invariant is proved once and not per event. Of the
chat and Gemini parsers it proves `ChoicesWhole`, `CandidatesWhole` and from them `OutputsWhole`, for any chunks, any
indices in them, any limits and any cap. The call and what was sent go through the same loops side by side: `ChatInv`
and `GeminiInv` put the pair in a relation (`ChatAgrees`, `GeminiAgrees`: equal output, or nothing kept and over for
good; of a chat choice that is crowded, in which an event held several texts or a text and tool calls, it says nothing)
that each turn of the loops over tool calls, choices, parts and candidates keeps.

`FramerProofs` proves `FramesExact`, that `FramesAreExact` always holds, for any streams, any cap, any slack over two
bytes, any bound on field names and any way to cut a stream into reads (`StreamsAssumption`, `FramerBounds`). Whether
an event is framed rightly depends on bytes the framer let go long before, so the invariant (`FramerInv`) says what the
buffer is of the stream: always its last bytes taken (`Kept`), from the beginning of the open event on, or, while an
event is discarded, as far back as a delimiter may reach (`Buffered`). The lemmas are about such windows of a stream: a
blank line ends an event in the buffer exactly where the reader has it end (`EndsWhere`, `NextEventEnds`), `eventData`
of what is before it is the reader's payload (`EventDataIs`), and the lexer has, after any number of bytes, the reader's
state and payload (`LexMatches`, `LexWindow`, `SalvageIs`). `Sound` joins the verdict on each event handed over
(`Judged`) with where the open one is: in the buffer, in the lexer, or dropped. `Misread`, once true, remains
(`MisreadRemains`); it is the only alternative to `Sound`. Each action has a lemma of its own. `SalvageAgrees` is of
the functions alone: of an event of any bytes that does not begin with a blank line the lexer makes what `eventData`
does, as the comment at `oversizedLexer` says.

Only model-checked, and why:

* `EveryCallReturns` and `AttemptEnds`: liveness, which needs fairness and ENABLED.

## 6. What is not modelled

* Serialization, request building and decoding, the JSON control scanner (`scanjson.go`), usage normalization, prompt
  compilation: pure code whose control is small; sizes and verdicts appear as inputs.
* The OTLP exporter: configuration, and the bisection of a batch that is too large, one sequential pure recursion.
* The public prompts API around the cache (`prompt.go`): queries, fallbacks and templates, functions of their arguments.
* Trace tags, which never leave the process, and content capture, a flag read at a start.
* The OpenTelemetry SDK: its provider, batch processor and spans appear as the code uses them.
* Logging, diagnostics' texts, configuration checks, tests, examples and the validation tool.
* Panics in application callbacks, except as calls that fail.
