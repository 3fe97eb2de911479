# Formal models of vllm-observer

vllm-observer watches a vLLM server without changing it: an ASGI middleware
follows every inference request, wrappers around vLLM's engine classes measure
its stages, and the results go to the log, to Prometheus (by remote write) and
to Langfuse. This directory holds TLA+ models of its concurrent core, the TLC
configurations that check them, and proofs checked by TLAPS.

    tlc -workers 2 -config ExportQueue.cfg ExportQueue     # a run
    tlapm ExportQueue_proof.tla                            # its proofs

`PROJECT.json` lists the runs with their modules, the lines each definition
models, the hazards, and for every checked property a plausible bug (an
operator of the module, under "Faulty variants") that the property rejects.

## 1. The system

Two processes are involved. The API process runs one asyncio event loop, on
which the middleware, the adapter and the remote writer's task live, plus the
export worker thread and helper threads of `asyncio.to_thread`. The EngineCore
process runs the scheduler in one thread and the executor in another.

    client -> ObserverMiddleware -> vLLM app -> AsyncLLM.generate (adapter)
                 | event at the end               | output.trace_headers
                 v                                |
      FilterChain: Metrics -> Console -> AsyncExportFilter -> LangfuseSink
                 |                                |
      registry --+--> RemoteWriter -> Prometheus  EngineCore (stages, clock,
                                                  deadline)

| component (`src/vllm_observer`) | state | operations | talks to |
|---|---|---|---|
| middleware.py `__call__` (http) | per request: status, complete, first_body, captured chunks; the in-flight gauge | begin, receive, send, return / raise / cancel | calls the chain in `finally`; sets the context variable the adapter reads |
| core.py `RequestTrace`, `FilterChain` | stages, observations, api_intervals | add, interval, api_interval, finish; process | filled by adapter and stages |
| exporter.py `AsyncExportFilter` | queue, stopping, dropped, failed, worker thread | process (event loop), _run (worker), close (helper thread) | calls the sink |
| exporter.py `_timeline_nodes`, `LangfuseSink` | none between events | build the timeline, check, create spans, post | OTLP endpoint |
| remote_write.py `RemoteWriter`, lifespan branch of the middleware | stop, task, last_timestamp, gauges, failures | start, _run, push, close | /health of the app, Prometheus |
| adapter.py | `active`: running generations by request id | generate, update_from_finished_request, update_from_output | trace of the request |
| stages.py, engine_clock.py (EngineCore) | `_REGISTRY` by request id | add_request, schedule, execute_model, callback, step | header on the final output |
| deadline.py | dropped_total | guard before every schedule() | Scheduler.finish_requests |
| bootstrap.py | import hooks, markers on wrapped functions | install, find_spec, exec_module | all wrappers |
| metrics.py | Prometheus registry | process, render | writer, middleware |

What makes each correct, and where it is hard:

- **Export queue.** Never waits on the event loop; loses only what it counts;
  keeps the order; drains on close. Hard: the check of `stopping`, the put, and
  the worker's two-part loop condition interleave with `close()`.
- **HTTP request.** One report per request, with a status that says whether the
  client got its response. Hard: disconnects polled while streaming, task
  cancellation at any await, late disconnects, failures in `finally`.
- **Remote writer and lifespan.** The offline report is the last; failures are
  counted; close ends; leaving the scope in order closes the exporter too. Hard:
  POSTs applied late or never, clock steps, crash and restart, two calls of
  close, cancellation of either.
- **Timeline.** A partition of the request whatever marks the engine process
  delivers; every span under an existing parent. Hard: boundary and tie cases.
- **Engine stages.** Each batch and each execution counted once; no record of a
  request that finished. Hard: two threads, several batches in flight, aborts
  and expiries, callbacks after the result was taken.
- **Adapter.** Statistics reach the generation they belong to, once, and lie
  inside it. Hard: they arrive in a different task, possibly after the generator
  is gone, with the timestamps of another process; ids may be shared.
- **Bootstrap.** Each function gets its wrappers once and in order. Hard: imports
  nest, fail and are repeated, install() comes at any moment and again, and one
  of the wrappers needs classes of two modules.

## 2. The models

### BoundedExport, ExportQueue, ExportQueue_proof

`BoundedExport` is what the filter promises: an offered event is kept while
there is room, or counted as lost; kept events are handled in order; closing
ends the intake except for one offer already under way, which alone may vanish
uncounted. `ExportQueue` is the code: one action per stretch between two
accesses to shared state. `Reject` / `Check` then `Put` / `PutFull` are
`process()`; `ReadStopping`, `ReadEmpty`, `Get`, `GetEmpty`, `Sink` are
`_run()`; `BeginClose`, `EndClose` are `close()`; `Exit` is the end of the
process at any point. The refinement counts the event in the worker's hand as
pending, so the abstract bound is Capacity + 1, and calls what an ended worker
left in the queue vanished.

| property | says |
|---|---|
| Conservation | every call of process() is dropped and counted, on its way, or handled |
| InOrder | handled, in hand, queued, being copied: strictly increasing |
| StrandedOnlyRacing | only the event caught between check and put by close() can stay in an ended worker's queue |
| ClosedMeansDrained | close() = True means all but that event were dropped or handled |
| NeverBlocksTheLoop | inside process() the event loop can always go on without a step of the worker |
| KeptIsHandled | a queued event is handled unless the process ends |
| WorkerEnds | once stopping is set the worker ends |
| KeepsThePromise | the threads implement `BoundedExport`, liveness included |

Bounds: capacity 2 and five events. The queue can be full, drained and refilled
and every state of both threads can meet `close()`; the proofs remove the bound
on the safety part. Fairness: the event loop finishes a call it has begun
(process() has no await); the worker thread is scheduled and the sink returns,
since it posts with a 2 s timeout and its other work is finite; join has a
timeout. The timeout itself may strike at any time (`EndClose` is always
possible while joining).

### RequestReport, HttpRequest (MCHttpRequest, HttpRequest_proof)

The observed branch of `ObserverMiddleware.__call__`, one task per request.
`Begin`; `Poll` and `Disconnect` are traced_receive; `Start`, `Body` and
`SendEnds` traced_send; `AppReturns`, `AppRaises`, `Cancel` are the ways out,
each with the whole `finally` clause and the filter chain (`Leave`). Captured
content is abstracted to whether `_parse_response` can read it. A filter returns
an event, returns None, or raises.

InflightAndCounted, OkIsServed, ServedIsOk and FilterContract hold with capture
off: two requests, so that the gauge and the counters are shared, and all
outcomes of the default chain of three filters, so that an event can pass a
filter that raised. With capture on EveryRequestReported fails (`http_capture`,
see Findings). Only safety is stated: whether an application ever returns is
not the observer's affair.

`RequestReport` says what is owed to a request, without messages, polling or
chain. It enters; until its last chunk is out it may suffer an error status or
lose its client (`Harm`), in either order and both; the last chunk goes out
(`Answer`); its application returns, raises or is cancelled and it settles with
one verdict, in the step that lowers the gauge and raises one counter. An
application that raised owes "error", a cancelled one "cancelled"; one that
returned owes one of the ills if there were any, else "ok" when the response was
complete and "cancelled" when it was not. KeepsTheReport is that HttpRequest
implements this. The mapping takes the ills from what the client and the server
saw (`Came`: the status class, a disconnect before the last chunk) and not from
`trace.status`, so it is the code's bookkeeping in `trace.status` that is
checked: a status that forgets an earlier disconnect, or heeds a late one, is
no step of RequestReport. Since a request settles only with a verdict,
EveryRequestReported follows with capture off.

### RemoteWriter (RemoteWriter_proof)

The writer's task, the lifespan branch that starts and closes it and then closes
the exporter, and its environment: a network that loses and reorders POSTs, a
receiver that takes the newest sample of a series, a coarse wall clock that may
step back, crash and restart. A lost snapshot is one that is never delivered. A
POST is in flight from `Post` until it is delivered, and the client may give up
(`PostEnds(FALSE)`) while it is still in flight.

The lifespan scope closes the writer on shutdown.complete and again in `finally`
(`ShutdownComplete`, `CloseReturns`, `AppLeaves`, `WriterClosed`), then the
exporter in a helper thread (`Flushed`). Its task may be cancelled at each of
these awaits (`CancelClose`, `CancelFlush`). Awaiting a task that is cancelled
cancels that task too, so a cancelled close() takes the writer's task with it:
no offline report is posted and the exporter is not closed, which ends in
`aborted`. A POST that has begun, be it that report, goes on in its thread.

ViewMovesForward: the receiver never returns to an older snapshot of a process.
OfflineIsLast: the offline report is the last and the only one. DownIsReported:
a scope left in order has ended the task, posted that report and closed the
exporter, and only a cancellation leaves it otherwise. NoSilentLoss: a push is
accepted, counted as a failure, or in progress. CloseEnds: close() ends.
Fairness: only the task and the returns of the close calls; the health check,
the POST and the join of the export worker have timeouts. Nothing is assumed of
the network. Bounds: three pushes leave a first, a later and the final report;
the clock has two values and steps back once, so that a snapshot can be dated by
the clock or by its predecessor; of two processes, one after the other, all
snapshots may be in flight at once.

### Timeline (Timeline_proof)

`_timeline_nodes` and the decisions of `LangfuseSink.__call__` that say which
nodes are sent and whether the export succeeds. The operators follow the code:
the engine dict (last observation of a name wins), clamped boundaries, the loop
over them (`Cut`), placement of API details by their midpoint, nesting under the
submission, the stable sort (`Sorted`). Filters and sort are lists of positions
(`Kept`, `Listed`) and not SelectSeq and SortSeq, because the prover cannot look
into these two; an element of the list is the one with as many positions before
it as its index says, which is what a stable sort is. The initial states are the events:
any generation interval, any ordered engine marks inside it (the adapter checks
that), any waiting interval, an API detail or the nested pair of submission
intervals.

Partition: what lies below the root, and the stages below the generation, lie
end to end. InsideParent: children inside their parents. FailsOnlyOnTies: an
export fails at most where a nested detail has the very interval of its parent.
Times are 0..3, which leaves room for a midpoint rounded down, four different
marks and all ties.

### EngineStages (MCEngineStages, EngineStages_proof)

The EngineCore process: `AddRequest`, `Schedule` (deadline guard first, then the
two loops of observed_schedule), `Execute` / `ExecuteRaises` (timed_execute),
`Run` and `Callback` (executor thread), `Step` (result of the oldest batch, and
_attach_stages), `Abort`. vLLM is external and nondeterministic within what the
wrappers rely on: a chunk of one or more tokens, one decoded token at a time,
results taken in order. `QueueSize` 2 is step_with_batch_queue, 1 is step.

RecordsFollowRequests ties the registry to the requests: live, aborted and
expired ones have a record, finished ones a payload, and a late callback creates
none. ScheduleAccounted and ExecutionAccounted: the payload counts each batch
once and lacks at most the callback of its last batch. ContentionExact: while a
prompt is unfinished and not mistaken for decoding, contention is exactly the
batches that passed it over. Bounds: two requests of one or two chunks and three
batches, so a request can be passed over between two chunks, finish, and have a
callback pending.

### Adapter (MCAdapter, Adapter_proof)

What `install` of adapter.py puts around `AsyncLLM.generate` and around the
statistics of a finished sequence. `Enter` is the first step of the wrapped
generator. `Exhausted`, `Fails` and `Cancelled` are the ways out of its loop,
after which it awaits the close of the inner generator, and `End` is the
inner `finally`: the end is written and the entry popped, whoever holds
it now. `Finish` is the whole handler of a final output: the lookup by request
id (observed_output and observed_update), record_timeline with the calibrated
clock, record_engine_stages. A message may lack its clock, carry one that cannot
be read (record_timeline raises, and the guard skips the stages with it), lack
timestamps or have them out of order. `Report` is the end of an HTTP request,
at any moment, a generator left behind included.

External: vLLM hands over the statistics of every sequence before generate() can
be exhausted, none for a sequence it dropped, and may still finish one after the
call has ended.

| property | says |
|---|---|
| NoStaleEntry | the table holds only calls that run, each under its own id |
| Correlated | a call that met no other with its id is given the statistics of its sequences that finished while it ran, and nobody else's |
| ReportedInFull | a report counts what its generations were given, and has of an exhausted one everything |
| InsideGeneration | every recorded interval lies inside its generation so far |
| IndexesDistinct | the intervals of two sequences never share an index, whatever failed between them |
| EndedIsFrozen | nothing is written to a generation that has ended |

Correlated and the second half of ReportedInFull are restricted to calls whose
id is their own while statistics can come: two calls with one id overwrite each
other's entry, which the run includes and the code does not resolve. Bounds: two
calls of two sequences, so that all statistics can be missing, partial or
complete for either; an id for each or one for both; one HTTP request or none; a
clock of two instants, one pair of timestamps as wide as the run, which is
rejected by a generation that starts late or has just started, and one out of
order.

### Bootstrap (MCBootstrap, Bootstrap_proof)

The import hooks. One thread imports; imports nest, so there is a stack. `Begin`
is find_spec and the start of a module, `Finish` its end and then `_instrument`
(exec_module of the loader), `Fail` an import that fails with those around it,
`Bind` the api server's own import of build_app, `Install` a call of install(),
before, between or during imports, `Direct` the adapter's installation by a
middleware with instrument=True. A function is the sequence of the wrappers
around it; functools.wraps copies markers outwards, which the timing wrapper
under the deadline guard depends on.

InstrumentedOnce: each wrapper at most once and in order. AllHooked: every
target that was loaded through the finder or present at install() has exactly
the wrappers that the switches and the known vLLM contracts ask for, and an
application built through it has one observer. The run has all imports, all
switches, and all contracts known or one or two unknown; it is bounded by the
program itself. Simplifications: targets treated alike are one; a module defines
its classes at its end; install() is not interrupted by an import (it holds no
lock; sitecustomize calls it before any thread exists); no module is reloaded.

## 3. Findings

| run | what it shows |
|---|---|
| http_capture | captured JSON that is no object makes `finally` raise before the gauge, the counters and the chain: the request is not reported, the gauge stays up |
| timeline_parents | a detail clipped to the interval of its parent is sorted before it; the lookup of the parent's context fails and the trace is lost |
| timeline_stages | with two generations in one HTTP request the later one's stages are drawn under the first |
| engine_contention | between the last chunk and the first decode step a request still counts as contended |
| engine_twice | an exception of execute_model makes the wrapper run the batch again |

## 4. Proofs

Every proof module but Timeline_proof has a lemma per action that it preserves
an invariant `IInv`, and theorems that follow. The only assumptions are those named
in the modules, which TLC evaluates in the runs.

**ExportQueue_proof**, for every `Capacity` in Nat \ {0} and every `MaxEvents`
in Nat (`__init__` refuses a capacity below 1): TypeCorrect, Accounted, Ordered,
AtMostOneStranded, CloseDrains establish TypeOK, Conservation, InOrder,
StrandedOnlyRacing, ClosedMeansDrained; Refines is `Spec => Promise!Safety`. The
invariants are not inductive one by one. TypeOK needs Conservation (the counters
stay below MaxEvents because they never exceed `offered`); Conservation needs to
know that an event in hand exists exactly in "sink"; StrandedOnlyRacing needs
what can be under way once stopping is set, namely that a put after the close
can only be that of the event noted in `racing`, and that the worker reaches
"empty?" only after stopping. Appending to and taking from an increasing
sequence are lemmas of their own. `Refines` maps each action: `Put` to Keep,
`Reject` and `PutFull` to Lose, a late `Put` into the queue of an ended worker
to Vanish, `Sink` to Handle, `BeginClose` to Close; the rest stutter.

**Adapter_proof**, for any calls, ids, HTTP requests, sequences, engine
timestamps and clock readings: TypeCorrect, EntriesAreLive (NoStaleEntry),
StatisticsFindTheirCall (Correlated), IntervalsInside (InsideGeneration),
IndexesAreDistinct (IndexesDistinct), EndedStays (EndedIsFrozen),
ReportsAreWhole (EndedAreWhole, the first half of ReportedInFull) and, when the
set of calls is finite, ReportsAreFull (all of ReportedInFull). The
invariant adds what the code relies on without saying it: two calls that are
present under one id have met (`Meeting`), so a call that met none still holds
its entry (`Holding`), and one that was exhausted has had all its statistics
while it ran (`Exhaustion`). The count of a report is a fold over the calls.
The inductions over numbers and over the sizes of sets that it needs are written
out, as a smallest element outside a set of good ones (SetInduction,
SizeInduction); from them follow that the sum exists (SumsExist) and that it
grows by one when one of its terms does (TotalBumped). CalibrationError needs no
invariant: the middle of two readings of the monotonic clock is off by at most
half their distance, and one for the rounding, which is half of the error the
adapter records.

**RemoteWriter_proof**, for all bounds: TypeCorrect, NothingAfterOffline
(OfflineIsLast), OrderlyEnd (DownIsReported), LossesAreCounted (NoSilentLoss),
NoFallingBack (ViewMovesForward). The invariant says that the snapshots of a
process are numbered without gaps and dated in that order (`Numbered`), that
last_timestamp is ahead of all of them (`Dated`: this and not the clock
makes the view move forward), which place of the task goes with which report
(`Places`), and that the accepted snapshot of a POST in progress is not counted
twice (`Losses`).

**HttpRequest_proof**, for any finite set of requests and any chain of filters:
OkMeansServed (OkIsServed) and ServedMeansOk (ServedIsOk), from an invariant
that ties the status of a running request to what it has come through;
ChainKeepsContract (FilterContract); and, assuming CaptureContent = FALSE,
AllReported (EveryRequestReported), GaugeAndCounters (InflightAndCounted),
Implements (KeepsTheReport) and TypeCorrect. Without that assumption
EveryRequestReported and with it InflightAndCounted and KeepsTheReport are false
(http_capture); TypeCorrect takes its bounds from the counts.
`Implements` adds that a status other than ok names something that happened
(`Caused`), and maps `Begin` to Enter, a `Disconnect` before the last chunk and
a bad `Start` to Harm, the last `Body` to Answer and the three ways out to
Settle; polling, good starts, other chunks and late disconnects stutter.
The chain is a recursive function; that it exists, and what it does at each
filter, is shown by taking the first filter at which a claim would fail.

**EngineStages_proof**, for any finite set of requests, any queue size, number
of batches and chunks, measured or not: RecordsAgree
(RecordsFollowRequests), SchedulingIsCounted (ScheduleAccounted),
ExecutionsAreCounted (ExecutionAccounted), ContentionIsExact (ContentionExact)
and TypeCorrect. The invariant orders submission, execution, callback and result (`Executor`),
says that a finished request is in no batch whose result is to come
(`Lifetimes`), and counts batches with cardinalities (`Counted`). The upper
bounds in TypeOK come from these, a counter being the cardinality of a set of
batches, and from `Bounded`: what has no record has an empty one, no batch is
run more than twice, and only aborted requests were dropped.

**Bootstrap_proof**, for any set of known contracts: TypeCorrect, WrappedOnce
(InstrumentedOnce), EverythingHooked (AllHooked). The invariant is stronger than
both: a function has no wrapper or all it is to have (`Layered`), and the engine
module is never loaded without its statistics module (`Together`), so a failing
import cannot take away one half of the adapter.

**Timeline_proof**, for any length of the request: CutIsPartition is about any
event with integer marks, in any order, missing or outside the generation: its
five segments lie end to end and fill the generation. TypeCorrect,
TimelineIsPartition (Partition), NodesInsideParents (InsideParent) and
FailuresAreTies (FailsOnlyOnTies) are about what is exported. The invariant
(`Shaped`) is small, since the nodes are a function of the event; the work is in
that function:
- A list in an order (`Orders`) holds every position once (OrderLists): ranks
  are distinct and lie in 1..n, so each is taken. It gives what a filter
  (KeptFacts) and the stable sort (SortedMembers) leave.
- What a timeline contains is then described by sets, which no sort disturbs:
  the root and `BelowRoot`, with every id but those of the details used once
  (`Single`), each node inside the node that its parent's id names.
- Dropping empty nodes loses no parent: a node that contains one of a positive
  duration has one itself (ParentContains). In the sorted list a parent comes
  before its child unless the two have the same interval (LateParentsTie).
- Consecutive intervals still leave no gap when the empty ones are dropped
  (ConsecutiveTiling), and such a set in sorted order is end to end
  (TilingEndToEnd).

OneGenerationOwnsItsStages assumes `Generations = 1`: then StagesOfTheGeneration
holds, so that the finding of timeline_stages has no other cause than a second
generation.

Every invariant of the passing runs but one is proved. Only model-checked are
NeverBlocksTheLoop, which is about ENABLED, and liveness (KeptIsHandled,
WorkerEnds, CloseEnds, the fairness of `BoundedExport`): the prover treats
neither ENABLED nor fairness.

## 5. Not modelled

- Settings: threshold, sampling rate, unit renaming. Pure functions of one or
  two texts; what can go wrong in them is the reading of texts.
- The 30 s freshness of the heartbeat: needs real durations of the health check,
  the POST and the interval; RemoteWriter has their order only.
- OptionalObserverMiddleware: chooses one of two applications once, no state.
- Histograms and stage sums (metrics.py): sums, no interaction.
- Durations, token counts and execute_intervals of the stages.
- Protobuf and Snappy encoding, OTLP transport, sampling, attributes and payload
  text; header parsing (trace ids): pure functions of one value.
- demo.py, scripts/, bench.py, fetchtpot.py, push_check.py, deploy/: tools,
  examples, configuration.

## 6. Plan

Done, in this order: ExportQueue with its abstract specification and proofs;
HttpRequest; RemoteWriter, later with the exporter and cancellation in the
lifespan branch; Timeline; EngineStages; Adapter with the engine clock;
Bootstrap; the proofs of section 4; RequestReport, implemented by HttpRequest.

1. **Heartbeat**: the writer with durations, for the 30 s freshness window.
2. **Settings** against reference definitions over bounded inputs.
