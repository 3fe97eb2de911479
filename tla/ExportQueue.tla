---------------------------- MODULE ExportQueue ----------------------------
(***************************************************************************)
(* AsyncExportFilter (exporter.py): the bounded queue between the request  *)
(* path and the network.                                                   *)
(*                                                                         *)
(* Three threads share it.  The event loop calls process() once for each   *)
(* finished request; process() has no await, so the loop is inside at most *)
(* one call.  The worker thread runs _run().  A helper thread runs close() *)
(* (the middleware calls it through asyncio.to_thread), while the event    *)
(* loop keeps running.  An action is the code between two accesses to      *)
(* state another thread touches: the stopping flag, the queue, the         *)
(* worker's liveness.                                                      *)
(*                                                                         *)
(* Events are numbered by the order of the process() calls.  What the sink *)
(* does with one is left open: it returns or it raises.  task_done() feeds *)
(* a counter nobody reads, and is left out.                                *)
(***************************************************************************)
EXTENDS Naturals, Sequences

CONSTANTS Capacity,   \* maxsize of the queue
          MaxEvents   \* bound on the calls of process()

\* __init__ refuses a capacity below 1.
ASSUME CapacityAssumption == Capacity \in Nat \ {0}
ASSUME MaxEventsAssumption == MaxEvents \in Nat

VARIABLES
  stopping,   \* the threading.Event
  queue,      \* the queue.Queue, oldest first
  dropped,    \* self.dropped
  failed,     \* self.failed
  ppc,        \* the event loop: "idle", or "put" once past the stopping check
  wpc,        \* the worker: "stop?", "empty?", "get", "sink", "exited"
  working,    \* the event the worker holds, 0 when none
  cpc,        \* close(): "open", "joining", "ended" (returned True), "alive"
  offered,    \* history: calls of process() so far
  handled,    \* history: events the sink was called with, in order
  racing,     \* history: the event that was between check and put when
              \* stopping was set, 0 when none
  up          \* the process has not ended

loopVars   == <<ppc, offered, dropped>>
workerVars == <<wpc, working, handled, failed>>
closeVars  == <<cpc, stopping, racing>>
vars == <<stopping, queue, dropped, failed, ppc, wpc, working, cpc,
          offered, handled, racing, up>>

TypeOK ==
  /\ stopping \in BOOLEAN
  /\ queue \in Seq(1..MaxEvents) /\ Len(queue) <= Capacity
  /\ dropped \in 0..MaxEvents
  /\ failed \in 0..MaxEvents
  /\ ppc \in {"idle", "put"}
  /\ wpc \in {"stop?", "empty?", "get", "sink", "exited"}
  /\ working \in 0..MaxEvents
  /\ cpc \in {"open", "joining", "ended", "alive"}
  /\ offered \in 0..MaxEvents
  /\ handled \in Seq(1..MaxEvents)
  /\ racing \in 0..MaxEvents
  /\ up \in BOOLEAN

-----------------------------------------------------------------------------
(* Faulty variants of the definitions below, one plausible slip each. *)
OffByOneFull   == Len(queue) > Capacity
Uncounted(n)   == n
Push(q, e)     == <<e>> \o q
LeaveAtOnce    == TRUE
NeverLeave     == FALSE
AssumeEnded    == TRUE
BlockWhileFull == FALSE
-----------------------------------------------------------------------------
Init ==
  /\ stopping = FALSE
  /\ queue = <<>>
  /\ dropped = 0
  /\ failed = 0
  /\ ppc = "idle"
  /\ wpc = "stop?"
  /\ working = 0
  /\ cpc = "open"
  /\ offered = 0
  /\ handled = <<>>
  /\ racing = 0
  /\ up = TRUE

\* queue.Full, as put_nowait decides it under the queue's lock.
Full == Len(queue) >= Capacity

\* self.dropped += 1, by the event loop only.
Counted(n) == n + 1

\* A queue.Queue hands out the oldest event first.
Enqueue(q, e) == Append(q, e)

\* process(): the filter is stopping, the event is dropped and counted.
Reject ==
  /\ up
  /\ ppc = "idle" /\ offered < MaxEvents
  /\ stopping
  /\ offered' = offered + 1
  /\ dropped' = Counted(dropped)
  /\ UNCHANGED <<ppc, queue, workerVars, closeVars, up>>

\* process(): past the check, the event is being copied.
Check ==
  /\ up
  /\ ppc = "idle" /\ offered < MaxEvents
  /\ ~stopping
  /\ offered' = offered + 1
  /\ ppc' = "put"
  /\ UNCHANGED <<dropped, queue, workerVars, closeVars, up>>

\* process(): put_nowait finds room, whatever stopping has become.
Put ==
  /\ up
  /\ ppc = "put" /\ ~Full
  /\ queue' = Enqueue(queue, offered)
  /\ ppc' = "idle"
  /\ UNCHANGED <<offered, dropped, workerVars, closeVars, up>>

\* process(): put_nowait raises queue.Full.
PutFull ==
  /\ up
  /\ ppc = "put" /\ Full
  /\ dropped' = Counted(dropped)
  /\ ppc' = "idle"
  /\ UNCHANGED <<offered, queue, workerVars, closeVars, up>>
-----------------------------------------------------------------------------
\* _run(): first half of the loop condition.
ReadStopping ==
  /\ up
  /\ wpc = "stop?"
  /\ wpc' = IF stopping THEN "empty?" ELSE "get"
  /\ UNCHANGED <<working, handled, failed, loopVars, queue, closeVars, up>>

\* _run(): second half, and the thread ends when both fail.
Drained == queue = <<>>

ReadEmpty ==
  /\ up
  /\ wpc = "empty?"
  /\ wpc' = IF Drained THEN "exited" ELSE "get"
  /\ UNCHANGED <<working, handled, failed, loopVars, queue, closeVars, up>>

\* _run(): queue.get(timeout=0.1) returns the oldest event.
Get ==
  /\ up
  /\ wpc = "get" /\ queue # <<>>
  /\ working' = Head(queue)
  /\ queue' = Tail(queue)
  /\ wpc' = "sink"
  /\ UNCHANGED <<handled, failed, loopVars, closeVars, up>>

\* _run(): queue.get times out, which it does only on an empty queue.
GetEmpty ==
  /\ up
  /\ wpc = "get" /\ queue = <<>>
  /\ wpc' = "stop?"
  /\ UNCHANGED <<working, handled, failed, loopVars, queue, closeVars, up>>

\* _run(): the sink returns (raised = 0) or raises (raised = 1).
Sink(raised) ==
  /\ up
  /\ wpc = "sink"
  /\ failed' = failed + raised
  /\ handled' = Append(handled, working)
  /\ working' = 0
  /\ wpc' = "stop?"
  /\ UNCHANGED <<loopVars, queue, closeVars, up>>
-----------------------------------------------------------------------------
\* close(): stopping is set.
BeginClose ==
  /\ up
  /\ cpc = "open"
  /\ stopping' = TRUE
  /\ racing' = IF ppc = "put" THEN offered ELSE 0
  /\ cpc' = "joining"
  /\ UNCHANGED <<queue, loopVars, workerVars, up>>

\* close(): join() returns because the worker ended, or after its timeout;
\* the result is whether the worker is still alive afterwards.
WorkerEnded == wpc = "exited"

EndClose ==
  /\ up
  /\ cpc = "joining"
  /\ cpc' = IF WorkerEnded THEN "ended" ELSE "alive"
  /\ UNCHANGED <<stopping, racing, queue, loopVars, workerVars, up>>

\* The process ends, orderly or not; the daemon thread ends with it.
Exit ==
  /\ up
  /\ up' = FALSE
  /\ UNCHANGED <<queue, loopVars, workerVars, closeVars>>
-----------------------------------------------------------------------------
EventLoop == Reject \/ Check \/ Put \/ PutFull
Worker == ReadStopping \/ ReadEmpty \/ Get \/ GetEmpty
            \/ \E raised \in {0, 1} : Sink(raised)
Closer == BeginClose \/ EndClose

Next == EventLoop \/ Worker \/ Closer \/ Exit

Spec == Init /\ [][Next]_vars

\* The event loop finishes the call it is in: process() does not block.
FairLoop == WF_vars(Put \/ PutFull)

\* The worker thread is scheduled, and the sink returns: it posts with a
\* timeout of two seconds.  join() has a timeout of its own.
FairWorker == WF_vars(Worker) /\ WF_vars(EndClose)

FairSpec == Spec /\ FairLoop /\ FairWorker
-----------------------------------------------------------------------------
One(b) == IF b THEN 1 ELSE 0

(* Every call of process() is accounted for: its event was counted as      *)
(* dropped, is on its way to the sink, or was given to the sink.           *)
Conservation ==
  offered = dropped + One(ppc = "put") + Len(queue) + One(wpc = "sink")
              + Len(handled)

Increasing(s) == \A i, j \in 1..Len(s) : i < j => s[i] < s[j]

(* The sink sees events in the order of the requests' ends and none twice: *)
(* handled, then the one in hand, then the queued ones, then the one being *)
(* copied are increasing.                                                  *)
InOrder ==
  /\ Increasing(handled)
  /\ Increasing(queue)
  /\ \A i \in 1..Len(handled) :
       /\ \A j \in 1..Len(queue) : handled[i] < queue[j]
       /\ wpc = "sink" => handled[i] < working
  /\ wpc = "sink" => \A j \in 1..Len(queue) : working < queue[j]
  /\ ppc = "put" => \A j \in 1..Len(queue) : queue[j] < offered

(* process() checks stopping, copies, then puts, and the worker may leave  *)
(* in between.  Only the one event caught there can be left in the queue   *)
(* of a worker that has ended.                                             *)
StrandedOnlyRacing ==
  wpc = "exited" => \A i \in 1..Len(queue) : i = 1 /\ queue[i] = racing

(* When close() returns True every event was counted as dropped or given   *)
(* to the sink, except the one that raced the close.                       *)
ClosedMeansDrained ==
  cpc = "ended" =>
    \/ offered = dropped + Len(handled)
    \/ racing # 0 /\ offered = dropped + Len(handled) + 1

(* The request path is never held up by the export: inside process() the   *)
(* event loop can always go on by itself, without a step of the worker,    *)
(* even when the queue is full and the sink hangs for ever.                *)
NeverBlocksTheLoop == up /\ ppc = "put" => ENABLED (Put \/ PutFull)

(* An event queued while the worker runs is given to the sink, even when   *)
(* close() is called in the meantime, unless the process ends first.       *)
KeptIsHandled ==
  \A e \in 1..MaxEvents :
    (wpc # "exited" /\ \E i \in 1..Len(queue) : queue[i] = e)
      ~> (~up \/ \E i \in 1..Len(handled) : handled[i] = e)

(* Once stopping is set the worker empties the queue and ends.             *)
WorkerEnds == stopping ~> (wpc = "exited" \/ ~up)
-----------------------------------------------------------------------------
(* The threads implement the promise.  The event in the worker's hand is   *)
(* still pending; what a worker that has ended left behind has vanished;   *)
(* an event is offered when process() returns.                             *)
Hand    == IF wpc = "sink" THEN <<working>> ELSE <<>>
Decided == offered - One(ppc = "put")
Pending == IF wpc = "exited" THEN <<>> ELSE Hand \o queue
Silent  == IF wpc = "exited" THEN Len(queue) ELSE 0
Grace   == One(stopping /\ ppc = "put")

Promise == INSTANCE BoundedExport WITH
  Bound <- Capacity + 1, offered <- Decided, pending <- Pending,
  lost <- dropped, silent <- Silent, open <- ~stopping, grace <- Grace

KeepsThePromise == Promise!Spec
=============================================================================
