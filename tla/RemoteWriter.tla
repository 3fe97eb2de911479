---------------------------- MODULE RemoteWriter ----------------------------
(***************************************************************************)
(* RemoteWriter (remote_write.py) under the lifespan branch of             *)
(* ObserverMiddleware.__call__ (middleware.py), with the exporter that     *)
(* branch closes after the writer, and the receiver the writer pushes to.  *)
(*                                                                         *)
(* One asyncio task per process pushes a snapshot, waits, and pushes       *)
(* again; push() runs in a helper thread that the task awaits.  A POST may *)
(* be lost, or may be applied by the receiver long after the client gave   *)
(* up on it, so snapshots are applied in any order.  The wall clock is     *)
(* coarse and may be stepped back.  The process may die at any point and   *)
(* be started again, with last_timestamp at 0.  The server may cancel the  *)
(* task that runs the lifespan scope, at any of its awaits.                *)
(*                                                                         *)
(* The receiver is external: of one series it keeps the newest sample and  *)
(* refuses an older or an equally old one.                                 *)
(***************************************************************************)
EXTENDS Naturals, FiniteSets

CONSTANTS MaxClock,   \* bound on the wall clock
          MaxPushes,  \* bound on the pushes of one process
          MaxGen,     \* bound on the processes, one after the other
          MaxSteps    \* bound on the steps back of the clock

ASSUME WriterAssumption == /\ MaxClock \in Nat \ {0} /\ MaxPushes \in Nat \ {0}
                           /\ MaxGen \in Nat \ {0} /\ MaxSteps \in Nat

VARIABLES
  life,     \* the lifespan scope: "starting", "up", "closing" (close() on
            \* shutdown.complete), "leaving" (close() in finally),
            \* "flushing" (the exporter is closed), "down", "aborted" when
            \* it was cancelled while closing, or "dead" after a crash
  exporter, \* "none" (Langfuse off), "open", "closing", "closed"
  stop,     \* the asyncio.Event
  task,     \* _run: "none", "begin", "health", "push", "wait", "final",
            \* "done", or "cancelled"
  posting,  \* the helper thread is inside urlopen
  alive, healthy,  \* the gauges
  last,     \* last_timestamp
  failures, \* the counter
  clock,    \* time.time_ns() // 1_000_000
  steps,    \* steps back of the clock so far
  flight,   \* snapshots the receiver may still apply
  view,     \* what the receiver shows
  gen,      \* which process this is
  sent,     \* history: every snapshot that was posted
  accepted  \* history: those the receiver took

process == <<life, exporter, stop, task, posting, alive, healthy, last, failures>>
world   == <<clock, steps>>
net     == <<flight, view, sent, accepted>>
vars    == <<process, world, net, gen>>

\* seq numbers the pushes of a process from 1.  The other metrics of a
\* snapshot, healthy among them, are left out.
Sample == [gen : 1..MaxGen, seq : 1..MaxPushes, ts : 1..(MaxClock + MaxPushes),
           alive : {0, 1}]
Nothing == [gen |-> 0, seq |-> 0, ts |-> 0, alive |-> 0]

TypeOK ==
  /\ life \in {"starting", "up", "closing", "leaving", "flushing", "down",
              "aborted", "dead"}
  /\ exporter \in {"none", "open", "closing", "closed"}
  /\ stop \in BOOLEAN
  /\ task \in {"none", "begin", "health", "push", "wait", "final", "done",
              "cancelled"}
  /\ posting \in BOOLEAN
  /\ alive \in {0, 1} /\ healthy \in {0, 1}
  /\ last \in 0..(MaxClock + MaxPushes)
  /\ failures \in 0..MaxPushes
  /\ clock \in 1..MaxClock
  /\ steps \in 0..MaxSteps
  /\ sent \subseteq Sample /\ flight \subseteq sent /\ accepted \subseteq sent
  /\ view \in accepted \cup {Nothing}
  /\ gen \in 1..MaxGen

-----------------------------------------------------------------------------
(* Faulty variants of the definitions below, one plausible slip each. *)
NowOnly           == clock
NeverStops        == FALSE
CloseAtOnce       == TRUE
QuietOnTimeout(n) == n
CountTwice(n)     == n + 2
HealthIsLife(ok)  ==
  /\ task = "health"
  /\ task' = "push" /\ healthy' = ok /\ alive' = ok
  /\ UNCHANGED <<life, exporter, stop, posting, last, failures, world, net, gen>>
-----------------------------------------------------------------------------
Pushes == Cardinality({s \in sent : s.gen = gen})

Init == /\ life = "starting" /\ exporter \in {"none", "open"} /\ stop = FALSE /\ task = "none"
        /\ posting = FALSE /\ alive = 0 /\ healthy = 0 /\ last = 0
        /\ failures = 0
        /\ clock = 1 /\ steps = 0
        /\ flight = {} /\ view = Nothing /\ sent = {} /\ accepted = {}
        /\ gen = 1

-----------------------------------------------------------------------------
(* The lifespan scope. *)

\* lifespan.startup.complete: start() creates the task, once.
StartupComplete ==
  /\ life = "starting" /\ task = "none"
  /\ life' = "up" /\ task' = "begin" /\ alive' = 1
  /\ UNCHANGED <<exporter, stop, posting, healthy, last, failures, world, net, gen>>

\* lifespan.shutdown.complete: close() sets stop and awaits the task.
ShutdownComplete ==
  /\ life = "up"
  /\ life' = "closing" /\ stop' = TRUE
  /\ UNCHANGED <<exporter, task, posting, alive, healthy, last, failures, world,
                 net, gen>>

\* The application leaves the scope on its own (it does not support it, its
\* startup failed, or it crashed), or is cancelled in it: the finally clause
\* closes the writer.
AppLeaves ==
  /\ life \in {"starting", "up"}
  /\ life' = "leaving" /\ stop' = TRUE
  /\ UNCHANGED <<exporter, task, posting, alive, healthy, last, failures, world,
                 net, gen>>

\* close() has awaited the task, when there is one.
TaskOver == task \in {"none", "done", "cancelled"}

\* The close() of shutdown.complete returns; the application returns, and
\* the finally clause closes again.
CloseReturns ==
  /\ life = "closing" /\ TaskOver
  /\ life' = "leaving"
  /\ UNCHANGED <<exporter, stop, task, posting, alive, healthy, last, failures, world,
                 net, gen>>

\* Whether the exporter still has to be closed.
Unflushed == exporter # "none"

\* The close() in finally returns: the exporter is next, in a helper thread.
\* Of a task that was cancelled it raises instead, which skips the exporter.
WriterClosed ==
  /\ life = "leaving" /\ TaskOver
  /\ IF task = "cancelled" THEN life' = "aborted" /\ UNCHANGED exporter
     ELSE IF Unflushed THEN life' = "flushing" /\ exporter' = "closing"
     ELSE life' = "down" /\ UNCHANGED exporter
  /\ UNCHANGED <<stop, task, posting, alive, healthy, last, failures, world,
                 net, gen>>

\* AsyncExportFilter.close() returns, after at most its timeout.
Flushed ==
  /\ exporter = "closing"
  /\ exporter' = "closed"
  /\ life' = IF life = "flushing" THEN "down" ELSE life
  /\ UNCHANGED <<stop, task, posting, alive, healthy, last, failures, world,
                 net, gen>>

\* The task of the scope is cancelled while it waits in close(), and with it
\* the writer's task it waits for: whatever that was waiting for, no exception
\* clause takes a cancellation.  A POST that has begun goes on in its thread.
\* The scope unwinds to the finally clause, or out of it.
CancelClose ==
  /\ life \in {"closing", "leaving"} /\ ~TaskOver
  /\ task' = "cancelled"
  /\ life' = "leaving"
  /\ UNCHANGED <<exporter, stop, posting, alive, healthy, last, failures, world,
                 net, gen>>

\* Cancelled while the exporter is closed: its thread goes on.
CancelFlush ==
  /\ life = "flushing"
  /\ life' = "aborted"
  /\ UNCHANGED <<exporter, stop, task, posting, alive, healthy, last, failures,
                 world, net, gen>>
-----------------------------------------------------------------------------
(* The task. *)

\* while not self.stop.is_set(), first or after the interval.  The wait ends
\* at once when stop is set.
Stopped == stop

LoopAgain ==
  /\ task \in {"begin", "wait"} /\ ~Stopped
  /\ Pushes + 1 < MaxPushes
  /\ task' = "health"
  /\ UNCHANGED <<life, exporter, stop, posting, alive, healthy, last, failures, world,
                 net, gen>>

LoopEnds ==
  /\ task \in {"begin", "wait"} /\ Stopped
  /\ task' = "final" /\ alive' = 0 /\ healthy' = 0
  /\ UNCHANGED <<life, exporter, stop, posting, last, failures, world, net, gen>>

\* The health check answers, raises or times out.
Health(ok) ==
  /\ task = "health"
  /\ task' = "push" /\ healthy' = ok
  /\ UNCHANGED <<life, exporter, stop, posting, alive, last, failures, world, net, gen>>

\* The timestamp of the next snapshot.
Stamp == IF last + 1 > clock THEN last + 1 ELSE clock

\* _push_snapshot up to the POST.
Post ==
  /\ task \in {"push", "final"} /\ ~posting
  /\ last' = Stamp
  /\ LET s == [gen |-> gen, seq |-> Pushes + 1, ts |-> Stamp, alive |-> alive]
     IN  sent' = sent \cup {s} /\ flight' = flight \cup {s}
  /\ posting' = TRUE
  /\ UNCHANGED <<life, exporter, stop, task, alive, healthy, failures, view, accepted,
                 world, gen>>

CountFailure(n) == n + 1

\* push() returns: with a 2xx answer, which only an accepted snapshot gets,
\* or with any failure, which it counts and forgets.
PostEnds(ok) ==
  /\ posting
  /\ ok => \E s \in accepted : s.gen = gen /\ s.ts = last
  /\ posting' = FALSE
  /\ failures' = IF ok THEN failures ELSE CountFailure(failures)
  /\ task' = CASE task = "final" -> "done" [] task = "push" -> "wait"
               [] OTHER -> task
  /\ UNCHANGED <<life, exporter, stop, alive, healthy, last, world, net, gen>>
-----------------------------------------------------------------------------
(* The network and the receiver, the clock, the process. *)

\* A snapshot that is never delivered is a lost one.
Deliver(s) ==
  /\ s \in flight
  /\ flight' = flight \ {s}
  /\ IF s.ts > view.ts THEN view' = s /\ accepted' = accepted \cup {s}
                       ELSE UNCHANGED <<view, accepted>>
  /\ UNCHANGED <<process, world, sent, gen>>

Tick ==
  /\ clock < MaxClock /\ clock' = clock + 1
  /\ UNCHANGED <<process, steps, net, gen>>

StepBack ==
  /\ steps < MaxSteps /\ steps' = steps + 1
  /\ clock' \in 1..(clock - 1)
  /\ UNCHANGED <<process, net, gen>>

\* A crash, or an exit that does not wait: the memory of the process is gone,
\* what it posted stays in flight.
Crash ==
  /\ life \notin {"down", "aborted", "dead"}
  /\ life' = "dead" /\ stop' = FALSE /\ task' = "none" /\ posting' = FALSE
  /\ alive' = 0 /\ healthy' = 0 /\ last' = 0 /\ failures' = 0
  /\ UNCHANGED <<exporter, world, net, gen>>

Restart ==
  /\ life \in {"down", "aborted", "dead"} /\ gen < MaxGen
  /\ gen' = gen + 1
  /\ life' = "starting" /\ stop' = FALSE /\ task' = "none"
  /\ posting' = FALSE /\ alive' = 0 /\ healthy' = 0 /\ last' = 0
  /\ failures' = 0 /\ exporter' = IF exporter = "none" THEN "none" ELSE "open"
  /\ UNCHANGED <<world, net>>
-----------------------------------------------------------------------------
Lifespan == \/ StartupComplete \/ ShutdownComplete \/ AppLeaves
            \/ CloseReturns \/ WriterClosed \/ Flushed
            \/ CancelClose \/ CancelFlush
Task == \/ LoopAgain \/ LoopEnds \/ Post
        \/ \E ok \in {0, 1} : Health(ok)
        \/ \E ok \in BOOLEAN : PostEnds(ok)
Network == \E s \in flight : Deliver(s)

Next == Lifespan \/ Task \/ Network \/ Tick \/ StepBack \/ Crash \/ Restart

Spec == Init /\ [][Next]_vars

\* The task runs: the health check and the POST have timeouts.  A close()
\* whose task is over returns, that of the exporter within its timeout.
\* Nothing is assumed of the network.
FairSpec == /\ Spec
            /\ WF_vars(Task)
            /\ WF_vars(CloseReturns \/ WriterClosed \/ Flushed)
-----------------------------------------------------------------------------
(* What the receiver shows of a process never goes back to an earlier      *)
(* snapshot of it: not when the clock is stepped back, not when a POST is  *)
(* applied after its successor.  So an instance reported offline stays so. *)
ViewMovesForward ==
  [][view'.gen = view.gen =>
       view'.seq >= view.seq /\ view'.alive <= view.alive]_vars

(* The offline report is the last one of its process and comes once.       *)
OfflineIsLast ==
  \A s \in sent : s.alive = 0 =>
    \A t \in sent : t.gen = s.gen => t = s \/ t.seq < s.seq

(* The lifespan scope is left only when the task is over.  It is left in   *)
(* order only with the exporter closed and, when the task had been started, *)
(* its offline report posted; and only a cancellation leaves it otherwise. *)
DownIsReported ==
  /\ life \in {"down", "aborted"} => task \in {"none", "done", "cancelled"}
  /\ life \in {"flushing", "down"} =>
       /\ task # "cancelled"
       /\ task = "done" => \E s \in sent : s.gen = gen /\ s.alive = 0
  /\ life = "down" => exporter \in {"none", "closed"}
  /\ life = "aborted" => task = "cancelled" \/ exporter \in {"closing", "closed"}

(* No push is lost unnoticed: all but the one in progress were accepted by *)
(* the receiver or counted as failures.                                    *)
NoSilentLoss ==
  life # "dead" =>
    Pushes <= failures + Cardinality({s \in accepted : s.gen = gen})
                + (IF posting THEN 1 ELSE 0)

(* close() ends, whatever the network, the receiver and /health do, and    *)
(* although it is called twice and may be cancelled.                       *)
CloseEnds == stop ~> (life \in {"down", "aborted", "dead"})
=============================================================================
