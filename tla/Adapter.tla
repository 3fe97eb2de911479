------------------------------- MODULE Adapter -------------------------------
(***************************************************************************)
(* The engine adapter in the API process: what install() in adapter.py     *)
(* wraps around AsyncLLM.generate and the statistics of finished requests, *)
(* with record_timeline (adapter.py) and record_engine_stages (stages.py). *)
(*                                                                         *)
(* All of it runs on the event loop, so the code between two awaits is one *)
(* action.  A call of generate() is an asynchronous generator: it starts   *)
(* with its first step, and its consumer may exhaust it, close it, be      *)
(* cancelled in it, or see it fail; the finally clause awaits the close of *)
(* the inner generator before it writes the end.  The statistics of the    *)
(* sequences of a call arrive from vLLM's output handler, in a context of  *)
(* its own, and carry nothing but the request id.                          *)
(*                                                                         *)
(* Outside the code: vLLM hands the statistics of every sequence over      *)
(* before generate() can be exhausted, hands nothing over for a sequence   *)
(* it dropped, and may still finish a sequence after the call has ended.   *)
(*                                                                         *)
(* Times are integers.  A pair <<a, b>> of Instants stands for the first   *)
(* and the last instant of one kind that a message carries, in the time of *)
(* the EngineCore process; a > b when they are out of order.  Clocks are   *)
(* the readings the EngineCore process may take for its final outputs.     *)
(***************************************************************************)
EXTENDS Integers, Sequences, FiniteSets, FiniteSetsExt

CONSTANTS Calls,    \* the calls of generate()
          Ids,      \* the request ids they may be given
          Https,    \* the observed HTTP requests
          Seqs,     \* the parallel sequences of a call
          Instants, \* the engine timestamps of a message
          Clocks,   \* the readings of stamp_outputs
          MaxTime,  \* bound of the clock
          None      \* no trace, no call, no report

ASSUME SeqsAssumption    == IsFiniteSet(Seqs) /\ Seqs # {}
ASSUME InstantsAssumption == Instants \subseteq Int \X Int
ASSUME ClocksAssumption  == /\ Clocks \subseteq [before : Int, wall : Int, after : Int]
                            /\ \A k \in Clocks : k.before <= k.after
ASSUME MaxTimeAssumption == MaxTime \in Nat
ASSUME NoneAssumption    == None \notin Calls \cup Https \cup Instants

\* What one message of statistics can carry: a clock that is missing or that
\* cannot be read, or else the four engine timestamps (None: incomplete) and
\* the stage payload, with no interval, the waiting one, or also the execution.
Messages ==
  [clock : {"missing", "broken"}, edges : {None}, stages : {<<>>}] \cup
  [clock : {"ok"}, reading : Clocks, edges : Instants \cup {None},
   stages : {<<>>} \cup {<<w>> : w \in Instants}
                   \cup {<<w, x>> : w \in Instants, x \in Instants}]

VARIABLES
  now,        \* trace.now_ns(), the same for every trace
  id, owner,  \* request_id and current_request of each call
  pc,         \* "new", "running", "closing" (awaits aclose()), "ended"
  active,     \* the table of install(): the call registered under each id
  gen,        \* the generation of each observed call; taken is history: the
              \* sequences whose statistics it was given
  marks,      \* the intervals recorded under each generation
  requests,   \* trace.engine_requests
  arrived,    \* history: when the statistics of each sequence were handed over
  alone,      \* history: no call with the same id has met this one
  reported    \* the event the end of each HTTP request gave to the filters

vars == <<now, id, owner, pc, active, gen, marks, requests, arrived, alone,
          reported>>
given == <<id, owner>>

Pairs       == Calls \X Seqs
Generations == [start : {-1} \cup (0..MaxTime), end : {-1} \cup (0..MaxTime),
                status : {"ok", "error", "cancelled"}, count : Nat,
                taken : SUBSET Pairs]
Marks       == [index : {-1} \cup Nat, from : Int, to : Int]
Reports     == [requests : Nat, gens : [Calls -> Generations]]
NotBegun    == [start |-> -1, end |-> -1, status |-> "ok", count |-> 0,
                taken |-> {}]

\* Every generation is closed with the clock of the request that owns it, and
\* what is recorded and reported has the shape the exporters read.
TypeOK ==
  /\ now \in 0..MaxTime
  /\ id \in [Calls -> Ids]
  /\ owner \in [Calls -> Https \cup {None}]
  /\ pc \in [Calls -> {"new", "running", "closing", "ended"}]
  /\ active \in [Ids -> Calls \cup {None}]
  /\ gen \in [Calls -> Generations]
  /\ marks \in [Calls -> SUBSET Marks]
  /\ requests \in [Https -> Nat]
  /\ arrived \in [Calls -> [Seqs -> {"pending", "early", "late", "dropped"}]]
  /\ alone \in [Calls -> BOOLEAN]
  /\ reported \in [Https -> Reports \cup {None}]

Observed(c) == owner[c] # None
Live(c)     == pc[c] \in {"running", "closing"}

\* A call is present while its statistics can still be asked for by its id.
Present(c) == \/ Live(c)
              \/ pc[c] = "ended" /\ \E s \in Seqs : arrived[c][s] = "pending"

-----------------------------------------------------------------------------
(* Faulty variants of the definitions below, one plausible slip each. *)
KeepWhenCancelled(c) == IF gen[c].status = "cancelled" THEN active
                        ELSE [active EXCEPT ![id[c]] = None]
AnyEntry(i)          == IF \E j \in Ids : active[j] # None
                        THEN active[CHOOSE j \in Ids : active[j] # None]
                        ELSE None
StartUnchecked(g, p) == p[1] <= p[2] /\ p[2] <= now
CountClocked(g, m)   == IF m.clock = "ok" THEN g.count + 1 ELSE g.count
NotCounted(g, m)     == g.count
RoundedUp(c)         == now + 1
-----------------------------------------------------------------------------
Init ==
  /\ now = 0
  /\ id \in [Calls -> Ids]
  /\ owner \in [Calls -> Https \cup {None}]
  /\ pc = [c \in Calls |-> "new"]
  /\ active = [i \in Ids |-> None]
  /\ gen = [c \in Calls |-> NotBegun]
  /\ marks = [c \in Calls |-> {}]
  /\ requests = [h \in Https |-> 0]
  /\ arrived = [c \in Calls |-> [s \in Seqs |-> "pending"]]
  /\ alone = [c \in Calls |-> TRUE]
  /\ reported = [h \in Https |-> None]

\* The writes, deletions and reads of the table.
Registered(c) == [active EXCEPT ![id[c]] = c]
Popped(c)     == [active EXCEPT ![id[c]] = None]
Entry(i)      == active[i]

Meets(c) == {d \in Calls \ {c} : id[d] = id[c] /\ Present(d)}

\* The first step of the generator.  A task the request left behind still
\* has its trace, so this may come after the report.
Enter(c) ==
  /\ pc[c] = "new"
  /\ pc' = [pc EXCEPT ![c] = "running"]
  /\ IF Observed(c)
     THEN /\ gen' = [gen EXCEPT ![c].start = now]
          /\ active' = Registered(c)
     ELSE UNCHANGED <<gen, active>>
  /\ alone' = [d \in Calls |-> /\ alone[d]
                               /\ d = c => Meets(c) = {}
                               /\ d \notin Meets(c)]
  /\ UNCHANGED <<given, now, marks, requests, arrived, reported>>
-----------------------------------------------------------------------------
(* The statistics of one finished sequence. *)

\* int(), which rounds towards zero, of half of n.
Half(n) == IF n >= 0 THEN n \div 2 ELSE -((-n) \div 2)

\* stamp_outputs takes the middle of two monotonic readings for the instant of
\* the wall clock reading between them, and their distance for the error.
Doubled(k)   == k.before + k.after
ErrorOf(k)   == k.after - k.before
Wall(k, t)   == k.wall + Half(2 * t - Doubled(k))
Stamp(m, p)  == <<Wall(m.reading, p[1]), Wall(m.reading, p[2])>>

\* Both recorders accept an interval only inside the generation so far.
Accepts(g, p) == g.start <= p[1] /\ p[1] <= p[2] /\ p[2] <= now

\* record_timeline: queue, prefill and decode together, under the index of
\* the sequence, which is counted before anything can fail.
Counted(g, m) == g.count + 1

Mark(index, p) == [index |-> index, from |-> p[1], to |-> p[2]]

Timeline(g, m) ==
  IF m.edges # None /\ Accepts(g, Stamp(m, m.edges))
  THEN {Mark(g.count, Stamp(m, m.edges))} ELSE {}

\* record_engine_stages: the execution only after the waiting interval.
Stages(g, m) ==
  LET good(i) == \A j \in 1..i : Accepts(g, Stamp(m, m.stages[j]))
  IN  {Mark(-1, Stamp(m, m.stages[i])) : i \in {i \in 1..Len(m.stages) : good(i)}}

\* A clock that cannot be read raises out of record_timeline, and the guard
\* of observed_update skips record_engine_stages with it.
Recorded(g, m) == IF m.clock = "ok" THEN Timeline(g, m) \cup Stages(g, m) ELSE {}

Credit(d, c, s, m) ==
  /\ gen' = [gen EXCEPT ![d].count = Counted(gen[d], m),
                        ![d].taken = @ \cup {<<c, s>>}]
  /\ marks' = [marks EXCEPT ![d] = @ \cup Recorded(gen[d], m)]
  /\ requests' = [requests EXCEPT ![owner[d]] = @ + 1]

\* update_from_output and update_from_finished_request for a final output.
Finish(c, s, m) ==
  /\ pc[c] # "new" /\ arrived[c][s] = "pending"
  /\ arrived' = [arrived EXCEPT ![c][s] = IF Live(c) THEN "early" ELSE "late"]
  /\ IF Entry(id[c]) # None THEN Credit(Entry(id[c]), c, s, m)
                            ELSE UNCHANGED <<gen, marks, requests>>
  /\ UNCHANGED <<given, now, pc, active, alone, reported>>

\* The engine aborts or expires a sequence: no final output.
Drop(c, s) ==
  /\ pc[c] # "new" /\ arrived[c][s] = "pending"
  /\ arrived' = [arrived EXCEPT ![c][s] = "dropped"]
  /\ UNCHANGED <<given, now, pc, active, gen, marks, requests, alone, reported>>
-----------------------------------------------------------------------------
(* The end of a call. *)

Leaves(c, status) ==
  /\ pc[c] = "running"
  /\ pc' = [pc EXCEPT ![c] = "closing"]
  /\ gen' = IF Observed(c) THEN [gen EXCEPT ![c].status = status] ELSE gen
  /\ UNCHANGED <<given, now, active, marks, requests, arrived, alone, reported>>

Exhausted(c) == (\A s \in Seqs : arrived[c][s] = "early") /\ Leaves(c, "ok")
Fails(c)     == Leaves(c, "error")
Cancelled(c) == Leaves(c, "cancelled")  \* closed by its consumer as well

EndTime(c) == now

\* aclose() has returned or raised: the inner finally clause.
End(c) ==
  /\ pc[c] = "closing"
  /\ pc' = [pc EXCEPT ![c] = "ended"]
  /\ gen' = IF Observed(c) THEN [gen EXCEPT ![c].end = EndTime(c)] ELSE gen
  /\ active' = Popped(c)
  /\ UNCHANGED <<given, now, marks, requests, arrived, alone, reported>>

\* RequestTrace.finish: the filters copy what there is at this moment.
Report(h) ==
  /\ reported[h] = None
  /\ reported' = [reported EXCEPT ![h] =
       [requests |-> requests[h],
        gens |-> [c \in Calls |-> IF owner[c] = h THEN gen[c] ELSE NotBegun]]]
  /\ UNCHANGED <<given, now, pc, active, gen, marks, requests, arrived, alone>>

Tick ==
  /\ now < MaxTime
  /\ now' = now + 1
  /\ UNCHANGED <<given, pc, active, gen, marks, requests, arrived, alone,
                 reported>>

Next ==
  \/ \E c \in Calls : \/ Enter(c) \/ Exhausted(c) \/ Fails(c) \/ Cancelled(c)
                      \/ End(c)
                      \/ \E s \in Seqs : \/ Drop(c, s)
                                         \/ \E m \in Messages : Finish(c, s, m)
  \/ \E h \in Https : Report(h)
  \/ Tick

Spec == Init /\ [][Next]_vars
-----------------------------------------------------------------------------
(* The end and the cancellation of a generator release its entry: the      *)
(* table never holds a call that has ended, so it cannot grow, and a late  *)
(* message finds no trace that has been closed.                            *)
NoStaleEntry ==
  \A i \in Ids : active[i] # None =>
    Live(active[i]) /\ Observed(active[i]) /\ id[active[i]] = i

(* A call that never met another call with its id gets the statistics of   *)
(* its own sequences that finished while it ran, nobody else gets any of   *)
(* its statistics, and it gets none of theirs.                             *)
Correlated ==
  \A c \in Calls : alone[c] =>
    \A s \in Seqs, d \in Calls :
      /\ (<<c, s>> \in gen[d].taken) <=>
           (d = c /\ Observed(c) /\ arrived[c][s] = "early")
      /\ <<d, s>> \in gen[c].taken => d = c

\* A generation that had ended by the report is reported as it stays; one
\* that had been exhausted, its id its own, with all its sequences.
EndedAreWhole ==
  \A h \in Https : reported[h] # None =>
    \A c \in Calls : owner[c] = h /\ reported[h].gens[c].end # -1 =>
      /\ reported[h].gens[c] = gen[c]
      /\ alone[c] /\ gen[c].status = "ok" => gen[c].taken = {c} \X Seqs

(* The report counts exactly the statistics its generations were given;    *)
(* and a generation that had been exhausted by then, its id its own, is    *)
(* reported with the statistics of all its sequences and with its end.     *)
ReportedInFull ==
  /\ EndedAreWhole
  /\ \A h \in Https : reported[h] # None =>
       reported[h].requests =
         MapThenSumSet(LAMBDA c : reported[h].gens[c].count, Calls)

(* Every interval lies inside its generation, as far as that goes: up to   *)
(* its end or, like the copies a report makes of it, up to now.            *)
InsideGeneration ==
  \A c \in Calls : \A k \in marks[c] :
    /\ gen[c].start <= k.from /\ k.from <= k.to
    /\ k.to <= IF gen[c].end = -1 THEN now ELSE gen[c].end

(* The intervals of two sequences of a generation have different indexes,  *)
(* below the number of sequences, whatever failed in between.              *)
IndexesDistinct ==
  \A c \in Calls : \A k1, k2 \in marks[c] :
    /\ k1.index < gen[c].count
    /\ k1.index = k2.index /\ k1.index # -1 => k1 = k2

(* Nothing is written to a generation or under it once it has ended.       *)
EndedIsFrozen ==
  [][\A c \in Calls : pc[c] = "ended" => gen'[c] = gen[c] /\ marks'[c] = marks[c]]_vars
=============================================================================
