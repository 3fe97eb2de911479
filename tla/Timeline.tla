------------------------------ MODULE Timeline ------------------------------
(***************************************************************************)
(* The Langfuse timeline of one request (exporter.py): _timeline_nodes,    *)
(* and LangfuseSink.__call__ as far as it decides which nodes are exported *)
(* and whether the export succeeds.                                        *)
(*                                                                         *)
(* Times are integers, the request runs from 0 to End.  An input has       *)
(*   gs, ge    start and end of the first generation of the event, which   *)
(*             is the one exported; gs = -1 when there is none             *)
(*   stages    the engine observations of the event, in the order they     *)
(*             were appended; of names the generation one belongs to, 1    *)
(*             for the exported one                                        *)
(*   details   the api_intervals, in the order in which they ended         *)
(* A node is a record with its id, its parent's id and its interval; ids   *)
(* stand for the random span ids.                                          *)
(***************************************************************************)
EXTENDS Integers, Sequences, FiniteSets, SequencesExt, FiniteSetsExt

CONSTANTS End,         \* the end of the request
          Generations  \* how many generations it may have, 1 or 2

ASSUME EndAssumption         == End \in Nat \ {0}
ASSUME GenerationsAssumption == Generations \in {1, 2}

VARIABLES in,       \* the event
          nodes,    \* the nodes, in the order spans are created
          result    \* "none", then "built", then "sent" or "failed"

vars == <<in, nodes, result>>

-----------------------------------------------------------------------------
(* Faulty variants of the definitions below, one plausible slip each. *)
Larger(a, b)         == IF a < b THEN a ELSE b
AlwaysGen(e)         == TRUE
Unclipped(d, c)      == d.from
LaterFirst(m, i, j)  == m[i].from > m[j].from
-----------------------------------------------------------------------------
Greater(a, b) == IF a < b THEN b ELSE a
Lesser(a, b)  == IF a < b THEN a ELSE b

Clamp(v, lo, hi) == Greater(lo, Lesser(v, hi))

\* The list of s[i] for the positions i in the domain of before, where
\* before[i] is the set of positions whose elements are listed before s[i].
\* SelectSeq and SortSeq are such lists; the prover cannot look into those.
Order(before) ==
  [k \in 1..Cardinality(DOMAIN before) |->
     CHOOSE i \in DOMAIN before : Cardinality(before[i]) = k - 1]

Listed(s, before) ==
  [k \in 1..Cardinality(DOMAIN before) |-> s[Order(before)[k]]]

Kept(s, I) == Listed(s, [i \in I |-> {j \in I : j < i}])

\* A generation that never ended counts as ending with the request.
HasGen(e)   == e.gs # -1
GenStart(e) == IF HasGen(e) THEN e.gs ELSE End
GenEnd(e)   == IF HasGen(e) THEN e.ge ELSE End

\* The engine dict: the last observation of a name wins.
Has(e, name)   == SelectLastInSeq(e.stages, LAMBDA s : s.name = name) # 0
Stage(e, name) == e.stages[SelectLastInSeq(e.stages, LAMBDA s : s.name = name)]

WaitingName(e) == IF Has(e, "waiting") THEN "waiting" ELSE "queue"

\* The marks between the five segments, each falling back on the one before.
WaitStart(e)    == IF Has(e, WaitingName(e)) THEN Stage(e, WaitingName(e)).from
                                             ELSE GenStart(e)
PrefillStart(e) == IF Has(e, "prefill") THEN Stage(e, "prefill").from
                                        ELSE WaitStart(e)
DecodeStart(e)  == IF Has(e, "decode") THEN Stage(e, "decode").from
                                       ELSE PrefillStart(e)
DecodeEnd(e)    == IF Has(e, "decode") THEN Stage(e, "decode").to
                   ELSE IF Has(e, "prefill") THEN Stage(e, "prefill").to
                   ELSE DecodeStart(e)

\* Which generation the data of a segment comes from.
Owner(e, name) == IF Has(e, name) THEN Stage(e, name).of ELSE 1

\* The boundaries as the code lists them, clamped to the generation.
Boundaries(e) ==
  LET C(v) == Clamp(v, GenStart(e), GenEnd(e))
  IN  << [id |-> "handoff", from |-> GenStart(e), to |-> C(WaitStart(e)),
          of |-> 1],
         [id |-> "waiting", from |-> C(WaitStart(e)), to |-> C(PrefillStart(e)),
          of |-> Owner(e, WaitingName(e))],
         [id |-> "prefill", from |-> C(PrefillStart(e)), to |-> C(DecodeStart(e)),
          of |-> Owner(e, "prefill")],
         [id |-> "decode", from |-> C(DecodeStart(e)), to |-> C(DecodeEnd(e)),
          of |-> Owner(e, "decode")],
         [id |-> "finalize", from |-> C(DecodeEnd(e)), to |-> GenEnd(e),
          of |-> 1] >>

\* The loop over the boundaries: seen[i] is where the i-th segment ends.
Cut(e) ==
  LET b == Boundaries(e)
      seen[i \in 0..5] ==
        IF i = 0 THEN GenStart(e)
        ELSE Greater(Greater(b[i].from, seen[i - 1]), Lesser(b[i].to, GenEnd(e)))
  IN  [i \in 1..5 |-> [id |-> b[i].id, parent |-> "gen", of |-> b[i].of,
                       from |-> Greater(b[i].from, seen[i - 1]),
                       to |-> seen[i]]]

Positive(n)  == n.to > n.from
Positives(s) == Kept(s, {i \in 1..Len(s) : Positive(s[i])})

Segments(e) == IF HasGen(e) THEN Positives(Cut(e)) ELSE <<>>

Node(id, parent, from, to) ==
  [id |-> id, parent |-> parent, from |-> from, to |-> to, of |-> 1]

Root        == Node("root", "none", 0, End)
Api(e)      == Node("api", "root", 0, GenStart(e))
Transfer(e) == Node("transfer", "root", GenEnd(e), End)
Gen(e)      == IF HasGen(e) THEN <<Node("gen", "root", GenStart(e), GenEnd(e))>>
                            ELSE <<>>
-----------------------------------------------------------------------------
(* The API details. *)

Containers(e) == <<Api(e), Transfer(e)>> \o Segments(e)

\* A detail belongs to the container its midpoint lies in, and is clipped.
ContainerOf(e, d) ==
  LET mid == (d.from + d.to) \div 2
  IN  SelectInSeq(Containers(e), LAMBDA c : c.from <= mid /\ mid < c.to)

ClippedFrom(d, c) == Greater(d.from, c.from)

Place(e, d) ==
  LET c == Containers(e)[ContainerOf(e, d)]
  IN  [id |-> d.id, name |-> d.name, parent |-> c.id, of |-> 1,
       from |-> ClippedFrom(d, c), to |-> Lesser(d.to, c.to)]

Placed(e) ==
  LET inside == Kept(e.details,
                     {i \in 1..Len(e.details) : ContainerOf(e, e.details[i]) # 0})
  IN  Positives([i \in 1..Len(inside) |-> Place(e, inside[i])])

\* The last placed detail of a name, 0 when there is none.
Assigned(p, name) == SelectLastInSeq(p, LAMBDA d : d.name = name)

\* Two details are nested under the submission when they lie inside it.
NestedNames == {"input_process", "output_processor_add"}

Nested(p, i) ==
  LET s == Assigned(p, "submit_engine")
  IN  /\ p[i].name \in NestedNames /\ i = Assigned(p, p[i].name) /\ s # 0
      /\ p[s].from <= p[i].from /\ p[i].to <= p[s].to

DetailNodes(p) ==
  [i \in 1..Len(p) |->
     Node(p[i].id, IF Nested(p, i) THEN p[Assigned(p, "submit_engine")].id
                   ELSE p[i].parent, p[i].from, p[i].to)]

Unsorted(e) ==
  LET p == Placed(e)
      t == IF Positive(Transfer(e)) THEN <<Transfer(e)>> ELSE <<>>
  IN  <<Api(e)>> \o t \o Gen(e) \o Segments(e) \o DetailNodes(p)

\* Python's sort is stable: equal keys keep the order of the list.
Earlier(m, i, j) == m[i].from < m[j].from
Longer(m, i, j)  == m[i].to - m[i].from > m[j].to - m[j].from

Before(m, i, j) == \/ Earlier(m, i, j)
                   \/ ~Earlier(m, j, i) /\ Longer(m, i, j)
                   \/ /\ ~Earlier(m, i, j) /\ ~Earlier(m, j, i)
                      /\ ~Longer(m, i, j) /\ ~Longer(m, j, i)
                      /\ i < j

Sorted(m) ==
  Listed(m, [i \in 1..Len(m) |-> {j \in 1..Len(m) : Before(m, j, i)}])

TimelineNodes(e) == <<Root>> \o Sorted(Unsorted(e))
-----------------------------------------------------------------------------
(* LangfuseSink.__call__. *)

(* The events.  The observations respect what the adapter checks before it *)
(* records them: queued, scheduled, first and last token are in order and  *)
(* inside their generation, and so is the waiting interval.                *)

Intervals(lo, hi) == UNION { { <<a, b>> : b \in a..hi } : a \in lo..hi }

\* Four times in order: an interval inside an interval.
Ordered4(lo, hi) ==
  UNION { { <<b[1], c[1], c[2], b[2]>> : c \in Intervals(b[1], b[2]) } :
          b \in Intervals(lo, hi) }

Obs(name, q, of) == [name |-> name, from |-> q[1], to |-> q[2], of |-> of]

Detail(name, q) == [id |-> name, name |-> name, from |-> q[1], to |-> q[2]]

\* What record_timeline appends: queue, prefill and decode, or nothing.
Stats(lo, hi, of) ==
  {<<>>} \cup { << Obs("queue", <<q[1], q[2]>>, of),
                  Obs("prefill", <<q[2], q[3]>>, of),
                  Obs("decode", <<q[3], q[4]>>, of) >> : q \in Ordered4(lo, hi) }

\* What record_engine_stages appends: the waiting interval, or nothing.
Waits(lo, hi, of) ==
  {<<>>} \cup { <<Obs("waiting", q, of)>> : q \in Intervals(lo, hi) }

\* _add_request runs inside add_request, so it ends, and is recorded, first.
Submission(lo, hi) ==
  { << Detail("output_processor_add", <<q[2], q[3]>>),
       Detail("submit_engine", <<q[1], q[4]>>) >> : q \in Ordered4(lo, hi) }

Rendering(hi) == { <<Detail("render_input", q)>> : q \in Intervals(0, hi) }

Event(g, stages, details) ==
  [gs |-> g[1], ge |-> g[2], stages |-> stages, details |-> details]

NoGeneration ==
  \E d \in Rendering(End) : in = Event(<<-1, -1>>, <<>>, d)

OneGeneration ==
  \E g \in Intervals(0, End) :
    \E s \in Stats(g[1], g[2], 1), w \in Waits(g[1], g[2], 1),
       d \in {<<>>} \cup Submission(g[1], g[2]) \cup Rendering(g[1]) :
         in = Event(g, s \o w, d)

\* What is measured for the second generation of a request lies anywhere
\* between the start of the first one and the end of the request.  It comes
\* after what was measured for the first one, and replaces it by name.
TwoGenerations ==
  \E g \in Intervals(0, End) :
    \E s \in Stats(g[1], End, 2), w \in Waits(g[1], End, 2) :
      in = Event(g, s \o w, <<>>)

Init ==
  /\ \/ NoGeneration
     \/ OneGeneration
     \/ Generations = 2 /\ TwoGenerations
  /\ nodes = <<>>
  /\ result = "none"

\* _timeline_nodes.
Build ==
  /\ result = "none"
  /\ nodes' = TimelineNodes(in)
  /\ result' = "built"
  /\ UNCHANGED in

\* contexts[node["parent_id"]] is there when the node's span is started.
ContextKnown(ns, i) ==
  ns[i].parent = "none" \/ \E j \in 1..(i - 1) : ns[j].id = ns[i].parent

\* Nodes without a positive duration are dropped, the others are turned into
\* spans one by one, and a missing context loses the whole batch.
Export ==
  /\ result = "built"
  /\ nodes' = Positives(nodes)
  /\ result' = IF \A i \in 1..Len(nodes') : ContextKnown(nodes', i)
               THEN "sent" ELSE "failed"
  /\ UNCHANGED in

Next == Build \/ Export

Spec == Init /\ [][Next]_vars
-----------------------------------------------------------------------------
Parts     == {"handoff", "waiting", "prefill", "decode", "finalize"}
DetailIds == NestedNames \cup {"submit_engine", "render_input"}
NodeIds   == {"root", "api", "gen", "transfer"} \cup Parts \cup DetailIds

NodeType(n) == /\ n.id \in NodeIds /\ n.parent \in NodeIds \cup {"none"}
               /\ n.from \in 0..End /\ n.to \in 0..End /\ n.of \in {1, 2}

\* No node reaches beyond the request or names a parent that cannot exist.
TypeOK ==
  /\ \A i \in 1..Len(nodes) : NodeType(nodes[i])
  /\ result \in {"none", "built", "sent", "failed"}

ChildrenOf(id, ids) ==
  Kept(nodes, {i \in 1..Len(nodes) : nodes[i].parent = id /\ nodes[i].id \in ids})

\* The intervals of a sequence of nodes lie end to end from lo to hi.
EndToEnd(s, lo, hi) ==
  /\ Len(s) > 0 => s[1].from = lo /\ s[Len(s)].to = hi
  /\ Len(s) = 0 => lo = hi
  /\ \A i \in 1..(Len(s) - 1) : s[i].to = s[i + 1].from

(* The timeline is exhaustive and free of overlaps: what is exported below *)
(* the root lies end to end from the start to the end of the request, and  *)
(* the five stages from the start to the end of the generation, however    *)
(* the engine's marks are ordered and wherever they lie.                   *)
Partition ==
  result \in {"sent", "failed"} =>
    /\ EndToEnd(ChildrenOf("root", {"api", "gen", "transfer"}), 0, End)
    /\ HasGen(in) =>
         EndToEnd(ChildrenOf("gen", Parts), GenStart(in), GenEnd(in))

(* Every exported node lies inside its parent, and its parent is exported. *)
InsideParent ==
  result \in {"sent", "failed"} =>
    \A i \in 1..Len(nodes) : nodes[i].parent # "none" =>
      \E j \in 1..Len(nodes) :
        /\ nodes[j].id = nodes[i].parent
        /\ nodes[j].from <= nodes[i].from /\ nodes[i].to <= nodes[j].to

(* The export of a trace fails at most where a nested detail was clipped   *)
(* to the same interval as the submission around it.                       *)
FailsOnlyOnTies ==
  result = "failed" =>
    \E i, j \in 1..Len(nodes) :
      /\ i < j /\ nodes[i].parent = nodes[j].id
      /\ nodes[i].from = nodes[j].from /\ nodes[i].to = nodes[j].to

(* Parents are created before their children, as the comment above the     *)
(* sort has it, so that every trace can be exported.                       *)
ParentsFirst == result # "failed"

(* The stages shown under a generation were measured for that generation.  *)
StagesOfTheGeneration ==
  \A i \in 1..Len(nodes) : nodes[i].parent = "gen" => nodes[i].of = 1
=============================================================================
