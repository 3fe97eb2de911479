--------------------------- MODULE Timeline_proof ---------------------------
(***************************************************************************)
(* Proofs about the timeline, for every event that can be recorded,        *)
(* whatever the end of the request, the generation, the marks the engine   *)
(* delivered and the details.  In this order:                              *)
(*   - the segments of a generation lie end to end (CutIsPartition)        *)
(*   - what a filter and the stable sort do to a list of nodes             *)
(*   - Init yields events that satisfy Recordable                          *)
(*   - which nodes a timeline consists of, and where they lie: the root    *)
(*     and BelowRoot(e), sorted                                            *)
(*   - what is exported of it: Exported, Tiling                            *)
(*   - the invariant Shaped, and the theorems about Spec                   *)
(***************************************************************************)
EXTENDS Timeline, FiniteSetTheorems, WellFoundedInduction, TLAPS

(* What is needed of an event: integers, and a generation that does not    *)
(* end before it starts.                                                   *)
Marked(e) ==
  /\ e.gs \in Int /\ e.ge \in Int /\ e.gs <= e.ge
  /\ \E names : e.stages \in Seq([name : names, from : Int, to : Int, of : Int])

USE EndAssumption
-----------------------------------------------------------------------------
(* Max is what its name says, for the positions in a sequence. *)
LEMMA LastPosition ==
  ASSUME NEW n \in Nat, NEW I, I \subseteq 1..n, I # {}
  PROVE  Max(I) \in I /\ \A i \in I : i <= Max(I)
<1> DEFINE T == {n - i : i \in I}
<1>0. \A i \in I : i \in Nat /\ n - i \in Nat
  OBVIOUS
<1>1. T \subseteq Nat /\ T # {}
  BY <1>0
<1>2. PICK x \in T : \A y \in T : <<y, x>> \notin OpToRel(<, Nat)
  BY <1>1, WFMin, NatLessThanWellFounded
<1>3. PICK k \in I : x = n - k
  BY <1>2
<1>4. \A i \in I : i <= k
  <2> SUFFICES ASSUME NEW i \in I, k < i PROVE FALSE
    BY <1>3
  <2>1. n - i \in T /\ n - i \in Nat /\ x \in Nat /\ n - i < x
    <3>1. n - i \in T /\ k \in Nat
      BY <1>0
    <3> QED
      BY <1>0, <1>3, <3>1
  <2>2. <<n - i, x>> \in OpToRel(<, Nat)
    BY <2>1 DEF OpToRel
  <2> QED
    BY <1>2, <2>1, <2>2
<1>5. \E m \in I : \A i \in I : m >= i
  BY <1>4
<1>6. Max(I) \in I /\ \A i \in I : Max(I) >= i
  BY <1>5 DEF Max
<1> QED
  BY <1>6

LEMMA FirstPosition ==
  ASSUME NEW n \in Nat, NEW I, I \subseteq 1..n, I # {}
  PROVE  Min(I) \in I
<1>1. I \subseteq Nat
  OBVIOUS
<1>2. PICK x \in I : \A y \in I : <<y, x>> \notin OpToRel(<, Nat)
  BY <1>1, WFMin, NatLessThanWellFounded
<1>3. \A y \in I : x <= y
  <2> SUFFICES ASSUME NEW y \in I, y < x PROVE FALSE
    BY <1>1
  <2>1. <<y, x>> \in OpToRel(<, Nat)
    BY <1>1 DEF OpToRel
  <2> QED
    BY <1>2, <2>1
<1> QED
  BY <1>3 DEF Min

(* The engine dict: the last observation of a name. *)
LEMMA StageIsLast ==
  ASSUME NEW e, Marked(e), NEW name, Has(e, name)
  PROVE  \E i \in 1..Len(e.stages) :
           /\ Stage(e, name) = e.stages[i] /\ e.stages[i].name = name
           /\ \A j \in 1..Len(e.stages) : j > i => e.stages[j].name # name
<1> DEFINE I == {i \in 1..Len(e.stages) : e.stages[i].name = name}
<1>1. Len(e.stages) \in Nat
  BY DEF Marked
<1>2. I # {} /\ Stage(e, name) = e.stages[Max(I)]
  BY DEF Has, Stage, SelectLastInSeq
<1>3. I \subseteq 1..Len(e.stages)
  OBVIOUS
<1> HIDE DEF I
<1>4. Max(I) \in I /\ \A i \in I : i <= Max(I)
  BY <1>1, <1>2, <1>3, LastPosition
<1>5. Max(I) \in 1..Len(e.stages) /\ e.stages[Max(I)].name = name
  BY <1>4 DEF I
<1>6. \A j \in 1..Len(e.stages) : j > Max(I) => e.stages[j].name # name
  BY <1>1, <1>3, <1>4 DEF I
<1> QED
  BY <1>2, <1>5, <1>6

LEMMA StageMarks ==
  ASSUME NEW e, Marked(e), NEW name, Has(e, name)
  PROVE  Stage(e, name).from \in Int /\ Stage(e, name).to \in Int
<1>1. PICK i \in 1..Len(e.stages) : Stage(e, name) = e.stages[i]
  BY StageIsLast
<1>2. PICK names : e.stages \in Seq([name : names, from : Int, to : Int, of : Int])
  BY DEF Marked
<1>3. e.stages[i] \in [name : names, from : Int, to : Int, of : Int]
  <2> DEFINE s == e.stages  R == [name : names, from : Int, to : Int, of : Int]
  <2>1. s \in Seq(R) /\ i \in 1..Len(s)
    BY <1>2
  <2> HIDE DEF s, R
  <2>2. s[i] \in R
    BY <2>1
  <2> QED
    BY <2>2 DEF s, R
<1> QED
  BY <1>1, <1>3

(* Where the segments could begin and end. *)
LEMMA MarksAreIntegers ==
  ASSUME NEW e, Marked(e)
  PROVE  /\ GenStart(e) \in Int /\ GenEnd(e) \in Int /\ GenStart(e) <= GenEnd(e)
         /\ WaitStart(e) \in Int /\ PrefillStart(e) \in Int
         /\ DecodeStart(e) \in Int /\ DecodeEnd(e) \in Int
<1>1. GenStart(e) \in Int /\ GenEnd(e) \in Int /\ GenStart(e) <= GenEnd(e)
  BY DEF Marked, GenStart, GenEnd
<1>2. WaitStart(e) \in Int
  BY <1>1, StageMarks DEF WaitStart
<1>3. PrefillStart(e) \in Int
  BY <1>2, StageMarks DEF PrefillStart
<1>4. DecodeStart(e) \in Int
  BY <1>3, StageMarks DEF DecodeStart
<1>5. DecodeEnd(e) \in Int
  BY <1>4, StageMarks DEF DecodeEnd
<1> QED
  BY <1>1, <1>2, <1>3, <1>4, <1>5

(* Clamping: each boundary begins where the one before it ends, inside the *)
(* generation.                                                             *)
LEMMA BoundariesMeet ==
  ASSUME NEW e, Marked(e)
  PROVE  /\ \A i \in 1..5 : /\ Boundaries(e)[i].from \in GenStart(e)..GenEnd(e)
                            /\ Boundaries(e)[i].to \in GenStart(e)..GenEnd(e)
         /\ \A i \in 1..4 : Boundaries(e)[i].to = Boundaries(e)[i + 1].from
         /\ Boundaries(e)[1].from = GenStart(e) /\ Boundaries(e)[5].to = GenEnd(e)
<1> DEFINE C(v) == Clamp(v, GenStart(e), GenEnd(e))
           w == C(WaitStart(e))  p == C(PrefillStart(e))
           d == C(DecodeStart(e))  f == C(DecodeEnd(e))
<1>1. GenStart(e) \in Int /\ GenEnd(e) \in Int /\ GenStart(e) <= GenEnd(e)
  BY MarksAreIntegers
<1>2. ASSUME NEW v \in Int PROVE C(v) \in GenStart(e)..GenEnd(e)
  BY <1>1 DEF Clamp, Greater, Lesser
<1> HIDE DEF C
<1>3. /\ w \in GenStart(e)..GenEnd(e) /\ p \in GenStart(e)..GenEnd(e)
      /\ d \in GenStart(e)..GenEnd(e) /\ f \in GenStart(e)..GenEnd(e)
  BY <1>2, MarksAreIntegers
<1>4. Boundaries(e) =
        << [id |-> "handoff", from |-> GenStart(e), to |-> w, of |-> 1],
           [id |-> "waiting", from |-> w, to |-> p, of |-> Owner(e, WaitingName(e))],
           [id |-> "prefill", from |-> p, to |-> d, of |-> Owner(e, "prefill")],
           [id |-> "decode", from |-> d, to |-> f, of |-> Owner(e, "decode")],
           [id |-> "finalize", from |-> f, to |-> GenEnd(e), of |-> 1] >>
  BY DEF Boundaries, C
<1> HIDE DEF w, p, d, f
<1>5. /\ Boundaries(e)[1].from = GenStart(e) /\ Boundaries(e)[1].to = w
      /\ Boundaries(e)[2].from = w /\ Boundaries(e)[2].to = p
      /\ Boundaries(e)[3].from = p /\ Boundaries(e)[3].to = d
      /\ Boundaries(e)[4].from = d /\ Boundaries(e)[4].to = f
      /\ Boundaries(e)[5].from = f /\ Boundaries(e)[5].to = GenEnd(e)
  BY <1>4
<1>6. 1..5 = {1, 2, 3, 4, 5} /\ 1..4 = {1, 2, 3, 4}
  OBVIOUS
<1> QED
  BY <1>1, <1>3, <1>5, <1>6
-----------------------------------------------------------------------------
(* The five segments of _timeline_nodes lie end to end and fill the        *)
(* generation, whatever marks the engine delivered: missing, out of order, *)
(* or outside of it (the loop over the boundaries, exporter.py).           *)
THEOREM CutIsPartition ==
  ASSUME NEW e, Marked(e)
  PROVE  /\ Cut(e)[1].from = GenStart(e) /\ Cut(e)[5].to = GenEnd(e)
         /\ \A i \in 1..4 : Cut(e)[i].to = Cut(e)[i + 1].from
         /\ \A i \in 1..5 : /\ Cut(e)[i].from \in GenStart(e)..GenEnd(e)
                            /\ Cut(e)[i].to \in GenStart(e)..GenEnd(e)
                            /\ Cut(e)[i].from <= Cut(e)[i].to
<1> DEFINE b  == Boundaries(e)
           gs == GenStart(e)
           ge == GenEnd(e)
           Ends(f, i) == Greater(Greater(b[i].from, f[i - 1]), Lesser(b[i].to, ge))
           F(f) == [i \in 0..5 |->
                      IF i = 0 THEN gs
                      ELSE Greater(Greater(b[i].from, f[i - 1]), Lesser(b[i].to, ge))]
           seen == CHOOSE f : f = F(f)
<1>1. /\ gs \in Int /\ ge \in Int /\ gs <= ge
      /\ \A i \in 1..5 : b[i].from \in gs..ge /\ b[i].to \in gs..ge
      /\ \A i \in 1..4 : b[i].to = b[i + 1].from
      /\ b[1].from = gs /\ b[5].to = ge
  BY MarksAreIntegers, BoundariesMeet
<1>2. Cut(e) = [i \in 1..5 |-> [id |-> b[i].id, parent |-> "gen", of |-> b[i].of,
                                from |-> Greater(b[i].from, seen[i - 1]),
                                to |-> seen[i]]]
  BY DEF Cut
<1> HIDE DEF b, gs, ge
<1>3. seen = F(seen)
  <2> DEFINE N(i, before) == Greater(Greater(b[i].from, before), Lesser(b[i].to, ge))
             s1 == N(1, gs)  s2 == N(2, s1)  s3 == N(3, s2)
             s4 == N(4, s3)  s5 == N(5, s4)
             g == [i \in 0..5 |-> IF i = 0 THEN gs ELSE IF i = 1 THEN s1
                                  ELSE IF i = 2 THEN s2 ELSE IF i = 3 THEN s3
                                  ELSE IF i = 4 THEN s4 ELSE s5]
  <2>1. g = F(g)
    <3>1. /\ s1 = Ends(g, 1) /\ s2 = Ends(g, 2) /\ s3 = Ends(g, 3)
          /\ s4 = Ends(g, 4) /\ s5 = Ends(g, 5)
      <4> HIDE DEF s1, s2, s3, s4, s5
      <4>1. /\ g[0] = gs /\ g[1] = s1 /\ g[2] = s2 /\ g[3] = s3 /\ g[4] = s4
            /\ 1 - 1 = 0 /\ 2 - 1 = 1 /\ 3 - 1 = 2 /\ 4 - 1 = 3 /\ 5 - 1 = 4
        OBVIOUS
      <4> HIDE DEF g
      <4> QED
        BY <4>1 DEF s1, s2, s3, s4, s5
    <3> HIDE DEF s1, s2, s3, s4, s5, Ends
    <3>2. \A i \in 0..5 : g[i] = IF i = 0 THEN gs ELSE Ends(g, i)
      <4>1. /\ g[0] = gs /\ g[1] = s1 /\ g[2] = s2 /\ g[3] = s3 /\ g[4] = s4
            /\ g[5] = s5
        OBVIOUS
      <4>2. 0..5 = {0, 1, 2, 3, 4, 5}
        OBVIOUS
      <4> HIDE DEF g
      <4> QED
        BY <3>1, <4>1, <4>2
    <3>3. g = [i \in 0..5 |-> g[i]]
      OBVIOUS
    <3> HIDE DEF g
    <3>4. g = [i \in 0..5 |-> IF i = 0 THEN gs ELSE Ends(g, i)]
      BY <3>2, <3>3
    <3> QED
      BY <3>4 DEF Ends
  <2> HIDE DEF F, g
  <2> QED
    BY <2>1
<1> HIDE DEF seen
<1>4. seen[0] = gs /\ \A i \in 1..5 : seen[i] = Ends(seen, i)
  BY <1>3
<1>5. \A i \in 1..5 : seen[i - 1] \in gs..ge =>
        /\ seen[i] \in gs..ge /\ seen[i] >= seen[i - 1] /\ seen[i] >= b[i].to
        /\ seen[i] >= Greater(b[i].from, seen[i - 1])
  BY <1>1, <1>4 DEF Greater, Lesser
<1>6. /\ seen[0] \in gs..ge /\ seen[1] \in gs..ge /\ seen[2] \in gs..ge
      /\ seen[3] \in gs..ge /\ seen[4] \in gs..ge /\ seen[5] \in gs..ge
  <2>1. seen[0] \in gs..ge
    BY <1>1, <1>4
  <2>2. seen[1] \in gs..ge
    BY <1>5, <2>1
  <2>3. seen[2] \in gs..ge
    BY <1>5, <2>2
  <2>4. seen[3] \in gs..ge
    BY <1>5, <2>3
  <2>5. seen[4] \in gs..ge
    BY <1>5, <2>4
  <2>6. seen[5] \in gs..ge
    BY <1>5, <2>5
  <2> QED
    BY <2>1, <2>2, <2>3, <2>4, <2>5, <2>6
<1>7. \A i \in 0..5 : seen[i] \in gs..ge
  BY <1>6
<1>8. \A i \in 1..5 : /\ Cut(e)[i].from = Greater(b[i].from, seen[i - 1])
                      /\ Cut(e)[i].to = seen[i]
  BY <1>2
<1>9. \A i \in 1..5 : seen[i] >= b[i].to /\ seen[i] >= Greater(b[i].from, seen[i - 1])
  <2> TAKE i \in 1..5
  <2>1. i - 1 \in 0..5
    OBVIOUS
  <2> QED
    BY <1>5, <1>7, <2>1
<1>10. Cut(e)[1].from = gs
  BY <1>1, <1>4, <1>8 DEF Greater
<1>11. Cut(e)[5].to = ge
  BY <1>1, <1>6, <1>8, <1>9
<1>12. \A i \in 1..4 : Cut(e)[i].to = Cut(e)[i + 1].from
  <2> TAKE i \in 1..4
  <2>1. i \in 1..5 /\ i + 1 \in 1..5 /\ i + 1 - 1 = i
    OBVIOUS
  <2>2. b[i + 1].from = b[i].to /\ seen[i] >= b[i].to /\ seen[i] \in Int /\ b[i].to \in Int
    BY <1>1, <1>7, <1>9, <2>1
  <2>3. Greater(b[i + 1].from, seen[i]) = seen[i]
    BY <2>2 DEF Greater
  <2> QED
    BY <1>8, <2>1, <2>3
<1>13. \A i \in 1..5 : Cut(e)[i].from <= Cut(e)[i].to
  BY <1>8, <1>9
<1>14. \A i \in 1..5 : Cut(e)[i].from \in gs..ge /\ Cut(e)[i].to \in gs..ge
  <2> TAKE i \in 1..5
  <2>1. i - 1 \in 0..5 /\ i \in 0..5
    OBVIOUS
  <2> QED
    BY <1>1, <1>7, <1>8, <2>1 DEF Greater
<1> QED
  BY <1>10, <1>11, <1>12, <1>13, <1>14 DEF gs, ge

-----------------------------------------------------------------------------
(* Listing. *)

(* What the code's filters and its sort need of the positions: before is   *)
(* a strict total order.                                                   *)
Orders(before, I) ==
  /\ before \in [I -> SUBSET I]
  /\ \A i \in I : i \notin before[i]
  /\ \A i, j \in I : j \in before[i] => before[j] \subseteq before[i]
  /\ \A i, j \in I : i # j => i \in before[j] \/ j \in before[i]

(* The order lists every position once, and in order. *)
LEMMA OrderLists ==
  ASSUME NEW I, IsFiniteSet(I), NEW before, Orders(before, I)
  PROVE  /\ Cardinality(I) \in Nat
         /\ Order(before) \in [1..Cardinality(I) -> I]
         /\ \A i \in I : \E k \in 1..Cardinality(I) : Order(before)[k] = i
         /\ \A k, l \in 1..Cardinality(I) :
              k < l => Order(before)[k] \in before[Order(before)[l]]
<1> DEFINE n == Cardinality(I)
           rank == [i \in I |-> Cardinality(before[i]) + 1]
<1>1. n \in Nat /\ \A S \in SUBSET I : IsFiniteSet(S) /\ Cardinality(S) \in Nat
  BY FS_CardinalityType, FS_Subset
<1>2. DOMAIN before = I /\ \A i \in I : before[i] \in SUBSET I
  BY DEF Orders
<1>3. \A i \in I : Cardinality(before[i]) < n
  <2> SUFFICES ASSUME NEW i \in I PROVE Cardinality(before[i]) < n
    OBVIOUS
  <2>1. before[i] # I /\ before[i] \in SUBSET I
    BY <1>2 DEF Orders
  <2>2. Cardinality(before[i]) <= n /\ Cardinality(before[i]) # n
    BY <2>1, FS_Subset
  <2> QED
    BY <1>1, <2>1, <2>2
<1>4. \A i, j \in I : i \in before[j] => Cardinality(before[i]) < Cardinality(before[j])
  <2> SUFFICES ASSUME NEW i \in I, NEW j \in I, i \in before[j]
               PROVE  Cardinality(before[i]) < Cardinality(before[j])
    OBVIOUS
  <2>1. before[i] \in SUBSET before[j] /\ before[i] # before[j]
    BY DEF Orders
  <2>2. IsFiniteSet(before[j])
    BY <1>1, <1>2
  <2>3. Cardinality(before[i]) <= Cardinality(before[j])
        /\ Cardinality(before[i]) # Cardinality(before[j])
    BY <2>1, <2>2, FS_Subset
  <2> QED
    BY <1>1, <1>2, <2>3
<1>5. rank \in [I -> 1..n] /\ \A i \in I : rank[i] = Cardinality(before[i]) + 1
  BY <1>1, <1>2, <1>3
<1> HIDE DEF rank
<1>6. \A i, j \in I : i # j => rank[i] # rank[j]
  <2> SUFFICES ASSUME NEW i \in I, NEW j \in I, i # j
               PROVE  rank[i] # rank[j]
    OBVIOUS
  <2>1. Cardinality(before[i]) \in Nat /\ Cardinality(before[j]) \in Nat
    BY <1>1, <1>2
  <2>2. i \in before[j] \/ j \in before[i]
    BY DEF Orders
  <2> QED
    BY <1>4, <1>5, <2>1, <2>2
<1>7. \A k \in 1..n : \E i \in I : rank[i] = k
  <2>1. rank \in Injection(I, 1..n)
    BY <1>5, <1>6 DEF Injection, IsInjective
  <2>2. IsFiniteSet(1..n) /\ Cardinality(1..n) = n
    BY <1>1, FS_Interval
  <2>3. rank \in Surjection(I, 1..n)
    BY <2>1, <2>2, FS_Injection
  <2> QED
    BY <2>3 DEF Surjection
<1>8. \A k \in 1..n : Order(before)[k] \in I /\ rank[Order(before)[k]] = k
  <2> SUFFICES ASSUME NEW k \in 1..n
               PROVE  Order(before)[k] \in I /\ rank[Order(before)[k]] = k
    OBVIOUS
  <2>1. Order(before)[k] = CHOOSE i \in I : Cardinality(before[i]) = k - 1
    BY <1>2 DEF Order
  <2>2. \E i \in I : Cardinality(before[i]) = k - 1
    BY <1>1, <1>2, <1>5, <1>7
  <2>3. Order(before)[k] \in I /\ Cardinality(before[Order(before)[k]]) = k - 1
    BY <2>1, <2>2
  <2> QED
    BY <1>1, <1>2, <1>5, <2>3
<1>9. Order(before) \in [1..n -> I]
  BY <1>2, <1>8 DEF Order
<1>10. \A i \in I : \E k \in 1..n : Order(before)[k] = i
  <2> SUFFICES ASSUME NEW i \in I PROVE \E k \in 1..n : Order(before)[k] = i
    OBVIOUS
  <2>1. rank[i] \in 1..n
    BY <1>5
  <2>2. Order(before)[rank[i]] = i
    BY <1>6, <1>8, <2>1
  <2> QED
    BY <2>1, <2>2
<1>11. \A k, l \in 1..n : k < l => Order(before)[k] \in before[Order(before)[l]]
  <2> SUFFICES ASSUME NEW k \in 1..n, NEW l \in 1..n, k < l
               PROVE  Order(before)[k] \in before[Order(before)[l]]
    OBVIOUS
  <2> DEFINE i == Order(before)[k]  j == Order(before)[l]
  <2>1. i \in I /\ j \in I /\ rank[i] = k /\ rank[j] = l
    BY <1>8
  <2> HIDE DEF i, j
  <2>2. i # j
    BY <2>1
  <2>3. CASE j \in before[i]
    <3>1. Cardinality(before[j]) < Cardinality(before[i])
      BY <1>4, <2>1, <2>3
    <3>2. Cardinality(before[i]) \in Nat /\ Cardinality(before[j]) \in Nat
      BY <1>1, <1>2, <2>1
    <3> QED
      BY <1>5, <2>1, <3>1, <3>2
  <2>4. i \in before[j] \/ j \in before[i]
    BY <2>1, <2>2 DEF Orders
  <2> QED
    BY <2>3, <2>4 DEF i, j
<1> QED
  BY <1>1, <1>9, <1>10, <1>11

(* What a filter leaves: the kept positions, each once, in their order. *)
LEMMA KeptFacts ==
  ASSUME NEW s, Len(s) \in Nat, NEW I \in SUBSET (1..Len(s))
  PROVE  /\ Len(Kept(s, I)) \in Nat
         /\ DOMAIN Kept(s, I) = 1..Len(Kept(s, I))
         /\ \E o \in [1..Len(Kept(s, I)) -> I] :
              /\ \A k \in 1..Len(Kept(s, I)) : Kept(s, I)[k] = s[o[k]]
              /\ \A i \in I : \E k \in 1..Len(Kept(s, I)) : o[k] = i
              /\ \A k, l \in 1..Len(Kept(s, I)) : k < l => o[k] < o[l]
<1> DEFINE before == [i \in I |-> {j \in I : j < i}]
           o == Order(before)
<1>1. IsFiniteSet(I)
  <2>1. IsFiniteSet(1..Len(s))
    BY FS_Interval
  <2> QED
    BY <2>1, FS_Subset
<1>2. Orders(before, I)
  <2>1. \A i \in I : i \in Int /\ before[i] = {j \in I : j < i}
    OBVIOUS
  <2>2. before \in [I -> SUBSET I]
    OBVIOUS
  <2> HIDE DEF before
  <2>3. ASSUME NEW i \in I, NEW j \in I, j \in before[i]
        PROVE  before[j] \subseteq before[i]
    <3> SUFFICES ASSUME NEW k \in before[j] PROVE k \in before[i]
      OBVIOUS
    <3>1. k \in I /\ k < j /\ j < i
      BY <2>1, <2>3
    <3>2. k < i
      BY <2>1, <3>1
    <3> QED
      BY <2>1, <3>1, <3>2
  <2>4. \A i, j \in I : i # j => i \in before[j] \/ j \in before[i]
    BY <2>1
  <2> QED
    BY <2>1, <2>2, <2>3, <2>4 DEF Orders
<1>3. DOMAIN before = I /\ \A i \in I : before[i] = {j \in I : j < i}
  OBVIOUS
<1>4. Kept(s, I) = [k \in 1..Cardinality(I) |-> s[o[k]]]
  BY <1>3 DEF Kept, Listed
<1> HIDE DEF before
<1>5. /\ Cardinality(I) \in Nat
      /\ o \in [1..Cardinality(I) -> I]
      /\ \A i \in I : \E k \in 1..Cardinality(I) : o[k] = i
      /\ \A k, l \in 1..Cardinality(I) : k < l => o[k] \in before[o[l]]
  BY <1>1, <1>2, OrderLists
<1> HIDE DEF o
<1>6. Len(Kept(s, I)) = Cardinality(I) /\ DOMAIN Kept(s, I) = 1..Cardinality(I)
  BY <1>4, <1>5
<1>7. \A k, l \in 1..Cardinality(I) : k < l => o[k] < o[l]
  <2> SUFFICES ASSUME NEW k \in 1..Cardinality(I), NEW l \in 1..Cardinality(I), k < l
               PROVE  o[k] < o[l]
    OBVIOUS
  <2>1. o[l] \in I /\ o[k] \in before[o[l]]
    BY <1>5
  <2> QED
    BY <1>3, <2>1
<1>8. \A k \in 1..Cardinality(I) : Kept(s, I)[k] = s[o[k]]
  BY <1>4
<1> QED
  BY <1>5, <1>6, <1>7, <1>8

(* The nodes, and what of a list of them does not depend on its order. *)
NodeRecords == [id : NodeIds, parent : NodeIds \cup {"none"}, from : Int, to : Int,
                of : {1, 2}]

Members(s) == {s[i] : i \in 1..Len(s)}

\* The ids that details cannot have.
Once == {"root", "api", "gen", "transfer"} \cup Parts

Single(s) == \A i, j \in 1..Len(s) : s[i].id = s[j].id /\ s[i].id \in Once => i = j

(* A filter keeps the nodes at the kept positions, and repeats none. *)
LEMMA KeptMembers ==
  ASSUME NEW R, NEW s \in Seq(R), NEW I \in SUBSET (1..Len(s))
  PROVE  /\ Kept(s, I) \in Seq(R)
         /\ Members(Kept(s, I)) = {s[i] : i \in I}
         /\ Single(s) => Single(Kept(s, I))
<1> DEFINE L == Kept(s, I)
<1>0. Len(s) \in Nat /\ \A i \in 1..Len(s) : s[i] \in R
  OBVIOUS
<1>1. PICK o \in [1..Len(L) -> I] :
        /\ \A k \in 1..Len(L) : L[k] = s[o[k]]
        /\ \A i \in I : \E k \in 1..Len(L) : o[k] = i
        /\ \A k, l \in 1..Len(L) : k < l => o[k] < o[l]
  BY KeptFacts
<1>2. Len(L) \in Nat /\ DOMAIN L = 1..Len(L)
  BY KeptFacts
<1>3. \A k \in 1..Len(L) : L[k] \in R /\ o[k] \in I /\ o[k] \in 1..Len(s)
  <2> HIDE DEF L
  <2>1. \A k \in 1..Len(L) : o[k] \in I
    OBVIOUS
  <2> QED
    BY <1>0, <1>1, <2>1
<1>4. L \in Seq(R)
  <2>1. L = [k \in 1..Len(L) |-> L[k]]
    <3>1. L = [k \in DOMAIN L |-> L[k]]
      BY DEF Kept, Listed
    <3> HIDE DEF L
    <3> QED
      BY <1>2, <3>1
  <2> HIDE DEF L
  <2> QED
    BY <1>2, <1>3, <2>1
<1> HIDE DEF L
<1>5. Members(L) = {s[i] : i \in I}
  <2>1. \A k \in 1..Len(L) : L[k] \in {s[i] : i \in I}
    BY <1>1, <1>3
  <2>2. \A i \in I : \E k \in 1..Len(L) : L[k] = s[i]
    BY <1>1
  <2> QED
    BY <2>1, <2>2 DEF Members
<1>6. Single(s) => Single(L)
  <2> SUFFICES ASSUME Single(s), NEW k \in 1..Len(L), NEW l \in 1..Len(L),
                      L[k].id = L[l].id, L[k].id \in Once
               PROVE  k = l
    BY DEF Single
  <2>1. o[k] = o[l]
    BY <1>1, <1>3 DEF Single
  <2>2. o[k] \in Int /\ o[l] \in Int
    BY <1>3
  <2> QED
    BY <1>1, <1>2, <2>1, <2>2
<1> QED
  BY <1>4, <1>5, <1>6 DEF L

(* Joining two lists joins what they hold. *)
LEMMA JoinMembers ==
  ASSUME NEW R, NEW s \in Seq(R), NEW t \in Seq(R)
  PROVE  /\ s \o t \in Seq(R)
         /\ Members(s \o t) = Members(s) \cup Members(t)
         /\ /\ Single(s) /\ Single(t)
            /\ \A x \in Members(s), y \in Members(t) : x.id = y.id => x.id \notin Once
            => Single(s \o t)
<1> DEFINE u == s \o t
<1>1. u \in Seq(R) /\ Len(u) = Len(s) + Len(t) /\ Len(s) \in Nat /\ Len(t) \in Nat
  OBVIOUS
<1>2. \A i \in 1..Len(u) : u[i] = IF i <= Len(s) THEN s[i] ELSE t[i - Len(s)]
  OBVIOUS
<1> HIDE DEF u
<1>3. Members(u) \subseteq Members(s) \cup Members(t)
  <2> SUFFICES ASSUME NEW i \in 1..Len(u) PROVE u[i] \in Members(s) \cup Members(t)
    BY DEF Members
  <2>1. i <= Len(s) => i \in 1..Len(s)
    BY <1>1
  <2>2. ~(i <= Len(s)) => i - Len(s) \in 1..Len(t)
    BY <1>1
  <2> QED
    BY <1>2, <2>1, <2>2 DEF Members
<1>4. Members(s) \subseteq Members(u)
  <2> SUFFICES ASSUME NEW i \in 1..Len(s) PROVE s[i] \in Members(u)
    BY DEF Members
  <2>1. i \in 1..Len(u) /\ i <= Len(s)
    BY <1>1
  <2> QED
    BY <1>2, <2>1 DEF Members
<1>5. Members(t) \subseteq Members(u)
  <2> SUFFICES ASSUME NEW i \in 1..Len(t) PROVE t[i] \in Members(u)
    BY DEF Members
  <2>1. i + Len(s) \in 1..Len(u) /\ ~(i + Len(s) <= Len(s)) /\ i + Len(s) - Len(s) = i
    BY <1>1
  <2> QED
    BY <1>2, <2>1 DEF Members
<1>6. ASSUME Single(s), Single(t),
             \A x \in Members(s), y \in Members(t) : x.id = y.id => x.id \notin Once
      PROVE  Single(u)
  <2> SUFFICES ASSUME NEW i \in 1..Len(u), NEW j \in 1..Len(u),
                      u[i].id = u[j].id, u[i].id \in Once
               PROVE  i = j
    BY DEF Single
  <2>1. \A k \in 1..Len(u) : /\ k <= Len(s) => k \in 1..Len(s)
                             /\ ~(k <= Len(s)) => k - Len(s) \in 1..Len(t)
    BY <1>1
  <2>2. CASE i <= Len(s) /\ j <= Len(s)
    BY <1>2, <1>6, <2>1, <2>2 DEF Single
  <2>3. CASE ~(i <= Len(s)) /\ ~(j <= Len(s))
    <3>1. i - Len(s) = j - Len(s)
      BY <1>2, <1>6, <2>1, <2>3 DEF Single
    <3> QED
      BY <1>1, <3>1
  <2>4. CASE i <= Len(s) /\ ~(j <= Len(s))
    <3>1. u[i] \in Members(s) /\ u[j] \in Members(t)
      BY <1>2, <2>1, <2>4 DEF Members
    <3> QED
      BY <1>6, <3>1
  <2>5. CASE ~(i <= Len(s)) /\ j <= Len(s)
    <3>1. u[j] \in Members(s) /\ u[i] \in Members(t)
      BY <1>2, <2>1, <2>5 DEF Members
    <3> QED
      BY <1>6, <3>1
  <2> QED
    BY <2>2, <2>3, <2>4, <2>5
<1> QED
  BY <1>1, <1>3, <1>4, <1>5, <1>6 DEF u

(* Where one node may stand before another. *)
InOrder(x, y) == x.from < y.from \/ (x.from = y.from /\ y.to <= x.to)

(* The sort keeps every node, and a node that begins earlier, or at the    *)
(* same instant and is longer, comes first.                                *)
LEMMA SortedMembers ==
  ASSUME NEW m \in Seq(NodeRecords)
  PROVE  /\ Sorted(m) \in Seq(NodeRecords)
         /\ Members(Sorted(m)) = Members(m)
         /\ Single(m) => Single(Sorted(m))
         /\ \A k, l \in 1..Len(Sorted(m)) : k < l => InOrder(Sorted(m)[k], Sorted(m)[l])
<1> DEFINE I == 1..Len(m)
           before == [i \in I |-> {j \in I : Before(m, j, i)}]
           o == Order(before)
           L == Sorted(m)
<1>0. Len(m) \in Nat /\ \A i \in I : m[i] \in NodeRecords
  OBVIOUS
<1>1. IsFiniteSet(I) /\ Cardinality(I) = Len(m)
  <2>1. 1 \in Int /\ Len(m) \in Int
    BY <1>0
  <2>2. /\ IsFiniteSet(1..Len(m))
        /\ Cardinality(1..Len(m)) = IF 1 > Len(m) THEN 0 ELSE Len(m) - 1 + 1
    BY <2>1, FS_Interval, Zenon
  <2> QED
    BY <1>0, <2>2
<1>2. \A i \in I : m[i].from \in Int /\ m[i].to \in Int /\ i \in Int
  BY <1>0 DEF NodeRecords
<1>3. \A i, j \in I : Before(m, i, j) <=>
        \/ m[i].from < m[j].from
        \/ m[i].from = m[j].from /\ m[j].to < m[i].to
        \/ m[i].from = m[j].from /\ m[j].to = m[i].to /\ i < j
  BY <1>2 DEF Before, Earlier, Longer
<1>4. before \in [I -> SUBSET I] /\ \A i, j \in I : j \in before[i] <=> Before(m, j, i)
  OBVIOUS
<1>5. Orders(before, I)
  <2> HIDE DEF before, I
  <2>1. \A i \in I : i \notin before[i]
    BY <1>2, <1>3, <1>4
  <2>2. ASSUME NEW i \in I, NEW j \in I, j \in before[i]
        PROVE  before[j] \subseteq before[i]
    <3> SUFFICES ASSUME NEW k \in before[j] PROVE k \in before[i]
      OBVIOUS
    <3>1. k \in I /\ Before(m, k, j) /\ Before(m, j, i)
      BY <1>4, <2>2
    <3>2. Before(m, k, i)
      BY <1>2, <1>3, <3>1
    <3> QED
      BY <1>4, <3>1, <3>2
  <2>3. \A i, j \in I : i # j => i \in before[j] \/ j \in before[i]
    BY <1>2, <1>3, <1>4
  <2> QED
    BY <1>4, <2>1, <2>2, <2>3 DEF Orders
<1>6. L = [k \in 1..Len(m) |-> m[o[k]]]
  BY <1>1 DEF Sorted, Listed
<1> HIDE DEF before
<1>7. /\ o \in [I -> I]
      /\ \A i \in I : \E k \in I : o[k] = i
      /\ \A k, l \in I : k < l => o[k] \in before[o[l]]
  <2>1. I = 1..Cardinality(I)
    BY <1>1
  <2> HIDE DEF I
  <2>2. /\ Order(before) \in [1..Cardinality(I) -> I]
        /\ \A i \in I : \E k \in 1..Cardinality(I) : Order(before)[k] = i
        /\ \A k, l \in 1..Cardinality(I) :
             k < l => Order(before)[k] \in before[Order(before)[l]]
    BY <1>1, <1>5, OrderLists
  <2> QED
    BY <2>1, <2>2
<1> HIDE DEF o, L
<1>8. Len(L) = Len(m) /\ \A k \in I : L[k] = m[o[k]] /\ o[k] \in I
  <2>1. Len(L) = Len(m) /\ \A k \in I : L[k] = m[o[k]]
    BY <1>0, <1>6
  <2> HIDE DEF I
  <2> QED
    BY <1>7, <2>1
<1>9. L \in Seq(NodeRecords)
  <2>1. \A k \in I : m[o[k]] \in NodeRecords
    BY <1>0, <1>7
  <2> QED
    BY <1>0, <1>6, <2>1
<1>10. Members(L) = Members(m)
  <2>1. \A k \in I : L[k] \in Members(m)
    BY <1>8 DEF Members
  <2>2. \A i \in I : \E k \in I : L[k] = m[i]
    BY <1>7, <1>8
  <2>3. Members(L) = {L[k] : k \in I}
    BY <1>8 DEF Members
  <2>4. Members(m) = {m[i] : i \in I}
    BY DEF Members
  <2> HIDE DEF I
  <2>5. \A x \in Members(L) : x \in Members(m)
    BY <2>1, <2>3
  <2>6. \A x \in Members(m) : x \in Members(L)
    BY <2>2, <2>3, <2>4
  <2> QED
    BY <2>5, <2>6
<1>11. \A k, l \in I : k < l => InOrder(L[k], L[l]) /\ o[k] # o[l]
  <2> SUFFICES ASSUME NEW k \in I, NEW l \in I, k < l
               PROVE  InOrder(L[k], L[l]) /\ o[k] # o[l]
    OBVIOUS
  <2>1. o[k] \in I /\ o[l] \in I /\ Before(m, o[k], o[l]) /\ L[k] = m[o[k]] /\ L[l] = m[o[l]]
    BY <1>4, <1>7, <1>8
  <2> HIDE DEF I
  <2> DEFINE x == o[k]  y == o[l]
  <2>2. x \in I /\ y \in I /\ Before(m, x, y)
    BY <2>1
  <2> HIDE DEF x, y
  <2>3. /\ m[x].from \in Int /\ m[x].to \in Int /\ x \in Int
        /\ m[y].from \in Int /\ m[y].to \in Int /\ y \in Int
    BY <1>2, <2>2
  <2>4. \/ m[x].from < m[y].from
        \/ m[x].from = m[y].from /\ m[y].to < m[x].to
        \/ m[x].from = m[y].from /\ m[y].to = m[x].to /\ x < y
    BY <1>3, <2>2
  <2>5. InOrder(m[x], m[y])
    BY <2>3, <2>4 DEF InOrder
  <2>6. x # y
    BY <2>3, <2>4
  <2> QED
    BY <2>1, <2>5, <2>6 DEF x, y
<1>12. Single(m) => Single(L)
  <2> SUFFICES ASSUME Single(m), NEW k \in I, NEW l \in I,
                      L[k].id = L[l].id, L[k].id \in Once
               PROVE  k = l
    BY <1>8 DEF Single
  <2>1. o[k] = o[l]
    BY <1>8 DEF Single
  <2> QED
    BY <1>0, <1>11, <2>1
<1> QED
  BY <1>8, <1>9, <1>10, <1>11, <1>12 DEF L

(* Intervals that are disjoint, in order, and each begin at the start or   *)
(* where another one ends, and end at the end or where another one begins. *)
Tiles(s, lo, hi) ==
  /\ \A i \in 1..Len(s) : /\ s[i].from \in lo..hi /\ s[i].to \in lo..hi
                          /\ s[i].from < s[i].to
  /\ \A i, j \in 1..Len(s) : /\ i < j => s[i].from <= s[j].from
                             /\ i # j => s[i].to <= s[j].from \/ s[j].to <= s[i].from
  /\ \A i \in 1..Len(s) :
       /\ s[i].from = lo \/ \E j \in 1..Len(s) : s[j].to = s[i].from
       /\ s[i].to = hi \/ \E j \in 1..Len(s) : s[j].from = s[i].to
  /\ Len(s) = 0 => lo = hi

(* Such intervals lie end to end. *)
LEMMA TilesEndToEnd ==
  ASSUME NEW s, Len(s) \in Nat, NEW lo \in Int, NEW hi \in Int, Tiles(s, lo, hi)
  PROVE  EndToEnd(s, lo, hi)
<1>1. \A i \in 1..Len(s) : /\ s[i].from \in Int /\ s[i].to \in Int
                           /\ lo <= s[i].from /\ s[i].to <= hi
                           /\ s[i].from < s[i].to
  BY DEF Tiles
<1>2. \A i, j \in 1..Len(s) : i < j => s[i].from <= s[j].from
  BY DEF Tiles
<1>3. ASSUME Len(s) > 0 PROVE s[1].from = lo
  <2> SUFFICES ASSUME s[1].from # lo PROVE FALSE
    OBVIOUS
  <2>0. 1 \in 1..Len(s)
    BY <1>3
  <2>1. PICK j \in 1..Len(s) : s[j].to = s[1].from
    BY <2>0 DEF Tiles
  <2>2. s[1].from <= s[j].from
    BY <1>1, <1>2, <2>0
  <2> QED
    BY <1>1, <2>0, <2>1, <2>2
<1>4. ASSUME Len(s) > 0 PROVE s[Len(s)].to = hi
  <2> SUFFICES ASSUME s[Len(s)].to # hi PROVE FALSE
    OBVIOUS
  <2>0. Len(s) \in 1..Len(s)
    BY <1>4
  <2>1. PICK j \in 1..Len(s) : s[j].from = s[Len(s)].to
    BY <2>0 DEF Tiles
  <2>2. s[j].from <= s[Len(s)].from
    BY <1>1, <1>2, <2>0
  <2> QED
    BY <1>1, <2>0, <2>1, <2>2
<1>5. ASSUME NEW i \in 1..(Len(s) - 1) PROVE s[i].to = s[i + 1].from
  <2>1. i \in 1..Len(s) /\ i + 1 \in 1..Len(s) /\ i < i + 1 /\ i # i + 1
    OBVIOUS
  <2>2. s[i].from <= s[i + 1].from
    BY <1>2, <2>1
  <2>3. s[i].to <= s[i + 1].from
    <3>1. s[i].to <= s[i + 1].from \/ s[i + 1].to <= s[i].from
      BY <2>1 DEF Tiles
    <3> QED
      BY <1>1, <2>1, <2>2, <3>1
  <2>4. s[i].to # hi
    BY <1>1, <2>1, <2>3
  <2>5. PICK j \in 1..Len(s) : s[j].from = s[i].to
    BY <2>1, <2>4 DEF Tiles
  <2>6. ~(j <= i)
    <3> SUFFICES ASSUME j <= i PROVE FALSE
      OBVIOUS
    <3>1. s[j].from <= s[i].from
      BY <1>1, <1>2, <2>1
    <3> QED
      BY <1>1, <2>1, <2>5, <3>1
  <2>7. s[i + 1].from <= s[j].from
    BY <1>1, <1>2, <2>1, <2>6
  <2> QED
    BY <1>1, <2>1, <2>3, <2>5, <2>7
<1>6. Len(s) = 0 => lo = hi
  BY DEF Tiles
<1> QED
  BY <1>3, <1>4, <1>5, <1>6 DEF EndToEnd

-----------------------------------------------------------------------------
(* The events.                                                             *)

Details == {d \in [id : DetailIds, name : DetailIds, from : Int, to : Int] :
              d.id = d.name}

(* What the timeline needs of an event: marks and details are integers, of *)
(* any order and any size, the generation lies inside the request.         *)
Recordable(e) ==
  /\ Marked(e)
  /\ ~HasGen(e) \/ (0 <= e.gs /\ e.ge <= End)
  /\ \A i \in 1..Len(e.stages) : e.stages[i].of \in {1, 2}
  /\ e.details \in Seq(Details)

(* The generation lies inside the request. *)
LEMMA GenerationInside ==
  ASSUME NEW e, Recordable(e)
  PROVE  /\ GenStart(e) \in Int /\ GenEnd(e) \in Int
         /\ 0 <= GenStart(e) /\ GenStart(e) <= GenEnd(e) /\ GenEnd(e) <= End
  BY DEF Recordable, Marked, HasGen, GenStart, GenEnd

(* The observations of an event, whatever is measured. *)
Observations == [name : {"queue", "prefill", "decode", "waiting"},
                 from : Int, to : Int, of : {1, 2}]

(* Four times in order are integers. *)
LEMMA QuadIntegers ==
  ASSUME NEW lo \in Int, NEW hi \in Int, NEW q \in Ordered4(lo, hi)
  PROVE  q[1] \in Int /\ q[2] \in Int /\ q[3] \in Int /\ q[4] \in Int
<1>1. PICK b \in Intervals(lo, hi) : q \in {<<b[1], c[1], c[2], b[2]>> : c \in Intervals(b[1], b[2])}
  BY DEF Ordered4
<1>2. b[1] \in Int /\ b[2] \in Int
  BY DEF Intervals
<1>3. PICK c \in Intervals(b[1], b[2]) : q = <<b[1], c[1], c[2], b[2]>>
  BY <1>1
<1>4. c[1] \in Int /\ c[2] \in Int
  BY <1>2 DEF Intervals
<1> QED
  BY <1>2, <1>3, <1>4

(* So are the two ends of an interval, which are in order. *)
LEMMA PairIntegers ==
  ASSUME NEW lo \in Int, NEW hi \in Int, NEW q \in Intervals(lo, hi)
  PROVE  q[1] \in Int /\ q[2] \in Int /\ lo <= q[1] /\ q[1] <= q[2] /\ q[2] <= hi
  BY DEF Intervals

(* What is measured for a generation are observations. *)
LEMMA MeasuredStages ==
  ASSUME NEW lo \in Int, NEW hi \in Int, NEW of \in {1, 2},
         NEW s \in Stats(lo, hi, of), NEW w \in Waits(lo, hi, of)
  PROVE  s \o w \in Seq(Observations)
<1>1. s \in Seq(Observations)
  <2>1. CASE s = <<>>
    BY <2>1
  <2>2. ASSUME NEW q \in Ordered4(lo, hi),
               s = << Obs("queue", <<q[1], q[2]>>, of),
                      Obs("prefill", <<q[2], q[3]>>, of),
                      Obs("decode", <<q[3], q[4]>>, of) >>
        PROVE  s \in Seq(Observations)
    <3>1. q[1] \in Int /\ q[2] \in Int /\ q[3] \in Int /\ q[4] \in Int
      BY QuadIntegers
    <3>2. /\ Obs("queue", <<q[1], q[2]>>, of) \in Observations
          /\ Obs("prefill", <<q[2], q[3]>>, of) \in Observations
          /\ Obs("decode", <<q[3], q[4]>>, of) \in Observations
      BY <3>1 DEF Obs, Observations
    <3> QED
      BY <2>2, <3>2
  <2> QED
    BY <2>1, <2>2 DEF Stats
<1>2. w \in Seq(Observations)
  <2>1. CASE w = <<>>
    BY <2>1
  <2>2. ASSUME NEW q \in Intervals(lo, hi), w = <<Obs("waiting", q, of)>>
        PROVE  w \in Seq(Observations)
    <3>1. Obs("waiting", q, of) \in Observations
      BY PairIntegers DEF Obs, Observations
    <3> QED
      BY <2>2, <3>1
  <2> QED
    BY <2>1, <2>2 DEF Waits
<1> QED
  BY <1>1, <1>2

(* The three details that are recorded are details. *)
LEMMA DetailIsDetail ==
  ASSUME NEW name \in {"output_processor_add", "submit_engine", "render_input"},
         NEW q, q[1] \in Int, q[2] \in Int
  PROVE  Detail(name, q) \in Details
  BY DEF Detail, Details, DetailIds, NestedNames

(* What the API records are details. *)
LEMMA MeasuredDetails ==
  ASSUME NEW lo \in Int, NEW hi \in Int,
         NEW d \in {<<>>} \cup Submission(lo, hi) \cup Rendering(hi)
  PROVE  d \in Seq(Details)
<1>1. CASE d = <<>>
  BY <1>1
<1>2. ASSUME NEW q \in Ordered4(lo, hi),
             d = << Detail("output_processor_add", <<q[2], q[3]>>),
                    Detail("submit_engine", <<q[1], q[4]>>) >>
      PROVE  d \in Seq(Details)
  <2>1. q[1] \in Int /\ q[2] \in Int /\ q[3] \in Int /\ q[4] \in Int
    BY QuadIntegers
  <2>2. /\ Detail("output_processor_add", <<q[2], q[3]>>) \in Details
        /\ Detail("submit_engine", <<q[1], q[4]>>) \in Details
    BY <2>1, DetailIsDetail
  <2> QED
    BY <1>2, <2>2
<1>3. ASSUME NEW q \in Intervals(0, hi), d = <<Detail("render_input", q)>>
      PROVE  d \in Seq(Details)
  <2>1. Detail("render_input", q) \in Details
    BY PairIntegers, DetailIsDetail
  <2> QED
    BY <1>3, <2>1
<1> QED
  BY <1>1, <1>2, <1>3 DEF Submission, Rendering

(* Every event that can be given to the timeline is one. *)
LEMMA RecordableEvent ==
  ASSUME NEW a \in Int, NEW b \in Int, a <= b, a = -1 \/ (0 <= a /\ b <= End),
         NEW s \in Seq(Observations), NEW d \in Seq(Details)
  PROVE  Recordable(Event(<<a, b>>, s, d))
<1> DEFINE e == Event(<<a, b>>, s, d)
           names == {"queue", "prefill", "decode", "waiting"}
<1>1. e.gs = a /\ e.ge = b /\ e.stages = s /\ e.details = d
  BY DEF Event
<1> HIDE DEF e
<1>2. \A i \in 1..Len(s) : s[i] \in Observations
  OBVIOUS
<1>3. s \in Seq([name : names, from : Int, to : Int, of : Int])
  <2> DEFINE R == [name : names, from : Int, to : Int, of : Int]
  <2>1. \A i \in 1..Len(s) : s[i] \in R
    BY <1>2 DEF Observations
  <2>2. s = [i \in 1..Len(s) |-> s[i]] /\ Len(s) \in Nat
    OBVIOUS
  <2> HIDE DEF R
  <2>3. [i \in 1..Len(s) |-> s[i]] \in Seq(R)
    BY <2>1, <2>2
  <2> QED
    BY <2>2, <2>3 DEF R
<1>4. Marked(e)
  BY <1>1, <1>3 DEF Marked
<1>5. \A i \in 1..Len(e.stages) : e.stages[i].of \in {1, 2}
  BY <1>1, <1>2 DEF Observations
<1> QED
  BY <1>1, <1>4, <1>5 DEF Recordable, HasGen, e

(* Every initial event is one that can be recorded. *)
LEMMA InitRecordable == Init => Recordable(in)
<1> SUFFICES ASSUME Init PROVE Recordable(in)
  OBVIOUS
<1>0. End \in Int /\ <<>> \in Seq(Observations) /\ <<>> \in Seq(Details)
  OBVIOUS
<1>1. CASE NoGeneration
  <2>1. PICK d \in Rendering(End) : in = Event(<<-1, -1>>, <<>>, d)
    BY <1>1 DEF NoGeneration
  <2>2. d \in Seq(Details)
    BY <1>0, MeasuredDetails
  <2>3. -1 \in Int /\ -1 <= -1
    OBVIOUS
  <2>4. Recordable(Event(<<-1, -1>>, <<>>, d))
    BY <1>0, <2>2, <2>3, RecordableEvent
  <2> QED
    BY <2>1, <2>4
<1>2. CASE OneGeneration
  <2>1. PICK g \in Intervals(0, End) :
          \E s \in Stats(g[1], g[2], 1), w \in Waits(g[1], g[2], 1),
             d \in {<<>>} \cup Submission(g[1], g[2]) \cup Rendering(g[1]) :
               in = Event(g, s \o w, d)
    BY <1>2 DEF OneGeneration
  <2>2. /\ g[1] \in Int /\ g[2] \in Int /\ 0 <= g[1] /\ g[1] <= g[2] /\ g[2] <= End
        /\ g = <<g[1], g[2]>>
    BY <1>0, PairIntegers DEF Intervals
  <2>3. PICK s \in Stats(g[1], g[2], 1), w \in Waits(g[1], g[2], 1),
             d \in {<<>>} \cup Submission(g[1], g[2]) \cup Rendering(g[1]) :
               in = Event(g, s \o w, d)
    BY <2>1
  <2>4. s \o w \in Seq(Observations)
    BY <2>2, MeasuredStages
  <2>5. d \in Seq(Details)
    BY <2>2, MeasuredDetails
  <2> QED
    BY <2>2, <2>3, <2>4, <2>5, RecordableEvent
<1>3. CASE TwoGenerations
  <2>1. PICK g \in Intervals(0, End) :
          \E s \in Stats(g[1], End, 2), w \in Waits(g[1], End, 2) :
               in = Event(g, s \o w, <<>>)
    BY <1>3 DEF TwoGenerations
  <2>2. /\ g[1] \in Int /\ g[2] \in Int /\ 0 <= g[1] /\ g[1] <= g[2] /\ g[2] <= End
        /\ g = <<g[1], g[2]>>
    BY <1>0, PairIntegers DEF Intervals
  <2>3. PICK s \in Stats(g[1], End, 2), w \in Waits(g[1], End, 2) :
               in = Event(g, s \o w, <<>>)
    BY <2>1
  <2>4. s \o w \in Seq(Observations)
    BY <1>0, <2>2, MeasuredStages
  <2> QED
    BY <1>0, <2>2, <2>3, <2>4, RecordableEvent
<1> QED
  BY <1>1, <1>2, <1>3 DEF Init

-----------------------------------------------------------------------------
(* The nodes. *)

(* A segment belongs to one of the two generations. *)
LEMMA OwnerFacts ==
  ASSUME NEW e, Recordable(e), NEW name
  PROVE  Owner(e, name) \in {1, 2}
<1>1. CASE Has(e, name)
  <2>1. PICK i \in 1..Len(e.stages) : Stage(e, name) = e.stages[i]
    BY <1>1, StageIsLast DEF Recordable
  <2> QED
    BY <1>1, <2>1 DEF Owner, Recordable
<1>2. CASE ~Has(e, name)
  BY <1>2 DEF Owner
<1> QED
  BY <1>1, <1>2

(* The five segments are nodes below the generation, one of each name. *)
LEMMA CutNodes ==
  ASSUME NEW e, Recordable(e)
  PROVE  /\ Len(Cut(e)) = 5 /\ Cut(e) \in Seq(NodeRecords)
         /\ \A i \in 1..5 : Cut(e)[i].parent = "gen" /\ Cut(e)[i].id \in Parts
         /\ Single(Cut(e))
<1>1. /\ Boundaries(e)[1].id = "handoff" /\ Boundaries(e)[1].of \in {1, 2}
      /\ Boundaries(e)[2].id = "waiting" /\ Boundaries(e)[2].of \in {1, 2}
      /\ Boundaries(e)[3].id = "prefill" /\ Boundaries(e)[3].of \in {1, 2}
      /\ Boundaries(e)[4].id = "decode" /\ Boundaries(e)[4].of \in {1, 2}
      /\ Boundaries(e)[5].id = "finalize" /\ Boundaries(e)[5].of \in {1, 2}
  BY OwnerFacts DEF Boundaries
<1>2. /\ DOMAIN Cut(e) = 1..5 /\ Cut(e) = [i \in 1..5 |-> Cut(e)[i]]
      /\ \A i \in 1..5 : /\ Cut(e)[i] = [id |-> Cut(e)[i].id, parent |-> Cut(e)[i].parent,
                                       of |-> Cut(e)[i].of, from |-> Cut(e)[i].from,
                                       to |-> Cut(e)[i].to]
                         /\ Cut(e)[i].id = Boundaries(e)[i].id
                         /\ Cut(e)[i].of = Boundaries(e)[i].of
                         /\ Cut(e)[i].parent = "gen"
  BY DEF Cut
<1>3. \A i \in 1..5 : Cut(e)[i].from \in Int /\ Cut(e)[i].to \in Int
  BY CutIsPartition, GenerationInside DEF Recordable
<1>4. 1..5 = {1, 2, 3, 4, 5}
  OBVIOUS
<1>5. \A i \in 1..5 : Cut(e)[i].id \in Parts /\ Cut(e)[i].of \in {1, 2}
  BY <1>1, <1>2, <1>4 DEF Parts
<1>6. \A i \in 1..5 : Cut(e)[i] \in NodeRecords
  BY <1>2, <1>3, <1>5 DEF NodeRecords, NodeIds
<1>7. Cut(e) \in Seq(NodeRecords) /\ Len(Cut(e)) = 5
  BY <1>2, <1>6
<1>8. \A i, j \in 1..5 : Cut(e)[i].id = Cut(e)[j].id => i = j
  <2>1. \A i, j \in 1..5 : Boundaries(e)[i].id = Boundaries(e)[j].id => i = j
    BY <1>1, <1>4
  <2> QED
    BY <1>2, <2>1
<1> QED
  BY <1>2, <1>5, <1>7, <1>8 DEF Single

(* The segments that are shown are those of a positive duration. *)
LEMMA SegmentNodes ==
  ASSUME NEW e, Recordable(e)
  PROVE  /\ Segments(e) \in Seq(NodeRecords) /\ Single(Segments(e))
         /\ Members(Segments(e)) =
              IF HasGen(e) THEN {Cut(e)[i] : i \in {i \in 1..5 : Positive(Cut(e)[i])}}
                           ELSE {}
         /\ \A x \in Members(Segments(e)) :
              /\ HasGen(e) /\ x.parent = "gen" /\ x.id \in Parts /\ Positive(x)
              /\ GenStart(e) <= x.from /\ x.to <= GenEnd(e)
<1>1. CASE HasGen(e)
  <2> DEFINE I == {i \in 1..5 : Positive(Cut(e)[i])}
  <2>1. Segments(e) = Kept(Cut(e), I)
    BY <1>1, CutNodes DEF Segments, Positives
  <2>2. I \in SUBSET (1..Len(Cut(e))) /\ Cut(e) \in Seq(NodeRecords)
    BY CutNodes
  <2>3. /\ Segments(e) \in Seq(NodeRecords) /\ Single(Segments(e))
        /\ Members(Segments(e)) = {Cut(e)[i] : i \in I}
    <3>1. Single(Cut(e))
      BY CutNodes
    <3> HIDE DEF I
    <3>2. /\ Kept(Cut(e), I) \in Seq(NodeRecords) /\ Single(Kept(Cut(e), I))
          /\ Members(Kept(Cut(e), I)) = {Cut(e)[i] : i \in I}
      BY <2>2, <3>1, KeptMembers
    <3> QED
      BY <2>1, <3>2
  <2>4. ASSUME NEW i \in I
        PROVE  /\ Cut(e)[i].parent = "gen" /\ Cut(e)[i].id \in Parts
               /\ Positive(Cut(e)[i])
               /\ GenStart(e) <= Cut(e)[i].from /\ Cut(e)[i].to <= GenEnd(e)
    <3>1. i \in 1..5 /\ Positive(Cut(e)[i])
      OBVIOUS
    <3>2. Cut(e)[i].parent = "gen" /\ Cut(e)[i].id \in Parts
      BY <3>1, CutNodes
    <3>3. GenStart(e) <= Cut(e)[i].from /\ Cut(e)[i].to <= GenEnd(e)
      BY <1>1, <3>1, CutIsPartition, GenerationInside DEF Recordable
    <3> QED
      BY <3>1, <3>2, <3>3
  <2>5. \A x \in {Cut(e)[i] : i \in I} :
          /\ x.parent = "gen" /\ x.id \in Parts /\ Positive(x)
          /\ GenStart(e) <= x.from /\ x.to <= GenEnd(e)
    BY <2>4
  <2> QED
    BY <1>1, <2>3, <2>5
<1>2. CASE ~HasGen(e)
  <2>1. Segments(e) = <<>>
    BY <1>2 DEF Segments
  <2> QED
    BY <1>2, <2>1 DEF Members, Single
<1> QED
  BY <1>1, <1>2

(* A node made of its parts has these parts. *)
LEMMA NodeFacts ==
  ASSUME NEW id \in NodeIds, NEW parent \in NodeIds,
         NEW from \in Int, NEW to \in Int
  PROVE  /\ Node(id, parent, from, to) \in NodeRecords
         /\ Node(id, parent, from, to).id = id
         /\ Node(id, parent, from, to).parent = parent
         /\ Node(id, parent, from, to).from = from
         /\ Node(id, parent, from, to).to = to
         /\ Node(id, parent, from, to).of = 1
  BY DEF Node, NodeRecords

\* The generation's node.
GenNode(e) == Node("gen", "root", GenStart(e), GenEnd(e))

(* The nodes every timeline has, and where they lie. *)
LEMMA FixedNodes ==
  ASSUME NEW e, Recordable(e)
  PROVE  /\ Root \in NodeRecords /\ Root.id = "root" /\ Root.parent = "none"
         /\ Root.from = 0 /\ Root.to = End
         /\ Api(e) \in NodeRecords /\ Api(e).id = "api" /\ Api(e).parent = "root"
         /\ Api(e).from = 0 /\ Api(e).to = GenStart(e)
         /\ Transfer(e) \in NodeRecords /\ Transfer(e).id = "transfer"
         /\ Transfer(e).parent = "root"
         /\ Transfer(e).from = GenEnd(e) /\ Transfer(e).to = End
         /\ GenNode(e) \in NodeRecords /\ GenNode(e).id = "gen"
         /\ GenNode(e).parent = "root"
         /\ GenNode(e).from = GenStart(e) /\ GenNode(e).to = GenEnd(e)
<1>1. /\ "root" \in NodeIds /\ "api" \in NodeIds /\ "transfer" \in NodeIds
      /\ "gen" \in NodeIds /\ "none" \in NodeIds \cup {"none"}
  BY DEF NodeIds
<1>2. 0 \in Int /\ End \in Int /\ GenStart(e) \in Int /\ GenEnd(e) \in Int
  BY GenerationInside
<1>3. /\ Root \in NodeRecords /\ Root.id = "root" /\ Root.parent = "none"
      /\ Root.from = 0 /\ Root.to = End
  <2>1. Root = [id |-> "root", parent |-> "none", from |-> 0, to |-> End, of |-> 1]
    BY DEF Root, Node
  <2> QED
    BY <1>1, <1>2, <2>1 DEF NodeRecords
<1>4. /\ Api(e) \in NodeRecords /\ Api(e).id = "api" /\ Api(e).parent = "root"
      /\ Api(e).from = 0 /\ Api(e).to = GenStart(e)
  BY <1>1, <1>2, NodeFacts DEF Api
<1>5. /\ Transfer(e) \in NodeRecords /\ Transfer(e).id = "transfer"
      /\ Transfer(e).parent = "root"
      /\ Transfer(e).from = GenEnd(e) /\ Transfer(e).to = End
  BY <1>1, <1>2, NodeFacts DEF Transfer
<1>6. /\ GenNode(e) \in NodeRecords /\ GenNode(e).id = "gen"
      /\ GenNode(e).parent = "root"
      /\ GenNode(e).from = GenStart(e) /\ GenNode(e).to = GenEnd(e)
  BY <1>1, <1>2, NodeFacts DEF GenNode
<1> QED
  BY <1>3, <1>4, <1>5, <1>6

(* Where a detail may be placed. *)
IsContainer(e, c) == c = Api(e) \/ c = Transfer(e) \/ c \in Members(Segments(e))

(* A list of one or two nodes. *)
LEMMA ShortLists ==
  ASSUME NEW x \in NodeRecords, NEW y \in NodeRecords
  PROVE  /\ <<x>> \in Seq(NodeRecords) /\ Members(<<x>>) = {x} /\ Single(<<x>>)
         /\ <<x, y>> \in Seq(NodeRecords) /\ Members(<<x, y>>) = {x, y}
         /\ <<>> \in Seq(NodeRecords) /\ Members(<<>>) = {} /\ Single(<<>>)
<1>1. Members(<<x>>) = {x} /\ Single(<<x>>)
  <2>1. Len(<<x>>) = 1 /\ 1..1 = {1} /\ <<x>>[1] = x
    OBVIOUS
  <2> QED
    BY <2>1 DEF Members, Single
<1>2. Members(<<x, y>>) = {x, y}
  <2>1. Len(<<x, y>>) = 2 /\ 1..2 = {1, 2} /\ <<x, y>>[1] = x /\ <<x, y>>[2] = y
    OBVIOUS
  <2> QED
    BY <2>1 DEF Members
<1>3. Members(<<>>) = {} /\ Single(<<>>)
  BY DEF Members, Single
<1> QED
  BY <1>1, <1>2, <1>3

(* The containers are nodes of the timeline. *)
LEMMA ContainerFacts ==
  ASSUME NEW e, Recordable(e)
  PROVE  /\ Len(Containers(e)) \in Nat
         /\ \A k \in 1..Len(Containers(e)) :
              /\ Containers(e)[k] \in NodeRecords
              /\ IsContainer(e, Containers(e)[k])
<1> DEFINE a == <<Api(e), Transfer(e)>>
<1>1. a \in Seq(NodeRecords) /\ Members(a) = {Api(e), Transfer(e)}
  BY FixedNodes, ShortLists
<1>2. Segments(e) \in Seq(NodeRecords)
  BY SegmentNodes
<1>3. Containers(e) = a \o Segments(e)
  BY DEF Containers
<1> HIDE DEF a
<1>4. /\ Containers(e) \in Seq(NodeRecords)
      /\ Members(Containers(e)) = Members(a) \cup Members(Segments(e))
  BY <1>1, <1>2, <1>3, JoinMembers
<1>5. \A k \in 1..Len(Containers(e)) : Containers(e)[k] \in Members(Containers(e))
  BY DEF Members
<1> QED
  BY <1>1, <1>4, <1>5 DEF IsContainer

(* A detail that has a container is inside one. *)
LEMMA ContainerOfFacts ==
  ASSUME NEW e, Recordable(e), NEW d, ContainerOf(e, d) # 0
  PROVE  ContainerOf(e, d) \in 1..Len(Containers(e))
<1> DEFINE mid == (d.from + d.to) \div 2
           I == {i \in 1..Len(Containers(e)) :
                  Containers(e)[i].from <= mid /\ mid < Containers(e)[i].to}
<1>1. I # {} /\ ContainerOf(e, d) = Min(I)
  BY DEF ContainerOf, SelectInSeq
<1>2. I \subseteq 1..Len(Containers(e)) /\ Len(Containers(e)) \in Nat
  BY ContainerFacts
<1> HIDE DEF I
<1>3. Min(I) \in I
  BY <1>1, <1>2, FirstPosition
<1> QED
  BY <1>1, <1>2, <1>3

\* Node y contains x.
Covers(y, x) == y.from <= x.from /\ x.to <= y.to

(* A placed detail lies inside the container that is its parent. *)
LEMMA PlacedFacts ==
  ASSUME NEW e, Recordable(e)
  PROVE  /\ Len(Placed(e)) \in Nat
         /\ \A i \in 1..Len(Placed(e)) :
              /\ Placed(e)[i].id \in DetailIds /\ Placed(e)[i].name = Placed(e)[i].id
              /\ Placed(e)[i].from \in Int /\ Placed(e)[i].to \in Int
              /\ Positive(Placed(e)[i])
              /\ \E c \in NodeRecords : /\ IsContainer(e, c)
                                        /\ Placed(e)[i].parent = c.id
                                        /\ Covers(c, Placed(e)[i])
<1> DEFINE I == {i \in 1..Len(e.details) : ContainerOf(e, e.details[i]) # 0}
           inside == Kept(e.details, I)
           q == [i \in 1..Len(inside) |-> Place(e, inside[i])]
           J == {i \in 1..Len(q) : Positive(q[i])}
<1>1. e.details \in Seq(Details) /\ I \in SUBSET (1..Len(e.details))
  BY DEF Recordable
<1>2. Placed(e) = Kept(q, J)
  BY DEF Placed, Positives
<1> HIDE DEF I
<1>3. inside \in Seq(Details) /\ Members(inside) = {e.details[i] : i \in I}
  BY <1>1, KeptMembers
<1> HIDE DEF inside
<1>4. Len(inside) \in Nat /\ Len(q) = Len(inside)
  BY <1>3
<1>5. ASSUME NEW i \in 1..Len(inside)
      PROVE  /\ inside[i] \in Details
             /\ ContainerOf(e, inside[i]) \in 1..Len(Containers(e))
  <2>1. inside[i] \in Members(inside)
    BY DEF Members
  <2>2. ContainerOf(e, inside[i]) # 0
    BY <1>3, <2>1 DEF I
  <2> QED
    BY <1>3, <2>2, ContainerOfFacts
<1>6. ASSUME NEW i \in 1..Len(inside)
      PROVE  /\ q[i].id \in DetailIds /\ q[i].name = q[i].id
             /\ q[i].from \in Int /\ q[i].to \in Int
             /\ \E c \in NodeRecords :
                  IsContainer(e, c) /\ q[i].parent = c.id /\ Covers(c, q[i])
  <2> DEFINE d == inside[i]  c == Containers(e)[ContainerOf(e, inside[i])]
  <2>1. /\ d.id \in DetailIds /\ d.name = d.id /\ d.from \in Int /\ d.to \in Int
    BY <1>5 DEF Details
  <2>2. c \in NodeRecords /\ IsContainer(e, c) /\ c.from \in Int /\ c.to \in Int
    <3>1. c \in NodeRecords /\ IsContainer(e, c)
      BY <1>5, ContainerFacts
    <3> QED
      BY <3>1 DEF NodeRecords
  <2>3. q[i] = [id |-> d.id, name |-> d.name, parent |-> c.id, of |-> 1,
                from |-> Greater(d.from, c.from), to |-> Lesser(d.to, c.to)]
    BY DEF Place, ClippedFrom
  <2> HIDE DEF d, c, q
  <2>4. /\ q[i].id = d.id /\ q[i].name = d.name /\ q[i].parent = c.id
        /\ q[i].from = Greater(d.from, c.from) /\ q[i].to = Lesser(d.to, c.to)
    BY <2>3
  <2>5. /\ q[i].from \in Int /\ q[i].to \in Int /\ Covers(c, q[i])
    BY <2>1, <2>2, <2>4 DEF Greater, Lesser, Covers
  <2> QED
    BY <2>1, <2>2, <2>4, <2>5
<1> HIDE DEF q
<1>7. J \in SUBSET (1..Len(q)) /\ \A i \in J : Positive(q[i]) /\ i \in 1..Len(inside)
  BY <1>4
<1> HIDE DEF J
<1>8. /\ Len(Placed(e)) \in Nat
      /\ \A k \in 1..Len(Placed(e)) : \E i \in J : Placed(e)[k] = q[i]
  <2>1. Len(q) \in Nat /\ J \in SUBSET (1..Len(q))
    BY <1>4, <1>7
  <2>2. Len(Placed(e)) \in Nat
    BY <1>2, <2>1, KeptFacts
  <2>3. PICK o \in [1..Len(Placed(e)) -> J] :
          \A k \in 1..Len(Placed(e)) : Placed(e)[k] = q[o[k]]
    BY <1>2, <2>1, KeptFacts
  <2> QED
    BY <2>2, <2>3
<1> QED
  BY <1>6, <1>7, <1>8

(* A detail is placed in its container, or under the submission that       *)
(* contains it.                                                            *)
LEMMA DetailNodesFacts ==
  ASSUME NEW e, Recordable(e)
  PROVE  LET D == DetailNodes(Placed(e)) IN
         /\ D \in Seq(NodeRecords)
         /\ \A x \in Members(D) :
              /\ x.id \in DetailIds /\ x.parent # x.id /\ Positive(x) /\ x.of = 1
              /\ x.parent # "gen"
              /\ \E c \in NodeRecords : IsContainer(e, c) /\ Covers(c, x)
              /\ \/ \E c \in NodeRecords :
                      IsContainer(e, c) /\ x.parent = c.id /\ Covers(c, x)
                 \/ \E y \in Members(D) : x.parent = y.id /\ Covers(y, x)
<1> DEFINE p == Placed(e)  D == DetailNodes(p)
           s == Assigned(p, "submit_engine")
           Parent(i) == IF Nested(p, i) THEN p[s].id ELSE p[i].parent
<1>1. /\ Len(p) \in Nat
      /\ \A i \in 1..Len(p) :
           /\ p[i].id \in DetailIds /\ p[i].name = p[i].id
           /\ p[i].from \in Int /\ p[i].to \in Int /\ Positive(p[i])
           /\ \E c \in NodeRecords : /\ IsContainer(e, c) /\ p[i].parent = c.id
                                     /\ Covers(c, p[i])
  BY PlacedFacts
<1> HIDE DEF p
<1>2. D = [i \in 1..Len(p) |-> Node(p[i].id, Parent(i), p[i].from, p[i].to)]
  BY DEF DetailNodes
<1>3. \A c \in NodeRecords : IsContainer(e, c) =>
        c.id \in {"api", "transfer"} \cup Parts
  BY FixedNodes, SegmentNodes DEF IsContainer
<1>4. DetailIds \subseteq NodeIds /\ \A n \in DetailIds : n \notin Once /\ n # "gen"
  BY DEF DetailIds, NestedNames, NodeIds, Once, Parts
<1>5. s # 0 => s \in 1..Len(p) /\ p[s].name = "submit_engine"
  <2> DEFINE I == {i \in 1..Len(p) : p[i].name = "submit_engine"}
  <2>1. s = IF I # {} THEN Max(I) ELSE 0
    BY DEF Assigned, SelectLastInSeq
  <2>2. I \subseteq 1..Len(p)
    OBVIOUS
  <2> HIDE DEF I, s
  <2>3. I # {} => Max(I) \in I
    BY <1>1, <2>2, LastPosition
  <2> QED
    BY <2>1, <2>3 DEF I
<1>6. \A i \in 1..Len(p) : Nested(p, i) => /\ s # 0 /\ p[i].id # "submit_engine"
                                           /\ p[s].from <= p[i].from /\ p[i].to <= p[s].to
  BY <1>1 DEF Nested, NestedNames
<1> HIDE DEF s
<1>7. ASSUME NEW i \in 1..Len(p)
      PROVE  Parent(i) \in NodeIds /\ Parent(i) # p[i].id /\ Parent(i) # "gen"
  <2>1. CASE Nested(p, i)
    <3>1. p[s].id \in DetailIds /\ p[s].id = "submit_engine" /\ Parent(i) = p[s].id
      BY <1>1, <1>5, <1>6, <2>1
    <3> QED
      BY <1>4, <1>6, <2>1, <3>1
  <2>2. CASE ~Nested(p, i)
    <3>1. p[i].parent \in {"api", "transfer"} \cup Parts
      BY <1>1, <1>3
    <3>2. p[i].parent \in NodeIds /\ p[i].parent \in Once /\ p[i].parent # "gen"
      BY <3>1 DEF NodeIds, Once, Parts
    <3> QED
      BY <1>1, <1>4, <2>2, <3>2
  <2> QED
    BY <2>1, <2>2
<1> HIDE DEF Parent
<1>8. ASSUME NEW i \in 1..Len(p)
      PROVE  /\ D[i] \in NodeRecords /\ D[i].id = p[i].id /\ D[i].parent = Parent(i)
             /\ D[i].from = p[i].from /\ D[i].to = p[i].to /\ D[i].of = 1
  <2>1. D[i] = Node(p[i].id, Parent(i), p[i].from, p[i].to)
    BY <1>2
  <2>2. /\ p[i].id \in NodeIds /\ Parent(i) \in NodeIds
        /\ p[i].from \in Int /\ p[i].to \in Int
    BY <1>1, <1>4, <1>7
  <2> HIDE DEF D
  <2> QED
    BY <2>1, <2>2, NodeFacts
<1>9. D \in Seq(NodeRecords) /\ Len(D) = Len(p)
  <2>1. Len(D) = Len(p) /\ D = [i \in 1..Len(p) |-> D[i]]
    BY <1>1, <1>2
  <2> HIDE DEF D
  <2> QED
    BY <1>1, <1>8, <2>1
<1> HIDE DEF D
<1>10. ASSUME NEW i \in 1..Len(p)
       PROVE  /\ D[i].id \in DetailIds /\ D[i].parent # D[i].id /\ Positive(D[i])
              /\ D[i].of = 1 /\ D[i].parent # "gen"
              /\ \E c \in NodeRecords : IsContainer(e, c) /\ Covers(c, D[i])
              /\ \/ \E c \in NodeRecords :
                      IsContainer(e, c) /\ D[i].parent = c.id /\ Covers(c, D[i])
                 \/ \E y \in Members(D) : D[i].parent = y.id /\ Covers(y, D[i])
  <2>1. D[i].id \in DetailIds /\ D[i].parent # D[i].id /\ D[i].of = 1
        /\ D[i].parent # "gen"
    BY <1>1, <1>7, <1>8
  <2>2. Positive(D[i])
    BY <1>1, <1>8 DEF Positive
  <2>3. PICK c \in NodeRecords : /\ IsContainer(e, c) /\ p[i].parent = c.id
                                 /\ Covers(c, p[i])
    BY <1>1
  <2>4. Covers(c, D[i])
    BY <1>8, <2>3 DEF Covers
  <2>5. CASE Nested(p, i)
    <3>1. s \in 1..Len(p) /\ D[i].parent = D[s].id /\ Covers(D[s], D[i])
      BY <1>5, <1>6, <1>8, <2>5 DEF Parent, Covers
    <3>2. D[s] \in Members(D)
      BY <1>9, <3>1 DEF Members
    <3> QED
      BY <2>1, <2>2, <2>3, <2>4, <3>1, <3>2
  <2>6. CASE ~Nested(p, i)
    <3>1. D[i].parent = c.id
      BY <1>8, <2>3, <2>6 DEF Parent
    <3> QED
      BY <2>1, <2>2, <2>3, <2>4, <3>1
  <2> QED
    BY <2>5, <2>6
<1>11. \A x \in Members(D) : \E i \in 1..Len(p) : x = D[i]
  BY <1>9 DEF Members
<1> QED
  BY <1>9, <1>10, <1>11 DEF D, p

(* The nodes below the root, before they are sorted. *)
TopNodes(e) == {Api(e)} \cup {x \in {Transfer(e)} : Positive(x)}
                        \cup {x \in {GenNode(e)} : HasGen(e)}

BelowRoot(e) == TopNodes(e) \cup Members(Segments(e))
                            \cup Members(DetailNodes(Placed(e)))

(* The list that is sorted holds every node below the root, once. *)
LEMMA UnsortedFacts ==
  ASSUME NEW e, Recordable(e)
  PROVE  /\ Unsorted(e) \in Seq(NodeRecords)
         /\ Members(Unsorted(e)) = BelowRoot(e)
         /\ Single(Unsorted(e))
<1> DEFINE a == <<Api(e)>>
           t == IF Positive(Transfer(e)) THEN <<Transfer(e)>> ELSE <<>>
           g == Gen(e)  s == Segments(e)  d == DetailNodes(Placed(e))
<1>1. Unsorted(e) = a \o t \o g \o s \o d
  BY DEF Unsorted
<1>2. a \in Seq(NodeRecords) /\ Single(a) /\ Members(a) = {Api(e)}
  BY FixedNodes, ShortLists
<1>3. /\ t \in Seq(NodeRecords) /\ Single(t)
      /\ Members(t) = {x \in {Transfer(e)} : Positive(x)}
  <2>1. CASE Positive(Transfer(e))
    <3>1. t = <<Transfer(e)>>
      BY <2>1
    <3>2. {x \in {Transfer(e)} : Positive(x)} = {Transfer(e)}
      BY <2>1
    <3>3. Transfer(e) \in NodeRecords
      BY FixedNodes
    <3> HIDE DEF t
    <3> QED
      BY <3>1, <3>2, <3>3, ShortLists
  <2>2. CASE ~Positive(Transfer(e))
    <3>1. t = <<>>
      BY <2>2
    <3> HIDE DEF t
    <3> QED
      BY <2>2, <3>1, FixedNodes, ShortLists
  <2> QED
    BY <2>1, <2>2
<1>4. /\ g \in Seq(NodeRecords) /\ Single(g)
      /\ Members(g) = {x \in {GenNode(e)} : HasGen(e)}
  <2>1. CASE HasGen(e)
    BY <2>1, FixedNodes, ShortLists DEF Gen, GenNode
  <2>2. CASE ~HasGen(e)
    BY <2>2, FixedNodes, ShortLists DEF Gen
  <2> QED
    BY <2>1, <2>2
<1>5. /\ s \in Seq(NodeRecords) /\ Single(s)
      /\ \A x \in Members(s) : x.id \in Parts
  BY SegmentNodes
<1>6. /\ d \in Seq(NodeRecords)
      /\ \A x \in Members(d) : x.id \in DetailIds
  BY DetailNodesFacts
<1>7. \A n \in DetailIds : n \notin Once
  BY DEF DetailIds, NestedNames, Once, Parts
<1>8. Single(d)
  <2>1. \A i \in 1..Len(d) : d[i].id \notin Once
    BY <1>6, <1>7 DEF Members
  <2> HIDE DEF d
  <2> QED
    BY <2>1 DEF Single
<1>9. /\ Api(e).id = "api" /\ Transfer(e).id = "transfer" /\ GenNode(e).id = "gen"
      /\ "api" \notin Parts /\ "transfer" \notin Parts /\ "gen" \notin Parts
  BY FixedNodes DEF Parts
<1> HIDE DEF a, t, g, s, d
<1> DEFINE at == a \o t  atg == at \o g  atgs == atg \o s  atgsd == atgs \o d
<1>10. /\ at \in Seq(NodeRecords) /\ Members(at) = Members(a) \cup Members(t)
       /\ Single(at)
  <2>1. \A x \in Members(a), y \in Members(t) : x.id # y.id
    BY <1>2, <1>3, <1>9
  <2> QED
    BY <1>2, <1>3, <2>1, JoinMembers
<1> HIDE DEF at
<1>11. /\ atg \in Seq(NodeRecords) /\ Members(atg) = Members(at) \cup Members(g)
       /\ Single(atg)
  <2>1. \A x \in Members(at), y \in Members(g) : x.id # y.id
    BY <1>2, <1>3, <1>4, <1>9, <1>10
  <2> QED
    BY <1>4, <1>10, <2>1, JoinMembers
<1> HIDE DEF atg
<1>12. /\ atgs \in Seq(NodeRecords) /\ Members(atgs) = Members(atg) \cup Members(s)
       /\ Single(atgs)
  <2>1. \A x \in Members(atg), y \in Members(s) : x.id # y.id
    BY <1>2, <1>3, <1>4, <1>5, <1>9, <1>10, <1>11
  <2> QED
    BY <1>5, <1>11, <2>1, JoinMembers
<1> HIDE DEF atgs
<1>13. /\ atgsd \in Seq(NodeRecords) /\ Members(atgsd) = Members(atgs) \cup Members(d)
       /\ Single(atgsd)
  <2>1. \A x \in Members(atgs), y \in Members(d) : x.id = y.id => x.id \notin Once
    BY <1>6, <1>7
  <2> QED
    BY <1>6, <1>8, <1>12, <2>1, JoinMembers
<1>14. Members(a) \cup Members(t) \cup Members(g) = TopNodes(e)
  BY <1>2, <1>3, <1>4 DEF TopNodes
<1> QED
  BY <1>1, <1>10, <1>11, <1>12, <1>13, <1>14 DEF BelowRoot, s, d, at, atg, atgs

(* Every node lies inside the request, and none is its own parent. *)
LEMMA BelowRootFacts ==
  ASSUME NEW e, Recordable(e), NEW x \in BelowRoot(e)
  PROVE  /\ x \in NodeRecords /\ x.from \in 0..End /\ x.to \in 0..End
         /\ x.id # "root" /\ x.parent # "none" /\ x.parent # x.id
<1>0. /\ GenStart(e) \in Int /\ GenEnd(e) \in Int /\ 0 <= GenStart(e)
      /\ GenStart(e) <= GenEnd(e) /\ GenEnd(e) <= End /\ End \in Nat
  BY GenerationInside
<1>1. CASE x \in TopNodes(e)
  <2>1. x = Api(e) \/ x = Transfer(e) \/ x = GenNode(e)
    BY <1>1 DEF TopNodes
  <2> QED
    BY <1>0, <2>1, FixedNodes
<1>2. CASE x \in Members(Segments(e))
  <2>1. /\ x.parent = "gen" /\ x.id \in Parts /\ Positive(x)
        /\ GenStart(e) <= x.from /\ x.to <= GenEnd(e)
    BY <1>2, SegmentNodes
  <2>2. x \in NodeRecords
    BY <1>2, SegmentNodes DEF Members
  <2>3. x.from \in Int /\ x.to \in Int
    BY <2>2 DEF NodeRecords
  <2>4. x.from \in 0..End /\ x.to \in 0..End
    BY <1>0, <2>1, <2>3 DEF Positive
  <2> QED
    BY <2>1, <2>2, <2>4 DEF Parts
<1>3. CASE x \in Members(DetailNodes(Placed(e)))
  <2> DEFINE D == DetailNodes(Placed(e))
  <2>1. /\ x.id \in DetailIds /\ x.parent # x.id /\ Positive(x)
        /\ D \in Seq(NodeRecords)
    BY <1>3, DetailNodesFacts
  <2>2. x \in NodeRecords
    <3> HIDE DEF D
    <3> QED
      BY <1>3, <2>1 DEF Members, D
  <2>3. x.from \in Int /\ x.to \in Int
    BY <2>2 DEF NodeRecords
  <2>4. PICK c \in NodeRecords : IsContainer(e, c) /\ Covers(c, x)
    BY <1>3, DetailNodesFacts
  <2>5. c.from \in Int /\ c.to \in Int /\ 0 <= c.from /\ c.to <= End
    <3>1. c.from \in Int /\ c.to \in Int
      BY DEF NodeRecords
    <3>2. CASE c = Api(e) \/ c = Transfer(e)
      BY <1>0, <3>2, FixedNodes
    <3>3. CASE c \in Members(Segments(e))
      <4>1. GenStart(e) <= c.from /\ c.to <= GenEnd(e)
        BY <3>3, SegmentNodes
      <4> QED
        BY <1>0, <3>1, <4>1
    <3> QED
      BY <2>4, <3>2, <3>3 DEF IsContainer
  <2>6. x.from \in 0..End /\ x.to \in 0..End
    BY <1>0, <2>1, <2>3, <2>4, <2>5 DEF Positive, Covers
  <2>7. x.id # "root"
    BY <2>1 DEF DetailIds, NestedNames
  <2>8. x.parent # "none"
    <3>1. \A c1 \in NodeRecords : c1.id # "none"
      BY DEF NodeRecords, NodeIds, Parts, DetailIds, NestedNames
    <3>2. \A y \in Members(D) : y \in NodeRecords
      <4> HIDE DEF D
      <4> QED
        BY <2>1 DEF Members
    <3> QED
      BY <1>3, <3>1, <3>2, DetailNodesFacts
  <2> QED
    BY <2>1, <2>2, <2>6, <2>7, <2>8
<1> QED
  BY <1>1, <1>2, <1>3 DEF BelowRoot

(* What is exported is the root and every node of a positive duration, in  *)
(* order, and the stages once each.                                        *)
Exported(e, ns) ==
  /\ ns \in Seq(NodeRecords) /\ Single(ns)
  /\ Members(ns) = {Root} \cup {x \in BelowRoot(e) : Positive(x)}
  /\ \A k, l \in 1..Len(ns) : k < l => InOrder(ns[k], ns[l])

(* The timeline is the root and the nodes below it, in order. *)
LEMMA BuiltFacts ==
  ASSUME NEW e, Recordable(e)
  PROVE  /\ TimelineNodes(e) \in Seq(NodeRecords) /\ Single(TimelineNodes(e))
         /\ Members(TimelineNodes(e)) = {Root} \cup BelowRoot(e)
         /\ \A k, l \in 1..Len(TimelineNodes(e)) :
              k < l => InOrder(TimelineNodes(e)[k], TimelineNodes(e)[l])
<1> DEFINE r == <<Root>>  m == Sorted(Unsorted(e))
<1>1. r \in Seq(NodeRecords) /\ Single(r) /\ Members(r) = {Root} /\ Len(r) = 1
      /\ r[1] = Root
  BY FixedNodes, ShortLists
<1>2. Unsorted(e) \in Seq(NodeRecords)
  BY UnsortedFacts
<1>3. /\ m \in Seq(NodeRecords) /\ Single(m) /\ Members(m) = BelowRoot(e)
      /\ \A k, l \in 1..Len(m) : k < l => InOrder(m[k], m[l])
  BY <1>2, UnsortedFacts, SortedMembers
<1>4. TimelineNodes(e) = r \o m
  BY DEF TimelineNodes
<1> HIDE DEF r, m
<1>5. \A x \in Members(r), y \in Members(m) : x.id # y.id
  BY <1>1, <1>3, BelowRootFacts, FixedNodes
<1>6. /\ r \o m \in Seq(NodeRecords) /\ Single(r \o m)
      /\ Members(r \o m) = {Root} \cup BelowRoot(e)
  BY <1>1, <1>3, <1>5, JoinMembers
<1>7. ASSUME NEW k \in 1..Len(r \o m), NEW l \in 1..Len(r \o m), k < l
      PROVE  InOrder((r \o m)[k], (r \o m)[l])
  <2>0. /\ Len(r \o m) = 1 + Len(m) /\ Len(m) \in Nat
        /\ \A i \in 1..Len(r \o m) : (r \o m)[i] = IF i <= 1 THEN r[i] ELSE m[i - 1]
    <3>1. /\ Len(r \o m) = Len(r) + Len(m) /\ Len(m) \in Nat
          /\ \A i \in 1..Len(r \o m) :
               (r \o m)[i] = IF i <= Len(r) THEN r[i] ELSE m[i - Len(r)]
      <4>1. r \in Seq(NodeRecords) /\ m \in Seq(NodeRecords)
        BY <1>1, <1>3
      <4> QED
        BY <4>1
    <3> QED
      BY <1>1, <3>1
  <2>1. (r \o m)[l] = m[l - 1] /\ l - 1 \in 1..Len(m)
    BY <1>7, <2>0
  <2>2. CASE k = 1
    <3>1. (r \o m)[k] = Root
      BY <1>1, <2>0, <2>2
    <3>2. m[l - 1] \in BelowRoot(e)
      BY <1>3, <2>1 DEF Members
    <3>3. m[l - 1].from \in 0..End /\ m[l - 1].to \in 0..End
      BY <3>2, BelowRootFacts
    <3> QED
      BY <2>1, <3>1, <3>3, FixedNodes DEF InOrder
  <2>3. CASE k # 1
    <3>1. (r \o m)[k] = m[k - 1] /\ k - 1 \in 1..Len(m) /\ k - 1 < l - 1
      BY <1>7, <2>0, <2>3
    <3> QED
      BY <1>3, <2>1, <3>1
  <2> QED
    BY <2>2, <2>3
<1> QED
  BY <1>4, <1>6, <1>7

(* A filter keeps the order. *)
LEMMA KeptInOrder ==
  ASSUME NEW s \in Seq(NodeRecords), NEW I \in SUBSET (1..Len(s)),
         \A k, l \in 1..Len(s) : k < l => InOrder(s[k], s[l])
  PROVE  \A k, l \in 1..Len(Kept(s, I)) : k < l => InOrder(Kept(s, I)[k], Kept(s, I)[l])
<1>1. Len(s) \in Nat
  OBVIOUS
<1>2. PICK o \in [1..Len(Kept(s, I)) -> I] :
        /\ \A k \in 1..Len(Kept(s, I)) : Kept(s, I)[k] = s[o[k]]
        /\ \A k, l \in 1..Len(Kept(s, I)) : k < l => o[k] < o[l]
  BY <1>1, KeptFacts
<1>3. \A k \in 1..Len(Kept(s, I)) : o[k] \in 1..Len(s)
  OBVIOUS
<1> QED
  BY <1>2, <1>3

(* What is exported of a timeline are its positive nodes, in its order. *)
LEMMA ExportedFacts ==
  ASSUME NEW e, Recordable(e)
  PROVE  Exported(e, Positives(TimelineNodes(e)))
<1> DEFINE n == TimelineNodes(e)
           I == {i \in 1..Len(n) : Positive(n[i])}
<1>1. /\ n \in Seq(NodeRecords) /\ Single(n)
      /\ Members(n) = {Root} \cup BelowRoot(e)
      /\ \A k, l \in 1..Len(n) : k < l => InOrder(n[k], n[l])
  BY BuiltFacts
<1>2. Positives(n) = Kept(n, I) /\ I \in SUBSET (1..Len(n))
  BY DEF Positives
<1> HIDE DEF n
<1>3. {n[i] : i \in I} = {x \in Members(n) : Positive(x)}
  BY DEF Members
<1> HIDE DEF I
<1>4. Positive(Root)
  BY FixedNodes DEF Positive
<1>5. /\ Kept(n, I) \in Seq(NodeRecords) /\ Single(Kept(n, I))
      /\ Members(Kept(n, I)) = {n[i] : i \in I}
  BY <1>1, <1>2, KeptMembers
<1>6. Members(Kept(n, I)) = {Root} \cup {x \in BelowRoot(e) : Positive(x)}
  BY <1>1, <1>3, <1>4, <1>5
<1>7. \A k, l \in 1..Len(Kept(n, I)) : k < l => InOrder(Kept(n, I)[k], Kept(n, I)[l])
  BY <1>1, <1>2, KeptInOrder
<1> QED
  BY <1>2, <1>5, <1>6, <1>7 DEF Exported, n

-----------------------------------------------------------------------------
(* The properties of what is exported. *)

(* The parent of an exported node is exported, and contains it. *)
LEMMA ParentContains ==
  ASSUME NEW e, Recordable(e), NEW ns, Exported(e, ns), NEW x \in Members(ns),
         x.parent # "none"
  PROVE  x.parent # x.id /\ \E y \in Members(ns) : y.id = x.parent /\ Covers(y, x)
<1>0. /\ GenStart(e) \in Int /\ GenEnd(e) \in Int /\ 0 <= GenStart(e)
      /\ GenStart(e) <= GenEnd(e) /\ GenEnd(e) <= End /\ End \in Nat
  BY GenerationInside
<1>1. Members(ns) = {Root} \cup {y \in BelowRoot(e) : Positive(y)}
  BY DEF Exported
<1>2. x \in BelowRoot(e) /\ Positive(x)
  BY <1>1, FixedNodes
<1>3. /\ x \in NodeRecords /\ x.from \in 0..End /\ x.to \in 0..End /\ x.parent # x.id
  BY <1>2, BelowRootFacts
<1>4. CASE x \in TopNodes(e)
  <2>1. x.parent = "root"
    BY <1>4, FixedNodes DEF TopNodes
  <2>2. Root.id = "root" /\ Covers(Root, x) /\ Root \in Members(ns)
    BY <1>1, <1>3, FixedNodes DEF Covers
  <2> QED
    BY <1>3, <2>1, <2>2
<1>5. CASE x \in Members(Segments(e))
  <2>1. /\ HasGen(e) /\ x.parent = "gen"
        /\ GenStart(e) <= x.from /\ x.to <= GenEnd(e)
    BY <1>5, SegmentNodes
  <2>2. GenNode(e).id = "gen" /\ Covers(GenNode(e), x)
    BY <2>1, FixedNodes DEF Covers
  <2>3. Positive(GenNode(e))
    BY <1>0, <1>2, <1>3, <2>1, FixedNodes DEF Positive
  <2>4. GenNode(e) \in BelowRoot(e)
    BY <2>1 DEF BelowRoot, TopNodes
  <2> QED
    BY <1>1, <1>3, <2>1, <2>2, <2>3, <2>4
<1>6. CASE x \in Members(DetailNodes(Placed(e)))
  <2> DEFINE D == DetailNodes(Placed(e))
  <2>1. CASE \E c \in NodeRecords :
               IsContainer(e, c) /\ x.parent = c.id /\ Covers(c, x)
    <3>1. PICK c \in NodeRecords :
            IsContainer(e, c) /\ x.parent = c.id /\ Covers(c, x)
      BY <2>1
    <3>2. Positive(c)
      <4>1. c.from \in Int /\ c.to \in Int
        BY DEF NodeRecords
      <4> QED
        BY <1>2, <1>3, <3>1, <4>1 DEF Positive, Covers
    <3>3. c \in BelowRoot(e)
      BY <3>1, <3>2 DEF IsContainer, BelowRoot, TopNodes
    <3> QED
      BY <1>1, <1>3, <3>1, <3>2, <3>3
  <2>2. CASE \E y \in Members(D) : x.parent = y.id /\ Covers(y, x)
    <3>1. PICK y \in Members(D) : x.parent = y.id /\ Covers(y, x)
      BY <2>2
    <3>2. Positive(y) /\ y \in BelowRoot(e)
      BY DetailNodesFacts DEF BelowRoot
    <3> QED
      BY <1>1, <1>3, <3>1, <3>2
  <2> QED
    BY <1>6, <2>1, <2>2, DetailNodesFacts
<1> QED
  BY <1>2, <1>4, <1>5, <1>6 DEF BelowRoot

(* If a parent comes after its child, the two have the same interval.      *)
LEMMA LateParentsTie ==
  ASSUME NEW e, Recordable(e), NEW ns, Exported(e, ns), NEW i \in 1..Len(ns),
         ~ContextKnown(ns, i)
  PROVE  \E j \in 1..Len(ns) :
           /\ i < j /\ ns[i].parent = ns[j].id
           /\ ns[i].from = ns[j].from /\ ns[i].to = ns[j].to
<1>0. ns \in Seq(NodeRecords) /\ Len(ns) \in Nat
  BY DEF Exported
<1>1. ns[i] \in Members(ns) /\ ns[i].parent # "none"
  BY DEF Members, ContextKnown
<1>2. ns[i].parent # ns[i].id /\ \E y \in Members(ns) : y.id = ns[i].parent /\ Covers(y, ns[i])
  BY <1>1, ParentContains
<1>3. PICK j \in 1..Len(ns) : ns[j].id = ns[i].parent /\ Covers(ns[j], ns[i])
  BY <1>2 DEF Members
<1>4. i < j
  <2>1. j # i
    BY <1>2, <1>3
  <2>2. j \notin 1..(i - 1)
    BY <1>3 DEF ContextKnown
  <2> QED
    BY <1>0, <2>1, <2>2
<1>5. InOrder(ns[i], ns[j])
  BY <1>4 DEF Exported
<1>6. \A k \in 1..Len(ns) : ns[k].from \in Int /\ ns[k].to \in Int
  <2>1. \A k \in 1..Len(ns) : ns[k] \in NodeRecords
    BY <1>0
  <2> QED
    BY <2>1 DEF NodeRecords
<1>7. ns[i].from = ns[j].from /\ ns[i].to = ns[j].to
  BY <1>3, <1>5, <1>6 DEF InOrder, Covers
<1> QED
  BY <1>3, <1>4, <1>7

(* The nodes of a timeline are of the node type. *)
LEMMA NodesTyped ==
  ASSUME NEW e, Recordable(e), NEW ns \in Seq(NodeRecords),
         Members(ns) \subseteq {Root} \cup BelowRoot(e), NEW i \in 1..Len(ns)
  PROVE  NodeType(ns[i])
<1>1. ns[i] \in NodeRecords /\ ns[i] \in {Root} \cup BelowRoot(e)
  BY DEF Members
<1>2. ns[i].from \in 0..End /\ ns[i].to \in 0..End
  BY <1>1, BelowRootFacts, FixedNodes
<1> QED
  BY <1>1, <1>2 DEF NodeType, NodeRecords

(* Disjoint intervals of distinct nodes that leave no gap.                 *)
Tiling(C, lo, hi) ==
  /\ \A x \in C : /\ x.id \in Once /\ x.from \in lo..hi /\ x.to \in lo..hi
                  /\ x.from < x.to
                  /\ x.from = lo \/ \E y \in C : y.to = x.from
                  /\ x.to = hi \/ \E y \in C : y.from = x.to
  /\ \A x, y \in C : x # y => x.to <= y.from \/ y.to <= x.from
  /\ C = {} => lo = hi

(* Such nodes, in order, lie end to end. *)
LEMMA TilingEndToEnd ==
  ASSUME NEW s \in Seq(NodeRecords), Single(s),
         \A k, l \in 1..Len(s) : k < l => InOrder(s[k], s[l]),
         NEW lo \in Int, NEW hi \in Int, Tiling(Members(s), lo, hi)
  PROVE  EndToEnd(s, lo, hi)
<1>0. Len(s) \in Nat /\ \A i \in 1..Len(s) : s[i] \in Members(s)
  BY DEF Members
<1>1. \A i \in 1..Len(s) : /\ s[i].from \in lo..hi /\ s[i].to \in lo..hi
                           /\ s[i].from < s[i].to
  BY <1>0 DEF Tiling
<1>2. \A i, j \in 1..Len(s) : i < j => s[i].from <= s[j].from
  BY <1>1 DEF InOrder
<1>3. \A i, j \in 1..Len(s) : i # j => s[i].to <= s[j].from \/ s[j].to <= s[i].from
  <2> SUFFICES ASSUME NEW i \in 1..Len(s), NEW j \in 1..Len(s), i # j
               PROVE  s[i].to <= s[j].from \/ s[j].to <= s[i].from
    OBVIOUS
  <2>1. s[i] # s[j]
    BY <1>0 DEF Single, Tiling
  <2> QED
    BY <1>0, <2>1 DEF Tiling
<1>4. \A i \in 1..Len(s) :
        /\ s[i].from = lo \/ \E j \in 1..Len(s) : s[j].to = s[i].from
        /\ s[i].to = hi \/ \E j \in 1..Len(s) : s[j].from = s[i].to
  <2> SUFFICES ASSUME NEW i \in 1..Len(s)
               PROVE  /\ s[i].from = lo \/ \E j \in 1..Len(s) : s[j].to = s[i].from
                      /\ s[i].to = hi \/ \E j \in 1..Len(s) : s[j].from = s[i].to
    OBVIOUS
  <2>1. /\ s[i].from = lo \/ \E y \in Members(s) : y.to = s[i].from
        /\ s[i].to = hi \/ \E y \in Members(s) : y.from = s[i].to
    BY <1>0 DEF Tiling
  <2>2. \A y \in Members(s) : \E j \in 1..Len(s) : y = s[j]
    BY DEF Members
  <2> QED
    BY <2>1, <2>2
<1>5. Len(s) = 0 => lo = hi
  BY DEF Members, Tiling
<1>6. Tiles(s, lo, hi)
  BY <1>1, <1>2, <1>3, <1>4, <1>5 DEF Tiles
<1> QED
  BY <1>0, <1>6, TilesEndToEnd

(* The children of a node, among those exported. *)
LEMMA ChildFacts ==
  ASSUME NEW e, Exported(e, nodes), NEW id, NEW ids
  PROVE  LET c == ChildrenOf(id, ids) IN
         /\ c \in Seq(NodeRecords) /\ Single(c)
         /\ Members(c) = {x \in Members(nodes) : x.parent = id /\ x.id \in ids}
         /\ \A k, l \in 1..Len(c) : k < l => InOrder(c[k], c[l])
<1> DEFINE I == {i \in 1..Len(nodes) : nodes[i].parent = id /\ nodes[i].id \in ids}
<1>1. /\ nodes \in Seq(NodeRecords) /\ Single(nodes)
      /\ \A k, l \in 1..Len(nodes) : k < l => InOrder(nodes[k], nodes[l])
  BY DEF Exported
<1>2. I \in SUBSET (1..Len(nodes)) /\ ChildrenOf(id, ids) = Kept(nodes, I)
  BY DEF ChildrenOf
<1>3. /\ Kept(nodes, I) \in Seq(NodeRecords) /\ Single(Kept(nodes, I))
      /\ Members(Kept(nodes, I)) = {nodes[i] : i \in I}
  BY <1>1, <1>2, KeptMembers
<1>4. \A k, l \in 1..Len(Kept(nodes, I)) :
        k < l => InOrder(Kept(nodes, I)[k], Kept(nodes, I)[l])
  BY <1>1, <1>2, KeptInOrder
<1>5. {nodes[i] : i \in I} = {x \in Members(nodes) : x.parent = id /\ x.id \in ids}
  BY DEF Members
<1> QED
  BY <1>2, <1>3, <1>4, <1>5

(* Consecutive intervals, some of them empty: what is left of them without *)
(* the empty ones leaves no gap.                                           *)
Consecutive(s, n, lo, hi) ==
  /\ s[1].from = lo /\ s[n].to = hi
  /\ \A i \in 1..n : /\ s[i].id \in Once /\ s[i].from \in lo..hi /\ s[i].to \in lo..hi
                     /\ s[i].from <= s[i].to
  /\ \A i, j \in 1..n : i < j => s[i].to <= s[j].from
  /\ \A i \in 1..(n - 1) : s[i].to = s[i + 1].from

(* The positions in a list of three or of five. *)
LEMMA UpToFive ==
  ASSUME NEW n \in {3, 5}
  PROVE  \A i \in 1..n : i = 1 \/ i = 2 \/ i = 3 \/ (n = 5 /\ (i = 4 \/ i = 5))
<1>1. CASE n = 3
  BY <1>1
<1>2. CASE n = 5
  BY <1>2
<1> QED
  BY <1>1, <1>2

(* What is left of consecutive intervals leaves no gap. *)
LEMMA ConsecutiveTiling ==
  ASSUME NEW s, NEW n \in {3, 5}, NEW lo \in Int, NEW hi \in Int,
         Consecutive(s, n, lo, hi)
  PROVE  Tiling({s[i] : i \in {i \in 1..n : Positive(s[i])}}, lo, hi)
<1> DEFINE C == {s[i] : i \in {i \in 1..n : Positive(s[i])}}
           Begun(i) == s[i].from = lo \/ \E y \in C : y.to = s[i].from
           Ended(i) == s[i].to = hi \/ \E y \in C : y.from = s[i].to
<1>1. \A i \in 1..n : /\ s[i].id \in Once /\ s[i].from \in lo..hi /\ s[i].to \in lo..hi
                      /\ s[i].from <= s[i].to
  BY DEF Consecutive
<1>2. \A i \in 1..n : s[i] \notin C => s[i].from = s[i].to
  BY <1>1 DEF Positive
<1>3. \A i \in 1..(n - 1) : Begun(i) => Begun(i + 1)
  <2> SUFFICES ASSUME NEW i \in 1..(n - 1), Begun(i) PROVE Begun(i + 1)
    OBVIOUS
  <2>1. s[i].to = s[i + 1].from /\ i \in 1..n
    BY DEF Consecutive
  <2> QED
    BY <1>2, <2>1
<1>4. Begun(1)
  BY DEF Consecutive
<1>5. \A i \in 1..n : Begun(i)
  <2> HIDE DEF Begun
  <2>1. Begun(1) /\ Begun(2) /\ Begun(3) /\ (n = 5 => Begun(4) /\ Begun(5))
    <3>1. Begun(2)
      BY <1>3, <1>4
    <3>2. Begun(3)
      BY <1>3, <3>1
    <3>3. n = 5 => Begun(4)
      BY <1>3, <3>2
    <3>4. n = 5 => Begun(5)
      BY <1>3, <3>3
    <3> QED
      BY <1>4, <3>1, <3>2, <3>3, <3>4
  <2> QED
    BY <2>1, UpToFive
<1>6. \A i \in 1..(n - 1) : Ended(i + 1) => Ended(i)
  <2> SUFFICES ASSUME NEW i \in 1..(n - 1), Ended(i + 1) PROVE Ended(i)
    OBVIOUS
  <2>1. s[i].to = s[i + 1].from /\ i + 1 \in 1..n
    BY DEF Consecutive
  <2> QED
    BY <1>2, <2>1
<1>7. Ended(n)
  BY DEF Consecutive
<1>8. \A i \in 1..n : Ended(i)
  <2> HIDE DEF Ended
  <2>1. Ended(1) /\ Ended(2) /\ Ended(3) /\ (n = 5 => Ended(4) /\ Ended(5))
    <3>1. n = 5 => Ended(5)
      BY <1>7
    <3>2. n = 5 => Ended(4)
      BY <1>6, <3>1
    <3>3. Ended(3)
      BY <1>6, <1>7, <3>2
    <3>4. Ended(2)
      BY <1>6, <3>3
    <3>5. Ended(1)
      BY <1>6, <3>4
    <3> QED
      BY <3>1, <3>2, <3>3, <3>4, <3>5
  <2> QED
    BY <2>1, UpToFive
<1>9. \A x \in C : /\ x.id \in Once /\ x.from \in lo..hi /\ x.to \in lo..hi
                   /\ x.from < x.to
                   /\ x.from = lo \/ \E y \in C : y.to = x.from
                   /\ x.to = hi \/ \E y \in C : y.from = x.to
  <2> SUFFICES ASSUME NEW i \in 1..n, Positive(s[i])
               PROVE  /\ s[i].id \in Once /\ s[i].from \in lo..hi /\ s[i].to \in lo..hi
                      /\ s[i].from < s[i].to /\ Begun(i) /\ Ended(i)
    OBVIOUS
  <2> QED
    BY <1>1, <1>5, <1>8 DEF Positive
<1>10. \A x, y \in C : x # y => x.to <= y.from \/ y.to <= x.from
  <2> SUFFICES ASSUME NEW i \in 1..n, NEW j \in 1..n, s[i] # s[j]
               PROVE  s[i].to <= s[j].from \/ s[j].to <= s[i].from
    OBVIOUS
  <2>1. i < j \/ j < i
    OBVIOUS
  <2> QED
    BY <2>1 DEF Consecutive
<1>11. C = {} => lo = hi
  <2> SUFFICES ASSUME C = {} PROVE lo = hi
    OBVIOUS
  <2>1. n \in 1..n
    OBVIOUS
  <2>2. s[n].from = lo
    BY <1>5, <2>1
  <2>3. s[n].from = s[n].to
    BY <1>2, <2>1
  <2> QED
    BY <2>2, <2>3 DEF Consecutive
<1> QED
  BY <1>9, <1>10, <1>11 DEF Tiling

\* The nodes directly below the root.
Top(e) == <<Api(e), GenNode(e), Transfer(e)>>

(* Connection, generation and transfer are consecutive. *)
LEMMA TopConsecutive ==
  ASSUME NEW e, Recordable(e)
  PROVE  Consecutive(Top(e), 3, 0, End)
<1>1. /\ GenStart(e) \in Int /\ GenEnd(e) \in Int /\ 0 <= GenStart(e)
      /\ GenStart(e) <= GenEnd(e) /\ GenEnd(e) <= End /\ End \in Nat
  BY GenerationInside
<1>2. Top(e)[1] = Api(e) /\ Top(e)[2] = GenNode(e) /\ Top(e)[3] = Transfer(e)
  BY DEF Top
<1>3. "api" \in Once /\ "gen" \in Once /\ "transfer" \in Once
  BY DEF Once
<1>4. \A i \in 1..3 : i = 1 \/ i = 2 \/ i = 3
  OBVIOUS
<1> HIDE DEF Top
<1>5. /\ Top(e)[1].from = 0 /\ Top(e)[1].to = GenStart(e) /\ Top(e)[1].id \in Once
      /\ Top(e)[2].from = GenStart(e) /\ Top(e)[2].to = GenEnd(e) /\ Top(e)[2].id \in Once
      /\ Top(e)[3].from = GenEnd(e) /\ Top(e)[3].to = End /\ Top(e)[3].id \in Once
  BY <1>2, <1>3, FixedNodes
<1> QED
  BY <1>1, <1>4, <1>5 DEF Consecutive

(* The five segments are consecutive. *)
LEMMA CutConsecutive ==
  ASSUME NEW e, Recordable(e)
  PROVE  Consecutive(Cut(e), 5, GenStart(e), GenEnd(e))
<1> DEFINE c == Cut(e)
<1>1. /\ c[1].from = GenStart(e) /\ c[5].to = GenEnd(e)
      /\ \A i \in 1..4 : c[i].to = c[i + 1].from
      /\ \A i \in 1..5 : /\ c[i].from \in GenStart(e)..GenEnd(e)
                         /\ c[i].to \in GenStart(e)..GenEnd(e)
                         /\ c[i].from <= c[i].to
  BY CutIsPartition DEF Recordable
<1>2. GenStart(e) \in Int /\ GenEnd(e) \in Int
  BY GenerationInside
<1>3. \A i \in 1..5 : c[i].id \in Once
  BY CutNodes DEF Once
<1> HIDE DEF c
<1>4. \A i \in 1..5 : c[i].from \in Int /\ c[i].to \in Int
  BY <1>1, <1>2
<1>5. c[1].to = c[2].from /\ c[2].to = c[3].from /\ c[3].to = c[4].from /\ c[4].to = c[5].from
  BY <1>1
<1>6. /\ c[1].from <= c[1].to /\ c[2].from <= c[2].to /\ c[3].from <= c[3].to
      /\ c[4].from <= c[4].to /\ c[5].from <= c[5].to
  BY <1>1
<1>7. \A i \in 1..5 : i = 1 \/ i = 2 \/ i = 3 \/ i = 4 \/ i = 5
  OBVIOUS
<1>8. \A i, j \in 1..5 : i < j => c[i].to <= c[j].from
  BY <1>4, <1>5, <1>6, <1>7
<1> QED
  BY <1>1, <1>3, <1>8 DEF Consecutive, c

(* What is exported below the root and below the generation.               *)
LEMMA RootChildren ==
  ASSUME NEW e, Recordable(e), NEW ns, Exported(e, ns)
  PROVE  Tiling({x \in Members(ns) : x.parent = "root" /\ x.id \in {"api", "gen", "transfer"}},
                0, End)
<1> DEFINE T == {x \in Members(ns) : x.parent = "root" /\ x.id \in {"api", "gen", "transfer"}}
<1>1. Members(ns) = {Root} \cup {y \in BelowRoot(e) : Positive(y)}
  BY DEF Exported
<1>2. \A x \in Members(Segments(e)) : x.parent # "root"
  BY SegmentNodes
<1>3. \A x \in Members(DetailNodes(Placed(e))) : x.id \notin {"api", "gen", "transfer"}
  <2>1. \A x \in Members(DetailNodes(Placed(e))) : x.id \in DetailIds
    BY DetailNodesFacts
  <2> QED
    BY <2>1 DEF DetailIds, NestedNames
<1>4. T = {x \in TopNodes(e) : Positive(x)}
  <2>1. \A x \in TopNodes(e) : x.parent = "root" /\ x.id \in {"api", "gen", "transfer"}
    BY FixedNodes DEF TopNodes
  <2>2. Root.parent # "root"
    BY FixedNodes
  <2>3. TopNodes(e) \subseteq BelowRoot(e)
    BY DEF BelowRoot
  <2>4. \A x \in T : x \in TopNodes(e) /\ Positive(x)
    BY <1>1, <1>2, <1>3, <2>2 DEF BelowRoot
  <2>5. \A x \in TopNodes(e) : Positive(x) => x \in T
    BY <1>1, <2>1, <2>3
  <2> QED
    BY <2>4, <2>5
<1>5. \A x \in TopNodes(e) : x = Api(e) \/ x = Transfer(e) \/ x = GenNode(e)
  BY DEF TopNodes
<1>6. ~HasGen(e) => ~Positive(GenNode(e))
  <2>1. ~HasGen(e) => GenStart(e) = GenEnd(e) /\ GenEnd(e) \in Int
    BY GenerationInside DEF GenStart, GenEnd
  <2> QED
    BY <2>1, FixedNodes DEF Positive
<1>7. {x \in TopNodes(e) : Positive(x)} =
        {Top(e)[i] : i \in {i \in 1..3 : Positive(Top(e)[i])}}
  <2>1. Top(e)[1] = Api(e) /\ Top(e)[2] = GenNode(e) /\ Top(e)[3] = Transfer(e)
    BY DEF Top
  <2>2. \A x \in TopNodes(e) : Positive(x) => \E i \in 1..3 : x = Top(e)[i] /\ Positive(Top(e)[i])
    BY <1>5, <2>1
  <2>3. \A i \in 1..3 : Positive(Top(e)[i]) => Top(e)[i] \in TopNodes(e)
    <3>1. \A i \in 1..3 : i = 1 \/ i = 2 \/ i = 3
      OBVIOUS
    <3> QED
      BY <1>6, <2>1, <3>1 DEF TopNodes
  <2> QED
    BY <2>2, <2>3
<1> QED
  BY <1>4, <1>7, TopConsecutive, ConsecutiveTiling

(* Below the generation there are the segments of a positive duration. *)
LEMMA GenerationChildren ==
  ASSUME NEW e, Recordable(e), NEW ns, Exported(e, ns), HasGen(e)
  PROVE  Tiling({x \in Members(ns) : x.parent = "gen" /\ x.id \in Parts},
                GenStart(e), GenEnd(e))
<1> DEFINE T == {x \in Members(ns) : x.parent = "gen" /\ x.id \in Parts}
<1>1. Members(ns) = {Root} \cup {y \in BelowRoot(e) : Positive(y)}
  BY DEF Exported
<1>2. \A x \in {Root} \cup TopNodes(e) : x.parent # "gen"
  BY FixedNodes DEF TopNodes
<1>3. \A x \in Members(DetailNodes(Placed(e))) : x.parent # "gen"
  BY DetailNodesFacts
<1>4. \A x \in Members(Segments(e)) : x.parent = "gen" /\ x.id \in Parts /\ Positive(x)
  BY SegmentNodes
<1>5. T = Members(Segments(e))
  <2>1. \A x \in T : x \in Members(Segments(e))
    BY <1>1, <1>2, <1>3 DEF BelowRoot
  <2>2. \A x \in Members(Segments(e)) : x \in T
    BY <1>1, <1>4 DEF BelowRoot
  <2> QED
    BY <2>1, <2>2
<1>6. Members(Segments(e)) = {Cut(e)[i] : i \in {i \in 1..5 : Positive(Cut(e)[i])}}
  BY SegmentNodes
<1>7. GenStart(e) \in Int /\ GenEnd(e) \in Int
  BY GenerationInside
<1> QED
  BY <1>5, <1>6, <1>7, CutConsecutive, ConsecutiveTiling
-----------------------------------------------------------------------------
(* The invariant: the nodes are a function of the event, as far as the     *)
(* export has come.                                                        *)
Shaped ==
  /\ Recordable(in)
  /\ result \in {"none", "built", "sent", "failed"}
  /\ result = "none"  => nodes = <<>>
  /\ result = "built" => nodes = TimelineNodes(in)
  /\ result \in {"sent", "failed"} => nodes = Positives(TimelineNodes(in))
  /\ result = "failed" => \E i \in 1..Len(nodes) : ~ContextKnown(nodes, i)

(* The invariant holds before anything is built. *)
LEMMA InitShaped == Init => Shaped
<1> SUFFICES ASSUME Init PROVE Shaped
  OBVIOUS
<1>1. Recordable(in)
  BY InitRecordable
<1>2. nodes = <<>> /\ result = "none"
  BY DEF Init
<1> QED
  BY <1>1, <1>2 DEF Shaped

(* Building and exporting keep the invariant. *)
LEMMA ShapedStep == Shaped /\ [Next]_vars => Shaped'
<1> SUFFICES ASSUME Shaped, [Next]_vars PROVE Shaped'
  OBVIOUS
<1>1. CASE Build
  <2>1. in' = in /\ result' = "built" /\ nodes' = TimelineNodes(in)
    BY <1>1 DEF Build
  <2> QED
    BY <2>1 DEF Shaped
<1>2. CASE Export
  <2>1. /\ in' = in /\ result = "built" /\ nodes' = Positives(nodes)
        /\ result' = IF \A i \in 1..Len(nodes') : ContextKnown(nodes', i)
                     THEN "sent" ELSE "failed"
    BY <1>2 DEF Export
  <2>2. nodes' = Positives(TimelineNodes(in'))
    BY <2>1 DEF Shaped
  <2>3. result' = "failed" => \E i \in 1..Len(nodes') : ~ContextKnown(nodes', i)
    BY <2>1
  <2>4. result' \in {"sent", "failed"}
    BY <2>1
  <2> QED
    BY <2>1, <2>2, <2>3, <2>4 DEF Shaped, ContextKnown
<1>3. CASE UNCHANGED vars
  BY <1>3 DEF Shaped, vars, ContextKnown
<1> QED
  BY <1>1, <1>2, <1>3 DEF Next

(* The invariant holds in every reachable state. *)
LEMMA AlwaysShaped == Spec => []Shaped
<1> QED
  BY InitShaped, ShapedStep, PTL DEF Spec

(* No node reaches beyond the request, and its parent is one that exists.  *)
THEOREM TypeCorrect == Spec => []TypeOK
<1>1. Shaped => TypeOK
  <2> SUFFICES ASSUME Shaped PROVE TypeOK
    OBVIOUS
  <2>1. \A i \in 1..Len(nodes) : NodeType(nodes[i])
    <3>1. CASE result = "none"
      BY <3>1 DEF Shaped
    <3>2. CASE result = "built"
      BY <3>2, BuiltFacts, NodesTyped DEF Shaped
    <3>3. CASE result \in {"sent", "failed"}
      <4>1. Exported(in, nodes)
        BY <3>3, ExportedFacts DEF Shaped
      <4>2. nodes \in Seq(NodeRecords) /\ Members(nodes) \subseteq {Root} \cup BelowRoot(in)
        BY <4>1 DEF Exported
      <4> QED
        BY <4>2, NodesTyped DEF Shaped
    <3> QED
      BY <3>1, <3>2, <3>3 DEF Shaped
  <2> QED
    BY <2>1 DEF TypeOK, Shaped
<1> QED
  BY <1>1, AlwaysShaped, PTL

(* The exported timeline is exhaustive and free of overlaps.               *)
THEOREM TimelineIsPartition == Spec => []Partition
<1>1. Shaped => Partition
  <2> SUFFICES ASSUME Shaped, result \in {"sent", "failed"}
               PROVE  /\ EndToEnd(ChildrenOf("root", {"api", "gen", "transfer"}), 0, End)
                      /\ HasGen(in) => EndToEnd(ChildrenOf("gen", Parts), GenStart(in), GenEnd(in))
    BY DEF Partition
  <2>1. Recordable(in) /\ Exported(in, nodes)
    BY ExportedFacts DEF Shaped
  <2>2. EndToEnd(ChildrenOf("root", {"api", "gen", "transfer"}), 0, End)
    BY <2>1, ChildFacts, RootChildren, TilingEndToEnd
  <2>3. GenStart(in) \in Int /\ GenEnd(in) \in Int
    BY <2>1, GenerationInside
  <2>4. HasGen(in) => EndToEnd(ChildrenOf("gen", Parts), GenStart(in), GenEnd(in))
    BY <2>1, <2>3, ChildFacts, GenerationChildren, TilingEndToEnd
  <2> QED
    BY <2>2, <2>4
<1> QED
  BY <1>1, AlwaysShaped, PTL

(* Every exported node lies inside its parent, which is exported with it.  *)
THEOREM NodesInsideParents == Spec => []InsideParent
<1>1. Shaped => InsideParent
  <2> SUFFICES ASSUME Shaped, result \in {"sent", "failed"},
                      NEW i \in 1..Len(nodes), nodes[i].parent # "none"
               PROVE  \E j \in 1..Len(nodes) :
                        /\ nodes[j].id = nodes[i].parent
                        /\ nodes[j].from <= nodes[i].from /\ nodes[i].to <= nodes[j].to
    BY DEF InsideParent
  <2>1. Recordable(in) /\ Exported(in, nodes)
    BY ExportedFacts DEF Shaped
  <2>2. nodes[i] \in Members(nodes)
    BY DEF Members
  <2>3. \E y \in Members(nodes) : y.id = nodes[i].parent /\ Covers(y, nodes[i])
    BY <2>1, <2>2, ParentContains
  <2> QED
    BY <2>3 DEF Members, Covers
<1> QED
  BY <1>1, AlwaysShaped, PTL

(* An export fails only where a child has the interval of its parent.      *)
THEOREM FailuresAreTies == Spec => []FailsOnlyOnTies
<1>1. Shaped => FailsOnlyOnTies
  <2> SUFFICES ASSUME Shaped, result = "failed" PROVE FailsOnlyOnTies
    BY DEF FailsOnlyOnTies
  <2>1. Recordable(in) /\ Exported(in, nodes)
    BY ExportedFacts DEF Shaped
  <2>2. PICK i \in 1..Len(nodes) : ~ContextKnown(nodes, i)
    BY DEF Shaped
  <2>3. \E j \in 1..Len(nodes) :
          /\ i < j /\ nodes[i].parent = nodes[j].id
          /\ nodes[i].from = nodes[j].from /\ nodes[i].to = nodes[j].to
    BY <2>1, <2>2, LateParentsTie
  <2> QED
    BY <2>3 DEF FailsOnlyOnTies
<1> QED
  BY <1>1, AlwaysShaped, PTL

-----------------------------------------------------------------------------
(* A request with one generation: every stage was measured for it. *)
OneOwner(e) == \A i \in 1..Len(e.stages) : e.stages[i].of = 1

(* What is measured for a generation is recorded as belonging to it. *)
LEMMA MeasuredFor ==
  ASSUME NEW lo \in Int, NEW hi \in Int,
         NEW s \in Stats(lo, hi, 1), NEW w \in Waits(lo, hi, 1)
  PROVE  s \o w \in Seq({o \in Observations : o.of = 1})
<1> DEFINE R == {o \in Observations : o.of = 1}
<1>1. s \in Seq(R)
  <2>1. CASE s = <<>>
    BY <2>1
  <2>2. ASSUME NEW q \in Ordered4(lo, hi),
               s = << Obs("queue", <<q[1], q[2]>>, 1),
                      Obs("prefill", <<q[2], q[3]>>, 1),
                      Obs("decode", <<q[3], q[4]>>, 1) >>
        PROVE  s \in Seq(R)
    <3>1. q[1] \in Int /\ q[2] \in Int /\ q[3] \in Int /\ q[4] \in Int
      BY QuadIntegers
    <3>2. /\ Obs("queue", <<q[1], q[2]>>, 1) \in R
          /\ Obs("prefill", <<q[2], q[3]>>, 1) \in R
          /\ Obs("decode", <<q[3], q[4]>>, 1) \in R
      BY <3>1 DEF Obs, Observations
    <3> QED
      BY <2>2, <3>2
  <2> QED
    BY <2>1, <2>2 DEF Stats
<1>2. w \in Seq(R)
  <2>1. CASE w = <<>>
    BY <2>1
  <2>2. ASSUME NEW q \in Intervals(lo, hi), w = <<Obs("waiting", q, 1)>>
        PROVE  w \in Seq(R)
    <3>1. Obs("waiting", q, 1) \in R
      BY PairIntegers DEF Obs, Observations
    <3> QED
      BY <2>2, <3>1
  <2> QED
    BY <2>1, <2>2 DEF Waits
<1> HIDE DEF R
<1>3. s \o w \in Seq(R)
  BY <1>1, <1>2
<1> QED
  BY <1>3 DEF R

(* With one generation, the events hold what was measured for it. *)
LEMMA InitOneOwner == Init /\ Generations = 1 => OneOwner(in)
<1> SUFFICES ASSUME Init, Generations = 1 PROVE OneOwner(in)
  OBVIOUS
<1>0. End \in Int
  OBVIOUS
<1>1. CASE NoGeneration
  <2>1. in.stages = <<>>
    BY <1>1 DEF NoGeneration, Event
  <2> QED
    BY <2>1 DEF OneOwner
<1>2. CASE OneGeneration
  <2>1. PICK g \in Intervals(0, End) :
          \E s \in Stats(g[1], g[2], 1), w \in Waits(g[1], g[2], 1),
             d \in {<<>>} \cup Submission(g[1], g[2]) \cup Rendering(g[1]) :
               in = Event(g, s \o w, d)
    BY <1>2 DEF OneGeneration
  <2>2. g[1] \in Int /\ g[2] \in Int
    BY <1>0, PairIntegers DEF Intervals
  <2>3. PICK s \in Stats(g[1], g[2], 1), w \in Waits(g[1], g[2], 1) :
          \E d \in {<<>>} \cup Submission(g[1], g[2]) \cup Rendering(g[1]) :
               in = Event(g, s \o w, d)
    BY <2>1
  <2>4. in.stages = s \o w
    BY <2>3 DEF Event
  <2>5. s \o w \in Seq({o \in Observations : o.of = 1})
    BY <2>2, MeasuredFor
  <2>6. \A i \in 1..Len(s \o w) : (s \o w)[i] \in {o \in Observations : o.of = 1}
    BY <2>5
  <2> QED
    BY <2>4, <2>6 DEF OneOwner
<1> QED
  BY <1>1, <1>2 DEF Init

(* Then the segments of the timeline are that generation's. *)
LEMMA OwnSegments ==
  ASSUME NEW e, Recordable(e), OneOwner(e)
  PROVE  \A x \in Members(Segments(e)) : x.of = 1
<1>1. \A name : Owner(e, name) = 1
  <2> TAKE name
  <2>1. CASE Has(e, name)
    <3>1. \E i \in 1..Len(e.stages) : Stage(e, name) = e.stages[i]
      BY <2>1, StageIsLast DEF Recordable
    <3> QED
      BY <2>1, <3>1 DEF Owner, OneOwner
  <2>2. CASE ~Has(e, name)
    BY <2>2 DEF Owner
  <2> QED
    BY <2>1, <2>2
<1>2. /\ Boundaries(e)[1].of = 1 /\ Boundaries(e)[2].of = 1 /\ Boundaries(e)[3].of = 1
      /\ Boundaries(e)[4].of = 1 /\ Boundaries(e)[5].of = 1
  BY <1>1 DEF Boundaries
<1>3. \A i \in 1..5 : Cut(e)[i].of = Boundaries(e)[i].of
  BY DEF Cut
<1>4. \A i \in 1..5 : i = 1 \/ i = 2 \/ i = 3 \/ i = 4 \/ i = 5
  OBVIOUS
<1>5. \A i \in 1..5 : Cut(e)[i].of = 1
  BY <1>2, <1>3, <1>4
<1> QED
  BY <1>5, SegmentNodes

(* The stages shown under a generation were measured for it, when the      *)
(* request has one generation: two generations are what TimelineStages     *)
(* shows to break it, and nothing else does.                               *)
THEOREM OneGenerationOwnsItsStages ==
  ASSUME Generations = 1
  PROVE  Spec => []StagesOfTheGeneration
<1>1. Init => OneOwner(in)
  BY InitOneOwner
<1>2. OneOwner(in) /\ [Next]_vars => OneOwner(in)'
  BY DEF OneOwner, Next, Build, Export, vars
<1>3. Shaped /\ OneOwner(in) => StagesOfTheGeneration
  <2> SUFFICES ASSUME Shaped, OneOwner(in), NEW i \in 1..Len(nodes), nodes[i].parent = "gen"
               PROVE  nodes[i].of = 1
    BY DEF StagesOfTheGeneration
  <2>1. Members(nodes) \subseteq {Root} \cup BelowRoot(in)
    <3>1. CASE result = "none"
      BY <3>1 DEF Shaped
    <3>2. CASE result = "built"
      BY <3>2, BuiltFacts DEF Shaped
    <3>3. CASE result \in {"sent", "failed"}
      BY <3>3, ExportedFacts DEF Shaped, Exported
    <3> QED
      BY <3>1, <3>2, <3>3 DEF Shaped
  <2>2. nodes[i] \in {Root} \cup BelowRoot(in)
    BY <2>1 DEF Members
  <2>3. \A x \in {Root} \cup TopNodes(in) : x.parent # "gen"
    BY FixedNodes DEF TopNodes, Shaped
  <2>4. \A x \in Members(DetailNodes(Placed(in))) : x.parent # "gen"
    BY DetailNodesFacts DEF Shaped
  <2>5. nodes[i] \in Members(Segments(in))
    BY <2>2, <2>3, <2>4 DEF BelowRoot
  <2> QED
    BY <2>5, OwnSegments DEF Shaped
<1> QED
  BY <1>1, <1>2, <1>3, AlwaysShaped, PTL DEF Spec
=============================================================================
