---------------------------- MODULE Adapter_proof ----------------------------
(***************************************************************************)
(* Proofs about Adapter, for any set of calls, ids, requests and           *)
(* sequences, and whatever instants and clock readings messages carry.     *)
(***************************************************************************)
EXTENDS Adapter, FiniteSetTheorems, TLAPS

(* The sum of the values of a function on the calls, as the recursion of   *)
(* MapThenSumSet computes it.                                              *)
Pick(S) == CHOOSE x \in S : TRUE

Adding(F, G) ==
  [S \in SUBSET Calls |-> IF S = {} THEN 0 ELSE F[Pick(S)] + G[S \ {Pick(S)}]]

Sums(F)  == CHOOSE G : G = Adding(F, G)
Total(F) == Sums(F)[Calls]

LEMMA PickFacts ==
  ASSUME NEW S, S # {}
  PROVE  Pick(S) \in S
  BY DEF Pick

(* A set of numbers that is not empty has a smallest one. *)
LEMMA Smallest ==
  ASSUME NEW T, T \subseteq Nat, T # {}
  PROVE  \E x \in T : \A y \in T : x <= y
<1>1. PICK x \in T : \A y \in T : <<y, x>> \notin OpToRel(<, Nat)
  BY WFMin, NatLessThanWellFounded
<1>2. \A y \in T : x <= y
  <2> SUFFICES ASSUME NEW y \in T, y < x PROVE FALSE
    OBVIOUS
  <2>1. <<y, x>> \in OpToRel(<, Nat)
    BY DEF OpToRel
  <2> QED
    BY <1>1, <2>1
<1> QED
  BY <1>2

(* Induction over the numbers. *)
LEMMA SetInduction ==
  ASSUME NEW S, 0 \in S, \A n \in Nat : n \in S => n + 1 \in S
  PROVE  Nat \subseteq S
<1> DEFINE T == Nat \ S
<1> SUFFICES ASSUME T # {} PROVE FALSE
  OBVIOUS
<1>1. PICK x \in T : \A y \in T : x <= y
  BY Smallest
<1>2. x \in Nat /\ x # 0 /\ x - 1 \in Nat /\ x - 1 < x /\ x = (x - 1) + 1
  <2>1. x \in Nat /\ x \notin S
    BY <1>1
  <2>2. x # 0
    BY <2>1
  <2> QED
    BY <2>1, <2>2
<1>3. x - 1 \notin T
  BY <1>1, <1>2
<1> QED
  BY <1>1, <1>2, <1>3

(* Induction over the size of a set of calls. *)
LEMMA SizeInduction ==
  ASSUME NEW D, IsFiniteSet(D), NEW Good \in SUBSET SUBSET D, {} \in Good,
         \A S \in SUBSET D : S # {} /\ S \ {Pick(S)} \in Good => S \in Good
  PROVE  Good = SUBSET D
<1> DEFINE Bad == {n \in Nat : \E S \in SUBSET D : S \notin Good /\ Cardinality(S) = n}
<1> SUFFICES ASSUME Bad # {} PROVE FALSE
  <2>1. \A S \in SUBSET D : Cardinality(S) \in Nat
    BY FS_Subset, FS_CardinalityType
  <2> QED
    BY <2>1
<1>0. Bad \subseteq Nat
  OBVIOUS
<1>1. PICK n \in Bad : \A j \in Bad : n <= j
  <2> HIDE DEF Bad
  <2> QED
    BY <1>0, Smallest
<1>2. PICK S \in SUBSET D : S \notin Good /\ Cardinality(S) = n
  BY <1>1
<1>3. S # {} /\ Pick(S) \in S /\ IsFiniteSet(S)
  BY <1>2, PickFacts, FS_Subset
<1> DEFINE R == S \ {Pick(S)}
<1>4. R \in SUBSET D /\ R \notin Good
  BY <1>2, <1>3
<1>5. Cardinality(R) = n - 1
  BY <1>2, <1>3, FS_RemoveElement
<1>6. IsFiniteSet(R) /\ Cardinality(R) \in Nat
  BY <1>3, FS_RemoveElement, FS_CardinalityType
<1> HIDE DEF R
<1>7. Cardinality(R) \in Bad
  BY <1>4, <1>6
<1>8. Cardinality(R) < n
  BY <1>5, <1>6
<1> QED
  BY <1>1, <1>7, <1>8

(* The recursion has a solution: on the sets of at most n calls, for every *)
(* n, and so on all.                                                       *)
Level(n) == {S \in SUBSET Calls : Cardinality(S) <= n}

Solves(F, n, G) ==
  /\ G \in [Level(n) -> Nat]
  /\ \A S \in Level(n) : G[S] = IF S = {} THEN 0 ELSE F[Pick(S)] + G[S \ {Pick(S)}]

LEMMA LevelFacts ==
  ASSUME IsFiniteSet(Calls), NEW n \in Nat, NEW S \in Level(n + 1), S # {}
  PROVE  Pick(S) \in Calls /\ S \ {Pick(S)} \in Level(n)
<1>1. Pick(S) \in S /\ S \in SUBSET Calls /\ IsFiniteSet(S)
  BY PickFacts, FS_Subset DEF Level
<1>2. Cardinality(S \ {Pick(S)}) = Cardinality(S) - 1 /\ Cardinality(S) \in Nat
  BY <1>1, FS_RemoveElement, FS_CardinalityType
<1>3. Cardinality(S) <= n + 1
  BY DEF Level
<1> QED
  BY <1>1, <1>2, <1>3 DEF Level

LEMMA SumsExist ==
  ASSUME IsFiniteSet(Calls), NEW F \in [Calls -> Nat]
  PROVE  /\ Sums(F) = Adding(F, Sums(F))
         /\ Sums(F) \in [SUBSET Calls -> Nat]
<1> DEFINE N == {n \in Nat : \E G : Solves(F, n, G)}
<1>1. 0 \in N
  <2>1. Level(0) = {{}}
    <3>1. \A S \in SUBSET Calls : Cardinality(S) \in Nat /\ (Cardinality(S) = 0 <=> S = {})
      BY FS_Subset, FS_CardinalityType, FS_EmptySet
    <3> QED
      BY <3>1 DEF Level
  <2> DEFINE Z == [S \in Level(0) |-> 0]
  <2>2. Solves(F, 0, Z)
    BY <2>1 DEF Solves
  <2> QED
    BY <2>2
<1>2. ASSUME NEW n \in Nat, n \in N PROVE n + 1 \in N
  <2>1. PICK G : Solves(F, n, G)
    BY <1>2
  <2> DEFINE H == [S \in Level(n + 1) |->
                    IF S = {} THEN 0 ELSE F[Pick(S)] + G[S \ {Pick(S)}]]
  <2>2. H \in [Level(n + 1) -> Nat]
    <3> SUFFICES ASSUME NEW S \in Level(n + 1), S # {}
                 PROVE  F[Pick(S)] + G[S \ {Pick(S)}] \in Nat
      OBVIOUS
    <3> QED
      BY <2>1, LevelFacts DEF Solves
  <2>3. \A S \in Level(n) : S \in Level(n + 1) /\ H[S] = G[S]
    <3>1. \A S \in SUBSET Calls : Cardinality(S) \in Nat
      BY FS_Subset, FS_CardinalityType
    <3>2. \A S \in Level(n) : S \in Level(n + 1)
      BY <3>1 DEF Level
    <3> QED
      BY <2>1, <3>2 DEF Solves
  <2>4. \A S \in Level(n + 1) : S # {} => S \ {Pick(S)} \in Level(n)
    BY LevelFacts
  <2>5. \A S \in Level(n + 1) :
          H[S] = IF S = {} THEN 0 ELSE F[Pick(S)] + G[S \ {Pick(S)}]
    OBVIOUS
  <2> HIDE DEF H
  <2>6. Solves(F, n + 1, H)
    BY <2>2, <2>3, <2>4, <2>5 DEF Solves
  <2> QED
    BY <2>6
<1>3. Nat \subseteq N
  <2> HIDE DEF N
  <2> QED
    BY <1>1, <1>2, SetInduction
<1>4. Cardinality(Calls) \in Nat
  BY FS_CardinalityType
<1>5. PICK G : Solves(F, Cardinality(Calls), G)
  BY <1>3, <1>4
<1>6. Level(Cardinality(Calls)) = SUBSET Calls
  BY FS_Subset DEF Level
<1>7. G = Adding(F, G)
  BY <1>5, <1>6 DEF Solves, Adding
<1>8. Sums(F) = Adding(F, Sums(F))
  BY <1>7 DEF Sums
<1> DEFINE Good == {S \in SUBSET Calls : Sums(F)[S] = G[S]}
<1>9. Good = SUBSET Calls
  <2>1. {} \in Good
    BY <1>7, <1>8 DEF Adding
  <2>2. ASSUME NEW S \in SUBSET Calls, S # {}, S \ {Pick(S)} \in Good
        PROVE  S \in Good
    BY <1>7, <1>8, <2>2 DEF Adding
  <2>9. Good \in SUBSET SUBSET Calls
    OBVIOUS
  <2> HIDE DEF Good
  <2> QED
    BY <2>1, <2>2, <2>9, SizeInduction
<1>10. Sums(F) = [S \in SUBSET Calls |-> G[S]]
  BY <1>8, <1>9 DEF Adding
<1> QED
  BY <1>5, <1>6, <1>8, <1>10 DEF Solves

(* One more at one call is one more in the sum. *)
LEMMA TotalBumped ==
  ASSUME IsFiniteSet(Calls), NEW F \in [Calls -> Nat], NEW d \in Calls
  PROVE  Total([F EXCEPT ![d] = F[d] + 1]) = Total(F) + 1
<1> DEFINE H == [F EXCEPT ![d] = F[d] + 1]
<1>1. H \in [Calls -> Nat] /\ \A c \in Calls : H[c] = IF c = d THEN F[c] + 1 ELSE F[c]
  OBVIOUS
<1> HIDE DEF H
<1>2. /\ Sums(F) = Adding(F, Sums(F)) /\ Sums(F) \in [SUBSET Calls -> Nat]
      /\ Sums(H) = Adding(H, Sums(H)) /\ Sums(H) \in [SUBSET Calls -> Nat]
  BY <1>1, SumsExist
<1> DEFINE Good == {S \in SUBSET Calls :
                     Sums(H)[S] = IF d \in S THEN Sums(F)[S] + 1 ELSE Sums(F)[S]}
<1>3. {} \in Good
  BY <1>2 DEF Adding
<1>4. ASSUME NEW S \in SUBSET Calls, S # {}, S \ {Pick(S)} \in Good
      PROVE  S \in Good
  <2> DEFINE R == S \ {Pick(S)}
  <2>1. Pick(S) \in S /\ Pick(S) \in Calls /\ R \in SUBSET Calls
    BY <1>4, PickFacts
  <2>2. Sums(F)[S] = F[Pick(S)] + Sums(F)[R] /\ Sums(H)[S] = H[Pick(S)] + Sums(H)[R]
    BY <1>2, <1>4 DEF Adding
  <2>3. Sums(H)[R] = IF d \in R THEN Sums(F)[R] + 1 ELSE Sums(F)[R]
    BY <1>4
  <2>4. d \in R <=> d \in S /\ d # Pick(S)
    OBVIOUS
  <2>5. Sums(F)[R] \in Nat /\ F[Pick(S)] \in Nat /\ Sums(F)[S] \in Nat
    BY <1>2, <2>1
  <2>6. H[Pick(S)] = IF Pick(S) = d THEN F[Pick(S)] + 1 ELSE F[Pick(S)]
    BY <1>1, <2>1
  <2> HIDE DEF R
  <2>7. Sums(H)[S] = IF d \in S THEN Sums(F)[S] + 1 ELSE Sums(F)[S]
    <3>1. CASE d = Pick(S)
      BY <2>1, <2>2, <2>3, <2>4, <2>5, <2>6, <3>1
    <3>2. CASE d # Pick(S)
      BY <2>1, <2>2, <2>3, <2>4, <2>5, <2>6, <3>2
    <3> QED
      BY <3>1, <3>2
  <2> QED
    BY <2>7
<1>5. Good = SUBSET Calls
  <2>9. Good \in SUBSET SUBSET Calls
    OBVIOUS
  <2> HIDE DEF Good
  <2> QED
    BY <1>3, <1>4, <2>9, SizeInduction
<1>6. Sums(H)[Calls] = Sums(F)[Calls] + 1
  BY <1>5
<1> QED
  BY <1>6 DEF Total, H

LEMMA TotalOfNothing ==
  ASSUME IsFiniteSet(Calls)
  PROVE  Total([c \in Calls |-> 0]) = 0
<1> DEFINE F == [c \in Calls |-> 0]
<1>1. F \in [Calls -> Nat] /\ \A c \in Calls : F[c] = 0
  OBVIOUS
<1> HIDE DEF F
<1>2. Sums(F) = Adding(F, Sums(F)) /\ Sums(F) \in [SUBSET Calls -> Nat]
  BY <1>1, SumsExist
<1> DEFINE Good == {S \in SUBSET Calls : Sums(F)[S] = 0}
<1>3. {} \in Good
  BY <1>2 DEF Adding
<1>4. ASSUME NEW S \in SUBSET Calls, S # {}, S \ {Pick(S)} \in Good
      PROVE  S \in Good
  <2>1. Pick(S) \in Calls
    BY <1>4, PickFacts
  <2>2. Sums(F)[S] = F[Pick(S)] + Sums(F)[S \ {Pick(S)}]
    BY <1>2, <1>4 DEF Adding
  <2> QED
    BY <1>1, <1>4, <2>1, <2>2
<1>5. Good = SUBSET Calls
  <2>9. Good \in SUBSET SUBSET Calls
    OBVIOUS
  <2> HIDE DEF Good
  <2> QED
    BY <1>3, <1>4, <2>9, SizeInduction
<1>6. Sums(F)[Calls] = 0
  BY <1>5
<1> QED
  BY <1>6 DEF Total, F
-----------------------------------------------------------------------------
USE InstantsAssumption, ClocksAssumption, MaxTimeAssumption, NoneAssumption

(* How far the generation of a call has come. *)
Begun ==
  \A c \in Calls :
    /\ pc[c] = "new" \/ ~Observed(c) => gen[c] = NotBegun /\ marks[c] = {}
    /\ Observed(c) /\ pc[c] # "new" => gen[c].start \in 0..now
    /\ pc[c] # "ended" => gen[c].end = -1

(* Two calls that are present with one id have both met another. *)
Meeting ==
  \A c, d \in Calls : c # d /\ id[c] = id[d] /\ Present(c) /\ Present(d) =>
    ~alone[c] /\ ~alone[d]

(* A call that met no other keeps its entry while it runs. *)
Holding ==
  \A c \in Calls : Live(c) /\ Observed(c) /\ alone[c] => active[id[c]] = c

(* A call that was exhausted has had the statistics of all its sequences. *)
Exhaustion ==
  \A c \in Calls :
    Observed(c) /\ pc[c] \in {"closing", "ended"} /\ gen[c].status = "ok" =>
      \A s \in Seqs : arrived[c][s] = "early"

(* What a report holds of a generation that had ended is all there is.     *)
Copied ==
  \A h \in Https : reported[h] # None =>
    \A c \in Calls : owner[c] = h /\ reported[h].gens[c].end # -1 =>
      pc[c] = "ended" /\ reported[h].gens[c] = gen[c]

IInv == /\ TypeOK /\ NoStaleEntry /\ Begun /\ InsideGeneration
        /\ IndexesDistinct /\ Meeting /\ Holding /\ Correlated
        /\ Exhaustion /\ Copied

-----------------------------------------------------------------------------
(* The calibration. *)

LEMMA HalfFacts ==
  ASSUME NEW n \in Int
  PROVE  Half(n) \in Int /\ n - 1 <= 2 * Half(n) /\ 2 * Half(n) <= n + 1
  BY DEF Half

(* The calibrated instant is off by at most half the reported error, and   *)
(* the rounding: if, when the wall clock was read between the two          *)
(* monotonic readings, it was ahead by off, then an engine instant t is    *)
(* calibrated to t + off within half of ErrorOf(k), rounded up.            *)
THEOREM CalibrationError ==
  ASSUME NEW k \in Clocks, NEW t \in Int, NEW off \in Int,
         k.before <= k.wall - off, k.wall - off <= k.after
  PROVE  /\ 2 * (Wall(k, t) - (t + off)) <= ErrorOf(k) + 1
         /\ 2 * ((t + off) - Wall(k, t)) <= ErrorOf(k) + 1
<1>1. k.before \in Int /\ k.wall \in Int /\ k.after \in Int
  OBVIOUS
<1> DEFINE n == 2 * t - (k.before + k.after)
<1>2. n \in Int
  BY <1>1
<1>3. Half(n) \in Int /\ n - 1 <= 2 * Half(n) /\ 2 * Half(n) <= n + 1
  BY <1>2, HalfFacts
<1>4. Wall(k, t) = k.wall + Half(n) /\ ErrorOf(k) = k.after - k.before
  BY DEF Wall, Doubled, ErrorOf
<1> HIDE DEF n
<1>5. n = 2 * t - (k.before + k.after)
  BY DEF n
<1> QED
  BY <1>1, <1>3, <1>4, <1>5
-----------------------------------------------------------------------------
(* What a message may record. *)

LEMMA WallFacts ==
  ASSUME NEW k \in Clocks, NEW t \in Int
  PROVE  Wall(k, t) \in Int
<1>1. k.before \in Int /\ k.wall \in Int /\ k.after \in Int
  OBVIOUS
<1> DEFINE n == 2 * t - (k.before + k.after)
<1>2. n \in Int
  BY <1>1
<1>3. Half(n) \in Int
  BY <1>2, HalfFacts
<1>4. Wall(k, t) = k.wall + Half(n)
  BY DEF Wall, Doubled
<1> QED
  BY <1>1, <1>3, <1>4

LEMMA StampFacts ==
  ASSUME NEW m \in Messages, m.clock = "ok", NEW p \in Instants
  PROVE  Stamp(m, p)[1] \in Int /\ Stamp(m, p)[2] \in Int
<1>1. m.reading \in Clocks
  BY DEF Messages
<1>2. p[1] \in Int /\ p[2] \in Int
  OBVIOUS
<1> QED
  BY <1>1, <1>2, WallFacts DEF Stamp

(* What is recorded for a message lies between the start of the generation *)
(* and now, and only one interval of it has an index.                      *)
LEMMA RecordedFacts ==
  ASSUME NEW g \in Generations, NEW m \in Messages
  PROVE  /\ Recorded(g, m) \subseteq Marks
         /\ \A k \in Recorded(g, m) :
              /\ g.start <= k.from /\ k.from <= k.to /\ k.to <= now
              /\ k.index \in {-1, g.count}
         /\ \A k1, k2 \in Recorded(g, m) :
              k1.index = k2.index /\ k1.index # -1 => k1 = k2
<1>0. g.count \in Nat
  BY DEF Generations
<1>1. CASE m.clock # "ok"
  BY <1>1 DEF Recorded
<1>2. CASE m.clock = "ok"
  <2>1. ASSUME NEW k \in Timeline(g, m)
        PROVE  /\ k = Mark(g.count, Stamp(m, m.edges)) /\ k \in Marks
               /\ g.start <= k.from /\ k.from <= k.to /\ k.to <= now
               /\ k.index = g.count
    <3>1. m.edges # None /\ Accepts(g, Stamp(m, m.edges))
          /\ k = Mark(g.count, Stamp(m, m.edges))
      BY <2>1 DEF Timeline
    <3>2. m.edges \in Instants
      BY <1>2, <3>1 DEF Messages
    <3>3. Stamp(m, m.edges)[1] \in Int /\ Stamp(m, m.edges)[2] \in Int
      BY <1>2, <3>2, StampFacts
    <3> QED
      BY <1>0, <3>1, <3>3 DEF Mark, Marks, Accepts
  <2>2. ASSUME NEW k \in Stages(g, m)
        PROVE  /\ k \in Marks /\ k.index = -1
               /\ g.start <= k.from /\ k.from <= k.to /\ k.to <= now
    <3>1. PICK i \in 1..Len(m.stages) :
            /\ k = Mark(-1, Stamp(m, m.stages[i]))
            /\ \A j \in 1..i : Accepts(g, Stamp(m, m.stages[j]))
      BY <2>2 DEF Stages
    <3>2. \/ m.stages = <<>>
          \/ \E w \in Instants : m.stages = <<w>>
          \/ \E w, x \in Instants : m.stages = <<w, x>>
      BY <1>2 DEF Messages
    <3>3. i \in 1..i /\ m.stages[i] \in Instants
      <4>1. CASE m.stages = <<>>
        BY <4>1
      <4>2. ASSUME NEW w \in Instants, m.stages = <<w>>
            PROVE  i \in 1..i /\ m.stages[i] \in Instants
        <5>1. i = 1
          BY <4>2
        <5> QED
          BY <4>2, <5>1
      <4>3. ASSUME NEW w \in Instants, NEW x \in Instants, m.stages = <<w, x>>
            PROVE  i \in 1..i /\ m.stages[i] \in Instants
        <5>1. i = 1 \/ i = 2
          BY <4>3
        <5> QED
          BY <4>3, <5>1
      <4> QED
        BY <3>2, <4>1, <4>2, <4>3
    <3>4. Stamp(m, m.stages[i])[1] \in Int /\ Stamp(m, m.stages[i])[2] \in Int
      BY <1>2, <3>3, StampFacts
    <3>5. Accepts(g, Stamp(m, m.stages[i]))
      BY <3>1, <3>3
    <3> QED
      BY <3>1, <3>4, <3>5 DEF Mark, Marks, Accepts
  <2>3. Recorded(g, m) = Timeline(g, m) \cup Stages(g, m)
    BY <1>2 DEF Recorded
  <2> QED
    BY <2>1, <2>2, <2>3
<1> QED
  BY <1>1, <1>2
-----------------------------------------------------------------------------
LEMMA InitIInv == Init => IInv
<1> SUFFICES ASSUME Init PROVE IInv
  OBVIOUS
<1>1. NotBegun \in Generations
  BY DEF NotBegun, Generations
<1>2. TypeOK
  BY <1>1 DEF Init, TypeOK
<1>3. NoStaleEntry /\ Begun /\ Meeting /\ Holding /\ Exhaustion /\ Copied
  BY DEF Init, NoStaleEntry, Begun, Meeting, Holding, Exhaustion, Copied,
         Present, Live, NotBegun
<1>4. InsideGeneration /\ IndexesDistinct
  BY DEF Init, InsideGeneration, IndexesDistinct
<1>5. Correlated
  BY DEF Init, Correlated, NotBegun
<1> QED
  BY <1>2, <1>3, <1>4, <1>5 DEF IInv

(* Correlated speaks of what was taken and what has arrived, and of the    *)
(* calls that are alone.                                                   *)
LEMMA SameCorrelated ==
  ASSUME Correlated, owner' = owner,
         \A c \in Calls : gen'[c].taken = gen[c].taken /\ (alone'[c] => alone[c]),
         \A c \in Calls, s \in Seqs : arrived'[c][s] = "early" <=> arrived[c][s] = "early"
  PROVE  Correlated'
<1> SUFFICES ASSUME NEW c \in Calls, alone'[c], NEW s \in Seqs, NEW d \in Calls
             PROVE  /\ (<<c, s>> \in gen'[d].taken) <=>
                         (d = c /\ Observed(c)' /\ arrived'[c][s] = "early")
                    /\ <<d, s>> \in gen'[c].taken => d = c
  BY DEF Correlated
<1>1. /\ (<<c, s>> \in gen[d].taken) <=>
           (d = c /\ Observed(c) /\ arrived[c][s] = "early")
      /\ <<d, s>> \in gen[c].taken => d = c
  BY DEF Correlated
<1>2. Observed(c)' <=> Observed(c)
  BY DEF Observed
<1>3. gen'[d].taken = gen[d].taken /\ gen'[c].taken = gen[c].taken
  OBVIOUS
<1> QED
  BY <1>1, <1>2, <1>3

(* Entries stay right as long as no call ends. *)
LEMMA SameEntries ==
  ASSUME NoStaleEntry, active \in [Ids -> Calls \cup {None}],
         active' = active, id' = id, owner' = owner,
         \A c \in Calls : Live(c) => Live(c)'
  PROVE  NoStaleEntry'
<1> SUFFICES ASSUME NEW i \in Ids, active[i] # None
             PROVE  /\ pc'[active[i]] \in {"running", "closing"}
                    /\ owner[active[i]] # None /\ id[active[i]] = i
  BY DEF NoStaleEntry, Live, Observed
<1>1. active[i] \in Calls
  OBVIOUS
<1>2. Live(active[i]) /\ Observed(active[i]) /\ id[active[i]] = i
  BY DEF NoStaleEntry
<1> QED
  BY <1>1, <1>2 DEF Live, Observed

(* The first step of a generator. *)
LEMMA EnterIInv ==
  ASSUME IInv, NEW c \in Calls, Enter(c)
  PROVE  IInv'
<1> USE DEF given
<1>0. /\ TypeOK /\ NoStaleEntry /\ Begun /\ InsideGeneration /\ IndexesDistinct
      /\ Meeting /\ Holding /\ Correlated /\ Exhaustion /\ Copied
  BY DEF IInv
<1>1. /\ pc[c] = "new" /\ pc' = [pc EXCEPT ![c] = "running"]
      /\ id' = id /\ owner' = owner /\ now' = now /\ marks' = marks
      /\ requests' = requests /\ arrived' = arrived /\ reported' = reported
      /\ ~Observed(c) => gen' = gen /\ active' = active
      /\ Observed(c) => /\ gen' = [gen EXCEPT ![c].start = now]
                        /\ active' = [active EXCEPT ![id[c]] = c]
  BY DEF Enter, Registered
<1>2. alone' = [d \in Calls |-> /\ alone[d]
                                /\ d = c => Meets(c) = {}
                                /\ d \notin Meets(c)]
  BY DEF Enter
<1>3. /\ now \in 0..MaxTime /\ gen \in [Calls -> Generations]
      /\ id \in [Calls -> Ids] /\ active \in [Ids -> Calls \cup {None}]
      /\ pc \in [Calls -> {"new", "running", "closing", "ended"}]
      /\ alone \in [Calls -> BOOLEAN]
  BY <1>0 DEF TypeOK
<1>4. /\ gen' \in [Calls -> Generations]
      /\ \A d \in Calls : d # c \/ ~Observed(c) => gen'[d] = gen[d]
      /\ gen'[c].start = IF Observed(c) THEN now ELSE gen[c].start
      /\ gen'[c].end = gen[c].end /\ gen'[c].status = gen[c].status
      /\ gen'[c].count = gen[c].count /\ gen'[c].taken = gen[c].taken
  <2>1. CASE Observed(c)
    <3>1. gen[c] \in Generations
      BY <1>3
    <3>2. [gen[c] EXCEPT !.start = now] \in Generations
      BY <1>3, <3>1 DEF Generations
    <3>3. gen' = [gen EXCEPT ![c] = [gen[c] EXCEPT !.start = now]]
      BY <1>1, <2>1
    <3> QED
      BY <1>3, <2>1, <3>1, <3>2, <3>3 DEF Generations
  <2>2. CASE ~Observed(c)
    BY <1>1, <1>3, <2>2
  <2> QED
    BY <2>1, <2>2
<1>5. /\ \A d \in Calls : Observed(d)' <=> Observed(d)
      /\ \A d \in Calls : pc'[d] = IF d = c THEN "running" ELSE pc[d]
      /\ \A d \in Calls : d # c => (Present(d)' <=> Present(d))
      /\ \A d \in Calls : Live(d)' <=> d = c \/ Live(d)
      /\ \A d \in Calls : alone'[d] => alone[d] /\ d \notin Meets(c)
      /\ alone'[c] => Meets(c) = {}
  BY <1>1, <1>2, <1>3 DEF Observed, Present, Live
<1>6. TypeOK'
  <2>1. alone' \in [Calls -> BOOLEAN]
    BY <1>2
  <2>2. pc' \in [Calls -> {"new", "running", "closing", "ended"}]
    BY <1>1, <1>3
  <2>3. active' \in [Ids -> Calls \cup {None}]
    BY <1>1, <1>3
  <2> QED
    BY <1>0, <1>1, <1>4, <2>1, <2>2, <2>3 DEF TypeOK
<1>7. NoStaleEntry'
  BY <1>0, <1>1, <1>3, <1>5 DEF NoStaleEntry
<1>8. Begun'
  BY <1>0, <1>1, <1>3, <1>4, <1>5 DEF Begun, NotBegun
<1>9. InsideGeneration'
  <2>1. marks[c] = {}
    BY <1>0, <1>1 DEF Begun
  <2> QED
    BY <1>0, <1>1, <1>4, <2>1 DEF InsideGeneration
<1>10. IndexesDistinct'
  BY <1>0, <1>1, <1>4 DEF IndexesDistinct
<1>11. Meeting'
  <2> SUFFICES ASSUME NEW a \in Calls, NEW b \in Calls, a # b, id[a] = id[b],
                      Present(a)', Present(b)'
               PROVE  ~alone'[a] /\ ~alone'[b]
    BY <1>1 DEF Meeting
  <2>1. CASE a = c
    <3>1. b \in Meets(c)
      BY <1>5, <2>1 DEF Meets
    <3> QED
      BY <1>5, <2>1, <3>1
  <2>2. CASE b = c
    <3>1. a \in Meets(c)
      BY <1>5, <2>2 DEF Meets
    <3> QED
      BY <1>5, <2>2, <3>1
  <2>3. CASE a # c /\ b # c
    BY <1>0, <1>5, <2>3 DEF Meeting
  <2> QED
    BY <2>1, <2>2, <2>3
<1>12. Holding'
  <2> SUFFICES ASSUME NEW d \in Calls, Live(d)', Observed(d), alone'[d]
               PROVE  active'[id[d]] = d
    BY <1>1, <1>5 DEF Holding
  <2>1. CASE d = c
    BY <1>1, <1>3, <2>1
  <2>2. CASE d # c
    <3>1. active[id[d]] = d
      BY <1>0, <1>5, <2>2 DEF Holding
    <3>2. Present(d)
      BY <1>5, <2>2 DEF Present
    <3>3. id[d] # id[c]
      BY <1>5, <2>2, <3>2 DEF Meets
    <3> QED
      BY <1>1, <1>3, <3>1, <3>3
  <2> QED
    BY <2>1, <2>2
<1>13. Correlated'
  <2>1. \A d \in Calls : gen'[d].taken = gen[d].taken
    BY <1>4
  <2> QED
    BY <1>0, <1>1, <1>5, <2>1, SameCorrelated
<1>14. Exhaustion'
  BY <1>0, <1>1, <1>4, <1>5 DEF Exhaustion
<1>15. Copied'
  BY <1>0, <1>1, <1>4, <1>5 DEF Copied
<1> QED
  BY <1>6, <1>7, <1>8, <1>9, <1>10, <1>11, <1>12, <1>13, <1>14, <1>15 DEF IInv
(* The statistics of a sequence. *)
LEMMA FinishIInv ==
  ASSUME IInv, NEW c \in Calls, NEW s \in Seqs, NEW m \in Messages,
         Finish(c, s, m)
  PROVE  IInv'
<1> USE DEF given
<1> DEFINE e == active[id[c]]
<1>0. /\ TypeOK /\ NoStaleEntry /\ Begun /\ InsideGeneration /\ IndexesDistinct
      /\ Meeting /\ Holding /\ Correlated /\ Exhaustion /\ Copied
  BY DEF IInv
<1>1. /\ pc[c] # "new" /\ arrived[c][s] = "pending"
      /\ arrived' = [arrived EXCEPT ![c][s] = IF Live(c) THEN "early" ELSE "late"]
      /\ id' = id /\ owner' = owner /\ now' = now /\ pc' = pc
      /\ active' = active /\ alone' = alone /\ reported' = reported
      /\ e # None => Credit(e, c, s, m)
      /\ e = None => gen' = gen /\ marks' = marks /\ requests' = requests
  BY DEF Finish, Entry
<1>2. /\ now \in 0..MaxTime /\ gen \in [Calls -> Generations]
      /\ id \in [Calls -> Ids] /\ active \in [Ids -> Calls \cup {None}]
      /\ owner \in [Calls -> Https \cup {None}]
      /\ pc \in [Calls -> {"new", "running", "closing", "ended"}]
      /\ marks \in [Calls -> SUBSET Marks] /\ requests \in [Https -> Nat]
      /\ arrived \in [Calls -> [Seqs -> {"pending", "early", "late", "dropped"}]]
  BY <1>0 DEF TypeOK
<1>3. e # None => /\ e \in Calls /\ Live(e) /\ Observed(e) /\ id[e] = id[c]
                  /\ pc[e] # "ended" /\ gen[e].end = -1
                  /\ gen[e].start \in 0..now
  BY <1>0, <1>2 DEF NoStaleEntry, Live, Begun
<1> HIDE DEF e
<1>4. /\ gen' \in [Calls -> Generations]
      /\ \A d \in Calls :
           /\ gen'[d].start = gen[d].start /\ gen'[d].end = gen[d].end
           /\ gen'[d].status = gen[d].status
           /\ d = e => gen'[d].count = gen[d].count + 1
                      /\ gen'[d].taken = gen[d].taken \cup {<<c, s>>}
           /\ d # e => gen'[d] = gen[d]
  <2>1. CASE e = None
    BY <1>1, <1>2, <2>1
  <2>2. CASE e # None
    <3>1. gen' = [gen EXCEPT ![e] = [gen[e] EXCEPT !.count = gen[e].count + 1,
                                !.taken = gen[e].taken \cup {<<c, s>>}]]
      BY <1>1, <1>2, <1>3, <2>2 DEF Credit, Counted
    <3>2. gen[e] \in Generations
      BY <1>2, <1>3, <2>2
    <3>3. [gen[e] EXCEPT !.count = gen[e].count + 1,
             !.taken = gen[e].taken \cup {<<c, s>>}] \in Generations
      <4>1. gen[e].count + 1 \in Nat
        BY <3>2 DEF Generations
      <4>2. gen[e].taken \cup {<<c, s>>} \in SUBSET Pairs
        BY <3>2 DEF Generations, Pairs
      <4> QED
        BY <3>2, <4>1, <4>2 DEF Generations
    <3> QED
      BY <1>2, <1>3, <2>2, <3>1, <3>2, <3>3 DEF Generations
  <2> QED
    BY <2>1, <2>2
<1>5. /\ marks' \in [Calls -> SUBSET Marks]
      /\ \A d \in Calls : IF d = e THEN marks'[d] = marks[d] \cup Recorded(gen[d], m)
                                   ELSE marks'[d] = marks[d]
  <2>1. CASE e = None
    BY <1>1, <1>2, <2>1
  <2>2. CASE e # None
    <3>1. marks' = [marks EXCEPT ![e] = marks[e] \cup Recorded(gen[e], m)]
      BY <1>1, <2>2 DEF Credit
    <3>2. Recorded(gen[e], m) \subseteq Marks
      BY <1>2, <1>3, <2>2, RecordedFacts
    <3> QED
      BY <1>2, <1>3, <2>2, <3>1, <3>2
  <2> QED
    BY <2>1, <2>2
<1>6. /\ arrived' \in [Calls -> [Seqs -> {"pending", "early", "late", "dropped"}]]
      /\ \A a \in Calls, t \in Seqs :
           arrived'[a][t] = IF a = c /\ t = s
                            THEN IF Live(c) THEN "early" ELSE "late"
                            ELSE arrived[a][t]
  BY <1>1, <1>2
<1>7. /\ \A d \in Calls : Observed(d)' <=> Observed(d)
      /\ \A d \in Calls : Live(d)' <=> Live(d)
      /\ \A d \in Calls : Present(d)' => Present(d)
  <2>1. \A d \in Calls : (Observed(d)' <=> Observed(d)) /\ (Live(d)' <=> Live(d))
    BY <1>1 DEF Observed, Live
  <2>2. ASSUME NEW d \in Calls, Present(d)'
        PROVE  Present(d)
    <3>1. \A t \in Seqs : arrived'[d][t] = "pending" => arrived[d][t] = "pending"
      BY <1>6
    <3> QED
      BY <1>1, <2>1, <2>2, <3>1 DEF Present
  <2> QED
    BY <2>1, <2>2
<1>8. TypeOK'
  <2>1. requests' \in [Https -> Nat]
    <3>1. CASE e = None
      BY <1>1, <1>2, <3>1
    <3>2. CASE e # None
      <4>1. owner[e] \in Https
        BY <1>2, <1>3, <3>2 DEF Observed
      <4>2. requests' = [requests EXCEPT ![owner[e]] = requests[owner[e]] + 1]
        BY <1>1, <3>2 DEF Credit
      <4> QED
        BY <1>2, <4>1, <4>2
    <3> QED
      BY <3>1, <3>2
  <2> QED
    BY <1>0, <1>1, <1>4, <1>5, <1>6, <2>1 DEF TypeOK
<1>9. NoStaleEntry'
  BY <1>0, <1>1, <1>2, <1>7 DEF NoStaleEntry
<1>10. Begun'
  <2> SUFFICES ASSUME NEW d \in Calls
               PROVE  /\ pc[d] = "new" \/ ~Observed(d) =>
                           gen'[d] = NotBegun /\ marks'[d] = {}
                      /\ Observed(d) /\ pc[d] # "new" => gen'[d].start \in 0..now
                      /\ pc[d] # "ended" => gen'[d].end = -1
    BY <1>1, <1>7 DEF Begun
  <2>1. pc[d] = "new" \/ ~Observed(d) => d # e
    BY <1>2, <1>3 DEF Live
  <2> QED
    BY <1>0, <1>4, <1>5, <2>1 DEF Begun
<1>11. InsideGeneration'
  <2> SUFFICES ASSUME NEW d \in Calls, NEW k \in marks'[d]
               PROVE  /\ gen[d].start <= k.from /\ k.from <= k.to
                      /\ k.to <= IF gen[d].end = -1 THEN now ELSE gen[d].end
    BY <1>1, <1>4 DEF InsideGeneration
  <2>1. CASE k \in marks[d]
    BY <1>0, <2>1 DEF InsideGeneration
  <2>2. CASE d = e /\ k \in Recorded(gen[d], m)
    <3>1. gen[d] \in Generations /\ gen[d].end = -1
      BY <1>2, <1>3, <2>2
    <3> QED
      BY <2>2, <3>1, RecordedFacts
  <2> QED
    BY <1>5, <2>1, <2>2
<1>12. IndexesDistinct'
  <2> SUFFICES ASSUME NEW d \in Calls, NEW k1 \in marks'[d], NEW k2 \in marks'[d]
               PROVE  /\ k1.index < gen'[d].count
                      /\ k1.index = k2.index /\ k1.index # -1 => k1 = k2
    BY <1>1 DEF IndexesDistinct
  <2>0. gen[d] \in Generations /\ gen[d].count \in Nat
    BY <1>2 DEF Generations
  <2>1. k1 \in Marks /\ k2 \in Marks /\ k1.index \in Int /\ k2.index \in Int
    BY <1>5 DEF Marks
  <2>2. \A k \in marks[d] : k.index < gen[d].count
    BY <1>0 DEF IndexesDistinct
  <2>3. CASE d # e
    BY <1>0, <1>4, <1>5, <2>3 DEF IndexesDistinct
  <2>4. CASE d = e
    <3>1. gen'[d].count = gen[d].count + 1
          /\ marks'[d] = marks[d] \cup Recorded(gen[d], m)
      BY <1>4, <1>5, <2>4
    <3>2. \A k \in Recorded(gen[d], m) : k.index \in {-1, gen[d].count}
      BY <2>0, RecordedFacts
    <3>3. k1.index < gen'[d].count
      BY <2>0, <2>1, <2>2, <3>1, <3>2
    <3>4. CASE k1 \in marks[d] /\ k2 \in marks[d]
      BY <1>0, <3>3, <3>4 DEF IndexesDistinct
    <3>5. CASE k1 \in Recorded(gen[d], m) /\ k2 \in Recorded(gen[d], m)
      BY <2>0, <3>3, <3>5, RecordedFacts
    <3>6. CASE \/ k1 \in marks[d] /\ k2 \in Recorded(gen[d], m)
               \/ k2 \in marks[d] /\ k1 \in Recorded(gen[d], m)
      BY <2>0, <2>1, <2>2, <3>2, <3>3, <3>6
    <3> QED
      BY <3>1, <3>4, <3>5, <3>6
  <2> QED
    BY <2>3, <2>4
<1>13. Meeting'
  BY <1>0, <1>1, <1>7 DEF Meeting
<1>14. Holding'
  BY <1>0, <1>1, <1>7 DEF Holding
<1>15. Correlated'
  <2> SUFFICES ASSUME NEW a \in Calls, alone'[a], NEW t \in Seqs, NEW d \in Calls
               PROVE  /\ (<<a, t>> \in gen'[d].taken) <=>
                           (d = a /\ Observed(a)' /\ arrived'[a][t] = "early")
                      /\ <<d, t>> \in gen'[a].taken => d = a
    BY DEF Correlated
  <2>0. alone[a] /\ (Observed(a)' <=> Observed(a))
    BY <1>1, <1>7
  <2>1. /\ (<<a, t>> \in gen[d].taken) <=>
             (d = a /\ Observed(a) /\ arrived[a][t] = "early")
        /\ <<d, t>> \in gen[a].taken => d = a
    BY <1>0, <2>0 DEF Correlated
  <2>2. \A x \in Calls : /\ x = e => gen'[x].taken = gen[x].taken \cup {<<c, s>>}
                         /\ x # e => gen'[x].taken = gen[x].taken
    BY <1>4
  <2>3. Present(c)
    BY <1>1, <1>2 DEF Present, Live
  <2>4. e # None /\ e # c => ~alone[c] /\ ~alone[e]
    BY <1>0, <1>3, <2>3 DEF Meeting, Present
  <2>5. alone[c] /\ Live(c) /\ Observed(c) => e = c
    BY <1>0 DEF Holding, e
  <2>6. c # None
    OBVIOUS
  <2>7. <<d, t>> \in gen'[a].taken => d = a
    BY <2>0, <2>1, <2>2, <1>2, <1>3, <2>4
  <2>8. CASE a = c /\ t = s
    <3>1. <<a, t>> \notin gen[d].taken
      BY <1>1, <2>1, <2>8
    <3>2. (<<a, t>> \in gen'[d].taken) <=> d = e
      BY <2>2, <2>8, <3>1
    <3>3. arrived'[a][t] = "early" <=> Live(c)
      BY <1>6, <2>8
    <3> QED
      BY <1>3, <2>0, <2>4, <2>5, <2>6, <2>7, <2>8, <3>2, <3>3
  <2>9. CASE ~(a = c /\ t = s)
    <3>1. (<<a, t>> \in gen'[d].taken) <=> (<<a, t>> \in gen[d].taken)
      BY <2>2, <2>9
    <3>2. arrived'[a][t] = arrived[a][t]
      BY <1>6, <2>9
    <3> QED
      BY <2>0, <2>1, <2>7, <3>1, <3>2
  <2> QED
    BY <2>8, <2>9
<1>16. Exhaustion'
  <2> SUFFICES ASSUME NEW d \in Calls, Observed(d), pc[d] \in {"closing", "ended"},
                      gen[d].status = "ok", NEW t \in Seqs
               PROVE  arrived'[d][t] = "early"
    BY <1>1, <1>4, <1>7 DEF Exhaustion
  <2>1. arrived[d][t] = "early"
    BY <1>0 DEF Exhaustion
  <2> QED
    BY <1>1, <1>6, <2>1
<1>17. Copied'
  <2>1. \A d \in Calls : pc[d] = "ended" => gen'[d] = gen[d]
    BY <1>2, <1>3, <1>4
  <2> QED
    BY <1>0, <1>1, <2>1 DEF Copied
<1> QED
  BY <1>8, <1>9, <1>10, <1>11, <1>12, <1>13, <1>14, <1>15, <1>16, <1>17 DEF IInv
LEMMA DropIInv ==
  ASSUME IInv, NEW c \in Calls, NEW s \in Seqs, Drop(c, s)
  PROVE  IInv'
<1> USE DEF given
<1>0. /\ TypeOK /\ NoStaleEntry /\ Begun /\ InsideGeneration /\ IndexesDistinct
      /\ Meeting /\ Holding /\ Correlated /\ Exhaustion /\ Copied
  BY DEF IInv
<1>1. /\ arrived[c][s] = "pending"
      /\ arrived' = [arrived EXCEPT ![c][s] = "dropped"]
      /\ UNCHANGED <<id, owner, now, pc, active, gen, marks, requests, alone, reported>>
  BY DEF Drop
<1>2. /\ arrived' \in [Calls -> [Seqs -> {"pending", "early", "late", "dropped"}]]
      /\ \A a \in Calls, t \in Seqs :
           arrived'[a][t] = IF a = c /\ t = s THEN "dropped" ELSE arrived[a][t]
  BY <1>0, <1>1 DEF TypeOK
<1>3. \A d \in Calls : /\ Observed(d)' <=> Observed(d)
                       /\ Live(d)' <=> Live(d)
                       /\ Present(d)' => Present(d)
  BY <1>1, <1>2 DEF Observed, Live, Present
<1>4. \A a \in Calls, t \in Seqs : arrived'[a][t] = "early" <=> arrived[a][t] = "early"
  BY <1>1, <1>2
<1>5. TypeOK'
  BY <1>0, <1>1, <1>2 DEF TypeOK
<1>6. NoStaleEntry' /\ Begun' /\ InsideGeneration' /\ IndexesDistinct' /\ Copied'
  <2>1. NoStaleEntry'
    BY <1>0, <1>1, <1>3, SameEntries DEF TypeOK
  <2>2. Begun' /\ Copied'
    BY <1>0, <1>1, <1>3 DEF Begun, Copied
  <2>3. InsideGeneration' /\ IndexesDistinct'
    BY <1>0, <1>1 DEF InsideGeneration, IndexesDistinct
  <2> QED
    BY <2>1, <2>2, <2>3
<1>7. Meeting' /\ Holding'
  BY <1>0, <1>1, <1>3 DEF Meeting, Holding
<1>8. Correlated'
  BY <1>0, <1>1, <1>4, SameCorrelated
<1>9. Exhaustion'
  BY <1>0, <1>1, <1>3, <1>4 DEF Exhaustion
<1> QED
  BY <1>5, <1>6, <1>7, <1>8, <1>9 DEF IInv

(* The consumer stops: exhausted, failed, cancelled. *)
LEMMA LeavesIInv ==
  ASSUME IInv, NEW c \in Calls, NEW status \in {"ok", "error", "cancelled"},
         Leaves(c, status),
         status = "ok" => \A s \in Seqs : arrived[c][s] = "early"
  PROVE  IInv'
<1> USE DEF given
<1>0. /\ TypeOK /\ NoStaleEntry /\ Begun /\ InsideGeneration /\ IndexesDistinct
      /\ Meeting /\ Holding /\ Correlated /\ Exhaustion /\ Copied
  BY DEF IInv
<1>1. /\ pc[c] = "running" /\ pc' = [pc EXCEPT ![c] = "closing"]
      /\ gen' = IF Observed(c) THEN [gen EXCEPT ![c].status = status] ELSE gen
      /\ UNCHANGED <<id, owner, now, active, marks, requests, arrived, alone, reported>>
  BY DEF Leaves
<1>2. /\ gen \in [Calls -> Generations]
      /\ pc \in [Calls -> {"new", "running", "closing", "ended"}]
  BY <1>0 DEF TypeOK
<1>3. /\ pc' \in [Calls -> {"new", "running", "closing", "ended"}]
      /\ \A d \in Calls : pc'[d] = IF d = c THEN "closing" ELSE pc[d]
  BY <1>1, <1>2
<1>4. /\ gen' \in [Calls -> Generations]
      /\ \A d \in Calls :
           /\ gen'[d].start = gen[d].start /\ gen'[d].end = gen[d].end
           /\ gen'[d].count = gen[d].count /\ gen'[d].taken = gen[d].taken
           /\ gen'[d].status = IF d = c /\ Observed(c) THEN status ELSE gen[d].status
           /\ d # c \/ ~Observed(c) => gen'[d] = gen[d]
  <2>1. gen[c] \in Generations
    BY <1>2
  <2>2. [gen[c] EXCEPT !.status = status] \in Generations
    BY <2>1 DEF Generations
  <2>3. gen' = [gen EXCEPT ![c] = IF Observed(c) THEN [gen[c] EXCEPT !.status = status]
                                                ELSE gen[c]]
    BY <1>1, <1>2
  <2> QED
    BY <1>2, <2>1, <2>2, <2>3 DEF Generations
<1>5. \A d \in Calls : /\ Observed(d)' <=> Observed(d)
                       /\ Live(d)' <=> Live(d)
                       /\ Present(d)' <=> Present(d)
  BY <1>1, <1>3 DEF Observed, Live, Present
<1>6. TypeOK'
  BY <1>0, <1>1, <1>3, <1>4 DEF TypeOK
<1>7. NoStaleEntry' /\ InsideGeneration' /\ IndexesDistinct'
  <2>1. NoStaleEntry'
    BY <1>0, <1>1, <1>5, SameEntries DEF TypeOK
  <2>2. InsideGeneration' /\ IndexesDistinct'
    BY <1>0, <1>1, <1>4 DEF InsideGeneration, IndexesDistinct
  <2> QED
    BY <2>1, <2>2
<1>8. Begun'
  BY <1>0, <1>1, <1>3, <1>4, <1>5 DEF Begun
<1>9. Meeting' /\ Holding'
  BY <1>0, <1>1, <1>5 DEF Meeting, Holding
<1>10. Correlated'
  BY <1>0, <1>1, <1>4, SameCorrelated
<1>11. Exhaustion'
  BY <1>0, <1>1, <1>3, <1>4, <1>5 DEF Exhaustion
<1>12. Copied'
  BY <1>0, <1>1, <1>3, <1>4 DEF Copied
<1> QED
  BY <1>6, <1>7, <1>8, <1>9, <1>10, <1>11, <1>12 DEF IInv

(* The finally clause of generate(). *)
LEMMA EndIInv ==
  ASSUME IInv, NEW c \in Calls, End(c)
  PROVE  IInv'
<1> USE DEF given
<1>0. /\ TypeOK /\ NoStaleEntry /\ Begun /\ InsideGeneration /\ IndexesDistinct
      /\ Meeting /\ Holding /\ Correlated /\ Exhaustion /\ Copied
  BY DEF IInv
<1>1. /\ pc[c] = "closing" /\ pc' = [pc EXCEPT ![c] = "ended"]
      /\ gen' = IF Observed(c) THEN [gen EXCEPT ![c].end = now] ELSE gen
      /\ active' = [active EXCEPT ![id[c]] = None]
      /\ UNCHANGED <<id, owner, now, marks, requests, arrived, alone, reported>>
  BY DEF End, EndTime, Popped
<1>2. /\ now \in 0..MaxTime /\ gen \in [Calls -> Generations]
      /\ id \in [Calls -> Ids] /\ active \in [Ids -> Calls \cup {None}]
      /\ pc \in [Calls -> {"new", "running", "closing", "ended"}]
      /\ marks \in [Calls -> SUBSET Marks]
  BY <1>0 DEF TypeOK
<1>3. /\ pc' \in [Calls -> {"new", "running", "closing", "ended"}]
      /\ \A d \in Calls : pc'[d] = IF d = c THEN "ended" ELSE pc[d]
      /\ active' \in [Ids -> Calls \cup {None}]
      /\ \A i \in Ids : active'[i] = IF i = id[c] THEN None ELSE active[i]
  BY <1>1, <1>2
<1>4. /\ gen' \in [Calls -> Generations]
      /\ \A d \in Calls :
           /\ gen'[d].start = gen[d].start /\ gen'[d].status = gen[d].status
           /\ gen'[d].count = gen[d].count /\ gen'[d].taken = gen[d].taken
           /\ gen'[d].end = IF d = c /\ Observed(c) THEN now ELSE gen[d].end
           /\ d # c \/ ~Observed(c) => gen'[d] = gen[d]
  <2>1. gen[c] \in Generations
    BY <1>2
  <2>2. [gen[c] EXCEPT !.end = now] \in Generations
    BY <1>2, <2>1 DEF Generations
  <2>3. gen' = [gen EXCEPT ![c] = IF Observed(c) THEN [gen[c] EXCEPT !.end = now]
                                                ELSE gen[c]]
    BY <1>1, <1>2
  <2> QED
    BY <1>2, <2>1, <2>2, <2>3 DEF Generations
<1>5. \A d \in Calls : /\ Observed(d)' <=> Observed(d)
                       /\ Live(d)' <=> d # c /\ Live(d)
                       /\ Present(d)' => Present(d)
  BY <1>1, <1>3 DEF Observed, Live, Present
<1>6. Present(c) /\ Live(c)
  BY <1>1 DEF Present, Live
<1>7. TypeOK'
  BY <1>0, <1>1, <1>3, <1>4 DEF TypeOK
<1>8. NoStaleEntry'
  <2> SUFFICES ASSUME NEW i \in Ids, active'[i] # None
               PROVE  /\ pc'[active'[i]] \in {"running", "closing"}
                      /\ owner'[active'[i]] # None /\ id'[active'[i]] = i
    BY DEF NoStaleEntry, Live, Observed
  <2>1. i # id[c] /\ active'[i] = active[i]
    BY <1>3
  <2>2. /\ active[i] \in Calls /\ Live(active[i]) /\ Observed(active[i])
        /\ id[active[i]] = i
    BY <1>0, <1>2, <2>1 DEF NoStaleEntry
  <2> QED
    BY <1>1, <1>3, <2>1, <2>2 DEF Live, Observed
<1>9. Begun'
  BY <1>0, <1>1, <1>3, <1>4, <1>5 DEF Begun
<1>10. InsideGeneration'
  <2> SUFFICES ASSUME NEW d \in Calls, NEW k \in marks[d]
               PROVE  /\ gen'[d].start <= k.from /\ k.from <= k.to
                      /\ k.to <= IF gen'[d].end = -1 THEN now ELSE gen'[d].end
    BY <1>1 DEF InsideGeneration
  <2>1. gen[c].end = -1
    BY <1>0, <1>1 DEF Begun
  <2>2. /\ gen[d].start <= k.from /\ k.from <= k.to
        /\ k.to <= IF gen[d].end = -1 THEN now ELSE gen[d].end
    BY <1>0 DEF InsideGeneration
  <2> QED
    BY <1>2, <1>4, <2>1, <2>2
<1>11. IndexesDistinct'
  BY <1>0, <1>1, <1>4 DEF IndexesDistinct
<1>12. Meeting'
  BY <1>0, <1>1, <1>5 DEF Meeting
<1>13. Holding'
  <2> SUFFICES ASSUME NEW d \in Calls, Live(d)', Observed(d)', alone'[d]
               PROVE  active'[id'[d]] = d
    BY DEF Holding
  <2>1. d # c /\ Live(d) /\ Observed(d) /\ alone[d] /\ Present(d)
    BY <1>1, <1>5 DEF Present
  <2>2. active[id[d]] = d
    BY <1>0, <2>1 DEF Holding
  <2>3. id[d] # id[c]
    BY <1>0, <1>6, <2>1 DEF Meeting
  <2> QED
    BY <1>1, <1>2, <1>3, <2>2, <2>3
<1>14. Correlated'
  BY <1>0, <1>1, <1>4, SameCorrelated
<1>15. Exhaustion'
  BY <1>0, <1>1, <1>3, <1>4, <1>5 DEF Exhaustion
<1>16. Copied'
  BY <1>0, <1>1, <1>3, <1>4 DEF Copied
<1> QED
  BY <1>7, <1>8, <1>9, <1>10, <1>11, <1>12, <1>13, <1>14, <1>15, <1>16 DEF IInv

(* The end of an HTTP request. *)
LEMMA ReportIInv ==
  ASSUME IInv, NEW h \in Https, Report(h)
  PROVE  IInv'
<1> USE DEF given
<1>0. /\ TypeOK /\ NoStaleEntry /\ Begun /\ InsideGeneration /\ IndexesDistinct
      /\ Meeting /\ Holding /\ Correlated /\ Exhaustion /\ Copied
  BY DEF IInv
<1> DEFINE r == [requests |-> requests[h],
                gens |-> [c \in Calls |-> IF owner[c] = h THEN gen[c] ELSE NotBegun]]
<1>1. /\ reported' = [reported EXCEPT ![h] = r]
      /\ UNCHANGED <<id, owner, now, pc, active, gen, marks, requests, arrived, alone>>
  BY DEF Report
<1>2. reported' \in [Https -> Reports \cup {None}]
  <2>1. NotBegun \in Generations
    BY DEF NotBegun, Generations
  <2>2. gen \in [Calls -> Generations] /\ requests \in [Https -> Nat]
    BY <1>0 DEF TypeOK
  <2>3. r \in Reports
    BY <2>1, <2>2 DEF Reports
  <2> QED
    BY <1>0, <1>1, <2>3 DEF TypeOK
<1>3. TypeOK'
  BY <1>0, <1>1, <1>2 DEF TypeOK
<1>4. NoStaleEntry' /\ Begun' /\ InsideGeneration' /\ IndexesDistinct'
  BY <1>0, <1>1 DEF NoStaleEntry, Begun, InsideGeneration, IndexesDistinct, Live, Observed
<1>5. Meeting' /\ Holding' /\ Exhaustion'
  BY <1>0, <1>1 DEF Meeting, Holding, Exhaustion, Present, Live, Observed
<1>6. Correlated'
  BY <1>0, <1>1, SameCorrelated
<1>7. Copied'
  <2> SUFFICES ASSUME NEW g \in Https, reported'[g] # None, NEW c \in Calls,
                      owner[c] = g, reported'[g].gens[c].end # -1
               PROVE  pc[c] = "ended" /\ reported'[g].gens[c] = gen[c]
    BY <1>1 DEF Copied
  <2>1. CASE g = h
    <3>1. reported'[g] = r
      BY <1>0, <1>1, <2>1 DEF TypeOK
    <3>2. reported'[g].gens[c] = gen[c]
      BY <2>1, <3>1
    <3> QED
      BY <1>0, <3>2 DEF Begun
  <2>2. CASE g # h
    <3>1. reported'[g] = reported[g]
      BY <1>0, <1>1, <2>2 DEF TypeOK
    <3> QED
      BY <1>0, <3>1 DEF Copied
  <2> QED
    BY <2>1, <2>2
<1> QED
  BY <1>3, <1>4, <1>5, <1>6, <1>7 DEF IInv

LEMMA TickIInv ==
  ASSUME IInv, Tick
  PROVE  IInv'
<1> USE DEF given
<1>0. /\ TypeOK /\ NoStaleEntry /\ Begun /\ InsideGeneration /\ IndexesDistinct
      /\ Meeting /\ Holding /\ Correlated /\ Exhaustion /\ Copied
  BY DEF IInv
<1>1. /\ now < MaxTime /\ now' = now + 1
      /\ UNCHANGED <<id, owner, pc, active, gen, marks, requests, arrived, alone, reported>>
  BY DEF Tick
<1>2. now \in 0..MaxTime /\ now' \in 0..MaxTime /\ 0..now \subseteq 0..now'
  BY <1>0, <1>1 DEF TypeOK
<1>3. TypeOK'
  BY <1>0, <1>1, <1>2 DEF TypeOK
<1>4. NoStaleEntry' /\ IndexesDistinct' /\ Copied'
  BY <1>0, <1>1 DEF NoStaleEntry, IndexesDistinct, Copied, Live, Observed
<1>5. Begun'
  BY <1>0, <1>1, <1>2 DEF Begun, Observed
<1>6. InsideGeneration'
  <2> SUFFICES ASSUME NEW c \in Calls, NEW k \in marks[c]
               PROVE  /\ gen[c].start <= k.from /\ k.from <= k.to
                      /\ k.to <= IF gen[c].end = -1 THEN now + 1 ELSE gen[c].end
    BY <1>1 DEF InsideGeneration
  <2>1. k.to \in Int
    BY <1>0 DEF TypeOK, Marks
  <2>2. /\ gen[c].start <= k.from /\ k.from <= k.to
        /\ k.to <= IF gen[c].end = -1 THEN now ELSE gen[c].end
    BY <1>0 DEF InsideGeneration
  <2> QED
    BY <1>2, <2>1, <2>2
<1>7. Meeting' /\ Holding' /\ Exhaustion'
  BY <1>0, <1>1 DEF Meeting, Holding, Exhaustion, Present, Live, Observed
<1>8. Correlated'
  BY <1>0, <1>1, SameCorrelated
<1> QED
  BY <1>3, <1>4, <1>5, <1>6, <1>7, <1>8 DEF IInv
-----------------------------------------------------------------------------
LEMMA StepIInv == IInv /\ [Next]_vars => IInv'
<1> SUFFICES ASSUME IInv, [Next]_vars PROVE IInv'
  OBVIOUS
<1>1. ASSUME NEW c \in Calls, Enter(c) PROVE IInv'
  BY <1>1, EnterIInv
<1>2. ASSUME NEW c \in Calls, Exhausted(c) \/ Fails(c) \/ Cancelled(c) PROVE IInv'
  BY <1>2, LeavesIInv DEF Exhausted, Fails, Cancelled
<1>3. ASSUME NEW c \in Calls, End(c) PROVE IInv'
  BY <1>3, EndIInv
<1>4. ASSUME NEW c \in Calls, NEW s \in Seqs, Drop(c, s) PROVE IInv'
  BY <1>4, DropIInv
<1>5. ASSUME NEW c \in Calls, NEW s \in Seqs, NEW m \in Messages, Finish(c, s, m)
      PROVE IInv'
  BY <1>5, FinishIInv
<1>6. ASSUME NEW h \in Https, Report(h) PROVE IInv'
  BY <1>6, ReportIInv
<1>7. CASE Tick
  BY <1>7, TickIInv
<1>8. CASE UNCHANGED vars
  <2>1. Correlated'
    BY <1>8, SameCorrelated DEF IInv, vars
  <2>2. (TypeOK /\ NoStaleEntry /\ Begun /\ Exhaustion /\ Copied)'
    BY <1>8 DEF IInv, vars, TypeOK, NoStaleEntry, Begun, Exhaustion, Copied, Present, Live,
       Observed
  <2>3. (InsideGeneration /\ IndexesDistinct /\ Meeting /\ Holding)'
    BY <1>8 DEF IInv, vars, InsideGeneration, IndexesDistinct, Meeting, Holding, Present,
       Live, Observed
  <2> QED
    BY <2>1, <2>2, <2>3 DEF IInv
<1> QED
  BY <1>1, <1>2, <1>3, <1>4, <1>5, <1>6, <1>7, <1>8 DEF Next

LEMMA Inductive == Spec => []IInv
<1>1. Init => IInv
  BY InitIInv
<1>2. IInv /\ [Next]_vars => IInv'
  BY StepIInv
<1> QED
  BY <1>1, <1>2, PTL DEF Spec

(* Whatever the consumers of the generators do, the state has its shape.   *)
THEOREM TypeCorrect == Spec => []TypeOK
<1>1. IInv => TypeOK
  BY DEF IInv
<1> QED
  BY <1>1, Inductive, PTL

(* The table holds only calls that are running, under their own ids: it is *)
(* never larger than the number of running calls.                          *)
THEOREM EntriesAreLive == Spec => []NoStaleEntry
<1>1. IInv => NoStaleEntry
  BY DEF IInv
<1> QED
  BY <1>1, Inductive, PTL

(* However many calls run at once: the statistics of a call whose id meets *)
(* no other reach its generation and no other, and it gets no others.      *)
THEOREM StatisticsFindTheirCall == Spec => []Correlated
<1>1. IInv => Correlated
  BY DEF IInv
<1> QED
  BY <1>1, Inductive, PTL

(* For every calibration and every engine timestamp, what is recorded lies *)
(* inside its generation.                                                  *)
THEOREM IntervalsInside == Spec => []InsideGeneration
<1>1. IInv => InsideGeneration
  BY DEF IInv
<1> QED
  BY <1>1, Inductive, PTL

(* For any number of sequences, each has an index of its own. *)
THEOREM IndexesAreDistinct == Spec => []IndexesDistinct
<1>1. IInv => IndexesDistinct
  BY DEF IInv
<1> QED
  BY <1>1, Inductive, PTL

(* A generation that was exhausted before the report is in it with the     *)
(* statistics of all its sequences: the first half of ReportedInFull.      *)
THEOREM ReportsAreWhole == Spec => []EndedAreWhole
<1>1. IInv => EndedAreWhole
  <2> SUFFICES ASSUME IInv, NEW h \in Https, reported[h] # None, NEW c \in Calls,
                      owner[c] = h, reported[h].gens[c].end # -1
               PROVE  /\ reported[h].gens[c] = gen[c]
                      /\ alone[c] /\ gen[c].status = "ok" => gen[c].taken = {c} \X Seqs
    BY DEF EndedAreWhole
  <2>1. pc[c] = "ended" /\ reported[h].gens[c] = gen[c]
    BY DEF IInv, Copied
  <2>2. ASSUME alone[c], gen[c].status = "ok" PROVE gen[c].taken = {c} \X Seqs
    <3>1. Observed(c)
      BY DEF Observed
    <3>2. \A s \in Seqs : arrived[c][s] = "early"
      BY <2>1, <2>2, <3>1 DEF IInv, Exhaustion
    <3>3. \A s \in Seqs : <<c, s>> \in gen[c].taken
      BY <2>2, <3>1, <3>2 DEF IInv, Correlated
    <3>4. gen[c].taken \subseteq Calls \X Seqs
      BY DEF IInv, TypeOK, Generations, Pairs
    <3>5. \A d \in Calls, s \in Seqs : <<d, s>> \in gen[c].taken => d = c
      BY <2>2 DEF IInv, Correlated
    <3> QED
      BY <3>3, <3>4, <3>5
  <2> QED
    BY <2>1, <2>2
<1> QED
  BY <1>1, Inductive, PTL

(* No message, however late, changes a generation that has ended. *)
THEOREM EndedStays == Spec => EndedIsFrozen
<1>1. IInv /\ [Next]_vars =>
        [\A c \in Calls : pc[c] = "ended" => gen'[c] = gen[c] /\ marks'[c] = marks[c]]_vars
  <2> SUFFICES ASSUME IInv, Next, NEW c \in Calls, pc[c] = "ended"
               PROVE  gen'[c] = gen[c] /\ marks'[c] = marks[c]
    OBVIOUS
  <2>0. /\ gen \in [Calls -> Generations] /\ marks \in [Calls -> SUBSET Marks]
        /\ pc \in [Calls -> {"new", "running", "closing", "ended"}]
        /\ id \in [Calls -> Ids]
    BY DEF IInv, TypeOK
  <2>1. ASSUME NEW d \in Calls,
               Enter(d) \/ Exhausted(d) \/ Fails(d) \/ Cancelled(d) \/ End(d)
        PROVE  gen'[c] = gen[c] /\ marks'[c] = marks[c]
    BY <2>0, <2>1 DEF Enter, Exhausted, Fails, Cancelled, Leaves, End
  <2>2. ASSUME NEW d \in Calls, NEW s \in Seqs, NEW m \in Messages, Finish(d, s, m)
        PROVE  gen'[c] = gen[c] /\ marks'[c] = marks[c]
    <3>1. CASE active[id[d]] = None
      BY <2>2, <3>1 DEF Finish, Entry
    <3>2. CASE active[id[d]] # None
      <4>1. active[id[d]] # c
        BY <2>0, <3>2 DEF IInv, NoStaleEntry, Live
      <4> QED
        BY <2>0, <2>2, <3>2, <4>1 DEF Finish, Entry, Credit
    <3> QED
      BY <3>1, <3>2
  <2>3. ASSUME NEW d \in Calls, NEW s \in Seqs, Drop(d, s)
        PROVE  gen'[c] = gen[c] /\ marks'[c] = marks[c]
    BY <2>3 DEF Drop
  <2>4. CASE Tick \/ \E h \in Https : Report(h)
    BY <2>4 DEF Tick, Report
  <2> QED
    BY <2>1, <2>2, <2>3, <2>4 DEF Next
<1> QED
  BY <1>1, Inductive, PTL DEF Spec, EndedIsFrozen
-----------------------------------------------------------------------------
(* What the counter of each request holds, and what its report held. *)
OfRequest(h) == [c \in Calls |-> IF owner[c] = h THEN gen[c].count ELSE 0]
InReport(h)  == [c \in Calls |-> reported[h].gens[c].count]

CountersAgree == \A h \in Https : requests[h] = Total(OfRequest(h))
ReportsAgree  == \A h \in Https : reported[h] # None =>
                   reported[h].requests = Total(InReport(h))

LEMMA InitAgree ==
  ASSUME IsFiniteSet(Calls), Init
  PROVE  CountersAgree /\ ReportsAgree
<1>1. ASSUME NEW h \in Https PROVE OfRequest(h) = [c \in Calls |-> 0]
  BY DEF OfRequest, Init, NotBegun
<1> QED
  BY <1>1, TotalOfNothing DEF Init, CountersAgree, ReportsAgree

(* The sums stay where the counts, the owners and the reports do. *)
LEMMA SameAgree ==
  ASSUME CountersAgree, ReportsAgree, owner' = owner, requests' = requests,
         \A c \in Calls : gen'[c].count = gen[c].count, reported' = reported
  PROVE  CountersAgree' /\ ReportsAgree'
<1>1. \A h \in Https : OfRequest(h)' = OfRequest(h)
  BY DEF OfRequest
<1>2. \A h \in Https : InReport(h)' = InReport(h)
  BY DEF InReport
<1>3. CountersAgree'
  <2> SUFFICES ASSUME NEW h \in Https PROVE requests'[h] = Total(OfRequest(h)')
    BY DEF CountersAgree, Total, Sums, Adding
  <2> QED
    BY <1>1 DEF CountersAgree
<1>4. ReportsAgree'
  <2> SUFFICES ASSUME NEW h \in Https, reported'[h] # None
               PROVE  reported'[h].requests = Total(InReport(h)')
    BY DEF ReportsAgree, Total, Sums, Adding
  <2> QED
    BY <1>2 DEF ReportsAgree
<1> QED
  BY <1>3, <1>4

(* The statistics of a sequence count at one call and at its request. *)
LEMMA FinishAgree ==
  ASSUME IsFiniteSet(Calls), IInv, CountersAgree, ReportsAgree, NEW c \in Calls,
         NEW s \in Seqs, NEW m \in Messages, Finish(c, s, m)
  PROVE  CountersAgree' /\ ReportsAgree'
<1> DEFINE e == active[id[c]]
<1>1. /\ owner' = owner /\ reported' = reported
      /\ e # None => Credit(e, c, s, m)
      /\ e = None => gen' = gen /\ requests' = requests
  BY DEF Finish, Entry, given
<1>2. /\ gen \in [Calls -> Generations] /\ id \in [Calls -> Ids]
      /\ active \in [Ids -> Calls \cup {None}]
      /\ owner \in [Calls -> Https \cup {None}] /\ requests \in [Https -> Nat]
  BY DEF IInv, TypeOK
<1>3. e # None => e \in Calls /\ owner[e] \in Https
  BY <1>2 DEF IInv, NoStaleEntry, Observed
<1> HIDE DEF e
<1>4. CASE e = None
  BY <1>1, <1>4, SameAgree
<1>5. CASE e # None
  <2>1. /\ gen' = [gen EXCEPT ![e] = [gen[e] EXCEPT !.count = gen[e].count + 1,
                               !.taken = gen[e].taken \cup {<<c, s>>}]]
        /\ requests' = [requests EXCEPT ![owner[e]] = requests[owner[e]] + 1]
    BY <1>1, <1>2, <1>3, <1>5 DEF Credit, Counted
  <2>2. \A d \in Calls :
          gen'[d].count = IF d = e THEN gen[d].count + 1 ELSE gen[d].count
    <3>1. gen[e] \in Generations
      BY <1>2, <1>3, <1>5
    <3>2. gen'[e].count = gen[e].count + 1
      BY <1>2, <1>3, <1>5, <2>1, <3>1 DEF Generations
    <3> QED
      BY <1>2, <2>1, <3>2
  <2>3. CountersAgree'
    <3> SUFFICES ASSUME NEW h \in Https
                 PROVE  requests'[h] = Total(OfRequest(h)')
      BY DEF CountersAgree, Total, Sums, Adding
    <3>1. requests[h] = Total(OfRequest(h))
      BY DEF CountersAgree
    <3>2. CASE h = owner[e]
      <4>1. OfRequest(h) \in [Calls -> Nat]
        BY <1>2 DEF OfRequest, Generations
      <4>2. OfRequest(h)[e] = gen[e].count
        BY <1>3, <1>5, <3>2 DEF OfRequest
      <4>3. OfRequest(h)' = [OfRequest(h) EXCEPT ![e] = OfRequest(h)[e] + 1]
        BY <1>1, <1>3, <1>5, <2>2, <3>2, <4>2 DEF OfRequest
      <4>4. Total(OfRequest(h)') = Total(OfRequest(h)) + 1
        BY <1>3, <1>5, <4>1, <4>3, TotalBumped
      <4> QED
        BY <1>2, <1>3, <1>5, <2>1, <3>1, <3>2, <4>4
    <3>3. CASE h # owner[e]
      <4>1. OfRequest(h)' = OfRequest(h)
        BY <1>1, <2>2, <3>3 DEF OfRequest
      <4> QED
        BY <1>2, <2>1, <3>1, <3>3, <4>1
    <3> QED
      BY <3>2, <3>3
  <2>4. ReportsAgree'
    <3> SUFFICES ASSUME NEW h \in Https, reported'[h] # None
                 PROVE  reported'[h].requests = Total(InReport(h)')
      BY DEF ReportsAgree, Total, Sums, Adding
    <3>1. InReport(h)' = InReport(h)
      BY <1>1 DEF InReport
    <3> QED
      BY <1>1, <3>1 DEF ReportsAgree
  <2> QED
    BY <2>3, <2>4
<1> QED
  BY <1>4, <1>5

(* A report copies the counter and the counts at one moment. *)
LEMMA ReportAgree ==
  ASSUME IInv, CountersAgree, ReportsAgree, NEW g \in Https, Report(g)
  PROVE  CountersAgree' /\ ReportsAgree'
<1>1. /\ owner' = owner /\ gen' = gen /\ requests' = requests
      /\ reported' = [reported EXCEPT ![g] =
           [requests |-> requests[g],
            gens |-> [c \in Calls |-> IF owner[c] = g THEN gen[c] ELSE NotBegun]]]
  BY DEF Report, given
<1>2. reported \in [Https -> Reports \cup {None}]
  BY DEF IInv, TypeOK
<1>3. CountersAgree'
  <2> SUFFICES ASSUME NEW h \in Https PROVE requests'[h] = Total(OfRequest(h)')
    BY DEF CountersAgree, Total, Sums, Adding
  <2>1. OfRequest(h)' = OfRequest(h)
    BY <1>1 DEF OfRequest
  <2> QED
    BY <1>1, <2>1 DEF CountersAgree
<1>4. ReportsAgree'
  <2> SUFFICES ASSUME NEW h \in Https, reported'[h] # None
               PROVE  reported'[h].requests = Total(InReport(h)')
    BY DEF ReportsAgree, Total, Sums, Adding
  <2>1. CASE h = g
    <3>1. /\ reported'[h].requests = requests[h]
          /\ \A c \in Calls : reported'[h].gens[c].count =
                                IF owner[c] = h THEN gen[c].count ELSE 0
      BY <1>1, <1>2, <2>1 DEF NotBegun
    <3>2. InReport(h)' = OfRequest(h)
      BY <3>1 DEF InReport, OfRequest
    <3> QED
      BY <3>1, <3>2 DEF CountersAgree
  <2>2. CASE h # g
    <3>1. reported'[h] = reported[h]
      BY <1>1, <1>2, <2>2
    <3>2. InReport(h)' = InReport(h)
      BY <3>1 DEF InReport
    <3> QED
      BY <3>1, <3>2 DEF ReportsAgree
  <2> QED
    BY <2>1, <2>2
<1> QED
  BY <1>3, <1>4

LEMMA StepAgree ==
  ASSUME IsFiniteSet(Calls), IInv, CountersAgree, ReportsAgree, [Next]_vars
  PROVE  CountersAgree' /\ ReportsAgree'
<1>0. gen \in [Calls -> Generations]
  BY DEF IInv, TypeOK
<1>1. ASSUME NEW c \in Calls,
             Enter(c) \/ Exhausted(c) \/ Fails(c) \/ Cancelled(c) \/ End(c)
      PROVE  CountersAgree' /\ ReportsAgree'
  <2>1. owner' = owner /\ requests' = requests /\ reported' = reported
    BY <1>1 DEF Enter, Exhausted, Fails, Cancelled, Leaves, End, given
  <2>2. \A d \in Calls : gen'[d].count = gen[d].count
    <3>1. gen[c] \in Generations
      BY <1>0
    <3> QED
      BY <1>0, <1>1, <3>1
      DEF Enter, Exhausted, Fails, Cancelled, Leaves, End, Generations
  <2> QED
    BY <2>1, <2>2, SameAgree
<1>2. ASSUME NEW c \in Calls, NEW s \in Seqs, Drop(c, s)
      PROVE  CountersAgree' /\ ReportsAgree'
  BY <1>2, SameAgree DEF Drop, given
<1>3. ASSUME NEW c \in Calls, NEW s \in Seqs, NEW m \in Messages, Finish(c, s, m)
      PROVE  CountersAgree' /\ ReportsAgree'
  BY <1>3, FinishAgree
<1>4. ASSUME NEW h \in Https, Report(h) PROVE CountersAgree' /\ ReportsAgree'
  BY <1>4, ReportAgree
<1>5. CASE Tick \/ UNCHANGED vars
  BY <1>5, SameAgree DEF Tick, vars, given
<1> QED
  BY <1>1, <1>2, <1>3, <1>4, <1>5 DEF Next

(* For any finite number of calls, requests and sequences: a report counts *)
(* exactly the statistics its generations were given, and an exhausted     *)
(* generation is in it with the statistics of all its sequences.           *)
THEOREM ReportsAreFull ==
  ASSUME IsFiniteSet(Calls)
  PROVE  Spec => []ReportedInFull
<1>1. Init => CountersAgree /\ ReportsAgree
  BY InitAgree
<1>2. IInv /\ CountersAgree /\ ReportsAgree /\ [Next]_vars =>
        CountersAgree' /\ ReportsAgree'
  BY StepAgree
<1>3. EndedAreWhole /\ ReportsAgree => ReportedInFull
  <2> SUFFICES ASSUME NEW h \in Https
               PROVE  Total(InReport(h)) =
                        MapThenSumSet(LAMBDA c : reported[h].gens[c].count, Calls)
    BY DEF ReportedInFull, ReportsAgree
  <2> DEFINE R(G) == [S \in SUBSET Calls |-> IF S = {} THEN 0
                       ELSE reported[h].gens[Pick(S)].count + G[S \ {Pick(S)}]]
  <2>1. MapThenSumSet(LAMBDA c : reported[h].gens[c].count, Calls)
          = (CHOOSE G : G = R(G))[Calls]
    BY DEF MapThenSumSet, MapThenFoldSet, Pick
  <2>2. \A G : R(G) = Adding(InReport(h), G)
    <3> SUFFICES ASSUME NEW G, NEW S \in SUBSET Calls, S # {}
                 PROVE  reported[h].gens[Pick(S)].count = InReport(h)[Pick(S)]
      BY DEF Adding
    <3>1. Pick(S) \in Calls
      BY PickFacts
    <3> QED
      BY <3>1 DEF InReport
  <2>3. (CHOOSE G : G = R(G)) = Sums(InReport(h))
    BY <2>2 DEF Sums
  <2> QED
    BY <2>1, <2>3 DEF Total
<1> QED
  BY <1>1, <1>2, <1>3, Inductive, ReportsAreWhole, PTL DEF Spec
=============================================================================
