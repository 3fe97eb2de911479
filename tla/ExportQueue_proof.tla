------------------------- MODULE ExportQueue_proof -------------------------
(***************************************************************************)
(* Proofs about ExportQueue, for every capacity and every number of        *)
(* events: the safety properties its runs check on a small instance.       *)
(***************************************************************************)
EXTENDS ExportQueue, TLAPS

USE CapacityAssumption, MaxEventsAssumption

(* No event beyond this number has been put into the queue yet. *)
LastPut == IF ppc = "put" THEN offered - 1 ELSE offered

(* Where the numbers of the events lie. *)
Numbers ==
  /\ ppc = "put" => offered >= 1
  /\ wpc = "sink" => working \in 1..LastPut
  /\ \A i \in 1..Len(queue) : queue[i] <= LastPut
  /\ \A i \in 1..Len(handled) : handled[i] <= LastPut
  /\ failed <= Len(handled)

(* How the worker's and the closer's places in the code relate to stopping. *)
Stopping ==
  /\ wpc \in {"empty?", "exited"} => stopping
  /\ (cpc = "open") <=> ~stopping
  /\ cpc = "ended" => wpc = "exited"
  /\ stopping /\ ppc = "put" => racing = offered
  /\ ~stopping => racing = 0

(* What a worker that has ended can have left in the queue. *)
Leftover ==
  wpc = "exited" =>
    /\ Len(queue) <= 1
    /\ Len(queue) = 1 => queue[1] = racing
    /\ ppc = "put" => Len(queue) = 0

IInv == TypeOK /\ Numbers /\ Conservation /\ InOrder /\ Stopping /\ Leftover

-----------------------------------------------------------------------------
(* Facts about the two queue operations. *)
LEMMA AppendFacts ==
  ASSUME NEW S, NEW q \in Seq(S), NEW e \in S
  PROVE  /\ Append(q, e) \in Seq(S)
         /\ Len(Append(q, e)) = Len(q) + 1
         /\ \A i \in 1..Len(q) : Append(q, e)[i] = q[i]
         /\ Append(q, e)[Len(q) + 1] = e
  OBVIOUS

LEMMA HeadTailFacts ==
  ASSUME NEW S, NEW q \in Seq(S), q # <<>>
  PROVE  /\ Len(q) \in Nat \ {0}
         /\ Head(q) = q[1]
         /\ Head(q) \in S
         /\ Tail(q) \in Seq(S)
         /\ Len(Tail(q)) = Len(q) - 1
         /\ \A i \in 1..Len(Tail(q)) : Tail(q)[i] = q[i + 1]
  OBVIOUS

LEMMA SeqFacts ==
  ASSUME NEW S, NEW q \in Seq(S)
  PROVE  /\ Len(q) \in Nat
         /\ \A i \in 1..Len(q) : q[i] \in S
  OBVIOUS

(* The numbers in the queue and among the handled events are numbers. *)
LEMMA Typed ==
  ASSUME TypeOK
  PROVE  /\ Len(queue) \in Nat
         /\ \A i \in 1..Len(queue) : queue[i] \in Nat
         /\ Len(handled) \in Nat
         /\ \A i \in 1..Len(handled) : handled[i] \in Nat
  BY SeqFacts DEF TypeOK

LEMMA EmptyFacts ==
  ASSUME NEW S
  PROVE  <<>> \in Seq(S) /\ Len(<<>>) = 0
  OBVIOUS

LEMMA InitIInv == Init => IInv
<1> SUFFICES ASSUME Init PROVE IInv
  OBVIOUS
<1>1. /\ queue = <<>> /\ handled = <<>> /\ Len(queue) = 0 /\ Len(handled) = 0
      /\ queue \in Seq(1..MaxEvents) /\ handled \in Seq(1..MaxEvents)
  BY EmptyFacts DEF Init
<1>2. TypeOK
  <2>1. 0 \in 0..MaxEvents /\ Len(queue) <= Capacity
    BY <1>1
  <2> QED
    BY <1>1, <2>1 DEF Init, TypeOK
<1>3. Numbers /\ InOrder
  <2>1. 1..Len(queue) = {} /\ 1..Len(handled) = {}
    BY <1>1
  <2> QED
    BY <1>1, <2>1 DEF Init, Numbers, LastPut, InOrder, Increasing
<1>4. Conservation /\ Stopping /\ Leftover
  BY <1>1 DEF Init, Conservation, One, Stopping, Leftover
<1> QED
  BY <1>2, <1>3, <1>4 DEF IInv

LEMMA StepIInv == IInv /\ [Next]_vars => IInv'
<1> SUFFICES ASSUME IInv, [Next]_vars PROVE IInv'
  OBVIOUS
<1>0. /\ Len(queue) \in Nat /\ \A i \in 1..Len(queue) : queue[i] \in Nat
      /\ Len(handled) \in Nat /\ \A i \in 1..Len(handled) : handled[i] \in Nat
  BY Typed DEF IInv
<1>a. /\ dropped \in 0..MaxEvents
      /\ offered \in 0..MaxEvents /\ working \in 0..MaxEvents
      /\ failed \in 0..MaxEvents
  BY DEF IInv, TypeOK
<1>b. Numbers /\ InOrder
  BY DEF IInv
<1>c. Conservation
  BY DEF IInv
<1> USE DEF loopVars, workerVars, closeVars
<1>1. CASE Reject
  <2>1. TypeOK'
    BY <1>1 DEF IInv, TypeOK, Conservation, One, Reject, Counted
  <2>2. Numbers' /\ InOrder'
    BY <1>0, <1>a, <1>b, <1>1 DEF Numbers, LastPut, InOrder, Increasing, Reject
  <2>3. Conservation'
    BY <1>1 DEF IInv, TypeOK, Conservation, One, Reject, Counted
  <2>4. Stopping' /\ Leftover'
    BY <1>1 DEF IInv, TypeOK, Stopping, Leftover, Reject, Counted
  <2> QED
    BY <2>1, <2>2, <2>3, <2>4 DEF IInv
<1>2. CASE Check
  BY <1>2 DEF IInv, TypeOK, Conservation, One, Check, Numbers, LastPut, InOrder, Increasing, Stopping, Leftover
<1>3. CASE Put
  <2>1. offered \in 1..MaxEvents
    BY <1>3 DEF IInv, TypeOK, Conservation, One, Put, Numbers
  <2>2. /\ queue' \in Seq(1..MaxEvents)
        /\ Len(queue') = Len(queue) + 1
        /\ \A i \in 1..Len(queue) : queue'[i] = queue[i]
        /\ queue'[Len(queue) + 1] = offered
    BY <1>3, <2>1, AppendFacts DEF IInv, TypeOK, Conservation, One, Put, Enqueue
  <2>a. Len(queue') = Len(queue) + 1 /\ Len(queue) \in Nat
    BY <1>0, <2>2
  <2>3. TypeOK' /\ Conservation'
    BY <1>3, <2>2 DEF IInv, TypeOK, Conservation, One, Put, Full
  <2>4. Numbers'
    <3>1. \A i \in 1..Len(queue') : queue'[i] <= LastPut'
      <4> TAKE i \in 1..Len(queue')
      <4>1. CASE i \in 1..Len(queue)
        BY <1>0, <1>a, <1>b, <1>3, <2>1, <2>2, <4>1 DEF Put, Numbers, LastPut
      <4>2. CASE i = Len(queue) + 1
        BY <1>3, <2>1, <2>2, <4>2 DEF Put, LastPut
      <4> QED
        BY <2>a, <4>1, <4>2
    <3>2. \A i \in 1..Len(handled) : handled[i] <= LastPut'
      BY <1>0, <1>a, <1>b, <1>3 DEF Put, Numbers, LastPut
    <3> QED
      BY <1>a, <1>b, <1>3, <3>1, <3>2 DEF Put, Numbers, LastPut
  <2>5. InOrder'
    <3>1. \A j \in 1..Len(queue) : queue[j] < offered
      BY <1>b, <1>3 DEF Put, InOrder
    <3>2. \A i \in 1..Len(handled) : handled[i] < offered
      BY <1>0, <1>a, <1>b, <1>3 DEF Put, Numbers, LastPut
    <3>3. wpc = "sink" => working < offered
      BY <1>a, <1>b, <1>3, <2>1 DEF Put, Numbers, LastPut
    <3>4. Increasing(queue')
      <4> SUFFICES ASSUME NEW i \in 1..Len(queue'), NEW j \in 1..Len(queue'),
                          i < j
                   PROVE  queue'[i] < queue'[j]
        BY DEF Increasing
      <4>1. i \in 1..Len(queue)
        BY <2>a
      <4>2. CASE j = Len(queue) + 1
        BY <2>2, <3>1, <4>1, <4>2
      <4>3. CASE j \in 1..Len(queue)
        BY <1>b, <2>2, <4>1, <4>3 DEF InOrder, Increasing
      <4> QED
        BY <2>a, <4>2, <4>3
    <3>5. ASSUME NEW j \in 1..Len(queue')
          PROVE  /\ \A i \in 1..Len(handled) : handled[i] < queue'[j]
                 /\ wpc = "sink" => working < queue'[j]
      <4>1. CASE j = Len(queue) + 1
        BY <2>2, <3>2, <3>3, <4>1
      <4>2. CASE j \in 1..Len(queue)
        BY <1>b, <2>2, <4>2 DEF InOrder
      <4> QED
        BY <2>a, <4>1, <4>2
    <3>6. /\ handled' = handled /\ wpc' = wpc /\ working' = working
          /\ ppc' # "put"
      BY <1>3 DEF Put
    <3>7. /\ Increasing(handled)
          /\ \A i \in 1..Len(handled) : wpc = "sink" => handled[i] < working
      BY <1>b DEF InOrder
    <3> QED
      BY <3>4, <3>5, <3>6, <3>7 DEF InOrder
  <2>6. Stopping' /\ Leftover'
    BY <1>3, <2>1, <2>2 DEF IInv, TypeOK, Conservation, One, Put, Stopping, Leftover
  <2> QED
    BY <2>3, <2>4, <2>5, <2>6 DEF IInv
<1>4. CASE PutFull
  <2>1. TypeOK'
    BY <1>4 DEF IInv, TypeOK, Conservation, One, PutFull, Counted
  <2>2. Numbers' /\ InOrder'
    BY <1>0, <1>a, <1>b, <1>4 DEF Numbers, LastPut, InOrder, Increasing, PutFull
  <2>3. Conservation'
    BY <1>4 DEF IInv, TypeOK, Conservation, One, PutFull, Counted
  <2>4. Stopping' /\ Leftover'
    BY <1>4 DEF IInv, TypeOK, Stopping, Leftover, PutFull, Counted
  <2> QED
    BY <2>1, <2>2, <2>3, <2>4 DEF IInv
<1>5. CASE ReadStopping
  BY <1>5 DEF IInv, TypeOK, Conservation, One, ReadStopping, Numbers, LastPut, InOrder, Increasing, Stopping,
              Leftover
<1>6. CASE ReadEmpty
  BY <1>6 DEF IInv, TypeOK, Conservation, One, ReadEmpty, Drained, Numbers, LastPut, InOrder, Increasing,
              Stopping, Leftover
<1>7. CASE Get
  <2>1. /\ Len(queue) \in Nat \ {0}
        /\ working' = queue[1] /\ working' \in 1..MaxEvents
        /\ queue' \in Seq(1..MaxEvents)
        /\ Len(queue') = Len(queue) - 1
        /\ \A i \in 1..Len(queue') : queue'[i] = queue[i + 1]
    BY <1>7, HeadTailFacts DEF IInv, TypeOK, Conservation, One, Get
  <2>2. TypeOK' /\ Conservation'
    BY <1>7, <2>1 DEF IInv, TypeOK, Conservation, One, Get
  <2>3. Numbers'
    BY <1>0, <1>a, <1>b, <1>7, <2>1 DEF Get, Numbers, LastPut
  <2>4. InOrder'
    BY <1>0, <1>a, <1>b, <1>7, <2>1 DEF Get, InOrder, Increasing
  <2>5. Stopping' /\ Leftover'
    BY <1>7 DEF IInv, TypeOK, Conservation, One, Get, Stopping, Leftover
  <2> QED
    BY <2>2, <2>3, <2>4, <2>5 DEF IInv
<1>8. CASE GetEmpty
  BY <1>8 DEF IInv, TypeOK, Conservation, One, GetEmpty, Numbers, LastPut, InOrder, Increasing, Stopping,
              Leftover
<1>9. ASSUME NEW raised \in {0, 1}, Sink(raised) PROVE IInv'
  <2>1. working \in 1..MaxEvents
    BY <1>9 DEF IInv, TypeOK, Conservation, One, Sink, Numbers, LastPut
  <2>2. /\ handled' \in Seq(1..MaxEvents)
        /\ Len(handled') = Len(handled) + 1
        /\ \A i \in 1..Len(handled) : handled'[i] = handled[i]
        /\ handled'[Len(handled) + 1] = working
    BY <1>9, <2>1, AppendFacts DEF IInv, TypeOK, Conservation, One, Sink
  <2>a. Len(handled') = Len(handled) + 1 /\ Len(handled) \in Nat
    BY <1>0, <2>2
  <2>3. failed' \in Nat /\ failed' <= Len(handled')
    BY <1>9, <2>2 DEF IInv, TypeOK, Conservation, One, Sink, Numbers
  <2>4. Conservation'
    <3>1. /\ offered' = offered /\ dropped' = dropped /\ ppc' = ppc
          /\ queue' = queue /\ wpc = "sink" /\ wpc' = "stop?"
      BY <1>9 DEF Sink
    <3>2. dropped \in Nat /\ offered \in Nat
      BY <1>a
    <3>3. CASE ppc = "put"
      <4>1. offered = dropped + 1 + Len(queue) + 1 + Len(handled)
        BY <1>c, <3>1, <3>3 DEF Conservation, One
      <4> QED
        BY <1>0, <2>a, <3>1, <3>2, <3>3, <4>1 DEF Conservation, One
    <3>4. CASE ppc # "put"
      <4>1. offered = dropped + 0 + Len(queue) + 1 + Len(handled)
        BY <1>c, <3>1, <3>4 DEF Conservation, One
      <4> QED
        BY <1>0, <2>a, <3>1, <3>2, <3>4, <4>1 DEF Conservation, One
    <3> QED
      BY <3>3, <3>4
  <2>5. TypeOK'
    BY <1>9, <2>2, <2>3, <2>4 DEF IInv, TypeOK, Conservation, One, Sink
  <2>6. Numbers'
    BY <1>0, <1>a, <1>b, <1>9, <2>1, <2>2, <2>3 DEF Sink, Numbers, LastPut
  <2>7. InOrder'
    <3>1. /\ \A i \in 1..Len(handled) : handled[i] < working
          /\ \A j \in 1..Len(queue) : working < queue[j]
      BY <1>b, <1>9 DEF Sink, InOrder
    <3>2. Increasing(handled')
      <4> SUFFICES ASSUME NEW i \in 1..Len(handled'),
                          NEW j \in 1..Len(handled'), i < j
                   PROVE  handled'[i] < handled'[j]
        BY DEF Increasing
      <4>1. i \in 1..Len(handled)
        BY <2>a
      <4>2. CASE j = Len(handled) + 1
        BY <2>2, <3>1, <4>1, <4>2
      <4>3. CASE j \in 1..Len(handled)
        BY <1>b, <2>2, <4>1, <4>3 DEF InOrder, Increasing
      <4> QED
        BY <2>a, <4>2, <4>3
    <3>3. ASSUME NEW i \in 1..Len(handled'), NEW j \in 1..Len(queue)
          PROVE  handled'[i] < queue[j]
      <4>1. CASE i = Len(handled) + 1
        BY <2>2, <3>1, <4>1
      <4>2. CASE i \in 1..Len(handled)
        BY <1>b, <2>2, <4>2 DEF InOrder
      <4> QED
        BY <2>a, <4>1, <4>2
    <3>4. Increasing(queue)
      BY <1>b DEF InOrder
    <3>5. queue' = queue /\ wpc' # "sink"
      BY <1>9 DEF Sink
    <3>6. ppc' = "put" => \A j \in 1..Len(queue) : queue[j] < offered'
      BY <1>b, <1>9 DEF Sink, InOrder
    <3> HIDE DEF Increasing
    <3> QED
      BY <3>2, <3>3, <3>4, <3>5, <3>6 DEF InOrder
  <2>8. Stopping' /\ Leftover'
    BY <1>9 DEF IInv, TypeOK, Conservation, One, Sink, Stopping, Leftover
  <2> QED
    BY <2>4, <2>5, <2>6, <2>7, <2>8 DEF IInv
<1>10. CASE BeginClose
  <2>1. TypeOK'
    BY <1>10 DEF IInv, TypeOK, BeginClose
  <2>2. Numbers' /\ InOrder'
    BY <1>10 DEF IInv, Numbers, LastPut, InOrder, Increasing, BeginClose
  <2>3. Conservation'
    BY <1>10 DEF IInv, TypeOK, Conservation, One, BeginClose
  <2>4. Stopping' /\ Leftover'
    BY <1>10 DEF IInv, TypeOK, Stopping, Leftover, BeginClose
  <2> QED
    BY <2>1, <2>2, <2>3, <2>4 DEF IInv
<1>11. CASE EndClose
  <2>1. TypeOK'
    BY <1>11 DEF IInv, TypeOK, EndClose, WorkerEnded
  <2>2. Numbers' /\ InOrder'
    BY <1>11 DEF IInv, Numbers, LastPut, InOrder, Increasing, EndClose, WorkerEnded
  <2>3. Conservation'
    BY <1>11 DEF IInv, TypeOK, Conservation, One, EndClose, WorkerEnded
  <2>4. Stopping' /\ Leftover'
    BY <1>11 DEF IInv, TypeOK, Stopping, Leftover, EndClose, WorkerEnded
  <2> QED
    BY <2>1, <2>2, <2>3, <2>4 DEF IInv
<1>12. CASE Exit
  <2>1. TypeOK'
    BY <1>12 DEF IInv, TypeOK, Exit
  <2>2. Numbers' /\ InOrder'
    BY <1>12 DEF IInv, Numbers, LastPut, InOrder, Increasing, Exit
  <2>3. Conservation'
    BY <1>12 DEF IInv, TypeOK, Conservation, One, Exit
  <2>4. Stopping' /\ Leftover'
    BY <1>12 DEF IInv, TypeOK, Stopping, Leftover, Exit
  <2> QED
    BY <2>1, <2>2, <2>3, <2>4 DEF IInv
<1>13. CASE UNCHANGED vars
  <2>1. TypeOK'
    BY <1>13 DEF IInv, TypeOK, Conservation, One, vars
  <2>2. Numbers' /\ InOrder'
    BY <1>13 DEF IInv, Numbers, LastPut, InOrder, Increasing, vars
  <2>3. Conservation'
    BY <1>13 DEF IInv, TypeOK, Conservation, One, vars
  <2>4. Stopping' /\ Leftover'
    BY <1>13 DEF IInv, TypeOK, Stopping, Leftover, vars
  <2> QED
    BY <2>1, <2>2, <2>3, <2>4 DEF IInv
<1> QED
  BY <1>1, <1>2, <1>3, <1>4, <1>5, <1>6, <1>7, <1>8, <1>9, <1>10, <1>11,
     <1>12, <1>13 DEF Next, EventLoop, Worker, Closer

LEMMA Inductive == Spec => []IInv
  BY InitIInv, StepIInv, PTL DEF Spec
-----------------------------------------------------------------------------
(* The variables keep their types; in particular the queue never holds    *)
(* more than Capacity events.                                              *)
THEOREM TypeCorrect == Spec => []TypeOK
<1>1. IInv => TypeOK
  BY DEF IInv
<1> QED
  BY Inductive, <1>1, PTL

(* Every call of process() is accounted for. *)
THEOREM Accounted == Spec => []Conservation
<1>1. IInv => Conservation
  BY DEF IInv
<1> QED
  BY Inductive, <1>1, PTL

(* The sink sees events in order and none twice. *)
THEOREM Ordered == Spec => []InOrder
<1>1. IInv => InOrder
  BY DEF IInv
<1> QED
  BY Inductive, <1>1, PTL

(* Only the event that raced close() can stay behind in the queue. *)
THEOREM AtMostOneStranded == Spec => []StrandedOnlyRacing
<1>1. IInv => StrandedOnlyRacing
  <2> SUFFICES ASSUME IInv PROVE StrandedOnlyRacing
    OBVIOUS
  <2>1. TypeOK
    BY DEF IInv
  <2>2. Leftover
    BY DEF IInv
  <2>3. Len(queue) \in Nat
    BY <2>1, Typed
  <2> QED
    <3> SUFFICES ASSUME wpc = "exited", NEW i \in 1..Len(queue)
                 PROVE  i = 1 /\ queue[i] = racing
      BY DEF StrandedOnlyRacing
    <3>1. Len(queue) <= 1 /\ (Len(queue) = 1 => queue[1] = racing)
      BY <2>2 DEF Leftover
    <3>2. i = 1 /\ Len(queue) = 1
      BY <2>3, <3>1
    <3> QED
      BY <3>1, <3>2
<1> QED
  BY Inductive, <1>1, PTL

(* A close() that returns True has lost no event but the one that raced it. *)
THEOREM CloseDrains == Spec => []ClosedMeansDrained
<1>1. IInv => ClosedMeansDrained
  <2> SUFFICES ASSUME IInv, cpc = "ended"
               PROVE  \/ offered = dropped + Len(handled)
                      \/ racing # 0 /\ offered = dropped + Len(handled) + 1
    BY DEF ClosedMeansDrained
  <2>1. TypeOK /\ wpc = "exited"
    BY DEF IInv, Stopping
  <2>2. /\ Len(queue) \in Nat /\ Len(handled) \in Nat /\ dropped \in Nat
        /\ offered \in Nat
    BY <2>1, Typed DEF TypeOK
  <2>3. Len(queue) <= 1 /\ (ppc = "put" => Len(queue) = 0)
    BY <2>1 DEF IInv, Leftover
  <2>4. offered = dropped + One(ppc = "put") + Len(queue) + Len(handled)
    BY <2>1, <2>2 DEF IInv, Conservation, One
  <2>5. Len(queue) = 1 => racing # 0
    <3> SUFFICES ASSUME Len(queue) = 1 PROVE racing # 0
      OBVIOUS
    <3>0. queue \in Seq(1..MaxEvents)
      BY <2>1 DEF TypeOK
    <3>a. 1 \in 1..Len(queue)
      OBVIOUS
    <3>1. queue[1] \in 1..MaxEvents
      BY <3>0, <3>a, SeqFacts
    <3> QED
      BY <2>1, <3>1 DEF IInv, Leftover
  <2>6. ppc = "put" => racing # 0
    BY <2>1 DEF IInv, Stopping, Numbers
  <2>7. CASE ppc = "put"
    BY <2>2, <2>3, <2>4, <2>6, <2>7 DEF One
  <2>8. CASE ppc # "put"
    <3>1. offered = dropped + Len(queue) + Len(handled)
      BY <2>2, <2>4, <2>8 DEF One
    <3>2. Len(queue) = 0 \/ Len(queue) = 1
      BY <2>2, <2>3
    <3>3. CASE Len(queue) = 0
      BY <2>2, <3>1, <3>3
    <3>4. CASE Len(queue) = 1
      BY <2>2, <2>5, <3>1, <3>4
    <3> QED
      BY <3>2, <3>3, <3>4
  <2> QED
    BY <2>7, <2>8
<1> QED
  BY Inductive, <1>1, PTL
-----------------------------------------------------------------------------
(* Facts about sequences that the refinement mapping needs. *)
LEMMA HandFacts ==
  ASSUME NEW S, NEW q \in Seq(S), NEW e \in S, NEW x \in S
  PROVE  /\ <<e>> \o q # <<>>
         /\ Head(<<e>> \o q) = e
         /\ Tail(<<e>> \o q) = q
         /\ Len(<<e>> \o q) = Len(q) + 1
         /\ Append(<<e>> \o q, x) = <<e>> \o Append(q, x)
<1>1. <<e>> \o q # <<>>
  OBVIOUS
<1>2. Head(<<e>> \o q) = e
  OBVIOUS
<1>3. Tail(<<e>> \o q) = q
  OBVIOUS
<1>4. Len(<<e>> \o q) = Len(q) + 1
  OBVIOUS
<1>5. Append(<<e>> \o q, x) = <<e>> \o Append(q, x)
  OBVIOUS
<1> QED
  BY <1>1, <1>2, <1>3, <1>4, <1>5

LEMMA EmptyHand ==
  ASSUME NEW S, NEW q \in Seq(S)
  PROVE  <<>> \o q = q
  OBVIOUS

LEMMA HeadTail ==
  ASSUME NEW S, NEW q \in Seq(S), q # <<>>
  PROVE  <<Head(q)>> \o Tail(q) = q
  OBVIOUS

(* What the mapping makes of a state, by the worker's place. *)
LEMMA PendingIs ==
  ASSUME IInv
  PROVE  /\ wpc = "sink" => Pending = <<working>> \o queue
         /\ wpc \in {"stop?", "empty?", "get"} => Pending = queue
         /\ wpc = "exited" => Pending = <<>>
<1>1. queue \in Seq(1..MaxEvents)
  BY DEF IInv, TypeOK
<1>2. <<>> \o queue = queue
  BY <1>1, EmptyHand
<1> QED
  BY <1>2 DEF Pending, Hand

LEMMA InitRefines == Init => Promise!Init
<1> SUFFICES ASSUME Init PROVE Promise!Init
  OBVIOUS
<1>1. <<>> \o <<>> = <<>>
  BY EmptyFacts, EmptyHand
<1> QED
  BY <1>1 DEF Init, Promise!Init, Decided, Pending, Hand, Silent, Grace, One

LEMMA StepRefines == IInv /\ IInv' /\ [Next]_vars => [Promise!Next]_Promise!vars
<1> SUFFICES ASSUME IInv, IInv', [Next]_vars
             PROVE  [Promise!Next]_Promise!vars
  OBVIOUS
<1>t. /\ offered \in Nat /\ dropped \in Nat /\ offered <= MaxEvents
      /\ queue \in Seq(1..MaxEvents) /\ Len(queue) \in Nat
      /\ handled \in Seq(1..MaxEvents)
      /\ stopping \in BOOLEAN /\ up \in BOOLEAN
      /\ ppc \in {"idle", "put"}
      /\ wpc \in {"stop?", "empty?", "get", "sink", "exited"}
  BY SeqFacts DEF IInv, TypeOK
<1> USE DEF loopVars, workerVars, closeVars
<1>1. CASE Reject
  <2>1. /\ Decided' = Decided + 1 /\ Decided < MaxEvents
        /\ Grace' = 0
        /\ Pending' = Pending /\ Silent' = Silent
    BY <1>t, <1>1 DEF Reject, Decided, Grace, Pending, Hand, Silent, One
  <2>2. Promise!Lose
    BY <1>1, <2>1 DEF Reject, Counted, Promise!Lose, Promise!Decide
  <2> QED
    BY <2>2 DEF Promise!Next
<1>2. CASE Check
  <2>1. /\ Decided' = Decided /\ Grace' = Grace
        /\ Pending' = Pending /\ Silent' = Silent
    BY <1>t, <1>2 DEF Check, Decided, Grace, Pending, Hand, Silent, One
  <2> QED
    BY <1>2, <2>1 DEF Check, Promise!vars
<1>3. CASE Put
  <2>1. /\ Decided' = Decided + 1 /\ Decided < MaxEvents
        /\ Decided + 1 = offered
        /\ Grace' = 0 /\ (stopping => Grace = 1)
    BY <1>t, <1>3 DEF Put, Decided, Grace, One
  <2>2. offered \in 1..MaxEvents /\ Len(queue) < Capacity
    BY <1>t, <1>3 DEF Put, Full, IInv, Numbers
  <2>3. queue' = Append(queue, offered)
    BY <1>3 DEF Put, Enqueue
  <2>4. CASE wpc = "exited"
    <3>1. stopping /\ Len(queue) = 0
      BY <1>3, <2>4 DEF Put, IInv, Stopping, Leftover
    <3>2. Len(queue') = 1
      BY <1>t, <2>2, <2>3, <3>1, AppendFacts
    <3>3. Silent = 0 /\ Silent' = 1 /\ Pending' = Pending
      BY <1>3, <2>4, <3>1, <3>2 DEF Put, Silent, Pending
    <3>4. Promise!Vanish
      BY <1>3, <2>1, <3>1, <3>3 DEF Put, Promise!Vanish, Promise!Decide
    <3> QED
      BY <3>4 DEF Promise!Next
  <2>5. CASE wpc # "exited"
    <3>1. Silent' = Silent /\ wpc' = wpc /\ working' = working
      BY <1>3, <2>5 DEF Put, Silent
    <3>2. Pending' = Append(Pending, offered) /\ Len(Pending) < Capacity + 1
      <4>1. CASE wpc = "sink"
        <5>1. Pending = <<working>> \o queue /\ Pending' = <<working>> \o queue'
          BY <3>1, <4>1, PendingIs DEF Pending, Hand
        <5>2. working \in 1..MaxEvents
          BY <1>t, <4>1 DEF IInv, TypeOK, Numbers, LastPut
        <5>3. /\ Append(<<working>> \o queue, offered)
                   = <<working>> \o Append(queue, offered)
              /\ Len(<<working>> \o queue) = Len(queue) + 1
          BY <1>t, <2>2, <5>2, HandFacts
        <5>4. Pending' = Append(Pending, offered)
          BY <2>3, <5>1, <5>3
        <5>5. Len(Pending) < Capacity + 1
          BY <1>t, <2>2, <5>1, <5>3
        <5> QED
          BY <5>4, <5>5
      <4>2. CASE wpc # "sink"
        <5>1. Pending = queue
          BY <1>t, <2>5, <4>2, PendingIs
        <5>2. Pending' = <<>> \o queue'
          BY <2>5, <3>1, <4>2 DEF Pending, Hand
        <5>3. <<>> \o queue' = queue'
          BY EmptyHand DEF IInv, TypeOK
        <5> QED
          BY <1>t, <2>2, <2>3, <5>1, <5>2, <5>3
      <4> QED
        BY <4>1, <4>2
    <3>3. Promise!Keep
      BY <1>t, <1>3, <2>1, <3>1, <3>2 DEF Put, Promise!Keep, Promise!Decide
    <3> QED
      BY <3>3 DEF Promise!Next
  <2> QED
    BY <2>4, <2>5
<1>4. CASE PutFull
  <2>1. /\ Decided' = Decided + 1 /\ Decided < MaxEvents
        /\ Grace' = 0
        /\ Pending' = Pending /\ Silent' = Silent
    BY <1>t, <1>4 DEF PutFull, Decided, Grace, Pending, Hand, Silent, One
  <2>2. Promise!Lose
    BY <1>4, <2>1 DEF PutFull, Counted, Promise!Lose, Promise!Decide
  <2> QED
    BY <2>2 DEF Promise!Next
<1>5. CASE ReadStopping
  <2>1. /\ Decided' = Decided /\ Grace' = Grace
        /\ Pending' = Pending /\ Silent' = Silent
    BY <1>5 DEF ReadStopping, Decided, Grace, Pending, Hand, Silent, One
  <2> QED
    BY <1>5, <2>1 DEF ReadStopping, Promise!vars
<1>6. CASE ReadEmpty
  <2>1. Decided' = Decided /\ Grace' = Grace
    BY <1>6 DEF ReadEmpty, Decided, Grace, One
  <2>2. CASE queue = <<>>
    <3>1. wpc' = "exited" /\ queue' = <<>> /\ Len(queue') = 0
      BY <1>6, <2>2, EmptyFacts DEF ReadEmpty, Drained
    <3>2. Pending = <<>>
      BY <1>6, <2>2, PendingIs DEF ReadEmpty
    <3>3. Pending' = Pending /\ Silent' = Silent
      BY <1>6, <3>1, <3>2 DEF ReadEmpty, Pending, Silent
    <3> QED
      BY <1>6, <2>1, <3>3 DEF ReadEmpty, Promise!vars
  <2>3. CASE queue # <<>>
    <3>1. Pending' = Pending /\ Silent' = Silent
      BY <1>6, <2>3 DEF ReadEmpty, Drained, Pending, Hand, Silent
    <3> QED
      BY <1>6, <2>1, <3>1 DEF ReadEmpty, Promise!vars
  <2> QED
    BY <2>2, <2>3
<1>7. CASE Get
  <2>1. /\ Decided' = Decided /\ Grace' = Grace /\ Silent' = Silent
        /\ Pending' = <<Head(queue)>> \o Tail(queue)
    BY <1>7 DEF Get, Decided, Grace, Silent, One, Pending, Hand
  <2>2. Pending = queue
    BY <1>7, PendingIs DEF Get
  <2>3. Pending' = Pending
    BY <1>t, <1>7, <2>1, <2>2, HeadTail DEF Get
  <2> QED
    BY <1>7, <2>1, <2>3 DEF Get, Promise!vars
<1>8. CASE GetEmpty
  <2>1. /\ Decided' = Decided /\ Grace' = Grace
        /\ Pending' = Pending /\ Silent' = Silent
    BY <1>8 DEF GetEmpty, Decided, Grace, Pending, Hand, Silent, One
  <2> QED
    BY <1>8, <2>1 DEF GetEmpty, Promise!vars
<1>9. ASSUME NEW raised \in {0, 1}, Sink(raised)
      PROVE  [Promise!Next]_Promise!vars
  <2>1. Decided' = Decided /\ Grace' = Grace /\ Silent' = Silent
    BY <1>9 DEF Sink, Decided, Grace, Silent, One
  <2>2. Pending = <<working>> \o queue
    BY <1>9, PendingIs DEF Sink
  <2>3. Pending' = queue
    <3>1. Pending' = <<>> \o queue
      BY <1>9 DEF Sink, Pending, Hand
    <3> QED
      BY <1>t, <3>1, EmptyHand
  <2>4. working \in 1..MaxEvents
    BY <1>9 DEF Sink, IInv, TypeOK, Numbers, LastPut
  <2>5. Pending # <<>> /\ Head(Pending) = working /\ Tail(Pending) = Pending'
    <3>1. queue \in Seq(1..MaxEvents)
      BY <1>t
    <3> QED
      BY <2>2, <2>3, <2>4, <3>1, HandFacts
  <2>6. Promise!Handle
    BY <1>9, <2>1, <2>5 DEF Sink, Promise!Handle
  <2> QED
    BY <2>6 DEF Promise!Next
<1>10. CASE BeginClose
  <2>1. ~stopping /\ stopping'
    BY <1>10 DEF BeginClose, IInv, Stopping
  <2>2. /\ Decided' = Decided /\ Grace' \in {0, 1}
        /\ Pending' = Pending /\ Silent' = Silent
    BY <1>10 DEF BeginClose, Decided, Grace, Pending, Hand, Silent, One
  <2>3. Promise!Close
    BY <1>10, <2>1, <2>2 DEF BeginClose, Promise!Close
  <2> QED
    BY <2>3 DEF Promise!Next
<1>11. CASE EndClose
  <2>1. /\ Decided' = Decided /\ Grace' = Grace
        /\ Pending' = Pending /\ Silent' = Silent
    BY <1>11 DEF EndClose, Decided, Grace, Pending, Hand, Silent, One
  <2> QED
    BY <1>11, <2>1 DEF EndClose, Promise!vars
<1>12. CASE Exit
  <2>1. /\ Decided' = Decided /\ Grace' = Grace
        /\ Pending' = Pending /\ Silent' = Silent
    BY <1>12 DEF Exit, Decided, Grace, Pending, Hand, Silent, One
  <2>2. Promise!Exit
    BY <1>12, <2>1 DEF Exit, Promise!Exit
  <2> QED
    BY <2>2 DEF Promise!Next
<1>13. CASE UNCHANGED vars
  <2>1. /\ Decided' = Decided /\ Grace' = Grace
        /\ Pending' = Pending /\ Silent' = Silent
    BY <1>13 DEF vars, Decided, Grace, Pending, Hand, Silent, One
  <2> QED
    BY <1>13, <2>1 DEF vars, Promise!vars
<1> QED
  BY <1>1, <1>2, <1>3, <1>4, <1>5, <1>6, <1>7, <1>8, <1>9, <1>10, <1>11,
     <1>12, <1>13 DEF Next, EventLoop, Worker, Closer

(* The three threads implement the safety part of the promise: in order,   *)
(* at most once, bounded memory, every loss counted but the one that raced *)
(* close().                                                                *)
THEOREM Refines == Spec => Promise!Safety
  BY InitRefines, StepRefines, Inductive, PTL DEF Spec, Promise!Safety
=============================================================================
