------------------------- MODULE RemoteWriter_proof -------------------------
(***************************************************************************)
(* Proofs about RemoteWriter, for any number of processes, pushes and steps *)
(* back of the clock, whatever the network does.                           *)
(***************************************************************************)
EXTENDS RemoteWriter, FiniteSetTheorems, TLAPS

USE WriterAssumption

(* The snapshots of this process, those the receiver took, and of these    *)
(* the ones whose push is over.                                            *)
Mine     == {s \in sent : s.gen = gen}
Taken    == {s \in accepted : s.gen = gen}
Answered == IF posting THEN {s \in Taken : s.ts # last} ELSE Taken
One(b)   == IF b THEN 1 ELSE 0

(* Snapshots are numbered without gaps, and dated in their order. *)
Numbered ==
  /\ IsFiniteSet(sent)
  /\ \A s \in sent : s.gen <= gen /\ (s.gen = gen => s.seq <= Pushes)
  /\ \A s, t \in sent : s.gen = t.gen =>
       /\ s.seq < t.seq => s.ts < t.ts
       /\ s.seq = t.seq => s = t

(* last_timestamp is ahead of every snapshot of this process, and not more *)
(* ahead of the clock than the pushes can account for.                     *)
Dated == life # "dead" => /\ \A s \in Mine : s.ts <= last
                          /\ last <= MaxClock + Pushes

(* The pushes a place in the task leaves room for, and their failures. *)
Budget ==
  /\ Pushes \in 0..MaxPushes
  /\ task \in {"begin", "wait"} => Pushes < MaxPushes
  /\ task = "health" => Pushes + 1 < MaxPushes
  /\ task = "push" => Pushes + One(~posting) < MaxPushes
  /\ task = "final" /\ ~posting => Pushes < MaxPushes
  /\ life # "dead" => failures + One(posting) <= Pushes

(* Where the task is, and whether it has reported offline. *)
Offline == \E s \in Mine : s.alive = 0

Places ==
  /\ life = "dead" => task = "none" /\ ~posting
  /\ life = "starting" => task = "none"
  /\ task = "none" /\ life # "dead" => Mine = {}
  /\ posting => task \in {"push", "final", "cancelled"}
  /\ task \in {"begin", "health", "push", "wait"} => alive = 1 /\ ~Offline
  /\ task = "final" => alive = 0 /\ (Offline <=> posting)
  /\ task = "done" => Offline
  /\ life \in {"flushing", "down", "aborted"} => TaskOver
  /\ life = "flushing" => exporter = "closing"

Losses ==
  life # "dead" => Pushes <= failures + Cardinality(Answered) + One(posting)

IInv == /\ TypeOK /\ Numbered /\ Dated /\ Budget /\ Places /\ OfflineIsLast
        /\ DownIsReported /\ Losses

-----------------------------------------------------------------------------
LEMMA PushesFacts ==
  ASSUME IsFiniteSet(sent)
  PROVE  Pushes \in Nat /\ Pushes = Cardinality(Mine) /\ IsFiniteSet(Mine)
<1>1. Mine \in SUBSET sent
  BY DEF Mine
<1>2. IsFiniteSet(Mine)
  BY <1>1, FS_Subset
<1> QED
  BY <1>2, FS_CardinalityType DEF Pushes, Mine

LEMMA TakenFacts ==
  ASSUME IsFiniteSet(sent), accepted \subseteq sent
  PROVE  /\ IsFiniteSet(Taken) /\ Cardinality(Taken) \in Nat
         /\ IsFiniteSet(Answered) /\ Cardinality(Answered) \in Nat
<1>1. Taken \in SUBSET sent /\ Answered \in SUBSET sent
  BY DEF Taken, Answered
<1> QED
  BY <1>1, FS_Subset, FS_CardinalityType

LEMMA InitIInv == Init => IInv
<1> SUFFICES ASSUME Init PROVE IInv
  OBVIOUS
<1>1. sent = {} /\ accepted = {} /\ Mine = {} /\ Taken = {} /\ Answered = {}
  BY DEF Init, Mine, Taken, Answered
<1>2. IsFiniteSet(sent) /\ Pushes = 0 /\ Cardinality(Answered) = 0
  BY <1>1, FS_EmptySet DEF Pushes
<1>3. TypeOK
  <2>1. last \in 0..(MaxClock + MaxPushes) /\ failures \in 0..MaxPushes
        /\ clock \in 1..MaxClock /\ steps \in 0..MaxSteps /\ gen \in 1..MaxGen
    BY DEF Init
  <2>2. sent \subseteq Sample /\ flight \subseteq sent /\ accepted \subseteq sent
        /\ view \in accepted \cup {Nothing}
    BY DEF Init
  <2> QED
    BY <2>1, <2>2 DEF Init, TypeOK
<1>4. Numbered /\ Dated /\ Budget /\ Places
  BY <1>1, <1>2 DEF Init, Numbered, Dated, Budget, Places, One, TaskOver
<1>5. OfflineIsLast /\ DownIsReported /\ Losses
  BY <1>1, <1>2 DEF Init, OfflineIsLast, DownIsReported, Losses, One
<1> QED
  BY <1>3, <1>4, <1>5 DEF IInv

(* What a step keeps that neither pushes nor ends a push nor a process. *)
LEMMA QuietStep ==
  ASSUME IInv, UNCHANGED <<sent, accepted, gen, last, posting, failures>>,
         life' = "dead" <=> life = "dead"
  PROVE  /\ Pushes' = Pushes /\ Mine' = Mine /\ (Offline' <=> Offline)
         /\ Numbered' /\ Dated' /\ OfflineIsLast' /\ Losses'
<1>0. Numbered /\ Dated /\ OfflineIsLast /\ Losses
  BY DEF IInv
<1>1. /\ Pushes' = Pushes /\ Mine' = Mine /\ Taken' = Taken
      /\ Answered' = Answered /\ (Offline' <=> Offline)
  BY DEF Pushes, Mine, Taken, Answered, Offline
<1>2. Numbered' /\ OfflineIsLast'
  BY <1>0, <1>1 DEF Numbered, OfflineIsLast
<1>3. Dated' /\ Losses'
  BY <1>0, <1>1 DEF Dated, Losses
<1> QED
  BY <1>1, <1>2, <1>3

LEMMA LifespanIInv == IInv /\ Lifespan => IInv'
<1> SUFFICES ASSUME IInv, Lifespan PROVE IInv'
  OBVIOUS
<1> USE DEF process, world, net
<1>0. TypeOK /\ Numbered /\ Budget /\ Places /\ DownIsReported
  BY DEF IInv
<1>1. /\ UNCHANGED <<sent, accepted, gen, last, posting, failures>>
      /\ life' = "dead" <=> life = "dead"
      /\ UNCHANGED <<healthy, clock, steps, flight, view>>
  BY DEF Lifespan, StartupComplete, ShutdownComplete, AppLeaves, CloseReturns,
         WriterClosed, Flushed, CancelClose, CancelFlush
<1>2. /\ Pushes' = Pushes /\ Mine' = Mine /\ (Offline' <=> Offline)
      /\ Numbered' /\ Dated' /\ OfflineIsLast' /\ Losses'
  BY <1>1, QuietStep
<1>3. Pushes \in Nat /\ (Mine = {} => Pushes = 0)
  BY <1>0, PushesFacts, FS_EmptySet DEF Numbered
<1>4. TypeOK'
  <2>1. /\ life' \in {"starting", "up", "closing", "leaving", "flushing", "down",
                      "aborted", "dead"}
        /\ exporter' \in {"none", "open", "closing", "closed"}
    BY <1>0 DEF TypeOK, Lifespan, StartupComplete, ShutdownComplete, AppLeaves,
       CloseReturns, WriterClosed, Flushed, CancelClose, CancelFlush
  <2>2. /\ stop' \in BOOLEAN /\ alive' \in {0, 1}
        /\ task' \in {"none", "begin", "health", "push", "wait", "final", "done",
                      "cancelled"}
    BY <1>0 DEF TypeOK, Lifespan, StartupComplete, ShutdownComplete, AppLeaves,
       CloseReturns, WriterClosed, Flushed, CancelClose, CancelFlush
  <2> QED
    BY <1>0, <1>1, <2>1, <2>2 DEF TypeOK
<1>5. Budget'
  BY <1>0, <1>1, <1>2, <1>3 DEF Budget, Places, One, TaskOver, Lifespan,
         StartupComplete, ShutdownComplete, AppLeaves,
         CloseReturns, WriterClosed, Flushed, CancelClose, CancelFlush
<1>6. Places'
  <2>1. CASE StartupComplete
    <3>1. Mine = {} /\ ~Offline
      BY <1>0, <2>1 DEF Places, StartupComplete, Offline
    <3> QED
      BY <1>0, <1>1, <1>2, <2>1, <3>1 DEF Places, StartupComplete, TaskOver
  <2>2. CASE ShutdownComplete \/ AppLeaves \/ CloseReturns
    BY <1>0, <1>1, <1>2, <2>2 DEF Places, TaskOver, ShutdownComplete, AppLeaves,
       CloseReturns
  <2>3. CASE WriterClosed
    BY <1>0, <1>1, <1>2, <2>3 DEF Places, TaskOver, WriterClosed, Unflushed
  <2>4. CASE Flushed
    BY <1>0, <1>1, <1>2, <2>4 DEF Places, TaskOver, Flushed
  <2>5. CASE CancelClose \/ CancelFlush
    BY <1>0, <1>1, <1>2, <2>5 DEF Places, TaskOver, CancelClose, CancelFlush
  <2> QED
    BY <2>1, <2>2, <2>3, <2>4, <2>5 DEF Lifespan
<1>7. DownIsReported'
  <2>0. \A s \in sent : s \in Mine <=> s.gen = gen
    BY DEF Mine
  <2>1. task = "done" => \E s \in sent : s.gen = gen /\ s.alive = 0
    BY <1>0 DEF Places, Offline, Mine
  <2>2. CASE StartupComplete \/ ShutdownComplete \/ AppLeaves \/ CloseReturns
    BY <2>2 DEF DownIsReported, StartupComplete, ShutdownComplete, AppLeaves, CloseReturns
  <2>3. CASE WriterClosed
    BY <1>0, <1>1, <2>1, <2>3 DEF DownIsReported, TaskOver, WriterClosed, Unflushed
  <2>4. CASE Flushed
    BY <1>0, <1>1, <2>4 DEF DownIsReported, Flushed, TaskOver, Places
  <2>5. CASE CancelClose
    BY <2>5 DEF DownIsReported, CancelClose
  <2>6. CASE CancelFlush
    BY <1>0, <2>6 DEF DownIsReported, CancelFlush, TaskOver, Places
  <2> QED
    BY <2>2, <2>3, <2>4, <2>5, <2>6 DEF Lifespan
<1> QED
  BY <1>2, <1>4, <1>5, <1>6, <1>7 DEF IInv

(* The loop of the task between its pushes. *)
LEMMA LoopIInv ==
  ASSUME IInv, LoopAgain \/ LoopEnds \/ \E ok \in {0, 1} : Health(ok)
  PROVE  IInv'
<1> USE DEF process, world, net
<1>0. TypeOK /\ Numbered /\ Budget /\ Places /\ DownIsReported
  BY DEF IInv
<1>1. /\ UNCHANGED <<sent, accepted, gen, last, posting, failures>>
      /\ life' = "dead" <=> life = "dead"
      /\ UNCHANGED <<life, exporter, stop, clock, steps, flight, view>>
  BY DEF LoopAgain, LoopEnds, Health
<1>2. /\ Pushes' = Pushes /\ Mine' = Mine /\ (Offline' <=> Offline)
      /\ Numbered' /\ Dated' /\ OfflineIsLast' /\ Losses'
  BY <1>1, QuietStep
<1>3. Pushes \in Nat
  BY <1>0, PushesFacts DEF Numbered
<1>4. task \in {"begin", "health", "wait"} /\ ~posting
  BY <1>0 DEF LoopAgain, LoopEnds, Health, Places
<1>5. /\ task' \in {"health", "final", "push"}
      /\ alive' \in {0, 1} /\ healthy' \in {0, 1}
  BY <1>0 DEF LoopAgain, LoopEnds, Health, TypeOK
<1>6. TypeOK'
  BY <1>0, <1>1, <1>5 DEF TypeOK
<1>7. Budget'
  BY <1>0, <1>1, <1>2, <1>3, <1>4 DEF Budget, One, LoopAgain, LoopEnds, Health
<1>8. life \notin {"dead", "starting", "flushing", "down", "aborted"}
  BY <1>0, <1>4 DEF Places, TaskOver
<1>9. Places'
  BY <1>0, <1>1, <1>2, <1>4, <1>8 DEF Places, TaskOver, LoopAgain, LoopEnds, Health
<1>10. DownIsReported'
  BY <1>1, <1>8 DEF DownIsReported
<1> QED
  BY <1>2, <1>6, <1>7, <1>9, <1>10 DEF IInv

LEMMA PostIInv ==
  ASSUME IInv, Post
  PROVE  IInv'
<1> USE DEF process, world, net
<1> DEFINE s == [gen |-> gen, seq |-> Pushes + 1, ts |-> Stamp, alive |-> alive]
<1>0. /\ TypeOK /\ Numbered /\ Dated /\ Budget /\ Places /\ OfflineIsLast
      /\ DownIsReported /\ Losses
  BY DEF IInv
<1>1. /\ task \in {"push", "final"} /\ ~posting /\ posting' = TRUE
      /\ last' = Stamp /\ sent' = sent \cup {s} /\ flight' = flight \cup {s}
      /\ UNCHANGED <<life, exporter, stop, task, alive, healthy, failures, view,
                     accepted, clock, steps, gen>>
  BY DEF Post
<1>2. /\ gen \in 1..MaxGen /\ last \in Nat /\ clock \in 1..MaxClock
      /\ alive \in {0, 1} /\ failures \in Nat /\ sent \subseteq Sample
      /\ accepted \subseteq sent
      /\ life \notin {"dead", "starting", "flushing", "down", "aborted"}
  BY <1>0, <1>1 DEF TypeOK, Places, TaskOver
<1>3. Pushes \in Nat /\ IsFiniteSet(Mine) /\ Pushes = Cardinality(Mine)
  BY <1>0, PushesFacts DEF Numbered
<1>4. /\ last <= MaxClock + Pushes /\ Pushes < MaxPushes
      /\ \A t \in Mine : t.ts <= last
      /\ \A t \in sent : /\ t.gen \in Nat /\ t.seq \in Nat /\ t.ts \in Nat
                         /\ t.gen <= gen /\ (t.gen = gen => t.seq <= Pushes)
  BY <1>0, <1>1, <1>2 DEF Dated, Budget, One, Numbered, Sample
<1>5. /\ Stamp \in Nat /\ last < Stamp /\ Stamp \in 1..(MaxClock + MaxPushes)
      /\ Stamp <= MaxClock + (Pushes + 1)
  BY <1>2, <1>3, <1>4 DEF Stamp
<1> DEFINE n == Pushes + 1
<1>6. /\ s.gen = gen /\ s.seq = n /\ s.ts = Stamp /\ s.alive = alive
      /\ s \in Sample
  BY <1>2, <1>3, <1>4, <1>5 DEF Sample
<1> HIDE DEF s
<1>7. s \notin Mine
  BY <1>2, <1>3, <1>4, <1>5, <1>6
<1>8. Mine' = Mine \cup {s}
  BY <1>1, <1>6 DEF Mine
<1>9. Pushes' = n /\ IsFiniteSet(sent')
  <2>1. Cardinality(Mine') = Cardinality(Mine) + 1
    BY <1>3, <1>7, <1>8, FS_AddElement
  <2>2. IsFiniteSet(sent')
    BY <1>0, <1>1, FS_AddElement DEF Numbered
  <2> QED
    BY <1>3, <2>1, <2>2 DEF Pushes, Mine
<1>10. TypeOK'
  <2>1. sent' \subseteq Sample /\ flight' \subseteq sent' /\ accepted' \subseteq sent'
    BY <1>0, <1>1, <1>6 DEF TypeOK
  <2>2. last' \in 0..(MaxClock + MaxPushes)
    BY <1>1, <1>5
  <2> QED
    BY <1>0, <1>1, <2>1, <2>2 DEF TypeOK
<1>11. Numbered'
  <2>1. \A t \in sent : t.gen = gen => t \in Mine
    BY DEF Mine
  <2>2. \A t \in sent' : t.gen <= gen' /\ (t.gen = gen' => t.seq <= Pushes')
    BY <1>1, <1>2, <1>3, <1>4, <1>6, <1>9
  <2>3. ASSUME NEW t \in sent', NEW u \in sent', t.gen = u.gen
        PROVE  (t.seq < u.seq => t.ts < u.ts) /\ (t.seq = u.seq => t = u)
    <3>1. CASE t \in sent /\ u \in sent
      BY <1>0, <2>3, <3>1 DEF Numbered
    <3>2. CASE t \in sent /\ u = s
      <4>1. t.ts <= last /\ t.seq <= Pushes /\ t.ts \in Nat /\ t.seq \in Nat
        BY <1>4, <1>6, <2>1, <2>3, <3>2
      <4> QED
        BY <1>2, <1>3, <1>5, <1>6, <3>2, <4>1
    <3>3. CASE t = s /\ u \in sent
      <4>1. u.seq <= Pushes /\ u.seq \in Nat
        BY <1>4, <1>6, <2>3, <3>3
      <4> QED
        BY <1>3, <1>6, <3>3, <4>1
    <3>4. CASE t = s /\ u = s
      BY <1>3, <1>6, <3>4
    <3> QED
      BY <1>1, <3>1, <3>2, <3>3, <3>4
  <2> QED
    BY <1>9, <2>2, <2>3 DEF Numbered
<1>12. Dated'
  <2>1. \A t \in Mine' : t.ts <= last'
    <3>1. \A t \in Mine : t.ts \in Nat
      BY <1>4 DEF Mine
    <3> QED
      BY <1>1, <1>2, <1>4, <1>5, <1>6, <1>8, <3>1
  <2> QED
    BY <1>1, <1>5, <1>9, <2>1 DEF Dated
<1>13. Budget'
  BY <1>0, <1>1, <1>2, <1>3, <1>4, <1>9 DEF Budget, One
<1>14. Places'
  <2>1. Offline' <=> Offline \/ alive = 0
    BY <1>6, <1>8 DEF Offline
  <2> QED
    BY <1>0, <1>1, <1>2, <2>1 DEF Places, TaskOver
<1>15. OfflineIsLast'
  <2>1. \A t \in sent : t.gen = gen => t.alive # 0
    BY <1>0, <1>1 DEF Places, Offline, Mine
  <2> SUFFICES ASSUME NEW t \in sent', t.alive = 0, NEW u \in sent', u.gen = t.gen
               PROVE  u = t \/ u.seq < t.seq
    BY DEF OfflineIsLast
  <2>2. CASE t \in sent /\ u \in sent
    BY <1>0, <2>2 DEF OfflineIsLast
  <2>3. CASE t = s /\ u \in sent
    BY <1>3, <1>4, <1>6, <2>3
  <2>4. CASE t \in sent /\ u = s
    BY <1>6, <2>1, <2>4
  <2> QED
    BY <1>1, <2>2, <2>3, <2>4
<1>16. DownIsReported'
  BY <1>1, <1>2 DEF DownIsReported
<1>17. Losses'
  <2>1. Taken' = Taken /\ Answered = Taken
    BY <1>1 DEF Taken, Answered
  <2>2. \A t \in Taken : t \in Mine /\ t.ts \in Nat
    BY <1>2, <1>4 DEF Taken, Mine
  <2>3. Answered' = Taken
    BY <1>1, <1>2, <1>4, <1>5, <2>1, <2>2 DEF Answered
  <2>4. Cardinality(Taken) \in Nat
    BY <1>0, <1>2, TakenFacts DEF Numbered
  <2> QED
    BY <1>0, <1>1, <1>2, <1>3, <1>9, <2>1, <2>3, <2>4 DEF Losses, One
<1> QED
  BY <1>10, <1>11, <1>12, <1>13, <1>14, <1>15, <1>16, <1>17 DEF IInv

LEMMA PostEndsIInv ==
  ASSUME IInv, NEW ok \in BOOLEAN, PostEnds(ok)
  PROVE  IInv'
<1> USE DEF process, world, net
<1>0. /\ TypeOK /\ Numbered /\ Dated /\ Budget /\ Places /\ OfflineIsLast
      /\ DownIsReported /\ Losses
  BY DEF IInv
<1>1. /\ posting /\ posting' = FALSE
      /\ ok => \E s \in accepted : s.gen = gen /\ s.ts = last
      /\ failures' = IF ok THEN failures ELSE failures + 1
      /\ task' = CASE task = "final" -> "done" [] task = "push" -> "wait"
                   [] OTHER -> task
      /\ UNCHANGED <<life, exporter, stop, alive, healthy, last, clock, steps,
                     flight, view, sent, accepted, gen>>
  BY DEF PostEnds, CountFailure
<1>2. /\ task \in {"push", "final", "cancelled"} /\ life # "dead"
      /\ failures \in Nat /\ accepted \subseteq sent
      /\ task = "push" => task' = "wait"
      /\ task = "final" => task' = "done"
      /\ task = "cancelled" => task' = "cancelled"
  BY <1>0, <1>1 DEF Places, TypeOK
<1>3. Pushes \in Nat /\ Pushes' = Pushes /\ Mine' = Mine /\ (Offline' <=> Offline)
  BY <1>0, <1>1, PushesFacts DEF Numbered, Pushes, Mine, Offline
<1>4. failures' <= Pushes /\ Pushes <= MaxPushes /\ failures' \in Nat
  BY <1>0, <1>1, <1>2, <1>3 DEF Budget, One
<1>5. TypeOK'
  <2>1. failures' \in 0..MaxPushes
    BY <1>3, <1>4
  <2>2. task' \in {"wait", "done", "cancelled"}
    BY <1>2
  <2>3. posting' \in BOOLEAN
    BY <1>1
  <2>4. UNCHANGED <<life, exporter, stop, alive, healthy, last, clock, steps,
                    flight, view, sent, accepted, gen>>
    BY <1>1
  <2> QED
    BY <1>0, <2>1, <2>2, <2>3, <2>4 DEF TypeOK
<1>6. Numbered' /\ OfflineIsLast' /\ Dated'
  BY <1>0, <1>1, <1>3 DEF Numbered, OfflineIsLast, Dated
<1>7. Budget'
  BY <1>0, <1>1, <1>2, <1>3, <1>4 DEF Budget, One
<1>8. Places'
  BY <1>0, <1>1, <1>2, <1>3 DEF Places, TaskOver
<1>9. DownIsReported'
  <2>1. life \in {"flushing", "down", "aborted"} => task' = task
    BY <1>0, <1>2 DEF Places, TaskOver
  <2> QED
    BY <1>0, <1>1, <2>1 DEF DownIsReported
<1>10. Losses'
  <2>1. /\ IsFiniteSet(Taken) /\ Cardinality(Taken) \in Nat
        /\ IsFiniteSet(Answered) /\ Cardinality(Answered) \in Nat
    BY <1>0, <1>2, TakenFacts DEF Numbered
  <2>2. Answered' = Taken /\ Answered \in SUBSET Taken
    BY <1>1 DEF Answered, Taken
  <2>3. Pushes <= failures + Cardinality(Answered) + 1
    BY <1>0, <1>1, <1>2 DEF Losses, One
  <2>4. CASE ok
    <3>1. PICK s \in accepted : s.gen = gen /\ s.ts = last
      BY <1>1, <2>4
    <3>2. s \in Taken /\ s \notin Answered
      BY <1>1, <3>1 DEF Taken, Answered
    <3>3. Cardinality(Answered) < Cardinality(Taken)
      BY <2>1, <2>2, <3>2, FS_Subset
    <3> QED
      BY <1>1, <1>2, <1>3, <2>1, <2>2, <2>3, <2>4, <3>3 DEF Losses, One
  <2>5. CASE ~ok
    <3>1. Cardinality(Answered) <= Cardinality(Taken)
      BY <2>1, <2>2, FS_Subset
    <3> QED
      BY <1>1, <1>2, <1>3, <2>1, <2>2, <2>3, <2>5, <3>1 DEF Losses, One
  <2> QED
    BY <2>4, <2>5
<1> QED
  BY <1>5, <1>6, <1>7, <1>8, <1>9, <1>10 DEF IInv

(* The network, the clock, a crash, a restart. *)
LEMMA DeliverIInv ==
  ASSUME IInv, NEW s \in flight, Deliver(s)
  PROVE  IInv'
<1> USE DEF process, world, net
<1>0. /\ TypeOK /\ Numbered /\ Dated /\ Budget /\ Places /\ OfflineIsLast
      /\ DownIsReported /\ Losses
  BY DEF IInv
<1>1. /\ UNCHANGED <<life, exporter, stop, task, posting, alive, healthy, last,
                     failures, clock, steps, sent, gen>>
      /\ flight' = flight \ {s}
      /\ \/ view' = s /\ accepted' = accepted \cup {s}
         \/ view' = view /\ accepted' = accepted
  BY DEF Deliver
<1>2. /\ sent \subseteq Sample /\ flight \subseteq sent /\ accepted \subseteq sent
      /\ view \in accepted \cup {Nothing} /\ s \in sent /\ failures \in Nat
  BY <1>0 DEF TypeOK
<1>3. Pushes' = Pushes /\ Mine' = Mine /\ (Offline' <=> Offline) /\ Pushes \in Nat
  BY <1>0, <1>1, PushesFacts DEF Numbered, Pushes, Mine, Offline
<1>4. accepted \subseteq accepted' /\ accepted' \subseteq sent
  BY <1>1, <1>2
<1>5. TypeOK'
  BY <1>0, <1>1, <1>2 DEF TypeOK
<1>6. Numbered' /\ Dated' /\ OfflineIsLast'
  BY <1>0, <1>1, <1>3 DEF Numbered, Dated, OfflineIsLast
<1>7. Budget' /\ Places'
  BY <1>0, <1>1, <1>3 DEF Budget, Places, TaskOver
<1>8. DownIsReported'
  BY <1>0, <1>1 DEF DownIsReported
<1>9. Losses'
  <2>1. Answered' \subseteq Mine /\ Answered \in SUBSET Answered'
    BY <1>1, <1>4 DEF Answered, Taken, Mine
  <2>2. IsFiniteSet(Mine)
    BY <1>0, PushesFacts DEF Numbered
  <2>3. IsFiniteSet(Answered') /\ Cardinality(Answered') \in Nat
    BY <2>1, <2>2, FS_Subset, FS_CardinalityType
  <2>4. Cardinality(Answered) <= Cardinality(Answered') /\ Cardinality(Answered) \in Nat
    BY <2>1, <2>3, FS_Subset, FS_CardinalityType
  <2> QED
    BY <1>0, <1>1, <1>2, <1>3, <2>3, <2>4 DEF Losses, One
<1> QED
  BY <1>5, <1>6, <1>7, <1>8, <1>9 DEF IInv

LEMMA ClockIInv ==
  ASSUME IInv, Tick \/ StepBack
  PROVE  IInv'
<1> USE DEF process, world, net
<1>0. TypeOK /\ Numbered /\ Budget /\ Places /\ DownIsReported
  BY DEF IInv
<1>1. /\ UNCHANGED <<life, exporter, stop, task, posting, alive, healthy, last,
                     failures, sent, flight, view, accepted, gen>>
      /\ clock' \in 1..MaxClock /\ steps' \in 0..MaxSteps
  BY <1>0 DEF Tick, StepBack, TypeOK
<1>2. /\ Pushes' = Pushes /\ Mine' = Mine /\ (Offline' <=> Offline)
      /\ Numbered' /\ Dated' /\ OfflineIsLast' /\ Losses'
  BY <1>1, QuietStep
<1>3. TypeOK'
  BY <1>0, <1>1 DEF TypeOK
<1>4. Budget' /\ Places' /\ DownIsReported'
  BY <1>0, <1>1, <1>2 DEF Budget, Places, TaskOver, DownIsReported
<1> QED
  BY <1>2, <1>3, <1>4 DEF IInv

LEMMA CrashIInv ==
  ASSUME IInv, Crash
  PROVE  IInv'
<1> USE DEF process, world, net
<1>0. TypeOK /\ Numbered /\ Budget /\ OfflineIsLast
  BY DEF IInv
<1>1. /\ life' = "dead" /\ stop' = FALSE /\ task' = "none" /\ posting' = FALSE
      /\ alive' = 0 /\ healthy' = 0 /\ last' = 0 /\ failures' = 0
      /\ UNCHANGED <<exporter, clock, steps, flight, view, sent, accepted, gen>>
  BY DEF Crash
<1>2. Pushes' = Pushes
  BY <1>1 DEF Pushes
<1>3. TypeOK'
  <2>1. last' \in 0..(MaxClock + MaxPushes) /\ failures' \in 0..MaxPushes
    BY <1>1
  <2> QED
    BY <1>0, <1>1, <2>1 DEF TypeOK
<1>4. Numbered' /\ OfflineIsLast'
  BY <1>0, <1>1, <1>2 DEF Numbered, OfflineIsLast
<1>5. Dated' /\ Budget' /\ Places' /\ DownIsReported' /\ Losses'
  BY <1>0, <1>1, <1>2 DEF Dated, Budget, Places, DownIsReported, Losses
<1> QED
  BY <1>3, <1>4, <1>5 DEF IInv

LEMMA RestartIInv ==
  ASSUME IInv, Restart
  PROVE  IInv'
<1> USE DEF process, world, net
<1>0. TypeOK /\ Numbered /\ OfflineIsLast
  BY DEF IInv
<1>1. /\ gen < MaxGen /\ gen' = gen + 1 /\ gen \in 1..MaxGen
      /\ life' = "starting" /\ stop' = FALSE /\ task' = "none" /\ posting' = FALSE
      /\ alive' = 0 /\ healthy' = 0 /\ last' = 0 /\ failures' = 0
      /\ exporter' \in {"none", "open"}
      /\ UNCHANGED <<clock, steps, flight, view, sent, accepted>>
  BY <1>0 DEF Restart, TypeOK
<1>2. \A s \in sent : s.gen \in Nat /\ s.gen < gen'
  BY <1>0, <1>1 DEF Numbered, TypeOK, Sample
<1>3. Mine' = {} /\ Answered' = {} /\ accepted \subseteq sent
  BY <1>0, <1>1, <1>2 DEF Mine, Answered, Taken, TypeOK
<1>4. Pushes' = 0 /\ Cardinality(Answered') = 0
  BY <1>3, FS_EmptySet DEF Pushes, Mine
<1>5. TypeOK'
  <2>1. last' \in 0..(MaxClock + MaxPushes) /\ failures' \in 0..MaxPushes
        /\ gen' \in 1..MaxGen
    BY <1>1
  <2> QED
    BY <1>0, <1>1, <2>1 DEF TypeOK
<1>6. Numbered' /\ OfflineIsLast'
  BY <1>0, <1>1, <1>2 DEF Numbered, OfflineIsLast
<1>7. Dated' /\ Budget' /\ Losses'
  BY <1>1, <1>3, <1>4 DEF Dated, Budget, Losses, One
<1>8. Places' /\ DownIsReported'
  BY <1>1, <1>3 DEF Places, Offline, DownIsReported
<1> QED
  BY <1>5, <1>6, <1>7, <1>8 DEF IInv
-----------------------------------------------------------------------------
LEMMA StepIInv == IInv /\ [Next]_vars => IInv'
<1> SUFFICES ASSUME IInv, [Next]_vars PROVE IInv'
  OBVIOUS
<1>1. CASE Lifespan
  BY <1>1, LifespanIInv
<1>2. CASE Task
  <2>1. CASE Post
    BY <2>1, PostIInv
  <2>2. ASSUME NEW ok \in BOOLEAN, PostEnds(ok) PROVE IInv'
    BY <2>2, PostEndsIInv
  <2>3. CASE LoopAgain \/ LoopEnds \/ \E ok \in {0, 1} : Health(ok)
    BY <2>3, LoopIInv
  <2> QED
    BY <1>2, <2>1, <2>2, <2>3 DEF Task
<1>3. CASE Network
  BY <1>3, DeliverIInv DEF Network
<1>4. CASE Tick \/ StepBack
  BY <1>4, ClockIInv
<1>5. CASE Crash
  BY <1>5, CrashIInv
<1>6. CASE Restart
  BY <1>6, RestartIInv
<1>7. CASE UNCHANGED vars
  <2>1. /\ Pushes' = Pushes /\ Mine' = Mine /\ (Offline' <=> Offline)
        /\ Numbered' /\ Dated' /\ OfflineIsLast' /\ Losses'
    BY <1>7, QuietStep DEF vars, process, net
  <2>2. TypeOK'
    BY <1>7 DEF IInv, TypeOK, vars, process, net, world
  <2>3. Budget' /\ Places' /\ DownIsReported'
    BY <1>7, <2>1 DEF IInv, Budget, Places, TaskOver, DownIsReported, vars, process,
       net, world
  <2> QED
    BY <2>1, <2>2, <2>3 DEF IInv
<1> QED
  BY <1>1, <1>2, <1>3, <1>4, <1>5, <1>6, <1>7 DEF Next

LEMMA Inductive == Spec => []IInv
<1>1. Init => IInv
  BY InitIInv
<1>2. IInv /\ [Next]_vars => IInv'
  BY StepIInv
<1> QED
  BY <1>1, <1>2, PTL DEF Spec

(* Whatever the bounds, the state has its shape. *)
THEOREM TypeCorrect == Spec => []TypeOK
<1>1. IInv => TypeOK
  BY DEF IInv
<1> QED
  BY <1>1, Inductive, PTL

(* For any number of pushes, crashes and restarts, and with the scope      *)
(* cancelled at any point: nothing is sent after the offline report.       *)
THEOREM NothingAfterOffline == Spec => []OfflineIsLast
<1>1. IInv => OfflineIsLast
  BY DEF IInv
<1> QED
  BY <1>1, Inductive, PTL

(* An orderly end has stopped the task, reported offline and closed the    *)
(* exporter, wherever the shutdown found them.                             *)
THEOREM OrderlyEnd == Spec => []DownIsReported
<1>1. IInv => DownIsReported
  BY DEF IInv
<1> QED
  BY <1>1, Inductive, PTL

(* Every push that is over was accepted or counted as a failure.           *)
THEOREM LossesAreCounted == Spec => []NoSilentLoss
<1>1. IInv => NoSilentLoss
  <2> SUFFICES ASSUME IInv, life # "dead"
               PROVE  Pushes <= failures + Cardinality(Taken) + One(posting)
    BY DEF NoSilentLoss, Taken, One
  <2>1. /\ IsFiniteSet(sent) /\ accepted \subseteq sent /\ failures \in Nat
        /\ Pushes <= failures + Cardinality(Answered) + One(posting)
        /\ posting \in BOOLEAN
    BY DEF IInv, Numbered, TypeOK, Losses
  <2>2. /\ IsFiniteSet(Taken) /\ Cardinality(Taken) \in Nat
        /\ Cardinality(Answered) \in Nat /\ Pushes \in Nat
    BY <2>1, TakenFacts, PushesFacts
  <2>3. Cardinality(Answered) <= Cardinality(Taken)
    <3>1. Answered \in SUBSET Taken
      BY DEF Answered
    <3> QED
      BY <2>2, <3>1, FS_Subset
  <2> QED
    BY <2>1, <2>2, <2>3 DEF One
<1> QED
  BY <1>1, Inductive, PTL

(* Whatever the order in which snapshots arrive, and however the clock is  *)
(* stepped, the receiver never falls back to an earlier snapshot.          *)
THEOREM NoFallingBack == Spec => ViewMovesForward
<1>1. IInv /\ [Next]_vars =>
        [view'.gen = view.gen =>
           view'.seq >= view.seq /\ view'.alive <= view.alive]_vars
  <2> SUFFICES ASSUME IInv, Next, view'.gen = view.gen
               PROVE  view'.seq >= view.seq /\ view'.alive <= view.alive
    OBVIOUS
  <2>1. /\ view \in Sample \cup {Nothing} /\ view \in sent \cup {Nothing}
        /\ sent \subseteq Sample /\ flight \subseteq sent /\ gen \in Nat
    BY DEF IInv, TypeOK
  <2>2. view.seq \in Nat /\ view.alive \in {0, 1}
    BY <2>1 DEF Sample, Nothing
  <2>3. CASE view' = view
    BY <2>2, <2>3
  <2>4. ASSUME NEW s \in flight, s.ts > view.ts, view' = s
        PROVE  view'.seq >= view.seq /\ view'.alive <= view.alive
    <3>1. s \in sent /\ s \in Sample /\ s.gen = view.gen
      BY <2>1, <2>4
    <3>2. s.gen \in 1..MaxGen /\ s.seq \in Nat /\ s.alive \in {0, 1} /\ s.ts \in Nat
      BY <3>1 DEF Sample
    <3>3. view \in sent /\ view \in Sample
      BY <2>1, <3>1, <3>2 DEF Nothing
    <3>4. view.ts \in Nat
      BY <3>3 DEF Sample
    <3>5. s.seq >= view.seq
      BY <2>2, <2>4, <3>1, <3>2, <3>3, <3>4 DEF IInv, Numbered
    <3>6. view.alive = 0 => s = view
      BY <2>2, <3>1, <3>2, <3>3, <3>5 DEF IInv, OfflineIsLast
    <3> QED
      BY <2>2, <2>4, <3>2, <3>4, <3>5, <3>6
  <2>5. view' = view \/ \E s \in flight : s.ts > view.ts /\ view' = s
    BY DEF Next, Lifespan, StartupComplete, ShutdownComplete, AppLeaves, CloseReturns,
       WriterClosed, Flushed, CancelClose, CancelFlush, Task, LoopAgain, LoopEnds,
       Post, Health, PostEnds, Network, Deliver, Tick, StepBack, Crash, Restart,
       process, world, net
  <2> QED
    BY <2>3, <2>4, <2>5
<1> QED
  BY <1>1, Inductive, PTL DEF Spec, ViewMovesForward
=============================================================================
