------------------------- MODULE EngineStages_proof -------------------------
(***************************************************************************)
(* Proofs about EngineStages, for any number of requests, chunks, batches   *)
(* and batches in flight, and every order in which the executor's thread   *)
(* and the core thread take their steps.                                   *)
(***************************************************************************)
EXTENDS EngineStages, FiniteSetTheorems, TLAPS

USE EngineAssumption

Rec == [there : BOOLEAN, first : Nat, schedule_steps : Nat, prefill_chunks : Nat,
        decode_steps : Nat, execute_steps : Nat, contention_steps : Nat,
        prefill_done : BOOLEAN]

(* The types, without the bounds. *)
Typed ==
  /\ phase \in [Requests -> {"new", "live", "finished", "aborted"}]
  /\ left \in [Requests -> 0..MaxChunks]
  /\ core \in {"idle", "execute", "failed"}
  /\ batch \in Seq(SUBSET Requests)
  /\ ran \in Nat /\ called \in Nat /\ taken \in Nat
  /\ runs \in [1..MaxBatches -> Nat]
  /\ timed \subseteq 1..MaxBatches
  /\ registry \in [Requests -> Rec] /\ payload \in [Requests -> Rec]
  /\ passed \in [Requests -> Nat]

(* A batch is executed, its callback run and its result taken in order.    *)
Executor ==
  /\ taken <= ran /\ ran <= Len(batch) /\ Len(batch) <= MaxBatches
  /\ called <= ran /\ ran <= called + 1
  /\ \A n \in 1..MaxBatches : n > Len(batch) => runs[n] = 0 /\ n \notin timed
  /\ core = "execute" =>
       ran < Len(batch) /\ runs[Len(batch)] = 0 /\ Len(batch) \notin timed

(* A request is in no batch before it is added, and in none whose result   *)
(* is still to come once it has finished.                                  *)
Lifetimes ==
  \A r \in Requests :
    /\ phase[r] = "new" => Scheduling(r) = {} /\ passed[r] = 0
    /\ phase[r] = "finished" => \A n \in Scheduling(r) : n <= taken

(* What a record says of the batches so far, and of those of its request.  *)
Counts(rec, mine, all) ==
  /\ rec.schedule_steps = mine
  /\ rec.schedule_steps = rec.prefill_chunks + rec.decode_steps
  /\ rec.first <= all
  /\ rec.first # 0 => rec.schedule_steps + rec.contention_steps
                        <= all - rec.first + 1
  /\ rec.first = 0 => rec.schedule_steps = 0 /\ rec.contention_steps = 0

Counted ==
  \A r \in Requests :
    /\ registry[r].there =>
         Counts(registry[r], Cardinality(Scheduling(r)), Len(batch))
    /\ payload[r].there =>
         Counts(payload[r], Cardinality(Scheduling(r)), Len(batch))

IInv == /\ Typed /\ Executor /\ Lifetimes /\ RecordsFollowRequests /\ Counted
        /\ ExecutionAccounted /\ ContentionExact

(* The measured batches of a request, and those whose callback has run. *)
MeasuredIn(r) == Scheduling(r) \cap timed
Executed(r)   == {n \in MeasuredIn(r) : n <= called}
-----------------------------------------------------------------------------
LEMMA AppendFacts ==
  ASSUME NEW S, NEW q \in Seq(S), NEW e \in S
  PROVE  /\ Append(q, e) \in Seq(S)
         /\ Len(Append(q, e)) = Len(q) + 1
         /\ \A i \in 1..Len(q) : Append(q, e)[i] = q[i]
         /\ Append(q, e)[Len(q) + 1] = e
  OBVIOUS

LEMMA SchedulingFacts ==
  ASSUME Typed, NEW r \in Requests
  PROVE  /\ Len(batch) \in Nat
         /\ Scheduling(r) \subseteq 1..Len(batch)
         /\ IsFiniteSet(Scheduling(r)) /\ Cardinality(Scheduling(r)) \in Nat
         /\ Cardinality(Scheduling(r)) <= Len(batch)
         /\ IsFiniteSet(MeasuredIn(r)) /\ Cardinality(MeasuredIn(r)) \in Nat
         /\ IsFiniteSet(Executed(r)) /\ Cardinality(Executed(r)) \in Nat
<1>1. Len(batch) \in Nat
  BY DEF Typed
<1>2. IsFiniteSet(1..Len(batch)) /\ Cardinality(1..Len(batch)) = Len(batch)
  <2>1. 1 \in Int /\ Len(batch) \in Int
    BY <1>1
  <2>2. /\ IsFiniteSet(1..Len(batch))
        /\ Cardinality(1..Len(batch)) = IF 1 > Len(batch) THEN 0 ELSE Len(batch) - 1 + 1
    BY <2>1, FS_Interval, Zenon
  <2> QED
    BY <1>1, <2>2
<1>3. /\ Scheduling(r) \in SUBSET (1..Len(batch))
      /\ MeasuredIn(r) \in SUBSET (1..Len(batch))
      /\ Executed(r) \in SUBSET (1..Len(batch))
  BY DEF Scheduling, MeasuredIn, Executed
<1> QED
  BY <1>1, <1>2, <1>3, FS_Subset, FS_CardinalityType

LEMMA AccountedMeaning ==
  ExecutionAccounted <=>
    \A r \in Requests :
      /\ registry[r].there => registry[r].execute_steps = Cardinality(Executed(r))
      /\ payload[r].there =>
           payload[r].execute_steps \in {Cardinality(MeasuredIn(r)),
                                         Cardinality(MeasuredIn(r)) - 1}
  BY DEF ExecutionAccounted, MeasuredIn, Executed

LEMMA InitIInv == Init => IInv
<1> SUFFICES ASSUME Init PROVE IInv
  OBVIOUS
<1>1. Len(batch) = 0 /\ batch \in Seq(SUBSET Requests)
  BY DEF Init
<1>2. \A r \in Requests : Scheduling(r) = {}
  BY <1>1 DEF Scheduling
<1>3. NoRecord \in Rec /\ ~NoRecord.there
  BY DEF NoRecord, Rec
<1>4. Typed
  BY <1>1, <1>3 DEF Init, Typed
<1>5. Executor
  BY <1>1 DEF Init, Executor
<1>6. Lifetimes /\ RecordsFollowRequests /\ Counted /\ ExecutionAccounted
  BY <1>2, <1>3 DEF Init, Lifetimes, RecordsFollowRequests, Counted, ExecutionAccounted
<1>7. ContentionExact
  BY DEF Init, ContentionExact, Live
<1> QED
  BY <1>4, <1>5, <1>6, <1>7 DEF IInv

(* A step that changes no batch, no record and nothing of the executor.    *)
LEMMA AddIInv ==
  ASSUME IInv, NEW r \in Requests, NEW chunks \in 1..MaxChunks, AddRequest(r, chunks)
  PROVE  IInv'
<1> USE DEF vllm, exec
<1>0. /\ Typed /\ Executor /\ Lifetimes /\ RecordsFollowRequests /\ Counted
      /\ ExecutionAccounted /\ ContentionExact
  BY DEF IInv
<1>1. /\ phase[r] = "new" /\ phase' = [phase EXCEPT ![r] = "live"]
      /\ left' = [left EXCEPT ![r] = chunks]
      /\ UNCHANGED <<core, batch, ran, called, runs, timed, taken, payload, dropped, passed>>
      /\ registry' = [registry EXCEPT ![r] = IF registry[r].there THEN registry[r]
                                                                 ELSE NewRecord]
  BY DEF AddRequest
<1>2. registry' = [registry EXCEPT ![r] = NewRecord]
  BY <1>0, <1>1 DEF RecordsFollowRequests
<1>3. /\ NewRecord \in Rec /\ NewRecord.there
      /\ NewRecord.first = 0 /\ NewRecord.schedule_steps = 0
      /\ NewRecord.prefill_chunks = 0 /\ NewRecord.decode_steps = 0
      /\ NewRecord.execute_steps = 0 /\ NewRecord.contention_steps = 0
      /\ ~NewRecord.prefill_done
  BY DEF NewRecord, NoRecord, Rec
<1>4. \A q \in Requests : /\ Scheduling(q)' = Scheduling(q)
                          /\ Executed(q)' = Executed(q)
                          /\ MeasuredIn(q)' = MeasuredIn(q)
  BY <1>1 DEF Scheduling, Executed, MeasuredIn
<1>5. \A q \in Requests : /\ registry'[q] = IF q = r THEN NewRecord ELSE registry[q]
                          /\ phase'[q] = IF q = r THEN "live" ELSE phase[q]
                          /\ left'[q] = IF q = r THEN chunks ELSE left[q]
  <2>1. DOMAIN registry = Requests /\ DOMAIN phase = Requests /\ DOMAIN left = Requests
    BY <1>0 DEF Typed
  <2> TAKE q \in Requests
  <2>2. registry'[q] = IF q = r THEN NewRecord ELSE registry[q]
    BY <1>2, <2>1
  <2>3. phase'[q] = IF q = r THEN "live" ELSE phase[q]
    BY <1>1, <2>1
  <2>4. left'[q] = IF q = r THEN chunks ELSE left[q]
    BY <1>1, <2>1
  <2> QED
    BY <2>2, <2>3, <2>4
<1>6. Typed'
  BY <1>0, <1>1, <1>2, <1>3 DEF Typed
<1>7. Executor'
  BY <1>0, <1>1 DEF Executor
<1>8. Lifetimes' /\ RecordsFollowRequests'
  BY <1>0, <1>1, <1>3, <1>4, <1>5 DEF Lifetimes, RecordsFollowRequests
<1>9. Scheduling(r) = {} /\ Cardinality(Scheduling(r)) = 0 /\ passed[r] = 0
      /\ Executed(r) = {} /\ Cardinality(Executed(r)) = 0
  BY <1>0, <1>1, FS_EmptySet DEF Lifetimes, Executed, MeasuredIn
<1>10. Counted'
  <2>1. Len(batch) \in Nat
    BY <1>0 DEF Typed
  <2> QED
    <3> SUFFICES ASSUME NEW q \in Requests
                 PROVE  /\ registry'[q].there =>
                             Counts(registry'[q], Cardinality(Scheduling(q)'), Len(batch'))
                        /\ payload'[q].there =>
                             Counts(payload'[q], Cardinality(Scheduling(q)'), Len(batch'))
      BY DEF Counted, Counts
    <3>1. CASE q = r
      <4>1. ~payload'[q].there
        BY <1>0, <1>1, <3>1 DEF RecordsFollowRequests
      <4>2. registry'[q] = NewRecord /\ Scheduling(q)' = {} /\ batch' = batch
            /\ Cardinality(Scheduling(q)') = 0
        BY <1>1, <1>4, <1>5, <1>9, <3>1
      <4> QED
        BY <1>3, <2>1, <4>1, <4>2 DEF Counts
    <3>2. CASE q # r
      <4>1. registry'[q] = registry[q] /\ payload' = payload
            /\ Scheduling(q)' = Scheduling(q) /\ batch' = batch
        BY <1>1, <1>4, <1>5, <3>2
      <4> QED
        BY <1>0, <4>1 DEF Counted
    <3> QED
      BY <3>1, <3>2
<1>11. ExecutionAccounted'
  <2>1. \A q \in Requests :
          /\ registry'[q].there => registry'[q].execute_steps = Cardinality(Executed(q)')
          /\ payload'[q].there =>
               payload'[q].execute_steps \in {Cardinality(MeasuredIn(q)'),
                                              Cardinality(MeasuredIn(q)') - 1}
    <3> TAKE q \in Requests
    <3>1. /\ Executed(q)' = Executed(q) /\ MeasuredIn(q)' = MeasuredIn(q)
          /\ payload'[q] = payload[q]
      BY <1>1, <1>4
    <3>2. CASE q = r
      <4>1. ~payload'[q].there
        BY <1>0, <1>1, <3>2 DEF RecordsFollowRequests
      <4>2. registry'[q] = NewRecord /\ Cardinality(Executed(q)') = 0
        BY <1>5, <1>9, <3>1, <3>2
      <4> QED
        BY <1>3, <4>1, <4>2
    <3>3. CASE q # r
      BY <1>0, <1>5, <3>1, <3>3, AccountedMeaning
    <3> QED
      BY <3>2, <3>3
  <2> QED
    BY <2>1 DEF ExecutionAccounted, MeasuredIn, Executed
<1>12. ContentionExact'
  BY <1>0, <1>1, <1>3, <1>5, <1>9 DEF ContentionExact, Live
<1> QED
  BY <1>6, <1>7, <1>8, <1>10, <1>11, <1>12 DEF IInv

LEMMA AbortIInv ==
  ASSUME IInv, NEW r \in Requests, Abort(r)
  PROVE  IInv'
<1> USE DEF vllm, exec
<1>0. /\ Typed /\ Executor /\ Lifetimes /\ RecordsFollowRequests /\ Counted
      /\ ExecutionAccounted /\ ContentionExact
  BY DEF IInv
<1>1. /\ phase[r] = "live" /\ phase' = [phase EXCEPT ![r] = "aborted"]
      /\ UNCHANGED <<left, core, batch, ran, called, runs, timed, taken, registry,
                     payload, dropped, passed>>
  BY DEF Abort, Live
<1>2. \A q \in Requests : Scheduling(q)' = Scheduling(q)
  BY <1>1 DEF Scheduling
<1>3. \A q \in Requests : phase'[q] = IF q = r THEN "aborted" ELSE phase[q]
  BY <1>0, <1>1 DEF Typed
<1>4. Typed' /\ Executor'
  BY <1>0, <1>1 DEF Typed, Executor
<1>5. Lifetimes' /\ RecordsFollowRequests'
  BY <1>0, <1>1, <1>2, <1>3 DEF Lifetimes, RecordsFollowRequests
<1>6. Counted' /\ ExecutionAccounted'
  BY <1>0, <1>1, <1>2 DEF Counted, Counts, ExecutionAccounted
<1>7. ContentionExact'
  BY <1>0, <1>1, <1>3 DEF ContentionExact, Live
<1> QED
  BY <1>4, <1>5, <1>6, <1>7 DEF IInv

(* What the observer makes of a record when a batch is scheduled. *)
LEMMA ScheduledFacts ==
  ASSUME NEW rec \in Rec, NEW token, Len(batch) \in Nat
  PROVE  /\ Scheduled(rec, token) \in Rec
         /\ Scheduled(rec, token).there = rec.there
         /\ Scheduled(rec, token).first = IF rec.first = 0 THEN Len(batch) + 1
                                                           ELSE rec.first
         /\ Scheduled(rec, token).schedule_steps = rec.schedule_steps + 1
         /\ Scheduled(rec, token).prefill_chunks + Scheduled(rec, token).decode_steps
              = rec.prefill_chunks + rec.decode_steps + 1
         /\ Scheduled(rec, token).execute_steps = rec.execute_steps
         /\ Scheduled(rec, token).contention_steps = rec.contention_steps
         /\ ~Scheduled(rec, token).prefill_done => ~rec.prefill_done
<1> DEFINE f     == IF rec.first = 0 THEN Len(batch) + 1 ELSE rec.first
           begun == [rec EXCEPT !.first = f, !.schedule_steps = rec.schedule_steps + 1]
<1>0. /\ rec.there \in BOOLEAN /\ rec.first \in Nat /\ rec.schedule_steps \in Nat
      /\ rec.prefill_chunks \in Nat /\ rec.decode_steps \in Nat
      /\ rec.execute_steps \in Nat /\ rec.contention_steps \in Nat
      /\ rec.prefill_done \in BOOLEAN
  BY DEF Rec
<1>1. f \in Nat /\ rec.schedule_steps + 1 \in Nat
  BY <1>0
<1>2. Scheduled(rec, token) = IF token = "many" THEN Chunk(begun) ELSE Decode(begun)
  BY DEF Scheduled
<1> HIDE DEF f
<1>3. begun \in Rec
  BY <1>1 DEF Rec
<1>4. /\ begun.there = rec.there /\ begun.first = f
      /\ begun.schedule_steps = rec.schedule_steps + 1
      /\ begun.prefill_chunks = rec.prefill_chunks
      /\ begun.decode_steps = rec.decode_steps
      /\ begun.execute_steps = rec.execute_steps
      /\ begun.contention_steps = rec.contention_steps
      /\ begun.prefill_done = rec.prefill_done
  BY DEF Rec
<1> HIDE DEF begun
<1>5. CASE token = "many"
  <2> DEFINE new == [begun EXCEPT !.prefill_chunks = begun.prefill_chunks + 1]
  <2>1. Scheduled(rec, token) = new
    BY <1>2, <1>5 DEF Chunk
  <2>2. new \in Rec
    <3>1. begun.prefill_chunks + 1 \in Nat
      BY <1>0, <1>4
    <3> QED
      BY <1>3, <3>1 DEF Rec
  <2>3. /\ new.there = begun.there /\ new.first = begun.first
        /\ new.schedule_steps = begun.schedule_steps
        /\ new.prefill_chunks = begun.prefill_chunks + 1
        /\ new.decode_steps = begun.decode_steps
        /\ new.execute_steps = begun.execute_steps
        /\ new.contention_steps = begun.contention_steps
        /\ new.prefill_done = begun.prefill_done
    BY <1>3 DEF Rec
  <2> HIDE DEF new
  <2> QED
    BY <1>0, <1>4, <2>1, <2>2, <2>3 DEF f
<1>6. CASE token # "many"
  <2> DEFINE new == [begun EXCEPT !.decode_steps = begun.decode_steps + 1,
                                  !.prefill_done = TRUE]
  <2>1. Scheduled(rec, token) = new
    BY <1>2, <1>6 DEF Decode
  <2>2. new \in Rec
    <3>1. begun.decode_steps + 1 \in Nat
      BY <1>0, <1>4
    <3> QED
      BY <1>3, <3>1 DEF Rec
  <2>3. /\ new.there = begun.there /\ new.first = begun.first
        /\ new.schedule_steps = begun.schedule_steps
        /\ new.prefill_chunks = begun.prefill_chunks
        /\ new.decode_steps = begun.decode_steps + 1
        /\ new.execute_steps = begun.execute_steps
        /\ new.contention_steps = begun.contention_steps
        /\ new.prefill_done
    BY <1>3 DEF Rec
  <2> HIDE DEF new
  <2> QED
    BY <1>0, <1>4, <2>1, <2>2, <2>3 DEF f
<1> QED
  BY <1>5, <1>6

LEMMA PassedOverFacts ==
  ASSUME NEW rec \in Rec
  PROVE  /\ PassedOver(rec) \in Rec
         /\ PassedOver(rec).there = rec.there /\ PassedOver(rec).first = rec.first
         /\ PassedOver(rec).schedule_steps = rec.schedule_steps
         /\ PassedOver(rec).prefill_chunks = rec.prefill_chunks
         /\ PassedOver(rec).decode_steps = rec.decode_steps
         /\ PassedOver(rec).execute_steps = rec.execute_steps
         /\ PassedOver(rec).prefill_done = rec.prefill_done
         /\ PassedOver(rec).contention_steps =
              IF rec.first # 0 /\ ~rec.prefill_done THEN rec.contention_steps + 1
                                                    ELSE rec.contention_steps
  BY DEF PassedOver, Contended, Rec

(* One batch more: without the request, with it, and past it. *)
LEMMA LaterCounts ==
  ASSUME NEW rec \in Rec, NEW mine \in Nat, NEW all \in Nat, Counts(rec, mine, all)
  PROVE  Counts(rec, mine, all + 1)
  BY DEF Counts, Rec

LEMMA ScheduledCounts ==
  ASSUME NEW rec \in Rec, NEW token, NEW mine \in Nat, Len(batch) \in Nat,
         Counts(rec, mine, Len(batch))
  PROVE  Counts(Scheduled(rec, token), mine + 1, Len(batch) + 1)
<1> DEFINE new == Scheduled(rec, token)
<1>1. /\ new \in Rec
      /\ new.first = IF rec.first = 0 THEN Len(batch) + 1 ELSE rec.first
      /\ new.schedule_steps = rec.schedule_steps + 1
      /\ new.prefill_chunks + new.decode_steps = rec.prefill_chunks + rec.decode_steps + 1
      /\ new.contention_steps = rec.contention_steps
  BY ScheduledFacts
<1> HIDE DEF new
<1>2. /\ rec.first \in Nat /\ rec.schedule_steps \in Nat /\ rec.contention_steps \in Nat
      /\ rec.prefill_chunks \in Nat /\ rec.decode_steps \in Nat
  BY DEF Rec
<1>3. /\ new.schedule_steps = mine + 1
      /\ new.first # 0
      /\ new.prefill_chunks + new.decode_steps = mine + 1
  BY <1>1, <1>2 DEF Counts
<1>4. Counts(new, mine + 1, Len(batch) + 1)
  BY <1>1, <1>2, <1>3 DEF Counts
<1> QED
  BY <1>4 DEF new

LEMMA PassedOverCounts ==
  ASSUME NEW rec \in Rec, NEW mine \in Nat, NEW all \in Nat, Counts(rec, mine, all)
  PROVE  Counts(PassedOver(rec), mine, all + 1)
<1> DEFINE new == PassedOver(rec)
<1>1. /\ new.first = rec.first /\ new.schedule_steps = rec.schedule_steps
      /\ new.prefill_chunks = rec.prefill_chunks /\ new.decode_steps = rec.decode_steps
      /\ new.contention_steps = IF rec.first # 0 /\ ~rec.prefill_done
                                THEN rec.contention_steps + 1 ELSE rec.contention_steps
  BY PassedOverFacts
<1> HIDE DEF new
<1>2. /\ rec.first \in Nat /\ rec.schedule_steps \in Nat /\ rec.contention_steps \in Nat
      /\ rec.prefill_chunks \in Nat /\ rec.decode_steps \in Nat
  BY DEF Rec
<1>3. Counts(new, mine, all + 1)
  BY <1>1, <1>2 DEF Counts
<1> QED
  BY <1>3 DEF new

LEMMA ScheduleIInv ==
  ASSUME IInv, NEW expired \in SUBSET Requests, NEW tokens \in Tokens,
         Schedule(expired, tokens)
  PROVE  IInv'
<1> USE DEF vllm, exec
<1> DEFINE n   == Len(batch) + 1
           ids == {r \in Requests : tokens[r] # "none"}
<1>0. /\ Typed /\ Executor /\ Lifetimes /\ RecordsFollowRequests /\ Counted
      /\ ExecutionAccounted /\ ContentionExact
  BY DEF IInv
<1>1. /\ core = "idle" /\ core' = "execute" /\ Len(batch) < MaxBatches
      /\ UNCHANGED <<ran, called, runs, timed, taken, payload>>
      /\ expired \subseteq Live
      /\ phase' = [r \in Requests |-> IF r \in expired THEN "aborted" ELSE phase[r]]
      /\ batch' = Append(batch, ids)
      /\ registry' = [r \in Requests |-> Observed(tokens, r)]
      /\ \A r \in ids : r \in Live \ expired
  BY DEF Schedule, DropExpired, Schedulable
<1>2. left' = [r \in Requests |-> IF r \in ids /\ left[r] > 0 THEN left[r] - 1 ELSE left[r]]
  BY DEF Schedule
<1>3. passed' = [r \in Requests |->
                   IF /\ ids # {} /\ r \in Live \ (ids \cup expired) /\ MidPrefill(r)
                   THEN passed[r] + 1 ELSE passed[r]]
  BY DEF Schedule
<1>4. /\ Len(batch) \in Nat /\ batch \in Seq(SUBSET Requests)
      /\ registry \in [Requests -> Rec] /\ left \in [Requests -> 0..MaxChunks]
      /\ passed \in [Requests -> Nat] /\ payload \in [Requests -> Rec]
  BY <1>0 DEF Typed
<1>5. /\ batch' \in Seq(SUBSET Requests) /\ Len(batch') = n
      /\ \A i \in 1..Len(batch) : batch'[i] = batch[i]
      /\ batch'[n] = ids
  <2>1. ids \in SUBSET Requests
    OBVIOUS
  <2> HIDE DEF ids
  <2> QED
    BY <1>1, <1>4, <2>1, AppendFacts
<1>6. n \in Nat \ {0} /\ 1..Len(batch') = 1..Len(batch) \cup {n} /\ n \notin 1..Len(batch)
  BY <1>4, <1>5
<1> HIDE DEF n, ids
<1>7. ASSUME NEW r \in Requests
      PROVE  /\ Scheduling(r)' = IF r \in ids THEN Scheduling(r) \cup {n} ELSE Scheduling(r)
             /\ n \notin Scheduling(r)
  BY <1>5, <1>6 DEF Scheduling
<1>8. ASSUME NEW r \in Requests
      PROVE  Cardinality(Scheduling(r)') = IF r \in ids THEN Cardinality(Scheduling(r)) + 1
                                                        ELSE Cardinality(Scheduling(r))
  <2>1. IsFiniteSet(Scheduling(r))
    BY <1>0, SchedulingFacts
  <2> QED
    BY <1>7, <2>1, FS_AddElement
<1>9. ASSUME NEW r \in Requests
      PROVE  /\ registry[r] \in Rec
             /\ registry'[r] = Observed(tokens, r)
             /\ registry'[r] \in Rec
             /\ registry'[r].there = registry[r].there
             /\ registry'[r].execute_steps = registry[r].execute_steps
  BY <1>1, <1>4, ScheduledFacts, PassedOverFacts DEF Observed
<1>10. Typed'
  <2>1. phase' \in [Requests -> {"new", "live", "finished", "aborted"}]
    BY <1>0, <1>1 DEF Typed
  <2>2. left' \in [Requests -> 0..MaxChunks]
    BY <1>2, <1>4
  <2>3. passed' \in [Requests -> Nat]
    BY <1>3, <1>4
  <2>4. registry' \in [Requests -> Rec]
    BY <1>1, <1>9
  <2> QED
    BY <1>0, <1>1, <1>5, <2>1, <2>2, <2>3, <2>4 DEF Typed
<1>11. /\ \A k \in timed : k <= Len(batch)
       /\ n \in 1..MaxBatches /\ n \notin timed /\ runs[n] = 0
  BY <1>0, <1>1, <1>4, <1>6 DEF Executor, Typed, n
<1>12. Executor'
  BY <1>0, <1>1, <1>4, <1>5, <1>11 DEF Executor, Typed, n
<1>13. Lifetimes'
  <2> SUFFICES ASSUME NEW r \in Requests
               PROVE  /\ phase'[r] = "new" => Scheduling(r)' = {} /\ passed'[r] = 0
                      /\ phase'[r] = "finished" => \A k \in Scheduling(r)' : k <= taken'
    BY DEF Lifetimes
  <2>1. ASSUME phase'[r] \in {"new", "finished"}
        PROVE  phase[r] = phase'[r] /\ r \notin Live /\ r \notin ids
    BY <1>1, <2>1 DEF Live
  <2> QED
    BY <1>0, <1>1, <1>3, <1>7, <2>1 DEF Lifetimes
<1>14. RecordsFollowRequests'
  BY <1>0, <1>1, <1>9 DEF RecordsFollowRequests, Live
<1>15. Counted'
  <2> SUFFICES ASSUME NEW r \in Requests
               PROVE  /\ registry'[r].there =>
                           Counts(registry'[r], Cardinality(Scheduling(r)'), Len(batch'))
                      /\ payload'[r].there =>
                           Counts(payload'[r], Cardinality(Scheduling(r)'), Len(batch'))
    BY DEF Counted, Counts
  <2>0. /\ registry[r] \in Rec /\ payload[r] \in Rec
        /\ Cardinality(Scheduling(r)) \in Nat /\ Cardinality(Scheduling(r)) <= Len(batch)
    BY <1>0, <1>4, SchedulingFacts
  <2>1. payload[r].there => r \notin ids
    BY <1>0, <1>1 DEF RecordsFollowRequests, Live
  <2>2. ASSUME payload'[r].there
        PROVE  Counts(payload'[r], Cardinality(Scheduling(r)'), Len(batch'))
    <3>1. /\ payload'[r] = payload[r]
          /\ Counts(payload[r], Cardinality(Scheduling(r)), Len(batch))
          /\ Cardinality(Scheduling(r)') = Cardinality(Scheduling(r))
      BY <1>0, <1>1, <1>8, <2>1, <2>2 DEF Counted
    <3>2. Len(batch') = Len(batch) + 1
      BY <1>5 DEF n
    <3> QED
      BY <1>4, <2>0, <3>1, <3>2, LaterCounts
  <2>3. ASSUME registry'[r].there
        PROVE  Counts(registry'[r], Cardinality(Scheduling(r)'), Len(batch'))
    <3>1. /\ registry[r].there
          /\ Counts(registry[r], Cardinality(Scheduling(r)), Len(batch))
          /\ Len(batch') = Len(batch) + 1
      BY <1>0, <1>5, <1>9, <2>3 DEF Counted, n
    <3>2. CASE r \in ids
      <4>1. registry'[r] = Scheduled(registry[r], tokens[r])
        BY <1>9, <3>1, <3>2 DEF Observed, ids
      <4>2. Cardinality(Scheduling(r)') = Cardinality(Scheduling(r)) + 1
        BY <1>8, <3>2
      <4> QED
        BY <1>4, <2>0, <3>1, <4>1, <4>2, ScheduledCounts
    <3>3. CASE r \notin ids
      <4>1. registry'[r] \in {registry[r], PassedOver(registry[r])}
        BY <1>9, <3>1, <3>3 DEF Observed, ids
      <4>2. Cardinality(Scheduling(r)') = Cardinality(Scheduling(r))
        BY <1>8, <3>3
      <4> QED
        BY <1>4, <2>0, <3>1, <4>1, <4>2, LaterCounts, PassedOverCounts
    <3> QED
      BY <3>2, <3>3
  <2> QED
    BY <2>2, <2>3
<1>16. ExecutionAccounted'
  <2>1. \A r \in Requests : MeasuredIn(r)' = MeasuredIn(r) /\ Executed(r)' = Executed(r)
    BY <1>1, <1>7, <1>11 DEF MeasuredIn, Executed
  <2>2. \A r \in Requests :
          /\ registry'[r].there => registry'[r].execute_steps = Cardinality(Executed(r)')
          /\ payload'[r].there =>
               payload'[r].execute_steps \in {Cardinality(MeasuredIn(r)'),
                                              Cardinality(MeasuredIn(r)') - 1}
    BY <1>0, <1>1, <1>9, <2>1, AccountedMeaning
  <2> QED
    BY <2>2 DEF ExecutionAccounted, MeasuredIn, Executed
<1>17. ContentionExact'
  <2> SUFFICES ASSUME NEW r \in Requests, phase'[r] = "live", left'[r] > 0,
                      ~registry'[r].prefill_done
               PROVE  registry'[r].contention_steps = passed'[r]
    BY DEF ContentionExact, Live
  <2>1. /\ r \in Live /\ r \notin expired /\ left[r] > 0 /\ left[r] \in Nat
        /\ registry[r].there /\ registry[r] \in Rec /\ passed[r] \in Nat
    BY <1>0, <1>1, <1>2, <1>4 DEF Live, RecordsFollowRequests
  <2>2. CASE r \in ids
    <3>1. registry'[r] = Scheduled(registry[r], tokens[r]) /\ passed'[r] = passed[r]
      BY <1>3, <1>9, <2>1, <2>2 DEF Observed, ids
    <3> QED
      BY <1>0, <1>4, <2>1, <3>1, ScheduledFacts DEF ContentionExact
  <2>3. CASE r \notin ids /\ ids = {}
    <3>1. registry'[r] = registry[r] /\ passed'[r] = passed[r]
      BY <1>3, <1>9, <2>1, <2>3 DEF Observed, ids
    <3> QED
      BY <1>0, <2>1, <3>1 DEF ContentionExact
  <2>4. CASE r \notin ids /\ ids # {}
    <3>1. registry'[r] = PassedOver(registry[r])
      BY <1>9, <2>1, <2>4 DEF Observed, ids
    <3>2. passed'[r] = IF registry[r].first # 0 THEN passed[r] + 1 ELSE passed[r]
      BY <1>3, <2>1, <2>4 DEF MidPrefill
    <3> QED
      BY <1>0, <2>1, <3>1, <3>2, PassedOverFacts DEF ContentionExact
  <2> QED
    BY <2>2, <2>3, <2>4
<1> QED
  BY <1>10, <1>12, <1>13, <1>14, <1>15, <1>16, <1>17 DEF IInv

(* What an execution changes in a record. *)
LEMMA MeasuredFacts ==
  ASSUME NEW rec \in Rec
  PROVE  /\ Measured(rec) \in Rec
         /\ Measured(rec).there = rec.there
         /\ Measured(rec).execute_steps = rec.execute_steps + 1
         /\ Measured(rec).contention_steps = rec.contention_steps
         /\ Measured(rec).prefill_done = rec.prefill_done
         /\ \A mine, all : Counts(rec, mine, all) => Counts(Measured(rec), mine, all)
<1>1. rec.execute_steps + 1 \in Nat
  BY DEF Rec
<1> DEFINE new == [rec EXCEPT !.execute_steps = rec.execute_steps + 1]
<1>2. new \in Rec
  BY <1>1 DEF Rec
<1>3. /\ new.there = rec.there /\ new.first = rec.first
      /\ new.schedule_steps = rec.schedule_steps
      /\ new.prefill_chunks = rec.prefill_chunks /\ new.decode_steps = rec.decode_steps
      /\ new.execute_steps = rec.execute_steps + 1
      /\ new.contention_steps = rec.contention_steps
      /\ new.prefill_done = rec.prefill_done
  BY DEF Rec
<1>4. Measured(rec) = new
  BY DEF Measured
<1> HIDE DEF new
<1> QED
  BY <1>2, <1>3, <1>4 DEF Counts

(* The callback of batch k runs: everything but the executions counted is  *)
(* kept.                                                                   *)
LEMMA RecordedFacts ==
  ASSUME Typed, NEW k \in 1..Len(batch), registry' = Recorded(k)
  PROVE  /\ registry' \in [Requests -> Rec]
         /\ \A r \in Requests :
              /\ registry'[r].there = registry[r].there
              /\ registry'[r].contention_steps = registry[r].contention_steps
              /\ registry'[r].prefill_done = registry[r].prefill_done
              /\ registry'[r].execute_steps =
                   IF r \in batch[k] /\ registry[r].there
                   THEN registry[r].execute_steps + 1 ELSE registry[r].execute_steps
              /\ \A mine, all : Counts(registry[r], mine, all)
                                  => Counts(registry'[r], mine, all)
<1>1. registry \in [Requests -> Rec]
  BY DEF Typed
<1>2. \A r \in Requests : registry'[r] = IF r \in batch[k] /\ registry[r].there
                                         THEN Measured(registry[r]) ELSE registry[r]
  BY DEF Recorded
<1>3. registry' \in [Requests -> Rec]
  <2>1. \A r \in Requests : (IF r \in batch[k] /\ registry[r].there
                             THEN Measured(registry[r]) ELSE registry[r]) \in Rec
    BY <1>1, MeasuredFacts
  <2> QED
    BY <2>1 DEF Recorded
<1> QED
  BY <1>1, <1>2, <1>3, MeasuredFacts

(* The sets of batches when batch k, measured, has had its callback. *)
LEMMA ExecutedGrows ==
  ASSUME Typed, NEW r \in Requests, NEW k \in 1..Len(batch), k = called + 1,
         batch' = batch, timed \subseteq timed',
         \A i \in timed' : i \in timed \/ i > called, called' = k
  PROVE  Cardinality(Executed(r)') =
           IF r \in batch[k] /\ k \in timed' THEN Cardinality(Executed(r)) + 1
                                             ELSE Cardinality(Executed(r))
<1>1. called \in Nat /\ Len(batch) \in Nat /\ timed \subseteq 1..MaxBatches
      /\ Scheduling(r)' = Scheduling(r) /\ Scheduling(r) \subseteq 1..Len(batch)
      /\ IsFiniteSet(Executed(r)) /\ k \notin Executed(r)
  <2>1. called \in Nat /\ timed \subseteq 1..MaxBatches
    BY DEF Typed
  <2>2. Scheduling(r)' = Scheduling(r)
    BY DEF Scheduling
  <2>3. k \notin Executed(r)
    BY <2>1 DEF Executed
  <2> QED
    BY <2>1, <2>2, <2>3, SchedulingFacts
<1>2. k \in Scheduling(r) <=> r \in batch[k]
  BY DEF Scheduling
<1>3. \A i \in Scheduling(r) : i \in timed' /\ i <= k <=>
                               (i \in timed /\ i <= called) \/ (i = k /\ k \in timed')
  BY <1>1
<1>4. Executed(r)' = {i \in Scheduling(r) : i \in timed' /\ i <= k}
  BY <1>1 DEF Executed, MeasuredIn
<1>5. CASE r \in batch[k] /\ k \in timed'
  <2>1. Executed(r)' = Executed(r) \cup {k}
    BY <1>2, <1>3, <1>4, <1>5 DEF Executed, MeasuredIn
  <2> QED
    BY <1>1, <1>5, <2>1, FS_AddElement
<1>6. CASE ~(r \in batch[k] /\ k \in timed')
  <2>1. Executed(r)' = Executed(r)
    BY <1>2, <1>3, <1>4, <1>6 DEF Executed, MeasuredIn
  <2> QED
    BY <1>6, <2>1
<1> QED
  BY <1>5, <1>6

(* The execution of the batch just scheduled: a future, or the result. *)
LEMMA ExecuteIInv ==
  ASSUME IInv, NEW returns \in Returns, Execute(returns)
  PROVE  IInv'
<1> USE DEF vllm, exec
<1> DEFINE n == Len(batch)
<1>0. /\ Typed /\ Executor /\ Lifetimes /\ RecordsFollowRequests /\ Counted
      /\ ExecutionAccounted /\ ContentionExact
  BY DEF IInv
<1>1. /\ core = "execute" /\ core' = "idle"
      /\ returns = "result" => called = n - 1
      /\ runs' = [runs EXCEPT ![n] = runs[n] + 1]
      /\ timed' = IF returns = "unmeasured" THEN timed ELSE timed \cup {n}
      /\ returns = "result" => ran' = n /\ called' = n /\ registry' = Recorded(n)
      /\ returns # "result" => ran' = ran /\ called' = called /\ registry' = registry
      /\ UNCHANGED <<phase, left, batch, taken, payload, dropped, passed>>
  BY DEF Execute, Current, Timing
<1>2. /\ n \in 1..MaxBatches /\ n \in Nat /\ n \notin timed /\ ran < n /\ runs[n] = 0
      /\ taken <= ran /\ called <= ran /\ ran <= called + 1
      /\ ran \in Nat /\ called \in Nat /\ taken \in Nat
      /\ registry \in [Requests -> Rec]
  BY <1>0, <1>1 DEF Executor, Typed
<1>3. /\ \A r \in Requests : Scheduling(r)' = Scheduling(r)
      /\ Len(batch') = n
  BY <1>1 DEF Scheduling
<1> HIDE DEF n
<1>4. /\ registry' \in [Requests -> Rec]
      /\ \A r \in Requests :
           /\ registry'[r].there = registry[r].there
           /\ registry'[r].contention_steps = registry[r].contention_steps
           /\ registry'[r].prefill_done = registry[r].prefill_done
           /\ \A mine, all : Counts(registry[r], mine, all)
                               => Counts(registry'[r], mine, all)
  BY <1>0, <1>1, <1>2, RecordedFacts DEF n
<1>5. Typed'
  <2>1. runs' \in [1..MaxBatches -> Nat] /\ timed' \subseteq 1..MaxBatches
    BY <1>0, <1>1, <1>2 DEF Typed
  <2>2. ran' \in Nat /\ called' \in Nat
    BY <1>1, <1>2
  <2> QED
    BY <1>0, <1>1, <1>4, <2>1, <2>2 DEF Typed
<1>6. Executor'
  <2>1. \A k \in 1..MaxBatches : k > n => runs'[k] = 0 /\ k \notin timed'
    <3> TAKE k \in 1..MaxBatches
    <3>1. k > n => k # n
      BY <1>2
    <3> QED
      BY <1>0, <1>1, <1>2, <3>1 DEF Executor, Typed, n
  <2> QED
    BY <1>0, <1>1, <1>2, <1>3, <2>1 DEF Executor, n
<1>7. Lifetimes'
  BY <1>0, <1>1, <1>3 DEF Lifetimes
<1>8. RecordsFollowRequests'
  BY <1>0, <1>1, <1>4 DEF RecordsFollowRequests
<1>9. Counted'
  BY <1>0, <1>1, <1>3, <1>4 DEF Counted, Counts, n
<1>10. ContentionExact'
  BY <1>0, <1>1, <1>4 DEF ContentionExact, Live
<1>11. ExecutionAccounted'
  <2> SUFFICES ASSUME NEW r \in Requests
               PROVE  /\ registry'[r].there =>
                           registry'[r].execute_steps = Cardinality(Executed(r)')
                      /\ payload'[r].there =>
                           payload'[r].execute_steps \in {Cardinality(MeasuredIn(r)'),
                                                          Cardinality(MeasuredIn(r)') - 1}
    BY DEF ExecutionAccounted, MeasuredIn, Executed
  <2>1. ASSUME payload[r].there
        PROVE  MeasuredIn(r)' = MeasuredIn(r)
    <3>1. n \notin Scheduling(r)
      BY <1>0, <1>2, <2>1 DEF RecordsFollowRequests, Lifetimes
    <3> QED
      BY <1>1, <1>3, <3>1 DEF MeasuredIn
  <2>2. CASE returns # "result"
    <3>1. Executed(r)' = Executed(r)
      BY <1>1, <1>2, <1>3, <2>2 DEF Executed, MeasuredIn
    <3> QED
      BY <1>0, <1>1, <2>1, <2>2, <3>1, AccountedMeaning
  <2>3. CASE returns = "result"
    <3>0. /\ n = called + 1 /\ called' = n /\ timed \subseteq timed' /\ n \in timed'
          /\ \A i \in timed' : i \in timed \/ i > called
          /\ n \in 1..Len(batch) /\ batch' = batch /\ registry' = Recorded(n)
      BY <1>1, <1>2, <2>3 DEF n
    <3>1. Cardinality(Executed(r)') = IF r \in batch[n] THEN Cardinality(Executed(r)) + 1
                                                        ELSE Cardinality(Executed(r))
      BY <1>0, <3>0, ExecutedGrows
    <3>2. registry[r].there => registry'[r].execute_steps =
                                 IF r \in batch[n] THEN registry[r].execute_steps + 1
                                                   ELSE registry[r].execute_steps
      BY <1>0, <3>0, RecordedFacts
    <3> QED
      BY <1>0, <1>1, <1>4, <2>1, <3>1, <3>2, AccountedMeaning
  <2> QED
    BY <2>2, <2>3
<1> QED
  BY <1>5, <1>6, <1>7, <1>8, <1>9, <1>10, <1>11 DEF IInv

(* The steps of the executor that count nothing. *)
LEMMA UncountedIInv ==
  ASSUME IInv, Run \/ \E again \in BOOLEAN : ExecuteRaises(again)
  PROVE  IInv'
<1> USE DEF vllm, exec
<1>0. /\ Typed /\ Executor /\ Lifetimes /\ RecordsFollowRequests /\ Counted
      /\ ExecutionAccounted /\ ContentionExact
  BY DEF IInv
<1>1. UNCHANGED <<phase, left, batch, called, timed, taken, registry, payload, dropped,
                  passed>>
  BY DEF Run, ExecuteRaises
<1>2. \A r \in Requests : /\ Scheduling(r)' = Scheduling(r)
                          /\ Executed(r)' = Executed(r)
                          /\ MeasuredIn(r)' = MeasuredIn(r)
  BY <1>1 DEF Scheduling, Executed, MeasuredIn
<1>3. Lifetimes' /\ RecordsFollowRequests' /\ Counted'
  BY <1>0, <1>1, <1>2 DEF Lifetimes, RecordsFollowRequests, Counted, Counts
<1>4. ExecutionAccounted' /\ ContentionExact'
  BY <1>0, <1>1, <1>2 DEF ExecutionAccounted, ContentionExact, Live
<1>5. CASE Run
  <2>1. /\ called = ran /\ ran < Len(batch) /\ runs[ran + 1] > 0 /\ ran' = ran + 1
        /\ UNCHANGED <<core, runs>>
    BY <1>5 DEF Run
  <2>2. ran \in Nat /\ Len(batch) \in Nat
    BY <1>0 DEF Typed
  <2>3. Typed' /\ Executor'
    BY <1>0, <1>1, <2>1, <2>2 DEF Typed, Executor
  <2> QED
    BY <1>3, <1>4, <2>3 DEF IInv
<1>6. CASE \E again \in BOOLEAN : ExecuteRaises(again)
  <2>1. /\ core = "execute" /\ core' \in {"failed", "idle"} /\ ran' = ran
        /\ runs' = [runs EXCEPT ![Len(batch)] = runs[Len(batch)] + 2]
    BY <1>6 DEF ExecuteRaises, Current
  <2>2. Len(batch) \in Nat /\ Len(batch) \in 1..MaxBatches /\ runs \in [1..MaxBatches -> Nat]
    BY <1>0, <2>1 DEF Typed, Executor
  <2>3. Typed'
    BY <1>0, <1>1, <2>1, <2>2 DEF Typed
  <2>4. Executor'
    BY <1>0, <1>1, <2>1, <2>2 DEF Executor
  <2> QED
    BY <1>3, <1>4, <2>3, <2>4 DEF IInv
<1> QED
  BY <1>5, <1>6

(* The callback of the batch the executor has finished. *)
LEMMA CallbackIInv ==
  ASSUME IInv, Callback
  PROVE  IInv'
<1> USE DEF vllm, exec
<1>0. /\ Typed /\ Executor /\ Lifetimes /\ RecordsFollowRequests /\ Counted
      /\ ExecutionAccounted /\ ContentionExact
  BY DEF IInv
<1>1. /\ called < ran /\ called' = ran
      /\ registry' = IF ran \in timed THEN Recorded(ran) ELSE registry
      /\ UNCHANGED <<phase, left, core, batch, ran, runs, timed, taken, payload,
                     dropped, passed>>
  BY DEF Callback
<1>2. /\ ran \in Nat /\ called \in Nat /\ Len(batch) \in Nat
      /\ ran = called + 1 /\ ran \in 1..Len(batch)
      /\ registry \in [Requests -> Rec]
  BY <1>0, <1>1 DEF Typed, Executor
<1>3. \A r \in Requests : /\ Scheduling(r)' = Scheduling(r)
                          /\ MeasuredIn(r)' = MeasuredIn(r)
  BY <1>1 DEF Scheduling, MeasuredIn
<1>4. /\ registry' \in [Requests -> Rec]
      /\ \A r \in Requests :
           /\ registry'[r].there = registry[r].there
           /\ registry'[r].contention_steps = registry[r].contention_steps
           /\ registry'[r].prefill_done = registry[r].prefill_done
           /\ \A mine, all : Counts(registry[r], mine, all)
                               => Counts(registry'[r], mine, all)
  BY <1>0, <1>1, <1>2, RecordedFacts
<1>5. Typed' /\ Executor'
  BY <1>0, <1>1, <1>2, <1>4 DEF Typed, Executor
<1>6. Lifetimes' /\ RecordsFollowRequests'
  BY <1>0, <1>1, <1>3, <1>4 DEF Lifetimes, RecordsFollowRequests
<1>7. Counted'
  BY <1>0, <1>1, <1>3, <1>4 DEF Counted, Counts
<1>8. ContentionExact'
  BY <1>0, <1>1, <1>4 DEF ContentionExact, Live
<1>9. ExecutionAccounted'
  <2> SUFFICES ASSUME NEW r \in Requests
               PROVE  /\ registry'[r].there =>
                           registry'[r].execute_steps = Cardinality(Executed(r)')
                      /\ payload'[r].there =>
                           payload'[r].execute_steps \in {Cardinality(MeasuredIn(r)'),
                                                          Cardinality(MeasuredIn(r)') - 1}
    BY DEF ExecutionAccounted, MeasuredIn, Executed
  <2>1. Cardinality(Executed(r)') =
          IF r \in batch[ran] /\ ran \in timed THEN Cardinality(Executed(r)) + 1
                                               ELSE Cardinality(Executed(r))
    <3>1. /\ batch' = batch /\ timed' = timed /\ called' = ran
          /\ \A i \in timed' : i \in timed \/ i > called
      BY <1>1
    <3> QED
      BY <1>0, <1>2, <3>1, ExecutedGrows
  <2>2. registry[r].there => registry'[r].execute_steps =
          IF r \in batch[ran] /\ ran \in timed THEN registry[r].execute_steps + 1
                                               ELSE registry[r].execute_steps
    <3>1. CASE ran \in timed
      BY <1>0, <1>1, <1>2, <3>1, RecordedFacts
    <3>2. CASE ran \notin timed
      BY <1>1, <3>2
    <3> QED
      BY <3>1, <3>2
  <2>3. payload'[r] = payload[r]
    BY <1>1
  <2> QED
    BY <1>0, <1>3, <1>4, <2>1, <2>2, <2>3, AccountedMeaning
<1> QED
  BY <1>5, <1>6, <1>7, <1>8, <1>9 DEF IInv

(* The core thread takes a result: the requests that finish with it were   *)
(* in no later batch, so that at most the callback of this one is missing. *)
LEMMA StepIInv ==
  ASSUME IInv, NEW done \in SUBSET Requests, Step(done)
  PROVE  IInv'
<1> USE DEF vllm, exec
<1>0. /\ Typed /\ Executor /\ Lifetimes /\ RecordsFollowRequests /\ Counted
      /\ ExecutionAccounted /\ ContentionExact
  BY DEF IInv
<1>1. /\ taken < ran /\ taken' = taken + 1
      /\ \A r \in done : phase[r] = "live" /\ left[r] = 0
      /\ \A r \in done : \A n \in (taken + 2)..Len(batch) : r \notin batch[n]
      /\ phase' = [r \in Requests |-> IF r \in done THEN "finished" ELSE phase[r]]
      /\ payload' = [r \in Requests |-> IF r \in done THEN registry[r] ELSE payload[r]]
      /\ registry' = [r \in Requests |-> IF r \in done THEN NoRecord ELSE registry[r]]
      /\ UNCHANGED <<left, core, batch, ran, called, runs, timed, dropped, passed>>
  BY DEF Step, Live, Popped
<1>2. /\ ran \in Nat /\ called \in Nat /\ taken \in Nat /\ Len(batch) \in Nat
      /\ taken + 1 <= ran /\ ran <= called + 1
      /\ registry \in [Requests -> Rec] /\ payload \in [Requests -> Rec]
  BY <1>0, <1>1 DEF Typed, Executor
<1>3. \A r \in Requests : /\ Scheduling(r)' = Scheduling(r)
                          /\ MeasuredIn(r)' = MeasuredIn(r)
                          /\ Executed(r)' = Executed(r)
  BY <1>1 DEF Scheduling, MeasuredIn, Executed
<1>4. NoRecord \in Rec /\ ~NoRecord.there
  BY DEF NoRecord, Rec
<1>5. Typed'
  BY <1>0, <1>1, <1>2, <1>4 DEF Typed
<1>6. Executor'
  BY <1>0, <1>1, <1>2 DEF Executor
<1>7. \A r \in done : \A n \in Scheduling(r) : n <= taken + 1
  BY <1>1, <1>2 DEF Scheduling
<1>8. Lifetimes'
  <2> SUFFICES ASSUME NEW r \in Requests
               PROVE  /\ phase'[r] = "new" => Scheduling(r)' = {} /\ passed'[r] = 0
                      /\ phase'[r] = "finished" => \A k \in Scheduling(r)' : k <= taken'
    BY DEF Lifetimes
  <2>0. Scheduling(r) \subseteq 1..Len(batch)
    BY <1>0, SchedulingFacts
  <2>1. CASE r \in done
    BY <1>1, <1>3, <1>7, <2>1
  <2>2. CASE r \notin done
    <3>1. phase'[r] = phase[r] /\ Scheduling(r)' = Scheduling(r) /\ passed'[r] = passed[r]
      BY <1>1, <1>3, <2>2
    <3> QED
      BY <1>0, <1>1, <1>2, <2>0, <3>1 DEF Lifetimes
  <2> QED
    BY <2>1, <2>2
<1>9. RecordsFollowRequests'
  BY <1>0, <1>1, <1>4 DEF RecordsFollowRequests
<1>10. Counted'
  BY <1>0, <1>1, <1>3, <1>4 DEF Counted, Counts
<1>11. ContentionExact'
  BY <1>0, <1>1 DEF ContentionExact, Live
<1>12. ASSUME NEW r \in done
       PROVE  registry[r].execute_steps \in {Cardinality(MeasuredIn(r)),
                                             Cardinality(MeasuredIn(r)) - 1}
  <2>1. /\ Executed(r) = {n \in MeasuredIn(r) : n <= called}
        /\ \A n \in MeasuredIn(r) : n \in Nat /\ n <= called + 1
    <3>1. Scheduling(r) \subseteq 1..Len(batch)
      BY <1>0, SchedulingFacts
    <3> QED
      BY <1>2, <1>7, <3>1 DEF Executed, MeasuredIn
  <2>2. IsFiniteSet(Executed(r)) /\ Cardinality(Executed(r)) \in Nat
    BY <1>0, SchedulingFacts
  <2>3. registry[r].execute_steps = Cardinality(Executed(r))
    <3>1. registry[r].there
      BY <1>0, <1>1 DEF RecordsFollowRequests
    <3> QED
      BY <1>0, <3>1, AccountedMeaning
  <2>4. CASE called + 1 \in MeasuredIn(r)
    <3>1. MeasuredIn(r) = Executed(r) \cup {called + 1} /\ called + 1 \notin Executed(r)
      BY <1>2, <2>1, <2>4
    <3>2. Cardinality(MeasuredIn(r)) = Cardinality(Executed(r)) + 1
      BY <2>2, <3>1, FS_AddElement
    <3> QED
      BY <2>2, <2>3, <3>2
  <2>5. CASE called + 1 \notin MeasuredIn(r)
    <3>1. MeasuredIn(r) = Executed(r)
      BY <1>2, <2>1, <2>5
    <3> QED
      BY <2>3, <3>1
  <2> QED
    BY <2>4, <2>5
<1>13. ExecutionAccounted'
  <2>1. \A r \in Requests :
          /\ registry'[r].there => registry'[r].execute_steps = Cardinality(Executed(r)')
          /\ payload'[r].there =>
               payload'[r].execute_steps \in {Cardinality(MeasuredIn(r)'),
                                              Cardinality(MeasuredIn(r)') - 1}
    <3> TAKE r \in Requests
    <3>1. CASE r \in done
      BY <1>1, <1>3, <1>4, <1>12, <3>1
    <3>2. CASE r \notin done
      <4>1. registry'[r] = registry[r] /\ payload'[r] = payload[r]
        BY <1>1, <3>2
      <4> QED
        BY <1>0, <1>3, <4>1, AccountedMeaning
    <3> QED
      BY <3>1, <3>2
  <2> QED
    BY <2>1 DEF ExecutionAccounted, MeasuredIn, Executed
<1> QED
  BY <1>5, <1>6, <1>8, <1>9, <1>10, <1>11, <1>13 DEF IInv
-----------------------------------------------------------------------------
LEMMA NextIInv == IInv /\ [Next]_vars => IInv'
<1> SUFFICES ASSUME IInv, [Next]_vars PROVE IInv'
  OBVIOUS
<1>1. CASE \E r \in Requests : \E chunks \in 1..MaxChunks : AddRequest(r, chunks)
  BY <1>1, AddIInv
<1>2. CASE \E r \in Requests : Abort(r)
  BY <1>2, AbortIInv
<1>3. CASE \E expired \in SUBSET Requests, tokens \in Tokens : Schedule(expired, tokens)
  BY <1>3, ScheduleIInv
<1>4. CASE \E returns \in Returns : Execute(returns)
  BY <1>4, ExecuteIInv
<1>5. CASE Run \/ \E again \in BOOLEAN : ExecuteRaises(again)
  BY <1>5, UncountedIInv
<1>6. CASE Callback
  BY <1>6, CallbackIInv
<1>7. CASE \E done \in SUBSET Requests : Step(done)
  BY <1>7, StepIInv
<1>8. CASE UNCHANGED vars
  <2>1. UNCHANGED <<phase, left, core, batch, ran, called, runs, timed, taken, registry,
                    payload, dropped, passed>>
    BY <1>8 DEF vars, vllm, exec
  <2>2. \A r \in Requests : Scheduling(r)' = Scheduling(r)
    BY <2>1 DEF Scheduling
  <2>3. Typed' /\ Executor'
    BY <2>1 DEF IInv, Typed, Executor
  <2>4. Lifetimes' /\ RecordsFollowRequests' /\ Counted'
    BY <2>1, <2>2 DEF IInv, Lifetimes, RecordsFollowRequests, Counted, Counts
  <2>5. ExecutionAccounted' /\ ContentionExact'
    BY <2>1, <2>2 DEF IInv, ExecutionAccounted, ContentionExact, Live
  <2> QED
    BY <2>3, <2>4, <2>5 DEF IInv
<1> QED
  BY <1>1, <1>2, <1>3, <1>4, <1>5, <1>6, <1>7, <1>8 DEF Next

LEMMA Inductive == Spec => []IInv
  BY InitIInv, NextIInv, PTL DEF Spec

(* Records and requests agree: in every order of callbacks, aborts and     *)
(* results, exactly the requests the scheduler was given and has not       *)
(* finished have a record in _REGISTRY, and exactly the finished ones had  *)
(* it put on their final output (_attach_stages).                          *)
THEOREM RecordsAgree == Spec => []RecordsFollowRequests
<1>1. IInv => RecordsFollowRequests
  BY DEF IInv
<1> QED
  BY <1>1, Inductive, PTL

(* The record of a request counts each batch it was scheduled in, once, as *)
(* a chunk or as decoding, and no batch both as one it was in and as one   *)
(* that passed it over (the loops of the wrapped Scheduler.schedule).      *)
THEOREM SchedulingIsCounted == Spec => []ScheduleAccounted
<1>1. IInv => ScheduleAccounted
  <2> SUFFICES ASSUME IInv, NEW r \in Requests, Kept(r).there
               PROVE  /\ Kept(r).schedule_steps = Cardinality(Scheduling(r))
                      /\ Kept(r).schedule_steps = Kept(r).prefill_chunks + Kept(r).decode_steps
                      /\ Kept(r).first # 0 =>
                           Kept(r).schedule_steps + Kept(r).contention_steps
                             <= Len(batch) - Kept(r).first + 1
    BY DEF ScheduleAccounted
  <2>1. Counts(Kept(r), Cardinality(Scheduling(r)), Len(batch))
    BY DEF IInv, Counted, Kept
  <2> QED
    BY <2>1 DEF Counts
<1> QED
  BY <1>1, Inductive, PTL

(* Of the measured batches a request was in, its record counts exactly     *)
(* those whose callback has run, and its final output lacks at most the    *)
(* callback of its last one (_record_execute against _attach_stages).      *)
THEOREM ExecutionsAreCounted == Spec => []ExecutionAccounted
<1>1. IInv => ExecutionAccounted
  BY DEF IInv
<1> QED
  BY <1>1, Inductive, PTL

(* In mid-prefill, a record's contention is the number of batches that     *)
(* passed the request over: none is missed and none is counted twice (the  *)
(* second loop of the wrapped Scheduler.schedule).                         *)
THEOREM ContentionIsExact == Spec => []ContentionExact
<1>1. IInv => ContentionExact
  BY DEF IInv
<1> QED
  BY <1>1, Inductive, PTL
-----------------------------------------------------------------------------
(* The bounds: what has no record has an empty one, no batch is run more   *)
(* than twice, and what is counted of a request are batches, or requests.  *)
Gone == {r \in Requests : phase[r] = "aborted"}

Bounded ==
  /\ \A r \in Requests : /\ ~registry[r].there => registry[r] = NoRecord
                         /\ ~payload[r].there => payload[r] = NoRecord
                         /\ passed[r] <= Len(batch)
  /\ \A n \in 1..MaxBatches : runs[n] <= 2
  /\ dropped \in Nat /\ dropped <= Cardinality(Gone)

LEMMA InitBounded == Init => Bounded
<1> SUFFICES ASSUME Init PROVE Bounded
  OBVIOUS
<1>1. Len(batch) = 0
  BY DEF Init
<1>2. IsFiniteSet(Gone) /\ Cardinality(Gone) \in Nat
  BY RequestsAssumption, FS_Subset, FS_CardinalityType DEF Gone
<1> QED
  BY <1>1, <1>2 DEF Init, Bounded

(* A step that touches neither the records nor the requests. *)
LEMMA SameBounded ==
  ASSUME IInv, Bounded, UNCHANGED <<payload, dropped, passed, batch>>,
         \A r \in Requests : phase[r] = "aborted" => phase'[r] = "aborted",
         \A r \in Requests : registry[r].there <=> registry'[r].there,
         \A r \in Requests : registry'[r] = registry[r] \/ registry[r].there,
         \A n \in 1..MaxBatches : runs'[n] <= 2
  PROVE  Bounded'
<1>1. IsFiniteSet(Gone') /\ Gone \in SUBSET Gone'
  BY RequestsAssumption, FS_Subset DEF Gone
<1>2. Cardinality(Gone) <= Cardinality(Gone')
  BY <1>1, FS_Subset
<1>3. Cardinality(Gone) \in Nat /\ Cardinality(Gone') \in Nat
  BY <1>1, FS_Subset, FS_CardinalityType
<1>4. \A r \in Requests : ~registry'[r].there => registry'[r] = NoRecord
  BY DEF Bounded
<1> QED
  BY <1>2, <1>3, <1>4 DEF Bounded

LEMMA RecordedStays ==
  ASSUME IInv, NEW n, registry' = Recorded(n)
  PROVE  /\ \A r \in Requests : registry[r].there <=> registry'[r].there
         /\ \A r \in Requests : registry'[r] = registry[r] \/ registry[r].there
<1>1. \A r \in Requests : registry[r] \in Rec
  BY DEF IInv, Typed
<1>2. \A r \in Requests :
        registry'[r] = IF r \in batch[n] /\ registry[r].there
                       THEN Measured(registry[r]) ELSE registry[r]
  BY DEF Recorded
<1>3. ASSUME NEW rec \in Rec PROVE Measured(rec).there = rec.there
  BY DEF Measured, Rec
<1> QED
  BY <1>1, <1>2, <1>3

LEMMA ScheduleBounded ==
  ASSUME IInv, Bounded, NEW expired \in SUBSET Requests, NEW tokens \in Tokens,
         Schedule(expired, tokens)
  PROVE  Bounded'
<1>0. /\ Typed /\ Len(batch) \in Nat /\ Len(batch') = Len(batch) + 1
  <2>1. Typed /\ batch \in Seq(SUBSET Requests)
    BY DEF IInv, Typed
  <2>2. {r \in Requests : tokens[r] # "none"} \in SUBSET Requests
    OBVIOUS
  <2>3. batch' = Append(batch, {r \in Requests : tokens[r] # "none"})
    BY DEF Schedule
  <2> QED
    BY <2>1, <2>2, <2>3, AppendFacts
<1>1. \A r \in Requests : ~registry'[r].there => registry'[r] = NoRecord
  <2> TAKE r \in Requests
  <2>1. registry'[r] = Observed(tokens, r)
    BY DEF Schedule
  <2>2. registry[r] \in Rec
    BY <1>0 DEF Typed
  <2>3. CASE ~registry[r].there
    BY <2>1, <2>3 DEF Observed, Bounded
  <2>4. CASE registry[r].there
    <3>1. /\ Scheduled(registry[r], tokens[r]).there
          /\ PassedOver(registry[r]).there
      BY <1>0, <2>2, <2>4, ScheduledFacts, PassedOverFacts
    <3> QED
      BY <2>1, <2>4, <3>1 DEF Observed
  <2> QED
    BY <2>3, <2>4
<1>2. \A r \in Requests : passed'[r] <= Len(batch')
  <2> TAKE r \in Requests
  <2>1. passed'[r] = passed[r] \/ passed'[r] = passed[r] + 1
    BY DEF Schedule
  <2>2. passed[r] \in Nat /\ passed[r] <= Len(batch)
    BY <1>0 DEF Typed, Bounded
  <2> QED
    BY <1>0, <2>1, <2>2
<1>3. dropped' \in Nat /\ dropped' <= Cardinality(Gone')
  <2>1. /\ expired \subseteq Live /\ dropped' = dropped + Cardinality(expired)
        /\ phase' = [r \in Requests |-> IF r \in expired THEN "aborted" ELSE phase[r]]
    BY DEF Schedule, DropExpired
  <2>2. Gone' = Gone \cup expired /\ Gone \cap expired = {}
    BY <2>1 DEF Gone, Live
  <2>3. IsFiniteSet(Gone) /\ IsFiniteSet(expired)
    BY RequestsAssumption, FS_Subset DEF Gone
  <2>4. Cardinality(Gone') = Cardinality(Gone) + Cardinality(expired) - 0
    BY <2>2, <2>3, FS_Union, FS_EmptySet
  <2>5. Cardinality(Gone) \in Nat /\ Cardinality(expired) \in Nat
    BY <2>3, FS_CardinalityType
  <2> QED
    BY <2>1, <2>4, <2>5 DEF Bounded
<1>4. UNCHANGED <<payload, runs>>
  BY DEF Schedule, exec
<1> QED
  BY <1>1, <1>2, <1>3, <1>4 DEF Bounded

(* Only the batch just scheduled, which has not been run, is run. *)
LEMMA RunsBounded ==
  ASSUME IInv, Bounded, core = "execute", NEW k \in 1..2,
         runs' = [runs EXCEPT ![Current] = @ + k]
  PROVE  \A n \in 1..MaxBatches : runs'[n] <= 2
<1>1. runs \in [1..MaxBatches -> Nat] /\ runs[Current] = 0
  BY DEF IInv, Typed, Executor, Current
<1> QED
  BY <1>1 DEF Bounded

LEMMA NextBounded == IInv /\ Bounded /\ [Next]_vars => Bounded'
<1> USE DEF vllm, exec
<1>1. SUFFICES ASSUME IInv, Bounded, [Next]_vars PROVE Bounded'
  OBVIOUS
<1>2. ASSUME NEW r \in Requests, NEW chunks \in 1..MaxChunks, AddRequest(r, chunks)
      PROVE  Bounded'
  <2>1. /\ phase[r] = "new" /\ phase' = [phase EXCEPT ![r] = "live"]
        /\ registry' = [registry EXCEPT ![r] = IF @.there THEN @ ELSE NewRecord]
        /\ UNCHANGED <<batch, runs, payload, dropped, passed>>
    BY <1>2 DEF AddRequest
  <2>2. /\ NewRecord.there
        /\ registry \in [Requests -> Rec] /\ phase \in [Requests -> {"new", "live", "finished", "aborted"}]
    BY <1>1 DEF NewRecord, NoRecord, IInv, Typed
  <2>3. \A q \in Requests : ~registry'[q].there => registry'[q] = NoRecord
    BY <1>1, <2>1, <2>2 DEF Bounded
  <2>4. Gone' = Gone
    BY <2>1, <2>2 DEF Gone
  <2> QED
    BY <1>1, <2>1, <2>3, <2>4 DEF Bounded
<1>3. ASSUME NEW r \in Requests, Abort(r)
      PROVE  Bounded'
  BY <1>1, <1>3, SameBounded DEF Abort, Bounded, IInv, Typed
<1>4. ASSUME NEW expired \in SUBSET Requests, NEW tokens \in Tokens,
             Schedule(expired, tokens)
      PROVE  Bounded'
  BY <1>1, <1>4, ScheduleBounded
<1>5. ASSUME NEW returns \in Returns, Execute(returns)
      PROVE  Bounded'
  <2>1. /\ core = "execute" /\ runs' = [runs EXCEPT ![Current] = @ + 1]
        /\ UNCHANGED <<phase, batch, payload, dropped, passed>>
        /\ registry' = registry \/ registry' = Recorded(Current)
    BY <1>5 DEF Execute
  <2>2. \A n \in 1..MaxBatches : runs'[n] <= 2
    BY <1>1, <2>1, RunsBounded
  <2>3. /\ \A q \in Requests : registry[q].there <=> registry'[q].there
        /\ \A q \in Requests : registry'[q] = registry[q] \/ registry[q].there
    BY <1>1, <2>1, RecordedStays
  <2> QED
    BY <1>1, <2>1, <2>2, <2>3, SameBounded
<1>6. ASSUME NEW again \in BOOLEAN, ExecuteRaises(again)
      PROVE  Bounded'
  <2>1. /\ core = "execute" /\ runs' = [runs EXCEPT ![Current] = @ + 2]
        /\ UNCHANGED <<phase, batch, registry, payload, dropped, passed>>
    BY <1>6 DEF ExecuteRaises
  <2>2. \A n \in 1..MaxBatches : runs'[n] <= 2
    BY <1>1, <2>1, RunsBounded
  <2> QED
    BY <1>1, <2>1, <2>2, SameBounded
<1>7. CASE Run
  BY <1>1, <1>7, SameBounded DEF Run, Bounded
<1>8. CASE Callback
  <2>1. /\ UNCHANGED <<phase, batch, runs, payload, dropped, passed>>
        /\ registry' = registry \/ registry' = Recorded(ran)
    BY <1>8 DEF Callback
  <2>2. /\ \A q \in Requests : registry[q].there <=> registry'[q].there
        /\ \A q \in Requests : registry'[q] = registry[q] \/ registry[q].there
    BY <1>1, <2>1, RecordedStays
  <2> QED
    BY <1>1, <2>1, <2>2, SameBounded DEF Bounded
<1>9. ASSUME NEW done \in SUBSET Requests, Step(done)
      PROVE  Bounded'
  <2>1. /\ done \subseteq Live
        /\ phase' = [r \in Requests |-> IF r \in done THEN "finished" ELSE phase[r]]
        /\ payload' = [r \in Requests |-> IF r \in done THEN registry[r]
                                          ELSE payload[r]]
        /\ registry' = [r \in Requests |-> IF r \in done THEN NoRecord
                                           ELSE registry[r]]
        /\ UNCHANGED <<batch, runs, dropped, passed>>
    BY <1>9 DEF Step, Popped
  <2>2. Gone' = Gone
    BY <2>1 DEF Gone, Live
  <2>3. \A q \in Requests : /\ ~registry'[q].there => registry'[q] = NoRecord
                            /\ ~payload'[q].there => payload'[q] = NoRecord
    BY <1>1, <2>1 DEF Bounded
  <2> QED
    BY <1>1, <2>1, <2>2, <2>3 DEF Bounded
<1>10. CASE UNCHANGED vars
  BY <1>1, <1>10, SameBounded DEF vars, Bounded
<1> QED
  BY <1>1, <1>2, <1>3, <1>4, <1>5, <1>6, <1>7, <1>8, <1>9, <1>10 DEF Next

(* What is counted of a request is at most the number of batches. *)
LEMMA CountsAreRecords ==
  ASSUME NEW rec \in Rec, NEW mine \in 0..MaxBatches, NEW all \in 0..MaxBatches,
         Counts(rec, mine, all), rec.execute_steps <= mine
  PROVE  rec \in Record
<1>1. /\ rec.first \in Nat /\ rec.schedule_steps \in Nat
      /\ rec.prefill_chunks \in Nat /\ rec.decode_steps \in Nat
      /\ rec.execute_steps \in Nat /\ rec.contention_steps \in Nat
  BY DEF Rec
<1>2. /\ rec.schedule_steps = mine /\ rec.first <= all
      /\ rec.schedule_steps = rec.prefill_chunks + rec.decode_steps
      /\ rec.first # 0 => mine + rec.contention_steps <= all - rec.first + 1
      /\ rec.first = 0 => rec.contention_steps = 0
  BY DEF Counts
<1>3. /\ rec.first <= MaxBatches /\ rec.schedule_steps <= MaxBatches
      /\ rec.prefill_chunks <= MaxBatches /\ rec.decode_steps <= MaxBatches
      /\ rec.execute_steps <= MaxBatches /\ rec.contention_steps <= MaxBatches
  <2>1. mine \in Nat /\ all \in Nat /\ mine <= MaxBatches /\ all <= MaxBatches
        /\ MaxBatches \in Nat
    OBVIOUS
  <2>2. rec.contention_steps <= MaxBatches
    BY <1>1, <1>2, <2>1
  <2>3. rec.prefill_chunks <= mine /\ rec.decode_steps <= mine
    BY <1>1, <1>2, <2>1
  <2> QED
    BY <1>1, <1>2, <2>1, <2>2, <2>3
<1> QED
  BY <1>1, <1>3 DEF Rec, Record

(* The counters of a record stay below the number of batches, a batch is   *)
(* run at most twice, even when execute_model is called again, and no more *)
(* requests are dropped than there are (stages.py, deadline.py).           *)
THEOREM TypeCorrect == Spec => []TypeOK
<1>1. IInv /\ Bounded => TypeOK
  <2> SUFFICES ASSUME IInv, Bounded PROVE TypeOK
    OBVIOUS
  <2>0. /\ Typed /\ Executor /\ Counted /\ ExecutionAccounted
    BY DEF IInv
  <2>1. Len(batch) \in Nat /\ Len(batch) <= MaxBatches /\ Len(batch) \in 0..MaxBatches
    BY <2>0 DEF Typed, Executor
  <2>2. \A n \in 1..Len(batch) : batch[n] \subseteq Requests
    BY <2>0 DEF Typed
  <2>3. NoRecord \in Record
    BY DEF NoRecord, Record
  <2>4. ASSUME NEW r \in Requests
        PROVE  registry[r] \in Record /\ payload[r] \in Record /\ passed[r] \in 0..MaxBatches
    <3>1. /\ Cardinality(Scheduling(r)) \in 0..MaxBatches
          /\ Cardinality(Executed(r)) \in Nat /\ Cardinality(MeasuredIn(r)) \in Nat
      BY <2>0, <2>1, SchedulingFacts
    <3>2. /\ Cardinality(Executed(r)) <= Cardinality(Scheduling(r))
          /\ Cardinality(MeasuredIn(r)) <= Cardinality(Scheduling(r))
      <4>1. /\ Executed(r) \in SUBSET Scheduling(r)
            /\ MeasuredIn(r) \in SUBSET Scheduling(r)
        BY DEF Executed, MeasuredIn
      <4> QED
        BY <2>0, <4>1, SchedulingFacts, FS_Subset
    <3>3. registry[r] \in Rec /\ payload[r] \in Rec /\ passed[r] \in Nat
      BY <2>0 DEF Typed
    <3>4. registry[r] \in Record
      <4>1. CASE registry[r].there
        <5>1. /\ Counts(registry[r], Cardinality(Scheduling(r)), Len(batch))
              /\ registry[r].execute_steps = Cardinality(Executed(r))
          BY <2>0, <4>1, AccountedMeaning DEF Counted
        <5> QED
          BY <2>1, <3>1, <3>2, <3>3, <5>1, CountsAreRecords
      <4> QED
        BY <2>3, <4>1 DEF Bounded
    <3>5. payload[r] \in Record
      <4>1. CASE payload[r].there
        <5>1. /\ Counts(payload[r], Cardinality(Scheduling(r)), Len(batch))
              /\ payload[r].execute_steps \in {Cardinality(MeasuredIn(r)),
                                               Cardinality(MeasuredIn(r)) - 1}
          BY <2>0, <4>1, AccountedMeaning DEF Counted
        <5>2. payload[r].execute_steps <= Cardinality(Scheduling(r))
          BY <3>1, <3>2, <5>1
        <5> QED
          BY <2>1, <3>1, <3>3, <5>1, <5>2, CountsAreRecords
      <4> QED
        BY <2>3, <4>1 DEF Bounded
    <3> QED
      BY <2>1, <3>3, <3>4, <3>5 DEF Bounded
  <2>5. runs \in [1..MaxBatches -> 0..2]
    <3>1. runs \in [1..MaxBatches -> Nat] /\ \A n \in 1..MaxBatches : runs[n] <= 2
      BY <2>0 DEF Typed, Bounded
    <3> QED
      BY <3>1
  <2>6. dropped \in 0..Cardinality(Requests)
    <3>1. Gone \in SUBSET Requests
      BY DEF Gone
    <3>2. Cardinality(Gone) <= Cardinality(Requests)
      BY <3>1, RequestsAssumption, FS_Subset
    <3>3. Cardinality(Gone) \in Nat /\ Cardinality(Requests) \in Nat
      BY <3>1, RequestsAssumption, FS_Subset, FS_CardinalityType
    <3> QED
      BY <3>2, <3>3 DEF Bounded
  <2>7. taken <= ran /\ ran <= Len(batch) /\ called \in {ran - 1, ran} /\ ran - 1 <= called
    BY <2>0 DEF Typed, Executor
  <2>8. /\ registry \in [Requests -> Record] /\ payload \in [Requests -> Record]
        /\ passed \in [Requests -> 0..MaxBatches]
    BY <2>0, <2>4 DEF Typed
  <2> QED
    BY <2>0, <2>1, <2>2, <2>5, <2>6, <2>7, <2>8 DEF TypeOK, Typed
<1> QED
  BY <1>1, InitBounded, NextBounded, Inductive, PTL DEF Spec
=============================================================================
