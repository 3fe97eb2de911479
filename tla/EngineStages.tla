---------------------------- MODULE EngineStages ----------------------------
(***************************************************************************)
(* The EngineCore process: the per-request records of stages.py            *)
(* (_REGISTRY), filled in around Scheduler.add_request, Scheduler.schedule *)
(* and Executor.execute_model, and taken out around EngineCore.step; and   *)
(* the deadline guard (deadline.py), which wraps schedule() outermost.     *)
(*                                                                         *)
(* Two threads share the registry.  The core thread adds and aborts        *)
(* requests, schedules a batch, passes it to the executor and takes the    *)
(* results in order; with a batch queue it schedules several batches ahead *)
(* of the results.  The executor's thread finishes the batches in order    *)
(* and then runs the callback of the batch's future; the core thread may   *)
(* take the result before the callback has run.                            *)
(*                                                                         *)
(* vLLM itself is external: a prompt is some number of chunks, scheduled   *)
(* one at a time, then one token after the other is decoded, each once the *)
(* batch before it has been taken.  Durations are left out.                *)
(***************************************************************************)
EXTENDS Naturals, Sequences, FiniteSets

CONSTANTS Requests,    \* request ids, each used once
          MaxChunks,   \* bound on the prefill chunks of a prompt
          MaxBatches,  \* bound on the batches scheduled
          QueueSize    \* batches in flight; 1 is EngineCore.step

ASSUME RequestsAssumption == IsFiniteSet(Requests)
ASSUME EngineAssumption ==
  MaxChunks \in Nat \ {0} /\ MaxBatches \in Nat /\ QueueSize \in Nat \ {0}

VARIABLES
  phase,    \* vLLM: "new", "live", "finished", "aborted"
  left,     \* vLLM: prefill chunks not yet scheduled
  core,     \* the core thread: "idle", "execute" after schedule(), "failed"
  batch,    \* history: the requests of each batch scheduled
  ran,      \* batches the executor has finished
  called,   \* batches whose callback has run, or that have none
  taken,    \* batches whose result the core thread has taken
  runs,     \* history: calls of the original execute_model per batch
  timed,    \* history: batches whose execution is measured
  registry, \* _REGISTRY
  payload,  \* what _attach_stages put on the final output
  dropped,  \* dropped_total
  passed    \* history: batches that passed the request over in mid-prefill

vllm   == <<phase, left>>
exec   == <<ran, called, runs, timed>>
vars   == <<vllm, core, batch, exec, taken, registry, payload, dropped, passed>>

NoRecord == [there |-> FALSE, first |-> 0, schedule_steps |-> 0,
             prefill_chunks |-> 0, decode_steps |-> 0, execute_steps |-> 0,
             contention_steps |-> 0, prefill_done |-> FALSE]
NewRecord == [NoRecord EXCEPT !.there = TRUE]

Record == [there : BOOLEAN, first : 0..MaxBatches,
           schedule_steps : 0..MaxBatches, prefill_chunks : 0..MaxBatches,
           decode_steps : 0..MaxBatches, execute_steps : 0..MaxBatches,
           contention_steps : 0..MaxBatches, prefill_done : BOOLEAN]

TypeOK ==
  /\ phase \in [Requests -> {"new", "live", "finished", "aborted"}]
  /\ left \in [Requests -> 0..MaxChunks]
  /\ core \in {"idle", "execute", "failed"}
  /\ Len(batch) <= MaxBatches
  /\ \A n \in 1..Len(batch) : batch[n] \subseteq Requests
  /\ taken <= ran /\ ran <= Len(batch)
  /\ called \in {ran - 1, ran} /\ ran - 1 <= called
  /\ runs \in [1..MaxBatches -> 0..2]
  /\ timed \subseteq 1..MaxBatches
  /\ registry \in [Requests -> Record] /\ payload \in [Requests -> Record]
  /\ dropped \in 0..Cardinality(Requests)
  /\ passed \in [Requests -> 0..MaxBatches]

-----------------------------------------------------------------------------
(* Faulty variants of the definitions below, one plausible slip each. *)
LeaveRecord(rec)   == rec
ChunkToo(rec)      == [rec EXCEPT !.decode_steps = @ + 1, !.prefill_done = TRUE,
                                  !.prefill_chunks = @ + 1]
MeasuredTwice(rec) == [rec EXCEPT !.execute_steps = @ + 2]
NotDone(rec)       == ~rec.prefill_done
NextOne            == {Len(batch) + 1}
-----------------------------------------------------------------------------
Init ==
  /\ phase = [r \in Requests |-> "new"]
  /\ left = [r \in Requests |-> 0]
  /\ core = "idle"
  /\ batch = <<>>
  /\ ran = 0 /\ called = 0 /\ taken = 0
  /\ runs = [n \in 1..MaxBatches |-> 0]
  /\ timed = {}
  /\ registry = [r \in Requests |-> NoRecord]
  /\ payload = [r \in Requests |-> NoRecord]
  /\ dropped = 0
  /\ passed = [r \in Requests |-> 0]

Live == {r \in Requests : phase[r] = "live"}

\* The request is in a batch whose result has not been taken.
InFlight(r) == \E n \in (taken + 1)..Len(batch) : r \in batch[n]

\* Scheduler.add_request, then setdefault on the registry.
AddRequest(r, chunks) ==
  /\ core = "idle" /\ phase[r] = "new"
  /\ phase' = [phase EXCEPT ![r] = "live"]
  /\ left' = [left EXCEPT ![r] = chunks]
  /\ registry' = [registry EXCEPT ![r] = IF @.there THEN @ ELSE NewRecord]
  /\ UNCHANGED <<core, batch, exec, taken, payload, dropped, passed>>

\* The client aborts: the scheduler forgets the request, no output is made.
Abort(r) ==
  /\ core = "idle" /\ r \in Live
  /\ phase' = [phase EXCEPT ![r] = "aborted"]
  /\ UNCHANGED <<left, core, batch, exec, taken, registry, payload, dropped,
                 passed>>
-----------------------------------------------------------------------------
(* Scheduler.schedule: the guard, the original, the two observer loops. *)

\* A record of a scheduled request.  One token or less is taken for decoding.
Chunk(rec)  == [rec EXCEPT !.prefill_chunks = @ + 1]
Decode(rec) == [rec EXCEPT !.decode_steps = @ + 1, !.prefill_done = TRUE]

Scheduled(rec, tokens) ==
  LET begun == [rec EXCEPT !.first = IF @ = 0 THEN Len(batch) + 1 ELSE @,
                           !.schedule_steps = @ + 1]
  IN  IF tokens = "many" THEN Chunk(begun) ELSE Decode(begun)

\* The record of a request the batch passed over counts as contended.
Contended(rec) == rec.first # 0 /\ ~rec.prefill_done

PassedOver(rec) ==
  IF Contended(rec) THEN [rec EXCEPT !.contention_steps = @ + 1] ELSE rec

Observed(tokens, r) ==
  IF ~registry[r].there THEN registry[r]
  ELSE IF tokens[r] # "none" THEN Scheduled(registry[r], tokens[r])
  ELSE IF \A q \in Requests : tokens[q] = "none" THEN registry[r]
  ELSE PassedOver(registry[r])

\* What vLLM may schedule: chunks of any length, one token of decoding, or
\* nothing for a request, and no request that is not live.
Schedulable(tokens, live) ==
  \A r \in Requests : tokens[r] # "none" =>
    /\ r \in live
    /\ left[r] = 0 => tokens[r] = "one" /\ ~InFlight(r)

\* A request is in mid-prefill when some of its chunks were scheduled and
\* some were not.
MidPrefill(r) == registry[r].first # 0 /\ left[r] > 0

\* The guard: what it finds too old is finished as aborted and counted.  It
\* may be off, find nothing, or finish_requests may raise and finish none.
DropExpired(expired) ==
  /\ expired \subseteq Live
  /\ phase' = [r \in Requests |-> IF r \in expired THEN "aborted" ELSE phase[r]]
  /\ dropped' = dropped + Cardinality(expired)

Schedule(expired, tokens) ==
  /\ core = "idle" /\ Len(batch) < MaxBatches
  /\ Len(batch) - taken < QueueSize
  /\ DropExpired(expired)
  /\ Schedulable(tokens, Live \ expired)
  /\ LET ids == {r \in Requests : tokens[r] # "none"}
     IN  /\ batch' = Append(batch, ids)
         /\ left' = [r \in Requests |-> IF r \in ids /\ left[r] > 0
                                        THEN left[r] - 1 ELSE left[r]]
         /\ passed' = [r \in Requests |->
                         IF /\ ids # {} /\ r \in Live \ (ids \cup expired)
                            /\ MidPrefill(r)
                         THEN passed[r] + 1 ELSE passed[r]]
  /\ registry' = [r \in Requests |-> Observed(tokens, r)]
  /\ core' = "execute"
  /\ UNCHANGED <<exec, taken, payload>>
-----------------------------------------------------------------------------
(* Executor.execute_model. *)

\* _record_execute, for the batch of a number.
Measured(rec) == [rec EXCEPT !.execute_steps = @ + 1]

Recorded(n) ==
  [r \in Requests |-> IF r \in batch[n] /\ registry[r].there
                      THEN Measured(registry[r]) ELSE registry[r]]

\* The batch that was just scheduled, and the batches measured with it.
Current == Len(batch)
Timing  == {Current}

\* What execute_model returns: a future, to which a callback is attached or
\* the attempt fails, or the result itself, when the core thread runs the
\* executor and nothing else is under way.
Returns == {"future", "unmeasured", "result"}

Execute(returns) ==
  /\ core = "execute"
  /\ returns = "result" => called = Current - 1
  /\ core' = "idle"
  /\ runs' = [runs EXCEPT ![Current] = @ + 1]
  /\ timed' = IF returns = "unmeasured" THEN timed ELSE timed \cup Timing
  /\ IF returns = "result"
     THEN ran' = Current /\ called' = Current /\ registry' = Recorded(Current)
     ELSE UNCHANGED <<ran, called, registry>>
  /\ UNCHANGED <<vllm, batch, taken, payload, dropped, passed>>

\* execute_model raises: the except clause logs it and calls it again, which
\* may raise as well and end the engine, or succeed unmeasured.
ExecuteRaises(again) ==
  /\ core = "execute"
  /\ runs' = [runs EXCEPT ![Current] = @ + 2]
  /\ core' = IF again THEN "failed" ELSE "idle"
  /\ UNCHANGED <<vllm, batch, ran, called, timed, taken, registry, payload,
                 dropped, passed>>

\* The executor's thread finishes the next batch it was given ...
Run ==
  /\ called = ran /\ ran < Len(batch)
  /\ runs[ran + 1] > 0 /\ ~(core = "failed" /\ ran + 1 = Current)
  /\ ran' = ran + 1
  /\ UNCHANGED <<vllm, core, batch, called, runs, timed, taken, registry,
                 payload, dropped, passed>>

\* ... and runs the callback of its future, when there is one.
Callback ==
  /\ called < ran
  /\ called' = ran
  /\ registry' = IF ran \in timed THEN Recorded(ran) ELSE registry
  /\ UNCHANGED <<vllm, core, batch, ran, runs, timed, taken, payload, dropped,
                 passed>>
-----------------------------------------------------------------------------
(* EngineCore.step: the result of the oldest batch, and _attach_stages. *)

\* _REGISTRY.pop.
Popped(rec) == NoRecord

\* Requests of the batch that are through with their prompt may finish.
Step(done) ==
  /\ core = "idle" /\ taken < ran
  /\ done \subseteq {r \in batch[taken + 1] \cap Live : left[r] = 0}
  /\ \A r \in done : \A n \in (taken + 2)..Len(batch) : r \notin batch[n]
  /\ taken' = taken + 1
  /\ phase' = [r \in Requests |-> IF r \in done THEN "finished" ELSE phase[r]]
  /\ payload' = [r \in Requests |-> IF r \in done THEN registry[r]
                                    ELSE payload[r]]
  /\ registry' = [r \in Requests |-> IF r \in done THEN Popped(registry[r])
                                     ELSE registry[r]]
  /\ UNCHANGED <<left, core, batch, exec, dropped, passed>>
-----------------------------------------------------------------------------
Tokens == [Requests -> {"none", "one", "many"}]

Next ==
  \/ \E r \in Requests :
       \/ \E chunks \in 1..MaxChunks : AddRequest(r, chunks)
       \/ Abort(r)
  \/ \E expired \in SUBSET Requests, tokens \in Tokens : Schedule(expired, tokens)
  \/ \E returns \in Returns : Execute(returns)
  \/ \E again \in BOOLEAN : ExecuteRaises(again)
  \/ Run
  \/ Callback
  \/ \E done \in SUBSET Requests : Step(done)

Spec == Init /\ [][Next]_vars
-----------------------------------------------------------------------------
Scheduling(r) == {n \in 1..Len(batch) : r \in batch[n]}

\* The record of a request, in the registry or on its final output.
Kept(r) == IF payload[r].there THEN payload[r] ELSE registry[r]

(* Records and requests agree: exactly the requests that the scheduler was *)
(* given and that have not finished have a record, and exactly the         *)
(* finished ones a payload.  A callback that runs late brings none back.   *)
(* Aborted and expired requests keep theirs.                               *)
RecordsFollowRequests ==
  \A r \in Requests :
    /\ registry[r].there <=> phase[r] \in {"live", "aborted"}
    /\ payload[r].there <=> phase[r] = "finished"

(* What reaches the final output is the whole story of the scheduling:     *)
(* every batch the request was in was counted, as a chunk or as decoding,  *)
(* and a batch that passed it over is never counted as one it was in.      *)
ScheduleAccounted ==
  \A r \in Requests : Kept(r).there =>
    /\ Kept(r).schedule_steps = Cardinality(Scheduling(r))
    /\ Kept(r).schedule_steps = Kept(r).prefill_chunks + Kept(r).decode_steps
    /\ Kept(r).first # 0 =>
         Kept(r).schedule_steps + Kept(r).contention_steps
           <= Len(batch) - Kept(r).first + 1

(* An execution is counted once or not yet: while a request has its        *)
(* record, the measured batches it was in are those counted and those      *)
(* whose callback is still to run; and its final output lacks at most the  *)
(* callback of its last batch.                                             *)
ExecutionAccounted ==
  \A r \in Requests :
    LET measured == Scheduling(r) \cap timed
    IN  /\ registry[r].there =>
             registry[r].execute_steps
               = Cardinality({n \in measured : n <= called})
        /\ payload[r].there =>
             payload[r].execute_steps
               \in {Cardinality(measured), Cardinality(measured) - 1}

(* As long as a request is in mid-prefill, and no chunk of one token made  *)
(* it look like decoding, its contention is the number of batches that     *)
(* passed it over: none is missed, none counted twice, and none counted    *)
(* while it was still waiting for its first batch.                         *)
ContentionExact ==
  \A r \in Live :
    left[r] > 0 /\ ~registry[r].prefill_done =>
      registry[r].contention_steps = passed[r]

(* Contention counts the batches that passed the request over in           *)
(* mid-prefill, as the comment in _new_record has it, and no others.       *)
ContentionIsMidPrefill ==
  \A r \in Requests : Kept(r).there => Kept(r).contention_steps <= passed[r]

(* Observation does not repeat what it observes: the original              *)
(* execute_model is called once for a batch.                               *)
ExecutedOnce == \A n \in 1..MaxBatches : runs[n] <= 1
=============================================================================
