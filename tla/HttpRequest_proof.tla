-------------------------- MODULE HttpRequest_proof --------------------------
(***************************************************************************)
(* Proofs about HttpRequest, for any number of overlapping requests and of *)
(* filters.  What is proved of the gauge, of the counters and of the types *)
(* assumes that no content is captured: with capture on, the code does not *)
(* keep it.  The recursion of FilterChain.process is dealt with through    *)
(* the first filter at which a claim about the chain would fail.           *)
(***************************************************************************)
EXTENDS HttpRequest, FiniteSetTheorems, WellFoundedInduction, TLAPS

(* The types of what the status of a request depends on. *)
Typed ==
  /\ pc \in [Requests -> {"new", "app", "send", "done"}]
  /\ status \in [Requests -> Status]
  /\ complete \in [Requests -> BOOLEAN]
  /\ event \in [Requests -> Status \cup {"none"}]
  /\ history \in [Requests -> [start : {"none", "good", "bad"},
                               early : BOOLEAN,
                               left : {"no", "returned", "raised", "cancelled"}]]

(* The status of a running request records what it has come through. *)
Running(r) ==
  /\ event[r] = "none" /\ history[r].left = "no"
  /\ status[r] = "ok" <=> history[r].start # "bad" /\ ~history[r].early
  /\ complete[r] => history[r].start # "none"

Judged ==
  \A r \in Requests :
    /\ pc[r] # "done" => Running(r)
    /\ event[r] # "none" => (event[r] = "ok" <=> Served(r))

IInv == Typed /\ Judged

(* The requests in flight, and those that entered. *)
Flying  == {r \in Requests : pc[r] \in {"app", "send"}}
Entered == {r \in Requests : pc[r] # "new"}

Accounts ==
  /\ body = [r \in Requests |-> "empty"]
  /\ pc \in [Requests -> {"new", "app", "send", "done"}]
  /\ event \in [Requests -> Status \cup {"none"}]
  /\ inflight \in Nat
  /\ requests \in [Status -> Nat]
  /\ InflightAndCounted
  /\ EveryRequestReported
-----------------------------------------------------------------------------
LEMMA InitIInv == Init => IInv
<1> SUFFICES ASSUME Init PROVE IInv
  OBVIOUS
<1>1. Typed
  BY DEF Init, Typed, Status
<1>2. Judged
  BY DEF Init, Judged, Running
<1> QED
  BY <1>1, <1>2 DEF IInv

(* The end of a request gives its event the status it decides on. *)
LEMMA LeaveIInv ==
  ASSUME IInv, NEW r \in Requests, pc[r] # "done",
         NEW how \in {"returned", "raised", "cancelled"}, NEW final \in Status,
         Leave(r, how, final),
         final = "ok" <=> /\ how = "returned" /\ complete[r]
                          /\ history[r].start = "good" /\ ~history[r].early
  PROVE  IInv'
<1> USE DEF reported
<1>0. Typed /\ Judged
  BY DEF IInv
<1>1. /\ pc' = [pc EXCEPT ![r] = "done"]
      /\ status' = [status EXCEPT ![r] = final]
      /\ history' = [history EXCEPT ![r].left = how]
      /\ complete' = complete
      /\ event' = event \/ event' = [event EXCEPT ![r] = final]
  BY DEF Leave
<1>2. Typed'
  <2>1. /\ pc' \in [Requests -> {"new", "app", "send", "done"}]
        /\ status' \in [Requests -> Status] /\ complete' \in [Requests -> BOOLEAN]
    BY <1>0, <1>1 DEF Typed
  <2>2. event' \in [Requests -> Status \cup {"none"}]
    BY <1>0, <1>1 DEF Typed
  <2>3. history' \in [Requests -> [start : {"none", "good", "bad"}, early : BOOLEAN,
                                   left : {"no", "returned", "raised", "cancelled"}]]
    BY <1>0, <1>1 DEF Typed
  <2> QED
    BY <2>1, <2>2, <2>3 DEF Typed
<1>3. \A q \in Requests \ {r} :
        /\ pc'[q] = pc[q] /\ status'[q] = status[q] /\ history'[q] = history[q]
        /\ complete'[q] = complete[q] /\ event'[q] = event[q]
  BY <1>0, <1>1 DEF Typed
<1>4. /\ pc'[r] = "done" /\ complete'[r] = complete[r]
      /\ history'[r].start = history[r].start /\ history'[r].early = history[r].early
      /\ history'[r].left = how
      /\ event[r] = "none" /\ event'[r] \in {"none", final}
  BY <1>0, <1>1 DEF Typed, Judged, Running
<1>5. ASSUME NEW q \in Requests
      PROVE  /\ pc'[q] # "done" => Running(q)'
             /\ event'[q] # "none" => (event'[q] = "ok" <=> Served(q)')
  <2>1. CASE q = r
    BY <1>4, <2>1 DEF Served
  <2>2. CASE q # r
    BY <1>0, <1>3, <2>2 DEF Judged, Running, Served
  <2> QED
    BY <2>1, <2>2
<1> QED
  BY <1>2, <1>5 DEF IInv, Judged

LEMMA StepIInv == IInv /\ [Next]_vars => IInv'
<1> SUFFICES ASSUME IInv, [Next]_vars PROVE IInv'
  OBVIOUS
<1> USE DEF reported
<1>0. Typed /\ Judged
  BY DEF IInv
<1>1. ASSUME NEW r \in Requests, Begin(r) \/ SendEnds(r) \/ Poll(r)
      PROVE  IInv'
  <2>1. /\ UNCHANGED <<status, complete, event, history>>
        /\ pc' \in [Requests -> {"new", "app", "send", "done"}]
        /\ \A q \in Requests : pc'[q] = "done" <=> pc[q] = "done"
    BY <1>0, <1>1 DEF Begin, SendEnds, Poll, Typed
  <2> QED
    BY <1>0, <2>1 DEF IInv, Typed, Judged, Running, Served
<1>2. ASSUME NEW r \in Requests, Disconnect(r)
      PROVE  IInv'
  <2>1. /\ pc[r] \in {"app", "send"}
        /\ status' = [status EXCEPT ![r] = Disconnected(r)]
        /\ history' = [history EXCEPT ![r].early = history[r].early \/ ~complete[r]]
        /\ UNCHANGED <<pc, complete, event>>
    BY <1>0, <1>2 DEF Disconnect, Typed
  <2>2. Typed'
    <3>1. Disconnected(r) \in Status
      BY <1>0 DEF Typed, Disconnected, Status
    <3>2. status' \in [Requests -> Status]
      BY <1>0, <2>1, <3>1 DEF Typed
    <3>3. history' \in [Requests -> [start : {"none", "good", "bad"}, early : BOOLEAN,
                                     left : {"no", "returned", "raised", "cancelled"}]]
      <4> DEFINE Early == history[r].early \/ ~complete[r]
                 Kind == [start : {"none", "good", "bad"}, early : BOOLEAN,
                          left : {"no", "returned", "raised", "cancelled"}]
      <4>1. Early \in BOOLEAN
        OBVIOUS
      <4>2. history' = [history EXCEPT ![r].early = Early] /\ history \in [Requests -> Kind]
        BY <1>0, <2>1 DEF Typed
      <4> HIDE DEF Early
      <4>3. [history[r] EXCEPT !.early = Early] \in Kind
        BY <4>1, <4>2
      <4> HIDE DEF Kind
      <4>4. history' \in [Requests -> Kind]
        BY <4>2, <4>3
      <4> QED
        BY <4>4 DEF Kind
    <3> QED
      BY <1>0, <2>1, <3>2, <3>3 DEF Typed
  <2>3. ASSUME NEW q \in Requests
        PROVE  /\ pc'[q] # "done" => Running(q)'
               /\ event'[q] # "none" => (event'[q] = "ok" <=> Served(q)')
    <3>1. CASE q = r
      <4>1. /\ status'[r] = Disconnected(r)
            /\ history'[r].start = history[r].start /\ history'[r].left = history[r].left
            /\ history'[r].early = (history[r].early \/ ~complete[r])
        BY <1>0, <2>1 DEF Typed
      <4>2. Running(r)
        BY <1>0, <2>1 DEF Judged
      <4>3. history[r].early \in BOOLEAN /\ complete[r] \in BOOLEAN
        BY <1>0 DEF Typed
      <4>4. event'[q] = "none"
        BY <2>1, <3>1, <4>2 DEF Running
      <4>5. status'[r] = "ok" <=> history'[r].start # "bad" /\ ~history'[r].early
        BY <4>1, <4>2, <4>3 DEF Running, Disconnected
      <4> QED
        BY <2>1, <3>1, <4>1, <4>2, <4>4, <4>5 DEF Running
    <3>2. CASE q # r
      BY <1>0, <2>1, <3>2 DEF Typed, Judged, Running, Served
    <3> QED
      BY <3>1, <3>2
  <2> QED
    BY <2>2, <2>3 DEF IInv, Judged
<1>3. ASSUME NEW r \in Requests, NEW class \in {"good", "bad"}, Start(r, class)
      PROVE  IInv'
  <2>1. /\ pc[r] = "app" /\ history[r].start = "none"
        /\ status' = [status EXCEPT ![r] = IF class = "bad" THEN "error" ELSE status[r]]
        /\ history' = [history EXCEPT ![r].start = class]
        /\ pc' = [pc EXCEPT ![r] = "send"]
        /\ UNCHANGED <<complete, event>>
    BY <1>0, <1>3 DEF Start, Responded, Typed
  <2>2. Typed'
    BY <1>0, <2>1 DEF Typed, Status
  <2>3. ASSUME NEW q \in Requests
        PROVE  /\ pc'[q] # "done" => Running(q)'
               /\ event'[q] # "none" => (event'[q] = "ok" <=> Served(q)')
    <3>1. CASE q = r
      BY <1>0, <2>1, <3>1 DEF Typed, Judged, Running, Served
    <3>2. CASE q # r
      BY <1>0, <2>1, <3>2 DEF Typed, Judged, Running, Served
    <3> QED
      BY <3>1, <3>2
  <2> QED
    BY <2>2, <2>3 DEF IInv, Judged
<1>4. ASSUME NEW r \in Requests, NEW kind, NEW more \in BOOLEAN, Body(r, kind, more)
      PROVE  IInv'
  <2>1. /\ pc[r] = "app" /\ history[r].start # "none"
        /\ complete' = [complete EXCEPT ![r] = ~more]
        /\ pc' = [pc EXCEPT ![r] = "send"]
        /\ UNCHANGED <<status, history, event>>
    BY <1>4 DEF Body
  <2>2. Typed'
    BY <1>0, <2>1 DEF Typed
  <2>3. ASSUME NEW q \in Requests
        PROVE  /\ pc'[q] # "done" => Running(q)'
               /\ event'[q] # "none" => (event'[q] = "ok" <=> Served(q)')
    BY <1>0, <2>1 DEF Typed, Judged, Running, Served
  <2> QED
    BY <2>2, <2>3 DEF IInv, Judged
<1>5. ASSUME NEW r \in Requests, AppReturns(r)
      PROVE  IInv'
  <2>1. /\ Returned(r) \in Status /\ pc[r] = "app" /\ Running(r)
        /\ history[r].start \in {"none", "good", "bad"}
    BY <1>0, <1>5 DEF AppReturns, Returned, Typed, Status, Judged
  <2>2. Returned(r) = "ok" <=> /\ complete[r]
                               /\ history[r].start = "good" /\ ~history[r].early
    BY <2>1 DEF Returned, Running
  <2> QED
    BY <1>5, <2>1, <2>2, LeaveIInv DEF AppReturns
<1>6. ASSUME NEW r \in Requests, AppRaises(r)
      PROVE  IInv'
  BY <1>6, LeaveIInv DEF AppRaises, Status
<1>7. ASSUME NEW r \in Requests, Cancel(r)
      PROVE  IInv'
  BY <1>7, LeaveIInv DEF Cancel, Status
<1>8. CASE UNCHANGED vars
  BY <1>0, <1>8 DEF vars, IInv, Typed, Judged, Running, Served
<1> QED
  BY <1>1, <1>2, <1>3, <1>4, <1>5, <1>6, <1>7, <1>8 DEF Next

LEMMA Inductive == Spec => []IInv
<1>1. Init => IInv
  BY InitIInv
<1>2. IInv /\ [Next]_vars => IInv'
  BY StepIInv
<1> QED
  BY <1>1, <1>2, PTL DEF Spec

(* No order of disconnects, chunks, errors and cancellations makes an event *)
(* ok whose request was not served, captured content or not.               *)
THEOREM OkMeansServed == Spec => []OkIsServed
<1>1. IInv => OkIsServed
  BY DEF IInv, Judged, OkIsServed
<1> QED
  BY <1>1, Inductive, PTL

(* However long the application polls: what was served is reported ok.     *)
THEOREM ServedMeansOk == Spec => []ServedIsOk
<1>1. IInv => ServedIsOk
  BY DEF IInv, Judged, ServedIsOk
<1> QED
  BY <1>1, Inductive, PTL
-----------------------------------------------------------------------------
(* The gauge and the counters, without content capture. *)

LEMMA SetFacts ==
  /\ IsFiniteSet(Flying) /\ Cardinality(Flying) \in Nat
  /\ IsFiniteSet(Entered) /\ Cardinality(Entered) \in Nat
<1>1. Flying \in SUBSET Requests /\ Entered \in SUBSET Requests
  BY DEF Flying, Entered
<1> QED
  BY <1>1, RequestsAssumption, FS_Subset, FS_CardinalityType

LEMMA AccountsMeaning ==
  InflightAndCounted <=>
    /\ inflight = Cardinality(Flying)
    /\ Cardinality(Entered)
         = inflight + requests["ok"] + requests["error"] + requests["cancelled"]
  BY DEF InflightAndCounted, Flying, Entered

LEMMA InitAccounts == Init => Accounts
<1> SUFFICES ASSUME Init PROVE Accounts
  OBVIOUS
<1>1. Flying = {} /\ Entered = {}
  BY DEF Init, Flying, Entered
<1>2. InflightAndCounted
  BY <1>1, AccountsMeaning, FS_EmptySet DEF Init, Status
<1> QED
  BY <1>2 DEF Init, Accounts, EveryRequestReported, Status

(* Nothing is captured, so the finally clause runs to its end. *)
LEMMA LeaveAccounts ==
  ASSUME Accounts, NEW r \in Requests, pc[r] \in {"app", "send"},
         NEW how, NEW final \in Status, Leave(r, how, final)
  PROVE  Accounts'
<1>1. /\ pc' = [pc EXCEPT ![r] = "done"] /\ body' = body
      /\ inflight' = inflight - 1
      /\ event' = [event EXCEPT ![r] = final]
      /\ requests' = [requests EXCEPT ![final] = requests[final] + 1]
  <2>1. ~ParseRaises(r)
    BY DEF Accounts, ParseRaises
  <2>2. requests' = [requests EXCEPT ![final] = requests[final] + 1]
    BY <2>1 DEF Leave, Inc, Accounts
  <2> QED
    BY <2>1, <2>2 DEF Leave, Dec
<1>2. pc \in [Requests -> {"new", "app", "send", "done"}]
  BY DEF Accounts
<1>3. Flying' = Flying \ {r} /\ r \in Flying /\ Entered' = Entered
  BY <1>1, <1>2 DEF Flying, Entered
<1>4. Cardinality(Flying') = Cardinality(Flying) - 1
  BY <1>3, SetFacts, FS_RemoveElement
<1>5. Cardinality(Flying') \in Nat
  BY <1>3, SetFacts, FS_RemoveElement, FS_CardinalityType
<1>6. inflight = Cardinality(Flying) /\ inflight' \in Nat /\ inflight' = Cardinality(Flying')
  BY <1>1, <1>4, <1>5, AccountsMeaning DEF Accounts
<1>7. /\ requests' \in [Status -> Nat]
      /\ requests'["ok"] + requests'["error"] + requests'["cancelled"]
           = requests["ok"] + requests["error"] + requests["cancelled"] + 1
  BY <1>1 DEF Accounts, Status
<1>8. requests["ok"] \in Nat /\ requests["error"] \in Nat /\ requests["cancelled"] \in Nat
      /\ requests'["ok"] \in Nat /\ requests'["error"] \in Nat
      /\ requests'["cancelled"] \in Nat /\ inflight \in Nat
  BY <1>7 DEF Accounts, Status
<1>9. Cardinality(Entered')
        = inflight' + requests'["ok"] + requests'["error"] + requests'["cancelled"]
  BY <1>1, <1>3, <1>6, <1>7, <1>8, AccountsMeaning DEF Accounts
<1>10. InflightAndCounted'
  BY <1>6, <1>9 DEF InflightAndCounted, Flying, Entered
<1>11. EveryRequestReported'
  <2>1. \A q \in Requests : event'[q] = IF q = r THEN final ELSE event[q]
    BY <1>1 DEF Accounts
  <2>2. \A q \in Requests : pc'[q] = IF q = r THEN "done" ELSE pc[q]
    BY <1>1, <1>2
  <2>3. final # "none"
    BY DEF Status
  <2> QED
    BY <2>1, <2>2, <2>3 DEF Accounts, EveryRequestReported
<1>12. event' \in [Requests -> Status \cup {"none"}]
  BY <1>1 DEF Accounts
<1> QED
  BY <1>1, <1>2, <1>6, <1>7, <1>10, <1>11, <1>12 DEF Accounts

LEMMA StepAccounts ==
  ASSUME CaptureContent = FALSE, IInv, Accounts, [Next]_vars
  PROVE  Accounts'
<1> USE DEF reported
<1>0. /\ pc \in [Requests -> {"new", "app", "send", "done"}]
      /\ inflight \in Nat /\ requests \in [Status -> Nat]
  BY DEF Accounts
<1>a. /\ inflight = Cardinality(Flying)
      /\ Cardinality(Entered)
           = inflight + requests["ok"] + requests["error"] + requests["cancelled"]
  BY AccountsMeaning DEF Accounts
<1>1. ASSUME NEW r \in Requests, Begin(r)
      PROVE  Accounts'
  <2>1. /\ pc[r] = "new" /\ pc' = [pc EXCEPT ![r] = "app"]
        /\ inflight' = inflight + 1 /\ UNCHANGED <<body, event, requests>>
    BY <1>1 DEF Begin, Inc
  <2>2. /\ Flying' = Flying \cup {r} /\ r \notin Flying
        /\ Entered' = Entered \cup {r} /\ r \notin Entered
    BY <1>0, <2>1 DEF Flying, Entered
  <2>3. /\ Cardinality(Flying') = Cardinality(Flying) + 1
        /\ Cardinality(Entered') = Cardinality(Entered) + 1
    BY <2>2, SetFacts, FS_AddElement
  <2>4. /\ requests["ok"] \in Nat /\ requests["error"] \in Nat
        /\ requests["cancelled"] \in Nat
    BY <1>0 DEF Status
  <2>5. InflightAndCounted'
    <3>1. inflight' = Cardinality(Flying')
      BY <1>a, <2>1, <2>3
    <3>2. Cardinality(Entered')
            = inflight' + requests'["ok"] + requests'["error"] + requests'["cancelled"]
      BY <1>0, <1>a, <2>1, <2>3, <2>4
    <3> QED
      BY <3>1, <3>2 DEF InflightAndCounted, Flying, Entered
  <2>6. EveryRequestReported'
    BY <1>0, <2>1 DEF Accounts, EveryRequestReported
  <2> QED
    BY <1>0, <2>1, <2>5, <2>6 DEF Accounts
<1>2. ASSUME NEW r \in Requests,
             \/ Poll(r) \/ Disconnect(r) \/ SendEnds(r)
             \/ \E class \in {"good", "bad"} : Start(r, class)
             \/ \E kind \in {"empty", "plain", "odd"}, more \in BOOLEAN : Body(r, kind, more)
      PROVE  Accounts'
  <2>1. /\ UNCHANGED <<inflight, requests, event>>
        /\ body' = body
        /\ pc' = pc \/ (pc[r] = "app" /\ pc' = [pc EXCEPT ![r] = "send"])
                    \/ (pc[r] = "send" /\ pc' = [pc EXCEPT ![r] = "app"])
    BY <1>2 DEF Poll, Disconnect, SendEnds, Start, Body, Accounts
  <2>2. /\ pc' \in [Requests -> {"new", "app", "send", "done"}]
        /\ \A q \in Requests : /\ pc'[q] \in {"app", "send"} <=> pc[q] \in {"app", "send"}
                               /\ pc'[q] = "new" <=> pc[q] = "new"
                               /\ pc'[q] = "done" <=> pc[q] = "done"
    BY <1>0, <2>1
  <2>3. Flying' = Flying /\ Entered' = Entered
    BY <2>2 DEF Flying, Entered
  <2>4. InflightAndCounted'
    BY <1>a, <2>1, <2>3 DEF InflightAndCounted, Flying, Entered
  <2>5. EveryRequestReported'
    BY <2>1, <2>2 DEF Accounts, EveryRequestReported
  <2> QED
    BY <2>1, <2>2, <2>4, <2>5 DEF Accounts
<1>3. ASSUME NEW r \in Requests, AppReturns(r)
      PROVE  Accounts'
  <2>1. Returned(r) \in Status
    BY DEF Returned, IInv, Typed, Status
  <2> QED
    BY <1>3, <2>1, LeaveAccounts DEF AppReturns
<1>4. ASSUME NEW r \in Requests, AppRaises(r) \/ Cancel(r)
      PROVE  Accounts'
  BY <1>4, LeaveAccounts DEF AppRaises, Cancel, Status
<1>5. CASE UNCHANGED vars
  BY <1>5 DEF vars, Accounts, InflightAndCounted, EveryRequestReported
<1> QED
  BY <1>1, <1>2, <1>3, <1>4, <1>5 DEF Next

LEMMA AccountsInductive ==
  ASSUME CaptureContent = FALSE
  PROVE  Spec => []Accounts
<1>1. Init => Accounts
  BY InitAccounts
<1>2. IInv /\ Accounts /\ [Next]_vars => Accounts'
  BY StepAccounts
<1> QED
  BY <1>1, <1>2, Inductive, PTL DEF Spec

(* Without content capture every request gives one event, however it ends.  *)
THEOREM AllReported ==
  ASSUME CaptureContent = FALSE
  PROVE  Spec => []EveryRequestReported
<1>1. Accounts => EveryRequestReported
  BY DEF Accounts
<1> QED
  BY <1>1, AccountsInductive, PTL

(* Without content capture the gauge and the counters agree with any number *)
(* of overlapping requests.                                                *)
THEOREM GaugeAndCounters ==
  ASSUME CaptureContent = FALSE
  PROVE  Spec => []InflightAndCounted
<1>1. Accounts => InflightAndCounted
  BY DEF Accounts
<1> QED
  BY <1>1, AccountsInductive, PTL
-----------------------------------------------------------------------------
(* The loop of FilterChain.process, for a chain of any length.             *)

(* The step of the loop, and the loop as a function of itself. *)
Begun == [holds |-> 0, saw |-> [j \in 1..Filters |-> -1], on |-> TRUE]

Iterate(outs, i, before) ==
  IF ~before.on THEN before
  ELSE [holds |-> IF outs[i] = "event" THEN i ELSE before.holds,
        saw   |-> [before.saw EXCEPT ![i] = before.holds],
        on    |-> ~Stops(outs[i])]

Loop(outs, f, n) == [i \in 0..n |-> IF i = 0 THEN Begun ELSE Iterate(outs, i, f[i - 1])]

Loops(outs) == CHOOSE f : f = Loop(outs, f, Filters)

(* What filter i is given according to the contract. *)
Ended(outs, i) == \E j \in 1..(i - 1) : outs[j] = "none"
Due(outs, i)   == IF Ended(outs, i) THEN -1 ELSE Max(Passed(outs, i) \cup {0})

LEMMA SetInduction ==
  ASSUME NEW S, 0 \in S, \A n \in Nat : n \in S => n + 1 \in S
  PROVE  Nat \subseteq S
<1> DEFINE T == Nat \ S
<1> SUFFICES ASSUME T # {} PROVE FALSE
  OBVIOUS
<1>1. PICK x \in T : \A y \in T : <<y, x>> \notin OpToRel(<, Nat)
  BY WFMin, NatLessThanWellFounded
<1>2. x \in Nat /\ x # 0 /\ x - 1 \in Nat /\ x - 1 < x /\ x = (x - 1) + 1
  <2>1. x \in Nat /\ x \notin S
    BY <1>1
  <2>2. x # 0
    BY <2>1
  <2> QED
    BY <2>1, <2>2
<1>3. x - 1 \notin T
  <2>1. <<x - 1, x>> \in OpToRel(<, Nat)
    BY <1>2 DEF OpToRel
  <2> QED
    BY <1>1, <2>1
<1> QED
  BY <1>1, <1>2, <1>3

LEMMA LoopsExists ==
  ASSUME NEW outs
  PROVE  /\ Loops(outs)[0] = Begun
         /\ \A i \in 1..Filters : Loops(outs)[i] = Iterate(outs, i, Loops(outs)[i - 1])
<1> DEFINE S == {n \in Nat : \E f : f = Loop(outs, f, n)}
<1>1. 0 \in S
  <2> DEFINE f == [i \in 0..0 |-> Begun]
  <2>1. f = Loop(outs, f, 0)
    BY DEF Loop
  <2> HIDE DEF f
  <2> QED
    BY <2>1
<1>2. ASSUME NEW n \in Nat, n \in S PROVE n + 1 \in S
  <2>1. PICK f : f = Loop(outs, f, n)
    BY <1>2
  <2>2. /\ \A i \in 0..n : f[i] = IF i = 0 THEN Begun ELSE Iterate(outs, i, f[i - 1])
    BY <2>1 DEF Loop
  <2> DEFINE g == [i \in 0..(n + 1) |-> IF i = n + 1 THEN Iterate(outs, n + 1, f[n])
                                                     ELSE f[i]]
  <2>3. \A i \in 0..n : g[i] = f[i]
    OBVIOUS
  <2>4. g[n + 1] = Iterate(outs, n + 1, f[n])
    OBVIOUS
  <2>5. g = [i \in 0..(n + 1) |-> g[i]]
    OBVIOUS
  <2> HIDE DEF g
  <2>6. ASSUME NEW i \in 0..(n + 1)
        PROVE  g[i] = IF i = 0 THEN Begun ELSE Iterate(outs, i, g[i - 1])
    <3>1. CASE i = n + 1
      <4>1. i - 1 = n /\ n \in 0..n /\ i # 0
        BY <3>1
      <4> QED
        BY <2>3, <2>4, <3>1, <4>1
    <3>2. CASE i = 0
      <4>1. 0 \in 0..n
        OBVIOUS
      <4> QED
        BY <2>2, <2>3, <3>2, <4>1
    <3>3. CASE i \in 1..n
      <4>1. i \in 0..n /\ i - 1 \in 0..n /\ i # 0
        BY <3>3
      <4> QED
        BY <2>2, <2>3, <4>1
    <3> QED
      BY <3>1, <3>2, <3>3
  <2>7. g = Loop(outs, g, n + 1)
    BY <2>5, <2>6 DEF Loop
  <2> QED
    BY <2>7
<1> HIDE DEF S
<1>3. Filters \in S
  BY <1>1, <1>2, SetInduction, FiltersAssumption
<1>4. \E f : f = Loop(outs, f, Filters)
  BY <1>3 DEF S
<1>5. Loops(outs) = Loop(outs, Loops(outs), Filters)
  BY <1>4 DEF Loops
<1>6. \A i \in 0..Filters : Loops(outs)[i] =
        IF i = 0 THEN Begun ELSE Iterate(outs, i, Loops(outs)[i - 1])
  <2> DEFINE F == Loops(outs)
  <2>1. F = Loop(outs, F, Filters)
    BY <1>5
  <2> HIDE DEF F
  <2>2. \A i \in 0..Filters : F[i] = IF i = 0 THEN Begun ELSE Iterate(outs, i, F[i - 1])
    BY <2>1 DEF Loop
  <2> QED
    BY <2>2 DEF F
<1> QED
  BY <1>6, FiltersAssumption

LEMMA ChainIsLoop ==
  ASSUME NEW outs
  PROVE  Chain(outs) = Loops(outs)[Filters]
  BY DEF Chain, Loops, Loop, Iterate, Begun

(* What the loop holds after i filters is the event of the last filter     *)
(* that returned one.                                                      *)
Last(outs, i, h) ==
  /\ h \in 0..i
  /\ h # 0 => outs[h] = "event"
  /\ \A j \in 1..i : outs[j] = "event" => j <= h

LEMMA LastIsMax ==
  ASSUME NEW outs, NEW i \in Nat, NEW h, Last(outs, i, h)
  PROVE  h = Max(Passed(outs, i + 1) \cup {0})
<1> DEFINE S == Passed(outs, i + 1) \cup {0}
<1>1. i + 1 - 1 = i
  OBVIOUS
<1>2. Passed(outs, i + 1) = {j \in 1..i : outs[j] = "event"}
  BY <1>1 DEF Passed
<1>3. h \in S /\ (\A y \in S : h >= y) /\ h \in Nat /\ \A y \in S : y \in Nat
  BY <1>2 DEF Last
<1> HIDE DEF S
<1>4. \A x \in S : (\A y \in S : x >= y) => x = h
  BY <1>3
<1>5. Max(S) = CHOOSE x \in S : \A y \in S : x >= y
  BY DEF Max
<1>6. Max(S) \in S /\ \A y \in S : Max(S) >= y
  BY <1>3, <1>5
<1> QED
  BY <1>4, <1>6 DEF S

(* The state of the loop after i filters. *)
LoopInvariant(outs, i, s) ==
  /\ s = [holds |-> s.holds, saw |-> s.saw, on |-> s.on]
  /\ s.saw = [j \in 1..Filters |-> s.saw[j]]
  /\ s.on <=> ~Ended(outs, i + 1)
  /\ s.on => Last(outs, i, s.holds)
  /\ \A j \in 1..i : s.saw[j] = Due(outs, j)
  /\ \A j \in (i + 1)..Filters : s.saw[j] = -1

LEMMA LoopStep ==
  ASSUME NEW outs, NEW i \in 1..Filters, NEW s, LoopInvariant(outs, i - 1, s)
  PROVE  LoopInvariant(outs, i, Iterate(outs, i, s))
<1> DEFINE t == Iterate(outs, i, s)
<1>0. /\ i \in Nat /\ i - 1 \in Nat /\ (i - 1) + 1 = i /\ Filters \in Nat
      /\ 1..(i + 1 - 1) = 1..i /\ i \in 1..i /\ 1..i = 1..(i - 1) \cup {i}
  BY FiltersAssumption
<1>a. /\ i \in i..Filters
      /\ \A j \in (i + 1)..Filters : j \in i..Filters /\ j \in 1..Filters /\ j # i
      /\ \A j \in 1..i : j \in 1..Filters /\ (j # i => j \in 1..(i - 1))
  BY <1>0
<1>1. /\ s = [holds |-> s.holds, saw |-> s.saw, on |-> s.on]
      /\ s.saw = [j \in 1..Filters |-> s.saw[j]]
      /\ s.on <=> ~Ended(outs, i)
      /\ s.on => Last(outs, i - 1, s.holds)
      /\ \A j \in 1..(i - 1) : s.saw[j] = Due(outs, j)
      /\ \A j \in i..Filters : s.saw[j] = -1
  BY <1>0 DEF LoopInvariant
<1>2. Ended(outs, i + 1) <=> Ended(outs, i) \/ outs[i] = "none"
  BY <1>0 DEF Ended
<1>3. CASE ~s.on
  <2>1. t = s
    BY <1>3 DEF Iterate
  <2>2. s.saw[i] = Due(outs, i)
    <3>1. s.saw[i] = -1 /\ Ended(outs, i)
      BY <1>a, <1>1, <1>3
    <3> QED
      BY <3>1 DEF Due
  <2>3. \A j \in 1..i : s.saw[j] = Due(outs, j)
    BY <1>a, <1>1, <2>2
  <2>4. \A j \in (i + 1)..Filters : s.saw[j] = -1
    BY <1>a, <1>1
  <2> HIDE DEF t
  <2> QED
    BY <1>1, <1>2, <1>3, <2>1, <2>3, <2>4 DEF LoopInvariant, t
<1>4. CASE s.on
  <2> DEFINE h == IF outs[i] = "event" THEN i ELSE s.holds
             w == [s.saw EXCEPT ![i] = s.holds]
  <2>1. t = [holds |-> h, saw |-> w, on |-> ~Stops(outs[i])]
    BY <1>4 DEF Iterate
  <2>2. t.holds = h /\ t.saw = w /\ t.on = ~Stops(outs[i])
    BY <2>1
  <2>3. t.on <=> ~Ended(outs, i + 1)
    BY <1>1, <1>2, <1>4, <2>2 DEF Stops
  <2>4. Last(outs, i - 1, s.holds) /\ s.holds = Due(outs, i)
    <3>1. s.holds = Max(Passed(outs, i) \cup {0})
      <4>1. i - 1 \in Nat /\ (i - 1) + 1 = i
        BY <1>0
      <4>2. Last(outs, i - 1, s.holds)
        BY <1>1, <1>4
      <4>3. s.holds = Max(Passed(outs, (i - 1) + 1) \cup {0})
        BY <4>1, <4>2, LastIsMax
      <4> QED
        BY <4>1, <4>3
    <3> QED
      BY <1>1, <1>4, <3>1 DEF Due
  <2>5. Last(outs, i, h)
    BY <1>0, <2>4 DEF Last
  <2>6. \A j \in 1..Filters : w[j] = IF j = i THEN s.holds ELSE s.saw[j]
    BY <1>1
  <2>7. w = [j \in 1..Filters |-> w[j]]
    BY <1>1
  <2> HIDE DEF w, h
  <2>8. \A j \in 1..i : w[j] = Due(outs, j)
    BY <1>a, <1>1, <2>4, <2>6
  <2>9. \A j \in (i + 1)..Filters : w[j] = -1
    BY <1>a, <1>1, <2>6
  <2>10. t = [holds |-> t.holds, saw |-> t.saw, on |-> t.on]
    BY <2>1, <2>2
  <2> HIDE DEF t
  <2> QED
    BY <2>2, <2>3, <2>5, <2>7, <2>8, <2>9, <2>10 DEF LoopInvariant, t
<1> QED
  BY <1>3, <1>4

LEMMA ChainContract ==
  ASSUME NEW outs
  PROVE  /\ Chain(outs).saw = [i \in 1..Filters |-> Chain(outs).saw[i]]
         /\ \A i \in 1..Filters : Chain(outs).saw[i] = Due(outs, i)
<1> DEFINE S == {n \in Nat : n <= Filters => LoopInvariant(outs, n, Loops(outs)[n])}
<1>0. Filters \in Nat
  BY FiltersAssumption
<1>1. 0 \in S
  <2>1. LoopInvariant(outs, 0, Begun)
    <3>1. /\ Begun.holds = 0 /\ Begun.saw = [j \in 1..Filters |-> -1] /\ Begun.on = TRUE
          /\ Begun = [holds |-> Begun.holds, saw |-> Begun.saw, on |-> Begun.on]
      BY DEF Begun
    <3>2. ~Ended(outs, 0 + 1) /\ Last(outs, 0, 0)
      BY DEF Ended, Last
    <3> QED
      BY <1>0, <3>1, <3>2 DEF LoopInvariant
  <2> QED
    BY <2>1, LoopsExists
<1>2. ASSUME NEW n \in Nat, n \in S PROVE n + 1 \in S
  <2> SUFFICES ASSUME n + 1 <= Filters
               PROVE  LoopInvariant(outs, n + 1, Loops(outs)[n + 1])
    OBVIOUS
  <2>1. n + 1 \in 1..Filters /\ (n + 1) - 1 = n /\ n <= Filters
    BY <1>0
  <2>2. Loops(outs)[n + 1] = Iterate(outs, n + 1, Loops(outs)[n])
    BY <2>1, LoopsExists
  <2>3. LoopInvariant(outs, (n + 1) - 1, Loops(outs)[n])
    BY <1>2, <2>1
  <2> QED
    BY <2>1, <2>2, <2>3, LoopStep
<1> HIDE DEF S
<1>3. Filters \in S
  BY <1>0, <1>1, <1>2, SetInduction
<1>4. LoopInvariant(outs, Filters, Chain(outs))
  BY <1>0, <1>3, ChainIsLoop DEF S
<1> QED
  BY <1>4 DEF LoopInvariant

(* A filter is given an event or is not called. *)
LEMMA DueType ==
  ASSUME NEW outs, NEW i \in 1..Filters
  PROVE  Due(outs, i) \in -1..Filters /\ (Due(outs, i) = -1 <=> Ended(outs, i))
<1> DEFINE S == {n \in Nat : \E h : Last(outs, n, h)}
<1>1. 0 \in S
  BY DEF Last
<1>2. ASSUME NEW n \in Nat, n \in S PROVE n + 1 \in S
  <2>1. PICK h : Last(outs, n, h)
    BY <1>2
  <2>2. Last(outs, n + 1, IF outs[n + 1] = "event" THEN n + 1 ELSE h)
    BY <2>1 DEF Last
  <2> QED
    BY <2>2
<1> HIDE DEF S
<1>3. i \in Nat /\ i - 1 \in Nat /\ (i - 1) + 1 = i /\ Filters \in Nat
  BY FiltersAssumption
<1>4. i - 1 \in S
  BY <1>1, <1>2, <1>3, SetInduction
<1>5. PICK h : Last(outs, i - 1, h)
  BY <1>4 DEF S
<1>6. h = Max(Passed(outs, i) \cup {0})
  BY <1>3, <1>5, LastIsMax
<1>7. h \in 0..(i - 1)
  BY <1>5 DEF Last
<1> QED
  BY <1>3, <1>6, <1>7 DEF Due

(* What the filters did, as far as they were called, says the same. *)
LEMMA DueOfCalled ==
  ASSUME NEW outs, NEW did2,
         \A i \in 1..Filters :
           did2[i] = IF Due(outs, i) = -1 THEN "event" ELSE outs[i]
  PROVE  \A i \in 1..Filters : Due(did2, i) = Due(outs, i)
<1>0. Filters \in Nat
  BY FiltersAssumption
<1>1. \A i \in 1..Filters : did2[i] = IF Ended(outs, i) THEN "event" ELSE outs[i]
  BY DueType
<1>2. ASSUME NEW i \in 1..Filters, ~Ended(outs, i)
      PROVE  Due(did2, i) = Due(outs, i)
  <2>1. \A j \in 1..(i - 1) : j \in 1..Filters /\ ~Ended(outs, j)
    BY <1>0, <1>2 DEF Ended
  <2>2. \A j \in 1..(i - 1) : did2[j] = outs[j]
    BY <1>1, <2>1
  <2>3. ~Ended(did2, i)
    BY <1>2, <2>2 DEF Ended
  <2>4. Passed(did2, i) = Passed(outs, i)
    BY <2>2 DEF Passed
  <2> QED
    BY <1>2, <2>3, <2>4 DEF Due
<1>3. ASSUME NEW i \in 1..Filters, Ended(outs, i)
      PROVE  Ended(did2, i)
  <2> DEFINE T == {j \in 1..(i - 1) : outs[j] = "none"}
  <2>1. T # {} /\ T \subseteq Nat
    BY <1>3 DEF Ended
  <2>2. PICK x \in T : \A y \in T : <<y, x>> \notin OpToRel(<, Nat)
    BY <2>1, WFMin, NatLessThanWellFounded
  <2>3. x \in 1..(i - 1) /\ outs[x] = "none" /\ x \in 1..Filters /\ x \in Nat
    <3>1. x \in 1..(i - 1) /\ outs[x] = "none"
      BY <2>2
    <3> HIDE DEF T
    <3> QED
      BY <1>0, <3>1
  <2>4. ~Ended(outs, x)
    <3> SUFFICES ASSUME NEW j \in 1..(x - 1), outs[j] = "none" PROVE FALSE
      BY DEF Ended
    <3>1. j \in T /\ j \in Nat /\ j < x
      BY <2>3
    <3>2. <<j, x>> \in OpToRel(<, Nat)
      BY <2>3, <3>1 DEF OpToRel
    <3> QED
      BY <2>2, <3>1, <3>2
  <2> QED
    BY <1>1, <2>3, <2>4 DEF Ended
<1> QED
  BY <1>2, <1>3 DEF Due
-----------------------------------------------------------------------------
(* What the chain of a request was given and did. *)
Chained ==
  /\ event \in [Requests -> Status \cup {"none"}]
  /\ saw \in [Requests -> [1..Filters -> -1..Filters]]
  /\ did \in [Requests -> [1..Filters -> Outcomes]]
  /\ FilterContract

LEMMA ContractMeaning ==
  FilterContract <=> \A r \in Requests : event[r] # "none" =>
                       \A i \in 1..Filters : saw[r][i] = Due(did[r], i)
  BY DEF FilterContract, Due, Ended

LEMMA InitChained == Init => Chained
<1> SUFFICES ASSUME Init PROVE Chained
  OBVIOUS
<1>1. -1 \in -1..Filters /\ "event" \in Outcomes
  BY FiltersAssumption DEF Outcomes
<1> QED
  BY <1>1 DEF Init, Chained, FilterContract

LEMMA LeaveChained ==
  ASSUME Chained, NEW r \in Requests, NEW how, NEW final \in Status,
         Leave(r, how, final)
  PROVE  Chained'
<1>1. CASE ParseRaises(r)
  <2>1. UNCHANGED <<event, saw, did>>
    BY <1>1 DEF Leave, reported
  <2> QED
    BY <2>1 DEF Chained, FilterContract
<1>2. CASE ~ParseRaises(r)
  <2>1. event' = [event EXCEPT ![r] = final]
    BY <1>2 DEF Leave
  <2>2. PICK outs \in [1..Filters -> Outcomes] :
          /\ saw' = [saw EXCEPT ![r] = Chain(outs).saw]
          /\ did' = [did EXCEPT ![r] = [i \in 1..Filters |->
                       IF saw'[r][i] = -1 THEN "event" ELSE outs[i]]]
    BY <1>2 DEF Leave
  <2> DEFINE mine == Chain(outs).saw
             done == [i \in 1..Filters |-> IF mine[i] = -1 THEN "event" ELSE outs[i]]
  <2>3. /\ mine = [i \in 1..Filters |-> mine[i]]
        /\ \A i \in 1..Filters : mine[i] = Due(outs, i)
    BY ChainContract
  <2>4. /\ event \in [Requests -> Status \cup {"none"}]
        /\ saw \in [Requests -> [1..Filters -> -1..Filters]]
        /\ did \in [Requests -> [1..Filters -> Outcomes]]
    BY DEF Chained
  <2>5. saw'[r] = mine
    BY <2>2, <2>4
  <2>6. did' = [did EXCEPT ![r] = done] /\ saw' = [saw EXCEPT ![r] = mine]
    BY <2>2, <2>5
  <2> HIDE DEF mine
  <2>7. done \in [1..Filters -> Outcomes]
    BY DEF Outcomes
  <2>8. mine \in [1..Filters -> -1..Filters]
    <3>1. \A i \in 1..Filters : mine[i] \in -1..Filters
      BY <2>3, DueType
    <3> QED
      BY <2>3, <3>1
  <2>9. \A i \in 1..Filters : mine[i] = Due(done, i)
    <3>1. \A i \in 1..Filters : done[i] = IF Due(outs, i) = -1 THEN "event" ELSE outs[i]
      BY <2>3
    <3> HIDE DEF done
    <3> QED
      BY <2>3, <3>1, DueOfCalled
  <2> HIDE DEF done
  <2>10. /\ event' \in [Requests -> Status \cup {"none"}]
         /\ saw' \in [Requests -> [1..Filters -> -1..Filters]]
         /\ did' \in [Requests -> [1..Filters -> Outcomes]]
    BY <2>1, <2>4, <2>6, <2>7, <2>8
  <2>11. ASSUME NEW q \in Requests, event'[q] # "none", NEW i \in 1..Filters
         PROVE  saw'[q][i] = Due(did'[q], i)
    <3>1. CASE q = r
      <4>1. saw'[q] = mine /\ did'[q] = done
        BY <2>4, <2>6, <3>1
      <4> QED
        BY <2>9, <4>1
    <3>2. CASE q # r
      <4>1. saw'[q] = saw[q] /\ did'[q] = did[q] /\ event'[q] = event[q]
        BY <2>1, <2>4, <2>6, <3>2
      <4> QED
        BY <2>11, <4>1, ContractMeaning DEF Chained
    <3> QED
      BY <3>1, <3>2
  <2>12. FilterContract'
    BY <2>11 DEF FilterContract, Due, Ended, Passed
  <2> QED
    BY <2>10, <2>12 DEF Chained
<1> QED
  BY <1>1, <1>2

LEMMA StepChained ==
  ASSUME IInv, Chained, [Next]_vars
  PROVE  Chained'
<1>1. ASSUME UNCHANGED <<event, saw, did>>
      PROVE  Chained'
  BY <1>1 DEF Chained, FilterContract
<1>2. ASSUME NEW r \in Requests,
             \/ Begin(r) \/ Poll(r) \/ Disconnect(r) \/ SendEnds(r)
             \/ \E class \in {"good", "bad"} : Start(r, class)
             \/ \E kind \in {"empty", "plain", "odd"}, more \in BOOLEAN : Body(r, kind, more)
      PROVE  Chained'
  BY <1>1, <1>2 DEF Begin, Poll, Disconnect, SendEnds, Start, Body, reported
<1>3. ASSUME NEW r \in Requests, AppReturns(r) \/ AppRaises(r) \/ Cancel(r)
      PROVE  Chained'
  <2>1. Returned(r) \in Status /\ "error" \in Status /\ "cancelled" \in Status
    BY DEF Returned, IInv, Typed, Status
  <2> QED
    BY <1>3, <2>1, LeaveChained DEF AppReturns, AppRaises, Cancel
<1>4. CASE UNCHANGED vars
  BY <1>1, <1>4 DEF vars
<1> QED
  BY <1>2, <1>3, <1>4 DEF Next

LEMMA ChainedInductive == Spec => []Chained
<1>1. Init => Chained
  BY InitChained
<1>2. IInv /\ Chained /\ [Next]_vars => Chained'
  BY StepChained
<1> QED
  BY <1>1, <1>2, Inductive, PTL DEF Spec

(* In a chain of any length every filter is given the event of the last     *)
(* filter before it that returned one, past those that raised, and none is *)
(* called after one that returned None (FilterChain.process).              *)
THEOREM ChainKeepsContract == Spec => []FilterContract
<1>1. Chained => FilterContract
  BY DEF Chained
<1> QED
  BY <1>1, ChainedInductive, PTL
-----------------------------------------------------------------------------
(* The remaining types. *)
Shaped ==
  /\ polling \in [Requests -> BOOLEAN]
  /\ firstBody \in [Requests -> BOOLEAN]
  /\ body \in [Requests -> {"empty", "plain", "odd"}]

LEMMA ShapedInductive == Spec => []Shaped
<1>1. Init => Shaped
  BY DEF Init, Shaped
<1>2. Shaped /\ [Next]_vars => Shaped'
  <2> SUFFICES ASSUME Shaped, [Next]_vars PROVE Shaped'
    OBVIOUS
  <2>1. CASE UNCHANGED vars
    BY <2>1 DEF vars, Shaped
  <2>2. ASSUME NEW r \in Requests, NEW kind \in {"empty", "plain", "odd"},
               NEW more \in BOOLEAN, Body(r, kind, more)
        PROVE  Shaped'
    BY <2>2 DEF Body, Shaped
  <2>3. ASSUME NEW r \in Requests, Begin(r) \/ Poll(r) \/ Disconnect(r) \/ SendEnds(r)
                 \/ \E class \in {"good", "bad"} : Start(r, class)
        PROVE  Shaped'
    BY <2>3 DEF Begin, Poll, Disconnect, SendEnds, Start, Shaped
  <2>4. ASSUME NEW r \in Requests, AppReturns(r) \/ AppRaises(r) \/ Cancel(r)
        PROVE  Shaped'
    <3>1. polling' = [polling EXCEPT ![r] = FALSE] /\ UNCHANGED <<firstBody, body>>
      BY <2>4 DEF AppReturns, AppRaises, Cancel, Leave
    <3> QED
      BY <3>1 DEF Shaped
  <2> QED
    BY <2>1, <2>2, <2>3, <2>4 DEF Next
<1> QED
  BY <1>1, <1>2, PTL DEF Spec

(* Without content capture neither the gauge nor a counter leaves the       *)
(* range that the number of requests allows.                               *)
THEOREM TypeCorrect ==
  ASSUME CaptureContent = FALSE
  PROVE  Spec => []TypeOK
<1>1. IInv /\ Accounts /\ Chained /\ Shaped => TypeOK
  <2> SUFFICES ASSUME IInv, Accounts, Chained, Shaped PROVE TypeOK
    OBVIOUS
  <2>1. /\ Flying \subseteq Requests /\ Entered \subseteq Requests
        /\ Cardinality(Requests) \in Nat
    BY RequestsAssumption, FS_CardinalityType DEF Flying, Entered
  <2>2. /\ Cardinality(Flying) <= Cardinality(Requests)
        /\ Cardinality(Entered) <= Cardinality(Requests)
    BY <2>1, RequestsAssumption, FS_Subset
  <2>3. inflight \in Nat /\ requests \in [Status -> Nat]
    BY DEF Accounts
  <2>4. /\ requests["ok"] \in Nat /\ requests["error"] \in Nat
        /\ requests["cancelled"] \in Nat
    BY <2>3 DEF Status
  <2>5. /\ inflight = Cardinality(Flying)
        /\ Cardinality(Entered)
             = inflight + requests["ok"] + requests["error"] + requests["cancelled"]
    BY AccountsMeaning DEF Accounts
  <2>6. inflight \in 0..Cardinality(Requests)
    BY <2>1, <2>2, <2>3, <2>5
  <2>7. \A s \in Status : requests[s] \in 0..Cardinality(Requests)
    BY <2>1, <2>2, <2>3, <2>4, <2>5, SetFacts DEF Status
  <2>8. requests \in [Status -> 0..Cardinality(Requests)]
    BY <2>3, <2>7
  <2> QED
    BY <2>6, <2>8 DEF IInv, Typed, Chained, Shaped, TypeOK
<1> QED
  BY <1>1, Inductive, AccountsInductive, ChainedInductive, ShapedInductive, PTL
-----------------------------------------------------------------------------
(* The report of a request as RequestReport promises it.                   *)

(* A running request has the status of something that went wrong with it.  *)
Caused ==
  \A r \in Requests : pc[r] # "done" =>
    /\ status[r] = "error" => history[r].start = "bad"
    /\ status[r] = "cancelled" => history[r].early

LEMMA CausedStep ==
  ASSUME IInv, Caused, [Next]_vars
  PROVE  Caused'
<1> USE DEF reported
<1>0. Typed /\ Judged
  BY DEF IInv
<1>1. ASSUME NEW r \in Requests, Begin(r) \/ Poll(r) \/ SendEnds(r)
      PROVE  Caused'
  <2>1. /\ UNCHANGED <<status, history>>
        /\ \A q \in Requests : pc'[q] = "done" <=> pc[q] = "done"
    BY <1>0, <1>1 DEF Begin, Poll, SendEnds, Typed
  <2> QED
    BY <2>1 DEF Caused
<1>2. ASSUME NEW r \in Requests, Disconnect(r)
      PROVE  Caused'
  <2>1. /\ pc' = pc /\ pc[r] # "done"
        /\ status' = [status EXCEPT ![r] = Disconnected(r)]
        /\ history' = [history EXCEPT ![r].early = history[r].early \/ ~complete[r]]
    BY <1>2 DEF Disconnect
  <2>2. /\ status'[r] = Disconnected(r) /\ history'[r].start = history[r].start
        /\ history'[r].early = (history[r].early \/ ~complete[r])
    BY <1>0, <2>1 DEF Typed
  <2>3. \A q \in Requests \ {r} : status'[q] = status[q] /\ history'[q] = history[q]
    BY <1>0, <2>1 DEF Typed
  <2>4. /\ status'[r] = "error" => history'[r].start = "bad"
        /\ status'[r] = "cancelled" => history'[r].early
    <3>1. history[r].early => history'[r].early
      BY <1>0, <2>2 DEF Typed
    <3>2. CASE complete[r]
      BY <2>1, <2>2, <3>1, <3>2 DEF Caused, Disconnected
    <3>3. CASE ~complete[r]
      BY <2>2, <3>3 DEF Disconnected
    <3> QED
      BY <3>2, <3>3
  <2> QED
    BY <2>1, <2>3, <2>4 DEF Caused
<1>3. ASSUME NEW r \in Requests, NEW class \in {"good", "bad"}, Start(r, class)
      PROVE  Caused'
  <2>1. /\ pc[r] = "app" /\ history[r].start = "none"
        /\ pc' = [pc EXCEPT ![r] = "send"]
        /\ status' = [status EXCEPT ![r] = Responded(r, class)]
        /\ history' = [history EXCEPT ![r].start = class]
    BY <1>3 DEF Start
  <2>2. /\ pc'[r] = "send" /\ status'[r] = Responded(r, class)
        /\ history'[r].start = class /\ history'[r].early = history[r].early
    BY <1>0, <2>1 DEF Typed
  <2>3. \A q \in Requests \ {r} :
          pc'[q] = pc[q] /\ status'[q] = status[q] /\ history'[q] = history[q]
    BY <1>0, <2>1 DEF Typed
  <2>4. /\ status'[r] = "error" => history'[r].start = "bad"
        /\ status'[r] = "cancelled" => history'[r].early
    BY <2>1, <2>2 DEF Caused, Responded
  <2> QED
    BY <2>3, <2>4 DEF Caused
<1>4. ASSUME NEW r \in Requests, NEW kind, NEW more \in BOOLEAN, Body(r, kind, more)
      PROVE  Caused'
  <2>1. /\ UNCHANGED <<status, history>>
        /\ \A q \in Requests : pc'[q] = "done" <=> pc[q] = "done"
    BY <1>0, <1>4 DEF Body, Typed
  <2> QED
    BY <2>1 DEF Caused
<1>5. ASSUME NEW r \in Requests, AppReturns(r) \/ AppRaises(r) \/ Cancel(r)
      PROVE  Caused'
  <2>1. /\ pc'[r] = "done"
        /\ \A q \in Requests \ {r} :
             pc'[q] = pc[q] /\ status'[q] = status[q] /\ history'[q] = history[q]
    BY <1>0, <1>5 DEF AppReturns, AppRaises, Cancel, Leave, Typed
  <2> QED
    BY <2>1 DEF Caused
<1>6. CASE UNCHANGED vars
  BY <1>6 DEF vars, Caused
<1> QED
  BY <1>1, <1>2, <1>3, <1>4, <1>5, <1>6 DEF Next

LEMMA CausedInductive == Spec => []Caused
<1>1. Init => Caused
  BY DEF Init, Caused
<1>2. IInv /\ Caused /\ [Next]_vars => Caused'
  BY CausedStep
<1> QED
  BY <1>1, <1>2, Inductive, PTL DEF Spec

(* A step of request r changes what is reported of r alone. *)
LEMMA PhaseStep ==
  ASSUME NEW r \in Requests,
         \A q \in Requests \ {r} : pc'[q] = pc[q] /\ history'[q] = history[q]
  PROVE  [q \in Requests |-> Phase(q)]'
           = [[q \in Requests |-> Phase(q)] EXCEPT ![r] = Phase(r)']
<1>1. \A q \in Requests \ {r} : Phase(q)' = Phase(q)
  BY DEF Phase
<1> QED
  BY <1>1

LEMMA CameStep ==
  ASSUME NEW r \in Requests, \A q \in Requests \ {r} : history'[q] = history[q]
  PROVE  [q \in Requests |-> Came(q)]'
           = [[q \in Requests |-> Came(q)] EXCEPT ![r] = Came(r)']
<1>1. \A q \in Requests \ {r} : Came(q)' = Came(q)
  BY DEF Came
<1> QED
  BY <1>1

LEMMA InitKeeps == Init => Report!Init
<1> SUFFICES ASSUME Init PROVE Report!Init
  OBVIOUS
<1>1. \A r \in Requests : Phase(r) = "waiting" /\ Came(r) = {}
  BY DEF Init, Phase, Came
<1>2. Status = {"error", "cancelled"} \cup {"ok"}
  BY DEF Status
<1> QED
  BY <1>1, <1>2 DEF Init, Report!Init, Report!Ills

(* A step that leaves the phase, the ills and the rest of a report alone.  *)
LEMMA Stutters ==
  ASSUME \A q \in Requests : Phase(q)' = Phase(q) /\ Came(q)' = Came(q),
         UNCHANGED <<complete, event, inflight, requests>>
  PROVE  UNCHANGED Report!vars
  BY DEF Report!vars

(* The three ways out give the verdict they owe. *)
LEMMA LeaveKeeps ==
  ASSUME CaptureContent = FALSE, Typed, Accounts, NEW r \in Requests,
         pc[r] \in {"app", "send"},
         NEW how \in {"returned", "raised", "cancelled"}, NEW final \in Status,
         final \in Report!Verdicts(r, how), Leave(r, how, final)
  PROVE  Report!Settle(r, how, final)
<1>1. /\ pc' = [pc EXCEPT ![r] = "done"]
      /\ history' = [history EXCEPT ![r].left = how]
      /\ complete' = complete
      /\ inflight' = inflight - 1
      /\ event' = [event EXCEPT ![r] = final]
      /\ requests' = [requests EXCEPT ![final] = requests[final] + 1]
  <2>1. ~ParseRaises(r)
    BY DEF Accounts, ParseRaises
  <2>2. requests' = [requests EXCEPT ![final] = requests[final] + 1]
    BY <2>1 DEF Leave, Inc, Accounts
  <2> QED
    BY <2>1, <2>2 DEF Leave, Dec
<1>2. /\ \A q \in Requests \ {r} : pc'[q] = pc[q] /\ history'[q] = history[q]
      /\ pc'[r] = "done" /\ history'[r].left = how
      /\ history'[r].start = history[r].start /\ history'[r].early = history[r].early
  BY <1>1 DEF Typed
<1>3. Phase(r) = "running" /\ Phase(r)' = how
  BY <1>2 DEF Phase
<1>4. [q \in Requests |-> Phase(q)]' = [[q \in Requests |-> Phase(q)] EXCEPT ![r] = how]
  BY <1>2, <1>3, PhaseStep
<1>5. \A q \in Requests : Came(q)' = Came(q)
  BY <1>2 DEF Came
<1>6. [q \in Requests |-> Came(q)]' = [q \in Requests |-> Came(q)]
  BY <1>5
<1> QED
  BY <1>1, <1>3, <1>4, <1>6 DEF Report!Settle

LEMMA StepKeeps ==
  ASSUME CaptureContent = FALSE, IInv, Caused, Accounts, [Next]_vars
  PROVE  [Report!Next]_Report!vars
<1> USE DEF reported
<1>0. Typed /\ Judged
  BY DEF IInv
<1>1. ASSUME NEW r \in Requests, Begin(r)
      PROVE  Report!Next
  <2>1. /\ pc[r] = "new" /\ pc' = [pc EXCEPT ![r] = "app"] /\ inflight' = inflight + 1
        /\ UNCHANGED <<complete, event, requests, history>>
    BY <1>1 DEF Begin, Inc
  <2>2. /\ pc'[r] = "app" /\ \A q \in Requests \ {r} : pc'[q] = pc[q]
    BY <1>0, <2>1 DEF Typed
  <2>3. Phase(r) = "waiting" /\ Phase(r)' = "running"
    BY <2>1, <2>2 DEF Phase
  <2>4. [q \in Requests |-> Phase(q)]'
          = [[q \in Requests |-> Phase(q)] EXCEPT ![r] = "running"]
    BY <2>1, <2>2, <2>3, PhaseStep
  <2>5. [q \in Requests |-> Came(q)]' = [q \in Requests |-> Came(q)]
    BY <2>1 DEF Came
  <2>6. Report!Enter(r)
    BY <2>1, <2>3, <2>4, <2>5 DEF Report!Enter
  <2> QED
    BY <2>6 DEF Report!Next
<1>2. ASSUME NEW r \in Requests, Poll(r) \/ SendEnds(r)
      PROVE  UNCHANGED Report!vars
  <2>1. /\ UNCHANGED <<complete, event, inflight, requests, history>>
        /\ \A q \in Requests : \/ pc'[q] = pc[q]
                               \/ pc[q] = "send" /\ pc'[q] = "app"
    BY <1>0, <1>2 DEF Poll, SendEnds, Typed
  <2>2. \A q \in Requests : Phase(q)' = Phase(q) /\ Came(q)' = Came(q)
    BY <2>1 DEF Phase, Came
  <2> QED
    BY <2>1, <2>2, Stutters
<1>3. ASSUME NEW r \in Requests, Disconnect(r)
      PROVE  [Report!Next]_Report!vars
  <2>1. /\ pc[r] \in {"app", "send"} /\ pc' = pc
        /\ history' = [history EXCEPT ![r].early = history[r].early \/ ~complete[r]]
        /\ UNCHANGED <<complete, event, inflight, requests>>
    BY <1>3 DEF Disconnect
  <2>2. /\ \A q \in Requests \ {r} : history'[q] = history[q]
        /\ history'[r].early = (history[r].early \/ ~complete[r])
        /\ history'[r].start = history[r].start /\ history'[r].left = history[r].left
    BY <1>0, <2>1 DEF Typed
  <2>3. \A q \in Requests : Phase(q)' = Phase(q)
    BY <2>1, <2>2 DEF Phase
  <2>4. CASE complete[r]
    <3>1. history'[r].early <=> history[r].early
      BY <2>2, <2>4
    <3>2. \A q \in Requests : Came(q)' = Came(q)
      BY <2>2, <3>1 DEF Came
    <3> QED
      BY <2>1, <2>3, <3>2, Stutters
  <2>5. CASE ~complete[r]
    <3>1. Phase(r) = "running"
      BY <2>1 DEF Phase
    <3>2. Came(r)' = Came(r) \cup {"cancelled"}
      BY <2>2, <2>5 DEF Came
    <3>3. [q \in Requests |-> Came(q)]'
            = [[q \in Requests |-> Came(q)] EXCEPT ![r] = Came(r) \cup {"cancelled"}]
      BY <2>2, <3>2, CameStep
    <3>4. Report!Harm(r, "cancelled")
      BY <2>1, <2>3, <2>5, <3>1, <3>3 DEF Report!Harm
    <3> QED
      BY <3>4 DEF Report!Next, Report!Ills
  <2> QED
    BY <2>4, <2>5
<1>4. ASSUME NEW r \in Requests, NEW class \in {"good", "bad"}, Start(r, class)
      PROVE  [Report!Next]_Report!vars
  <2>1. /\ pc[r] = "app" /\ pc' = [pc EXCEPT ![r] = "send"]
        /\ history[r].start = "none"
        /\ history' = [history EXCEPT ![r].start = class]
        /\ UNCHANGED <<complete, event, inflight, requests>>
    BY <1>4 DEF Start
  <2>2. /\ \A q \in Requests \ {r} : history'[q] = history[q] /\ pc'[q] = pc[q]
        /\ pc'[r] = "send" /\ history'[r].start = class
        /\ history'[r].early = history[r].early
    BY <1>0, <2>1 DEF Typed
  <2>3. \A q \in Requests : Phase(q)' = Phase(q)
    BY <2>1, <2>2 DEF Phase
  <2>4. CASE class = "good"
    <3>1. \A q \in Requests : Came(q)' = Came(q)
      BY <2>1, <2>2, <2>4 DEF Came
    <3> QED
      BY <2>1, <2>3, <3>1, Stutters
  <2>5. CASE class = "bad"
    <3>1. Phase(r) = "running" /\ ~complete[r]
      BY <1>0, <2>1 DEF Phase, Judged, Running
    <3>2. Came(r)' = Came(r) \cup {"error"}
      BY <2>2, <2>5 DEF Came
    <3>3. [q \in Requests |-> Came(q)]'
            = [[q \in Requests |-> Came(q)] EXCEPT ![r] = Came(r) \cup {"error"}]
      BY <2>2, <3>2, CameStep
    <3>4. Report!Harm(r, "error")
      BY <2>1, <2>3, <3>1, <3>3 DEF Report!Harm
    <3> QED
      BY <3>4 DEF Report!Next, Report!Ills
  <2> QED
    BY <2>4, <2>5
<1>5. ASSUME NEW r \in Requests, NEW kind, NEW more \in BOOLEAN, Body(r, kind, more)
      PROVE  [Report!Next]_Report!vars
  <2>1. /\ pc[r] = "app" /\ pc' = [pc EXCEPT ![r] = "send"] /\ ~complete[r]
        /\ complete' = [complete EXCEPT ![r] = ~more]
        /\ UNCHANGED <<event, inflight, requests, history>>
    BY <1>5 DEF Body
  <2>2. \A q \in Requests : Phase(q)' = Phase(q) /\ Came(q)' = Came(q)
    BY <1>0, <2>1 DEF Typed, Phase, Came
  <2>3. CASE more
    <3>1. complete' = complete
      BY <1>0, <2>1, <2>3 DEF Typed
    <3> QED
      BY <2>1, <2>2, <3>1, Stutters
  <2>4. CASE ~more
    <3>1. Phase(r) = "running" /\ complete' = [complete EXCEPT ![r] = TRUE]
      BY <2>1, <2>4 DEF Phase
    <3>2. Report!Answer(r)
      BY <2>1, <2>2, <3>1 DEF Report!Answer
    <3> QED
      BY <3>2 DEF Report!Next
  <2> QED
    BY <2>3, <2>4
<1>6. ASSUME NEW r \in Requests, AppReturns(r)
      PROVE  Report!Next
  <2>1. /\ pc[r] = "app" /\ Leave(r, "returned", Returned(r)) /\ Returned(r) \in Status
    BY <1>0, <1>6 DEF AppReturns, Returned, Typed, Status
  <2>2. /\ status[r] = "ok" <=> history[r].start # "bad" /\ ~history[r].early
        /\ status[r] = "error" => history[r].start = "bad"
        /\ status[r] = "cancelled" => history[r].early
        /\ status[r] \in Status
    BY <1>0, <2>1 DEF Typed, Judged, Running, Caused
  <2>3. Returned(r) \in IF Came(r) # {} THEN Came(r)
                        ELSE IF complete[r] THEN {"ok"} ELSE {"cancelled"}
    <3>1. CASE status[r] = "ok"
      BY <2>2, <3>1 DEF Returned, Came
    <3>2. CASE status[r] # "ok"
      <4>1. Returned(r) = status[r] /\ status[r] \in {"error", "cancelled"}
        BY <2>2, <3>2 DEF Returned, Status
      <4>2. status[r] \in Came(r)
        BY <2>2, <4>1 DEF Came
      <4> QED
        BY <4>1, <4>2
    <3> QED
      BY <3>1, <3>2
  <2>4. Returned(r) \in Report!Verdicts(r, "returned")
    BY <2>3 DEF Report!Verdicts
  <2>5. Report!Settle(r, "returned", Returned(r))
    BY <1>0, <2>1, <2>4, LeaveKeeps
  <2> QED
    BY <2>1, <2>5 DEF Report!Next, Report!Ills, Status
<1>7. ASSUME NEW r \in Requests, AppRaises(r)
      PROVE  Report!Next
  <2>1. "error" \in Report!Verdicts(r, "raised") /\ "error" \in Status
    BY DEF Report!Verdicts, Status
  <2>2. Report!Settle(r, "raised", "error")
    BY <1>0, <1>7, <2>1, LeaveKeeps DEF AppRaises
  <2> QED
    BY <2>2 DEF Report!Next, Report!Ills
<1>8. ASSUME NEW r \in Requests, Cancel(r)
      PROVE  Report!Next
  <2>1. "cancelled" \in Report!Verdicts(r, "cancelled") /\ "cancelled" \in Status
    BY DEF Report!Verdicts, Status
  <2>2. Report!Settle(r, "cancelled", "cancelled")
    BY <1>0, <1>8, <2>1, LeaveKeeps DEF Cancel
  <2> QED
    BY <2>2 DEF Report!Next, Report!Ills
<1>9. CASE UNCHANGED vars
  <2>1. \A q \in Requests : Phase(q)' = Phase(q) /\ Came(q)' = Came(q)
    BY <1>9 DEF vars, Phase, Came
  <2> QED
    BY <1>9, <2>1, Stutters DEF vars
<1> QED
  BY <1>1, <1>2, <1>3, <1>4, <1>5, <1>6, <1>7, <1>8, <1>9 DEF Next

(* Without content capture the middleware owes and gives what RequestReport *)
(* says: for any number of overlapping requests each step of it is a step   *)
(* of the abstract specification, or changes nothing that is reported.     *)
THEOREM Implements ==
  ASSUME CaptureContent = FALSE
  PROVE  Spec => KeepsTheReport
<1>1. Init => Report!Init
  BY InitKeeps
<1>2. IInv /\ Caused /\ Accounts /\ [Next]_vars => [Report!Next]_Report!vars
  BY StepKeeps
<1> QED
  BY <1>1, <1>2, Inductive, CausedInductive, AccountsInductive, PTL
     DEF Spec, KeepsTheReport, Report!Spec
=============================================================================
