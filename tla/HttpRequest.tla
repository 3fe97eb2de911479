---------------------------- MODULE HttpRequest ----------------------------
(***************************************************************************)
(* ObserverMiddleware.__call__ for the observed paths (middleware.py), the *)
(* end of RequestTrace and FilterChain (core.py).                          *)
(*                                                                         *)
(* Every request is a task of the event loop.  The application it wraps    *)
(* may poll receive() while it streams, so a disconnect can arrive at any  *)
(* await; the task can be cancelled at any await; the application may      *)
(* raise, swallow what send() raises, or return without finishing the      *)
(* response.  The code between two awaits is one action; in particular the *)
(* except and finally clauses, with the whole filter chain, are part of    *)
(* the action that leaves the application.                                 *)
(*                                                                         *)
(* Captured content is abstracted to whether _parse_response can read it:  *)
(* it calls .get on what json.loads returns, so a body that is JSON but    *)
(* not an object ("odd") makes it raise.  _parse_request guards itself.    *)
(***************************************************************************)
EXTENDS Integers, Sequences, FiniteSets, FiniteSetsExt

CONSTANTS Requests,        \* the requests of one behaviour
          Filters,         \* number of filters in the chain, metrics first
          CaptureContent   \* OBSERVER_CAPTURE_CONTENT = 1

ASSUME RequestsAssumption == IsFiniteSet(Requests)
ASSUME FiltersAssumption == Filters \in Nat \ {0}
ASSUME CaptureAssumption == CaptureContent \in BOOLEAN

Status   == {"ok", "error", "cancelled"}
Outcomes == {"event", "none", "raise"}

VARIABLES
  pc,         \* "new", "app", "send" (inside send()), "done"
  polling,    \* the application awaits receive()
  status,     \* trace.status
  complete,   \* the last body chunk was passed to send()
  firstBody,  \* http_first_body was recorded
  body,       \* captured response: "empty", "plain" or "odd"
  inflight,   \* the gauge
  requests,   \* the counter observer_requests_total by status
  event,      \* status in the event given to the chain, "none" before
  saw,        \* event each filter was called with: 0 the original, i what
              \* filter i returned, -1 not called
  did,        \* history: what each filter that was called did
  history     \* history: status class, early disconnect, how the app ended

vars == <<pc, polling, status, complete, firstBody, body, inflight, requests,
          event, saw, did, history>>
reported == <<inflight, requests, event, saw, did>>

TypeOK ==
  /\ pc \in [Requests -> {"new", "app", "send", "done"}]
  /\ polling \in [Requests -> BOOLEAN]
  /\ status \in [Requests -> Status]
  /\ complete \in [Requests -> BOOLEAN]
  /\ firstBody \in [Requests -> BOOLEAN]
  /\ body \in [Requests -> {"empty", "plain", "odd"}]
  /\ inflight \in 0..Cardinality(Requests)
  /\ requests \in [Status -> 0..Cardinality(Requests)]
  /\ event \in [Requests -> Status \cup {"none"}]
  /\ saw \in [Requests -> [1..Filters -> -1..Filters]]
  /\ did \in [Requests -> [1..Filters -> Outcomes]]
  /\ history \in [Requests -> [start : {"none", "good", "bad"},
                               early : BOOLEAN,
                               left : {"no", "returned", "raised", "cancelled"}]]

-----------------------------------------------------------------------------
(* Faulty variants of the definitions below, one plausible slip each. *)
Kept(n)                == n
AlwaysCancelled(r)     == "cancelled"
FreshStatus(r, class)  == IF class = "bad" THEN "error" ELSE "ok"
StatusUnchecked(r)     == status[r]
NeverOdd(r)            == complete[r]
StopOnError(out)       == out # "event"
-----------------------------------------------------------------------------
Init ==
  /\ pc = [r \in Requests |-> "new"]
  /\ polling = [r \in Requests |-> FALSE]
  /\ status = [r \in Requests |-> "ok"]
  /\ complete = [r \in Requests |-> FALSE]
  /\ firstBody = [r \in Requests |-> FALSE]
  /\ body = [r \in Requests |-> "empty"]
  /\ inflight = 0
  /\ requests = [s \in Status |-> 0]
  /\ event = [r \in Requests |-> "none"]
  /\ saw = [r \in Requests |-> [i \in 1..Filters |-> -1]]
  /\ did = [r \in Requests |-> [i \in 1..Filters |-> "event"]]
  /\ history = [r \in Requests |->
                  [start |-> "none", early |-> FALSE, left |-> "no"]]

Inc(n) == n + 1
Dec(n) == n - 1

\* A request for an observed path enters.
Begin(r) ==
  /\ pc[r] = "new"
  /\ pc' = [pc EXCEPT ![r] = "app"]
  /\ inflight' = Inc(inflight)
  /\ UNCHANGED <<polling, status, complete, firstBody, body, requests, event,
                 saw, did, history>>

\* The application awaits receive().  A chunk of the request body only goes
\* to the guarded request payload, so the wait ends with a disconnect.
Poll(r) ==
  /\ pc[r] = "app" /\ ~polling[r]
  /\ polling' = [polling EXCEPT ![r] = TRUE]
  /\ UNCHANGED <<pc, status, complete, firstBody, body, history, reported>>

\* What a disconnect makes of the status.
Disconnected(r) == IF complete[r] THEN status[r] ELSE "cancelled"

Disconnect(r) ==
  /\ pc[r] \in {"app", "send"} /\ polling[r]
  /\ polling' = [polling EXCEPT ![r] = FALSE]
  /\ status' = [status EXCEPT ![r] = Disconnected(r)]
  /\ history' = [history EXCEPT ![r].early = @ \/ ~complete[r]]
  /\ UNCHANGED <<pc, complete, firstBody, body, reported>>

\* http.response.start, with a status below 400 or not.
Responded(r, class) == IF class = "bad" THEN "error" ELSE status[r]

Start(r, class) ==
  /\ pc[r] = "app" /\ history[r].start = "none"
  /\ status' = [status EXCEPT ![r] = Responded(r, class)]
  /\ history' = [history EXCEPT ![r].start = class]
  /\ pc' = [pc EXCEPT ![r] = "send"]
  /\ UNCHANGED <<polling, complete, firstBody, body, reported>>

\* http.response.body: empty or not, the last or not.
Body(r, kind, more) ==
  /\ pc[r] = "app" /\ history[r].start # "none" /\ ~complete[r]
  /\ body' = [body EXCEPT ![r] = IF CaptureContent /\ @ = "empty" THEN kind ELSE @]
  /\ firstBody' = [firstBody EXCEPT ![r] = @ \/ kind # "empty"]
  /\ complete' = [complete EXCEPT ![r] = ~more]
  /\ pc' = [pc EXCEPT ![r] = "send"]
  /\ UNCHANGED <<polling, status, history, reported>>

\* The server's send() returns, or raises into the application, which may
\* let the exception through (AppRaises) or not.
SendEnds(r) ==
  /\ pc[r] = "send"
  /\ pc' = [pc EXCEPT ![r] = "app"]
  /\ UNCHANGED <<polling, status, complete, firstBody, body, history, reported>>
-----------------------------------------------------------------------------
\* FilterChain.process: whether the chain ends after a filter's outcome.
Stops(out) == out = "none"

\* The loop of FilterChain.process after i filters: the event it holds, the
\* calls it made, whether it goes on.  A filter that raises leaves the event.
Chain(outs) ==
  LET Run[i \in 0..Filters] ==
        IF i = 0
        THEN [holds |-> 0, saw |-> [j \in 1..Filters |-> -1], on |-> TRUE]
        ELSE IF ~Run[i - 1].on THEN Run[i - 1]
        ELSE [holds |-> IF outs[i] = "event" THEN i ELSE Run[i - 1].holds,
              saw   |-> [Run[i - 1].saw EXCEPT ![i] = Run[i - 1].holds],
              on    |-> ~Stops(outs[i])]
  IN  Run[Filters]

\* _parse_response raises in the finally clause.
ParseRaises(r) == body[r] = "odd"

\* The finally clause, with the status the try and except clauses left.
Leave(r, how, final) ==
  /\ pc' = [pc EXCEPT ![r] = "done"]
  /\ polling' = [polling EXCEPT ![r] = FALSE]
  /\ status' = [status EXCEPT ![r] = final]
  /\ history' = [history EXCEPT ![r].left = how]
  /\ UNCHANGED <<complete, firstBody, body>>
  /\ \/ /\ ParseRaises(r)
        /\ UNCHANGED reported
     \/ /\ ~ParseRaises(r)
        /\ inflight' = Dec(inflight)
        /\ event' = [event EXCEPT ![r] = final]
        /\ requests' = [requests EXCEPT ![final] = Inc(@)]
        /\ \E outs \in [1..Filters -> Outcomes] :
             /\ saw' = [saw EXCEPT ![r] = Chain(outs).saw]
             /\ did' = [did EXCEPT ![r] = [i \in 1..Filters |->
                          IF saw'[r][i] = -1 THEN "event" ELSE outs[i]]]

\* The status of a request whose application returned.
Returned(r) == IF ~complete[r] /\ status[r] = "ok" THEN "cancelled"
                                                   ELSE status[r]

AppReturns(r) == pc[r] = "app" /\ Leave(r, "returned", Returned(r))
AppRaises(r)  == pc[r] = "app" /\ Leave(r, "raised", "error")
Cancel(r)     == pc[r] \in {"app", "send"} /\ Leave(r, "cancelled", "cancelled")
-----------------------------------------------------------------------------
Next ==
  \E r \in Requests :
    \/ Begin(r)
    \/ Poll(r)
    \/ Disconnect(r)
    \/ \E class \in {"good", "bad"} : Start(r, class)
    \/ \E kind \in {"empty", "plain", "odd"}, more \in BOOLEAN :
         Body(r, kind, more)
    \/ SendEnds(r)
    \/ AppReturns(r)
    \/ AppRaises(r)
    \/ Cancel(r)

Spec == Init /\ [][Next]_vars
-----------------------------------------------------------------------------
(* Every request that ended, however it ended, gave the chain one event:   *)
(* one JSON line and one count.                                            *)
EveryRequestReported == \A r \in Requests : pc[r] = "done" => event[r] # "none"

(* The gauge and the counters agree with the requests: those that entered  *)
(* are in flight or counted, and nothing stays in flight.                  *)
InflightAndCounted ==
  /\ inflight = Cardinality({r \in Requests : pc[r] \in {"app", "send"}})
  /\ Cardinality({r \in Requests : pc[r] # "new"})
       = inflight + requests["ok"] + requests["error"] + requests["cancelled"]

(* The response reached its last chunk with a status below 400, nobody     *)
(* disconnected before that, and the application returned.                 *)
Served(r) == /\ complete[r]
             /\ history[r].start = "good"
             /\ ~history[r].early
             /\ history[r].left = "returned"

(* A request reported ok was served: no order of disconnects, chunks,      *)
(* errors and cancellations hides one that was not.                        *)
OkIsServed == \A r \in Requests : event[r] = "ok" => Served(r)

(* A late disconnect must not downgrade a finished successful response:    *)
(* what was served is reported ok, however long the application polls.     *)
ServedIsOk ==
  \A r \in Requests : Served(r) /\ event[r] # "none" => event[r] = "ok"

(* The filter contract: a filter that returns an event passes it on, one   *)
(* that returns None ends the chain, one that raises is skipped.           *)
Passed(outs, i) == {j \in 1..(i - 1) : outs[j] = "event"}

FilterContract ==
  \A r \in Requests : event[r] # "none" =>
    \A i \in 1..Filters :
      saw[r][i] = IF \E j \in 1..(i - 1) : did[r][j] = "none" THEN -1
                  ELSE Max(Passed(did[r], i) \cup {0})

(* The messages of a request, in whatever order they come, amount to one   *)
(* report: what happened up to its last chunk and the way its application  *)
(* ended fix the verdict, and the step that gives it is the one that       *)
(* lowers the gauge and raises one counter.                                *)
Came(r) == {ill \in {"error", "cancelled"} :
              \/ ill = "error" /\ history[r].start = "bad"
              \/ ill = "cancelled" /\ history[r].early}

Phase(r) == IF pc[r] = "new" THEN "waiting"
            ELSE IF pc[r] = "done" THEN history[r].left ELSE "running"

Report == INSTANCE RequestReport WITH
  phase    <- [r \in Requests |-> Phase(r)],
  answered <- complete,
  ills     <- [r \in Requests |-> Came(r)],
  verdict  <- event,
  running  <- inflight,
  tally    <- requests

KeepsTheReport == Report!Spec
=============================================================================
