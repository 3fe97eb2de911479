---------------------------- MODULE RequestReport ----------------------------
(***************************************************************************)
(* What the middleware owes an observed request, whatever its application, *)
(* its client and the server do: one verdict, given in the step that takes *)
(* it out of flight and counts it, and fixed by what the request had come  *)
(* through.  How messages are polled for and sent does not appear here.    *)
(***************************************************************************)
EXTENDS Naturals

CONSTANT Requests

VARIABLES phase,     \* "waiting", "running", or how the application ended
          answered,  \* the last chunk of the response went out
          ills,      \* what went wrong before that
          verdict,   \* the status reported, "none" before
          running,   \* number of requests in flight
          tally      \* reports by verdict

vars == <<phase, answered, ills, verdict, running, tally>>

Ills == {"error", "cancelled"}

Init == /\ phase = [r \in Requests |-> "waiting"]
        /\ answered = [r \in Requests |-> FALSE]
        /\ ills = [r \in Requests |-> {}]
        /\ verdict = [r \in Requests |-> "none"]
        /\ running = 0
        /\ tally = [v \in Ills \cup {"ok"} |-> 0]

Enter(r) == /\ phase[r] = "waiting"
            /\ phase' = [phase EXCEPT ![r] = "running"]
            /\ running' = running + 1
            /\ UNCHANGED <<answered, ills, verdict, tally>>

\* An error status, or a client that leaves: harmless once all is sent.
Harm(r, ill) == /\ phase[r] = "running" /\ ~answered[r]
                /\ ills' = [ills EXCEPT ![r] = @ \cup {ill}]
                /\ UNCHANGED <<phase, answered, verdict, running, tally>>

Answer(r) == /\ phase[r] = "running" /\ ~answered[r]
             /\ answered' = [answered EXCEPT ![r] = TRUE]
             /\ UNCHANGED <<phase, ills, verdict, running, tally>>

\* The verdicts on a request whose application ended so.  Of two ills
\* either may be named.
Verdicts(r, how) ==
  CASE how = "raised"    -> {"error"}
    [] how = "cancelled" -> {"cancelled"}
    [] how = "returned"  -> IF ills[r] # {} THEN ills[r]
                            ELSE IF answered[r] THEN {"ok"} ELSE {"cancelled"}

Settle(r, how, v) == /\ phase[r] = "running"
                     /\ v \in Verdicts(r, how)
                     /\ phase' = [phase EXCEPT ![r] = how]
                     /\ verdict' = [verdict EXCEPT ![r] = v]
                     /\ running' = running - 1
                     /\ tally' = [tally EXCEPT ![v] = @ + 1]
                     /\ UNCHANGED <<answered, ills>>

Next == \E r \in Requests :
          \/ Enter(r)
          \/ \E ill \in Ills : Harm(r, ill)
          \/ Answer(r)
          \/ \E how \in {"returned", "raised", "cancelled"},
                v \in Ills \cup {"ok"} : Settle(r, how, v)

Spec == Init /\ [][Next]_vars
=============================================================================
