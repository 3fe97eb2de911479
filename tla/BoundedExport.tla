--------------------------- MODULE BoundedExport ---------------------------
(***************************************************************************)
(* What the export filter promises the request path, without its threads.  *)
(*                                                                         *)
(* Events are numbered in the order in which process() is called.  An      *)
(* event is kept or lost when it is offered; a kept event is handled in    *)
(* order; at most Bound events are held in memory.  Closing ends the       *)
(* intake, except that one offer which was already under way may still be  *)
(* decided, and only that one may vanish without being counted as lost.    *)
(***************************************************************************)
EXTENDS Naturals, Sequences

CONSTANTS Bound,      \* the most events ever held in memory
          MaxEvents   \* bound on the events offered

VARIABLES offered,  \* events offered and decided so far
          pending,  \* kept, not yet handled, oldest first
          handled,  \* given to the sink, in this order
          lost,     \* events counted as lost
          silent,   \* events that vanished uncounted
          open,     \* the filter takes events
          grace,    \* offers that were under way when it closed
          up        \* the process runs

vars == <<offered, pending, handled, lost, silent, open, grace, up>>

Init == /\ offered = 0
        /\ pending = <<>>
        /\ handled = <<>>
        /\ lost = 0
        /\ silent = 0
        /\ open = TRUE
        /\ grace = 0
        /\ up = TRUE

Decide == /\ up
          /\ offered < MaxEvents
          /\ offered' = offered + 1
          /\ UNCHANGED <<handled, open, up>>

\* An offer is kept while there is room.
Keep == /\ Decide
        /\ open \/ grace = 1
        /\ Len(pending) < Bound
        /\ pending' = Append(pending, offered + 1)
        /\ grace' = 0
        /\ UNCHANGED <<lost, silent>>

\* An offer is lost, and counted.
Lose == /\ Decide
        /\ lost' = lost + 1
        /\ grace' = 0
        /\ UNCHANGED <<pending, silent>>

\* The offer that raced the close vanishes uncounted.
Vanish == /\ Decide
          /\ ~open /\ grace = 1
          /\ grace' = 0
          /\ silent' = silent + 1
          /\ UNCHANGED <<pending, lost>>

Handle == /\ up
          /\ pending # <<>>
          /\ handled' = Append(handled, Head(pending))
          /\ pending' = Tail(pending)
          /\ UNCHANGED <<offered, lost, silent, open, grace, up>>

Close == /\ up /\ open
         /\ open' = FALSE
         /\ grace' \in {0, 1}
         /\ UNCHANGED <<offered, pending, handled, lost, silent, up>>

Exit == /\ up
        /\ up' = FALSE
        /\ UNCHANGED <<offered, pending, handled, lost, silent, open, grace>>

Next == Keep \/ Lose \/ Vanish \/ Handle \/ Close \/ Exit

Safety == Init /\ [][Next]_vars

\* What is kept is handled, unless the process ends first.
Spec == Safety /\ WF_vars(Handle)
=============================================================================
