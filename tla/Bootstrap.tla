----------------------------- MODULE Bootstrap -----------------------------
(***************************************************************************)
(* The import hooks of bootstrap.py, called by bootstrap/sitecustomize.py: *)
(* the finder and its loader, _instrument for every target, install() with *)
(* its loop over the targets, build_app and the middleware it adds, and    *)
(* the install functions they call, as far as they decide what is wrapped. *)
(*                                                                         *)
(* One thread imports; imports nest, so there is a stack of modules being  *)
(* executed.  A module may fail to import and be imported again.  install()*)
(* may be called before, between and while modules are imported, and more  *)
(* than once: by sitecustomize, by a deployment's own startup code.        *)
(*                                                                         *)
(* A target stands for the modules treated alike: "serving" for those of   *)
(* the serving classes, the protocol and the input processor.  A function  *)
(* is the sequence of the wrappers around the original.  functools.wraps   *)
(* copies the attributes of what it wraps, so a marker set on a wrapper is *)
(* found on every wrapper around it.                                       *)
(***************************************************************************)
EXTENDS Naturals, Sequences

CONSTANT Contracts  \* the sets of functions whose vLLM contract may be known

Targets   == {"app", "api", "serving", "scheduler", "core", "engine", "stats"}
Functions == {"app.build", "api.build", "render", "schedule", "step", "submit",
              "generate", "update"}
Home      == [f \in Functions |->
                CASE f = "app.build" -> "app"
                  [] f = "api.build" -> "api"
                  [] f = "render"    -> "serving"
                  [] f = "schedule"  -> "scheduler"
                  [] f = "step"      -> "core"
                  [] f = "update"    -> "stats"
                  [] OTHER           -> "engine"]

\* The api server has the build_app it imports.
ASSUME ContractsAssumption ==
  \A C \in Contracts : /\ C \subseteq Functions
                       /\ "app.build" \in C <=> "api.build" \in C

\* The targets a target imports, from vLLM.
Requires == [m \in Targets |->
               CASE m = "api" -> {"app"} [] m = "engine" -> {"stats"}
                 [] m = "core" -> {"scheduler"} [] OTHER -> {}]

\* The wrappers each function is meant to get, the innermost first.
Wrappers == [f \in Functions |->
               CASE f \in {"app.build", "api.build"} -> <<"bootstrap">>
                 [] f = "schedule"            -> <<"stages", "deadline">>
                 [] f = "step"                -> <<"stages", "clock">>
                 [] f \in {"render", "submit"} -> <<"stages">>
                 [] f \in {"generate", "update"} -> <<"adapter">>]

VARIABLES
  env,        \* OBSERVER_{HTTP,ENGINE,LANGFUSE}_ENABLED
  supported,  \* the functions whose vLLM contract the observer knows
  finder,     \* the finder is in sys.meta_path
  stack,      \* the modules being executed, the innermost last
  state,      \* of each module: "unloaded", "loading", "loaded"
  hooked,     \* the modules whose loader was wrapped when they were found
  layers,     \* the wrappers of each function, as its module holds it
  bound,      \* the api server has executed its import of build_app
  seen        \* history: the modules _instrument was called for once loaded

vars == <<env, supported, finder, stack, state, hooked, layers, bound, seen>>
chosen == <<env, supported>>

TypeOK ==
  /\ env \in [http : BOOLEAN, engine : BOOLEAN, langfuse : BOOLEAN]
  /\ supported \in Contracts
  /\ finder \in BOOLEAN
  /\ stack \in Seq(Targets)
  /\ state \in [Targets -> {"unloaded", "loading", "loaded"}]
  /\ \A m \in Targets :
       state[m] = "loading" <=> \E i \in 1..Len(stack) : stack[i] = m
  /\ hooked \subseteq Targets
  /\ DOMAIN layers = Functions
  /\ bound \in BOOLEAN
  /\ seen \subseteq {m \in Targets : state[m] = "loaded"}

In(x, s) == \E i \in 1..Len(s) : s[i] = x
-----------------------------------------------------------------------------
(* Faulty variants of the definitions below, one plausible slip each. *)
OutermostOnly(L, f, w) == L[f] # <<>> /\ L[f][Len(L[f])] = w
WithStats(m)           == m = "stats"
EvenExecuting          == {m \in Targets : state[m] # "unloaded"}
-----------------------------------------------------------------------------
Init ==
  /\ env \in [http : BOOLEAN, engine : BOOLEAN, langfuse : BOOLEAN]
  /\ supported \in Contracts
  /\ finder = FALSE
  /\ stack = <<>>
  /\ state = [m \in Targets |-> "unloaded"]
  /\ hooked = {}
  /\ layers = [f \in Functions |-> <<>>]
  /\ bound = FALSE
  /\ seen = {}

\* getattr(function, marker, False)
Marked(L, f, w) == In(w, L[f])

Wrap(L, f, w) == IF Marked(L, f, w) THEN L ELSE [L EXCEPT ![f] = Append(@, w)]

\* _instrument_app, with or without the engine hooks.
InstrumentApp(m, L) ==
  LET f == IF m = "app" THEN "app.build" ELSE "api.build"
  IN  IF f \in supported THEN Wrap(L, f, "bootstrap") ELSE L

\* stages.install_scheduler, then deadline.install: the first raises when the
\* contract is unknown, and the second is skipped with it.
InstrumentScheduler(L) ==
  IF "schedule" \in supported
  THEN Wrap(Wrap(L, "schedule", "stages"), "schedule", "deadline") ELSE L

\* stages.install_engine_core, then engine_clock.install.
InstrumentCore(L) ==
  IF "step" \notin supported THEN L
  ELSE IF env.langfuse THEN Wrap(Wrap(L, "step", "stages"), "step", "clock")
  ELSE Wrap(L, "step", "stages")

\* adapter.install: the marker of generate stands for both functions.
Paired == {"generate", "update"}

InstallAdapter(L) ==
  IF Marked(L, "generate", "adapter") \/ ~(Paired \subseteq supported)
  THEN L
  ELSE [L EXCEPT !["generate"] = Append(@, "adapter"),
                 !["update"] = Append(@, "adapter")]

\* stages.install_async_llm, then the adapter.
InstrumentEngine(L) ==
  InstallAdapter(IF "submit" \in supported THEN Wrap(L, "submit", "stages") ELSE L)

\* Which of the two modules of the adapter may trigger it, once the classes
\* of both are there.
Triggers(m) == m \in {"engine", "stats"}

\* _instrument(m); loaded are the modules that have defined their classes.
Instrument(m, L, loaded) ==
  IF m \in {"app", "api"} THEN InstrumentApp(m, L)
  ELSE IF ~env.engine THEN L
  ELSE IF m = "serving" THEN IF "render" \in supported
                             THEN Wrap(L, "render", "stages") ELSE L
  ELSE IF m = "scheduler" THEN InstrumentScheduler(L)
  ELSE IF m = "core" THEN InstrumentCore(L)
  ELSE IF Triggers(m) /\ {"engine", "stats"} \subseteq loaded
       THEN InstrumentEngine(L)
  ELSE L

Loaded == {m \in Targets : state[m] = "loaded"}
-----------------------------------------------------------------------------
(* Importing. *)

Top == stack[Len(stack)]
Pop == SubSeq(stack, 1, Len(stack) - 1)

\* Whose loader find_spec wraps: that of a target found while the finder is
\* at the head of sys.meta_path.
Found(m) == IF finder THEN {m} ELSE {}

\* A module is found and starts to execute, for its own sake or because the
\* module on top imports it.
Begin(m) ==
  /\ state[m] = "unloaded"
  /\ stack # <<>> => m \in Requires[Top]
  /\ state' = [state EXCEPT ![m] = "loading"]
  /\ stack' = Append(stack, m)
  /\ hooked' = hooked \cup Found(m)
  /\ UNCHANGED <<chosen, finder, layers, bound, seen>>

\* from launchers.app import build_app, in the api server.
Bind ==
  /\ stack # <<>> /\ Top = "api" /\ ~bound /\ state["app"] = "loaded"
  /\ bound' = TRUE
  /\ layers' = [layers EXCEPT !["api.build"] = layers["app.build"]]
  /\ UNCHANGED <<chosen, finder, stack, state, hooked, seen>>

\* exec_module of the loader: the module first, then the observer.
Finish ==
  /\ stack # <<>>
  /\ \A r \in Requires[Top] : state[r] = "loaded"
  /\ Top = "api" => bound
  /\ state' = [state EXCEPT ![Top] = "loaded"]
  /\ stack' = Pop
  /\ IF Top \in hooked
     THEN /\ layers' = Instrument(Top, layers, Loaded \cup {Top})
          /\ seen' = seen \cup {Top}
     ELSE UNCHANGED <<layers, seen>>
  /\ hooked' = hooked \ {Top}
  /\ UNCHANGED <<chosen, finder, bound>>

\* vLLM's own error: the import fails, and so does the one around it.
Fail ==
  /\ stack # <<>>
  /\ stack' = <<>>
  /\ state' = [m \in Targets |-> IF In(m, stack) THEN "unloaded" ELSE state[m]]
  /\ layers' = [f \in Functions |-> IF In(Home[f], stack) THEN <<>> ELSE layers[f]]
  /\ bound' = (bound /\ ~In("api", stack))
  /\ hooked' = {m \in hooked : ~In(m, stack)}
  /\ UNCHANGED <<chosen, finder, seen>>
-----------------------------------------------------------------------------
(* install() and the middleware. *)

\* _instrument for every target in ms.  The order does not matter: targets
\* change functions of their own, and the two of the adapter do the same.
InstrumentAll(ms, L) ==
  [f \in Functions |-> IF Home[f] \in ms THEN Instrument(Home[f], L, ms)[f] ELSE L[f]]

\* A module that is still executing is left alone.
Settled == Loaded

Install ==
  /\ finder' = TRUE
  /\ layers' = InstrumentAll(Settled, layers)
  /\ seen' = seen \cup Settled
  /\ UNCHANGED <<chosen, stack, state, hooked, bound>>

\* ObserverMiddleware with instrument=True calls the adapter on its own.
Direct ==
  /\ env.engine /\ {"engine", "stats"} \subseteq Loaded
  /\ layers' = InstallAdapter(layers)
  /\ UNCHANGED <<chosen, finder, stack, state, hooked, bound, seen>>

\* How many observers an application built now is given: one is added, or is
\* wrapped around an application that has started, unless one is configured
\* (given = 1); none when add_middleware fails in another way.
Observers(f, given, broken) ==
  IF Marked(layers, f, "bootstrap") /\ env.http /\ given = 0 /\ ~broken
  THEN given + 1 ELSE given

Next ==
  \/ \E m \in Targets : Begin(m)
  \/ Bind \/ Finish \/ Fail \/ Install \/ Direct

Spec == Init /\ [][Next]_vars
-----------------------------------------------------------------------------
(* However often, from wherever and in whichever order it is installed, a  *)
(* function is wrapped at most once by each wrapper, the wrappers in their *)
(* order: the deadline guard around the timing, the clock around the       *)
(* stages.                                                                 *)
InstrumentedOnce ==
  \A f \in Functions :
    \E n \in 0..Len(Wrappers[f]) : layers[f] = SubSeq(Wrappers[f], 1, n)

\* What the switches and the contracts ask for.
Asked(f) ==
  IF f \notin supported THEN <<>>
  ELSE IF f \in {"app.build", "api.build"} THEN Wrappers[f]
  ELSE IF ~env.engine THEN <<>>
  ELSE IF f \in Paired /\ ~(Paired \subseteq supported) THEN <<>>
  ELSE IF f = "step" /\ ~env.langfuse THEN <<"stages">>
  ELSE Wrappers[f]

(* Every target that was loaded through the finder, or had been loaded     *)
(* when install() was called, has exactly the wrappers asked for, although *)
(* the classes of the adapter come from two modules and build_app is       *)
(* copied from one to the other; and an application built through it has   *)
(* one observer, the configured one or that of the hook.                   *)
AllHooked ==
  \A m \in seen : \A f \in Functions :
    Home[f] = m /\ (m = "stats" => "engine" \in seen) =>
      /\ layers[f] = Asked(f)
      /\ env.http /\ Asked(f) = <<"bootstrap">> =>
           \A given \in {0, 1} : Observers(f, given, FALSE) = 1
=============================================================================
