--------------------------- MODULE Bootstrap_proof --------------------------
(***************************************************************************)
(* Proofs about Bootstrap, for any contracts of vLLM, any switches and     *)
(* every order of imports, failed imports and calls of install().          *)
(***************************************************************************)
EXTENDS Bootstrap, SequenceTheorems, TLAPS

States == {"unloaded", "loading", "loaded"}

(* What is being executed is on the stack, once. *)
Stacked ==
  /\ stack \in Seq(Targets)
  /\ \A i \in 1..Len(stack) : state[stack[i]] = "loading"
  /\ \A m \in Targets : state[m] = "loading" => In(m, stack)
  /\ \A i, j \in 1..Len(stack) : i # j => stack[i] # stack[j]

Typed ==
  /\ env \in [http : BOOLEAN, engine : BOOLEAN, langfuse : BOOLEAN]
  /\ supported \in Contracts
  /\ finder \in BOOLEAN
  /\ state \in [Targets -> States]
  /\ hooked \subseteq Targets
  /\ bound \in BOOLEAN
  /\ seen \subseteq Loaded

(* A function has no wrapper yet or all it is to have, and the two of the  *)
(* adapter have theirs together.                                           *)
Layered(L) ==
  /\ DOMAIN L = Functions
  /\ \A f \in Functions : L[f] = <<>> \/ L[f] = Asked(f)
  /\ L["generate"] = L["update"]

(* The engine is executed after its statistics, and the adapter installed  *)
(* after both, so that no failing import takes one half of it away.        *)
Together ==
  /\ state["engine"] = "loaded" => state["stats"] = "loaded"
  /\ layers["generate"] # <<>> => {"engine", "stats"} \subseteq Loaded

(* A function of a module _instrument was called for is wrapped. *)
Due(f, ms) == Home[f] \in ms /\ (Home[f] = "stats" => "engine" \in ms)

Complete == \A f \in Functions : Due(f, seen) => layers[f] = Asked(f)

IInv == Typed /\ Stacked /\ Layered(layers) /\ Together /\ Complete
-----------------------------------------------------------------------------
(* What appending does. *)
LEMMA Appended ==
  ASSUME NEW S, NEW seq \in Seq(S), NEW elt \in S
  PROVE  /\ Append(seq, elt) \in Seq(S) /\ Len(Append(seq, elt)) = Len(seq) + 1
         /\ \A i \in 1..Len(seq) : Append(seq, elt)[i] = seq[i]
         /\ Append(seq, elt)[Len(seq) + 1] = elt
  OBVIOUS

LEMMA TupleFacts ==
  /\ \A x : ~In(x, <<>>)
  /\ \A x, a : /\ In(x, <<a>>) <=> x = a
               /\ <<a>> # <<>> /\ Append(<<>>, a) = <<a>>
  /\ \A x, a, b : /\ In(x, <<a, b>>) <=> x \in {a, b}
                  /\ <<a, b>> # <<>> /\ Append(<<a>>, b) = <<a, b>>
<1>1. \A x : ~In(x, <<>>)
  BY DEF In
<1>2. \A x, a : /\ In(x, <<a>>) <=> x = a
                /\ <<a>> # <<>> /\ Append(<<>>, a) = <<a>>
  BY DEF In
<1>3. \A x, a, b : /\ In(x, <<a, b>>) <=> x \in {a, b}
                   /\ <<a, b>> # <<>> /\ Append(<<a>>, b) = <<a, b>>
  <2> TAKE x, a, b
  <2>1. Len(<<a, b>>) = 2 /\ <<a, b>>[1] = a /\ <<a, b>>[2] = b
    OBVIOUS
  <2>2. In(x, <<a, b>>) <=> x \in {a, b}
    <3>1. 1..2 = {1, 2}
      OBVIOUS
    <3>2. In(x, <<a, b>>) <=> \E i \in {1, 2} : <<a, b>>[i] = x
      BY <2>1, <3>1 DEF In
    <3> QED
      BY <2>1, <3>2
  <2>3. <<a, b>> # <<>>
    OBVIOUS
  <2>4. Append(<<a>>, b) = <<a, b>>
    <3> DEFINE one == <<a>>  two == <<a, b>>  S == {a, b}
    <3>1. one \in Seq(S) /\ Len(one) = 1 /\ one[1] = a
      OBVIOUS
    <3>2. two \in Seq(S) /\ Len(two) = 2 /\ two[1] = a /\ two[2] = b
      OBVIOUS
    <3>3. b \in S
      OBVIOUS
    <3> HIDE DEF one, two, S
    <3>4. /\ Append(one, b) \in Seq(S) /\ Len(Append(one, b)) = 2
          /\ Append(one, b)[1] = a /\ Append(one, b)[2] = b
      <4>1. /\ Append(one, b) \in Seq(S) /\ Len(Append(one, b)) = Len(one) + 1
            /\ \A i \in 1..Len(one) : Append(one, b)[i] = one[i]
            /\ Append(one, b)[Len(one) + 1] = b
        BY <3>1, <3>3, Appended
      <4>2. 1 \in 1..Len(one) /\ Len(one) + 1 = 2
        BY <3>1
      <4> QED
        BY <3>1, <4>1, <4>2
    <3>5. \A i \in 1..2 : Append(one, b)[i] = two[i]
      BY <3>2, <3>4
    <3>6. Append(one, b) = two
      BY <3>2, <3>4, <3>5, SeqEqual
    <3> QED
      BY <3>6 DEF one, two
  <2> QED
    BY <2>2, <2>3, <2>4
<1> QED
  BY <1>1, <1>2, <1>3

LEMMA HomeFacts ==
  /\ Home["app.build"] = "app" /\ Home["api.build"] = "api"
  /\ Home["render"] = "serving" /\ Home["schedule"] = "scheduler"
  /\ Home["step"] = "core" /\ Home["update"] = "stats"
  /\ Home["submit"] = "engine" /\ Home["generate"] = "engine"
  /\ \A f \in Functions : Home[f] \in Targets
  BY DEF Home, Functions, Targets

LEMMA WrappersFacts ==
  /\ Wrappers["app.build"] = <<"bootstrap">> /\ Wrappers["api.build"] = <<"bootstrap">>
  /\ Wrappers["schedule"] = <<"stages", "deadline">>
  /\ Wrappers["step"] = <<"stages", "clock">>
  /\ Wrappers["render"] = <<"stages">> /\ Wrappers["submit"] = <<"stages">>
  /\ Wrappers["generate"] = <<"adapter">> /\ Wrappers["update"] = <<"adapter">>
  BY DEF Wrappers, Functions

LEMMA AskedFacts ==
  /\ \A f \in {"app.build", "api.build"} :
       Asked(f) = IF f \in supported THEN <<"bootstrap">> ELSE <<>>
  /\ Asked("schedule") = IF "schedule" \in supported /\ env.engine
                         THEN <<"stages", "deadline">> ELSE <<>>
  /\ Asked("step") = IF ~("step" \in supported /\ env.engine) THEN <<>>
                     ELSE IF env.langfuse THEN <<"stages", "clock">> ELSE <<"stages">>
  /\ \A f \in {"render", "submit"} :
       Asked(f) = IF f \in supported /\ env.engine THEN <<"stages">> ELSE <<>>
  /\ \A f \in {"generate", "update"} :
       Asked(f) = IF Paired \subseteq supported /\ env.engine THEN <<"adapter">>
                                                              ELSE <<>>
  BY WrappersFacts DEF Asked, Paired
-----------------------------------------------------------------------------
(* One wrapper more, or the same again; and one around another. *)
LEMMA WrapFacts ==
  ASSUME NEW L, DOMAIN L = Functions, NEW f \in Functions, NEW w
  PROVE  /\ DOMAIN Wrap(L, f, w) = Functions
         /\ \A g \in Functions : g # f => Wrap(L, f, w)[g] = L[g]
         /\ Wrap(L, f, w)[f] = IF In(w, L[f]) THEN L[f] ELSE Append(L[f], w)
<1>1. CASE In(w, L[f])
  BY <1>1 DEF Wrap, Marked
<1>2. CASE ~In(w, L[f])
  <2>1. Wrap(L, f, w) = [L EXCEPT ![f] = Append(L[f], w)]
    BY <1>2 DEF Wrap, Marked
  <2> QED
    BY <1>2, <2>1
<1> QED
  BY <1>1, <1>2

(* A class that is not marked gets the wrapper on top. *)
LEMMA WrapNew ==
  ASSUME NEW L, DOMAIN L = Functions, NEW f \in Functions, NEW w, ~In(w, L[f])
  PROVE  Wrap(L, f, w)[f] = Append(L[f], w)
  BY DEF Wrap, Marked

(* A class whose constructor is marked is left alone. *)
LEMMA WrapSame ==
  ASSUME NEW L, DOMAIN L = Functions, NEW f \in Functions, NEW w, In(w, L[f])
  PROVE  Wrap(L, f, w)[f] = L[f]
  BY DEF Wrap, Marked

LEMMA WrapOnce ==
  ASSUME NEW L, DOMAIN L = Functions, NEW f \in Functions, NEW w,
         L[f] \in {<<>>, <<w>>}
  PROVE  /\ DOMAIN Wrap(L, f, w) = Functions
         /\ \A g \in Functions : g # f => Wrap(L, f, w)[g] = L[g]
         /\ Wrap(L, f, w)[f] = <<w>>
<1>1. CASE L[f] = <<>>
  <2>1. ~In(w, L[f]) /\ Append(L[f], w) = <<w>>
    BY <1>1, TupleFacts
  <2>2. Wrap(L, f, w)[f] = Append(L[f], w)
    BY <2>1, WrapNew
  <2>3. Wrap(L, f, w)[f] = <<w>>
    BY <2>1, <2>2, Zenon
  <2> QED
    BY <2>3, WrapFacts
<1>2. CASE L[f] = <<w>>
  <2>1. In(w, L[f])
    BY <1>2, TupleFacts
  <2> QED
    BY <1>2, <2>1, WrapFacts
<1> QED
  BY <1>1, <1>2

LEMMA WrapTwice ==
  ASSUME NEW L, DOMAIN L = Functions, NEW f \in Functions, NEW a, NEW w, a # w,
         L[f] \in {<<>>, <<a, w>>}
  PROVE  /\ DOMAIN Wrap(Wrap(L, f, a), f, w) = Functions
         /\ \A g \in Functions : g # f => Wrap(Wrap(L, f, a), f, w)[g] = L[g]
         /\ Wrap(Wrap(L, f, a), f, w)[f] = <<a, w>>
<1> DEFINE one == Wrap(L, f, a)
<1>1. /\ DOMAIN one = Functions
      /\ \A g \in Functions : g # f => one[g] = L[g]
      /\ one[f] = IF In(a, L[f]) THEN L[f] ELSE Append(L[f], a)
  BY WrapFacts
<1> HIDE DEF one
<1>2. /\ DOMAIN Wrap(one, f, w) = Functions
      /\ \A g \in Functions : g # f => Wrap(one, f, w)[g] = one[g]
      /\ In(w, one[f]) => Wrap(one, f, w)[f] = one[f]
      /\ ~In(w, one[f]) => Wrap(one, f, w)[f] = Append(one[f], w)
  <2>1. DOMAIN one = Functions /\ f \in Functions
    BY <1>1
  <2>2. /\ DOMAIN Wrap(one, f, w) = Functions
        /\ \A g \in Functions : g # f => Wrap(one, f, w)[g] = one[g]
    BY <2>1, WrapFacts
  <2>3. ~In(w, one[f]) => Wrap(one, f, w)[f] = Append(one[f], w)
    BY <2>1, WrapNew
  <2>4. In(w, one[f]) => Wrap(one, f, w)[f] = one[f]
    BY <2>1, WrapSame
  <2> QED
    BY <2>2, <2>3, <2>4
<1>3. CASE L[f] = <<>>
  <2>1. ~In(a, L[f]) /\ Append(L[f], a) = <<a>>
    BY <1>3, TupleFacts
  <2>2. one[f] = <<a>>
    BY <1>1, <2>1
  <2>3. ~In(w, one[f]) /\ Append(one[f], w) = <<a, w>>
    BY <2>2, TupleFacts
  <2> QED
    BY <1>1, <1>2, <2>3 DEF one
<1>4. CASE L[f] = <<a, w>>
  <2>1. In(a, L[f])
    BY <1>4, TupleFacts
  <2>2. one[f] = <<a, w>>
    BY <1>1, <1>4, <2>1
  <2>3. In(w, one[f])
    BY <2>2, TupleFacts
  <2> QED
    BY <1>1, <1>2, <2>2, <2>3 DEF one
<1> QED
  BY <1>3, <1>4

LEMMA AdapterFacts ==
  ASSUME NEW L, Layered(L), env.engine
  PROVE  /\ Layered(InstallAdapter(L))
         /\ \A f \in Functions : f \notin Paired => InstallAdapter(L)[f] = L[f]
         /\ \A f \in Paired : InstallAdapter(L)[f] = Asked(f)
<1>1. /\ "generate" \in Functions /\ "update" \in Functions
      /\ Paired = {"generate", "update"} /\ DOMAIN L = Functions
      /\ L["generate"] = L["update"]
      /\ L["generate"] = <<>> \/ L["generate"] = Asked("generate")
      /\ Asked("update") = Asked("generate")
      /\ Asked("generate") = IF Paired \subseteq supported THEN <<"adapter">> ELSE <<>>
  BY AskedFacts DEF Functions, Paired, Layered
<1>2. CASE Marked(L, "generate", "adapter") \/ ~(Paired \subseteq supported)
  <2>1. InstallAdapter(L) = L
    BY <1>2 DEF InstallAdapter
  <2>2. L["generate"] = Asked("generate")
    BY <1>1, <1>2, TupleFacts DEF Marked
  <2> QED
    BY <1>1, <2>1, <2>2
<1>3. CASE ~(Marked(L, "generate", "adapter") \/ ~(Paired \subseteq supported))
  <2>1. L["generate"] = <<>> /\ Asked("generate") = <<"adapter">>
    BY <1>1, <1>3, TupleFacts DEF Marked
  <2>2. InstallAdapter(L) = [L EXCEPT !["generate"] = Append(L["generate"], "adapter"),
                                      !["update"] = Append(L["update"], "adapter")]
    BY <1>3 DEF InstallAdapter
  <2>3. Append(L["generate"], "adapter") = <<"adapter">>
        /\ Append(L["update"], "adapter") = <<"adapter">>
    BY <1>1, <2>1, TupleFacts
  <2>4. /\ DOMAIN InstallAdapter(L) = Functions
        /\ InstallAdapter(L)["generate"] = <<"adapter">>
        /\ InstallAdapter(L)["update"] = <<"adapter">>
        /\ \A f \in Functions : f \notin Paired => InstallAdapter(L)[f] = L[f]
    BY <1>1, <2>2, <2>3
  <2> QED
    BY <1>1, <2>1, <2>4 DEF Layered
<1> QED
  BY <1>2, <1>3

(* What one call of _instrument does: functions without wrappers get all   *)
(* they are to have, others stay, and those of the target are complete.    *)
LEMMA InstrumentFacts ==
  ASSUME NEW L, Layered(L), NEW m \in Targets, NEW loaded, m \in loaded,
         m = "engine" => "stats" \in loaded
  PROVE  /\ Layered(Instrument(m, L, loaded))
         /\ \A f \in Functions : L[f] = Asked(f) => Instrument(m, L, loaded)[f] = Asked(f)
         /\ \A f \in Functions : Due(f, loaded) /\ Home[f] = m
              => Instrument(m, L, loaded)[f] = Asked(f)
         /\ Instrument(m, L, loaded)["generate"] # L["generate"]
              => {"engine", "stats"} \subseteq loaded
         /\ m = "engine" => Instrument(m, L, loaded)["update"] = Asked("update")
<1> DEFINE new == Instrument(m, L, loaded)
<1>0. /\ DOMAIN L = Functions
      /\ \A f \in Functions : L[f] = <<>> \/ L[f] = Asked(f)
      /\ L["generate"] = L["update"]
  BY DEF Layered
<1>1. CASE m \in {"app", "api"}
  <2> DEFINE b == IF m = "app" THEN "app.build" ELSE "api.build"
  <2>1. new = IF b \in supported THEN Wrap(L, b, "bootstrap") ELSE L
    BY <1>1 DEF Instrument, InstrumentApp
  <2>2. b \in Functions /\ b \notin Paired
        /\ \A f \in Functions : Home[f] = m <=> f = b
    BY <1>1, HomeFacts DEF Functions, Paired
  <2>3. Asked(b) = IF b \in supported THEN <<"bootstrap">> ELSE <<>>
    BY <1>1, AskedFacts
  <2> HIDE DEF b
  <2>4. /\ DOMAIN new = Functions /\ new[b] = Asked(b)
        /\ \A f \in Functions : f # b => new[f] = L[f]
    <3>1. b \in supported => L[b] \in {<<>>, <<"bootstrap">>}
      BY <1>0, <2>2, <2>3
    <3>2. CASE b \in supported
      BY <1>0, <2>1, <2>2, <2>3, <3>1, <3>2, WrapOnce
    <3>3. CASE b \notin supported
      BY <1>0, <2>1, <2>2, <2>3, <3>3
    <3> QED
      BY <3>2, <3>3
  <2> QED
    BY <1>0, <1>1, <2>2, <2>4 DEF Layered, Functions, Paired
<1>2. CASE m \notin {"app", "api"} /\ ~env.engine
  <2>1. new = L
    BY <1>2 DEF Instrument
  <2>2. \A f \in Functions : Home[f] = m => Asked(f) = <<>>
    BY <1>2, HomeFacts, AskedFacts DEF Functions
  <2>3. Asked("update") = <<>> /\ "update" \in Functions
    BY <1>2, AskedFacts DEF Functions
  <2> QED
    BY <1>0, <2>1, <2>2, <2>3 DEF Layered
<1>3. CASE m = "serving" /\ env.engine
  <2>1. new = IF "render" \in supported THEN Wrap(L, "render", "stages") ELSE L
    BY <1>3 DEF Instrument
  <2>2. "render" \in Functions /\ \A f \in Functions : Home[f] = m <=> f = "render"
    BY <1>3, HomeFacts DEF Functions
  <2>3. Asked("render") = IF "render" \in supported THEN <<"stages">> ELSE <<>>
    BY <1>3, AskedFacts
  <2>4. /\ DOMAIN new = Functions /\ new["render"] = Asked("render")
        /\ \A f \in Functions : f # "render" => new[f] = L[f]
    <3>1. "render" \in supported => L["render"] \in {<<>>, <<"stages">>}
      BY <1>0, <2>2, <2>3
    <3>2. CASE "render" \in supported
      BY <1>0, <2>1, <2>2, <2>3, <3>1, <3>2, WrapOnce
    <3>3. CASE "render" \notin supported
      BY <1>0, <2>1, <2>2, <2>3, <3>3
    <3> QED
      BY <3>2, <3>3
  <2> QED
    BY <1>0, <1>3, <2>2, <2>4 DEF Layered, Functions
<1>4. CASE m = "scheduler" /\ env.engine
  <2>1. new = IF "schedule" \in supported
              THEN Wrap(Wrap(L, "schedule", "stages"), "schedule", "deadline") ELSE L
    BY <1>4 DEF Instrument, InstrumentScheduler
  <2>2. "schedule" \in Functions /\ \A f \in Functions : Home[f] = m <=> f = "schedule"
    BY <1>4, HomeFacts DEF Functions
  <2>3. Asked("schedule") = IF "schedule" \in supported
                            THEN <<"stages", "deadline">> ELSE <<>>
    BY <1>4, AskedFacts
  <2>4. /\ DOMAIN new = Functions /\ new["schedule"] = Asked("schedule")
        /\ \A f \in Functions : f # "schedule" => new[f] = L[f]
    <3>1. "schedule" \in supported => L["schedule"] \in {<<>>, <<"stages", "deadline">>}
      BY <1>0, <2>2, <2>3
    <3>2. CASE "schedule" \in supported
      BY <1>0, <2>1, <2>2, <2>3, <3>1, <3>2, WrapTwice
    <3>3. CASE "schedule" \notin supported
      BY <1>0, <2>1, <2>2, <2>3, <3>3
    <3> QED
      BY <3>2, <3>3
  <2> QED
    BY <1>0, <1>4, <2>2, <2>4 DEF Layered, Functions
<1>5. CASE m = "core" /\ env.engine
  <2>1. new = IF "step" \notin supported THEN L
              ELSE IF env.langfuse THEN Wrap(Wrap(L, "step", "stages"), "step", "clock")
              ELSE Wrap(L, "step", "stages")
    BY <1>5 DEF Instrument, InstrumentCore
  <2>2. "step" \in Functions /\ \A f \in Functions : Home[f] = m <=> f = "step"
    BY <1>5, HomeFacts DEF Functions
  <2>3. Asked("step") = IF "step" \notin supported THEN <<>>
                        ELSE IF env.langfuse THEN <<"stages", "clock">> ELSE <<"stages">>
    BY <1>5, AskedFacts
  <2>4. /\ DOMAIN new = Functions /\ new["step"] = Asked("step")
        /\ \A f \in Functions : f # "step" => new[f] = L[f]
    <3>1. "step" \in supported => IF env.langfuse
                                   THEN L["step"] \in {<<>>, <<"stages", "clock">>}
                                   ELSE L["step"] \in {<<>>, <<"stages">>}
      BY <1>0, <2>2, <2>3
    <3>2. CASE "step" \in supported /\ env.langfuse
      BY <1>0, <2>1, <2>2, <2>3, <3>1, <3>2, WrapTwice
    <3>3. CASE "step" \in supported /\ ~env.langfuse
      BY <1>0, <2>1, <2>2, <2>3, <3>1, <3>3, WrapOnce
    <3>4. CASE "step" \notin supported
      BY <1>0, <2>1, <2>2, <2>3, <3>4
    <3> QED
      BY <3>2, <3>3, <3>4
  <2> QED
    BY <1>0, <1>5, <2>2, <2>4 DEF Layered, Functions
<1>6. CASE m \in {"engine", "stats"} /\ env.engine
  <2>1. new = IF {"engine", "stats"} \subseteq loaded THEN InstrumentEngine(L) ELSE L
    BY <1>6 DEF Instrument, Triggers
  <2>2. /\ \A f \in Functions : Home[f] = m => f \in {"submit", "generate", "update"}
        /\ \A f \in {"submit", "generate", "update"} : f \in Functions
        /\ Home["update"] = "stats" /\ "submit" \notin Paired
        /\ Paired = {"generate", "update"}
    BY <1>6, HomeFacts DEF Functions, Paired
  <2>3. CASE {"engine", "stats"} \subseteq loaded
    <3> DEFINE one == IF "submit" \in supported THEN Wrap(L, "submit", "stages") ELSE L
    <3>1. new = InstallAdapter(one)
      BY <2>1, <2>3 DEF InstrumentEngine
    <3>2. Asked("submit") = IF "submit" \in supported THEN <<"stages">> ELSE <<>>
      BY <1>6, AskedFacts
    <3>3. /\ DOMAIN one = Functions /\ one["submit"] = Asked("submit")
          /\ \A f \in Functions : f # "submit" => one[f] = L[f]
      <4>1. "submit" \in supported => L["submit"] \in {<<>>, <<"stages">>}
        BY <1>0, <2>2, <3>2
      <4>2. CASE "submit" \in supported
        BY <1>0, <2>2, <3>2, <4>1, <4>2, WrapOnce
      <4>3. CASE "submit" \notin supported
        BY <1>0, <2>2, <3>2, <4>3
      <4> QED
        BY <4>2, <4>3
    <3> HIDE DEF one
    <3>4. Layered(one)
      BY <1>0, <2>2, <3>3 DEF Layered
    <3>5. /\ Layered(new)
          /\ \A f \in Functions : f \notin Paired => new[f] = one[f]
          /\ \A f \in Paired : new[f] = Asked(f)
      BY <1>6, <3>1, <3>4, AdapterFacts
    <3> HIDE DEF new
    <3>6. \A f \in {"submit", "generate", "update"} : new[f] = Asked(f)
      BY <2>2, <3>3, <3>5
    <3>7. \A f \in Functions : f \notin {"submit", "generate", "update"} => new[f] = L[f]
      BY <2>2, <3>3, <3>5
    <3>8. \A f \in Functions : L[f] = Asked(f) => new[f] = Asked(f)
      BY <3>6, <3>7
    <3> QED
      BY <2>2, <2>3, <3>5, <3>6, <3>8 DEF new
  <2>4. CASE ~({"engine", "stats"} \subseteq loaded)
    <3>1. new = L /\ m = "stats" /\ "engine" \notin loaded
      BY <1>6, <2>1, <2>4
    <3>2. \A f \in Functions : ~(Due(f, loaded) /\ Home[f] = m)
      BY <3>1 DEF Due
    <3> HIDE DEF new
    <3> QED
      BY <3>1, <3>2 DEF new
  <2> QED
    BY <2>3, <2>4
<1> QED
  BY <1>1, <1>2, <1>3, <1>4, <1>5, <1>6 DEF Targets
-----------------------------------------------------------------------------
LEMMA InitIInv == Init => IInv
<1> SUFFICES ASSUME Init PROVE IInv
  OBVIOUS
<1>1. Len(stack) = 0 /\ stack \in Seq(Targets)
  BY DEF Init
<1>2. "engine" \in Targets /\ "generate" \in Functions /\ "update" \in Functions
  BY DEF Targets, Functions
<1>3. Typed /\ Complete
  BY DEF Init, Typed, Complete, States, Due
<1>4. Stacked
  BY <1>1 DEF Init, Stacked
<1>5. Layered(layers) /\ Together
  BY <1>2 DEF Init, Layered, Together
<1> QED
  BY <1>3, <1>4, <1>5 DEF IInv

(* A module begins to execute. *)
LEMMA BeginIInv ==
  ASSUME IInv, NEW m \in Targets, Begin(m)
  PROVE  IInv'
<1> USE DEF chosen
<1>0. Typed /\ Stacked /\ Layered(layers) /\ Together /\ Complete
  BY DEF IInv
<1>1. /\ state[m] = "unloaded" /\ state' = [state EXCEPT ![m] = "loading"]
      /\ stack' = Append(stack, m) /\ hooked' \subseteq Targets
      /\ UNCHANGED <<env, supported, finder, layers, bound, seen>>
  BY <1>0 DEF Begin, Found, Typed
<1>2. /\ \A t \in Targets : state'[t] = IF t = m THEN "loading" ELSE state[t]
      /\ state' \in [Targets -> States]
  BY <1>0, <1>1 DEF Typed, States
<1>3. Loaded' = Loaded
  BY <1>1, <1>2 DEF Loaded
<1>4. Typed'
  BY <1>0, <1>1, <1>2, <1>3 DEF Typed
<1>5. /\ stack' \in Seq(Targets) /\ Len(stack) \in Nat /\ Len(stack') = Len(stack) + 1
      /\ \A i \in 1..Len(stack) : stack'[i] = stack[i] /\ stack[i] \in Targets
      /\ stack'[Len(stack) + 1] = m
  BY <1>0, <1>1 DEF Stacked
<1>6. Stacked'
  <2>1. \A i \in 1..Len(stack) : stack[i] # m
    BY <1>0, <1>1 DEF Stacked
  <2>2. \A i \in 1..Len(stack') : state'[stack'[i]] = "loading"
    BY <1>0, <1>2, <1>5 DEF Stacked
  <2>3. ASSUME NEW t \in Targets, state'[t] = "loading" PROVE In(t, stack')
    <3>1. CASE t = m
      BY <1>5, <3>1 DEF In
    <3>2. CASE t # m
      <4>1. PICK i \in 1..Len(stack) : stack[i] = t
        BY <1>0, <1>2, <2>3, <3>2 DEF Stacked, In
      <4>2. i \in 1..Len(stack') /\ stack'[i] = t
        BY <1>5, <4>1
      <4> QED
        BY <4>2 DEF In
    <3> QED
      BY <3>1, <3>2
  <2>4. \A i, j \in 1..Len(stack') : i # j => stack'[i] # stack'[j]
    <3> SUFFICES ASSUME NEW i \in 1..Len(stack'), NEW j \in 1..Len(stack'), i # j
                 PROVE  stack'[i] # stack'[j]
      OBVIOUS
    <3>1. /\ i \in 1..Len(stack) \/ i = Len(stack) + 1
          /\ j \in 1..Len(stack) \/ j = Len(stack) + 1
      BY <1>5
    <3> QED
      BY <1>0, <1>5, <2>1, <3>1 DEF Stacked
  <2> QED
    BY <1>5, <2>2, <2>3, <2>4 DEF Stacked
<1>7. Together'
  BY <1>0, <1>1, <1>2, <1>3 DEF Together, Targets
<1>8. Layered(layers)' /\ Complete'
  <2>1. \A f : Asked(f)' = Asked(f)
    BY <1>1 DEF Asked
  <2> QED
    BY <1>0, <1>1, <2>1 DEF Layered, Complete
<1> QED
  BY <1>4, <1>6, <1>7, <1>8 DEF IInv

(* The api server copies build_app, before it is loaded itself. *)
LEMMA BindIInv ==
  ASSUME IInv, Bind
  PROVE  IInv'
<1> USE DEF chosen
<1>0. Typed /\ Stacked /\ Layered(layers) /\ Together /\ Complete
  BY DEF IInv
<1>1. /\ stack # <<>> /\ Top = "api" /\ bound' = TRUE
      /\ layers' = [layers EXCEPT !["api.build"] = layers["app.build"]]
      /\ UNCHANGED <<env, supported, finder, stack, state, hooked, seen>>
  BY DEF Bind
<1>2. \A f : Asked(f)' = Asked(f)
  BY <1>1 DEF Asked
<1>3. Asked("api.build") = Asked("app.build")
  <2>1. "app.build" \in supported <=> "api.build" \in supported
    BY <1>0, ContractsAssumption DEF Typed
  <2> QED
    BY <2>1, AskedFacts
<1>4. /\ DOMAIN layers = Functions /\ DOMAIN layers' = Functions
      /\ layers'["api.build"] = layers["app.build"]
      /\ \A f \in Functions : f # "api.build" => layers'[f] = layers[f]
      /\ "api.build" \in Functions /\ "app.build" \in Functions
      /\ "generate" \in Functions /\ "update" \in Functions
  BY <1>0, <1>1 DEF Layered, Functions
<1>5. "api" \notin Loaded
  <2>1. Len(stack) \in 1..Len(stack)
    BY <1>0, <1>1 DEF Stacked
  <2> QED
    BY <1>0, <1>1, <2>1 DEF Stacked, Top, Loaded
<1>6. Typed' /\ Stacked'
  BY <1>0, <1>1 DEF Typed, Stacked, Loaded
<1>7. Layered(layers)'
  BY <1>0, <1>2, <1>3, <1>4 DEF Layered
<1>8. Together'
  BY <1>0, <1>1, <1>4 DEF Together, Loaded
<1>9. Complete'
  <2>1. Home["api.build"] \notin seen
    BY <1>0, <1>5, HomeFacts DEF Typed
  <2> QED
    BY <1>0, <1>1, <1>2, <1>4, <2>1 DEF Complete, Due
<1> QED
  BY <1>6, <1>7, <1>8, <1>9 DEF IInv

(* A module has been executed, and the loader instruments it. *)
LEMMA FinishIInv ==
  ASSUME IInv, Finish
  PROVE  IInv'
<1> USE DEF chosen
<1> DEFINE n == Len(stack)
<1>0. Typed /\ Stacked /\ Layered(layers) /\ Together /\ Complete
  BY DEF IInv
<1>1. /\ stack # <<>> /\ \A r \in Requires[Top] : state[r] = "loaded"
      /\ state' = [state EXCEPT ![Top] = "loaded"]
      /\ stack' = SubSeq(stack, 1, n - 1)
      /\ Top \in hooked => /\ layers' = Instrument(Top, layers, Loaded \cup {Top})
                           /\ seen' = seen \cup {Top}
      /\ Top \notin hooked => layers' = layers /\ seen' = seen
      /\ hooked' = hooked \ {Top}
      /\ UNCHANGED <<env, supported, finder, bound>>
  BY DEF Finish, Pop
<1>2. /\ n \in Nat \ {0} /\ n \in 1..n /\ Top = stack[n] /\ Top \in Targets
      /\ state[Top] = "loading" /\ Top \notin Loaded
  <2>1. n \in Nat \ {0} /\ n \in 1..n /\ Top = stack[n] /\ stack[n] \in Targets
    BY <1>0, <1>1 DEF Stacked, Top
  <2> QED
    BY <1>0, <2>1 DEF Stacked, Loaded
<1>3. /\ \A m \in Targets : state'[m] = IF m = Top THEN "loaded" ELSE state[m]
      /\ state' \in [Targets -> States]
  BY <1>0, <1>1, <1>2 DEF Typed, States
<1>4. Loaded' = Loaded \cup {Top}
  BY <1>2, <1>3 DEF Loaded
<1>5. /\ stack' \in Seq(Targets) /\ Len(stack') = n - 1
      /\ \A i \in 1..(n - 1) : stack'[i] = stack[i]
  <2>1. \A i \in 1..(n - 1) : stack[i] \in Targets
    BY <1>0, <1>2 DEF Stacked
  <2>2. n - 1 \in Int /\ 1 \in Int /\ n - 1 >= 0
    BY <1>2
  <2> HIDE DEF n
  <2>3. /\ stack' \in Seq(Targets)
        /\ Len(stack') = IF 1 <= n - 1 THEN n - 1 - 1 + 1 ELSE 0
        /\ \A i \in 1..(n - 1 - 1 + 1) : stack'[i] = stack[1 + i - 1]
    BY <1>1, <2>1, <2>2, SubSeqProperties
  <2> QED
    BY <1>2, <2>2, <2>3
<1>6. \A f : Asked(f)' = Asked(f)
  BY <1>1 DEF Asked
<1>7. Top = "engine" => state["stats"] = "loaded" /\ "stats" \in Loaded
  <2>1. Requires["engine"] = {"stats"} /\ "stats" \in Targets
    BY DEF Requires, Targets
  <2> QED
    BY <1>1, <2>1 DEF Loaded
<1>8. Typed'
  BY <1>0, <1>1, <1>2, <1>3, <1>4 DEF Typed
<1> HIDE DEF n
<1>9. Stacked'
  <2>1. \A i \in 1..(n - 1) : i \in 1..n /\ stack[i] \in Targets /\ stack[i] # Top
    BY <1>0, <1>2 DEF Stacked, n
  <2>2. \A i \in 1..Len(stack') : state'[stack'[i]] = "loading"
    BY <1>0, <1>3, <1>5, <2>1 DEF Stacked, n
  <2>3. ASSUME NEW m \in Targets, state'[m] = "loading" PROVE In(m, stack')
    <3>1. m # Top /\ state[m] = "loading"
      BY <1>3, <2>3
    <3>2. PICK i \in 1..n : stack[i] = m
      BY <1>0, <3>1 DEF Stacked, In, n
    <3>3. i \in 1..(n - 1)
      BY <1>2, <3>1, <3>2
    <3> QED
      BY <1>5, <3>2, <3>3 DEF In
  <2>4. \A i, j \in 1..Len(stack') : i # j => stack'[i] # stack'[j]
    BY <1>0, <1>5, <2>1 DEF Stacked, n
  <2> QED
    BY <1>5, <2>2, <2>3, <2>4 DEF Stacked
<1>10. CASE Top \notin hooked
  <2>1. Layered(layers)' /\ Complete'
    BY <1>0, <1>1, <1>6, <1>10 DEF Layered, Complete
  <2>2. Together'
    BY <1>0, <1>1, <1>3, <1>4, <1>7, <1>10 DEF Together, Targets
  <2> QED
    BY <1>8, <1>9, <2>1, <2>2 DEF IInv
<1>11. CASE Top \in hooked
  <2> DEFINE ms == Loaded \cup {Top}
  <2>1. layers' = Instrument(Top, layers, ms) /\ seen' = seen \cup {Top}
    BY <1>1, <1>11
  <2>2. Top \in ms /\ (Top = "engine" => "stats" \in ms)
    BY <1>7
  <2> HIDE DEF ms
  <2>3. /\ Layered(layers')
        /\ \A f \in Functions : layers[f] = Asked(f) => layers'[f] = Asked(f)
        /\ \A f \in Functions : Due(f, ms) /\ Home[f] = Top => layers'[f] = Asked(f)
        /\ layers'["generate"] # layers["generate"] => {"engine", "stats"} \subseteq ms
        /\ Top = "engine" => layers'["update"] = Asked("update")
    BY <1>0, <1>2, <2>1, <2>2, InstrumentFacts
  <2>4. Layered(layers)'
    BY <1>6, <2>3 DEF Layered
  <2>5. Together'
    BY <1>0, <1>3, <1>4, <1>7, <2>3 DEF Together, Targets, ms
  <2>6. Complete'
    <3> SUFFICES ASSUME NEW f \in Functions, Due(f, seen') PROVE layers'[f] = Asked(f)
      BY <1>6 DEF Complete, Due
    <3>1. seen' \subseteq ms
      BY <1>0, <2>1 DEF Typed, ms
    <3>2. CASE Home[f] = Top
      <4>1. Due(f, ms)
        BY <3>1 DEF Due
      <4> QED
        BY <2>3, <3>2, <4>1
    <3>3. CASE Home[f] # Top /\ Home[f] = "stats" /\ Top = "engine"
      <4>1. f = "update"
        BY <3>3, HomeFacts DEF Functions
      <4> QED
        BY <2>3, <3>3, <4>1
    <3>4. CASE Home[f] # Top /\ ~(Home[f] = "stats" /\ Top = "engine")
      <4>1. Due(f, seen)
        BY <2>1, <3>4 DEF Due
      <4> QED
        BY <1>0, <2>3, <4>1 DEF Complete
    <3> QED
      BY <3>2, <3>3, <3>4
  <2> QED
    BY <1>8, <1>9, <2>4, <2>5, <2>6 DEF IInv
<1> QED
  BY <1>10, <1>11

(* An import fails, and everything on the stack with it: nothing that was  *)
(* loaded, and so no half of the adapter.                                  *)
LEMMA FailIInv ==
  ASSUME IInv, Fail
  PROVE  IInv'
<1> USE DEF chosen
<1>0. Typed /\ Stacked /\ Layered(layers) /\ Together /\ Complete
  BY DEF IInv
<1>1. /\ stack' = <<>>
      /\ state' = [m \in Targets |-> IF In(m, stack) THEN "unloaded" ELSE state[m]]
      /\ layers' = [f \in Functions |-> IF In(Home[f], stack) THEN <<>> ELSE layers[f]]
      /\ bound' = (bound /\ ~In("api", stack))
      /\ hooked' = {m \in hooked : ~In(m, stack)}
      /\ UNCHANGED <<env, supported, finder, seen>>
  BY DEF Fail
<1>2. \A m \in Targets : In(m, stack) <=> state[m] = "loading"
  BY <1>0 DEF Stacked, In
<1>3. /\ \A m \in Targets : state'[m] = IF state[m] = "loading" THEN "unloaded"
                                                                ELSE state[m]
      /\ state' \in [Targets -> States]
  BY <1>0, <1>1, <1>2 DEF Typed, States
<1>4. Loaded' = Loaded
  BY <1>3 DEF Loaded
<1>5. \A f : Asked(f)' = Asked(f)
  BY <1>1 DEF Asked
<1>6. Typed'
  <2>1. bound' \in BOOLEAN /\ hooked' \subseteq Targets
    BY <1>0, <1>1 DEF Typed
  <2> QED
    BY <1>0, <1>1, <1>3, <1>4, <2>1 DEF Typed
<1>7. Stacked'
  <2>1. Len(stack') = 0 /\ stack' \in Seq(Targets)
    BY <1>1
  <2>2. \A m \in Targets : state'[m] # "loading"
    BY <1>3
  <2> QED
    BY <2>1, <2>2 DEF Stacked
<1>8. /\ DOMAIN layers' = Functions
      /\ \A f \in Functions : layers'[f] = IF state[Home[f]] = "loading" THEN <<>>
                                                                         ELSE layers[f]
  BY <1>1, <1>2, HomeFacts
<1>9. layers'["generate"] = layers["generate"] /\ layers'["update"] = layers["update"]
  <2>1. /\ "generate" \in Functions /\ "update" \in Functions
        /\ layers["generate"] = layers["update"]
    BY <1>0 DEF Functions, Layered
  <2>2. CASE layers["generate"] = <<>>
    BY <1>8, <2>1, <2>2
  <2>3. CASE layers["generate"] # <<>>
    <3>1. state["engine"] = "loaded" /\ state["stats"] = "loaded"
      BY <1>0, <2>3 DEF Together, Loaded
    <3> QED
      BY <1>8, <2>1, <3>1, HomeFacts
  <2> QED
    BY <2>2, <2>3
<1>10. Layered(layers)'
  BY <1>0, <1>5, <1>8, <1>9 DEF Layered
<1>11. Together'
  BY <1>0, <1>3, <1>4, <1>9 DEF Together, Targets
<1>12. Complete'
  <2> SUFFICES ASSUME NEW f \in Functions, Due(f, seen) PROVE layers'[f] = Asked(f)
    BY <1>1, <1>5 DEF Complete, Due
  <2>1. state[Home[f]] = "loaded"
    BY <1>0 DEF Due, Typed, Loaded
  <2> QED
    BY <1>0, <1>8, <2>1 DEF Complete
<1> QED
  BY <1>6, <1>7, <1>10, <1>11, <1>12 DEF IInv

(* install() instruments what is loaded, whatever is being executed. *)
LEMMA InstallIInv ==
  ASSUME IInv, Install
  PROVE  IInv'
<1> USE DEF chosen
<1>0. Typed /\ Stacked /\ Layered(layers) /\ Together /\ Complete
  BY DEF IInv
<1>1. /\ finder' = TRUE /\ layers' = InstrumentAll(Loaded, layers)
      /\ seen' = seen \cup Loaded
      /\ UNCHANGED <<env, supported, stack, state, hooked, bound>>
  BY DEF Install, Settled
<1>2. Loaded' = Loaded /\ Loaded \subseteq Targets
  BY <1>1 DEF Loaded
<1>3. \A f : Asked(f)' = Asked(f)
  BY <1>1 DEF Asked
<1>4. seen' = Loaded
  BY <1>0, <1>1 DEF Typed
<1>5. Typed' /\ Stacked'
  BY <1>0, <1>1, <1>2, <1>4 DEF Typed, Stacked
<1>6. "engine" \in Loaded => "stats" \in Loaded
  BY <1>0 DEF Together, Loaded, Targets
<1>7. /\ DOMAIN layers' = Functions
      /\ \A f \in Functions :
           layers'[f] = IF Home[f] \in Loaded THEN Instrument(Home[f], layers, Loaded)[f]
                                              ELSE layers[f]
  BY <1>1 DEF InstrumentAll
<1>8. \A f \in Functions : Home[f] \in Loaded =>
        /\ Layered(Instrument(Home[f], layers, Loaded))
        /\ layers[f] = Asked(f) => layers'[f] = Asked(f)
        /\ Due(f, Loaded) => layers'[f] = Asked(f)
        /\ Instrument(Home[f], layers, Loaded)["generate"] # layers["generate"]
             => {"engine", "stats"} \subseteq Loaded
  BY <1>0, <1>2, <1>6, <1>7, InstrumentFacts
<1>9. /\ layers'["generate"] = layers'["update"]
      /\ layers'["generate"] # layers["generate"] => {"engine", "stats"} \subseteq Loaded
  <2>0. /\ "generate" \in Functions /\ "update" \in Functions
        /\ Home["generate"] = "engine" /\ Home["update"] = "stats"
        /\ layers["generate"] = layers["update"] /\ Asked("generate") = Asked("update")
    BY <1>0, HomeFacts, AskedFacts DEF Functions, Layered
  <2>1. CASE "engine" \in Loaded
    <3>1. Due("generate", Loaded) /\ Due("update", Loaded) /\ "stats" \in Loaded
      BY <1>6, <2>0, <2>1 DEF Due
    <3> QED
      BY <1>8, <2>0, <2>1, <3>1
  <2>2. CASE "engine" \notin Loaded
    <3>1. layers'["generate"] = layers["generate"]
      BY <1>7, <2>0, <2>2
    <3>2. layers'["update"] = layers["update"]
      <4>1. CASE "stats" \in Loaded
        <5>1. /\ Layered(Instrument("stats", layers, Loaded))
              /\ Instrument("stats", layers, Loaded)["generate"] = layers["generate"]
          BY <1>8, <2>0, <2>2, <4>1
        <5>2. layers'["update"] = Instrument("stats", layers, Loaded)["update"]
          BY <1>7, <2>0, <4>1
        <5> QED
          BY <2>0, <5>1, <5>2 DEF Layered
      <4>2. CASE "stats" \notin Loaded
        BY <1>7, <2>0, <4>2
      <4> QED
        BY <4>1, <4>2
    <3> QED
      BY <2>0, <3>1, <3>2
  <2> QED
    BY <2>1, <2>2
<1>10. Layered(layers)'
  <2>1. \A f \in Functions : layers'[f] = <<>> \/ layers'[f] = Asked(f)
    <3> TAKE f \in Functions
    <3>1. CASE Home[f] \in Loaded
      BY <1>7, <1>8, <3>1 DEF Layered
    <3>2. CASE Home[f] \notin Loaded
      BY <1>0, <1>7, <3>2 DEF Layered
    <3> QED
      BY <3>1, <3>2
  <2> QED
    BY <1>3, <1>7, <1>9, <2>1 DEF Layered
<1>11. Together'
  BY <1>0, <1>1, <1>2, <1>9 DEF Together
<1>12. Complete'
  BY <1>3, <1>4, <1>8 DEF Complete, Due
<1> QED
  BY <1>5, <1>10, <1>11, <1>12 DEF IInv

(* The middleware installs the adapter on its own. *)
LEMMA DirectIInv ==
  ASSUME IInv, Direct
  PROVE  IInv'
<1> USE DEF chosen
<1>0. Typed /\ Stacked /\ Layered(layers) /\ Together /\ Complete
  BY DEF IInv
<1>1. /\ env.engine /\ {"engine", "stats"} \subseteq Loaded
      /\ layers' = InstallAdapter(layers)
      /\ UNCHANGED <<env, supported, finder, stack, state, hooked, bound, seen>>
  BY DEF Direct
<1>2. Loaded' = Loaded
  BY <1>1 DEF Loaded
<1>3. \A f : Asked(f)' = Asked(f)
  BY <1>1 DEF Asked
<1>4. /\ Layered(layers')
      /\ \A f \in Functions : f \notin Paired => layers'[f] = layers[f]
      /\ \A f \in Paired : layers'[f] = Asked(f)
  BY <1>0, <1>1, AdapterFacts
<1>5. Typed' /\ Stacked'
  BY <1>0, <1>1, <1>2 DEF Typed, Stacked
<1>6. Layered(layers)'
  BY <1>3, <1>4 DEF Layered
<1>7. Together'
  BY <1>0, <1>1, <1>2 DEF Together
<1>8. Complete'
  BY <1>0, <1>1, <1>3, <1>4 DEF Complete, Due
<1> QED
  BY <1>5, <1>6, <1>7, <1>8 DEF IInv
-----------------------------------------------------------------------------
LEMMA NextIInv == IInv /\ [Next]_vars => IInv'
<1> SUFFICES ASSUME IInv, [Next]_vars PROVE IInv'
  OBVIOUS
<1>1. CASE \E m \in Targets : Begin(m)
  BY <1>1, BeginIInv
<1>2. CASE Bind
  BY <1>2, BindIInv
<1>3. CASE Finish
  BY <1>3, FinishIInv
<1>4. CASE Fail
  BY <1>4, FailIInv
<1>5. CASE Install
  BY <1>5, InstallIInv
<1>6. CASE Direct
  BY <1>6, DirectIInv
<1>7. CASE UNCHANGED vars
  <2>1. \A f : Asked(f)' = Asked(f)
    BY <1>7 DEF vars, Asked
  <2>2. Typed' /\ Stacked' /\ Together'
    BY <1>7 DEF vars, IInv, Typed, Stacked, Together, Loaded
  <2>3. Layered(layers)' /\ Complete'
    BY <1>7, <2>1 DEF vars, IInv, Layered, Complete
  <2> QED
    BY <2>2, <2>3 DEF IInv
<1> QED
  BY <1>1, <1>2, <1>3, <1>4, <1>5, <1>6, <1>7 DEF Next

LEMMA Inductive == Spec => []IInv
  BY InitIInv, NextIInv, PTL DEF Spec

(* What the import machinery holds: the modules being executed are those   *)
(* on the stack, and _instrument was called for loaded modules only.       *)
THEOREM TypeCorrect == Spec => []TypeOK
<1>1. IInv => TypeOK
  <2> SUFFICES ASSUME IInv PROVE TypeOK
    OBVIOUS
  <2>1. \A m \in Targets : state[m] = "loading" <=> \E i \in 1..Len(stack) : stack[i] = m
    BY DEF IInv, Stacked, In
  <2>2. seen \subseteq {m \in Targets : state[m] = "loaded"}
    BY DEF IInv, Typed, Loaded
  <2> QED
    BY <2>1, <2>2 DEF IInv, Typed, Stacked, Layered, States, TypeOK
<1> QED
  BY <1>1, Inductive, PTL

Names == {"bootstrap", "stages", "deadline", "clock", "adapter"}

(* However often install() and the middleware's own call come, between     *)
(* which imports, failed ones included, no function is wrapped twice by    *)
(* one wrapper, nor are two wrappers in the wrong order.                   *)
THEOREM WrappedOnce == Spec => []InstrumentedOnce
<1>1. IInv => InstrumentedOnce
  <2> SUFFICES ASSUME IInv, NEW f \in Functions
               PROVE  \E k \in 0..Len(Wrappers[f]) : layers[f] = SubSeq(Wrappers[f], 1, k)
    BY DEF InstrumentedOnce
  <2>1. layers[f] \in {<<>>, Asked(f)}
    BY DEF IInv, Layered
  <2>2. Wrappers[f] \in Seq(Names)
    <3>1. /\ <<"bootstrap">> \in Seq(Names) /\ <<"stages", "deadline">> \in Seq(Names)
          /\ <<"stages", "clock">> \in Seq(Names) /\ <<"stages">> \in Seq(Names)
          /\ <<"adapter">> \in Seq(Names)
      BY DEF Names
    <3> QED
      BY <3>1, WrappersFacts DEF Functions
  <2>3. CASE layers[f] = <<>>
    <3>1. SubSeq(Wrappers[f], 1, 0) = <<>>
      BY SubSeqEmpty
    <3> QED
      BY <2>2, <2>3, <3>1
  <2>4. CASE layers[f] = Wrappers[f]
    <3>1. SubSeq(Wrappers[f], 1, Len(Wrappers[f])) = Wrappers[f]
      BY <2>2, SubSeqFull
    <3> QED
      BY <2>2, <2>4, <3>1
  <2>5. CASE f = "step" /\ layers[f] = <<"stages">>
    <3> DEFINE one == <<"stages">>
               two == Wrappers["step"]
               cut == SubSeq(two, 1, 1)
    <3>1. two[1] = "stages" /\ Len(two) = 2
      BY WrappersFacts
    <3>2. one \in Seq(Names) /\ Len(one) = 1 /\ one[1] = "stages"
      BY DEF Names
    <3> HIDE DEF one, two
    <3>3. /\ cut \in Seq(Names) /\ Len(cut) = 1 - 1 + 1
          /\ \A i \in 1..(1 - 1 + 1) : cut[i] = two[1 + i - 1]
      <4>1. \A i \in 1..1 : two[i] \in Names
        BY <3>1 DEF Names
      <4>2. /\ cut \in Seq(Names) /\ Len(cut) = IF 1 <= 1 THEN 1 - 1 + 1 ELSE 0
            /\ \A i \in 1..(1 - 1 + 1) : cut[i] = two[1 + i - 1]
        BY <4>1, SubSeqProperties
      <4> QED
        BY <4>2
    <3> HIDE DEF cut
    <3>4. Len(cut) = Len(one) /\ \A i \in 1..Len(one) : cut[i] = one[i]
      BY <3>1, <3>2, <3>3
    <3>5. cut = one
      BY <3>2, <3>3, <3>4, SeqEqual
    <3> QED
      BY <2>5, <3>1, <3>5 DEF one, two, cut
  <2> QED
    BY <2>1, <2>3, <2>4, <2>5, AskedFacts, WrappersFacts DEF Functions
<1> QED
  BY <1>1, Inductive, PTL

(* Every target _instrument was called for has all the wrappers that the   *)
(* switches and the contracts ask for, the adapter's once both of its      *)
(* modules are there, and an application built through it one observer.    *)
THEOREM EverythingHooked == Spec => []AllHooked
<1>1. IInv => AllHooked
  <2> SUFFICES ASSUME IInv, NEW m \in seen, NEW f \in Functions, Home[f] = m,
                      m = "stats" => "engine" \in seen
               PROVE  /\ layers[f] = Asked(f)
                      /\ env.http /\ Asked(f) = <<"bootstrap">> =>
                           \A given \in {0, 1} : Observers(f, given, FALSE) = 1
    BY DEF AllHooked
  <2>1. layers[f] = Asked(f)
    BY DEF IInv, Complete, Due
  <2>2. ASSUME env.http, Asked(f) = <<"bootstrap">>, NEW given \in {0, 1}
        PROVE  Observers(f, given, FALSE) = 1
    <3>1. Marked(layers, f, "bootstrap")
      BY <2>1, <2>2, TupleFacts DEF Marked
    <3> QED
      BY <2>2, <3>1 DEF Observers
  <2> QED
    BY <2>1, <2>2
<1> QED
  BY <1>1, Inductive, PTL
=============================================================================
