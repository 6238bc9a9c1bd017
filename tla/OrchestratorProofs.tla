-------------------------- MODULE OrchestratorProofs --------------------------
(***************************************************************************)
(* Proofs about the orchestrator, for any components, any dependencies and *)
(* any number of signals and crashes.                                      *)
(*                                                                         *)
(* The threads share processes_ without a lock.  What keeps them apart is  *)
(* that main stands still while the handler runs, that main starts nothing *)
(* once the monitor runs, and that every stop() joins the monitor before   *)
(* it signals a component: LifeInvariant says so, place by place.          *)
(***************************************************************************)
EXTENDS Orchestrator, TLAPS

Total == Len(StartOrder)
Live(c) == proc[c] \in {"booting", "ready"}

Starter == {"main", "monitor"}
StartPlaces == {"idle", "check", "fork", "note", "wait", "ready", "giveup", "true", "false"}
(* The places of stop() after the monitor was joined.                      *)
Killing == {"next", "sigterm", "poll", "sigkill", "reap"}
Aimed == Killing \ {"next"}
StopPlaces == {"idle", "flag", "server", "server join", "collector",
               "collector join", "monitor join"} \cup Killing

StartFrame == [at : StartPlaces, comp : Component]
StopFrame == [at : StopPlaces, comps : Seq(Component), force : BOOLEAN, whole : BOOLEAN]

Types ==
    /\ state \in [Component -> {"STOPPED", "STARTING", "RUNNING", "STOPPING", "FAILED"}]
    /\ known \subseteq Component
    /\ proc \in [Component -> {"none", "booting", "ready", "dead"}]
    /\ thread \in [Worker -> {"none", "run", "ended", "joined"}]
    /\ main \in {"start", "server", "running", "monitor", "run", "stopping", "destroying", "exit"}
    /\ toStart \in Seq(Component)
    /\ starting \in [Starter -> StartFrame]
    /\ stopping \in [Caller -> StopFrame]
    /\ todo \subseteq Component
    /\ signals \in Nat /\ strayKill \in BOOLEAN

---------------------------------------------------------------------------
(* Who may be at work when.                                                *)

(* Once start() is over main starts nothing; the monitor exists only from  *)
(* then on and, when its thread does not run, does nothing.                *)
StartersApart ==
    /\ main # "start" => starting["main"].at = "idle"
    /\ thread["monitor"] # "none" => main \in {"run", "destroying", "exit"}
    /\ thread["monitor"] # "none" \/ main \in {"server", "running", "monitor", "run"}
           => toStart = <<>>
    /\ thread["monitor"] # "run" =>
           starting["monitor"].at = "idle" /\ stopping["monitor"].at = "idle" /\ todo = {}

(* A stop of one component belongs to a start that gives up; stop() of the *)
(* whole system is the handler's, or main's after start().                 *)
StopsBelong ==
    \A t \in Caller :
        /\ stopping[t].at = "idle" => stopping[t] = NoStop
        /\ stopping[t].whole /\ t = "main" => main \in {"stopping", "destroying"}
        /\ stopping[t].whole => t # "monitor"
        /\ stopping[t].at # "idle" /\ ~stopping[t].whole =>
               t # "handler" /\ stopping[t].at \in {"next", "sigkill", "reap"}
                 /\ stopping[t].force /\ starting[t].at = "giveup"
        /\ stopping[t].at \in Aimed => stopping[t].comps # <<>>

(* What main has still to start is the end of the order, and the component *)
(* it is starting comes just before.                                       *)
StartsInOrder ==
    /\ Len(toStart) <= Total
    /\ \A i \in 1..Len(toStart) : toStart[i] = StartOrder[Total - Len(toStart) + i]
    /\ starting["main"].at # "idle" =>
           Len(toStart) < Total /\ starting["main"].comp = StartOrder[Total - Len(toStart)]

(* What a stop() has still to stop is the beginning of the order, from its *)
(* end.                                                                    *)
StopsInOrder ==
    \A t \in Caller : stopping[t].whole =>
        /\ Len(stopping[t].comps) <= Total
        /\ \A i \in 1..Len(stopping[t].comps) :
              stopping[t].comps[i] = StartOrder[Len(stopping[t].comps) + 1 - i]
        /\ stopping[t].at \notin Killing => Len(stopping[t].comps) = Total

(* The components a stop() is done with.                                   *)
Passed(t) == {StartOrder[j] : j \in (Len(stopping[t].comps) + 1)..Total}

(* While it stops components the monitor does not run, so that nothing it  *)
(* is done with comes back.                                                *)
StopsForGood ==
    \A t \in Caller : stopping[t].whole /\ stopping[t].at \in Killing =>
        /\ thread["monitor"] # "run"
        /\ Passed(t) \cap known = {}

---------------------------------------------------------------------------
(* Children.                                                               *)

(* A child that lives is in the table, but for the moment between fork and *)
(* the note of its pid.                                                    *)
LiveIsKnown ==
    \A c \in Component : Live(c) =>
        c \in known \/ \E t \in Starter : starting[t].at = "note" /\ starting[t].comp = c

(* What has not been started has no child.                                 *)
Fresh(c) == c \notin known /\ ~Live(c)
NotStartedYet ==
    /\ \A c \in ToSet(toStart) : Fresh(c) /\ state[c] = "STOPPED"
    /\ starting["main"].at \in {"check", "fork"} => Fresh(starting["main"].comp)
    /\ starting["main"].at = "note" => starting["main"].comp \notin known
    /\ starting["monitor"].at \in {"check", "fork"} => ~Live(starting["monitor"].comp)

(* The states agree with the table: stop() passes a component that is      *)
(* STOPPED, and would leave it behind if it had a pid.                     *)
KnownNotStopped ==
    /\ \A c \in known : state[c] # "STOPPED"
    /\ \A t \in Starter : starting[t].at \in {"fork", "note"} =>
           state[starting[t].comp] # "STOPPED"

(* A component is started after those it depends on.                       *)
Before(c, d) == \E i, j \in 1..Total : i < j /\ StartOrder[i] = c /\ StartOrder[j] = d
Ordered(d) == \A c \in Deps[d] : Before(c, d)
DependenciesFirst ==
    /\ \A d \in Component : state[d] # "STOPPED" => Ordered(d)
    /\ \A t \in Starter :
          starting[t].at \in {"fork", "note", "wait", "ready", "giveup"} =>
              Ordered(starting[t].comp)
    /\ starting["monitor"].at # "idle" => Ordered(starting["monitor"].comp)

(* Nobody changes the target of the handler or of the monitor; that of     *)
(* main only the handler.                                                  *)
TargetsKnown ==
    /\ \A t \in {"handler", "monitor"} : stopping[t].at \in Aimed => Target(t) \in known
    /\ signals = 0 => /\ stopping["handler"].at = "idle"
                      /\ stopping["main"].at \in Aimed => Target("main") \in known

(* Without a signal what runs has a process, if only a zombie.             *)
RunningHasProcess ==
    signals = 0 =>
        /\ \A c \in Component : state[c] = "RUNNING" => Alive(c)
        /\ \A t \in Starter :
              /\ starting[t].at = "ready" => Alive(starting[t].comp)
              /\ starting[t].at \in {"fork", "note", "wait", "giveup"} =>
                     state[starting[t].comp] # "RUNNING"

(* After the last stop() nothing is left.                                  *)
NothingLeft ==
    main = "exit" \/ (main = "destroying" /\ stopping["main"].at = "idle") =>
        /\ stopping["main"].at = "idle" /\ thread["monitor"] # "run"
        /\ \A c \in Component : proc[c] = "none"

LifeInvariant ==
    /\ Types
    /\ StartersApart /\ StopsBelong /\ StartsInOrder /\ StopsInOrder /\ StopsForGood
    /\ LiveIsKnown /\ NotStartedYet /\ KnownNotStopped
    /\ DependenciesFirst
    /\ TargetsKnown /\ RunningHasProcess /\ NothingLeft


---------------------------------------------------------------------------
(* What a step does to the frames.                                         *)

LEMMA OrderFacts ==
    /\ StartOrder \in Seq(Component) /\ StartOrder # <<>>
    /\ Total \in Nat \ {0} /\ Head(StartOrder) \in Component
    /\ \A i \in 1..Total : StartOrder[i] \in Component
    /\ \A c \in Component : \E i \in 1..Total : StartOrder[i] = c
    /\ \A i, j \in 1..Total : StartOrder[i] = StartOrder[j] => i = j
BY OrchestratorAssumption DEF IsInjective, Component, ToSet, Total

LEMMA ReverseFacts ==
    /\ Reverse(StartOrder) \in Seq(Component)
    /\ Len(Reverse(StartOrder)) = Total
    /\ \A i \in 1..Total : Reverse(StartOrder)[i] = StartOrder[Total + 1 - i]
BY OrderFacts DEF Reverse, Total

LEMMA Frames ==
    /\ NoStart \in StartFrame /\ NoStart.at = "idle"
    /\ NoStop \in StopFrame /\ NoStop.at = "idle" /\ NoStop.comps = <<>> /\ ~NoStop.whole /\ ~NoStop.force
<1>1. NoStart \in StartFrame /\ NoStart.at = "idle"
  BY OrderFacts DEF NoStart, StartFrame, StartPlaces
<1>2. NoStop \in StopFrame /\ NoStop.at = "idle" /\ NoStop.comps = <<>> /\ ~NoStop.whole /\ ~NoStop.force
  BY DEF NoStop, StopFrame, StopPlaces
<1> QED BY <1>1, <1>2

LEMMA StopAllFrame ==
    ASSUME NEW force \in BOOLEAN
    PROVE  /\ StopAll(force) \in StopFrame
           /\ StopAll(force).at = "flag" /\ StopAll(force).whole
           /\ StopAll(force).comps = Reverse(StartOrder)
BY ReverseFacts DEF StopAll, StopFrame, StopPlaces

LEMMA StopOneFrame ==
    ASSUME NEW c \in Component
    PROVE  /\ StopOne(c) \in StopFrame
           /\ StopOne(c).at = "next" /\ ~StopOne(c).whole /\ StopOne(c).force
           /\ StopOne(c).comps = <<c>>
BY DEF StopOne, StopFrame, StopPlaces, Killing

LEMMA StartMove ==
    ASSUME starting \in [Starter -> StartFrame], NEW t \in Starter,
           NEW where \in StartPlaces, StartGoes(t, where)
    PROVE  /\ starting' \in [Starter -> StartFrame]
           /\ starting'[t].at = where /\ starting'[t].comp = starting[t].comp
           /\ \A u \in Starter \ {t} : starting'[u] = starting[u]
BY DEF StartGoes, StartFrame

LEMMA EnterMove ==
    ASSUME starting \in [Starter -> StartFrame], NEW t \in Starter,
           NEW c \in Component, EnterStart(t, c)
    PROVE  /\ starting' \in [Starter -> StartFrame]
           /\ starting'[t].at = "check" /\ starting'[t].comp = c
           /\ \A u \in Starter \ {t} : starting'[u] = starting[u]
BY DEF EnterStart, StartFrame, StartPlaces

LEMMA StopMove ==
    ASSUME stopping \in [Caller -> StopFrame], NEW t \in Caller,
           NEW where \in StopPlaces, StopGoes(t, where)
    PROVE  /\ stopping' \in [Caller -> StopFrame]
           /\ stopping'[t].at = where /\ stopping'[t].comps = stopping[t].comps
           /\ stopping'[t].force = stopping[t].force /\ stopping'[t].whole = stopping[t].whole
           /\ \A u \in Caller \ {t} : stopping'[u] = stopping[u]
BY DEF StopGoes, StopFrame

LEMMA StopEnter ==
    ASSUME stopping \in [Caller -> StopFrame], NEW t \in Caller,
           NEW frame \in StopFrame, stopping' = [stopping EXCEPT ![t] = frame]
    PROVE  /\ stopping' \in [Caller -> StopFrame]
           /\ stopping'[t] = frame
           /\ \A u \in Caller \ {t} : stopping'[u] = stopping[u]
OBVIOUS

LEMMA StopPass ==
    ASSUME stopping \in [Caller -> StopFrame], NEW t \in Caller,
           NEW where \in StopPlaces, stopping[t].comps # <<>>,
           stopping' = [stopping EXCEPT ![t].at = where, ![t].comps = Tail(@)]
    PROVE  /\ stopping' \in [Caller -> StopFrame]
           /\ stopping'[t].at = where /\ stopping'[t].comps = Tail(stopping[t].comps)
           /\ stopping'[t].force = stopping[t].force /\ stopping'[t].whole = stopping[t].whole
           /\ \A u \in Caller \ {t} : stopping'[u] = stopping[u]
BY DEF StopFrame

LEMMA StopPassOnly ==
    ASSUME stopping \in [Caller -> StopFrame], NEW t \in Caller,
           stopping[t].comps # <<>>,
           stopping' = [stopping EXCEPT ![t].comps = Tail(@)]
    PROVE  /\ stopping' \in [Caller -> StopFrame]
           /\ stopping'[t].at = stopping[t].at /\ stopping'[t].comps = Tail(stopping[t].comps)
           /\ stopping'[t].force = stopping[t].force /\ stopping'[t].whole = stopping[t].whole
           /\ \A u \in Caller \ {t} : stopping'[u] = stopping[u]
<1>1. stopping[t] \in StopFrame /\ Tail(stopping[t].comps) \in Seq(Component)
  BY DEF StopFrame
<1>2. [stopping[t] EXCEPT !.comps = Tail(@)] \in StopFrame
  BY <1>1 DEF StopFrame
<1>3. stopping' = [stopping EXCEPT ![t] = [stopping[t] EXCEPT !.comps = Tail(@)]]
  OBVIOUS
<1>4. stopping'[t] = [stopping[t] EXCEPT !.comps = Tail(@)]
  BY <1>3
<1> QED BY <1>1, <1>2, <1>3, <1>4 DEF StopFrame

---------------------------------------------------------------------------
(* Who may act together.                                                   *)

LEMMA InTable ==
    ASSUME Types
    PROVE  /\ known \subseteq Component /\ ToSet(toStart) \subseteq Component
           /\ \A t \in Starter : starting[t].comp \in Component
BY DEF Types, StartFrame, ToSet

LEMMA OneStarter ==
    ASSUME LifeInvariant
    PROVE  /\ starting["main"].at # "idle" =>
                /\ main = "start" /\ thread["monitor"] = "none"
                /\ starting["monitor"].at = "idle" /\ stopping["monitor"].at = "idle"
           /\ starting["monitor"].at # "idle" =>
                /\ starting["main"].at = "idle" /\ thread["monitor"] = "run" /\ toStart = <<>>
BY DEF LifeInvariant, StartersApart

LEMMA StartedOnce ==
    ASSUME LifeInvariant, NEW t \in Starter, starting[t].at # "idle"
    PROVE  starting[t].comp \in Component /\ starting[t].comp \notin ToSet(toStart)
<1>1. starting[t].comp \in Component
  BY DEF LifeInvariant, Types, StartFrame
<1>2. CASE t = "monitor"
  <2>1. toStart = <<>>
    BY <1>2, OneStarter
  <2>2. ToSet(toStart) = {}
    BY <2>1 DEF ToSet
  <2> QED BY <2>2, <1>1
<1>3. CASE t = "main"
  <2>1. toStart \in Seq(Component) /\ Len(toStart) < Total
    BY <1>3 DEF LifeInvariant, Types, StartsInOrder
  <2>2. /\ \A i \in 1..Len(toStart) : toStart[i] = StartOrder[Total - Len(toStart) + i]
        /\ starting["main"].comp = StartOrder[Total - Len(toStart)]
    BY <1>3 DEF LifeInvariant, StartsInOrder
  <2>3. ASSUME NEW i \in 1..Len(toStart) PROVE toStart[i] # starting["main"].comp
    <3>1. /\ Len(toStart) \in Nat /\ Len(toStart) < Total
          /\ Total \in Nat
      BY <2>1, OrderFacts
    <3>2. /\ Total - Len(toStart) + i \in 1..Total /\ Total - Len(toStart) \in 1..Total
          /\ Total - Len(toStart) + i # Total - Len(toStart)
      BY <3>1
    <3>3. StartOrder[Total - Len(toStart) + i] # StartOrder[Total - Len(toStart)]
      BY <3>2, OrderFacts
    <3> QED BY <3>3, <2>2
  <2>4. starting["main"].comp \notin ToSet(toStart)
    <3>1. ToSet(toStart) = {toStart[i] : i \in 1..Len(toStart)}
      BY <2>1 DEF ToSet
    <3> QED BY <3>1, <2>3
  <2> QED BY <2>4, <1>1, <1>3
<1>4. t = "main" \/ t = "monitor"
  BY DEF Starter
<1> QED BY <1>2, <1>3, <1>4

LEMMA OneKiller ==
    ASSUME LifeInvariant, NEW t \in Caller, stopping[t].at \in Killing, Awake(t)
    PROVE  /\ thread["monitor"] = "run" => t = "monitor"
           /\ starting["monitor"].at \in {"idle", "giveup"}
           /\ t # "handler" => starting["main"].at \in {"idle", "giveup"}
           /\ t = "handler" => signals # 0 /\ stopping[t].whole
           /\ stopping[t].whole => starting["monitor"].at = "idle"
           /\ \A u \in Caller \ {t} : stopping[u].at \in Killing => u = "main" /\ t = "handler"
<1>1. StopsBelong /\ StopsForGood /\ StartersApart /\ TargetsKnown
  BY DEF LifeInvariant
<1>2. stopping[t].at # "idle"
  BY DEF Killing
<1>3. stopping[t].whole => thread["monitor"] # "run" /\ t # "monitor"
  BY <1>1 DEF StopsBelong, StopsForGood
<1>4. ~stopping[t].whole => t # "handler" /\ starting[t].at = "giveup"
  BY <1>1, <1>2 DEF StopsBelong
<1>5. t = "handler" => signals # 0 /\ stopping[t].whole
  BY <1>1, <1>2, <1>4 DEF TargetsKnown
<1>6. thread["monitor"] = "run" => t = "monitor"
  BY <1>3, <1>4, OneStarter DEF Caller
<1>7. stopping[t].whole => starting["monitor"].at = "idle"
  BY <1>1, <1>3 DEF StartersApart
<1>8. starting["monitor"].at \in {"idle", "giveup"}
  BY <1>4, <1>7, OneStarter DEF Caller
<1>9. t # "handler" => starting["main"].at \in {"idle", "giveup"}
  <2>1. CASE t = "main" /\ stopping[t].whole
    BY <2>1, <1>1 DEF StopsBelong, StartersApart
  <2>2. CASE ~stopping[t].whole
    BY <2>2, <1>4, OneStarter DEF Caller
  <2> QED BY <2>1, <2>2, <1>3 DEF Caller
<1>10. ASSUME NEW u \in Caller \ {t}, stopping[u].at \in Killing
       PROVE  u = "main" /\ t = "handler"
  <2>1. stopping[u].at # "idle"
    BY <1>10 DEF Killing
  <2>2. u # "monitor"
    BY <2>1, <1>1, <1>6, <1>10 DEF StartersApart
  <2>3. u # "handler"
    <3>1. CASE t = "main"
      BY <3>1, <2>1 DEF Awake
    <3>2. CASE t = "monitor"
      <4>1. thread["monitor"] = "run"
        BY <3>2, <1>2, <1>1 DEF StartersApart
      <4> QED BY <4>1, <1>1, <1>10, <2>1 DEF StopsBelong, StopsForGood, Caller
    <3> QED BY <3>1, <3>2, <1>10 DEF Caller
  <2>4. t # "monitor"
    <3>1. thread["monitor"] = "run" => stopping["main"].at \notin Killing
      BY <1>1, OneStarter DEF StopsBelong, StopsForGood, Caller, Killing
    <3> QED BY <3>1, <2>2, <2>3, <1>10, <1>2, <1>1 DEF StartersApart, Caller
  <2> QED BY <2>2, <2>3, <2>4, <1>10 DEF Caller
<1> QED BY <1>5, <1>6, <1>7, <1>8, <1>9, <1>10

LEMMA NextIsOrdered ==
    ASSUME LifeInvariant, NEW t \in Starter, starting[t].at = "check",
           state[starting[t].comp] # "RUNNING", DependenciesRunning(starting[t].comp)
    PROVE  Ordered(starting[t].comp)
<1>1. CASE t = "monitor"
  BY <1>1 DEF LifeInvariant, DependenciesFirst
<1>2. CASE t = "main"
  <2> DEFINE d == starting["main"].comp
             n == Total - Len(toStart)
  <2>1. Len(toStart) < Total /\ d = StartOrder[n] /\ d \in Component /\ toStart \in Seq(Component)
    BY <1>2, StartedOnce DEF LifeInvariant, StartsInOrder, Types
  <2>2. n \in 1..Total
    BY <2>1, OrderFacts
  <2>3. ASSUME NEW c \in Deps[d] PROVE Before(c, d)
    <3>1. c \in Component /\ state[c] = "RUNNING"
      BY <2>1, <1>2, <2>3, OrchestratorAssumption DEF DependenciesRunning
    <3>2. PICK i \in 1..Total : StartOrder[i] = c
      BY <3>1, OrderFacts
    <3>3. c \notin ToSet(toStart)
      BY <3>1 DEF LifeInvariant, NotStartedYet
    <3>4. i <= n
      <4>1. SUFFICES ASSUME i > n PROVE FALSE
        BY <2>2, OrderFacts
      <4>2. i - n \in 1..Len(toStart) /\ n + (i - n) = i
        BY <4>1, <2>1, <2>2, OrderFacts
      <4>3. toStart[i - n] = StartOrder[n + (i - n)]
        BY <4>2 DEF LifeInvariant, StartsInOrder
      <4>4. toStart[i - n] \in ToSet(toStart)
        BY <4>2 DEF ToSet
      <4> QED BY <4>2, <4>3, <4>4, <3>2, <3>3
    <3>5. i # n
      BY <3>1, <3>2, <2>1, <1>2
    <3>6. i < n
      BY <3>2, <3>4, <3>5, <2>2, OrderFacts
    <3>7. StartOrder[n] = d
      BY <2>1
    <3> QED BY <3>2, <3>6, <3>7, <2>2 DEF Before
  <2> QED BY <2>3, <1>2 DEF Ordered
<1> QED BY <1>1, <1>2 DEF Starter

---------------------------------------------------------------------------
(* A move of one frame of stop() from place to place.                      *)

LEMMA StillInOrder ==
    ASSUME StopsInOrder, NEW t \in Caller,
           stopping'[t].comps = stopping[t].comps, stopping'[t].whole = stopping[t].whole,
           stopping'[t].at \notin Killing => stopping[t].at \notin Killing,
           \A u \in Caller \ {t} : stopping'[u] = stopping[u]
    PROVE  StopsInOrder'
<1>1. SUFFICES ASSUME NEW u \in Caller, stopping'[u].whole
      PROVE  /\ Len(stopping'[u].comps) <= Total
             /\ \A i \in 1..Len(stopping'[u].comps) :
                   stopping'[u].comps[i] = StartOrder[Len(stopping'[u].comps) + 1 - i]
             /\ stopping'[u].at \notin Killing => Len(stopping'[u].comps) = Total
  BY DEF StopsInOrder
<1>2. /\ stopping'[u].comps = stopping[u].comps /\ stopping[u].whole
      /\ stopping'[u].at \notin Killing => stopping[u].at \notin Killing
  BY <1>1
<1> QED BY <1>2 DEF StopsInOrder

LEMMA StillForGood ==
    ASSUME StopsForGood, NEW t \in Caller,
           stopping'[t].comps = stopping[t].comps, stopping'[t].whole = stopping[t].whole,
           stopping'[t].at \in Killing => stopping[t].at \in Killing,
           \A u \in Caller \ {t} : stopping'[u] = stopping[u],
           thread'["monitor"] = "run" => thread["monitor"] = "run", known' \subseteq known
    PROVE  StopsForGood'
<1>1. SUFFICES ASSUME NEW u \in Caller, stopping'[u].whole, stopping'[u].at \in Killing
      PROVE  thread'["monitor"] # "run" /\ Passed(u)' \cap known' = {}
  BY DEF StopsForGood
<1>2. stopping'[u].comps = stopping[u].comps /\ stopping[u].whole /\ stopping[u].at \in Killing
  BY <1>1
<1>3. Passed(u)' = Passed(u)
  BY <1>2 DEF Passed
<1> QED BY <1>2, <1>3 DEF StopsForGood

LEMMA StillNothingLeft ==
    ASSUME NothingLeft, NEW t \in Caller, stopping[t].at # "idle", stopping'[t].at # "idle",
           \A u \in Caller \ {t} : stopping'[u] = stopping[u], main' = main,
           thread'["monitor"] = "run" => thread["monitor"] = "run",
           \A c \in Component : proc[c] = "none" => proc'[c] = "none"
    PROVE  NothingLeft'
BY DEF NothingLeft, Caller

---------------------------------------------------------------------------
(* stop() goes on to its next component.                                   *)

LEMMA TargetInTable ==
    ASSUME Types, NEW t \in Caller, stopping[t].comps # <<>>
    PROVE  Target(t) \in Component
BY DEF Types, StopFrame, Target

LEMMA PassInOrder ==
    ASSUME Types, StopsInOrder, NEW t \in Caller, stopping[t].comps # <<>>,
           stopping'[t].comps = Tail(stopping[t].comps), stopping'[t].whole = stopping[t].whole,
           stopping'[t].at \in Killing, \A u \in Caller \ {t} : stopping'[u] = stopping[u]
    PROVE  StopsInOrder'
<1>1. SUFFICES ASSUME NEW u \in Caller, stopping'[u].whole
      PROVE  /\ Len(stopping'[u].comps) <= Total
             /\ \A i \in 1..Len(stopping'[u].comps) :
                   stopping'[u].comps[i] = StartOrder[Len(stopping'[u].comps) + 1 - i]
             /\ stopping'[u].at \notin Killing => Len(stopping'[u].comps) = Total
  BY DEF StopsInOrder
<1>2. CASE u # t
  <2>1. stopping'[u] = stopping[u]
    BY <1>2
  <2> QED BY <2>1, <1>1 DEF StopsInOrder
<1>3. CASE u = t
  <2> DEFINE comps == stopping[t].comps
  <2>1. comps \in Seq(Component) /\ comps # <<>>
    BY DEF Types, StopFrame
  <2>2. Len(comps) <= Total /\ \A i \in 1..Len(comps) : comps[i] = StartOrder[Len(comps) + 1 - i]
    BY <1>1, <1>3 DEF StopsInOrder
  <2>3. /\ Len(Tail(comps)) = Len(comps) - 1
        /\ \A i \in 1..Len(Tail(comps)) : Tail(comps)[i] = comps[i + 1]
    BY <2>1
  <2>4. ASSUME NEW i \in 1..Len(Tail(comps))
        PROVE  Tail(comps)[i] = StartOrder[Len(Tail(comps)) + 1 - i]
    <3> DEFINE n == Len(comps)
    <3>1. n \in Nat /\ Len(Tail(comps)) = n - 1 /\ i \in 1..(n - 1)
      BY <2>1, <2>3
    <3>2. i + 1 \in 1..n /\ n + 1 - (i + 1) = (n - 1) + 1 - i
      <4> HIDE DEF n
      <4> QED BY <3>1
    <3>3. i + 1 \in 1..Len(comps) /\ Len(comps) + 1 - (i + 1) = Len(Tail(comps)) + 1 - i
      BY <3>1, <3>2
    <3> QED BY <3>3, <2>2, <2>3
  <2>5. Len(Tail(comps)) <= Total
    BY <2>1, <2>2, <2>3, OrderFacts
  <2> QED BY <2>4, <2>5, <1>3
<1> QED BY <1>2, <1>3

LEMMA PassForGood ==
    ASSUME Types, StopsInOrder, StopsForGood, NEW t \in Caller, stopping[t].comps # <<>>,
           stopping'[t].comps = Tail(stopping[t].comps), stopping'[t].whole = stopping[t].whole,
           stopping[t].at \in Killing, \A u \in Caller \ {t} : stopping'[u] = stopping[u],
           thread' = thread, known' \subseteq known, Target(t) \notin known'
    PROVE  StopsForGood'
<1>1. SUFFICES ASSUME NEW u \in Caller, stopping'[u].whole, stopping'[u].at \in Killing
      PROVE  thread'["monitor"] # "run" /\ Passed(u)' \cap known' = {}
  BY DEF StopsForGood
<1>2. CASE u # t
  <2>1. stopping'[u] = stopping[u]
    BY <1>2
  <2>2. Passed(u)' = Passed(u)
    BY <2>1 DEF Passed
  <2> QED BY <2>1, <2>2, <1>1 DEF StopsForGood
<1>3. CASE u = t
  <2> DEFINE comps == stopping[t].comps
  <2>1. comps \in Seq(Component) /\ comps # <<>>
    BY DEF Types, StopFrame
  <2>2. Len(comps) <= Total /\ \A i \in 1..Len(comps) : comps[i] = StartOrder[Len(comps) + 1 - i]
    BY <1>1, <1>3 DEF StopsInOrder
  <2>3. Len(Tail(comps)) = Len(comps) - 1 /\ 1 \in 1..Len(comps) /\ Head(comps) = comps[1]
    BY <2>1
  <2>4. Target(t) = StartOrder[Len(comps)]
    BY <2>1, <2>2, <2>3 DEF Target
  <2>5. ASSUME NEW c \in Passed(t)' PROVE c \in Passed(t) \/ c = Target(t)
    <3>1. PICK j \in (Len(Tail(comps)) + 1)..Total : c = StartOrder[j]
      BY <2>5 DEF Passed
    <3>2. j = Len(comps) \/ j \in (Len(comps) + 1)..Total
      BY <3>1, <2>1, <2>3, OrderFacts
    <3> QED BY <3>1, <3>2, <2>4 DEF Passed
  <2>6. thread["monitor"] # "run" /\ Passed(t) \cap known = {}
    BY <1>1, <1>3 DEF StopsForGood
  <2> QED BY <2>5, <2>6, <1>3
<1> QED BY <1>2, <1>3

(* A stop() of the whole system begins.                                    *)
LEMMA StopAllStops ==
    ASSUME Types, NEW t \in {"main", "handler"}, NEW force \in BOOLEAN,
           stopping' = [stopping EXCEPT ![t] = StopAll(force)]
    PROVE  /\ stopping' \in [Caller -> StopFrame]
           /\ stopping'[t].at = "flag" /\ stopping'[t].whole
           /\ Len(stopping'[t].comps) = Total
           /\ \A i \in 1..Total : stopping'[t].comps[i] = StartOrder[Total + 1 - i]
           /\ \A u \in Caller \ {t} : stopping'[u] = stopping[u]
<1>1. /\ StopAll(force) \in StopFrame
      /\ StopAll(force).at = "flag" /\ StopAll(force).whole
      /\ StopAll(force).comps = Reverse(StartOrder)
  BY StopAllFrame
<1>2. /\ stopping' \in [Caller -> StopFrame] /\ stopping'[t] = StopAll(force)
      /\ \A u \in Caller \ {t} : stopping'[u] = stopping[u]
  BY <1>1, StopEnter DEF Types, Caller
<1> QED BY <1>1, <1>2, ReverseFacts

LEMMA StopAllInOrder ==
    ASSUME Types, StopsInOrder, NEW t \in {"main", "handler"}, NEW force \in BOOLEAN,
           stopping' = [stopping EXCEPT ![t] = StopAll(force)]
    PROVE  StopsInOrder'
<1>1. /\ Len(stopping'[t].comps) = Total
      /\ \A i \in 1..Total : stopping'[t].comps[i] = StartOrder[Total + 1 - i]
      /\ \A u \in Caller \ {t} : stopping'[u] = stopping[u]
  BY StopAllStops
<1>2. ASSUME NEW u \in Caller, stopping'[u].whole
      PROVE  /\ Len(stopping'[u].comps) <= Total
             /\ \A i \in 1..Len(stopping'[u].comps) :
                   stopping'[u].comps[i] = StartOrder[Len(stopping'[u].comps) + 1 - i]
             /\ stopping'[u].at \notin Killing => Len(stopping'[u].comps) = Total
  <2>1. CASE u = t
    <3>1. Len(stopping'[u].comps) = Total /\ Total \in Nat
      BY <2>1, <1>1, OrderFacts
    <3>2. \A i \in 1..Total : stopping'[u].comps[i] = StartOrder[Total + 1 - i]
      BY <2>1, <1>1
    <3> QED BY <3>1, <3>2
  <2>2. CASE u # t
    BY <2>2, <1>1, <1>2 DEF StopsInOrder
  <2> QED BY <2>1, <2>2
<1> QED BY <1>2 DEF StopsInOrder

----------------------------------------------------------------------------
(* Each action keeps the invariant: what the step does to the frames and the *)
(* tables, then the parts it leaves alone, then one by one those it touches. *)

(* A component passes the check only when those it depends on run; they were
   started before it. *)
LEMMA KeepsCheckComponent ==
    ASSUME LifeInvariant, NEW t \in Starter, CheckComponent(t)
    PROVE  LifeInvariant'
<1>1. /\ Types /\ StartersApart /\ StopsBelong /\ StartsInOrder /\ StopsInOrder /\ StopsForGood
      /\ LiveIsKnown /\ NotStartedYet /\ KnownNotStopped /\ DependenciesFirst
      /\ TargetsKnown /\ RunningHasProcess /\ NothingLeft
  BY DEF LifeInvariant
<1>2. PICK where \in {"true", "false", "fork"} :
         /\ StartGoes(t, where) /\ starting[t].at = "check" /\ Awake(t)
         /\ where = "fork" => /\ state' = [state EXCEPT ![starting[t].comp] = "STARTING"]
                              /\ state[starting[t].comp] # "RUNNING" /\ DependenciesRunning(starting[t].comp)
         /\ where # "fork" => UNCHANGED state
  BY DEF CheckComponent, At
<1>3. /\ starting'[t].at = where
      /\ starting' \in [Starter -> StartFrame]
      /\ starting'[t].comp = starting[t].comp
      /\ \A u \in Starter \ {t} : starting'[u] = starting[u]
  BY <1>1, <1>2, StartMove DEF Types, StartPlaces
<1>4. /\ starting[t].comp \notin ToSet(toStart) /\ known \subseteq Component /\ ToSet(toStart) \subseteq Component
      /\ \A u \in Starter : starting[u].comp \in Component
  BY <1>1, <1>2, StartedOnce, InTable
<1>5. /\ state' \in [Component -> {"STOPPED", "STARTING", "RUNNING", "STOPPING", "FAILED"}]
      /\ \A c \in Component \ {starting[t].comp} : state'[c] = state[c]
      /\ where = "fork" => state'[starting[t].comp] = "STARTING"
      /\ where # "fork" => state' = state
  BY <1>1, <1>2, <1>4 DEF Types
<1>6. UNCHANGED <<known, proc, thread, main, toStart, stopping, todo, signals, strayKill>>
  BY DEF CheckComponent, procVars, serverVars, countVars
<1>7. StopsInOrder' /\ StopsForGood' /\ TargetsKnown' /\ NothingLeft'
  BY <1>1, <1>6 DEF StopsInOrder, StopsForGood, Passed, TargetsKnown, Target, NothingLeft
<1>8. Types'
  BY <1>1, <1>2, <1>3, <1>4, <1>5, <1>6 DEF Types, Starter, Caller, Worker
<1>9. StartersApart'
  BY <1>1, <1>2, <1>3, <1>4, <1>6, OneStarter DEF StartersApart, Starter, Caller, Worker
<1>10. StopsBelong'
  BY <1>1, <1>2, <1>3, <1>4, <1>6 DEF StopsBelong, Starter, Caller, Aimed, Killing, NoStop
<1>11. StartsInOrder'
  BY <1>1, <1>2, <1>3, <1>4, <1>6 DEF StartsInOrder, Starter
<1>12. LiveIsKnown'
  BY <1>1, <1>2, <1>3, <1>4, <1>6 DEF LiveIsKnown, Live, Starter
<1>13. NotStartedYet'
  BY <1>1, <1>2, <1>3, <1>4, <1>5, <1>6, OneStarter DEF NotStartedYet, Fresh, Live, Starter
<1>14. KnownNotStopped'
  BY <1>1, <1>2, <1>3, <1>4, <1>5, <1>6 DEF KnownNotStopped, Starter
<1>15. DependenciesFirst'
  BY <1>1, <1>2, <1>3, <1>4, <1>5, <1>6, NextIsOrdered DEF DependenciesFirst, Starter
<1>16. RunningHasProcess'
  BY <1>1, <1>2, <1>3, <1>4, <1>5, <1>6 DEF RunningHasProcess, Alive, Starter
<1> QED BY <1>7, <1>8, <1>9, <1>10, <1>11, <1>12, <1>13, <1>14, <1>15, <1>16 DEF LifeInvariant

(* The child of a fork is covered by the place "note" until its pid is in the
   table. *)
LEMMA KeepsSpawn ==
    ASSUME LifeInvariant, NEW t \in Starter, Spawn(t)
    PROVE  LifeInvariant'
<1>1. /\ Types /\ StartersApart /\ StopsBelong /\ StartsInOrder /\ StopsInOrder /\ StopsForGood
      /\ LiveIsKnown /\ NotStartedYet /\ KnownNotStopped /\ DependenciesFirst
      /\ TargetsKnown /\ RunningHasProcess /\ NothingLeft
  BY DEF LifeInvariant
<1>2. PICK where \in {"note", "false"} :
         /\ StartGoes(t, where) /\ starting[t].at = "fork" /\ Awake(t)
         /\ where = "note" => proc' = [proc EXCEPT ![starting[t].comp] = "booting"] /\ UNCHANGED state
         /\ where = "false" => state' = [state EXCEPT ![starting[t].comp] = "FAILED"] /\ UNCHANGED proc
  BY DEF Spawn, At
<1>3. /\ starting'[t].at = where
      /\ starting' \in [Starter -> StartFrame]
      /\ starting'[t].comp = starting[t].comp
      /\ \A u \in Starter \ {t} : starting'[u] = starting[u]
  BY <1>1, <1>2, StartMove DEF Types, StartPlaces
<1>4. /\ starting[t].comp \notin ToSet(toStart) /\ known \subseteq Component /\ ToSet(toStart) \subseteq Component
      /\ \A u \in Starter : starting[u].comp \in Component
  BY <1>1, <1>2, StartedOnce, InTable
<1>5. /\ state' \in [Component -> {"STOPPED", "STARTING", "RUNNING", "STOPPING", "FAILED"}]
      /\ \A c \in Component \ {starting[t].comp} : state'[c] = state[c]
      /\ where = "false" => state'[starting[t].comp] = "FAILED"
      /\ where = "note" => state' = state
  BY <1>1, <1>2, <1>4 DEF Types
<1>6. /\ proc' \in [Component -> {"none", "booting", "ready", "dead"}]
      /\ \A c \in Component \ {starting[t].comp} : proc'[c] = proc[c]
      /\ where = "note" => proc'[starting[t].comp] = "booting"
      /\ where = "false" => proc' = proc
  BY <1>1, <1>2, <1>4 DEF Types
<1>7. UNCHANGED <<known, thread, main, toStart, stopping, todo, signals, strayKill>>
  BY DEF Spawn, procVars, serverVars, countVars
<1>8. StopsInOrder' /\ StopsForGood' /\ TargetsKnown'
  BY <1>1, <1>7 DEF StopsInOrder, StopsForGood, Passed, TargetsKnown, Target
<1>9. Types'
  BY <1>1, <1>2, <1>3, <1>4, <1>5, <1>6, <1>7 DEF Types, Starter, Caller, Worker
<1>10. StartersApart'
  BY <1>1, <1>2, <1>3, <1>4, <1>7, OneStarter DEF StartersApart, Starter, Caller, Worker
<1>11. StopsBelong'
  BY <1>1, <1>2, <1>3, <1>4, <1>7 DEF StopsBelong, Starter, Caller, Aimed, Killing, NoStop
<1>12. StartsInOrder'
  BY <1>1, <1>2, <1>3, <1>4, <1>7 DEF StartsInOrder, Starter
<1>13. LiveIsKnown'
  BY <1>1, <1>2, <1>3, <1>4, <1>6, <1>7 DEF LiveIsKnown, Live, Starter
<1>14. NotStartedYet'
  BY <1>1, <1>2, <1>3, <1>4, <1>5, <1>6, <1>7, OneStarter DEF NotStartedYet, Fresh, Live,
       Starter
<1>15. KnownNotStopped'
  BY <1>1, <1>2, <1>3, <1>4, <1>5, <1>7 DEF KnownNotStopped, Starter
<1>16. DependenciesFirst'
  BY <1>1, <1>2, <1>3, <1>4, <1>5, <1>7 DEF DependenciesFirst, Starter
<1>17. RunningHasProcess'
  BY <1>1, <1>2, <1>3, <1>4, <1>5, <1>6, <1>7 DEF RunningHasProcess, Alive, Starter
<1>18. NothingLeft'
  BY <1>1, <1>2, <1>4, <1>6, <1>7, OneStarter DEF NothingLeft, Caller, Starter
<1> QED BY <1>8, <1>9, <1>10, <1>11, <1>12, <1>13, <1>14, <1>15, <1>16, <1>17, <1>18 DEF LifeInvariant

(* The table grows only while no stop() signals components. *)
LEMMA KeepsNotePid ==
    ASSUME LifeInvariant, NEW t \in Starter, NotePid(t)
    PROVE  LifeInvariant'
<1>1. /\ Types /\ StartersApart /\ StopsBelong /\ StartsInOrder /\ StopsInOrder /\ StopsForGood
      /\ LiveIsKnown /\ NotStartedYet /\ KnownNotStopped /\ DependenciesFirst
      /\ TargetsKnown /\ RunningHasProcess /\ NothingLeft
  BY DEF LifeInvariant
<1>2. /\ StartGoes(t, "wait") /\ starting[t].at = "note" /\ Awake(t)
      /\ known' = known \union {starting[t].comp}
  BY DEF NotePid, At
<1>3. /\ starting'[t].at = "wait"
      /\ starting' \in [Starter -> StartFrame]
      /\ starting'[t].comp = starting[t].comp
      /\ \A u \in Starter \ {t} : starting'[u] = starting[u]
  BY <1>1, <1>2, StartMove DEF Types, StartPlaces
<1>4. /\ starting[t].comp \notin ToSet(toStart) /\ known \subseteq Component /\ ToSet(toStart) \subseteq Component
      /\ \A u \in Starter : starting[u].comp \in Component
  BY <1>1, <1>2, StartedOnce, InTable
<1>5. UNCHANGED <<state, proc, thread, main, toStart, stopping, todo, signals, strayKill>>
  BY DEF NotePid, procVars, serverVars, countVars
<1>6. StopsInOrder' /\ NothingLeft'
  BY <1>1, <1>5 DEF StopsInOrder, NothingLeft
<1>7. Types'
  BY <1>1, <1>2, <1>3, <1>4, <1>5 DEF Types, Starter, Caller, Worker
<1>8. StartersApart'
  BY <1>1, <1>2, <1>3, <1>4, <1>5, OneStarter DEF StartersApart, Starter, Caller, Worker
<1>9. StopsBelong'
  BY <1>1, <1>2, <1>3, <1>4, <1>5 DEF StopsBelong, Starter, Caller, Aimed, Killing, NoStop
<1>10. StartsInOrder'
  BY <1>1, <1>2, <1>3, <1>4, <1>5 DEF StartsInOrder, Starter
<1>11. StopsForGood'
  <2>1. ASSUME NEW u \in Caller, stopping[u].whole, stopping[u].at \in Killing PROVE FALSE
    <3>1. thread["monitor"] # "run" /\ u # "monitor" /\ (u = "main" => main # "start")
      BY <1>1, <2>1 DEF StopsForGood, StopsBelong
    <3>2. t = "main" /\ main = "start"
      BY <3>1, <1>2, OneStarter DEF Starter
    <3> QED BY <3>1, <3>2, <1>2, <2>1 DEF Awake, Caller, Killing
  <2> QED BY <2>1, <1>5 DEF StopsForGood
<1>12. LiveIsKnown'
  BY <1>1, <1>2, <1>3, <1>4, <1>5 DEF LiveIsKnown, Live, Starter
<1>13. NotStartedYet'
  BY <1>1, <1>2, <1>3, <1>4, <1>5, OneStarter DEF NotStartedYet, Fresh, Live, Starter
<1>14. KnownNotStopped'
  BY <1>1, <1>2, <1>3, <1>4, <1>5 DEF KnownNotStopped, Starter
<1>15. DependenciesFirst'
  BY <1>1, <1>2, <1>3, <1>4, <1>5 DEF DependenciesFirst, Starter
<1>16. TargetsKnown'
  BY <1>1, <1>2, <1>4, <1>5 DEF TargetsKnown, Target, Caller, Aimed, Killing
<1>17. RunningHasProcess'
  BY <1>1, <1>2, <1>3, <1>4, <1>5 DEF RunningHasProcess, Alive, Starter
<1> QED BY <1>6, <1>7, <1>8, <1>9, <1>10, <1>11, <1>12, <1>13, <1>14, <1>15, <1>16, <1>17 DEF LifeInvariant

(* A start that gives up begins the stop of its own component. *)
LEMMA KeepsWaitReady ==
    ASSUME LifeInvariant, NEW t \in Starter, WaitReady(t)
    PROVE  LifeInvariant'
<1>1. /\ Types /\ StartersApart /\ StopsBelong /\ StartsInOrder /\ StopsInOrder /\ StopsForGood
      /\ LiveIsKnown /\ NotStartedYet /\ KnownNotStopped /\ DependenciesFirst
      /\ TargetsKnown /\ RunningHasProcess /\ NothingLeft
  BY DEF LifeInvariant
<1>2. PICK where \in {"ready", "giveup"} :
         /\ StartGoes(t, where) /\ starting[t].at = "wait" /\ Awake(t)
         /\ where = "ready" => Alive(starting[t].comp) /\ UNCHANGED stopping
         /\ where = "giveup" => stopping' = [stopping EXCEPT ![t] = StopOne(starting[t].comp)]
  BY DEF WaitReady, At, Healthy
<1>3. /\ starting'[t].at = where
      /\ starting' \in [Starter -> StartFrame]
      /\ starting'[t].comp = starting[t].comp
      /\ \A u \in Starter \ {t} : starting'[u] = starting[u]
  BY <1>1, <1>2, StartMove DEF Types, StartPlaces
<1>4. /\ starting[t].comp \notin ToSet(toStart) /\ known \subseteq Component /\ ToSet(toStart) \subseteq Component
      /\ \A u \in Starter : starting[u].comp \in Component
  BY <1>1, <1>2, StartedOnce, InTable
<1>5. /\ stopping' \in [Caller -> StopFrame] /\ t \in Caller /\ t # "handler"
      /\ \A u \in Caller \ {t} : stopping'[u] = stopping[u]
      /\ where = "ready" => stopping'[t] = stopping[t]
      /\ where = "giveup" => /\ stopping'[t].at = "next" /\ ~stopping'[t].whole /\ stopping'[t].force
                             /\ stopping'[t].comps = <<starting[t].comp>>
  BY <1>1, <1>2, <1>4, StopEnter, StopOneFrame DEF Types, Starter, Caller
<1>6. UNCHANGED <<state, known, proc, thread, main, toStart, todo, signals, strayKill>>
  BY DEF WaitReady, procVars, serverVars, countVars
<1>7. Types'
  BY <1>1, <1>2, <1>3, <1>4, <1>5, <1>6 DEF Types, Starter, Caller, Worker
<1>8. StartersApart'
  BY <1>1, <1>2, <1>3, <1>4, <1>5, <1>6, OneStarter DEF StartersApart, Starter, Caller, Worker
<1>9. StopsBelong'
  BY <1>1, <1>2, <1>3, <1>4, <1>5, <1>6 DEF StopsBelong, Starter, Caller, Aimed, Killing, NoStop
<1>10. StartsInOrder'
  BY <1>1, <1>2, <1>3, <1>4, <1>6 DEF StartsInOrder, Starter
<1>11. StopsInOrder'
  BY <1>1, <1>2, <1>4, <1>5, <1>6 DEF StopsInOrder, Caller, Killing
<1>12. StopsForGood'
  BY <1>1, <1>2, <1>4, <1>5, <1>6 DEF StopsForGood, Passed, Caller, Killing
<1>13. LiveIsKnown'
  BY <1>1, <1>2, <1>3, <1>4, <1>6 DEF LiveIsKnown, Live, Starter
<1>14. NotStartedYet'
  BY <1>1, <1>2, <1>3, <1>4, <1>6, OneStarter DEF NotStartedYet, Fresh, Live, Starter
<1>15. KnownNotStopped'
  BY <1>1, <1>2, <1>3, <1>4, <1>6 DEF KnownNotStopped, Starter
<1>16. DependenciesFirst'
  BY <1>1, <1>2, <1>3, <1>4, <1>6 DEF DependenciesFirst, Starter
<1>17. TargetsKnown'
  BY <1>1, <1>2, <1>4, <1>5, <1>6 DEF TargetsKnown, Target, Caller, Aimed, Killing
<1>18. RunningHasProcess'
  BY <1>1, <1>2, <1>3, <1>4, <1>6 DEF RunningHasProcess, Alive, Starter
<1>19. NothingLeft'
  BY <1>1, <1>2, <1>4, <1>5, <1>6, OneStarter DEF NothingLeft, Caller
<1> QED BY <1>7, <1>8, <1>9, <1>10, <1>11, <1>12, <1>13, <1>14, <1>15, <1>16, <1>17, <1>18, <1>19 DEF LifeInvariant

LEMMA KeepsSetRunning ==
    ASSUME LifeInvariant, NEW t \in Starter, SetRunning(t)
    PROVE  LifeInvariant'
<1>1. /\ Types /\ StartersApart /\ StopsBelong /\ StartsInOrder /\ StopsInOrder /\ StopsForGood
      /\ LiveIsKnown /\ NotStartedYet /\ KnownNotStopped /\ DependenciesFirst
      /\ TargetsKnown /\ RunningHasProcess /\ NothingLeft
  BY DEF LifeInvariant
<1>2. /\ StartGoes(t, "true") /\ starting[t].at = "ready" /\ Awake(t)
      /\ state' = [state EXCEPT ![starting[t].comp] = "RUNNING"]
  BY DEF SetRunning, At
<1>3. /\ starting'[t].at = "true"
      /\ starting' \in [Starter -> StartFrame]
      /\ starting'[t].comp = starting[t].comp
      /\ \A u \in Starter \ {t} : starting'[u] = starting[u]
  BY <1>1, <1>2, StartMove DEF Types, StartPlaces
<1>4. /\ starting[t].comp \notin ToSet(toStart) /\ known \subseteq Component /\ ToSet(toStart) \subseteq Component
      /\ \A u \in Starter : starting[u].comp \in Component
  BY <1>1, <1>2, StartedOnce, InTable
<1>5. /\ state' \in [Component -> {"STOPPED", "STARTING", "RUNNING", "STOPPING", "FAILED"}]
      /\ \A c \in Component \ {starting[t].comp} : state'[c] = state[c]
      /\ state'[starting[t].comp] = "RUNNING"
  BY <1>1, <1>2, <1>4 DEF Types
<1>6. UNCHANGED <<known, proc, thread, main, toStart, stopping, todo, signals, strayKill>>
  BY DEF SetRunning, procVars, serverVars, countVars
<1>7. StopsInOrder' /\ StopsForGood' /\ TargetsKnown' /\ NothingLeft'
  BY <1>1, <1>6 DEF StopsInOrder, StopsForGood, Passed, TargetsKnown, Target, NothingLeft
<1>8. Types'
  BY <1>1, <1>2, <1>3, <1>4, <1>5, <1>6 DEF Types, Starter, Caller, Worker
<1>9. StartersApart'
  BY <1>1, <1>2, <1>3, <1>4, <1>6, OneStarter DEF StartersApart, Starter, Caller, Worker
<1>10. StopsBelong'
  BY <1>1, <1>2, <1>3, <1>4, <1>6 DEF StopsBelong, Starter, Caller, Aimed, Killing, NoStop
<1>11. StartsInOrder'
  BY <1>1, <1>2, <1>3, <1>4, <1>6 DEF StartsInOrder, Starter
<1>12. LiveIsKnown'
  BY <1>1, <1>2, <1>3, <1>4, <1>6 DEF LiveIsKnown, Live, Starter
<1>13. NotStartedYet'
  BY <1>1, <1>2, <1>3, <1>4, <1>5, <1>6, OneStarter DEF NotStartedYet, Fresh, Live, Starter
<1>14. KnownNotStopped'
  BY <1>1, <1>2, <1>3, <1>4, <1>5, <1>6 DEF KnownNotStopped, Starter
<1>15. DependenciesFirst'
  BY <1>1, <1>2, <1>3, <1>4, <1>5, <1>6 DEF DependenciesFirst, Starter
<1>16. RunningHasProcess'
  BY <1>1, <1>2, <1>3, <1>4, <1>5, <1>6, OneStarter DEF RunningHasProcess, Alive, Starter
<1> QED BY <1>7, <1>8, <1>9, <1>10, <1>11, <1>12, <1>13, <1>14, <1>15, <1>16 DEF LifeInvariant

LEMMA KeepsSetFailed ==
    ASSUME LifeInvariant, NEW t \in Starter, SetFailed(t)
    PROVE  LifeInvariant'
<1>1. /\ Types /\ StartersApart /\ StopsBelong /\ StartsInOrder /\ StopsInOrder /\ StopsForGood
      /\ LiveIsKnown /\ NotStartedYet /\ KnownNotStopped /\ DependenciesFirst
      /\ TargetsKnown /\ RunningHasProcess /\ NothingLeft
  BY DEF LifeInvariant
<1>2. /\ StartGoes(t, "false") /\ starting[t].at = "giveup" /\ Awake(t) /\ stopping[t].at = "idle"
      /\ state' = [state EXCEPT ![starting[t].comp] = "FAILED"]
  BY DEF SetFailed, At
<1>3. /\ starting'[t].at = "false"
      /\ starting' \in [Starter -> StartFrame]
      /\ starting'[t].comp = starting[t].comp
      /\ \A u \in Starter \ {t} : starting'[u] = starting[u]
  BY <1>1, <1>2, StartMove DEF Types, StartPlaces
<1>4. /\ starting[t].comp \notin ToSet(toStart) /\ known \subseteq Component /\ ToSet(toStart) \subseteq Component
      /\ \A u \in Starter : starting[u].comp \in Component
  BY <1>1, <1>2, StartedOnce, InTable
<1>5. /\ state' \in [Component -> {"STOPPED", "STARTING", "RUNNING", "STOPPING", "FAILED"}]
      /\ \A c \in Component \ {starting[t].comp} : state'[c] = state[c]
      /\ state'[starting[t].comp] = "FAILED"
  BY <1>1, <1>2, <1>4 DEF Types
<1>6. UNCHANGED <<known, proc, thread, main, toStart, stopping, todo, signals, strayKill>>
  BY DEF SetFailed, procVars, serverVars, countVars
<1>7. StopsInOrder' /\ StopsForGood' /\ TargetsKnown' /\ NothingLeft'
  BY <1>1, <1>6 DEF StopsInOrder, StopsForGood, Passed, TargetsKnown, Target, NothingLeft
<1>8. Types'
  BY <1>1, <1>2, <1>3, <1>4, <1>5, <1>6 DEF Types, Starter, Caller, Worker
<1>9. StartersApart'
  BY <1>1, <1>2, <1>3, <1>4, <1>6, OneStarter DEF StartersApart, Starter, Caller, Worker
<1>10. StopsBelong'
  BY <1>1, <1>2, <1>3, <1>4, <1>6 DEF StopsBelong, Starter, Caller, Aimed, Killing, NoStop
<1>11. StartsInOrder'
  BY <1>1, <1>2, <1>3, <1>4, <1>6 DEF StartsInOrder, Starter
<1>12. LiveIsKnown'
  BY <1>1, <1>2, <1>3, <1>4, <1>6 DEF LiveIsKnown, Live, Starter
<1>13. NotStartedYet'
  BY <1>1, <1>2, <1>3, <1>4, <1>5, <1>6, OneStarter DEF NotStartedYet, Fresh, Live, Starter
<1>14. KnownNotStopped'
  BY <1>1, <1>2, <1>3, <1>4, <1>5, <1>6 DEF KnownNotStopped, Starter
<1>15. DependenciesFirst'
  BY <1>1, <1>2, <1>3, <1>4, <1>5, <1>6 DEF DependenciesFirst, Starter
<1>16. RunningHasProcess'
  BY <1>1, <1>2, <1>3, <1>4, <1>5, <1>6, OneStarter DEF RunningHasProcess, Alive, Starter
<1> QED BY <1>7, <1>8, <1>9, <1>10, <1>11, <1>12, <1>13, <1>14, <1>15, <1>16 DEF LifeInvariant

LEMMA KeepsClearRunning ==
    ASSUME LifeInvariant, NEW t \in Caller, ClearRunning(t)
    PROVE  LifeInvariant'
<1>1. /\ Types /\ StartersApart /\ StopsBelong /\ StartsInOrder /\ StopsInOrder /\ StopsForGood
      /\ LiveIsKnown /\ NotStartedYet /\ KnownNotStopped /\ DependenciesFirst
      /\ TargetsKnown /\ RunningHasProcess /\ NothingLeft
  BY DEF LifeInvariant
<1>2. StopGoes(t, "server") /\ stopping[t].at = "flag" /\ Awake(t)
  BY DEF ClearRunning, StopAt
<1>3. /\ stopping'[t].at = "server"
      /\ stopping'[t].comps = stopping[t].comps
      /\ stopping' \in [Caller -> StopFrame]
      /\ stopping'[t].force = stopping[t].force /\ stopping'[t].whole = stopping[t].whole
      /\ \A u \in Caller \ {t} : stopping'[u] = stopping[u]
  BY <1>1, <1>2, StopMove DEF Types, StopPlaces, Killing
<1>4. UNCHANGED <<state, known, proc, thread, main, toStart, starting, todo, signals, strayKill>>
  BY DEF ClearRunning, procVars, serverVars, countVars
<1>5. StartsInOrder' /\ LiveIsKnown' /\ NotStartedYet' /\ KnownNotStopped'
  BY <1>1, <1>4 DEF StartsInOrder, LiveIsKnown, Live, NotStartedYet, Fresh, Live,
       KnownNotStopped
<1>6. DependenciesFirst' /\ RunningHasProcess'
  BY <1>1, <1>4 DEF DependenciesFirst, RunningHasProcess, Alive
<1>7. Types'
  BY <1>1, <1>2, <1>3, <1>4 DEF Types, Starter, Caller, Worker
<1>8. StartersApart'
  BY <1>1, <1>2, <1>3, <1>4 DEF StartersApart, Starter, Caller, Worker
<1>9. StopsBelong'
  BY <1>1, <1>2, <1>3, <1>4 DEF StopsBelong, Starter, Caller, Aimed, Killing, NoStop
<1>10. StopsInOrder'
  BY <1>1, <1>2, <1>3, StillInOrder DEF Killing
<1>11. StopsForGood'
  BY <1>1, <1>2, <1>3, <1>4, StillForGood DEF Killing
<1>12. TargetsKnown'
  BY <1>1, <1>2, <1>3, <1>4 DEF TargetsKnown, Target, Caller, Aimed, Killing
<1>13. NothingLeft'
  BY <1>1, <1>2, <1>3, <1>4, StillNothingLeft
<1> QED BY <1>5, <1>6, <1>7, <1>8, <1>9, <1>10, <1>11, <1>12, <1>13 DEF LifeInvariant

LEMMA KeepsStopServer ==
    ASSUME LifeInvariant, NEW t \in Caller, StopServer(t)
    PROVE  LifeInvariant'
<1>1. /\ Types /\ StartersApart /\ StopsBelong /\ StartsInOrder /\ StopsInOrder /\ StopsForGood
      /\ LiveIsKnown /\ NotStartedYet /\ KnownNotStopped /\ DependenciesFirst
      /\ TargetsKnown /\ RunningHasProcess /\ NothingLeft
  BY DEF LifeInvariant
<1>2. PICK where \in {"server join", "collector"} : StopGoes(t, where) /\ stopping[t].at = "server" /\ Awake(t)
  BY DEF StopServer, StopAt
<1>3. /\ stopping'[t].at = where
      /\ stopping'[t].comps = stopping[t].comps
      /\ stopping' \in [Caller -> StopFrame]
      /\ stopping'[t].force = stopping[t].force /\ stopping'[t].whole = stopping[t].whole
      /\ \A u \in Caller \ {t} : stopping'[u] = stopping[u]
  BY <1>1, <1>2, StopMove DEF Types, StopPlaces, Killing
<1>4. UNCHANGED <<state, known, proc, thread, main, toStart, starting, todo, signals, strayKill>>
  BY DEF StopServer, procVars, serverVars, countVars
<1>5. StartsInOrder' /\ LiveIsKnown' /\ NotStartedYet' /\ KnownNotStopped'
  BY <1>1, <1>4 DEF StartsInOrder, LiveIsKnown, Live, NotStartedYet, Fresh, Live,
       KnownNotStopped
<1>6. DependenciesFirst' /\ RunningHasProcess'
  BY <1>1, <1>4 DEF DependenciesFirst, RunningHasProcess, Alive
<1>7. Types'
  BY <1>1, <1>2, <1>3, <1>4 DEF Types, Starter, Caller, Worker
<1>8. StartersApart'
  BY <1>1, <1>2, <1>3, <1>4 DEF StartersApart, Starter, Caller, Worker
<1>9. StopsBelong'
  BY <1>1, <1>2, <1>3, <1>4 DEF StopsBelong, Starter, Caller, Aimed, Killing, NoStop
<1>10. StopsInOrder'
  BY <1>1, <1>2, <1>3, StillInOrder DEF Killing
<1>11. StopsForGood'
  BY <1>1, <1>2, <1>3, <1>4, StillForGood DEF Killing
<1>12. TargetsKnown'
  BY <1>1, <1>2, <1>3, <1>4 DEF TargetsKnown, Target, Caller, Aimed, Killing
<1>13. NothingLeft'
  BY <1>1, <1>2, <1>3, <1>4, StillNothingLeft
<1> QED BY <1>5, <1>6, <1>7, <1>8, <1>9, <1>10, <1>11, <1>12, <1>13 DEF LifeInvariant

LEMMA KeepsStopCollector ==
    ASSUME LifeInvariant, NEW t \in Caller, StopCollector(t)
    PROVE  LifeInvariant'
<1>1. /\ Types /\ StartersApart /\ StopsBelong /\ StartsInOrder /\ StopsInOrder /\ StopsForGood
      /\ LiveIsKnown /\ NotStartedYet /\ KnownNotStopped /\ DependenciesFirst
      /\ TargetsKnown /\ RunningHasProcess /\ NothingLeft
  BY DEF LifeInvariant
<1>2. PICK where \in {"collector join", "monitor join"} : StopGoes(t, where) /\ stopping[t].at = "collector" /\ Awake(t)
  BY DEF StopCollector, StopAt
<1>3. /\ stopping'[t].at = where
      /\ stopping'[t].comps = stopping[t].comps
      /\ stopping' \in [Caller -> StopFrame]
      /\ stopping'[t].force = stopping[t].force /\ stopping'[t].whole = stopping[t].whole
      /\ \A u \in Caller \ {t} : stopping'[u] = stopping[u]
  BY <1>1, <1>2, StopMove DEF Types, StopPlaces, Killing
<1>4. UNCHANGED <<state, known, proc, thread, main, toStart, starting, todo, signals, strayKill>>
  BY DEF StopCollector, procVars, serverVars, countVars
<1>5. StartsInOrder' /\ LiveIsKnown' /\ NotStartedYet' /\ KnownNotStopped'
  BY <1>1, <1>4 DEF StartsInOrder, LiveIsKnown, Live, NotStartedYet, Fresh, Live,
       KnownNotStopped
<1>6. DependenciesFirst' /\ RunningHasProcess'
  BY <1>1, <1>4 DEF DependenciesFirst, RunningHasProcess, Alive
<1>7. Types'
  BY <1>1, <1>2, <1>3, <1>4 DEF Types, Starter, Caller, Worker
<1>8. StartersApart'
  BY <1>1, <1>2, <1>3, <1>4 DEF StartersApart, Starter, Caller, Worker
<1>9. StopsBelong'
  BY <1>1, <1>2, <1>3, <1>4 DEF StopsBelong, Starter, Caller, Aimed, Killing, NoStop
<1>10. StopsInOrder'
  BY <1>1, <1>2, <1>3, StillInOrder DEF Killing
<1>11. StopsForGood'
  BY <1>1, <1>2, <1>3, <1>4, StillForGood DEF Killing
<1>12. TargetsKnown'
  BY <1>1, <1>2, <1>3, <1>4 DEF TargetsKnown, Target, Caller, Aimed, Killing
<1>13. NothingLeft'
  BY <1>1, <1>2, <1>3, <1>4, StillNothingLeft
<1> QED BY <1>5, <1>6, <1>7, <1>8, <1>9, <1>10, <1>11, <1>12, <1>13 DEF LifeInvariant

LEMMA KeepsJoinServer ==
    ASSUME LifeInvariant, NEW t \in Caller, JoinServer(t)
    PROVE  LifeInvariant'
<1>1. /\ Types /\ StartersApart /\ StopsBelong /\ StartsInOrder /\ StopsInOrder /\ StopsForGood
      /\ LiveIsKnown /\ NotStartedYet /\ KnownNotStopped /\ DependenciesFirst
      /\ TargetsKnown /\ RunningHasProcess /\ NothingLeft
  BY DEF LifeInvariant
<1>2. StopGoes(t, "collector") /\ stopping[t].at = "server join" /\ Awake(t)
  BY DEF JoinServer, JoinWorker, StopAt
<1>3. /\ stopping'[t].at = "collector"
      /\ stopping'[t].comps = stopping[t].comps
      /\ stopping' \in [Caller -> StopFrame]
      /\ stopping'[t].force = stopping[t].force /\ stopping'[t].whole = stopping[t].whole
      /\ \A u \in Caller \ {t} : stopping'[u] = stopping[u]
  BY <1>1, <1>2, StopMove DEF Types, StopPlaces, Killing
<1>4. /\ thread' \in [Worker -> {"none", "run", "ended", "joined"}]
      /\ \A w \in Worker \ {"server"} : thread'[w] = thread[w]
      /\ thread["server"] # "run" /\ thread'["server"] # "run"
      /\ thread'["server"] = "none" <=> thread["server"] = "none"
      /\ thread'["monitor"] = "run" => thread["monitor"] = "run"
  BY <1>1 DEF Types, JoinServer, JoinWorker, Worker
<1>5. UNCHANGED <<state, known, proc, main, toStart, starting, todo, signals, strayKill>>
  BY DEF JoinServer, JoinWorker, procVars, serverVars, countVars
<1>6. StartsInOrder' /\ LiveIsKnown' /\ NotStartedYet' /\ KnownNotStopped'
  BY <1>1, <1>5 DEF StartsInOrder, LiveIsKnown, Live, NotStartedYet, Fresh, Live,
       KnownNotStopped
<1>7. DependenciesFirst' /\ RunningHasProcess'
  BY <1>1, <1>5 DEF DependenciesFirst, RunningHasProcess, Alive
<1>8. Types'
  BY <1>1, <1>2, <1>3, <1>4, <1>5 DEF Types, Starter, Caller, Worker
<1>9. StartersApart'
  BY <1>1, <1>2, <1>3, <1>4, <1>5 DEF StartersApart, Starter, Caller, Worker
<1>10. StopsBelong'
  BY <1>1, <1>2, <1>3, <1>5 DEF StopsBelong, Starter, Caller, Aimed, Killing, NoStop
<1>11. StopsInOrder'
  BY <1>1, <1>2, <1>3, StillInOrder DEF Killing
<1>12. StopsForGood'
  BY <1>1, <1>2, <1>3, <1>5, <1>4, StillForGood DEF Killing
<1>13. TargetsKnown'
  BY <1>1, <1>2, <1>3, <1>5 DEF TargetsKnown, Target, Caller, Aimed, Killing
<1>14. NothingLeft'
  BY <1>1, <1>2, <1>3, <1>5, <1>4, StillNothingLeft
<1> QED BY <1>6, <1>7, <1>8, <1>9, <1>10, <1>11, <1>12, <1>13, <1>14 DEF LifeInvariant

LEMMA KeepsJoinCollector ==
    ASSUME LifeInvariant, NEW t \in Caller, JoinCollector(t)
    PROVE  LifeInvariant'
<1>1. /\ Types /\ StartersApart /\ StopsBelong /\ StartsInOrder /\ StopsInOrder /\ StopsForGood
      /\ LiveIsKnown /\ NotStartedYet /\ KnownNotStopped /\ DependenciesFirst
      /\ TargetsKnown /\ RunningHasProcess /\ NothingLeft
  BY DEF LifeInvariant
<1>2. StopGoes(t, "monitor join") /\ stopping[t].at = "collector join" /\ Awake(t)
  BY DEF JoinCollector, JoinWorker, StopAt
<1>3. /\ stopping'[t].at = "monitor join"
      /\ stopping'[t].comps = stopping[t].comps
      /\ stopping' \in [Caller -> StopFrame]
      /\ stopping'[t].force = stopping[t].force /\ stopping'[t].whole = stopping[t].whole
      /\ \A u \in Caller \ {t} : stopping'[u] = stopping[u]
  BY <1>1, <1>2, StopMove DEF Types, StopPlaces, Killing
<1>4. /\ thread' \in [Worker -> {"none", "run", "ended", "joined"}]
      /\ \A w \in Worker \ {"collector"} : thread'[w] = thread[w]
      /\ thread["collector"] # "run" /\ thread'["collector"] # "run"
      /\ thread'["collector"] = "none" <=> thread["collector"] = "none"
      /\ thread'["monitor"] = "run" => thread["monitor"] = "run"
  BY <1>1 DEF Types, JoinCollector, JoinWorker, Worker
<1>5. UNCHANGED <<state, known, proc, main, toStart, starting, todo, signals, strayKill>>
  BY DEF JoinCollector, JoinWorker, procVars, serverVars, countVars
<1>6. StartsInOrder' /\ LiveIsKnown' /\ NotStartedYet' /\ KnownNotStopped'
  BY <1>1, <1>5 DEF StartsInOrder, LiveIsKnown, Live, NotStartedYet, Fresh, Live,
       KnownNotStopped
<1>7. DependenciesFirst' /\ RunningHasProcess'
  BY <1>1, <1>5 DEF DependenciesFirst, RunningHasProcess, Alive
<1>8. Types'
  BY <1>1, <1>2, <1>3, <1>4, <1>5 DEF Types, Starter, Caller, Worker
<1>9. StartersApart'
  BY <1>1, <1>2, <1>3, <1>4, <1>5 DEF StartersApart, Starter, Caller, Worker
<1>10. StopsBelong'
  BY <1>1, <1>2, <1>3, <1>5 DEF StopsBelong, Starter, Caller, Aimed, Killing, NoStop
<1>11. StopsInOrder'
  BY <1>1, <1>2, <1>3, StillInOrder DEF Killing
<1>12. StopsForGood'
  BY <1>1, <1>2, <1>3, <1>5, <1>4, StillForGood DEF Killing
<1>13. TargetsKnown'
  BY <1>1, <1>2, <1>3, <1>5 DEF TargetsKnown, Target, Caller, Aimed, Killing
<1>14. NothingLeft'
  BY <1>1, <1>2, <1>3, <1>5, <1>4, StillNothingLeft
<1> QED BY <1>6, <1>7, <1>8, <1>9, <1>10, <1>11, <1>12, <1>13, <1>14 DEF LifeInvariant

(* The join of the monitor is what a stop() waits for before it signals. *)
LEMMA KeepsJoinMonitor ==
    ASSUME LifeInvariant, NEW t \in Caller, JoinMonitor(t)
    PROVE  LifeInvariant'
<1>1. /\ Types /\ StartersApart /\ StopsBelong /\ StartsInOrder /\ StopsInOrder /\ StopsForGood
      /\ LiveIsKnown /\ NotStartedYet /\ KnownNotStopped /\ DependenciesFirst
      /\ TargetsKnown /\ RunningHasProcess /\ NothingLeft
  BY DEF LifeInvariant
<1>2. StopGoes(t, "next") /\ stopping[t].at = "monitor join" /\ Awake(t)
  BY DEF JoinMonitor, JoinWorker, StopAt
<1>3. /\ stopping'[t].at = "next"
      /\ stopping'[t].comps = stopping[t].comps
      /\ stopping' \in [Caller -> StopFrame]
      /\ stopping'[t].force = stopping[t].force /\ stopping'[t].whole = stopping[t].whole
      /\ \A u \in Caller \ {t} : stopping'[u] = stopping[u]
  BY <1>1, <1>2, StopMove DEF Types, StopPlaces, Killing
<1>4. /\ thread' \in [Worker -> {"none", "run", "ended", "joined"}]
      /\ \A w \in Worker \ {"monitor"} : thread'[w] = thread[w]
      /\ thread["monitor"] # "run" /\ thread'["monitor"] # "run"
      /\ thread'["monitor"] = "none" <=> thread["monitor"] = "none"
      /\ thread'["monitor"] = "run" => thread["monitor"] = "run"
  BY <1>1 DEF Types, JoinMonitor, JoinWorker, Worker
<1>5. UNCHANGED <<state, known, proc, main, toStart, starting, todo, signals, strayKill>>
  BY DEF JoinMonitor, JoinWorker, procVars, serverVars, countVars
<1>6. StartsInOrder' /\ LiveIsKnown' /\ NotStartedYet' /\ KnownNotStopped'
  BY <1>1, <1>5 DEF StartsInOrder, LiveIsKnown, Live, NotStartedYet, Fresh, Live,
       KnownNotStopped
<1>7. DependenciesFirst' /\ RunningHasProcess'
  BY <1>1, <1>5 DEF DependenciesFirst, RunningHasProcess, Alive
<1>8. Types'
  BY <1>1, <1>2, <1>3, <1>4, <1>5 DEF Types, Starter, Caller, Worker
<1>9. StartersApart'
  BY <1>1, <1>2, <1>3, <1>4, <1>5 DEF StartersApart, Starter, Caller, Worker
<1>10. StopsBelong'
  BY <1>1, <1>2, <1>3, <1>5 DEF StopsBelong, Starter, Caller, Aimed, Killing, NoStop
<1>11. StopsInOrder'
  BY <1>1, <1>2, <1>3, StillInOrder DEF Killing
<1>12. StopsForGood'
  <2>1. SUFFICES ASSUME NEW u \in Caller, stopping'[u].whole, stopping'[u].at \in Killing
        PROVE  thread'["monitor"] # "run" /\ Passed(u)' \cap known' = {}
    BY DEF StopsForGood
  <2>2. CASE u = t
    <3>1. Len(stopping'[t].comps) = Total
      BY <2>1, <2>2, <1>1, <1>2, <1>3 DEF StopsInOrder, Killing
    <3>2. Passed(u)' = {}
      BY <3>1, <2>2, OrderFacts DEF Passed
    <3> QED BY <3>2, <1>4
  <2>3. CASE u # t
    <3>1. stopping'[u] = stopping[u]
      BY <2>3, <1>3
    <3> QED BY <3>1, <2>1, <1>1, <1>4, <1>5 DEF StopsForGood, Passed
  <2> QED BY <2>2, <2>3
<1>13. TargetsKnown'
  BY <1>1, <1>2, <1>3, <1>5 DEF TargetsKnown, Target, Caller, Aimed, Killing
<1>14. NothingLeft'
  BY <1>1, <1>2, <1>3, <1>5, <1>4, StillNothingLeft
<1> QED BY <1>6, <1>7, <1>8, <1>9, <1>10, <1>11, <1>12, <1>13, <1>14 DEF LifeInvariant

LEMMA KeepsSendTerm ==
    ASSUME LifeInvariant, NEW t \in Caller, SendTerm(t)
    PROVE  LifeInvariant'
<1>1. /\ Types /\ StartersApart /\ StopsBelong /\ StartsInOrder /\ StopsInOrder /\ StopsForGood
      /\ LiveIsKnown /\ NotStartedYet /\ KnownNotStopped /\ DependenciesFirst
      /\ TargetsKnown /\ RunningHasProcess /\ NothingLeft
  BY DEF LifeInvariant
<1>2. StopGoes(t, "poll") /\ stopping[t].at = "sigterm" /\ Awake(t)
  BY DEF SendTerm, StopAt
<1>3. /\ stopping'[t].at = "poll"
      /\ stopping'[t].comps = stopping[t].comps
      /\ stopping' \in [Caller -> StopFrame]
      /\ stopping'[t].force = stopping[t].force /\ stopping'[t].whole = stopping[t].whole
      /\ \A u \in Caller \ {t} : stopping'[u] = stopping[u]
  BY <1>1, <1>2, StopMove DEF Types, StopPlaces, Killing
<1>4. strayKill' \in BOOLEAN
  BY DEF SendTerm
<1>5. UNCHANGED <<state, known, proc, thread, main, toStart, starting, todo, signals>>
  BY DEF SendTerm, procVars, serverVars, countVars
<1>6. StartsInOrder' /\ LiveIsKnown' /\ NotStartedYet' /\ KnownNotStopped'
  BY <1>1, <1>5 DEF StartsInOrder, LiveIsKnown, Live, NotStartedYet, Fresh, Live,
       KnownNotStopped
<1>7. DependenciesFirst' /\ RunningHasProcess'
  BY <1>1, <1>5 DEF DependenciesFirst, RunningHasProcess, Alive
<1>8. Types'
  BY <1>1, <1>2, <1>3, <1>4, <1>5 DEF Types, Starter, Caller, Worker
<1>9. StartersApart'
  BY <1>1, <1>2, <1>3, <1>5 DEF StartersApart, Starter, Caller, Worker
<1>10. StopsBelong'
  BY <1>1, <1>2, <1>3, <1>5 DEF StopsBelong, Starter, Caller, Aimed, Killing, NoStop
<1>11. StopsInOrder'
  BY <1>1, <1>2, <1>3, StillInOrder DEF Killing
<1>12. StopsForGood'
  BY <1>1, <1>2, <1>3, <1>5, StillForGood DEF Killing
<1>13. TargetsKnown'
  BY <1>1, <1>2, <1>3, <1>5 DEF TargetsKnown, Target, Caller, Aimed, Killing
<1>14. NothingLeft'
  BY <1>1, <1>2, <1>3, <1>5, StillNothingLeft
<1> QED BY <1>6, <1>7, <1>8, <1>9, <1>10, <1>11, <1>12, <1>13, <1>14 DEF LifeInvariant

LEMMA KeepsPoll ==
    ASSUME LifeInvariant, NEW t \in Caller, Poll(t)
    PROVE  LifeInvariant'
<1>1. /\ Types /\ StartersApart /\ StopsBelong /\ StartsInOrder /\ StopsInOrder /\ StopsForGood
      /\ LiveIsKnown /\ NotStartedYet /\ KnownNotStopped /\ DependenciesFirst
      /\ TargetsKnown /\ RunningHasProcess /\ NothingLeft
  BY DEF LifeInvariant
<1>2. PICK where \in {"sigkill", "reap"} : StopGoes(t, where) /\ stopping[t].at = "poll" /\ Awake(t)
  BY DEF Poll, StopAt
<1>3. /\ stopping'[t].at = where
      /\ stopping'[t].comps = stopping[t].comps
      /\ stopping' \in [Caller -> StopFrame]
      /\ stopping'[t].force = stopping[t].force /\ stopping'[t].whole = stopping[t].whole
      /\ \A u \in Caller \ {t} : stopping'[u] = stopping[u]
  BY <1>1, <1>2, StopMove DEF Types, StopPlaces, Killing
<1>4. UNCHANGED <<state, known, proc, thread, main, toStart, starting, todo, signals, strayKill>>
  BY DEF Poll, procVars, serverVars, countVars
<1>5. StartsInOrder' /\ LiveIsKnown' /\ NotStartedYet' /\ KnownNotStopped'
  BY <1>1, <1>4 DEF StartsInOrder, LiveIsKnown, Live, NotStartedYet, Fresh, Live,
       KnownNotStopped
<1>6. DependenciesFirst' /\ RunningHasProcess'
  BY <1>1, <1>4 DEF DependenciesFirst, RunningHasProcess, Alive
<1>7. Types'
  BY <1>1, <1>2, <1>3, <1>4 DEF Types, Starter, Caller, Worker
<1>8. StartersApart'
  BY <1>1, <1>2, <1>3, <1>4 DEF StartersApart, Starter, Caller, Worker
<1>9. StopsBelong'
  BY <1>1, <1>2, <1>3, <1>4 DEF StopsBelong, Starter, Caller, Aimed, Killing, NoStop
<1>10. StopsInOrder'
  BY <1>1, <1>2, <1>3, StillInOrder DEF Killing
<1>11. StopsForGood'
  BY <1>1, <1>2, <1>3, <1>4, StillForGood DEF Killing
<1>12. TargetsKnown'
  BY <1>1, <1>2, <1>3, <1>4 DEF TargetsKnown, Target, Caller, Aimed, Killing
<1>13. NothingLeft'
  BY <1>1, <1>2, <1>3, <1>4, StillNothingLeft
<1> QED BY <1>5, <1>6, <1>7, <1>8, <1>9, <1>10, <1>11, <1>12, <1>13 DEF LifeInvariant

LEMMA KeepsSendKill ==
    ASSUME LifeInvariant, NEW t \in Caller, SendKill(t)
    PROVE  LifeInvariant'
<1>1. /\ Types /\ StartersApart /\ StopsBelong /\ StartsInOrder /\ StopsInOrder /\ StopsForGood
      /\ LiveIsKnown /\ NotStartedYet /\ KnownNotStopped /\ DependenciesFirst
      /\ TargetsKnown /\ RunningHasProcess /\ NothingLeft
  BY DEF LifeInvariant
<1>2. /\ StopGoes(t, "reap") /\ stopping[t].at = "sigkill" /\ Awake(t)
      /\ proc' = [proc EXCEPT ![Target(t)] = IF Alive(Target(t)) THEN "dead" ELSE @]
  BY DEF SendKill, StopAt
<1>3. /\ stopping'[t].at = "reap"
      /\ stopping'[t].comps = stopping[t].comps
      /\ stopping' \in [Caller -> StopFrame]
      /\ stopping'[t].force = stopping[t].force /\ stopping'[t].whole = stopping[t].whole
      /\ \A u \in Caller \ {t} : stopping'[u] = stopping[u]
  BY <1>1, <1>2, StopMove DEF Types, StopPlaces, Killing
<1>4. /\ proc' \in [Component -> {"none", "booting", "ready", "dead"}]
      /\ \A c \in Component : proc'[c] = proc[c] \/ (proc'[c] = "dead" /\ proc[c] # "none")
  <2>1. proc \in [Component -> {"none", "booting", "ready", "dead"}]
    BY <1>1 DEF Types
  <2>2. CASE Alive(Target(t))
    <3>1. proc' = [proc EXCEPT ![Target(t)] = "dead"] /\ proc[Target(t)] # "none"
      BY <2>2, <1>2 DEF Alive
    <3>2. Target(t) \in Component
      BY <2>2, <1>1 DEF Alive, Types
    <3> QED BY <3>1, <3>2, <2>1
  <2>3. CASE ~Alive(Target(t))
    <3>1. proc' = [proc EXCEPT ![Target(t)] = proc[Target(t)]]
      BY <2>3, <1>2
    <3>2. proc' = proc
      BY <3>1, <2>1
    <3> QED BY <3>2, <2>1
  <2> QED BY <2>2, <2>3
<1>5. strayKill' \in BOOLEAN
  BY DEF SendKill
<1>6. UNCHANGED <<state, known, thread, main, toStart, starting, todo, signals>>
  BY DEF SendKill, procVars, serverVars, countVars
<1>7. StartsInOrder' /\ KnownNotStopped' /\ DependenciesFirst'
  BY <1>1, <1>6 DEF StartsInOrder, KnownNotStopped, DependenciesFirst
<1>8. Types'
  BY <1>1, <1>2, <1>3, <1>4, <1>5, <1>6 DEF Types, Starter, Caller, Worker
<1>9. StartersApart'
  BY <1>1, <1>2, <1>3, <1>6 DEF StartersApart, Starter, Caller, Worker
<1>10. StopsBelong'
  BY <1>1, <1>2, <1>3, <1>6 DEF StopsBelong, Starter, Caller, Aimed, Killing, NoStop
<1>11. StopsInOrder'
  BY <1>1, <1>2, <1>3, StillInOrder DEF Killing
<1>12. StopsForGood'
  BY <1>1, <1>2, <1>3, <1>6, StillForGood DEF Killing
<1>13. LiveIsKnown'
  BY <1>1, <1>2, <1>4, <1>6 DEF LiveIsKnown, Live, Starter
<1>14. NotStartedYet'
  BY <1>1, <1>2, <1>4, <1>6 DEF NotStartedYet, Fresh, Live, Starter
<1>15. TargetsKnown'
  BY <1>1, <1>2, <1>3, <1>6 DEF TargetsKnown, Target, Caller, Aimed, Killing
<1>16. RunningHasProcess'
  BY <1>1, <1>2, <1>4, <1>6 DEF RunningHasProcess, Alive, Starter
<1>17. NothingLeft'
  BY <1>1, <1>2, <1>3, <1>6, <1>4, StillNothingLeft
<1> QED BY <1>7, <1>8, <1>9, <1>10, <1>11, <1>12, <1>13, <1>14, <1>15, <1>16, <1>17 DEF LifeInvariant

(* A component that is passed has no pid. *)
LEMMA KeepsNextComponent ==
    ASSUME LifeInvariant, NEW t \in Caller, NextComponent(t)
    PROVE  LifeInvariant'
<1>1. /\ Types /\ StartersApart /\ StopsBelong /\ StartsInOrder /\ StopsInOrder /\ StopsForGood
      /\ LiveIsKnown /\ NotStartedYet /\ KnownNotStopped /\ DependenciesFirst
      /\ TargetsKnown /\ RunningHasProcess /\ NothingLeft
  BY DEF LifeInvariant
<1>2. stopping[t].at = "next" /\ stopping[t].comps # <<>> /\ Awake(t)
  BY DEF NextComponent, StopAt
<1>3. Target(t) \in Component /\ known \subseteq Component /\ ToSet(toStart) \subseteq Component
  BY <1>1, <1>2, InTable, TargetInTable
<1>4. CASE state[Target(t)] = "STOPPED" \/ Target(t) \notin known
  <2>1. /\ stopping' = [stopping EXCEPT ![t].comps = Tail(@)]
        /\ UNCHANGED <<state, known, proc, thread, main, toStart, starting, todo, signals, strayKill>>
    BY <1>4 DEF NextComponent, procVars, serverVars, countVars
  <2>2. /\ stopping'[t].at = "next"
        /\ stopping'[t].comps = Tail(stopping[t].comps)
        /\ stopping' \in [Caller -> StopFrame]
        /\ stopping'[t].force = stopping[t].force /\ stopping'[t].whole = stopping[t].whole
        /\ \A u \in Caller \ {t} : stopping'[u] = stopping[u]
    BY <1>1, <1>2, <2>1, StopPassOnly DEF Types
  <2>3. Types'
    BY <1>1, <2>1, <2>2 DEF Types
  <2>4. StartersApart' /\ TargetsKnown'
    BY <1>1, <1>2, <2>1, <2>2 DEF StartersApart, TargetsKnown, Target, Caller, Aimed, Killing
  <2>5. StopsBelong'
    BY <1>1, <1>2, <2>1, <2>2 DEF StopsBelong, Caller, Aimed, Killing
  <2>6. StopsInOrder'
    BY <1>1, <1>2, <2>2, PassInOrder DEF Killing
  <2>7. Target(t) \notin known
    BY <1>1, <1>4 DEF KnownNotStopped
  <2>8. StopsForGood'
    BY <1>1, <1>2, <2>1, <2>2, <2>7, PassForGood DEF Killing
  <2>9. NothingLeft'
    BY <1>1, <1>2, <2>1, <2>2, StillNothingLeft
  <2>10. /\ StartsInOrder' /\ LiveIsKnown' /\ NotStartedYet' /\ KnownNotStopped'
         /\ DependenciesFirst' /\ RunningHasProcess'
    BY <1>1, <2>1 DEF StartsInOrder, LiveIsKnown, Live, NotStartedYet, Fresh, KnownNotStopped,
         DependenciesFirst, RunningHasProcess, Alive
  <2> QED BY <2>3, <2>4, <2>5, <2>6, <2>8, <2>9, <2>10 DEF LifeInvariant
<1>5. CASE state[Target(t)] # "STOPPED" /\ Target(t) \in known
  <2>1. /\ state' = [state EXCEPT ![Target(t)] = "STOPPING"]
        /\ StopGoes(t, IF stopping[t].force THEN "sigkill" ELSE "sigterm")
        /\ UNCHANGED <<known, proc, thread, main, toStart, starting, todo, signals, strayKill>>
    BY <1>5 DEF NextComponent, procVars, serverVars, countVars
  <2>2. PICK where \in {"sigterm", "sigkill"} :
           StopGoes(t, where) /\ (stopping[t].force => where = "sigkill")
    BY <2>1
  <2>3. /\ stopping'[t].at = where
        /\ stopping'[t].comps = stopping[t].comps
        /\ stopping' \in [Caller -> StopFrame]
        /\ stopping'[t].force = stopping[t].force /\ stopping'[t].whole = stopping[t].whole
        /\ \A u \in Caller \ {t} : stopping'[u] = stopping[u]
    BY <1>1, <2>2, StopMove DEF Types, StopPlaces, Killing
  <2>4. /\ state' \in [Component -> {"STOPPED", "STARTING", "RUNNING", "STOPPING", "FAILED"}]
        /\ \A c \in Component \ {Target(t)} : state'[c] = state[c]
        /\ state'[Target(t)] = "STOPPING"
    BY <1>1, <1>3, <2>1 DEF Types
  <2>5. Types'
    BY <1>1, <2>1, <2>3, <2>4 DEF Types
  <2>6. StartersApart'
    BY <1>1, <1>2, <2>1, <2>2, <2>3 DEF StartersApart, Caller
  <2>7. StopsBelong'
    BY <1>1, <1>2, <2>1, <2>2, <2>3 DEF StopsBelong, Caller, Aimed, Killing
  <2>8. StopsInOrder'
    BY <1>1, <1>2, <2>2, <2>3, StillInOrder DEF Killing
  <2>9. StopsForGood'
    BY <1>1, <1>2, <2>1, <2>2, <2>3, StillForGood DEF Killing
  <2>10. NothingLeft'
    BY <1>1, <1>2, <2>1, <2>2, <2>3, StillNothingLeft
  <2>11. TargetsKnown'
    BY <1>1, <1>2, <1>5, <2>1, <2>2, <2>3 DEF TargetsKnown, Target, Caller, Aimed, Killing
  <2>12. NotStartedYet'
    BY <1>1, <1>3, <1>5, <2>1, <2>4 DEF NotStartedYet, Fresh, Live
  <2>13. KnownNotStopped' /\ DependenciesFirst'
    BY <1>1, <1>3, <1>5, <2>1, <2>4, InTable DEF KnownNotStopped, DependenciesFirst
  <2>14. RunningHasProcess'
    BY <1>1, <1>3, <2>1, <2>4, InTable DEF RunningHasProcess, Alive
  <2>15. StartsInOrder' /\ LiveIsKnown'
    BY <1>1, <2>1 DEF StartsInOrder, LiveIsKnown, Live
  <2> QED BY <2>5, <2>6, <2>7, <2>8, <2>9, <2>10, <2>11, <2>12, <2>13, <2>14, <2>15 DEF LifeInvariant
<1> QED BY <1>4, <1>5

(* waitpid ends the process and the entry of the table together, and only
   a main that the handler has interrupted can lose its target to it. *)
LEMMA KeepsWaitPid ==
    ASSUME LifeInvariant, NEW t \in Caller, WaitPid(t)
    PROVE  LifeInvariant'
<1>1. /\ Types /\ StartersApart /\ StopsBelong /\ StartsInOrder /\ StopsInOrder /\ StopsForGood
      /\ LiveIsKnown /\ NotStartedYet /\ KnownNotStopped /\ DependenciesFirst
      /\ TargetsKnown /\ RunningHasProcess /\ NothingLeft
  BY DEF LifeInvariant
<1>2. stopping[t].at = "reap" /\ stopping[t].comps # <<>> /\ Awake(t)
  BY <1>1 DEF WaitPid, StopAt, StopsBelong, Aimed, Killing
<1>3. /\ Target(t) \in Component /\ known \subseteq Component /\ ToSet(toStart) \subseteq Component
      /\ \A u \in Starter : starting[u].comp \in Component
  BY <1>1, <1>2, InTable, TargetInTable
<1>4. /\ known' = known \ {Target(t)}
      /\ UNCHANGED <<thread, main, toStart, starting, todo, signals, strayKill>>
  BY DEF WaitPid, serverVars, countVars
<1>5. /\ stopping'[t].at = "next"
      /\ stopping'[t].comps = Tail(stopping[t].comps)
      /\ stopping' \in [Caller -> StopFrame]
      /\ stopping'[t].force = stopping[t].force /\ stopping'[t].whole = stopping[t].whole
      /\ \A u \in Caller \ {t} : stopping'[u] = stopping[u]
  <2>1. stopping' = [stopping EXCEPT ![t].at = "next", ![t].comps = Tail(@)]
    BY DEF WaitPid
  <2> QED BY <1>1, <1>2, <2>1, StopPass DEF Types, StopPlaces, Killing
<1>6. /\ proc' \in [Component -> {"none", "booting", "ready", "dead"}]
      /\ \A d \in Component : proc'[d] = proc[d] \/ (proc[d] = "dead" /\ proc'[d] = "none")
      /\ Target(t) \in known => /\ proc'[Target(t)] = "none"
                                /\ \A d \in Component \ {Target(t)} : proc'[d] = proc[d]
  <2>1. proc \in [Component -> {"none", "booting", "ready", "dead"}]
    BY <1>1 DEF Types
  <2>2. CASE Target(t) \in known /\ proc[Target(t)] # "none"
    <3>1. proc[Target(t)] = "dead" /\ proc' = [proc EXCEPT ![Target(t)] = "none"]
      BY <2>2 DEF WaitPid
    <3> QED BY <3>1, <2>1, <1>3
  <2>3. CASE ~(Target(t) \in known /\ proc[Target(t)] # "none") /\ UNCHANGED proc
    BY <2>1, <2>3, <1>3
  <2>4. CASE Target(t) \notin known /\ \E d \in Component : proc[d] = "dead" /\ proc' = [proc EXCEPT ![d] = "none"]
    BY <2>1, <2>4, <1>3
  <2> QED BY <2>2, <2>3, <2>4 DEF WaitPid
<1>7. /\ state' \in [Component -> {"STOPPED", "STARTING", "RUNNING", "STOPPING", "FAILED"}]
      /\ \A c \in Component \ {Target(t)} : state'[c] = state[c]
      /\ state'[Target(t)] = "STOPPED"
  <2>1. state' = [state EXCEPT ![Target(t)] = "STOPPED"]
    BY DEF WaitPid
  <2> QED BY <2>1, <1>1, <1>3 DEF Types
<1>8. /\ t # "handler" => \A u \in Starter : starting[u].at \in {"idle", "giveup"}
      /\ t = "handler" => signals # 0 /\ starting["monitor"].at \in {"idle", "giveup"}
      /\ \A u \in Caller \ {t} : stopping[u].at \in Killing => u = "main" /\ t = "handler"
  BY <1>2, OneKiller DEF Killing, Starter
<1>9. Types'
  BY <1>1, <1>4, <1>5, <1>6, <1>7 DEF Types
<1>10. StartersApart'
  BY <1>1, <1>2, <1>4, <1>5 DEF StartersApart, Caller
<1>11. StopsBelong'
  BY <1>1, <1>2, <1>4, <1>5 DEF StopsBelong, Caller, Aimed, Killing
<1>12. StopsInOrder'
  BY <1>1, <1>2, <1>5, PassInOrder DEF Killing
<1>13. StopsForGood'
  BY <1>1, <1>2, <1>4, <1>5, PassForGood DEF Killing
<1>14. LiveIsKnown'
  BY <1>1, <1>3, <1>4, <1>6 DEF LiveIsKnown, Live
<1>15. NotStartedYet'
  BY <1>1, <1>3, <1>4, <1>6, <1>7 DEF NotStartedYet, Fresh, Live, Starter
<1>16. KnownNotStopped'
  <2>1. ASSUME NEW u \in Starter, starting[u].at \in {"fork", "note"}
        PROVE  starting[u].comp # Target(t)
    <3>1. u = "main" /\ t = "handler"
      BY <2>1, <1>8 DEF Starter
    <3>2. Target("handler") \in known
      BY <1>1, <1>2, <3>1 DEF TargetsKnown, Aimed, Killing
    <3>3. starting["main"].comp \notin known
      BY <1>1, <2>1, <3>1 DEF NotStartedYet, Fresh
    <3> QED BY <3>1, <3>2, <3>3
  <2> QED BY <2>1, <1>1, <1>3, <1>4, <1>7 DEF KnownNotStopped
<1>17. DependenciesFirst' /\ StartsInOrder'
  BY <1>1, <1>3, <1>4, <1>7 DEF DependenciesFirst, StartsInOrder
<1>18. TargetsKnown'
  BY <1>1, <1>4, <1>5, <1>8 DEF TargetsKnown, Target, Caller, Aimed, Killing
<1>19. RunningHasProcess'
  <2>1. SUFFICES ASSUME signals = 0 PROVE RunningHasProcess'
    BY <1>4 DEF RunningHasProcess
  <2>2. Target(t) \in known
    BY <2>1, <1>1, <1>2, <1>8 DEF TargetsKnown, Caller, Aimed, Killing
  <2>3. \A u \in Starter : starting[u].at \in {"idle", "giveup"}
    BY <2>1, <1>8
  <2> QED BY <2>1, <2>2, <2>3, <1>1, <1>3, <1>4, <1>6, <1>7 DEF RunningHasProcess, Alive
<1>20. NothingLeft'
  BY <1>1, <1>2, <1>4, <1>5, <1>6, StillNothingLeft
<1> QED BY <1>9, <1>10, <1>11, <1>12, <1>13, <1>14, <1>15, <1>16, <1>17, <1>18, <1>19, <1>20 DEF LifeInvariant

(* A stop() that is done has emptied the table: no child lives. *)
LEMMA KeepsStopDone ==
    ASSUME LifeInvariant, NEW t \in Caller, StopDone(t)
    PROVE  LifeInvariant'
<1>1. /\ Types /\ StartersApart /\ StopsBelong /\ StartsInOrder /\ StopsInOrder /\ StopsForGood
      /\ LiveIsKnown /\ NotStartedYet /\ KnownNotStopped /\ DependenciesFirst
      /\ TargetsKnown /\ RunningHasProcess /\ NothingLeft
  BY DEF LifeInvariant
<1>2. stopping[t].at = "next" /\ stopping[t].comps = <<>> /\ Awake(t)
  BY DEF StopDone, StopAt
<1>3. /\ UNCHANGED <<state, known, thread, main, toStart, starting, todo, signals, strayKill>>
      /\ stopping' = [stopping EXCEPT ![t] = NoStop]
      /\ proc' = [c \in Component |-> IF stopping[t].whole /\ proc[c] = "dead" THEN "none" ELSE proc[c]]
  BY DEF StopDone, serverVars, countVars
<1>4. /\ stopping' \in [Caller -> StopFrame] /\ stopping'[t] = NoStop
      /\ \A u \in Caller \ {t} : stopping'[u] = stopping[u]
  BY <1>1, <1>3, StopEnter, Frames DEF Types
<1>5. NoStop.at = "idle" /\ ~NoStop.whole
  BY Frames
<1>6. /\ proc' \in [Component -> {"none", "booting", "ready", "dead"}]
      /\ \A c \in Component : proc'[c] = proc[c] \/ (proc[c] = "dead" /\ proc'[c] = "none")
      /\ ~stopping[t].whole => \A c \in Component : proc'[c] = proc[c]
  BY <1>1, <1>3 DEF Types
<1>7. /\ t # "handler" => \A u \in Starter : starting[u].at \in {"idle", "giveup"}
      /\ t = "handler" => signals # 0
      /\ thread["monitor"] = "run" => t = "monitor"
  BY <1>2, OneKiller DEF Killing, Starter
<1>8. stopping[t].whole => known = {}
  <2>1. SUFFICES ASSUME stopping[t].whole, NEW c \in known PROVE FALSE
    OBVIOUS
  <2>2. c \in Component
    BY <1>1, InTable
  <2>3. PICK i \in 1..Total : StartOrder[i] = c
    BY <2>2, OrderFacts
  <2>4. c \in Passed(t)
    BY <2>3, <1>2, OrderFacts DEF Passed
  <2> QED BY <2>1, <2>4, <1>1, <1>2 DEF StopsForGood, Killing
<1>9. Types'
  BY <1>1, <1>3, <1>4, <1>6 DEF Types
<1>10. StartersApart'
  BY <1>1, <1>3, <1>4, <1>5 DEF StartersApart, Caller
<1>11. StopsBelong'
  BY <1>1, <1>3, <1>4, <1>5 DEF StopsBelong, Caller, Aimed, Killing
<1>12. StopsInOrder' /\ StopsForGood'
  BY <1>1, <1>3, <1>4, <1>5 DEF StopsInOrder, StopsForGood, Passed
<1>13. LiveIsKnown'
  BY <1>1, <1>3, <1>6 DEF LiveIsKnown, Live
<1>14. NotStartedYet'
  BY <1>1, <1>3, <1>6, InTable DEF NotStartedYet, Fresh, Live, Starter
<1>15. StartsInOrder' /\ KnownNotStopped' /\ DependenciesFirst'
  BY <1>1, <1>3 DEF StartsInOrder, KnownNotStopped, DependenciesFirst
<1>16. TargetsKnown'
  BY <1>1, <1>3, <1>4, <1>5 DEF TargetsKnown, Target, Caller, Aimed, Killing
<1>17. RunningHasProcess'
  <2>1. SUFFICES ASSUME signals = 0 PROVE RunningHasProcess'
    BY <1>3 DEF RunningHasProcess
  <2>2. \A u \in Starter : starting[u].at \in {"idle", "giveup"}
    BY <2>1, <1>7
  <2>3. \A c \in Component : state[c] = "RUNNING" => ~stopping[t].whole
    BY <2>1, <1>1, <1>8 DEF RunningHasProcess, Alive
  <2> QED BY <2>1, <2>2, <2>3, <1>1, <1>3, <1>6, InTable DEF RunningHasProcess, Alive
<1>18. NothingLeft'
  <2>1. CASE t = "main" /\ main = "destroying"
    <3>1. stopping[t].whole
      BY <2>1, <1>1, <1>2 DEF StopsBelong, StartersApart, Caller
    <3>2. \A c \in Component : ~Live(c)
      BY <3>1, <2>1, <1>1, <1>7, <1>8 DEF LiveIsKnown
    <3>3. \A c \in Component : proc'[c] = "none"
      BY <3>1, <3>2, <1>1, <1>3 DEF Live, Types
    <3> QED BY <3>3, <2>1, <1>3, <1>4, <1>5, <1>7 DEF NothingLeft
  <2>2. CASE t = "main" /\ main # "destroying"
    BY <2>2, <1>1, <1>2, <1>3 DEF NothingLeft
  <2>3. CASE t # "main"
    BY <2>3, <1>1, <1>3, <1>4, <1>6 DEF NothingLeft, Caller
  <2> QED BY <2>1, <2>2, <2>3
<1> QED BY <1>9, <1>10, <1>11, <1>12, <1>13, <1>14, <1>15, <1>16, <1>17, <1>18 DEF LifeInvariant

LEMMA KeepsStartNext ==
    ASSUME LifeInvariant, StartNext
    PROVE  LifeInvariant'
<1>1. /\ Types /\ StartersApart /\ StopsBelong /\ StartsInOrder /\ StopsInOrder /\ StopsForGood
      /\ LiveIsKnown /\ NotStartedYet /\ KnownNotStopped /\ DependenciesFirst
      /\ TargetsKnown /\ RunningHasProcess /\ NothingLeft
  BY DEF LifeInvariant
<1>2. /\ main = "start" /\ starting["main"].at = "idle" /\ toStart # <<>>
      /\ EnterStart("main", Head(toStart)) /\ toStart' = Tail(toStart)
  BY DEF StartNext, MainAt
<1>3. /\ toStart \in Seq(Component) /\ Head(toStart) \in Component /\ Head(toStart) = toStart[1]
      /\ Tail(toStart) \in Seq(Component) /\ Len(Tail(toStart)) = Len(toStart) - 1
      /\ \A i \in 1..Len(Tail(toStart)) : Tail(toStart)[i] = toStart[i + 1]
      /\ Len(toStart) \in Nat \ {0} /\ Head(toStart) \in ToSet(toStart)
      /\ known \subseteq Component /\ \A u \in Starter : starting[u].comp \in Component
  BY <1>1, <1>2, InTable DEF Types, ToSet
<1>4. ToSet(Tail(toStart)) \subseteq ToSet(toStart) /\ ToSet(toStart) \subseteq Component
  BY <1>1, <1>3, InTable DEF ToSet
<1>5. /\ starting' \in [Starter -> StartFrame] /\ starting'["main"].at = "check"
      /\ starting'["main"].comp = Head(toStart) /\ starting'["monitor"] = starting["monitor"]
  BY <1>1, <1>2, <1>3, EnterMove DEF Types, Starter
<1>6. UNCHANGED <<state, known, proc, thread, main, stopping, todo, signals, strayKill>>
  BY DEF StartNext, procVars, serverVars, countVars
<1>7. StopsInOrder' /\ StopsForGood' /\ TargetsKnown' /\ NothingLeft'
  BY <1>1, <1>6 DEF StopsInOrder, StopsForGood, Passed, TargetsKnown, Target, NothingLeft
<1>8. Types'
  BY <1>1, <1>2, <1>3, <1>4, <1>5, <1>6 DEF Types, Starter, Caller, Worker
<1>9. StartersApart'
  BY <1>1, <1>2, <1>3, <1>4, <1>5, <1>6 DEF StartersApart, Starter, Caller, Worker
<1>10. StopsBelong'
  BY <1>1, <1>2, <1>3, <1>4, <1>5, <1>6 DEF StopsBelong, Starter, Caller, Aimed, Killing, NoStop
<1>11. StartsInOrder'
  <2>1. Len(toStart) <= Total /\ \A i \in 1..Len(toStart) : toStart[i] = StartOrder[Total - Len(toStart) + i]
    BY <1>1 DEF StartsInOrder
  <2> DEFINE n == Len(toStart)
  <2>2. n \in Nat \ {0} /\ Len(toStart') = n - 1 /\ n <= Total
    BY <1>2, <1>3, <2>1
  <2>3. Len(toStart') < Total /\ 1 \in 1..n /\ Total - n + 1 = Total - Len(toStart')
    <3> HIDE DEF n
    <3> QED BY <2>2, OrderFacts
  <2>4. starting'["main"].comp = StartOrder[Total - Len(toStart')]
    BY <1>3, <1>5, <2>1, <2>3
  <2>5. ASSUME NEW i \in 1..Len(toStart') PROVE toStart'[i] = StartOrder[Total - Len(toStart') + i]
    <3>1. i + 1 \in 1..n /\ Total - n + (i + 1) = Total - Len(toStart') + i
      <4> HIDE DEF n
      <4> QED BY <2>2, OrderFacts
    <3> QED BY <3>1, <2>1, <1>2, <1>3
  <2> QED BY <2>3, <2>4, <2>5, OrderFacts DEF StartsInOrder
<1>12. LiveIsKnown'
  BY <1>1, <1>2, <1>3, <1>4, <1>5, <1>6 DEF LiveIsKnown, Live, Starter
<1>13. NotStartedYet'
  BY <1>1, <1>2, <1>3, <1>4, <1>5, <1>6 DEF NotStartedYet, Fresh, Live, Starter
<1>14. KnownNotStopped'
  BY <1>1, <1>2, <1>3, <1>4, <1>5, <1>6 DEF KnownNotStopped, Starter
<1>15. DependenciesFirst'
  BY <1>1, <1>2, <1>3, <1>4, <1>5, <1>6 DEF DependenciesFirst, Starter
<1>16. RunningHasProcess'
  BY <1>1, <1>2, <1>3, <1>4, <1>5, <1>6 DEF RunningHasProcess, Alive, Starter
<1> QED BY <1>7, <1>8, <1>9, <1>10, <1>11, <1>12, <1>13, <1>14, <1>15, <1>16 DEF LifeInvariant

LEMMA KeepsStartReturns ==
    ASSUME LifeInvariant, StartReturns
    PROVE  LifeInvariant'
<1>1. /\ Types /\ StartersApart /\ StopsBelong /\ StartsInOrder /\ StopsInOrder /\ StopsForGood
      /\ LiveIsKnown /\ NotStartedYet /\ KnownNotStopped /\ DependenciesFirst
      /\ TargetsKnown /\ RunningHasProcess /\ NothingLeft
  BY DEF LifeInvariant
<1>2. PICK failed \in BOOLEAN :
         /\ main = "start" /\ starting["main"].at \in {"true", "false"} /\ StartGoes("main", "idle")
         /\ failed => main' = "stopping" /\ stopping' = [stopping EXCEPT !["main"] = StopAll(TRUE)]
         /\ ~failed => UNCHANGED <<main, stopping>>
  BY DEF StartReturns, MainAt
<1>3. /\ starting' \in [Starter -> StartFrame] /\ starting'["main"].at = "idle"
      /\ starting'["monitor"] = starting["monitor"]
  BY <1>1, <1>2, StartMove DEF Types, Starter, StartPlaces
<1>4. /\ stopping' \in [Caller -> StopFrame] /\ \A u \in Caller \ {"main"} : stopping'[u] = stopping[u]
      /\ failed => stopping'["main"].at = "flag" /\ stopping'["main"].whole /\ StopsInOrder'
      /\ ~failed => stopping' = stopping
  BY <1>1, <1>2, StopAllStops, StopAllInOrder DEF Types
<1>5. UNCHANGED <<state, known, proc, thread, toStart, todo, signals, strayKill>>
  BY DEF StartReturns, procVars, serverVars, countVars
<1>6. Types'
  BY <1>1, <1>2, <1>3, <1>4, <1>5 DEF Types, Starter, Caller, Worker
<1>7. StartersApart'
  BY <1>1, <1>2, <1>3, <1>4, <1>5, OneStarter DEF StartersApart, Starter, Caller, Worker
<1>8. StopsBelong'
  <2>1. ASSUME NEW u \in Caller \ {"main"}
        PROVE  stopping'[u] = stopping[u] /\ (u = "monitor" => starting'[u] = starting[u])
    BY <1>3, <1>4
  <2>2. CASE failed
    BY <2>1, <2>2, <1>1, <1>2, <1>4 DEF StopsBelong, Caller, Aimed, Killing
  <2>3. CASE ~failed
    <3>1. stopping' = stopping /\ main' = main /\ stopping["main"].at = "idle"
      BY <2>3, <1>1, <1>2, <1>4 DEF StopsBelong, Caller
    <3> QED BY <2>1, <3>1, <1>1 DEF StopsBelong, Caller, Aimed, Killing
  <2> QED BY <2>2, <2>3
<1>9. StartsInOrder'
  BY <1>1, <1>2, <1>3, <1>5 DEF StartsInOrder, Starter
<1>10. StopsInOrder'
  BY <1>1, <1>4 DEF StopsInOrder
<1>11. StopsForGood'
  BY <1>1, <1>2, <1>4, <1>5 DEF StopsForGood, Passed, Caller, Killing
<1>12. LiveIsKnown'
  BY <1>1, <1>2, <1>3, <1>5 DEF LiveIsKnown, Live, Starter
<1>13. NotStartedYet'
  BY <1>1, <1>2, <1>3, <1>5 DEF NotStartedYet, Fresh, Live, Starter
<1>14. KnownNotStopped'
  BY <1>1, <1>2, <1>3, <1>5 DEF KnownNotStopped, Starter
<1>15. DependenciesFirst'
  BY <1>1, <1>2, <1>3, <1>5 DEF DependenciesFirst, Starter
<1>16. TargetsKnown'
  BY <1>1, <1>2, <1>4, <1>5 DEF TargetsKnown, Target, Caller, Aimed, Killing
<1>17. RunningHasProcess'
  BY <1>1, <1>2, <1>3, <1>5 DEF RunningHasProcess, Alive, Starter
<1>18. NothingLeft'
  BY <1>1, <1>2, <1>4, <1>5 DEF NothingLeft, Caller
<1> QED BY <1>6, <1>7, <1>8, <1>9, <1>10, <1>11, <1>12, <1>13, <1>14, <1>15, <1>16, <1>17, <1>18 DEF LifeInvariant

LEMMA KeepsStartCollector ==
    ASSUME LifeInvariant, StartCollector
    PROVE  LifeInvariant'
<1>1. /\ Types /\ StartersApart /\ StopsBelong /\ StartsInOrder /\ StopsInOrder /\ StopsForGood
      /\ LiveIsKnown /\ NotStartedYet /\ KnownNotStopped /\ DependenciesFirst
      /\ TargetsKnown /\ RunningHasProcess /\ NothingLeft
  BY DEF LifeInvariant
<1>2. /\ main = "start" /\ starting["main"].at = "idle" /\ toStart = <<>> /\ main' = "server"
      /\ thread' = [thread EXCEPT !["collector"] = "run"]
  BY DEF StartCollector, MainAt
<1>3. thread' \in [Worker -> {"none", "run", "ended", "joined"}] /\ thread'["monitor"] = thread["monitor"]
  BY <1>1, <1>2 DEF Types, Worker
<1>4. UNCHANGED <<state, known, proc, toStart, starting, stopping, todo, signals, strayKill>>
  BY DEF StartCollector, procVars, serverVars, countVars
<1>5. StartsInOrder' /\ StopsInOrder' /\ LiveIsKnown' /\ NotStartedYet'
  BY <1>1, <1>4 DEF StartsInOrder, StopsInOrder, LiveIsKnown, Live, NotStartedYet, Fresh, Live
<1>6. KnownNotStopped' /\ DependenciesFirst' /\ TargetsKnown' /\ RunningHasProcess'
  BY <1>1, <1>4 DEF KnownNotStopped, DependenciesFirst, TargetsKnown, Target,
       RunningHasProcess, Alive
<1>7. Types'
  BY <1>1, <1>2, <1>3, <1>4 DEF Types, Starter, Caller, Worker
<1>8. StartersApart'
  BY <1>1, <1>2, <1>3, <1>4, OneStarter DEF StartersApart, Starter, Caller, Worker
<1>9. StopsBelong'
  BY <1>1, <1>2, <1>4 DEF StopsBelong, Starter, Caller, Aimed, Killing, NoStop
<1>10. StopsForGood'
  BY <1>1, <1>2, <1>3, <1>4 DEF StopsForGood, Passed, Caller, Killing
<1>11. NothingLeft'
  BY <1>1, <1>2, <1>3, <1>4 DEF NothingLeft, Caller
<1> QED BY <1>5, <1>6, <1>7, <1>8, <1>9, <1>10, <1>11 DEF LifeInvariant

LEMMA KeepsStartServer ==
    ASSUME LifeInvariant, StartServer
    PROVE  LifeInvariant'
<1>1. /\ Types /\ StartersApart /\ StopsBelong /\ StartsInOrder /\ StopsInOrder /\ StopsForGood
      /\ LiveIsKnown /\ NotStartedYet /\ KnownNotStopped /\ DependenciesFirst
      /\ TargetsKnown /\ RunningHasProcess /\ NothingLeft
  BY DEF LifeInvariant
<1>2. PICK taken \in BOOLEAN :
         /\ main = "server"
         /\ ~taken => /\ main' = "running" /\ UNCHANGED stopping
                     /\ thread' = [thread EXCEPT !["server"] = "run"]
         /\ taken => /\ main' = "destroying" /\ UNCHANGED thread
                    /\ stopping' = [stopping EXCEPT !["main"] = StopAll(FALSE)]
  BY DEF StartServer, MainAt
<1>3. thread' \in [Worker -> {"none", "run", "ended", "joined"}] /\ thread'["monitor"] = thread["monitor"]
  BY <1>1, <1>2 DEF Types, Worker
<1>4. /\ stopping' \in [Caller -> StopFrame] /\ \A u \in Caller \ {"main"} : stopping'[u] = stopping[u]
      /\ taken => stopping'["main"].at = "flag" /\ stopping'["main"].whole /\ StopsInOrder'
      /\ ~taken => stopping' = stopping
  BY <1>1, <1>2, StopAllStops, StopAllInOrder DEF Types
<1>5. UNCHANGED <<state, known, proc, toStart, starting, todo, signals, strayKill>>
  BY DEF StartServer, procVars, serverVars, countVars
<1>6. StartsInOrder' /\ LiveIsKnown' /\ NotStartedYet' /\ KnownNotStopped'
  BY <1>1, <1>5 DEF StartsInOrder, LiveIsKnown, Live, NotStartedYet, Fresh, Live,
       KnownNotStopped
<1>7. DependenciesFirst' /\ RunningHasProcess'
  BY <1>1, <1>5 DEF DependenciesFirst, RunningHasProcess, Alive
<1>8. Types'
  BY <1>1, <1>2, <1>3, <1>4, <1>5 DEF Types, Starter, Caller, Worker
<1>9. StartersApart'
  BY <1>1, <1>2, <1>3, <1>4, <1>5 DEF StartersApart, Starter, Caller, Worker
<1>10. StopsBelong'
  BY <1>1, <1>2, <1>4, <1>5 DEF StopsBelong, Starter, Caller, Aimed, Killing, NoStop
<1>11. StopsInOrder'
  BY <1>1, <1>4 DEF StopsInOrder
<1>12. StopsForGood'
  BY <1>1, <1>2, <1>3, <1>4, <1>5 DEF StopsForGood, Passed, Caller, Killing
<1>13. TargetsKnown'
  BY <1>1, <1>2, <1>4, <1>5 DEF TargetsKnown, Target, Caller, Aimed, Killing
<1>14. NothingLeft'
  BY <1>1, <1>2, <1>3, <1>4, <1>5 DEF NothingLeft, Caller
<1> QED BY <1>6, <1>7, <1>8, <1>9, <1>10, <1>11, <1>12, <1>13, <1>14 DEF LifeInvariant

LEMMA KeepsStoreRunning ==
    ASSUME LifeInvariant, StoreRunning
    PROVE  LifeInvariant'
<1>1. /\ Types /\ StartersApart /\ StopsBelong /\ StartsInOrder /\ StopsInOrder /\ StopsForGood
      /\ LiveIsKnown /\ NotStartedYet /\ KnownNotStopped /\ DependenciesFirst
      /\ TargetsKnown /\ RunningHasProcess /\ NothingLeft
  BY DEF LifeInvariant
<1>2. main = "running" /\ main' = "monitor"
  BY DEF StoreRunning, MainAt
<1>3. UNCHANGED <<state, known, proc, thread, toStart, starting, stopping, todo, signals, strayKill>>
  BY DEF StoreRunning, procVars, serverVars, countVars
<1>4. StartsInOrder' /\ StopsInOrder' /\ StopsForGood' /\ LiveIsKnown'
  BY <1>1, <1>3 DEF StartsInOrder, StopsInOrder, StopsForGood, Passed, LiveIsKnown, Live
<1>5. NotStartedYet' /\ KnownNotStopped' /\ DependenciesFirst' /\ TargetsKnown'
  BY <1>1, <1>3 DEF NotStartedYet, Fresh, Live, KnownNotStopped, DependenciesFirst,
       TargetsKnown, Target
<1>6. RunningHasProcess'
  BY <1>1, <1>3 DEF RunningHasProcess, Alive
<1>7. Types'
  BY <1>1, <1>2, <1>3 DEF Types, Starter, Caller, Worker
<1>8. StartersApart'
  BY <1>1, <1>2, <1>3 DEF StartersApart, Starter, Caller, Worker
<1>9. StopsBelong'
  BY <1>1, <1>2, <1>3 DEF StopsBelong, Starter, Caller, Aimed, Killing, NoStop
<1>10. NothingLeft'
  BY <1>1, <1>2, <1>3 DEF NothingLeft, Caller
<1> QED BY <1>4, <1>5, <1>6, <1>7, <1>8, <1>9, <1>10 DEF LifeInvariant

LEMMA KeepsStartMonitor ==
    ASSUME LifeInvariant, StartMonitor
    PROVE  LifeInvariant'
<1>1. /\ Types /\ StartersApart /\ StopsBelong /\ StartsInOrder /\ StopsInOrder /\ StopsForGood
      /\ LiveIsKnown /\ NotStartedYet /\ KnownNotStopped /\ DependenciesFirst
      /\ TargetsKnown /\ RunningHasProcess /\ NothingLeft
  BY DEF LifeInvariant
<1>2. /\ main = "monitor" /\ main' = "run" /\ Awake("main")
      /\ thread' = [thread EXCEPT !["monitor"] = "run"]
  BY DEF StartMonitor, MainAt
<1>3. thread' \in [Worker -> {"none", "run", "ended", "joined"}] /\ thread'["monitor"] = "run"
  BY <1>1, <1>2 DEF Types, Worker
<1>4. UNCHANGED <<state, known, proc, toStart, starting, stopping, todo, signals, strayKill>>
  BY DEF StartMonitor, procVars, serverVars, countVars
<1>5. StartsInOrder' /\ StopsInOrder' /\ LiveIsKnown' /\ NotStartedYet'
  BY <1>1, <1>4 DEF StartsInOrder, StopsInOrder, LiveIsKnown, Live, NotStartedYet, Fresh, Live
<1>6. KnownNotStopped' /\ DependenciesFirst' /\ TargetsKnown' /\ RunningHasProcess'
  BY <1>1, <1>4 DEF KnownNotStopped, DependenciesFirst, TargetsKnown, Target,
       RunningHasProcess, Alive
<1>7. Types'
  BY <1>1, <1>2, <1>3, <1>4 DEF Types, Starter, Caller, Worker
<1>8. StartersApart'
  BY <1>1, <1>2, <1>3, <1>4 DEF StartersApart, Starter, Caller, Worker
<1>9. StopsBelong'
  BY <1>1, <1>2, <1>4 DEF StopsBelong, Starter, Caller, Aimed, Killing, NoStop
<1>10. StopsForGood'
  <2>1. \A u \in Caller : ~stopping[u].whole \/ stopping[u].at \notin Killing
    BY <1>1, <1>2 DEF StopsBelong, Awake, Caller, Killing
  <2> QED BY <2>1, <1>4 DEF StopsForGood
<1>11. NothingLeft'
  BY <1>1, <1>2, <1>3, <1>4 DEF NothingLeft, Caller
<1> QED BY <1>5, <1>6, <1>7, <1>8, <1>9, <1>10, <1>11 DEF LifeInvariant

LEMMA KeepsDestroy ==
    ASSUME LifeInvariant, Destroy
    PROVE  LifeInvariant'
<1>1. /\ Types /\ StartersApart /\ StopsBelong /\ StartsInOrder /\ StopsInOrder /\ StopsForGood
      /\ LiveIsKnown /\ NotStartedYet /\ KnownNotStopped /\ DependenciesFirst
      /\ TargetsKnown /\ RunningHasProcess /\ NothingLeft
  BY DEF LifeInvariant
<1>2. /\ main \in {"run", "stopping"} /\ main' = "destroying"
      /\ stopping' = [stopping EXCEPT !["main"] = StopAll(FALSE)]
  BY DEF Destroy, MainAt
<1>3. /\ stopping' \in [Caller -> StopFrame] /\ \A u \in Caller \ {"main"} : stopping'[u] = stopping[u]
      /\ stopping'["main"].at = "flag" /\ stopping'["main"].whole /\ StopsInOrder'
  BY <1>1, <1>2, StopAllStops, StopAllInOrder DEF Types
<1>4. UNCHANGED <<state, known, proc, thread, toStart, starting, todo, signals, strayKill>>
  BY DEF Destroy, procVars, serverVars, countVars
<1>5. StartsInOrder' /\ LiveIsKnown' /\ NotStartedYet' /\ KnownNotStopped'
  BY <1>1, <1>4 DEF StartsInOrder, LiveIsKnown, Live, NotStartedYet, Fresh, Live,
       KnownNotStopped
<1>6. DependenciesFirst' /\ RunningHasProcess'
  BY <1>1, <1>4 DEF DependenciesFirst, RunningHasProcess, Alive
<1>7. Types'
  BY <1>1, <1>2, <1>3, <1>4 DEF Types, Starter, Caller, Worker
<1>8. StartersApart'
  BY <1>1, <1>2, <1>3, <1>4 DEF StartersApart, Starter, Caller, Worker
<1>9. StopsBelong'
  BY <1>1, <1>2, <1>3, <1>4 DEF StopsBelong, Starter, Caller, Aimed, Killing, NoStop
<1>10. StopsInOrder'
  BY <1>1, <1>3 DEF StopsInOrder
<1>11. StopsForGood'
  BY <1>1, <1>2, <1>3, <1>4 DEF StopsForGood, Passed, Caller, Killing
<1>12. TargetsKnown'
  BY <1>1, <1>2, <1>3, <1>4 DEF TargetsKnown, Target, Caller, Aimed, Killing
<1>13. NothingLeft'
  BY <1>1, <1>2, <1>3, <1>4 DEF NothingLeft, Caller
<1> QED BY <1>5, <1>6, <1>7, <1>8, <1>9, <1>10, <1>11, <1>12, <1>13 DEF LifeInvariant

LEMMA KeepsExit ==
    ASSUME LifeInvariant, Exit
    PROVE  LifeInvariant'
<1>1. /\ Types /\ StartersApart /\ StopsBelong /\ StartsInOrder /\ StopsInOrder /\ StopsForGood
      /\ LiveIsKnown /\ NotStartedYet /\ KnownNotStopped /\ DependenciesFirst
      /\ TargetsKnown /\ RunningHasProcess /\ NothingLeft
  BY DEF LifeInvariant
<1>2. main = "destroying" /\ main' = "exit" /\ stopping["main"].at = "idle"
  BY DEF Exit, MainAt
<1>3. UNCHANGED <<state, known, proc, thread, toStart, starting, stopping, todo, signals, strayKill>>
  BY DEF Exit, procVars, serverVars, countVars
<1>4. StartsInOrder' /\ StopsInOrder' /\ StopsForGood' /\ LiveIsKnown'
  BY <1>1, <1>3 DEF StartsInOrder, StopsInOrder, StopsForGood, Passed, LiveIsKnown, Live
<1>5. NotStartedYet' /\ KnownNotStopped' /\ DependenciesFirst' /\ TargetsKnown'
  BY <1>1, <1>3 DEF NotStartedYet, Fresh, Live, KnownNotStopped, DependenciesFirst,
       TargetsKnown, Target
<1>6. RunningHasProcess'
  BY <1>1, <1>3 DEF RunningHasProcess, Alive
<1>7. Types'
  BY <1>1, <1>2, <1>3 DEF Types, Starter, Caller, Worker
<1>8. StartersApart'
  BY <1>1, <1>2, <1>3 DEF StartersApart, Starter, Caller, Worker
<1>9. StopsBelong'
  BY <1>1, <1>2, <1>3 DEF StopsBelong, Starter, Caller, Aimed, Killing, NoStop
<1>10. NothingLeft'
  BY <1>1, <1>2, <1>3 DEF NothingLeft, Caller
<1> QED BY <1>4, <1>5, <1>6, <1>7, <1>8, <1>9, <1>10 DEF LifeInvariant

LEMMA KeepsMonitorRound ==
    ASSUME LifeInvariant, MonitorRound
    PROVE  LifeInvariant'
<1>1. /\ Types /\ StartersApart /\ StopsBelong /\ StartsInOrder /\ StopsInOrder /\ StopsForGood
      /\ LiveIsKnown /\ NotStartedYet /\ KnownNotStopped /\ DependenciesFirst
      /\ TargetsKnown /\ RunningHasProcess /\ NothingLeft
  BY DEF LifeInvariant
<1>2. /\ thread["monitor"] = "run" /\ todo = {} /\ starting["monitor"].at = "idle" /\ todo' \subseteq Component
      /\ \/ UNCHANGED thread
         \/ thread' = [thread EXCEPT !["monitor"] = "ended"] /\ todo' = {}
  BY DEF MonitorRound, Ends
<1>3. /\ thread' \in [Worker -> {"none", "run", "ended", "joined"}] /\ thread'["monitor"] \in {"run", "ended"}
      /\ thread'["monitor"] = "ended" => todo' = {}
  BY <1>1, <1>2 DEF Types, Worker
<1>4. UNCHANGED <<state, known, proc, main, toStart, starting, stopping, signals, strayKill>>
  BY DEF MonitorRound, procVars, serverVars, countVars
<1>5. StopsBelong' /\ StartsInOrder' /\ StopsInOrder' /\ LiveIsKnown'
  BY <1>1, <1>4 DEF StopsBelong, StartsInOrder, StopsInOrder, LiveIsKnown, Live
<1>6. NotStartedYet' /\ KnownNotStopped' /\ DependenciesFirst' /\ TargetsKnown'
  BY <1>1, <1>4 DEF NotStartedYet, Fresh, Live, KnownNotStopped, DependenciesFirst,
       TargetsKnown, Target
<1>7. RunningHasProcess'
  BY <1>1, <1>4 DEF RunningHasProcess, Alive
<1>8. Types'
  BY <1>1, <1>2, <1>3, <1>4 DEF Types, Starter, Caller, Worker
<1>9. StartersApart'
  BY <1>1, <1>2, <1>3, <1>4 DEF StartersApart, Starter, Caller, Worker, StopsBelong, Caller
<1>10. StopsForGood'
  BY <1>1, <1>2, <1>3, <1>4 DEF StopsForGood, Passed, Caller, Killing
<1>11. NothingLeft'
  BY <1>1, <1>2, <1>3, <1>4 DEF NothingLeft, Caller
<1> QED BY <1>5, <1>6, <1>7, <1>8, <1>9, <1>10, <1>11 DEF LifeInvariant

(* What the monitor starts again has no process. *)
LEMMA KeepsMonitorComponent ==
    ASSUME LifeInvariant, NEW c \in Component, MonitorComponent(c)
    PROVE  LifeInvariant'
<1>1. /\ Types /\ StartersApart /\ StopsBelong /\ StartsInOrder /\ StopsInOrder /\ StopsForGood
      /\ LiveIsKnown /\ NotStartedYet /\ KnownNotStopped /\ DependenciesFirst
      /\ TargetsKnown /\ RunningHasProcess /\ NothingLeft
  BY DEF LifeInvariant
<1>2. /\ c \in todo /\ starting["monitor"].at = "idle" /\ todo' = todo \ {c}
  BY DEF MonitorComponent
<1>3. thread["monitor"] = "run" /\ starting["main"].at = "idle" /\ toStart = <<>>
  BY <1>1, <1>2 DEF StartersApart
<1>4. PICK crashed \in BOOLEAN, again \in BOOLEAN :
         /\ crashed => state[c] = "RUNNING" /\ ~Alive(c) /\ state' = [state EXCEPT ![c] = "FAILED"]
         /\ ~crashed => UNCHANGED state
         /\ again => crashed /\ EnterStart("monitor", c)
         /\ ~again => UNCHANGED starting
  <2>1. CASE state[c] = "RUNNING" /\ ~Healthy(c) /\ ~Alive(c)
    <3>1. CASE autoRestart = TRUE
      BY <2>1, <3>1 DEF MonitorComponent
    <3>2. CASE ~autoRestart
      BY <2>1, <3>2 DEF MonitorComponent
    <3> QED BY <3>1, <3>2 DEF MonitorComponent
  <2>2. CASE ~(state[c] = "RUNNING" /\ ~Healthy(c) /\ ~Alive(c))
    BY <2>2 DEF MonitorComponent
  <2> QED BY <2>1, <2>2
<1>5. /\ state' \in [Component -> {"STOPPED", "STARTING", "RUNNING", "STOPPING", "FAILED"}] /\ \A d \in Component \ {c} : state'[d] = state[d]
      /\ crashed => state'[c] = "FAILED"
      /\ ~crashed => state' = state
  BY <1>1, <1>4 DEF Types
<1>6. /\ starting' \in [Starter -> StartFrame] /\ starting'["main"] = starting["main"]
      /\ again => starting'["monitor"].at = "check" /\ starting'["monitor"].comp = c
      /\ ~again => starting' = starting
  BY <1>1, <1>4, EnterMove DEF Types, Starter
<1>7. ~Live(c) \/ ~crashed
  BY <1>1, <1>2, <1>3, <1>4 DEF LiveIsKnown, Live, Alive, Starter
<1>8. UNCHANGED <<known, proc, thread, main, toStart, stopping, signals, strayKill>>
  BY DEF MonitorComponent, procVars, serverVars, countVars
<1>9. StopsInOrder' /\ StopsForGood' /\ TargetsKnown' /\ NothingLeft'
  BY <1>1, <1>8 DEF StopsInOrder, StopsForGood, Passed, TargetsKnown, Target, NothingLeft
<1>10. Types'
  BY <1>1, <1>2, <1>3, <1>4, <1>5, <1>6, <1>7, <1>8 DEF Types, Starter, Caller, Worker
<1>11. StartersApart'
  BY <1>1, <1>2, <1>3, <1>4, <1>6, <1>7, <1>8 DEF StartersApart, Starter, Caller, Worker
<1>12. StopsBelong'
  BY <1>1, <1>2, <1>3, <1>4, <1>6, <1>7, <1>8 DEF StopsBelong, Starter, Caller, Aimed,
       Killing, NoStop
<1>13. StartsInOrder'
  BY <1>1, <1>2, <1>3, <1>4, <1>6, <1>7, <1>8 DEF StartsInOrder, Starter
<1>14. LiveIsKnown'
  BY <1>1, <1>2, <1>3, <1>4, <1>6, <1>7, <1>8 DEF LiveIsKnown, Live, Starter
<1>15. NotStartedYet'
  BY <1>1, <1>2, <1>3, <1>4, <1>5, <1>6, <1>7, <1>8 DEF NotStartedYet, Fresh, Live, Starter,
       ToSet
<1>16. KnownNotStopped'
  BY <1>1, <1>2, <1>3, <1>4, <1>5, <1>6, <1>7, <1>8, InTable DEF KnownNotStopped, Starter
<1>17. DependenciesFirst'
  BY <1>1, <1>2, <1>3, <1>4, <1>5, <1>6, <1>7, <1>8 DEF DependenciesFirst, Starter
<1>18. RunningHasProcess'
  BY <1>1, <1>2, <1>3, <1>4, <1>5, <1>6, <1>7, <1>8 DEF RunningHasProcess, Alive, Starter
<1> QED BY <1>9, <1>10, <1>11, <1>12, <1>13, <1>14, <1>15, <1>16, <1>17, <1>18 DEF LifeInvariant

LEMMA KeepsRestartReturns ==
    ASSUME LifeInvariant, RestartReturns
    PROVE  LifeInvariant'
<1>1. /\ Types /\ StartersApart /\ StopsBelong /\ StartsInOrder /\ StopsInOrder /\ StopsForGood
      /\ LiveIsKnown /\ NotStartedYet /\ KnownNotStopped /\ DependenciesFirst
      /\ TargetsKnown /\ RunningHasProcess /\ NothingLeft
  BY DEF LifeInvariant
<1>2. StartGoes("monitor", "idle") /\ starting["monitor"].at \in {"true", "false"}
  BY DEF RestartReturns
<1>3. /\ starting' \in [Starter -> StartFrame] /\ starting'["monitor"].at = "idle"
      /\ starting'["main"] = starting["main"]
  BY <1>1, <1>2, StartMove DEF Types, Starter, StartPlaces
<1>4. UNCHANGED <<state, known, proc, thread, main, toStart, stopping, todo, signals, strayKill>>
  BY DEF RestartReturns, procVars, serverVars, countVars
<1>5. StopsInOrder' /\ StopsForGood' /\ TargetsKnown' /\ NothingLeft'
  BY <1>1, <1>4 DEF StopsInOrder, StopsForGood, Passed, TargetsKnown, Target, NothingLeft
<1>6. Types'
  BY <1>1, <1>2, <1>3, <1>4 DEF Types, Starter, Caller, Worker
<1>7. StartersApart'
  BY <1>1, <1>2, <1>3, <1>4 DEF StartersApart, Starter, Caller, Worker
<1>8. StopsBelong'
  BY <1>1, <1>2, <1>3, <1>4 DEF StopsBelong, Starter, Caller, Aimed, Killing, NoStop
<1>9. StartsInOrder'
  BY <1>1, <1>2, <1>3, <1>4 DEF StartsInOrder, Starter
<1>10. LiveIsKnown'
  BY <1>1, <1>2, <1>3, <1>4 DEF LiveIsKnown, Live, Starter
<1>11. NotStartedYet'
  BY <1>1, <1>2, <1>3, <1>4 DEF NotStartedYet, Fresh, Live, Starter
<1>12. KnownNotStopped'
  BY <1>1, <1>2, <1>3, <1>4 DEF KnownNotStopped, Starter
<1>13. DependenciesFirst'
  BY <1>1, <1>2, <1>3, <1>4 DEF DependenciesFirst, Starter
<1>14. RunningHasProcess'
  BY <1>1, <1>2, <1>3, <1>4 DEF RunningHasProcess, Alive, Starter
<1> QED BY <1>5, <1>6, <1>7, <1>8, <1>9, <1>10, <1>11, <1>12, <1>13, <1>14 DEF LifeInvariant

LEMMA KeepsServerEnds ==
    ASSUME LifeInvariant, ServerEnds
    PROVE  LifeInvariant'
<1>1. /\ Types /\ StartersApart /\ StopsBelong /\ StartsInOrder /\ StopsInOrder /\ StopsForGood
      /\ LiveIsKnown /\ NotStartedYet /\ KnownNotStopped /\ DependenciesFirst
      /\ TargetsKnown /\ RunningHasProcess /\ NothingLeft
  BY DEF LifeInvariant
<1>2. thread' = [thread EXCEPT !["server"] = "ended"]
  BY DEF ServerEnds, Ends
<1>3. thread' \in [Worker -> {"none", "run", "ended", "joined"}] /\ thread'["monitor"] = thread["monitor"]
  BY <1>1, <1>2 DEF Types, Worker
<1>4. UNCHANGED <<state, known, proc, main, toStart, starting, stopping, todo, signals, strayKill>>
  BY DEF ServerEnds, procVars, serverVars, countVars
<1>5. StopsBelong' /\ StartsInOrder' /\ StopsInOrder' /\ LiveIsKnown'
  BY <1>1, <1>4 DEF StopsBelong, StartsInOrder, StopsInOrder, LiveIsKnown, Live
<1>6. NotStartedYet' /\ KnownNotStopped' /\ DependenciesFirst' /\ TargetsKnown'
  BY <1>1, <1>4 DEF NotStartedYet, Fresh, Live, KnownNotStopped, DependenciesFirst,
       TargetsKnown, Target
<1>7. RunningHasProcess'
  BY <1>1, <1>4 DEF RunningHasProcess, Alive
<1>8. Types'
  BY <1>1, <1>2, <1>3, <1>4 DEF Types, Starter, Caller, Worker
<1>9. StartersApart'
  BY <1>1, <1>2, <1>3, <1>4 DEF StartersApart, Starter, Caller, Worker
<1>10. StopsForGood'
  BY <1>1, <1>2, <1>3, <1>4 DEF StopsForGood, Passed, Caller, Killing
<1>11. NothingLeft'
  BY <1>1, <1>2, <1>3, <1>4 DEF NothingLeft, Caller
<1> QED BY <1>5, <1>6, <1>7, <1>8, <1>9, <1>10, <1>11 DEF LifeInvariant

LEMMA KeepsCollectorEnds ==
    ASSUME LifeInvariant, CollectorEnds
    PROVE  LifeInvariant'
<1>1. /\ Types /\ StartersApart /\ StopsBelong /\ StartsInOrder /\ StopsInOrder /\ StopsForGood
      /\ LiveIsKnown /\ NotStartedYet /\ KnownNotStopped /\ DependenciesFirst
      /\ TargetsKnown /\ RunningHasProcess /\ NothingLeft
  BY DEF LifeInvariant
<1>2. thread' = [thread EXCEPT !["collector"] = "ended"]
  BY DEF CollectorEnds, Ends
<1>3. thread' \in [Worker -> {"none", "run", "ended", "joined"}] /\ thread'["monitor"] = thread["monitor"]
  BY <1>1, <1>2 DEF Types, Worker
<1>4. UNCHANGED <<state, known, proc, main, toStart, starting, stopping, todo, signals, strayKill>>
  BY DEF CollectorEnds, procVars, serverVars, countVars
<1>5. StopsBelong' /\ StartsInOrder' /\ StopsInOrder' /\ LiveIsKnown'
  BY <1>1, <1>4 DEF StopsBelong, StartsInOrder, StopsInOrder, LiveIsKnown, Live
<1>6. NotStartedYet' /\ KnownNotStopped' /\ DependenciesFirst' /\ TargetsKnown'
  BY <1>1, <1>4 DEF NotStartedYet, Fresh, Live, KnownNotStopped, DependenciesFirst,
       TargetsKnown, Target
<1>7. RunningHasProcess'
  BY <1>1, <1>4 DEF RunningHasProcess, Alive
<1>8. Types'
  BY <1>1, <1>2, <1>3, <1>4 DEF Types, Starter, Caller, Worker
<1>9. StartersApart'
  BY <1>1, <1>2, <1>3, <1>4 DEF StartersApart, Starter, Caller, Worker
<1>10. StopsForGood'
  BY <1>1, <1>2, <1>3, <1>4 DEF StopsForGood, Passed, Caller, Killing
<1>11. NothingLeft'
  BY <1>1, <1>2, <1>3, <1>4 DEF NothingLeft, Caller
<1> QED BY <1>5, <1>6, <1>7, <1>8, <1>9, <1>10, <1>11 DEF LifeInvariant

LEMMA KeepsAccept ==
    ASSUME LifeInvariant, Accept
    PROVE  LifeInvariant'
<1>1. /\ Types /\ StartersApart /\ StopsBelong /\ StartsInOrder /\ StopsInOrder /\ StopsForGood
      /\ LiveIsKnown /\ NotStartedYet /\ KnownNotStopped /\ DependenciesFirst
      /\ TargetsKnown /\ RunningHasProcess /\ NothingLeft
  BY DEF LifeInvariant
<1>2. UNCHANGED <<state, known, proc, thread, main, toStart, starting, stopping, todo, signals, strayKill>>
  BY DEF Accept, procVars, serverVars, countVars
<1>3. Types' /\ StartersApart' /\ StopsBelong' /\ StartsInOrder'
  BY <1>1, <1>2 DEF Types, StartersApart, StopsBelong, StartsInOrder
<1>4. StopsInOrder' /\ StopsForGood' /\ LiveIsKnown' /\ NotStartedYet'
  BY <1>1, <1>2 DEF StopsInOrder, StopsForGood, Passed, LiveIsKnown, Live, NotStartedYet,
       Fresh, Live
<1>5. KnownNotStopped' /\ DependenciesFirst' /\ TargetsKnown' /\ RunningHasProcess'
  BY <1>1, <1>2 DEF KnownNotStopped, DependenciesFirst, TargetsKnown, Target,
       RunningHasProcess, Alive
<1>6. NothingLeft'
  BY <1>1, <1>2 DEF NothingLeft
<1> QED BY <1>3, <1>4, <1>5, <1>6 DEF LifeInvariant

LEMMA KeepsRequest ==
    ASSUME LifeInvariant, Request
    PROVE  LifeInvariant'
<1>1. /\ Types /\ StartersApart /\ StopsBelong /\ StartsInOrder /\ StopsInOrder /\ StopsForGood
      /\ LiveIsKnown /\ NotStartedYet /\ KnownNotStopped /\ DependenciesFirst
      /\ TargetsKnown /\ RunningHasProcess /\ NothingLeft
  BY DEF LifeInvariant
<1>2. UNCHANGED <<state, known, proc, thread, main, toStart, starting, stopping, todo, signals, strayKill>>
  BY DEF Request, procVars, serverVars, countVars
<1>3. Types' /\ StartersApart' /\ StopsBelong' /\ StartsInOrder'
  BY <1>1, <1>2 DEF Types, StartersApart, StopsBelong, StartsInOrder
<1>4. StopsInOrder' /\ StopsForGood' /\ LiveIsKnown' /\ NotStartedYet'
  BY <1>1, <1>2 DEF StopsInOrder, StopsForGood, Passed, LiveIsKnown, Live, NotStartedYet,
       Fresh, Live
<1>5. KnownNotStopped' /\ DependenciesFirst' /\ TargetsKnown' /\ RunningHasProcess'
  BY <1>1, <1>2 DEF KnownNotStopped, DependenciesFirst, TargetsKnown, Target,
       RunningHasProcess, Alive
<1>6. NothingLeft'
  BY <1>1, <1>2 DEF NothingLeft
<1> QED BY <1>3, <1>4, <1>5, <1>6 DEF LifeInvariant

LEMMA KeepsBoot ==
    ASSUME LifeInvariant, NEW c \in Component, Boot(c)
    PROVE  LifeInvariant'
<1>1. /\ Types /\ StartersApart /\ StopsBelong /\ StartsInOrder /\ StopsInOrder /\ StopsForGood
      /\ LiveIsKnown /\ NotStartedYet /\ KnownNotStopped /\ DependenciesFirst
      /\ TargetsKnown /\ RunningHasProcess /\ NothingLeft
  BY DEF LifeInvariant
<1>2. Live(c) /\ proc' = [proc EXCEPT ![c] = "ready"]
  BY DEF Boot, Live
<1>3. /\ proc' \in [Component -> {"none", "booting", "ready", "dead"}]
      /\ proc'[c] = "ready" /\ \A d \in Component \ {c} : proc'[d] = proc[d]
  BY <1>1, <1>2 DEF Types
<1>4. known \subseteq Component /\ ToSet(toStart) \subseteq Component /\ \A u \in Starter : starting[u].comp \in Component
  BY <1>1, InTable
<1>5. UNCHANGED <<state, known, thread, main, toStart, starting, stopping, todo, signals, strayKill>>
  BY DEF Boot, procVars, serverVars, countVars
<1>6. StartersApart' /\ StopsBelong' /\ StartsInOrder' /\ StopsInOrder'
  BY <1>1, <1>5 DEF StartersApart, StopsBelong, StartsInOrder, StopsInOrder
<1>7. StopsForGood' /\ KnownNotStopped' /\ DependenciesFirst' /\ TargetsKnown'
  BY <1>1, <1>5 DEF StopsForGood, Passed, KnownNotStopped, DependenciesFirst, TargetsKnown,
       Target
<1>8. Types'
  BY <1>1, <1>2, <1>3, <1>4, <1>5 DEF Types, Starter, Caller, Worker
<1>9. LiveIsKnown'
  BY <1>1, <1>2, <1>3, <1>4, <1>5 DEF LiveIsKnown, Live, Starter
<1>10. NotStartedYet'
  BY <1>1, <1>2, <1>3, <1>4, <1>5 DEF NotStartedYet, Fresh, Live, Starter
<1>11. RunningHasProcess'
  BY <1>1, <1>2, <1>3, <1>4, <1>5 DEF RunningHasProcess, Alive, Starter
<1>12. NothingLeft'
  BY <1>1, <1>2, <1>3, <1>4, <1>5 DEF NothingLeft, Caller, Live
<1> QED BY <1>6, <1>7, <1>8, <1>9, <1>10, <1>11, <1>12 DEF LifeInvariant

LEMMA KeepsCrash ==
    ASSUME LifeInvariant, NEW c \in Component, Crash(c)
    PROVE  LifeInvariant'
<1>1. /\ Types /\ StartersApart /\ StopsBelong /\ StartsInOrder /\ StopsInOrder /\ StopsForGood
      /\ LiveIsKnown /\ NotStartedYet /\ KnownNotStopped /\ DependenciesFirst
      /\ TargetsKnown /\ RunningHasProcess /\ NothingLeft
  BY DEF LifeInvariant
<1>2. Live(c) /\ proc' = [proc EXCEPT ![c] = "dead"]
  BY DEF Crash, Live
<1>3. /\ proc' \in [Component -> {"none", "booting", "ready", "dead"}]
      /\ proc'[c] = "dead" /\ \A d \in Component \ {c} : proc'[d] = proc[d]
  BY <1>1, <1>2 DEF Types
<1>4. known \subseteq Component /\ ToSet(toStart) \subseteq Component /\ \A u \in Starter : starting[u].comp \in Component
  BY <1>1, InTable
<1>5. UNCHANGED <<state, known, thread, main, toStart, starting, stopping, todo, signals, strayKill>>
  BY DEF Crash, procVars, serverVars, countVars
<1>6. StartersApart' /\ StopsBelong' /\ StartsInOrder' /\ StopsInOrder'
  BY <1>1, <1>5 DEF StartersApart, StopsBelong, StartsInOrder, StopsInOrder
<1>7. StopsForGood' /\ KnownNotStopped' /\ DependenciesFirst' /\ TargetsKnown'
  BY <1>1, <1>5 DEF StopsForGood, Passed, KnownNotStopped, DependenciesFirst, TargetsKnown,
       Target
<1>8. Types'
  BY <1>1, <1>2, <1>3, <1>4, <1>5 DEF Types, Starter, Caller, Worker
<1>9. LiveIsKnown'
  BY <1>1, <1>2, <1>3, <1>4, <1>5 DEF LiveIsKnown, Live, Starter
<1>10. NotStartedYet'
  BY <1>1, <1>2, <1>3, <1>4, <1>5 DEF NotStartedYet, Fresh, Live, Starter
<1>11. RunningHasProcess'
  BY <1>1, <1>2, <1>3, <1>4, <1>5 DEF RunningHasProcess, Alive, Starter
<1>12. NothingLeft'
  BY <1>1, <1>2, <1>3, <1>4, <1>5 DEF NothingLeft, Caller, Live
<1> QED BY <1>6, <1>7, <1>8, <1>9, <1>10, <1>11, <1>12 DEF LifeInvariant

(* The handler interrupts main at any place. *)
LEMMA KeepsSignal ==
    ASSUME LifeInvariant, Signal
    PROVE  LifeInvariant'
<1>1. /\ Types /\ StartersApart /\ StopsBelong /\ StartsInOrder /\ StopsInOrder /\ StopsForGood
      /\ LiveIsKnown /\ NotStartedYet /\ KnownNotStopped /\ DependenciesFirst
      /\ TargetsKnown /\ RunningHasProcess /\ NothingLeft
  BY DEF LifeInvariant
<1>2. /\ main # "exit" /\ stopping["handler"].at = "idle" /\ signals' = signals + 1
      /\ stopping' = [stopping EXCEPT !["handler"] = StopAll(FALSE)]
  BY DEF Signal
<1>3. /\ stopping' \in [Caller -> StopFrame] /\ \A u \in Caller \ {"handler"} : stopping'[u] = stopping[u]
      /\ stopping'["handler"].at = "flag" /\ stopping'["handler"].whole /\ StopsInOrder'
  BY <1>1, <1>2, StopAllStops, StopAllInOrder DEF Types
<1>4. signals' \in Nat /\ signals' # 0
  BY <1>1, <1>2 DEF Types
<1>5. UNCHANGED <<state, known, proc, thread, main, toStart, starting, todo, strayKill>>
  BY DEF Signal, procVars, serverVars, countVars
<1>6. StartsInOrder' /\ LiveIsKnown' /\ NotStartedYet' /\ KnownNotStopped'
  BY <1>1, <1>5 DEF StartsInOrder, LiveIsKnown, Live, NotStartedYet, Fresh, Live,
       KnownNotStopped
<1>7. DependenciesFirst'
  BY <1>1, <1>5 DEF DependenciesFirst
<1>8. Types'
  BY <1>1, <1>2, <1>3, <1>4, <1>5 DEF Types, Starter, Caller, Worker
<1>9. StartersApart'
  BY <1>1, <1>2, <1>3, <1>5 DEF StartersApart, Starter, Caller, Worker
<1>10. StopsBelong'
  BY <1>1, <1>2, <1>3, <1>5 DEF StopsBelong, Starter, Caller, Aimed, Killing, NoStop
<1>11. StopsInOrder'
  BY <1>1, <1>3 DEF StopsInOrder
<1>12. StopsForGood'
  BY <1>1, <1>2, <1>3, <1>5 DEF StopsForGood, Passed, Caller, Killing
<1>13. TargetsKnown'
  BY <1>1, <1>2, <1>3, <1>4, <1>5 DEF TargetsKnown, Target, Caller, Aimed, Killing
<1>14. RunningHasProcess'
  BY <1>1, <1>2, <1>4, <1>5 DEF RunningHasProcess, Alive, Starter
<1>15. NothingLeft'
  BY <1>1, <1>2, <1>3, <1>5 DEF NothingLeft, Caller
<1> QED BY <1>6, <1>7, <1>8, <1>9, <1>10, <1>11, <1>12, <1>13, <1>14, <1>15 DEF LifeInvariant

---------------------------------------------------------------------------
(* The invariant.                                                          *)

LEMMA LifeInvariantInit == Init => LifeInvariant
<1> SUFFICES ASSUME Init PROVE LifeInvariant
  OBVIOUS
<1>1. /\ state = [c \in Component |-> "STOPPED"] /\ known = {}
      /\ proc = [c \in Component |-> "none"] /\ thread = [w \in Worker |-> "none"]
      /\ main = "start" /\ toStart = StartOrder /\ todo = {} /\ signals = 0 /\ strayKill = FALSE
      /\ starting = [t \in Starter |-> NoStart] /\ stopping = [t \in Caller |-> NoStop]
  BY DEF Init, Starter
<1>2. /\ \A t \in Starter : starting[t] = NoStart
      /\ \A t \in Caller : stopping[t] = NoStop
      /\ \A c \in Component : state[c] = "STOPPED" /\ proc[c] = "none"
      /\ thread["monitor"] = "none"
  BY <1>1 DEF Worker
<1>3. Types
  BY <1>1, OrderFacts, Frames DEF Types
<1>4. StartersApart /\ StopsBelong
  BY <1>1, <1>2, Frames DEF StartersApart, StopsBelong, Starter, Caller, Aimed, Killing
<1>5. StartsInOrder
  BY <1>1, <1>2, Frames, OrderFacts DEF StartsInOrder, Total, Starter
<1>6. StopsInOrder /\ StopsForGood
  BY <1>2, Frames DEF StopsInOrder, StopsForGood
<1>7. LiveIsKnown /\ NotStartedYet
  BY <1>1, <1>2, <1>3, Frames, InTable DEF LiveIsKnown, Live, NotStartedYet, Fresh, Starter
<1>8. KnownNotStopped /\ DependenciesFirst
  BY <1>1, <1>2, Frames DEF KnownNotStopped, DependenciesFirst, Starter
<1>9. TargetsKnown /\ RunningHasProcess
  BY <1>1, <1>2, Frames DEF TargetsKnown, RunningHasProcess, Starter, Caller, Aimed, Killing
<1>10. NothingLeft
  BY <1>1 DEF NothingLeft
<1> QED BY <1>3, <1>4, <1>5, <1>6, <1>7, <1>8, <1>9, <1>10 DEF LifeInvariant

LEMMA KeepsStart == ASSUME LifeInvariant, NEW t \in Starter, StartComponent(t) PROVE LifeInvariant'
BY KeepsCheckComponent, KeepsSpawn, KeepsNotePid, KeepsWaitReady, KeepsSetRunning, KeepsSetFailed
   DEF StartComponent

LEMMA KeepsStop == ASSUME LifeInvariant, NEW t \in Caller, Stop(t) PROVE LifeInvariant'
BY KeepsClearRunning, KeepsStopServer, KeepsStopCollector, KeepsJoinServer, KeepsJoinCollector,
   KeepsJoinMonitor, KeepsNextComponent, KeepsSendTerm, KeepsPoll, KeepsSendKill, KeepsWaitPid,
   KeepsStopDone DEF Stop

LEMMA KeepsIdle == ASSUME LifeInvariant, UNCHANGED vars PROVE LifeInvariant'
<1>1. UNCHANGED <<state, known, proc, thread, main, toStart, starting, stopping, todo, signals, strayKill>>
  BY DEF vars
<1>2. Types' /\ StartersApart' /\ StopsBelong' /\ StartsInOrder'
  BY <1>1 DEF LifeInvariant, Types, StartersApart, StopsBelong, StartsInOrder
<1>3. StopsInOrder' /\ StopsForGood' /\ LiveIsKnown' /\ NotStartedYet'
  BY <1>1 DEF LifeInvariant, StopsInOrder, StopsForGood, Passed, LiveIsKnown, Live, NotStartedYet, Fresh
<1>4. KnownNotStopped' /\ DependenciesFirst' /\ TargetsKnown'
  BY <1>1 DEF LifeInvariant, KnownNotStopped, DependenciesFirst, TargetsKnown, Target
<1>5. RunningHasProcess' /\ NothingLeft'
  BY <1>1 DEF LifeInvariant, RunningHasProcess, Alive, NothingLeft
<1> QED BY <1>2, <1>3, <1>4, <1>5 DEF LifeInvariant

LEMMA LifeInvariantStep == LifeInvariant /\ [Next]_vars => LifeInvariant'
<1> SUFFICES ASSUME LifeInvariant, [Next]_vars PROVE LifeInvariant'
  OBVIOUS
<1>1. CASE Main
  BY <1>1, KeepsStartNext, KeepsStartReturns, KeepsStartCollector, KeepsStartServer,
     KeepsStoreRunning, KeepsStartMonitor, KeepsDestroy, KeepsExit, KeepsStart, KeepsStop
     DEF Main, Starter, Caller
<1>2. CASE Stop("handler")
  BY <1>2, KeepsStop DEF Caller
<1>3. CASE Monitor
  BY <1>3, KeepsMonitorRound, KeepsMonitorComponent, KeepsRestartReturns, KeepsStart, KeepsStop
     DEF Monitor, Starter, Caller
<1>4. CASE ServerEnds \/ CollectorEnds
  BY <1>4, KeepsServerEnds, KeepsCollectorEnds
<1>5. CASE Environment
  BY <1>5, KeepsSignal, KeepsAccept, KeepsRequest, KeepsBoot, KeepsCrash DEF Environment
<1>6. CASE UNCHANGED vars
  BY <1>6, KeepsIdle
<1> QED BY <1>1, <1>2, <1>3, <1>4, <1>5, <1>6 DEF Next

(* What keeps the threads apart and the children accounted for holds from  *)
(* main's first step to its exit, at every interleaving of the handler,    *)
(* the monitor and the crashes of the components.                          *)
THEOREM LifeInvariantHolds == Spec => []LifeInvariant
BY LifeInvariantInit, LifeInvariantStep, PTL DEF Spec

---------------------------------------------------------------------------
(* What it gives.                                                          *)

(* The orchestrator leaves no child behind, whichever way it ends.         *)
THEOREM NoOrphansHolds == Spec => []NoOrphans
<1>1. LifeInvariant => NoOrphans
  BY DEF LifeInvariant, NothingLeft, NoOrphans
<1> QED BY <1>1, LifeInvariantHolds, PTL

(* stop() signals no component while one that depends on it, and that the  *)
(* orchestrator knows of, has its process, also when a signal starts a     *)
(* second stop() inside the first.  Nothing is assumed about Deps: a       *)
(* component whose dependencies do not come before it never starts.        *)
THEOREM StopsInReverseHolds == Spec => []StopsInReverse
<1>1. LifeInvariant => StopsInReverse
  <2>1. SUFFICES ASSUME LifeInvariant, NEW t \in Caller, stopping[t].whole,
                        stopping[t].at \in {"sigterm", "poll", "sigkill"},
                        NEW d \in Component, Target(t) \in Deps[d], d \in known
        PROVE  FALSE
    BY DEF StopsInReverse, Alive
  <2> DEFINE n == Len(stopping[t].comps)
  <2>2. stopping[t].comps \in Seq(Component) /\ stopping[t].comps # <<>>
    BY <2>1 DEF LifeInvariant, Types, StopFrame, StopsBelong, Aimed, Killing
  <2>3. n <= Total /\ n \in 1..Total /\ Target(t) = StartOrder[n]
    <3>1. n <= Total /\ \A i \in 1..n : stopping[t].comps[i] = StartOrder[n + 1 - i]
      BY <2>1 DEF LifeInvariant, StopsInOrder
    <3>2. n \in Nat \ {0} /\ Target(t) = stopping[t].comps[1]
      BY <2>2 DEF Target
    <3>3. stopping[t].comps[1] = StartOrder[n + 1 - 1] /\ n + 1 - 1 = n
      <4> HIDE DEF n
      <4> QED BY <3>1, <3>2
    <3> QED BY <3>1, <3>2, <3>3, OrderFacts
  <2>4. Before(Target(t), d)
    BY <2>1 DEF LifeInvariant, KnownNotStopped, DependenciesFirst, Ordered
  <2>5. PICK i, j \in 1..Total : i < j /\ StartOrder[i] = Target(t) /\ StartOrder[j] = d
    BY <2>4 DEF Before
  <2>6. j \in (n + 1)..Total
    BY <2>3, <2>5, OrderFacts
  <2>7. d \in Passed(t)
    BY <2>5, <2>6 DEF Passed
  <2> QED BY <2>1, <2>7 DEF LifeInvariant, StopsForGood, Killing
<1> QED BY <1>1, LifeInvariantHolds, PTL

(* The fork of spawn_process never takes the place of a child that lives:  *)
(* its pid would be overwritten and nobody could stop it any more.         *)
SpawnReplacesNobody ==
    \A t \in Starter : starting[t].at = "fork" => ~Live(starting[t].comp)

THEOREM SpawnReplacesNobodyHolds == Spec => []SpawnReplacesNobody
<1>1. LifeInvariant => SpawnReplacesNobody
  BY DEF LifeInvariant, NotStartedYet, Fresh, SpawnReplacesNobody, Starter
<1> QED BY <1>1, LifeInvariantHolds, PTL

(* The steps that move strayKill and the steps that move state to FAILED.  *)
LEMMA WhoStrays ==
    ASSUME [Next]_vars, strayKill' # strayKill
    PROVE  \E t \in Caller : SendTerm(t) \/ SendKill(t)
<1>1. ASSUME NEW t \in Starter, StartComponent(t) PROVE FALSE
  BY <1>1 DEF StartComponent, CheckComponent, Spawn, NotePid, WaitReady, SetRunning, SetFailed
<1>2. ASSUME NEW t \in Caller, Stop(t) PROVE SendTerm(t) \/ SendKill(t)
  BY <1>2 DEF Stop, ClearRunning, StopServer, JoinServer, StopCollector, JoinCollector,
     JoinMonitor, JoinWorker, NextComponent, Poll, WaitPid, StopDone
<1>3. CASE Main
  BY <1>1, <1>2, <1>3 DEF Main, Starter, Caller, StartNext, StartReturns, StartCollector,
     StartServer, StoreRunning, StartMonitor, Destroy, Exit
<1>4. CASE Monitor
  BY <1>1, <1>2, <1>4 DEF Monitor, Starter, Caller, MonitorRound, MonitorComponent, RestartReturns
<1>5. CASE Stop("handler")
  BY <1>2, <1>5 DEF Caller
<1>6. CASE ServerEnds \/ CollectorEnds \/ Environment
  BY <1>6 DEF ServerEnds, CollectorEnds, Environment, Signal, Accept, Request, Boot, Crash
<1>7. CASE UNCHANGED vars
  BY <1>7 DEF vars
<1> QED BY <1>3, <1>4, <1>5, <1>6, <1>7 DEF Next

LEMMA WhoFails ==
    ASSUME LifeInvariant, [Next]_vars, NEW c \in Component,
           state[c] = "RUNNING", state'[c] = "FAILED"
    PROVE  \/ \E t \in Starter : (Spawn(t) \/ SetFailed(t)) /\ c = starting[t].comp
           \/ MonitorComponent(c) /\ ~Alive(c)
<1>1. state \in [Component -> {"STOPPED", "STARTING", "RUNNING", "STOPPING", "FAILED"}]
  BY DEF LifeInvariant, Types
<1>2. ASSUME NEW t \in Starter, StartComponent(t)
      PROVE  (Spawn(t) \/ SetFailed(t)) /\ c = starting[t].comp
  BY <1>1, <1>2 DEF StartComponent, CheckComponent, Spawn, NotePid, WaitReady, SetRunning,
     SetFailed, procVars
<1>3. ASSUME NEW t \in Caller, Stop(t) PROVE FALSE
  BY <1>1, <1>3 DEF Stop, ClearRunning, StopServer, JoinServer, StopCollector, JoinCollector,
     JoinMonitor, JoinWorker, NextComponent, SendTerm, Poll, SendKill, WaitPid, StopDone, procVars
<1>4. ASSUME NEW d \in Component, MonitorComponent(d) PROVE d = c /\ ~Alive(c)
  BY <1>1, <1>4 DEF MonitorComponent
<1>5. CASE Main
  BY <1>2, <1>3, <1>5 DEF Main, Starter, Caller, StartNext, StartReturns, StartCollector,
     StartServer, StoreRunning, StartMonitor, Destroy, Exit, procVars
<1>6. CASE Monitor
  <2>1. ~MonitorRound /\ ~RestartReturns
    BY DEF MonitorRound, RestartReturns, procVars
  <2> QED BY <1>2, <1>3, <1>4, <1>6, <2>1 DEF Monitor, Starter, Caller
<1>7. CASE Stop("handler")
  BY <1>3, <1>7 DEF Caller
<1>8. CASE ServerEnds \/ CollectorEnds \/ Environment
  BY <1>8 DEF ServerEnds, CollectorEnds, Environment, Signal, Accept, Request, Boot, Crash, procVars
<1>9. CASE UNCHANGED vars
  BY <1>9 DEF vars
<1> QED BY <1>5, <1>6, <1>7, <1>8, <1>9 DEF Next

(* kill(-1) is never called by a stop() in the signal handler, nor by any  *)
(* stop() before the first signal.                                         *)
THEOREM HandlerKillsOnlyChildrenHolds == Spec => HandlerKillsOnlyChildren
<1>1. ASSUME LifeInvariant, [Next]_vars, strayKill' # strayKill
      PROVE  signals > 0 /\ stopping["handler"].at = "idle"
  <2>1. PICK t \in Caller : SendTerm(t) \/ SendKill(t)
    BY <1>1, WhoStrays
  <2>2. stopping[t].at \in Aimed /\ Awake(t) /\ Target(t) \notin known
    BY <2>1, <1>1 DEF SendTerm, SendKill, StopAt, Aimed, Killing, LifeInvariant, Types
  <2>3. t = "main" /\ signals # 0 /\ signals \in Nat
    BY <2>2, <1>1 DEF LifeInvariant, TargetsKnown, Types, Caller
  <2> QED BY <2>2, <2>3 DEF Awake
<1>2. LifeInvariant /\ [Next]_vars =>
          [strayKill' # strayKill => signals > 0 /\ stopping["handler"].at = "idle"]_vars
  BY <1>1
<1> QED BY <1>2, LifeInvariantHolds, PTL DEF Spec, HandlerKillsOnlyChildren

(* Before the first signal the monitor never sees a crash: what it believes *)
(* to run has a process, if only a zombie, and kill(pid, 0) succeeds.      *)
THEOREM CrashIsMaskedHolds == Spec => CrashIsMasked
<1>1. ASSUME LifeInvariant, [Next]_vars, NEW c \in Component,
             state[c] = "RUNNING", state'[c] = "FAILED"
      PROVE  signals > 0
  <2>1. SUFFICES ASSUME signals = 0 PROVE FALSE
    BY <1>1 DEF LifeInvariant, Types
  <2>2. /\ Alive(c)
        /\ \A t \in Starter : starting[t].at \in {"fork", "giveup"} => starting[t].comp # c
    BY <2>1, <1>1 DEF LifeInvariant, RunningHasProcess
  <2> QED BY <2>2, <1>1, WhoFails DEF Spawn, SetFailed, At
<1>2. LifeInvariant /\ [Next]_vars =>
          [\A c \in Component : state[c] = "RUNNING" /\ state'[c] = "FAILED" => signals > 0]_vars
  BY <1>1
<1> QED BY <1>2, LifeInvariantHolds, PTL DEF Spec, CrashIsMasked

============================================================================
