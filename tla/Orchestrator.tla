---------------------------- MODULE Orchestrator ----------------------------
(***************************************************************************)
(* The system orchestrator (18-complete-system): one process that forks    *)
(* the components of the trading system in dependency order, watches them  *)
(* and stops them in the reverse order.                                    *)
(*                                                                         *)
(* Four threads and one signal handler share processes_ and running_       *)
(* without a lock:                                                         *)
(*   main       start(), then run(), then the destructor;                  *)
(*   handler    stop(false), run by a signal in the middle of main;        *)
(*   monitor    monitor_processes();                                       *)
(*   server     PrometheusServer::server_loop();                           *)
(*   collector  MetricsAggregator::collection_loop().                      *)
(* start_component is called by main and monitor, stop_component by main,  *)
(* handler and monitor: each caller has its own frame of it.               *)
(*                                                                         *)
(* A component that exits stays a zombie ("dead") until somebody waits for *)
(* it: kill(pid, 0) still succeeds.  Time is left out: a time limit may    *)
(* pass at any moment.                                                     *)
(***************************************************************************)
EXTENDS Integers, Sequences, SequencesExt, FiniteSets

CONSTANTS
    StartOrder,   \* the order of start_components_in_order
    Deps,         \* component -> the components it depends on
    TcpChecked,   \* the components whose health check connects to a port
    MaxSignals,   \* bound: shutdown signals
    MaxCrashes    \* bound: components that exit on their own

Component == ToSet(StartOrder)

ASSUME OrchestratorAssumption ==
    /\ StartOrder \in Seq(Component) \ {<<>>}
    /\ IsInjective(StartOrder)
    /\ Deps \in [Component -> SUBSET Component]
    /\ TcpChecked \subseteq Component
    /\ MaxSignals \in Nat /\ MaxCrashes \in Nat

Caller == {"main", "handler", "monitor"}
Worker == {"monitor", "server", "collector"}

VARIABLES
    autoRestart,   \* enable_auto_restart_ of the configuration
    state,         \* component -> info.state
    known,         \* the components whose info.pid is a process id (not -1)
    proc,          \* component -> its process: none, booting, ready or dead
    told,          \* the components that were sent SIGTERM
    running,       \* running_
    serving,       \* PrometheusServer::running_
    collecting,    \* MetricsAggregator::running_
    thread,        \* worker -> none, run, ended or joined
    main,          \* where main is
    toStart,       \* the components start() has still to start
    starting,      \* main or monitor -> its frame of start_component
    stopping,      \* caller -> its frame of stop or stop_component
    todo,          \* the components of this round of monitor_processes
    client,        \* the server waits in recv for the request of a client
    signals, crashes,
    strayKill      \* kill was called with -1: every process of the user

vars == <<autoRestart, state, known, proc, told, running, serving, collecting,
          thread, main, toStart, starting, stopping, todo, client, signals,
          crashes, strayKill>>

procVars   == <<state, known, proc, told>>
serverVars == <<serving, collecting, client>>
countVars  == <<autoRestart, signals, crashes>>

NoStart == [at |-> "idle", comp |-> Head(StartOrder)]
NoStop  == [at |-> "idle", comps |-> <<>>, force |-> FALSE, whole |-> FALSE]

\* Mutant: the components are stopped in the order they were started.
StopAllForwards(force) ==
    [at |-> "flag", comps |-> StartOrder, force |-> force, whole |-> TRUE]

StopAll(force) ==
    [at |-> "flag", comps |-> Reverse(StartOrder), force |-> force, whole |-> TRUE]
StopOne(c) ==
    [at |-> "next", comps |-> <<c>>, force |-> TRUE, whole |-> FALSE]

Init ==
    /\ autoRestart \in BOOLEAN
    /\ state = [c \in Component |-> "STOPPED"]
    /\ known = {}
    /\ proc = [c \in Component |-> "none"]
    /\ told = {}
    /\ running = FALSE /\ serving = FALSE /\ collecting = FALSE
    /\ thread = [w \in Worker |-> "none"]
    /\ main = "start"
    /\ toStart = StartOrder
    /\ starting = [t \in {"main", "monitor"} |-> NoStart]
    /\ stopping = [t \in Caller |-> NoStop]
    /\ todo = {}
    /\ client = FALSE
    /\ signals = 0 /\ crashes = 0
    /\ strayKill = FALSE

\* While the signal handler runs, main stands still.
Awake(t) == t = "main" => stopping["handler"].at = "idle"

-----------------------------------------------------------------------------
(* Health                                                                  *)

\* Mutant: a zombie does not count.
AliveNotZombie(c) == c \in known /\ proc[c] \in {"booting", "ready"}

\* check_process_alive: kill(pid, 0), which a zombie answers too.
Alive(c) == c \in known /\ proc[c] # "none"

\* check_component_health
Healthy(c) == Alive(c) /\ (c \in TcpChecked => proc[c] = "ready")

DependenciesRunning(c) == \A d \in Deps[c] : state[d] = "RUNNING"

-----------------------------------------------------------------------------
(* start_component                                                         *)

EnterStart(t, c) ==
    starting' = [starting EXCEPT ![t] = [at |-> "check", comp |-> c]]

StartGoes(t, where) == starting' = [starting EXCEPT ![t].at = where]

At(t, where) == Awake(t) /\ starting[t].at = where

\* It is running already, or something it depends on is not.
CheckComponent(t) ==
    LET c == starting[t].comp IN
    /\ At(t, "check")
    /\ \/ /\ state[c] = "RUNNING"
          /\ StartGoes(t, "true") /\ UNCHANGED state
       \/ /\ state[c] # "RUNNING" /\ ~DependenciesRunning(c)
          /\ StartGoes(t, "false") /\ UNCHANGED state
       \/ /\ state[c] # "RUNNING" /\ DependenciesRunning(c)
          /\ StartGoes(t, "fork")
          /\ state' = [state EXCEPT ![c] = "STARTING"]
    /\ UNCHANGED <<known, proc, told, running, serverVars, thread, main,
                   toStart, stopping, todo, countVars, strayKill>>

\* spawn_process: the child exists before the parent has noted its pid.
Spawn(t) ==
    LET c == starting[t].comp IN
    /\ At(t, "fork")
    /\ \/ /\ proc' = [proc EXCEPT ![c] = "booting"]
          /\ StartGoes(t, "note") /\ UNCHANGED state
       \/ /\ state' = [state EXCEPT ![c] = "FAILED"]
          /\ StartGoes(t, "false") /\ UNCHANGED proc
    /\ UNCHANGED <<known, told, running, serverVars, thread, main,
                   toStart, stopping, todo, countVars, strayKill>>

NotePid(t) ==
    /\ At(t, "note")
    /\ known' = known \union {starting[t].comp}
    /\ told' = told \ {starting[t].comp}
    /\ StartGoes(t, "wait")
    /\ UNCHANGED <<state, proc, running, serverVars, thread, main,
                   toStart, stopping, todo, countVars, strayKill>>

\* Mutant: a component that does not get ready is forgotten, not stopped.
WaitReadyOrForget(t) ==
    LET c == starting[t].comp IN
    /\ At(t, "wait")
    /\ \/ Healthy(c) /\ StartGoes(t, "ready") /\ UNCHANGED known
       \/ ~Healthy(c) /\ StartGoes(t, "giveup") /\ known' = known \ {c}
    /\ UNCHANGED <<state, proc, told, running, serverVars, thread, main,
                   toStart, stopping, todo, countVars, strayKill>>

\* Mutant: the wait for a component has no time limit.
WaitReadyForEver(t) ==
    LET c == starting[t].comp IN
    /\ At(t, "wait")
    /\ \/ Healthy(c) /\ StartGoes(t, "ready") /\ UNCHANGED stopping
       \/ /\ ~Healthy(c) /\ ~Alive(c)
          /\ stopping' = [stopping EXCEPT ![t] = StopOne(c)]
          /\ StartGoes(t, "giveup")
    /\ UNCHANGED <<procVars, running, serverVars, thread, main, toStart, todo,
                   countVars, strayKill>>

\* wait_for_component_ready: healthy, crashed or out of time.
WaitReady(t) ==
    LET c == starting[t].comp IN
    /\ At(t, "wait")
    /\ \/ Healthy(c) /\ StartGoes(t, "ready") /\ UNCHANGED stopping
       \/ /\ ~Healthy(c)
          /\ stopping' = [stopping EXCEPT ![t] = StopOne(c)]
          /\ StartGoes(t, "giveup")
    /\ UNCHANGED <<procVars, running, serverVars, thread, main, toStart, todo,
                   countVars, strayKill>>

SetRunning(t) ==
    /\ At(t, "ready")
    /\ state' = [state EXCEPT ![starting[t].comp] = "RUNNING"]
    /\ StartGoes(t, "true")
    /\ UNCHANGED <<known, proc, told, running, serverVars, thread, main,
                   toStart, stopping, todo, countVars, strayKill>>

SetFailed(t) ==
    /\ At(t, "giveup") /\ stopping[t].at = "idle"
    /\ state' = [state EXCEPT ![starting[t].comp] = "FAILED"]
    /\ StartGoes(t, "false")
    /\ UNCHANGED <<known, proc, told, running, serverVars, thread, main,
                   toStart, stopping, todo, countVars, strayKill>>

StartComponent(t) ==
    \/ CheckComponent(t) \/ Spawn(t) \/ NotePid(t)
    \/ WaitReady(t) \/ SetRunning(t) \/ SetFailed(t)

-----------------------------------------------------------------------------
(* stop and stop_component                                                 *)

StopGoes(t, where) == stopping' = [stopping EXCEPT ![t].at = where]

StopAt(t, where) == Awake(t) /\ stopping[t].at = where

ClearRunning(t) ==
    /\ StopAt(t, "flag")
    /\ running' = FALSE
    /\ StopGoes(t, "server")
    /\ UNCHANGED <<procVars, serverVars, thread, main, toStart, starting, todo,
                   countVars, strayKill>>

\* PrometheusServer::stop and MetricsAggregator::stop have the same shape:
\* nothing unless it runs, else lower the flag and join the thread.
StopServer(t) ==
    /\ StopAt(t, "server")
    /\ serving' = FALSE
    /\ StopGoes(t, IF serving THEN "server join" ELSE "collector")
    /\ UNCHANGED <<procVars, running, collecting, client, thread, main, toStart,
                   starting, todo, countVars, strayKill>>

StopCollector(t) ==
    /\ StopAt(t, "collector")
    /\ collecting' = FALSE
    /\ StopGoes(t, IF collecting THEN "collector join" ELSE "monitor join")
    /\ UNCHANGED <<procVars, running, serving, client, thread, main, toStart,
                   starting, todo, countVars, strayKill>>

JoinWorker(t, w, from, to) ==
    /\ StopAt(t, from)
    /\ \/ thread[w] = "ended"  /\ thread' = [thread EXCEPT ![w] = "joined"]
       \/ thread[w] \in {"none", "joined"} /\ UNCHANGED thread
    /\ StopGoes(t, to)
    /\ UNCHANGED <<procVars, running, serverVars, main, toStart, starting, todo,
                   countVars, strayKill>>

JoinServer(t)    == JoinWorker(t, "server", "server join", "collector")
JoinCollector(t) == JoinWorker(t, "collector", "collector join", "monitor join")
JoinMonitor(t)   == JoinWorker(t, "monitor", "monitor join", "next")

Target(t) == Head(stopping[t].comps)

\* Mutant: the pid is not looked at before it is used.
NextUncheckedComponent(t) ==
    /\ StopAt(t, "next") /\ stopping[t].comps # <<>>
    /\ IF state[Target(t)] = "STOPPED"
         THEN /\ stopping' = [stopping EXCEPT ![t].comps = Tail(@)]
              /\ UNCHANGED state
         ELSE /\ state' = [state EXCEPT ![Target(t)] = "STOPPING"]
              /\ StopGoes(t, IF stopping[t].force THEN "sigkill" ELSE "sigterm")
    /\ UNCHANGED <<known, proc, told, running, serverVars, thread, main,
                   toStart, starting, todo, countVars, strayKill>>

\* The next component to stop: one that is stopped or has no pid is passed.
NextComponent(t) ==
    /\ StopAt(t, "next") /\ stopping[t].comps # <<>>
    /\ IF state[Target(t)] = "STOPPED" \/ Target(t) \notin known
         THEN /\ stopping' = [stopping EXCEPT ![t].comps = Tail(@)]
              /\ UNCHANGED state
         ELSE /\ state' = [state EXCEPT ![Target(t)] = "STOPPING"]
              /\ StopGoes(t, IF stopping[t].force THEN "sigkill" ELSE "sigterm")
    /\ UNCHANGED <<known, proc, told, running, serverVars, thread, main,
                   toStart, starting, todo, countVars, strayKill>>

\* kill(info.pid, ...) reads info.pid again, and -1 means every process.
SendTerm(t) ==
    /\ StopAt(t, "sigterm")
    /\ told' = told \union ({Target(t)} \intersect known)
    /\ strayKill' = (strayKill \/ Target(t) \notin known)
    /\ StopGoes(t, "poll")
    /\ UNCHANGED <<state, known, proc, running, serverVars, thread, main,
                   toStart, starting, todo, countVars>>

\* The process is gone, or the time is up: even an obedient child stays a
\* zombie, so that only the time limit or a nested stop ends the loop.
Poll(t) ==
    /\ StopAt(t, "poll")
    /\ StopGoes(t, IF Alive(Target(t)) THEN "sigkill" ELSE "reap")
    /\ UNCHANGED <<procVars, running, serverVars, thread, main, toStart,
                   starting, todo, countVars, strayKill>>

SendKill(t) ==
    /\ StopAt(t, "sigkill")
    /\ proc' = [proc EXCEPT ![Target(t)] = IF Alive(Target(t)) THEN "dead" ELSE @]
    /\ strayKill' = (strayKill \/ Target(t) \notin known)
    /\ StopGoes(t, "reap")
    /\ UNCHANGED <<state, known, told, running, serverVars, thread, main,
                   toStart, starting, todo, countVars>>

\* waitpid(info.pid): for this child, or for any one when info.pid is -1.
WaitPid(t) ==
    LET c == Target(t) IN
    /\ StopAt(t, "reap")
    /\ IF c \in known /\ proc[c] # "none"
         THEN proc[c] = "dead" /\ proc' = [proc EXCEPT ![c] = "none"]
         ELSE \/ /\ c \in known \/ \A d \in Component : proc[d] = "none"
                 /\ UNCHANGED proc
              \/ /\ c \notin known
                 /\ \E d \in Component : /\ proc[d] = "dead"
                                         /\ proc' = [proc EXCEPT ![d] = "none"]
    /\ known' = known \ {c}
    /\ state' = [state EXCEPT ![c] = "STOPPED"]
    /\ stopping' = [stopping EXCEPT ![t].at = "next", ![t].comps = Tail(@)]
    /\ UNCHANGED <<told, running, serverVars, thread, main, toStart, starting,
                   todo, countVars, strayKill>>

\* All components done: stop() also reaps every zombie that is left.
StopDone(t) ==
    /\ StopAt(t, "next") /\ stopping[t].comps = <<>>
    /\ proc' = [c \in Component |->
                  IF stopping[t].whole /\ proc[c] = "dead" THEN "none" ELSE proc[c]]
    /\ stopping' = [stopping EXCEPT ![t] = NoStop]
    /\ UNCHANGED <<state, known, told, running, serverVars, thread, main,
                   toStart, starting, todo, countVars, strayKill>>

Stop(t) ==
    \/ ClearRunning(t) \/ StopServer(t) \/ JoinServer(t) \/ StopCollector(t)
    \/ JoinCollector(t) \/ JoinMonitor(t) \/ NextComponent(t) \/ SendTerm(t)
    \/ Poll(t) \/ SendKill(t) \/ WaitPid(t) \/ StopDone(t)

-----------------------------------------------------------------------------
(* main: start(), run() and the end of the program                         *)

MainAt(where) == Awake("main") /\ main = where

\* start_components_in_order: the next component, or all are started.
StartNext ==
    /\ MainAt("start") /\ starting["main"].at = "idle" /\ toStart # <<>>
    /\ EnterStart("main", Head(toStart))
    /\ toStart' = Tail(toStart)
    /\ UNCHANGED <<procVars, running, serverVars, thread, main, stopping, todo,
                   countVars, strayKill>>

\* A component that did not start ends start() with stop(true).
StartReturns ==
    /\ MainAt("start") /\ starting["main"].at \in {"true", "false"}
    /\ IF starting["main"].at = "true"
         THEN UNCHANGED <<main, stopping>>
         ELSE /\ main' = "stopping"
              /\ stopping' = [stopping EXCEPT !["main"] = StopAll(TRUE)]
    /\ StartGoes("main", "idle")
    /\ UNCHANGED <<procVars, running, serverVars, thread, toStart, todo,
                   countVars, strayKill>>

StartCollector ==
    /\ MainAt("start") /\ starting["main"].at = "idle" /\ toStart = <<>>
    /\ collecting' = TRUE
    /\ thread' = [thread EXCEPT !["collector"] = "run"]
    /\ main' = "server"
    /\ UNCHANGED <<procVars, running, serving, client, toStart, starting,
                   stopping, todo, countVars, strayKill>>

\* PrometheusServer::start; the port may be taken: the exception runs the
\* destructor, which calls stop(false).
StartServer ==
    /\ MainAt("server")
    /\ \/ /\ serving' = TRUE
          /\ thread' = [thread EXCEPT !["server"] = "run"]
          /\ main' = "running" /\ UNCHANGED stopping
       \/ /\ main' = "destroying"
          /\ stopping' = [stopping EXCEPT !["main"] = StopAll(FALSE)]
          /\ UNCHANGED <<serving, thread>>
    /\ UNCHANGED <<procVars, running, collecting, client, toStart, starting,
                   todo, countVars, strayKill>>

StoreRunning ==
    /\ MainAt("running")
    /\ running' = TRUE
    /\ main' = "monitor"
    /\ UNCHANGED <<procVars, serverVars, thread, toStart, starting, stopping,
                   todo, countVars, strayKill>>

StartMonitor ==
    /\ MainAt("monitor")
    /\ thread' = [thread EXCEPT !["monitor"] = "run"]
    /\ main' = "run"
    /\ UNCHANGED <<procVars, running, serverVars, toStart, starting, stopping,
                   todo, countVars, strayKill>>

\* run() ends when running_ is false; the destructor of the orchestrator
\* calls stop(false), also after a start() that failed.
Destroy ==
    /\ \/ MainAt("run") /\ ~running
       \/ MainAt("stopping") /\ stopping["main"].at = "idle"
    /\ main' = "destroying"
    /\ stopping' = [stopping EXCEPT !["main"] = StopAll(FALSE)]
    /\ UNCHANGED <<procVars, running, serverVars, thread, toStart, starting,
                   todo, countVars, strayKill>>

Exit ==
    /\ MainAt("destroying") /\ stopping["main"].at = "idle"
    /\ main' = "exit"
    /\ UNCHANGED <<procVars, running, serverVars, thread, toStart, starting,
                   stopping, todo, countVars, strayKill>>

Main ==
    \/ StartNext \/ StartReturns \/ StartCollector \/ StartServer
    \/ StoreRunning \/ StartMonitor \/ Destroy \/ Exit
    \/ StartComponent("main") \/ Stop("main")

-----------------------------------------------------------------------------
(* The other threads                                                       *)

Ends(w) == thread' = [thread EXCEPT ![w] = "ended"]

\* One round of monitor_processes, or the end of the thread.
MonitorRound ==
    /\ thread["monitor"] = "run" /\ todo = {} /\ starting["monitor"].at = "idle"
    /\ IF running THEN todo' = Component /\ UNCHANGED thread
                  ELSE Ends("monitor") /\ UNCHANGED todo
    /\ UNCHANGED <<procVars, running, serverVars, main, toStart, starting,
                   stopping, countVars, strayKill>>

\* A component that runs, is unhealthy and has no process any more has
\* crashed; it is started again if the configuration says so.
MonitorComponent(c) ==
    LET crashed == state[c] = "RUNNING" /\ ~Healthy(c) /\ ~Alive(c) IN
    /\ c \in todo /\ starting["monitor"].at = "idle"
    /\ todo' = todo \ {c}
    /\ IF crashed THEN state' = [state EXCEPT ![c] = "FAILED"]
                  ELSE UNCHANGED state
    /\ IF crashed /\ autoRestart THEN EnterStart("monitor", c)
                                 ELSE UNCHANGED starting
    /\ UNCHANGED <<known, proc, told, running, serverVars, thread, main,
                   toStart, stopping, countVars, strayKill>>

\* The monitor ignores what start_component returns.
RestartReturns ==
    /\ starting["monitor"].at \in {"true", "false"}
    /\ StartGoes("monitor", "idle")
    /\ UNCHANGED <<procVars, running, serverVars, thread, main, toStart,
                   stopping, todo, countVars, strayKill>>

Monitor ==
    \/ MonitorRound \/ (\E c \in Component : MonitorComponent(c))
    \/ RestartReturns \/ StartComponent("monitor") \/ Stop("monitor")

\* server_loop: the closed socket makes accept fail.
ServerEnds ==
    /\ thread["server"] = "run" /\ ~client /\ ~serving
    /\ Ends("server")
    /\ UNCHANGED <<procVars, running, serverVars, main, toStart, starting,
                   stopping, todo, countVars, strayKill>>

\* A client connects; handle_request waits for its request without a limit.
Accept ==
    /\ thread["server"] = "run" /\ ~client /\ serving
    /\ client' = TRUE
    /\ UNCHANGED <<procVars, running, serving, collecting, thread, main,
                   toStart, starting, stopping, todo, countVars, strayKill>>

\* The request, or the end of the connection; the answer is sent.
Request ==
    /\ client
    /\ client' = FALSE
    /\ UNCHANGED <<procVars, running, serving, collecting, thread, main,
                   toStart, starting, stopping, todo, countVars, strayKill>>

CollectorEnds ==
    /\ thread["collector"] = "run" /\ ~collecting
    /\ Ends("collector")
    /\ UNCHANGED <<procVars, running, serverVars, main, toStart, starting,
                   stopping, todo, countVars, strayKill>>

-----------------------------------------------------------------------------
(* The environment: children and signals                                   *)

\* A child opens its port, exits on its own, or obeys SIGTERM.
Boot(c) ==
    /\ proc[c] = "booting"
    /\ proc' = [proc EXCEPT ![c] = "ready"]
    /\ UNCHANGED <<state, known, told, running, serverVars, thread, main,
                   toStart, starting, stopping, todo, countVars, strayKill>>

Crash(c) ==
    /\ proc[c] \in {"booting", "ready"}
    /\ proc' = [proc EXCEPT ![c] = "dead"]
    /\ \/ c \in told /\ UNCHANGED crashes
       \/ c \notin told /\ crashes < MaxCrashes /\ crashes' = crashes + 1
    /\ UNCHANGED <<state, known, told, running, serverVars, thread, main,
                   toStart, starting, stopping, todo, autoRestart, signals,
                   strayKill>>

\* signal_handler runs stop(false); its own signal is blocked meanwhile.
Signal ==
    /\ main # "exit" /\ stopping["handler"].at = "idle" /\ signals < MaxSignals
    /\ signals' = signals + 1
    /\ stopping' = [stopping EXCEPT !["handler"] = StopAll(FALSE)]
    /\ UNCHANGED <<procVars, running, serverVars, thread, main, toStart,
                   starting, todo, autoRestart, crashes, strayKill>>

Environment ==
    Signal \/ Accept \/ Request \/ \E c \in Component : Boot(c) \/ Crash(c)

Next == Main \/ Stop("handler") \/ Monitor \/ ServerEnds \/ CollectorEnds
        \/ Environment

\* Every thread of the orchestrator gets the processor and every time limit
\* ends; nothing is assumed of the children, the clients and the operator.
Fairness ==
    /\ WF_vars(Main) /\ WF_vars(Stop("handler")) /\ WF_vars(Monitor)
    /\ WF_vars(ServerEnds) /\ WF_vars(CollectorEnds)

Spec == Init /\ [][Next]_vars /\ Fairness

-----------------------------------------------------------------------------
(* Properties                                                              *)

\* The orchestrator leaves no child behind, whichever way it ends: a failed
\* start, a port that is taken, a signal at any moment of start(), a crash.
NoOrphans == main = "exit" => \A c \in Component : proc[c] = "none"

\* stop() never signals a component while a component that depends on it,
\* and that the orchestrator knows of, still has its process: also when a
\* signal starts a second stop() inside the first.
StopsInReverse ==
    \A t \in Caller :
        stopping[t].whole /\ stopping[t].at \in {"sigterm", "poll", "sigkill"} =>
            \A d \in Component : Target(t) \in Deps[d] => ~Alive(d)

\* kill(-1) would signal every process of the user.  A stop() that runs in
\* the signal handler never does it, nor any stop() of a run without a
\* signal.  What is left is the stop of main that a signal interrupts between
\* the test of info.pid and its use: see README.
HandlerKillsOnlyChildren ==
    [][strayKill' # strayKill => signals > 0 /\ stopping["handler"].at = "idle"]_vars

\* start() ends: the system runs or the program exits, whatever the children
\* do and whenever a signal comes, if every client that connects sends a request.
StartEnds == ([]<>~client) => <>(main \in {"run", "exit"})

\* A shutdown signal to the running system ends the program, under the same
\* condition.  A signal during start() is not covered: start() goes on and
\* sets running_ again.
ShutdownCompletes ==
    ([]<>~client) =>
        (running /\ stopping["handler"].at = "flag") ~> (main = "exit")

\* Neither phase hangs: start() ends and so does a shutdown.
StartAndShutdownEnd == StartEnds /\ ShutdownCompletes

\* A crash of a running component is not noticed: kill(pid, 0) succeeds for a
\* zombie.  The monitor marks a component FAILED, and starts it again, only
\* when a signal during start() had stopped it.
CrashIsMasked ==
    [][\A c \in Component :
          state[c] = "RUNNING" /\ state'[c] = "FAILED" => signals > 0]_vars

=============================================================================
