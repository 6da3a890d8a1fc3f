------------------------------- MODULE Lifecycle -------------------------------
(***************************************************************************)
(* Starting and stopping: the controller's main thread, its signal handler *)
(* and its health thread (bmt_ai_os/controller/main.py), and run and stop  *)
(* of the fleet agent (bmt_ai_os/fleet/agent.py).                          *)
(*                                                                         *)
(* Python runs a signal handler on the main thread, between two of its     *)
(* steps; while uvicorn serves it keeps the signal and raises it again     *)
(* when it has stopped serving.  A second signal during the handler is     *)
(* left out.  What the health thread decides is in module Supervisor; here *)
(* it only matters when it runs `docker compose restart`.                  *)
(***************************************************************************)
EXTENDS Integers, FiniteSets

CONSTANT AgentLoops   \* threads; bounds the calls of FleetAgent.run

VARIABLES
    main,       \* the step of run() the main thread is at
    handler,    \* the step of the signal handler on top of it
    stack,      \* external: the containers
    shutdown,   \* _shutdown_event
    health,     \* the health thread
    gaveUp,     \* history: the join of the health thread timed out
    early,      \* history: the signal came before the server was running
    agentStop,  \* FleetAgent._stop_event
    agent,      \* FleetAgent._thread
    loops,      \* the agent's loops that are alive
    stale       \* history: the loops a stop has given up

controllerVars == <<main, handler, stack, shutdown, health, gaveUp, early>>
agentVars == <<agentStop, agent, loops, stale>>
lifeVars == <<controllerVars, agentVars>>

LifeInit ==
    /\ main = "compose up" /\ handler = "none" /\ health = "none"
    /\ stack \in {"down", "up"}
    /\ shutdown = FALSE /\ gaveUp = FALSE /\ early = FALSE
    /\ agentStop = FALSE /\ agent = 0 /\ loops = {} /\ stale = {}

----------------------------------------------------------------------------
(* run(): one action for each step, none of them while a handler runs.     *)

MainIsAt(step) == main = step /\ handler = "none"

\* The command may fail, which is logged; after 120 s TimeoutExpired ends the
\* process.
StartStack ==
    /\ MainIsAt("compose up")
    /\ \/ main' = "discover" /\ stack' \in {stack, "up"}
       \/ main' = "exited" /\ stack' \in {stack, "up"} /\ health = "none"
    /\ UNCHANGED <<handler, shutdown, health, gaveUp, early, agentVars>>

\* _register_providers and run_discovery; whatever they raise is logged.
RegisterAndDiscover ==
    /\ MainIsAt("discover") /\ main' = "start threads"
    /\ UNCHANGED <<handler, stack, shutdown, health, gaveUp, early, agentVars>>

\* start_health_checks and, without a usable certificate, sys.exit: the health
\* thread is a daemon.
StartThreads ==
    /\ MainIsAt("start threads")
    /\ \/ main' = "serve" /\ health' = "check"
       \/ main' = "exited" /\ health' = "none"
    /\ UNCHANGED <<handler, stack, shutdown, gaveUp, early, agentVars>>

\* The server has been stopped and raised the signal again, or run() ends.
Exit ==
    /\ MainIsAt("served") /\ main' = "exited"
    /\ health' = "none"
    /\ UNCHANGED <<handler, stack, shutdown, gaveUp, early, agentVars>>

----------------------------------------------------------------------------
(* SIGTERM or SIGINT.                                                      *)

\* Faulty: the stack is stopped before the health checks.
FirstStepFaulty == "compose down"

\* shutdown(): stop_health_checks, then stop_stack.
FirstStep == "join"

Signal ==
    /\ MainIsAt("compose up") \/ MainIsAt("discover") \/ MainIsAt("start threads")
         \/ MainIsAt("serve")
    /\ ~shutdown
    /\ main' = IF main = "serve" THEN "served" ELSE main
    /\ early' = (main # "serve")
    /\ handler' = FirstStep /\ shutdown' = TRUE
    /\ UNCHANGED <<stack, health, gaveUp, agentVars>>

\* stop_health_checks: join(timeout=10).
Join ==
    /\ handler = "join" /\ handler' = "compose down"
    /\ gaveUp' = (health # "none")
    /\ UNCHANGED <<main, stack, shutdown, health, early, agentVars>>

\* stop_stack.  A command that fails is logged; a timeout leaves the handler and
\* run() as an exception, which only the discovery catches.
StopStack ==
    /\ handler = "compose down" /\ handler' = "none"
    /\ stack' \in {"down", "failed"}
    /\ main' \in {main} \cup {"exited"}
    /\ health' = IF main' = "exited" THEN "none" ELSE health
    /\ UNCHANGED <<shutdown, gaveUp, early, agentVars>>

----------------------------------------------------------------------------
(* The health thread.                                                      *)

\* The event is looked at between two rounds only.
HealthRound ==
    /\ health = "check"
    /\ health' \in IF shutdown THEN {"none"} ELSE {"check", "restart"}
    /\ UNCHANGED <<main, handler, stack, shutdown, gaveUp, early, agentVars>>

\* restart_service: the command lasts up to 120 s; of the containers it finds at
\* its end it starts one.
HealthRestart ==
    /\ health = "restart" /\ health' = "check"
    /\ stack' \in {stack, "up"}
    /\ UNCHANGED <<main, handler, shutdown, gaveUp, early, agentVars>>

----------------------------------------------------------------------------
(* FleetAgent.run and stop.                                                *)

\* Faulty: run does not ask whether the thread is alive.
AgentMayStart == TRUE

\* self._thread is None or not alive
AgentIsFree == agent \notin loops

AgentRun(t) ==
    /\ AgentIsFree /\ t \notin loops \cup stale \cup {agent}
    /\ agentStop' = FALSE /\ agent' = t /\ loops' = loops \cup {t}
    /\ UNCHANGED <<controllerVars, stale>>

\* stop() waits for 5 s and forgets the thread, alive or not.
AgentStop ==
    /\ agentStop' = TRUE /\ agent' = 0
    /\ \/ agent # 0 /\ loops' = loops \ {agent} /\ UNCHANGED stale
       \/ stale' = stale \cup ({agent} \cap loops) /\ UNCHANGED loops
    /\ UNCHANGED controllerVars

\* A loop looks at the event that all of them share, after a call of up to 10 s.
AgentLoopEnds(t) ==
    /\ t \in loops /\ agentStop /\ loops' = loops \ {t}
    /\ UNCHANGED <<controllerVars, agentStop, agent, stale>>

\* The process is started again.
Reboot ==
    /\ main = "exited"
    /\ main' = "compose up" /\ stack' \in {"down", stack} \ {"failed"}
    /\ shutdown' = FALSE /\ gaveUp' = FALSE /\ early' = FALSE
    /\ UNCHANGED <<handler, health, agentVars>>

LifeNext ==
    \/ StartStack \/ RegisterAndDiscover \/ StartThreads \/ Exit \/ Reboot
    \/ Signal \/ Join \/ StopStack
    \/ HealthRound \/ HealthRestart
    \/ AgentStop \/ \E t \in AgentLoops : AgentRun(t) \/ AgentLoopEnds(t)

LifeSpec == LifeInit /\ [][LifeNext]_lifeVars

----------------------------------------------------------------------------
\* Every variable stays in its type.
LifeTypeOK ==
    /\ main \in {"compose up", "discover", "start threads", "serve", "served", "exited"}
    /\ handler \in {"none", "join", "compose down"}
    /\ stack \in {"down", "up", "failed"} /\ health \in {"none", "check", "restart"}
    /\ loops \cup stale \subseteq AgentLoops /\ agent \in AgentLoops \cup {0}

\* Once a shutdown is over the containers stay down, although the health thread
\* was in the middle of a round when the signal came: the cases in which they do
\* not are a restart of more than 10 s, a `compose down` that failed, and a
\* signal during the start, after which run() goes on as if nothing had happened.
StackStaysDown ==
    shutdown /\ handler = "none" /\ ~gaveUp /\ ~early => stack \in {"down", "failed"}

\* Two loops send heartbeats for one device only when a stop has given up waiting
\* for the first.
OneAgentLoop == Cardinality(loops \ stale) <= 1

\* main.py, shutdown: "Graceful shutdown: stop health checks, stop stack, exit."
\* No controller that was told to shut down goes on to serve.
ShutdownExits == [][~(shutdown /\ main # "serve" /\ main' = "serve")]_lifeVars
=============================================================================
