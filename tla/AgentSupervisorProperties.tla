--------------------- MODULE AgentSupervisorProperties ---------------------
(* What the supervisor of module AgentSupervisor must keep. *)
EXTENDS AgentSupervisor

ControlTyped ==
  /\ shouldRun \in BOOLEAN /\ restartImmediately \in BOOLEAN
  /\ retry \in {"none", "sleeping"} /\ networkRestart \in BOOLEAN

AgentsTyped ==
  /\ agents \in Seq(AgentProcess)
  /\ process \in 0..Len(agents) /\ attempts \in 0..MaxLaunches

ShownTyped == status \in Statuses /\ menu \in Menu /\ stale \in BOOLEAN

NetworkTyped ==
  /\ networkAvailable \in BOOLEAN /\ networkObserved \in BOOLEAN
  /\ connectivity \in BOOLEAN /\ pathChanges \in 0..MaxPathChanges
  /\ pathUpdates \in Seq(BOOLEAN)

(* Every variable of the supervisor keeps its type; no retry that is over  *)
(* is still held.                                                          *)
TypeOK == ControlTyped /\ AgentsTyped /\ ShownTyped /\ NetworkTyped

(* Two agents never publish the lobbies at the same time: however the      *)
(* user's restarts, retries, network restarts and ends fall together, a    *)
(* new agent is launched only after the old one has ended.                 *)
OneAgent == \A p, q \in DOMAIN agents : Alive(p) /\ Alive(q) => p = q

(* The application never waits for nothing: while the network is there, an *)
(* agent is supervised or a task that will launch one is sleeping.         *)
NeverStranded ==
  shouldRun /\ networkAvailable =>
    process # 0 \/ retry = "sleeping" \/ networkRestart

(* Connected is shown for an agent that is ready and whose end has not     *)
(* been handled.                                                           *)
ConnectedMeansReady ==
  status = "connected" /\ shouldRun => process # 0 /\ agents[process].ready

(* Nothing that was still on its way when the application stopped launches *)
(* an agent that nobody supervises.                                        *)
StopIsFinal ==
  [][attempts > 0 /\ ~shouldRun => Len(agents') = Len(agents) /\ process' = 0]_vars

(* Once an agent's lines are read, what the menu shows is its newest       *)
(* session, and no session that has ended: lines of older connections,     *)
(* which run beside it, neither replace nor erase it.                      *)
MenuFollowsNewest ==
  process # 0 /\ agents[process].life = "running" /\ agents[process].output = <<>> =>
    LET sessions == agents[process].sessions IN
    /\ menu.active # 0 =>
         /\ sessions[menu.active] \in {"captured", "joined"}
         /\ menu.joined = (sessions[menu.active] = "joined")
    /\ \A c \in Connections :
         /\ sessions[c] \in {"captured", "joined"}
         /\ \A d \in Connections : d > c => sessions[d] \in {"none", "open"}
         => menu.active = c

(* A lobby session that the menu shows is one of the agent that is         *)
(* supervised, as development-plan.md:156 has it: `un task vechi nu poate  *)
(* lasa sau sterge o stare falsa in menu bar'.                             *)
NoStaleLobby ==
  menu.active # 0 /\ shouldRun =>
    process # 0 /\ agents[process].sessions[menu.active] \notin {"none", "open"}

(* What the user reads is true of the agent that runs now, in whatever     *)
(* order the lines and ends of several agents and connections, restarts    *)
(* and network changes are handled, unless a line of an agent that is gone *)
(* changed it; and then every launch, restart, loss of the network and end *)
(* makes it true again.                                                    *)
ShownIsTrue == ~stale => ConnectedMeansReady /\ MenuFollowsNewest /\ NoStaleLobby

(* An application that has the network comes back: the agent is launched   *)
(* again after any end, as far as launches go.                             *)
AgentComesBack ==
  shouldRun /\ connectivity /\ process = 0 ~>
    process # 0 \/ ~shouldRun \/ ~connectivity \/ attempts = MaxLaunches
=============================================================================
