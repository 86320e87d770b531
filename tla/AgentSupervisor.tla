-------------------------- MODULE AgentSupervisor --------------------------
(***************************************************************************)
(* The macOS application's supervisor of the agent process,                *)
(* apps/strajer-macos/Sources/AgentController.swift: it launches the       *)
(* agent, launches it again after it ended, restarts it when the user asks *)
(* for it or the network changed, and shows its state and its newest lobby *)
(* session in the menu bar.                                                *)
(*                                                                         *)
(* The controller runs on the main actor: a handler is one step.  What     *)
(* comes from elsewhere (a line the agent printed, its end, a path update, *)
(* a sleep that is over) is handled some time after it happened, and the   *)
(* lines, the ends and the updates in no order among themselves: a line of *)
(* an agent may be handled after its end and after the next launch.  A     *)
(* cancelled task does nothing when its sleep ends, so cancelling one      *)
(* forgets it.                                                             *)
(*                                                                         *)
(* Time is abstracted: a sleep ends at any moment, so the delay of a retry *)
(* and the count of failures it is computed from are left out.             *)
(***************************************************************************)
EXTENDS Integers, Sequences

CONSTANTS
  MaxLaunches,     \* bound: launches attempted
  MaxConnections,  \* bound: Warcraft connections of one agent
  MaxPathChanges   \* bound: changes of the network path

ASSUME SupervisorAssumption ==
  /\ MaxLaunches \in Nat
  /\ MaxConnections \in Nat
  /\ MaxPathChanges \in Nat

VARIABLES
  shouldRun,
  process,             \* the agent that is supervised, 0 for nil
  restartImmediately,
  retry,               \* restartTask: "none", "sleeping", or "done"
  networkRestart,      \* networkRestartTask is sleeping
  networkAvailable,
  networkObserved,     \* networkPathObserved
  status,
  menu,                \* lobbyLifecycle and lobbyStatusMessage
  stale,               \* history: a line of an agent that is gone changed the
                       \* status or the menu since they were last reset
  attempts,            \* launches attempted
  agents,              \* the agents launched, in order
  connectivity,        \* whether the path is satisfied
  pathChanges,
  pathUpdates          \* path updates on their way to the main actor

controlVars == <<shouldRun, process, restartImmediately, retry, networkRestart>>
networkVars == <<networkAvailable, networkObserved>>
pathVars == <<connectivity, pathChanges, pathUpdates>>
shownVars == <<status, menu, stale>>
vars == <<controlVars, networkVars, shownVars, attempts, agents, pathVars>>

Statuses == {"connecting", "connected", "reconnecting", "unavailable"}
Connections == 1..MaxConnections
SessionStages == {"none", "open", "captured", "joined", "ended"}

(* The lines of the agent that the controller decodes. *)
Events ==
  [type: {"ready"}]
    \cup [type: {"captured", "joined"}, connection: Connections]
    \cup [type: {"ended"}, connection: Connections, error: BOOLEAN]

(* An agent runs, is told to terminate, ends well or badly, and is gone    *)
(* once its end was handled.                                               *)
Lives == {"running", "signalled", "clean", "failed", "gone"}

AgentProcess ==
  [life: Lives, ready: BOOLEAN, sessions: [Connections -> SessionStages],
   output: Seq(Events)]

Menu ==
  [active: 0..MaxConnections, captured: BOOLEAN, joined: BOOLEAN, notice: BOOLEAN]

NewAgent ==
  [life |-> "running", ready |-> FALSE,
   sessions |-> [c \in Connections |-> "none"], output |-> <<>>]

NoLobby == [active |-> 0, captured |-> FALSE, joined |-> FALSE, notice |-> FALSE]

Alive(p) == agents[p].life \in {"running", "signalled"}
Ended(p) == agents[p].life \in {"clean", "failed"}

(* process.terminate(): a process that has ended already ignores it. *)
Terminate(p) ==
  [agents EXCEPT ![p].life = IF @ = "running" THEN "signalled" ELSE @]

----------------------------------------------------------------------------
(* Launching and retrying.  `task' is the retry that is due when the       *)
(* handler gets here, most have cancelled it by then, and `known' are the  *)
(* agents as the handler leaves them.                                      *)

(* scheduleRestart's guard; all its callers have made sure of shouldRun.   *)
NeedsRetry(task) == task = "none" /\ networkAvailable

ScheduleRestart(task) ==
  \/ /\ NeedsRetry(task)
     /\ retry' = "sleeping"
     /\ status' = "reconnecting"
  \/ /\ ~NeedsRetry(task)
     /\ retry' = task
     /\ status' = "unavailable"

LaunchSucceeds(task, known) ==
  /\ process' = Len(known) + 1
  /\ agents' = Append(known, NewAgent)
  /\ retry' = task
  /\ status' = "connecting"

LaunchFails(task, known) ==
  /\ process' = 0
  /\ agents' = known
  /\ ScheduleRestart(task)

(* resetLobbyLifecycle; its callers set the status too. *)
ResetLobby == menu' = NoLobby /\ stale' = FALSE

(* launchAgent *)
Launch(task, known) ==
  /\ attempts < MaxLaunches
  /\ attempts' = attempts + 1
  /\ ResetLobby
  /\ LaunchSucceeds(task, known) \/ LaunchFails(task, known)

----------------------------------------------------------------------------
(* The user. *)

(* The path monitor's first update follows its start. *)
Start ==
  /\ ~shouldRun /\ attempts = 0
  /\ shouldRun' = TRUE
  /\ pathUpdates' = <<connectivity>>
  /\ Launch("none", agents)
  /\ UNCHANGED <<restartImmediately, networkRestart, networkVars>>
  /\ UNCHANGED <<connectivity, pathChanges>>

WrongCancelled == retry

(* restartTask after its cancellation. *)
Cancelled == "none"

(* restart *)
RestartAgent ==
  \/ /\ process = 0
     /\ Launch(Cancelled, agents)
     /\ UNCHANGED restartImmediately
  \/ /\ process # 0
     /\ agents' = Terminate(process)
     /\ retry' = Cancelled
     /\ restartImmediately' = TRUE
     /\ status' = "connecting"
     /\ ResetLobby
     /\ UNCHANGED <<process, attempts>>

Restart ==
  /\ shouldRun
  /\ RestartAgent
  /\ UNCHANGED <<shouldRun, networkRestart, networkVars, pathVars>>

(* stop, when the application terminates. *)
Stop ==
  /\ shouldRun
  /\ shouldRun' = FALSE
  /\ process' = 0
  /\ agents' = IF process = 0 THEN agents ELSE Terminate(process)
  /\ restartImmediately' = FALSE
  /\ retry' = Cancelled
  /\ networkRestart' = FALSE
  /\ UNCHANGED <<networkVars, shownVars, attempts, pathVars>>

----------------------------------------------------------------------------
(* The end of the agent. *)

(* processDidTerminate for the agent that is supervised. *)
Replace(life, known) ==
  \/ /\ ~networkAvailable
     /\ process' = 0 /\ agents' = known
     /\ status' = "unavailable" /\ ResetLobby
     /\ UNCHANGED <<restartImmediately, retry, attempts>>
  \/ /\ networkAvailable
     /\ restartImmediately \/ life = "clean"
     /\ restartImmediately' = FALSE
     /\ Launch(retry, known)
  \/ /\ networkAvailable
     /\ ~restartImmediately /\ life = "failed"
     /\ process' = 0 /\ agents' = known
     /\ ResetLobby
     /\ ScheduleRestart(retry)
     /\ UNCHANGED <<restartImmediately, attempts>>

(* removePipeHandlers: of what the agent printed, q was read already and   *)
(* is still to be handled; the rest is never read.                         *)
Gone(p, q) == [agents EXCEPT ![p].life = "gone", ![p].output = q]

ProcessDidTerminate(p) ==
  /\ Ended(p)
  /\ \/ /\ process = p
        /\ \E k \in 0..Len(agents[p].output) :
             Replace(agents[p].life, Gone(p, SubSeq(agents[p].output, 1, k)))
     \/ /\ process # p
        /\ agents' = Gone(p, agents[p].output)
        /\ UNCHANGED <<process, restartImmediately, retry, shownVars, attempts>>
  /\ UNCHANGED <<shouldRun, networkRestart, networkVars, pathVars>>

WrongRetryDone == "done"

(* restartTask once its sleep is over. *)
RetryDone == "none"

RetryFires ==
  /\ retry = "sleeping"
  /\ Launch(RetryDone, agents)
  /\ UNCHANGED <<shouldRun, restartImmediately, networkRestart, networkVars, pathVars>>

----------------------------------------------------------------------------
(* The network. *)

WrongObserved(available) == networkObserved \/ available
Observed(available) == TRUE

(* handleNetworkPathUpdate *)
NetworkPathUpdate ==
  LET available == Head(pathUpdates) IN
  /\ pathUpdates # <<>>
  /\ pathUpdates' = Tail(pathUpdates)
  /\ networkObserved' = Observed(available)
  /\ networkAvailable' = available
  /\ \/ /\ shouldRun /\ ~available
        /\ retry' = Cancelled
        /\ networkRestart' = FALSE
        /\ restartImmediately' = FALSE
        /\ status' = "unavailable" /\ ResetLobby
        /\ agents' = IF process = 0 THEN agents ELSE Terminate(process)
     \/ /\ ~shouldRun \/ available
        /\ networkRestart' = (networkRestart \/ (shouldRun /\ networkObserved))
        /\ UNCHANGED <<retry, restartImmediately, shownVars, agents>>
  /\ UNCHANGED <<shouldRun, process, attempts, connectivity, pathChanges>>

(* The restart that follows a change of the network after a second. *)
NetworkRestart ==
  /\ networkRestart
  /\ networkRestart' = FALSE
  /\ RestartAgent
  /\ UNCHANGED <<shouldRun, networkVars, pathVars>>

----------------------------------------------------------------------------
(* What the agent prints. *)

WrongCaptures(c) == TRUE

(* Connections are numbered in the order they are accepted; an older one   *)
(* than the one that is shown is ignored.                                  *)
Captures(c) == menu.active <= c

Shows(c) == menu.active = c

(* The menu after a line of the agent, whichever agent printed it. *)
Displayed(e) ==
  CASE e.type = "captured" /\ Captures(e.connection) ->
         [active |-> e.connection, captured |-> TRUE,
          joined |-> menu.joined /\ Shows(e.connection), notice |-> FALSE]
    [] e.type = "joined" /\ Shows(e.connection) ->
         [menu EXCEPT !.captured = TRUE, !.joined = TRUE, !.notice = FALSE]
    [] e.type = "ended" /\ Shows(e.connection) ->
         [NoLobby EXCEPT !.notice = e.error]
    [] OTHER -> menu

ConsumeLine(p) ==
  LET e == Head(agents[p].output) IN
  /\ agents[p].output # <<>>
  /\ agents' = [agents EXCEPT ![p].output = Tail(@)]
  /\ menu' = Displayed(e)
  /\ status' = IF e.type = "ready" THEN "connected" ELSE status
  /\ stale' = (stale \/ (p # process /\ <<menu', status'>> # <<menu, status>>))
  /\ UNCHANGED <<controlVars, networkVars, attempts, pathVars>>

----------------------------------------------------------------------------
(* The agent and the network path. *)

AgentReady(p) ==
  /\ Alive(p) /\ ~agents[p].ready
  /\ agents' = [agents EXCEPT ![p].ready = TRUE,
                              ![p].output = Append(@, [type |-> "ready"])]
  /\ UNCHANGED <<controlVars, networkVars, shownVars, attempts, pathVars>>

SessionMoves(p, c, from, to, lines) ==
  /\ Alive(p) /\ agents[p].sessions[c] \in from
  /\ agents' = [agents EXCEPT ![p].sessions[c] = to, ![p].output = @ \o lines]
  /\ UNCHANGED <<controlVars, networkVars, shownVars, attempts, pathVars>>

Accept(p, c) ==
  /\ \A d \in 1..(c - 1) : agents[p].sessions[d] # "none"
  /\ SessionMoves(p, c, {"none"}, "open", <<>>)

CaptureJoin(p, c) ==
  SessionMoves(p, c, {"open"}, "captured", <<[type |-> "captured", connection |-> c]>>)

JoinLobby(p, c) ==
  SessionMoves(p, c, {"captured"}, "joined", <<[type |-> "joined", connection |-> c]>>)

EndSession(p, c) ==
  \E error \in BOOLEAN :
    SessionMoves(p, c, {"open", "captured", "joined"}, "ended",
                 <<[type |-> "ended", connection |-> c, error |-> error]>>)

(* The agent ends well when the catalogue changed or its input was closed. *)
AgentEnds(p) ==
  /\ Alive(p)
  /\ \E life \in {"clean", "failed"} : agents' = [agents EXCEPT ![p].life = life]
  /\ UNCHANGED <<controlVars, networkVars, shownVars, attempts, pathVars>>

(* The path changes, and may be as satisfied as before. *)
PathChange ==
  /\ attempts > 0 /\ pathChanges < MaxPathChanges
  /\ pathChanges' = pathChanges + 1
  /\ connectivity' \in BOOLEAN
  /\ pathUpdates' = Append(pathUpdates, connectivity')
  /\ UNCHANGED <<controlVars, networkVars, shownVars, attempts, agents>>

----------------------------------------------------------------------------
Init ==
  /\ shouldRun = FALSE /\ process = 0 /\ restartImmediately = FALSE
  /\ retry = "none" /\ networkRestart = FALSE
  /\ networkAvailable = TRUE /\ networkObserved = FALSE
  /\ status = "connecting" /\ menu = NoLobby /\ stale = FALSE
  /\ attempts = 0 /\ agents = <<>>
  /\ connectivity \in BOOLEAN /\ pathChanges = 0 /\ pathUpdates = <<>>

AgentStep(p) ==
  \/ AgentReady(p)
  \/ AgentEnds(p)
  \/ \E c \in Connections :
       Accept(p, c) \/ CaptureJoin(p, c) \/ JoinLobby(p, c) \/ EndSession(p, c)

Next ==
  \/ Start \/ Restart \/ Stop
  \/ RetryFires \/ NetworkPathUpdate \/ NetworkRestart
  \/ PathChange
  \/ \E p \in DOMAIN agents :
       ProcessDidTerminate(p) \/ ConsumeLine(p) \/ AgentStep(p)

Spec == Init /\ [][Next]_vars
=============================================================================
