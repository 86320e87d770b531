-------------------------- MODULE SupervisorProofs --------------------------
(* Proofs about the agent supervisor of module AgentSupervisor: one agent  *)
(* at a time, never none without a task that launches one, none after the  *)
(* application stopped, and a menu bar that tells what is true of it.      *)
EXTENDS AgentSupervisorProperties, SequenceTheorems, TLAPS

(* An agent that lives is the newest, and none does while a launch is due. *)
LivingInv ==
  /\ \A p \in DOMAIN agents : Alive(p) => p = Len(agents)
  /\ process \in {0, Len(agents)}
  /\ shouldRun /\ process = 0 => \A p \in DOMAIN agents : ~Alive(p)
  /\ attempts = 0 => Len(agents) = 0 /\ ~shouldRun

(* A retry sleeps only while no agent is supervised, and no task of the    *)
(* supervisor survives its stop.                                           *)
TasksInv ==
  /\ retry = "sleeping" => shouldRun /\ process = 0
  /\ networkRestart => shouldRun
  /\ ~shouldRun => process = 0

(* A first path update cannot bring back a network that was never lost.    *)
AvailableInv == ~networkObserved => networkAvailable

SupervisorInv ==
  TypeOK /\ LivingInv /\ TasksInv /\ AvailableInv /\ NeverStranded

(* A line about connection c is still to come after the i-th one. *)
Prints(q, i, type, c) ==
  \E j \in DOMAIN q : j > i /\ q[j].type = type /\ q[j].connection = c

(* What is still to be read of a connection leads up to where its session  *)
(* is now, and nothing is said twice.                                      *)
LineLeads(q, sessions, i) ==
  LET c == q[i].connection IN
  /\ q[i].type = "captured" =>
       /\ ~Prints(q, i, "captured", c)
       /\ \/ sessions[c] = "captured"
          \/ sessions[c] = "joined" /\ Prints(q, i, "joined", c)
          \/ sessions[c] = "ended" /\ Prints(q, i, "ended", c)
  /\ q[i].type = "joined" =>
       \/ sessions[c] = "joined"
       \/ sessions[c] = "ended" /\ Prints(q, i, "ended", c)
  /\ q[i].type = "ended" => sessions[c] = "ended"

LinesLead(q, sessions) == \A i \in DOMAIN q : LineLeads(q, sessions, i)

(* So does what is still to be read of the connection that is shown. *)
ShownLeads(q, sessions, shown) ==
  shown.active # 0 =>
    /\ ~Prints(q, 0, "captured", shown.active)
    /\ \/ sessions[shown.active] = "captured" /\ ~shown.joined
       \/ sessions[shown.active] = "joined" /\ (shown.joined \/ Prints(q, 0, "joined", shown.active))
       \/ sessions[shown.active] = "ended" /\ Prints(q, 0, "ended", shown.active)

(* The newest session is shown, or is about to be. *)
IsNewest(sessions, c) ==
  /\ sessions[c] \in {"captured", "joined"}
  /\ \A d \in Connections : d > c => sessions[d] \in {"none", "open"}

NewestComes(q, sessions, shown) ==
  \A c \in Connections :
    IsNewest(sessions, c) => shown.active = c \/ Prints(q, 0, "captured", c)

ReadyComes(q, ready, shown) ==
  shown = "connected" \/ (\E i \in DOMAIN q : q[i].type = "ready") => ready = TRUE

(* What is shown as far as the agent that is supervised told it: nothing   *)
(* once a line of another one changed it.                                  *)
Told == IF stale THEN NoLobby ELSE menu
ToldStatus == IF stale THEN "connecting" ELSE status

ShownOf(p) ==
  /\ ReadyComes(agents[p].output, agents[p].ready, ToldStatus)
  /\ LinesLead(agents[p].output, agents[p].sessions)
  /\ ShownLeads(agents[p].output, agents[p].sessions, Told)
  /\ ~stale /\ agents[p].life = "running" =>
       NewestComes(agents[p].output, agents[p].sessions, Told)

(* All agents are gone but the one that is supervised. *)
OthersAreGone == \A p \in DOMAIN agents : p # process <=> agents[p].life = "gone"

ShownInv ==
  shouldRun =>
    /\ OthersAreGone
    /\ process = 0 => Told.active = 0 /\ ToldStatus # "connected"
    /\ process # 0 => ShownOf(process)

----------------------------------------------------------------------------
(* What the helpers do to the agents. *)

LEMMA NewAgentTyped == NewAgent \in AgentProcess
<1>1. <<>> \in Seq(Events)
  OBVIOUS
<1> QED
  BY <1>1 DEF NewAgent, AgentProcess, Lives, SessionStages

LEMMA LifeTyped ==
  ASSUME NEW s \in Seq(AgentProcess), NEW p \in DOMAIN s, NEW l \in Lives
  PROVE  LET t == [s EXCEPT ![p].life = l] IN
         /\ t \in Seq(AgentProcess) /\ Len(t) = Len(s) /\ DOMAIN t = DOMAIN s
         /\ t[p].life = l
         /\ \A q \in DOMAIN s : q # p => t[q] = s[q]
<1> DEFINE changed == [s[p] EXCEPT !.life = l]
           t == [s EXCEPT ![p] = changed]
<1>1. s[p] \in AgentProcess /\ DOMAIN s = 1..Len(s)
  BY ElementOfSeq
<1>2. changed \in AgentProcess /\ changed.life = l
  BY <1>1 DEF AgentProcess
<1>3. t \in Seq(AgentProcess) /\ Len(t) = Len(s)
  BY <1>1, <1>2, ExceptSeq
<1>4. [s EXCEPT ![p].life = l] = t
  OBVIOUS
<1> HIDE DEF changed
<1>5. DOMAIN t = DOMAIN s /\ t[p] = changed /\ \A q \in DOMAIN s : q # p => t[q] = s[q]
  OBVIOUS
<1> QED
  BY <1>2, <1>3, <1>4, <1>5

LEMMA PrefixTyped ==
  ASSUME NEW q \in Seq(Events), NEW k \in 0..Len(q)
  PROVE  SubSeq(q, 1, k) \in Seq(Events)
<1>1. \A i \in 1..k : q[i] \in Events
  BY ElementOfSeq
<1> QED
  BY <1>1, SubSeqProperties

LEMMA GoneTyped ==
  ASSUME agents \in Seq(AgentProcess), NEW p \in DOMAIN agents, NEW q \in Seq(Events)
  PROVE  /\ Gone(p, q) \in Seq(AgentProcess) /\ Len(Gone(p, q)) = Len(agents)
         /\ DOMAIN Gone(p, q) = DOMAIN agents
         /\ Gone(p, q)[p].life = "gone" /\ Gone(p, q)[p].output = q
         /\ \A r \in DOMAIN agents : r # p => Gone(p, q)[r] = agents[r]
<1> DEFINE changed == [agents[p] EXCEPT !.life = "gone", !.output = q]
           t == [agents EXCEPT ![p] = changed]
<1>1. agents[p] \in AgentProcess /\ DOMAIN agents = 1..Len(agents)
  BY ElementOfSeq
<1>2. changed \in AgentProcess /\ changed.life = "gone" /\ changed.output = q
  BY <1>1 DEF AgentProcess, Lives
<1>3. t \in Seq(AgentProcess) /\ Len(t) = Len(agents)
  BY <1>1, <1>2, ExceptSeq
<1>4. Gone(p, q) = t
  BY DEF Gone
<1> HIDE DEF changed
<1>5. DOMAIN t = DOMAIN agents /\ t[p] = changed /\ \A r \in DOMAIN agents : r # p => t[r] = agents[r]
  OBVIOUS
<1> QED
  BY <1>2, <1>3, <1>4, <1>5

(* Telling an agent to terminate revives none. *)
LEMMA TerminateTyped ==
  ASSUME agents \in Seq(AgentProcess), NEW p \in DOMAIN agents
  PROVE  /\ Terminate(p) \in Seq(AgentProcess) /\ Len(Terminate(p)) = Len(agents)
         /\ DOMAIN Terminate(p) = DOMAIN agents
         /\ \A q \in DOMAIN agents :
              Terminate(p)[q].life \in {"running", "signalled"} => Alive(q)
<1> DEFINE l == IF agents[p].life = "running" THEN "signalled" ELSE agents[p].life
<1>1. agents[p] \in AgentProcess
  BY ElementOfSeq
<1>2. l \in Lives /\ (l \in {"running", "signalled"} => Alive(p))
  BY <1>1 DEF Lives, AgentProcess, Alive
<1>3. Terminate(p) = [agents EXCEPT ![p].life = l]
  BY DEF Terminate
<1> HIDE DEF l
<1> QED
  BY <1>2, <1>3, LifeTyped DEF Alive

LEMMA ResetTyped == ResetLobby => menu' \in Menu /\ stale' \in BOOLEAN
<1>1. NoLobby \in Menu
  BY SupervisorAssumption DEF NoLobby, Menu, SupervisorAssumption
<1> QED
  BY <1>1, Zenon DEF ResetLobby

LEMMA ShownReset == ResetLobby /\ status' \in Statuses => ShownTyped'
  BY ResetTyped, Zenon DEF ShownTyped

(* A launch, by a handler that has made sure that no agent lives and that  *)
(* no retry sleeps any more.                                               *)
LEMMA LaunchKeeps ==
  ASSUME NEW known \in Seq(AgentProcess),
         \A q \in DOMAIN known : known[q].life \notin {"running", "signalled"},
         attempts \in 0..MaxLaunches, networkAvailable \in BOOLEAN, Launch("none", known)
  PROVE  /\ agents' \in Seq(AgentProcess) /\ process' \in {0, Len(agents')}
         /\ attempts' \in 1..MaxLaunches /\ ShownTyped'
         /\ retry' \in {"none", "sleeping"}
         /\ \A q \in DOMAIN agents' : Alive(q)' => q = Len(agents') /\ process' # 0
         /\ retry' = "sleeping" => process' = 0
         /\ networkAvailable => process' # 0 \/ retry' = "sleeping"
         /\ Len(agents') \in Nat
<1> USE SupervisorAssumption DEF SupervisorAssumption
<1>1. attempts' \in 1..MaxLaunches /\ ResetLobby
  BY DEF Launch
<1>2. CASE LaunchSucceeds("none", known)
  <2>1. /\ agents' \in Seq(AgentProcess) /\ Len(agents') = Len(known) + 1
        /\ \A q \in DOMAIN known : agents'[q] = known[q]
        /\ DOMAIN agents' = 1..(Len(known) + 1) /\ DOMAIN known = 1..Len(known)
    BY <1>2, NewAgentTyped, AppendProperties DEF LaunchSucceeds
  <2>2. process' = Len(agents') /\ process' # 0
    BY <1>2, <2>1 DEF LaunchSucceeds
  <2>3. \A q \in DOMAIN agents' : Alive(q)' => q = Len(agents')
    BY <2>1 DEF Alive
  <2> QED
    BY <1>1, <1>2, <2>1, <2>2, <2>3, ShownReset DEF LaunchSucceeds, Statuses
<1>3. CASE LaunchFails("none", known)
  <2>1. agents' = known /\ process' = 0
    BY <1>3 DEF LaunchFails
  <2>2. /\ retry' \in {"none", "sleeping"} /\ status' \in Statuses
        /\ networkAvailable => retry' = "sleeping"
    BY <1>3 DEF LaunchFails, ScheduleRestart, NeedsRetry, Statuses
  <2> QED
    BY <1>1, <2>1, <2>2, ShownReset DEF Alive
<1> QED
  BY <1>2, <1>3 DEF Launch

----------------------------------------------------------------------------
(* The steps. *)

LEMMA LaunchPreserves ==
  ASSUME SupervisorInv, NEW known \in Seq(AgentProcess),
         \A q \in DOMAIN known : known[q].life \notin {"running", "signalled"},
         Launch("none", known), shouldRun' = TRUE, restartImmediately' \in BOOLEAN,
         networkRestart' \in BOOLEAN, UNCHANGED networkVars, NetworkTyped'
  PROVE  SupervisorInv'
<1> USE SupervisorAssumption DEF SupervisorAssumption
<1>1. attempts \in 0..MaxLaunches /\ networkAvailable \in BOOLEAN
  BY DEF SupervisorInv, TypeOK, AgentsTyped, NetworkTyped
<1>2. /\ agents' \in Seq(AgentProcess) /\ process' \in {0, Len(agents')}
      /\ attempts' \in 1..MaxLaunches /\ ShownTyped'
      /\ retry' \in {"none", "sleeping"}
      /\ \A q \in DOMAIN agents' : Alive(q)' => q = Len(agents') /\ process' # 0
      /\ retry' = "sleeping" => process' = 0
      /\ networkAvailable => process' # 0 \/ retry' = "sleeping"
      /\ Len(agents') \in Nat
  BY <1>1, LaunchKeeps
<1>3. networkAvailable' = networkAvailable /\ networkObserved' = networkObserved
  BY DEF networkVars
<1>4. ControlTyped' /\ ShownTyped'
  BY <1>2 DEF ControlTyped
<1>5. AgentsTyped'
  BY <1>2 DEF AgentsTyped
<1>6. LivingInv'
  BY <1>2 DEF LivingInv
<1>7. TasksInv'
  BY <1>2 DEF TasksInv
<1>8. AvailableInv' /\ NeverStranded'
  BY <1>2, <1>3 DEF SupervisorInv, AvailableInv, NeverStranded
<1> QED
  BY <1>4, <1>5, <1>6, <1>7, <1>8 DEF SupervisorInv, TypeOK

LEMMA InitKept == Init => SupervisorInv
<1> SUFFICES ASSUME Init PROVE SupervisorInv
  OBVIOUS
<1> USE SupervisorAssumption DEF SupervisorAssumption
<1>1. agents = <<>> /\ Len(agents) = 0 /\ DOMAIN agents = {}
  BY DEF Init
<1>2. ControlTyped /\ AvailableInv /\ NeverStranded /\ TasksInv
  BY DEF Init, ControlTyped, AvailableInv, NeverStranded, TasksInv
<1>3. AgentsTyped
  BY <1>1 DEF Init, AgentsTyped
<1>4. ShownTyped
  <2>1. status \in Statuses /\ menu \in Menu
    BY DEF Init, Statuses, Menu, NoLobby
  <2>2. stale \in BOOLEAN
    BY Zenon DEF Init
  <2> QED
    BY <2>1, <2>2, Zenon DEF ShownTyped
<1>5. NetworkTyped
  <2>1. networkAvailable \in BOOLEAN /\ networkObserved \in BOOLEAN /\ connectivity \in BOOLEAN
    BY Zenon DEF Init
  <2> QED
    BY <2>1 DEF Init, NetworkTyped
<1>6. LivingInv
  BY <1>1 DEF Init, LivingInv
<1> QED
  BY <1>2, <1>3, <1>4, <1>5, <1>6 DEF SupervisorInv, TypeOK

LEMMA StartKeeps == SupervisorInv /\ Start => SupervisorInv'
<1> SUFFICES ASSUME SupervisorInv, Start PROVE SupervisorInv'
  OBVIOUS
<1>1. agents \in Seq(AgentProcess) /\ DOMAIN agents = {}
  BY DEF SupervisorInv, TypeOK, AgentsTyped, LivingInv, Start
<1>2. restartImmediately' \in BOOLEAN /\ networkRestart' \in BOOLEAN
  BY Zenon DEF SupervisorInv, TypeOK, ControlTyped, Start
<1>3. NetworkTyped'
  <2>1. connectivity \in BOOLEAN
    BY Zenon DEF SupervisorInv, TypeOK, NetworkTyped
  <2>2. <<connectivity>> \in Seq(BOOLEAN)
    BY <2>1
  <2>3. pathUpdates' \in Seq(BOOLEAN)
    BY <2>2, Zenon DEF Start
  <2>4. /\ networkAvailable' \in BOOLEAN /\ networkObserved' \in BOOLEAN
        /\ connectivity' \in BOOLEAN
    BY Zenon DEF SupervisorInv, TypeOK, NetworkTyped, Start, networkVars
  <2>5. pathChanges' \in 0..MaxPathChanges
    BY DEF SupervisorInv, TypeOK, NetworkTyped, Start
  <2> QED
    BY <2>3, <2>4, <2>5 DEF NetworkTyped
<1> QED
  BY <1>1, <1>2, <1>3, LaunchPreserves DEF Start

LEMMA ShownUnchanged == ShownTyped /\ UNCHANGED shownVars => ShownTyped'
  BY Zenon DEF ShownTyped, shownVars

LEMMA NetworkUnchanged ==
  NetworkTyped /\ UNCHANGED networkVars /\ UNCHANGED pathVars => NetworkTyped'
  BY DEF NetworkTyped, networkVars, pathVars

(* restart, by the user and by a change of the network. *)
LEMMA RestartAgentKeeps ==
  ASSUME SupervisorInv, shouldRun, RestartAgent, UNCHANGED <<shouldRun, networkVars, pathVars>>,
         networkRestart' \in BOOLEAN
  PROVE  SupervisorInv'
<1>1. NetworkTyped'
  BY NetworkUnchanged DEF SupervisorInv, TypeOK
<1>2. CASE process = 0
  <2>1. \A q \in DOMAIN agents : agents[q].life \notin {"running", "signalled"}
    BY <1>2 DEF SupervisorInv, LivingInv, Alive
  <2>2. restartImmediately \in BOOLEAN /\ shouldRun' = TRUE
    BY Zenon DEF SupervisorInv, TypeOK, ControlTyped
  <2>3. Launch("none", agents) /\ restartImmediately' = restartImmediately
    BY <1>2 DEF RestartAgent, Cancelled
  <2>4. agents \in Seq(AgentProcess)
    BY DEF SupervisorInv, TypeOK, AgentsTyped
  <2> QED
    BY <1>1, <2>1, <2>2, <2>3, <2>4, LaunchPreserves
<1>3. CASE process # 0
  <2>1. /\ agents' = Terminate(process) /\ retry' = "none" /\ restartImmediately' = TRUE
        /\ status' = "connecting" /\ ResetLobby
        /\ process' = process /\ attempts' = attempts
    BY <1>3 DEF RestartAgent, Cancelled
  <2>2. agents \in Seq(AgentProcess) /\ process \in DOMAIN agents /\ Len(agents) \in Nat
    BY <1>3 DEF SupervisorInv, TypeOK, AgentsTyped
  <2>3. /\ agents' \in Seq(AgentProcess) /\ Len(agents') = Len(agents)
        /\ DOMAIN agents' = DOMAIN agents
        /\ \A q \in DOMAIN agents' : Alive(q)' => Alive(q)
    BY <2>1, <2>2, TerminateTyped DEF Alive
  <2>4. ControlTyped'
    BY <2>1 DEF SupervisorInv, TypeOK, ControlTyped
  <2>5. AgentsTyped'
    BY <2>1, <2>3 DEF SupervisorInv, TypeOK, AgentsTyped
  <2>6. ShownTyped'
    BY <2>1, ShownReset DEF Statuses
  <2>7. LivingInv'
    BY <1>3, <2>1, <2>2, <2>3 DEF SupervisorInv, LivingInv
  <2>8. TasksInv' /\ NeverStranded'
    BY <1>3, <2>1 DEF SupervisorInv, TasksInv, NeverStranded
  <2>9. AvailableInv'
    BY DEF SupervisorInv, AvailableInv, networkVars
  <2> QED
    BY <1>1, <2>4, <2>5, <2>6, <2>7, <2>8, <2>9 DEF SupervisorInv, TypeOK
<1> QED
  BY <1>2, <1>3

(* A network path update launches nothing, and a network that comes back   *)
(* has a restart of its own.                                               *)
LEMMA NetworkPathUpdateKeeps == SupervisorInv /\ NetworkPathUpdate => SupervisorInv'
<1> SUFFICES ASSUME SupervisorInv, NetworkPathUpdate PROVE SupervisorInv'
  OBVIOUS
<1> DEFINE available == Head(pathUpdates)
<1>1. available \in BOOLEAN /\ pathUpdates' \in Seq(BOOLEAN)
  <2>1. pathUpdates \in Seq(BOOLEAN) /\ pathUpdates # <<>>
    BY DEF SupervisorInv, TypeOK, NetworkTyped, NetworkPathUpdate
  <2> QED
    BY <2>1, HeadTailProperties DEF NetworkPathUpdate
<1>2. /\ networkAvailable' = available /\ networkObserved' = TRUE
      /\ UNCHANGED <<shouldRun, process, attempts, connectivity, pathChanges>>
  BY DEF NetworkPathUpdate, Observed
<1>3. agents \in Seq(AgentProcess) /\ Len(agents) \in Nat /\ process \in 0..Len(agents)
  BY DEF SupervisorInv, TypeOK, AgentsTyped
<1>4. NetworkTyped' /\ AvailableInv'
  <2>1. networkAvailable' \in BOOLEAN /\ networkObserved' \in BOOLEAN /\ connectivity' \in BOOLEAN
    BY <1>1, <1>2, Zenon DEF SupervisorInv, TypeOK, NetworkTyped
  <2>2. pathChanges' \in 0..MaxPathChanges
    BY <1>2 DEF SupervisorInv, TypeOK, NetworkTyped
  <2>3. AvailableInv'
    BY <1>2, Zenon DEF AvailableInv
  <2> QED
    BY <1>1, <2>1, <2>2, <2>3 DEF NetworkTyped
<1>5. /\ agents' \in Seq(AgentProcess) /\ Len(agents') = Len(agents)
      /\ DOMAIN agents' = DOMAIN agents /\ \A q \in DOMAIN agents' : Alive(q)' => Alive(q)
  <2>1. CASE agents' = agents
    BY <1>3, <2>1 DEF Alive
  <2>2. CASE process # 0 /\ agents' = Terminate(process)
    BY <1>3, <2>2, TerminateTyped DEF Alive
  <2> QED
    BY <2>1, <2>2 DEF NetworkPathUpdate
<1>6. AgentsTyped'
  BY <1>2, <1>5 DEF SupervisorInv, TypeOK, AgentsTyped
<1>7. LivingInv'
  BY <1>2, <1>5, <1>3 DEF SupervisorInv, LivingInv
<1> HIDE DEF available
<1>8. CASE shouldRun /\ ~available
  <2>1. /\ retry' = "none" /\ networkRestart' = FALSE /\ restartImmediately' = FALSE
        /\ status' = "unavailable" /\ ResetLobby
    BY <1>8 DEF NetworkPathUpdate, Cancelled, available
  <2>2. ControlTyped'
    BY <1>2, <2>1, Zenon DEF SupervisorInv, TypeOK, ControlTyped
  <2>3. ShownTyped'
    BY <2>1, ShownReset DEF Statuses
  <2>4. TasksInv' /\ NeverStranded'
    BY <1>2, <1>8, <2>1 DEF SupervisorInv, TasksInv, NeverStranded
  <2> QED
    BY <1>4, <1>6, <1>7, <2>2, <2>3, <2>4 DEF SupervisorInv, TypeOK
<1>9. CASE ~shouldRun \/ available
  <2>1. /\ networkRestart' = (networkRestart \/ (shouldRun /\ networkObserved))
        /\ UNCHANGED <<retry, restartImmediately, shownVars>>
    BY <1>9, Zenon DEF NetworkPathUpdate, available
  <2>2. ControlTyped'
    <3>1. networkRestart' \in BOOLEAN
      BY <2>1
    <3> QED
      BY <1>2, <2>1, <3>1, Zenon DEF SupervisorInv, TypeOK, ControlTyped
  <2>3. ShownTyped'
    BY <2>1, ShownUnchanged DEF SupervisorInv, TypeOK
  <2>4. TasksInv'
    BY <1>2, <2>1 DEF SupervisorInv, TasksInv
  <2>5. NeverStranded'
    BY <1>2, <2>1 DEF SupervisorInv, AvailableInv, NeverStranded
  <2> QED
    BY <1>4, <1>6, <1>7, <2>2, <2>3, <2>4, <2>5 DEF SupervisorInv, TypeOK
<1> QED
  BY <1>8, <1>9, <1>1

LEMMA StopKeeps == SupervisorInv /\ Stop => SupervisorInv'
<1> SUFFICES ASSUME SupervisorInv, Stop PROVE SupervisorInv'
  OBVIOUS
<1>1. /\ shouldRun' = FALSE /\ process' = 0 /\ restartImmediately' = FALSE
      /\ retry' = "none" /\ networkRestart' = FALSE
      /\ UNCHANGED <<networkVars, shownVars, attempts, pathVars>>
  BY DEF Stop, Cancelled
<1>2. agents \in Seq(AgentProcess) /\ Len(agents) \in Nat /\ process \in 0..Len(agents)
  BY DEF SupervisorInv, TypeOK, AgentsTyped
<1>3. /\ agents' \in Seq(AgentProcess) /\ Len(agents') = Len(agents)
      /\ DOMAIN agents' = DOMAIN agents /\ \A q \in DOMAIN agents' : Alive(q)' => Alive(q)
  <2>1. CASE agents' = agents
    BY <1>2, <2>1 DEF Alive
  <2>2. CASE process # 0 /\ agents' = Terminate(process)
    BY <1>2, <2>2, TerminateTyped DEF Alive
  <2> QED
    BY <2>1, <2>2 DEF Stop
<1>4. ControlTyped' /\ AgentsTyped'
  <2>1. ControlTyped'
    BY <1>1, Zenon DEF ControlTyped
  <2> QED
    BY <1>1, <1>2, <1>3, <2>1 DEF SupervisorInv, TypeOK, AgentsTyped
<1>5. ShownTyped'
  BY <1>1, ShownUnchanged DEF SupervisorInv, TypeOK
<1>6. NetworkTyped'
  BY <1>1, NetworkUnchanged DEF SupervisorInv, TypeOK
<1>7. LivingInv'
  BY <1>1, <1>2, <1>3 DEF SupervisorInv, LivingInv
<1>8. TasksInv' /\ NeverStranded'
  BY <1>1 DEF TasksInv, NeverStranded
<1>9. AvailableInv'
  BY <1>1 DEF SupervisorInv, AvailableInv, networkVars
<1> QED
  BY <1>4, <1>5, <1>6, <1>7, <1>8, <1>9 DEF SupervisorInv, TypeOK

LEMMA RetryFiresKeeps == SupervisorInv /\ RetryFires => SupervisorInv'
<1> SUFFICES ASSUME SupervisorInv, RetryFires PROVE SupervisorInv'
  OBVIOUS
<1>1. shouldRun /\ process = 0
  BY DEF RetryFires, SupervisorInv, TasksInv
<1>2. Launch("none", agents) /\ UNCHANGED networkVars
  BY DEF RetryFires, RetryDone
<1>3. \A q \in DOMAIN agents : agents[q].life \notin {"running", "signalled"}
  BY <1>1 DEF SupervisorInv, LivingInv, Alive
<1>4. /\ shouldRun' = TRUE /\ restartImmediately' \in BOOLEAN
      /\ networkRestart' \in BOOLEAN
  BY <1>1, Zenon DEF RetryFires, SupervisorInv, TypeOK, ControlTyped
<1>5. NetworkTyped'
  BY NetworkUnchanged DEF SupervisorInv, TypeOK, RetryFires
<1>6. agents \in Seq(AgentProcess)
  BY DEF SupervisorInv, TypeOK, AgentsTyped
<1> QED
  BY <1>2, <1>3, <1>4, <1>5, <1>6, LaunchPreserves

LEMMA RestartsKeep == SupervisorInv /\ (Restart \/ NetworkRestart) => SupervisorInv'
<1> SUFFICES ASSUME SupervisorInv, Restart \/ NetworkRestart PROVE SupervisorInv'
  OBVIOUS
<1>1. /\ shouldRun /\ RestartAgent /\ UNCHANGED <<shouldRun, networkVars, pathVars>>
      /\ networkRestart' = networkRestart \/ networkRestart' = FALSE
  BY DEF Restart, NetworkRestart, SupervisorInv, TasksInv
<1>2. networkRestart' \in BOOLEAN
  BY <1>1, Zenon DEF SupervisorInv, TypeOK, ControlTyped
<1> QED
  BY <1>1, <1>2, RestartAgentKeeps

(* The end of an agent: only that of the supervised one launches another,  *)
(* which by then is the only one that can have lived.                      *)
LEMMA EndKeeps ==
  ASSUME SupervisorInv, NEW p \in DOMAIN agents, Ended(p), NEW q \in Seq(Events),
         UNCHANGED <<shouldRun, networkRestart, networkVars, pathVars>>,
         \/ process = p /\ Replace(agents[p].life, Gone(p, q))
         \/ /\ process # p /\ agents' = Gone(p, q)
            /\ UNCHANGED <<process, restartImmediately, retry, shownVars, attempts>>
  PROVE  SupervisorInv'
<1> DEFINE known == Gone(p, q)
<1>1. /\ agents \in Seq(AgentProcess) /\ Len(agents) \in Nat
      /\ process \in 0..Len(agents) /\ DOMAIN agents = 1..Len(agents)
  BY DEF SupervisorInv, TypeOK, AgentsTyped
<1>2. /\ known \in Seq(AgentProcess) /\ Len(known) = Len(agents)
      /\ DOMAIN known = DOMAIN agents /\ known[p].life = "gone"
      /\ \A r \in DOMAIN agents : r # p => known[r] = agents[r]
  BY <1>1, GoneTyped
<1>3. \A r \in DOMAIN known :
        known[r].life \in {"running", "signalled"} => Alive(r) /\ r # p
  BY <1>2 DEF Alive
<1>4. UNCHANGED <<shouldRun, networkRestart, networkVars, pathVars>>
  OBVIOUS
<1>5. NetworkTyped'
  BY <1>4, NetworkUnchanged DEF SupervisorInv, TypeOK
<1>6. AvailableInv'
  BY <1>4 DEF SupervisorInv, AvailableInv, networkVars
<1>7. CASE process # p /\ agents' = known /\
           UNCHANGED <<process, restartImmediately, retry, shownVars, attempts>>
  <2>1. ControlTyped' /\ ShownTyped'
    BY <1>4, <1>7, ShownUnchanged DEF SupervisorInv, TypeOK, ControlTyped
  <2>2. AgentsTyped'
    BY <1>7, <1>2 DEF SupervisorInv, TypeOK, AgentsTyped
  <2>3. LivingInv'
    <3> HIDE DEF known
    <3>1. \A r \in DOMAIN agents' : Alive(r)' => Alive(r)
      BY <1>3, <1>7 DEF Alive
    <3>2. /\ Len(agents') = Len(agents) /\ DOMAIN agents' = DOMAIN agents
          /\ process' = process /\ attempts' = attempts
      BY <1>2, <1>7
    <3>3. shouldRun' => shouldRun
      <4>1. shouldRun' = shouldRun
        BY <1>4
      <4> QED
        BY <4>1
    <3> QED
      BY <3>1, <3>2, <3>3 DEF SupervisorInv, LivingInv
  <2>4. TasksInv' /\ NeverStranded'
    BY <1>4, <1>7 DEF SupervisorInv, TasksInv, NeverStranded, networkVars
  <2> QED
    BY <1>5, <1>6, <2>1, <2>2, <2>3, <2>4 DEF SupervisorInv, TypeOK
<1>8. CASE process = p /\ Replace(agents[p].life, known)
  <2>1. process # 0 /\ shouldRun /\ shouldRun' = TRUE /\ retry = "none"
    <3>1. process # 0
      BY <1>8, <1>1
    <3>2. shouldRun
      BY <3>1 DEF SupervisorInv, TasksInv
    <3>3. retry = "none"
      BY <3>1 DEF SupervisorInv, TasksInv, TypeOK, ControlTyped
    <3>4. shouldRun' = TRUE
      BY <3>2, <1>4, Zenon DEF SupervisorInv, TypeOK, ControlTyped
    <3> QED
      BY <3>1, <3>2, <3>3, <3>4
  <2>2. \A r \in DOMAIN known : known[r].life \notin {"running", "signalled"}
    BY <1>2, <1>3, <1>8, <2>1 DEF SupervisorInv, LivingInv
  <2>3. networkRestart' \in BOOLEAN
    BY <1>4, Zenon DEF SupervisorInv, TypeOK, ControlTyped
  <2> HIDE DEF known
  <2>4. CASE Launch(retry, known) /\ restartImmediately' = FALSE
    <3>1. Launch("none", known)
      BY <2>1, <2>4
    <3>2. restartImmediately' \in BOOLEAN /\ UNCHANGED networkVars
      BY <2>4, <1>4
    <3> QED
      BY <1>2, <1>5, <2>1, <2>2, <2>3, <3>1, <3>2, LaunchPreserves
  <2>5. CASE ~networkAvailable /\ UNCHANGED <<restartImmediately, retry, attempts>> /\
             process' = 0 /\ agents' = known /\ status' = "unavailable" /\ ResetLobby
    <3>1. ControlTyped'
      BY <2>1, <2>3, <2>5, Zenon DEF SupervisorInv, TypeOK, ControlTyped
    <3>2. AgentsTyped'
      BY <1>1, <1>2, <2>5 DEF SupervisorInv, TypeOK, AgentsTyped
    <3>3. ShownTyped'
      BY <2>5, ShownReset DEF Statuses
    <3>4. LivingInv'
      BY <1>2, <2>1, <2>2, <2>5 DEF SupervisorInv, LivingInv, Alive
    <3>5. TasksInv' /\ NeverStranded'
      BY <1>4, <2>1, <2>5 DEF SupervisorInv, TasksInv, NeverStranded, networkVars
    <3> QED
      BY <1>5, <1>6, <3>1, <3>2, <3>3, <3>4, <3>5 DEF SupervisorInv, TypeOK
  <2>6. CASE networkAvailable /\ UNCHANGED <<restartImmediately, attempts>> /\
             process' = 0 /\ agents' = known /\ ScheduleRestart(retry) /\ ResetLobby
    <3>1. retry' = "sleeping" /\ status' = "reconnecting"
      BY <2>1, <2>6 DEF ScheduleRestart, NeedsRetry
    <3>2. ControlTyped'
      BY <2>1, <2>3, <2>6, <3>1, Zenon DEF SupervisorInv, TypeOK, ControlTyped
    <3>3. AgentsTyped'
      BY <1>1, <1>2, <2>6 DEF SupervisorInv, TypeOK, AgentsTyped
    <3>4. ShownTyped'
      BY <2>6, <3>1, ShownReset DEF Statuses
    <3>5. LivingInv'
      BY <1>2, <2>1, <2>2, <2>6 DEF SupervisorInv, LivingInv, Alive
    <3>6. TasksInv' /\ NeverStranded'
      BY <1>4, <2>1, <2>6, <3>1 DEF SupervisorInv, TasksInv, NeverStranded, networkVars
    <3> QED
      BY <1>5, <1>6, <3>2, <3>3, <3>4, <3>5, <3>6 DEF SupervisorInv, TypeOK
  <2> QED
    BY <1>8, <2>4, <2>5, <2>6 DEF Replace
<1> QED
  BY <1>7, <1>8

(* Of its output only what was read already remains. *)
LEMMA ProcessDidTerminateKeeps ==
  ASSUME SupervisorInv, NEW p \in DOMAIN agents, ProcessDidTerminate(p)
  PROVE  SupervisorInv'
<1>1. agents[p].output \in Seq(Events)
  <2>1. agents \in Seq(AgentProcess)
    BY DEF SupervisorInv, TypeOK, AgentsTyped
  <2>2. agents[p] \in AgentProcess
    BY <2>1, ElementOfSeq
  <2> QED
    BY <2>2 DEF AgentProcess
<1>2. Ended(p) /\ UNCHANGED <<shouldRun, networkRestart, networkVars, pathVars>>
  BY DEF ProcessDidTerminate
<1>3. CASE process = p
  <2>1. PICK k \in 0..Len(agents[p].output) :
          Replace(agents[p].life, Gone(p, SubSeq(agents[p].output, 1, k)))
    BY <1>3 DEF ProcessDidTerminate
  <2>2. SubSeq(agents[p].output, 1, k) \in Seq(Events)
    BY <1>1, PrefixTyped
  <2> QED
    BY <1>2, <1>3, <2>1, <2>2, EndKeeps
<1>4. CASE process # p
  <2>1. /\ agents' = Gone(p, agents[p].output)
        /\ UNCHANGED <<process, restartImmediately, retry, shownVars, attempts>>
    BY <1>4 DEF ProcessDidTerminate
  <2> QED
    BY <1>1, <1>2, <1>4, <2>1, EndKeeps
<1> QED
  BY <1>3, <1>4

(* Whatever only the agents, the lines they printed and the path do.       *)
LEMMA AgentsMove ==
  ASSUME SupervisorInv, UNCHANGED <<controlVars, networkVars, attempts>>,
         agents' \in Seq(AgentProcess), Len(agents') = Len(agents),
         \A q \in DOMAIN agents : Alive(q)' => Alive(q),
         ShownTyped', NetworkTyped'
  PROVE  SupervisorInv'
<1>1. DOMAIN agents' = DOMAIN agents /\ agents \in Seq(AgentProcess)
  BY DEF SupervisorInv, TypeOK, AgentsTyped
<1>2. ControlTyped'
  BY Zenon DEF SupervisorInv, TypeOK, ControlTyped, controlVars
<1>3. AgentsTyped'
  BY DEF SupervisorInv, TypeOK, AgentsTyped, controlVars
<1>4. LivingInv'
  BY <1>1 DEF SupervisorInv, LivingInv, controlVars
<1>5. TasksInv' /\ NeverStranded' /\ AvailableInv'
  BY DEF SupervisorInv, TasksInv, NeverStranded, AvailableInv, controlVars, networkVars
<1> QED
  BY <1>2, <1>3, <1>4, <1>5 DEF SupervisorInv, TypeOK

(* An agent's record replaced by one that lives no longer than it did. *)
LEMMA ReplacedTyped ==
  ASSUME agents \in Seq(AgentProcess), NEW p \in DOMAIN agents, NEW a \in AgentProcess,
         agents' = [agents EXCEPT ![p] = a],
         a.life \in {"running", "signalled"} => Alive(p)
  PROVE  /\ agents' \in Seq(AgentProcess) /\ Len(agents') = Len(agents)
         /\ \A q \in DOMAIN agents : Alive(q)' => Alive(q)
<1>1. agents' \in Seq(AgentProcess) /\ Len(agents') = Len(agents)
  BY ExceptSeq
<1>2. \A q \in DOMAIN agents : agents'[q] = IF q = p THEN a ELSE agents[q]
  OBVIOUS
<1> QED
  BY <1>1, <1>2 DEF Alive

LEMMA DisplayedTyped ==
  ASSUME menu \in Menu, NEW e \in Events
  PROVE  Displayed(e) \in Menu
<1> USE SupervisorAssumption DEF SupervisorAssumption
<1>1. CASE e.type = "captured"
  <2>1. e.connection \in 0..MaxConnections
    BY <1>1 DEF Events, Connections
  <2>2. (menu.joined /\ Shows(e.connection)) \in BOOLEAN
    OBVIOUS
  <2> QED
    BY <1>1, <2>1, <2>2 DEF Displayed, Menu
<1>2. CASE e.type = "joined"
  BY <1>2 DEF Displayed, Menu
<1>3. CASE e.type = "ended"
  <2>1. e.error \in BOOLEAN
    BY <1>3 DEF Events
  <2>2. [NoLobby EXCEPT !.notice = e.error] \in Menu
    <3>1. NoLobby \in Menu
      BY DEF Menu, NoLobby
    <3> HIDE DEF NoLobby
    <3> QED
      BY <2>1, <3>1 DEF Menu
  <2>3. CASE Shows(e.connection)
    <3>1. Displayed(e) = [NoLobby EXCEPT !.notice = e.error]
      BY <1>3, <2>3 DEF Displayed
    <3> QED
      BY <2>2, <3>1
  <2>4. CASE ~Shows(e.connection)
    <3>1. Displayed(e) = menu
      BY <1>3, <2>4 DEF Displayed
    <3> QED
      BY <3>1
  <2> QED
    BY <2>3, <2>4
<1>4. CASE e.type = "ready"
  BY <1>4 DEF Displayed
<1> QED
  BY <1>1, <1>2, <1>3, <1>4 DEF Events

LEMMA ConsumeLineKeeps ==
  ASSUME SupervisorInv, NEW p \in DOMAIN agents, ConsumeLine(p)
  PROVE  SupervisorInv'
<1> DEFINE e == Head(agents[p].output)
           a == [agents[p] EXCEPT !.output = Tail(@)]
<1>1. agents \in Seq(AgentProcess) /\ agents[p] \in AgentProcess
  BY ElementOfSeq DEF SupervisorInv, TypeOK, AgentsTyped
<1>2. agents[p].output \in Seq(Events) /\ agents[p].output # <<>>
  BY <1>1 DEF AgentProcess, ConsumeLine
<1>3. e \in Events /\ Tail(agents[p].output) \in Seq(Events)
  BY <1>2, HeadTailProperties
<1>4. a \in AgentProcess /\ a.life = agents[p].life
  BY <1>1, <1>3 DEF AgentProcess
<1>5. agents' = [agents EXCEPT ![p] = a]
  BY DEF ConsumeLine
<1>6. /\ agents' \in Seq(AgentProcess) /\ Len(agents') = Len(agents)
      /\ \A q \in DOMAIN agents : Alive(q)' => Alive(q)
  <2> HIDE DEF a
  <2>1. a.life \in {"running", "signalled"} => Alive(p)
    BY <1>4 DEF Alive
  <2> QED
    BY <1>1, <1>4, <1>5, <2>1, ReplacedTyped
<1>7. /\ menu' = Displayed(e) /\ (status' = status \/ status' = "connected")
      /\ stale' \in BOOLEAN
  BY DEF ConsumeLine
<1> HIDE DEF e
<1>8. ShownTyped'
  BY <1>3, <1>7, DisplayedTyped DEF SupervisorInv, TypeOK, ShownTyped, Statuses
<1>9. NetworkTyped' /\ UNCHANGED <<controlVars, networkVars, attempts>>
  BY NetworkUnchanged DEF ConsumeLine, SupervisorInv, TypeOK
<1> QED
  BY <1>6, <1>8, <1>9, AgentsMove

LEMMA AgentStepKeeps ==
  ASSUME SupervisorInv, NEW p \in DOMAIN agents, AgentStep(p)
  PROVE  SupervisorInv'
<1>1. agents \in Seq(AgentProcess) /\ agents[p] \in AgentProcess
  BY ElementOfSeq DEF SupervisorInv, TypeOK, AgentsTyped
<1>2. Alive(p) /\ UNCHANGED <<controlVars, networkVars, shownVars, attempts, pathVars>>
  BY DEF AgentStep, AgentReady, AgentEnds, Accept, CaptureJoin, JoinLobby, EndSession,
         SessionMoves
<1>3. ShownTyped' /\ NetworkTyped'
  BY <1>2, NetworkUnchanged, ShownUnchanged DEF SupervisorInv, TypeOK
<1>4. SUFFICES \E a \in AgentProcess : agents' = [agents EXCEPT ![p] = a]
  BY <1>1, <1>2, <1>3, AgentsMove, ReplacedTyped
<1>5. CASE AgentReady(p)
  <2> DEFINE a == [agents[p] EXCEPT !.ready = TRUE, !.output = Append(@, [type |-> "ready"])]
  <2>1. [type |-> "ready"] \in Events
    BY DEF Events
  <2>2. Append(agents[p].output, [type |-> "ready"]) \in Seq(Events)
    BY <1>1, <2>1, AppendProperties DEF AgentProcess
  <2>3. a \in AgentProcess
    BY <1>1, <2>2 DEF AgentProcess
  <2>4. agents' = [agents EXCEPT ![p] = a]
    BY <1>5 DEF AgentReady
  <2> HIDE DEF a
  <2> QED
    BY <2>3, <2>4
<1>6. CASE AgentEnds(p)
  <2>1. PICK life \in {"clean", "failed"} : agents' = [agents EXCEPT ![p].life = life]
    BY <1>6 DEF AgentEnds
  <2> DEFINE a == [agents[p] EXCEPT !.life = life]
  <2>2. a \in AgentProcess
    BY <1>1 DEF AgentProcess, Lives
  <2>3. agents' = [agents EXCEPT ![p] = a]
    BY <2>1
  <2> HIDE DEF a
  <2> QED
    BY <2>2, <2>3
<1>7. ASSUME NEW c \in Connections, NEW from, NEW to \in SessionStages,
             NEW lines \in Seq(Events), SessionMoves(p, c, from, to, lines)
      PROVE  \E a \in AgentProcess : agents' = [agents EXCEPT ![p] = a]
  <2> DEFINE a == [agents[p] EXCEPT !.sessions = [@ EXCEPT ![c] = to], !.output = @ \o lines]
  <2>1. agents[p].output \o lines \in Seq(Events)
    BY <1>1, ConcatProperties DEF AgentProcess
  <2>2. a \in AgentProcess
    BY <1>1, <2>1 DEF AgentProcess
  <2>3. agents' = [agents EXCEPT ![p] = a]
    BY <1>7 DEF SessionMoves
  <2> HIDE DEF a
  <2> QED
    BY <2>2, <2>3
<1>8. ASSUME NEW c \in Connections
      PROVE  /\ <<>> \in Seq(Events)
             /\ <<[type |-> "captured", connection |-> c]>> \in Seq(Events)
             /\ <<[type |-> "joined", connection |-> c]>> \in Seq(Events)
             /\ \A error \in BOOLEAN :
                  <<[type |-> "ended", connection |-> c, error |-> error]>> \in Seq(Events)
  BY DEF Events
<1>9. ASSUME NEW c \in Connections,
             Accept(p, c) \/ CaptureJoin(p, c) \/ JoinLobby(p, c) \/ EndSession(p, c)
      PROVE  \E a \in AgentProcess : agents' = [agents EXCEPT ![p] = a]
  BY <1>7, <1>8, <1>9
  DEF Accept, CaptureJoin, JoinLobby, EndSession, SessionStages
<1> QED
  BY <1>5, <1>6, <1>9 DEF AgentStep

LEMMA PathChangeKeeps == SupervisorInv /\ PathChange => SupervisorInv'
<1> SUFFICES ASSUME SupervisorInv, PathChange PROVE SupervisorInv'
  OBVIOUS
<1> USE SupervisorAssumption DEF SupervisorAssumption
<1>1. /\ UNCHANGED <<controlVars, networkVars, shownVars, attempts, agents>>
      /\ connectivity' \in BOOLEAN
      /\ pathUpdates' = Append(pathUpdates, connectivity')
  BY DEF PathChange
<1>2. pathUpdates' \in Seq(BOOLEAN)
  BY <1>1, AppendProperties DEF SupervisorInv, TypeOK, NetworkTyped
<1>3. pathChanges' \in 0..MaxPathChanges
  BY DEF PathChange, SupervisorInv, TypeOK, NetworkTyped
<1>4. NetworkTyped'
  BY <1>1, <1>2, <1>3, Zenon DEF SupervisorInv, TypeOK, NetworkTyped, networkVars
<1>5. ShownTyped' /\ agents' \in Seq(AgentProcess)
  BY <1>1, ShownUnchanged DEF SupervisorInv, TypeOK, AgentsTyped
<1>6. Len(agents') = Len(agents) /\ \A q \in DOMAIN agents : Alive(q)' => Alive(q)
  BY <1>1 DEF Alive
<1> QED
  BY <1>1, <1>4, <1>5, <1>6, AgentsMove

LEMMA StutterKeeps == SupervisorInv /\ UNCHANGED vars => SupervisorInv'
<1> SUFFICES ASSUME SupervisorInv, UNCHANGED vars PROVE SupervisorInv'
  OBVIOUS
<1>1. UNCHANGED <<controlVars, networkVars, shownVars, attempts, agents, pathVars>>
  BY DEF vars
<1>2. ShownTyped' /\ NetworkTyped' /\ agents' \in Seq(AgentProcess)
  BY <1>1, NetworkUnchanged, ShownUnchanged DEF SupervisorInv, TypeOK, AgentsTyped
<1>3. Len(agents') = Len(agents) /\ \A q \in DOMAIN agents : Alive(q)' => Alive(q)
  BY <1>1 DEF Alive
<1> QED
  BY <1>1, <1>2, <1>3, AgentsMove

----------------------------------------------------------------------------
THEOREM SupervisorInductive == Spec => []SupervisorInv
<1>1. SupervisorInv /\ [Next]_vars => SupervisorInv'
  <2> SUFFICES ASSUME SupervisorInv, [Next]_vars PROVE SupervisorInv'
    OBVIOUS
  <2>1. CASE Start \/ Restart \/ Stop \/ RetryFires \/ NetworkRestart
    BY <2>1, StartKeeps, RestartsKeep, StopKeeps, RetryFiresKeeps
  <2>2. CASE NetworkPathUpdate \/ PathChange \/ UNCHANGED vars
    BY <2>2, NetworkPathUpdateKeeps, PathChangeKeeps, StutterKeeps
  <2>3. ASSUME NEW p \in DOMAIN agents,
               ProcessDidTerminate(p) \/ ConsumeLine(p) \/ AgentStep(p)
        PROVE  SupervisorInv'
    BY <2>3, ProcessDidTerminateKeeps, ConsumeLineKeeps, AgentStepKeeps
  <2> QED
    BY <2>1, <2>2, <2>3 DEF Next
<1> QED
  BY <1>1, InitKept, PTL DEF Spec

(* The types of all variables, however late lines are handled. *)
THEOREM SupervisorTyped == Spec => []TypeOK
<1>1. SupervisorInv => TypeOK
  BY DEF SupervisorInv
<1> QED
  BY <1>1, SupervisorInductive, PTL

(* Restarts, retries, network restarts and ends in any order never make    *)
(* the application run two agents.                                         *)
THEOREM OneAgentSafe == Spec => []OneAgent
<1>1. SupervisorInv => OneAgent
  BY DEF SupervisorInv, LivingInv, OneAgent
<1> QED
  BY <1>1, SupervisorInductive, PTL

(* With the network there, a task or an agent is always there to go on.    *)
THEOREM NeverStrandedSafe == Spec => []NeverStranded
<1>1. SupervisorInv => NeverStranded
  BY DEF SupervisorInv
<1> QED
  BY <1>1, SupervisorInductive, PTL

(* Nothing is launched after the application stopped. *)
THEOREM StopSafe == Spec => StopIsFinal
<1> DEFINE Final == attempts > 0 /\ ~shouldRun =>
                      Len(agents') = Len(agents) /\ process' = 0
<1>1. SupervisorInv /\ [Next]_vars => [Final]_vars
  <2> SUFFICES ASSUME SupervisorInv, Next, attempts > 0, ~shouldRun
               PROVE  Len(agents') = Len(agents) /\ process' = 0
    BY DEF Final
  <2>1. /\ process = 0 /\ retry # "sleeping" /\ ~networkRestart
        /\ attempts \in Nat /\ agents \in Seq(AgentProcess)
    BY SupervisorAssumption
    DEF SupervisorInv, TasksInv, TypeOK, AgentsTyped, SupervisorAssumption
  <2>2. ~Start /\ ~Restart /\ ~Stop /\ ~RetryFires /\ ~NetworkRestart
    BY <2>1 DEF Start, Restart, Stop, RetryFires, NetworkRestart
  <2>3. CASE NetworkPathUpdate \/ PathChange
    BY <2>1, <2>3 DEF NetworkPathUpdate, PathChange, controlVars
  <2>4. ASSUME NEW p \in DOMAIN agents,
               ProcessDidTerminate(p) \/ ConsumeLine(p) \/ AgentStep(p)
        PROVE  Len(agents') = Len(agents) /\ process' = 0
    <3>1. DOMAIN agents' = DOMAIN agents /\ process' = process
      <4>1. CASE ConsumeLine(p) \/ AgentStep(p)
        BY <4>1
        DEF ConsumeLine, AgentStep, AgentReady, AgentEnds, Accept, CaptureJoin,
            JoinLobby, EndSession, SessionMoves, controlVars
      <4>2. CASE ProcessDidTerminate(p)
        <5>1. process # p
          BY <2>1, ElementOfSeq
        <5>2. agents' = Gone(p, agents[p].output) /\ process' = process
          BY <4>2, <5>1 DEF ProcessDidTerminate
        <5> QED
          BY <5>2 DEF Gone
      <4> QED
        BY <2>4, <4>1, <4>2
    <3>2. Len(agents') = Len(agents)
      <4>1. agents' \in Seq(AgentProcess)
        <5>1. SupervisorInv'
          BY <2>4, ProcessDidTerminateKeeps, ConsumeLineKeeps, AgentStepKeeps
        <5> QED
          BY <5>1 DEF SupervisorInv, TypeOK, AgentsTyped
      <4> QED
        BY <2>1, <3>1, <4>1, ElementOfSeq, LenProperties
    <3> QED
      BY <2>1, <3>1, <3>2
  <2> QED
    BY <2>2, <2>3, <2>4 DEF Next
<1> QED
  BY <1>1, SupervisorInductive, PTL DEF Spec, StopIsFinal

----------------------------------------------------------------------------
(* What the lines that are still to be read say. *)

LEMMA PrintsTail ==
  ASSUME NEW q \in Seq(Events), q # <<>>
  PROVE  /\ Tail(q) \in Seq(Events) /\ Head(q) = q[1] /\ 1 \in DOMAIN q /\ Head(q) \in Events
         /\ \A i \in DOMAIN Tail(q) : i \in Nat /\ i + 1 \in DOMAIN q /\ Tail(q)[i] = q[i + 1]
         /\ \A i \in Nat : \A type, c : Prints(Tail(q), i, type, c) <=> Prints(q, i + 1, type, c)
         /\ \A type, c : Prints(q, 0, type, c) <=>
              (Head(q).type = type /\ Head(q).connection = c) \/ Prints(q, 1, type, c)
<1>1. /\ Tail(q) \in Seq(Events) /\ Head(q) = q[1] /\ Head(q) \in Events
      /\ Len(q) \in Nat \ {0} /\ DOMAIN q = 1..Len(q) /\ DOMAIN Tail(q) = 1..(Len(q) - 1)
      /\ \A i \in 1..(Len(q) - 1) : Tail(q)[i] = q[i + 1]
  OBVIOUS
<1>2. 1 \in DOMAIN q /\ \A i \in DOMAIN Tail(q) : i \in Nat /\ i + 1 \in DOMAIN q /\ Tail(q)[i] = q[i + 1]
  BY <1>1
<1>3. ASSUME NEW i \in Nat, NEW type, NEW c
      PROVE  Prints(Tail(q), i, type, c) <=> Prints(q, i + 1, type, c)
  <2>1. ASSUME Prints(Tail(q), i, type, c)
        PROVE  Prints(q, i + 1, type, c)
    <3>1. PICK j \in DOMAIN Tail(q) : j > i /\ Tail(q)[j].type = type /\ Tail(q)[j].connection = c
      BY <2>1 DEF Prints
    <3>2. j + 1 \in DOMAIN q /\ j + 1 > i + 1 /\ q[j + 1] = Tail(q)[j]
      BY <1>2, <3>1
    <3> QED
      BY <3>1, <3>2 DEF Prints
  <2>2. ASSUME Prints(q, i + 1, type, c)
        PROVE  Prints(Tail(q), i, type, c)
    <3>1. PICK j \in DOMAIN q : j > i + 1 /\ q[j].type = type /\ q[j].connection = c
      BY <2>2 DEF Prints
    <3>2. j - 1 \in DOMAIN Tail(q) /\ j - 1 > i /\ q[(j - 1) + 1] = Tail(q)[j - 1] /\ (j - 1) + 1 = j
      BY <1>1, <3>1
    <3> QED
      BY <3>1, <3>2 DEF Prints
  <2> QED
    BY <2>1, <2>2
<1>4. ASSUME NEW type, NEW c
      PROVE  Prints(q, 0, type, c) <=>
               (Head(q).type = type /\ Head(q).connection = c) \/ Prints(q, 1, type, c)
  <2>1. \A j \in DOMAIN q : j > 0 <=> j = 1 \/ j > 1
    BY <1>1
  <2> QED
    BY <1>1, <1>2, <2>1 DEF Prints
<1> QED
  BY <1>1, <1>2, <1>3, <1>4

LEMMA PrintsAppend ==
  ASSUME NEW q \in Seq(Events), NEW e \in Events
  PROVE  /\ Append(q, e) \in Seq(Events) /\ q \o <<e>> = Append(q, e)
         /\ \A i \in DOMAIN q : i \in 0..Len(q) /\ i \in DOMAIN Append(q, e) /\ Append(q, e)[i] = q[i]
         /\ \A i \in DOMAIN Append(q, e) : i \in DOMAIN q \/ i = Len(q) + 1
         /\ Append(q, e)[Len(q) + 1] = e
         /\ \A i \in 0..Len(q) : \A type, c :
              Prints(Append(q, e), i, type, c) <=>
                Prints(q, i, type, c) \/ (e.type = type /\ e.connection = c)
         /\ \A type, c : ~Prints(Append(q, e), Len(q) + 1, type, c)
         /\ 0 \in 0..Len(q)
<1> DEFINE r == Append(q, e)
<1>1. /\ r \in Seq(Events) /\ Len(q) \in Nat /\ DOMAIN q = 1..Len(q) /\ DOMAIN r = 1..(Len(q) + 1)
      /\ \A i \in 1..Len(q) : r[i] = q[i]
      /\ r[Len(q) + 1] = e /\ q \o <<e>> = r
  OBVIOUS
<1> HIDE DEF r
<1>2. /\ \A i \in DOMAIN q : i \in 0..Len(q) /\ i \in DOMAIN r /\ r[i] = q[i]
      /\ \A i \in DOMAIN r : i \in DOMAIN q \/ i = Len(q) + 1
      /\ 0 \in 0..Len(q) /\ Len(q) + 1 \in DOMAIN r
  BY <1>1
<1>3. ASSUME NEW i \in 0..Len(q), NEW type, NEW c
      PROVE  Prints(r, i, type, c) <=> Prints(q, i, type, c) \/ (e.type = type /\ e.connection = c)
  <2>1. Len(q) + 1 > i
    BY <1>1
  <2> QED
    BY <1>1, <1>2, <2>1 DEF Prints
<1>4. ASSUME NEW type, NEW c
      PROVE  ~Prints(r, Len(q) + 1, type, c)
  BY <1>1 DEF Prints
<1> QED
  BY <1>1, <1>2, <1>3, <1>4 DEF r

LEMMA EventFields ==
  ASSUME NEW e \in Events
  PROVE  /\ e.type \in {"ready", "captured", "joined", "ended"}
         /\ e.type # "ready" => e.connection \in Connections
         /\ e.type = "ended" => e.error \in BOOLEAN
  BY DEF Events

LEMMA ConnectionFacts ==
  \A c \in Connections : c \in Nat /\ c # 0
  BY SupervisorAssumption DEF SupervisorAssumption, Connections

LEMMA LinesTail ==
  ASSUME NEW q \in Seq(Events), q # <<>>, NEW sessions, LinesLead(q, sessions)
  PROVE  LinesLead(Tail(q), sessions)
<1> SUFFICES ASSUME NEW i \in DOMAIN Tail(q)
             PROVE  LineLeads(Tail(q), sessions, i)
  BY DEF LinesLead
<1>1. i \in Nat /\ i + 1 \in DOMAIN q /\ Tail(q)[i] = q[i + 1]
  BY PrintsTail
<1>2. \A type, c : Prints(Tail(q), i, type, c) <=> Prints(q, i + 1, type, c)
  BY <1>1, PrintsTail
<1>3. LineLeads(q, sessions, i + 1)
  BY <1>1 DEF LinesLead
<1> QED
  BY <1>1, <1>2, <1>3 DEF LineLeads

(* A line that is read. *)
LEMMA DisplayedLeads ==
  ASSUME NEW q \in Seq(Events), q # <<>>, NEW sessions \in [Connections -> SessionStages],
         menu \in Menu, LinesLead(q, sessions), ShownLeads(q, sessions, menu)
  PROVE  /\ ShownLeads(Tail(q), sessions, Displayed(Head(q)))
         /\ NewestComes(q, sessions, menu) => NewestComes(Tail(q), sessions, Displayed(Head(q)))
<1> DEFINE e == Head(q)
           shown == Displayed(e)
           c == e.connection
<1>1. /\ e \in Events /\ e = q[1] /\ 1 \in DOMAIN q
      /\ \A type, d : Prints(Tail(q), 0, type, d) <=> Prints(q, 1, type, d)
      /\ \A type, d : Prints(q, 0, type, d) <=> (e.type = type /\ e.connection = d) \/ Prints(q, 1, type, d)
  <2>1. \A type, d : Prints(Tail(q), 0, type, d) <=> Prints(q, 0 + 1, type, d)
    BY PrintsTail
  <2> QED
    BY <2>1, PrintsTail
<1>2. LineLeads(q, sessions, 1)
  BY <1>1 DEF LinesLead
<1>3. menu.active \in 0..MaxConnections /\ menu.joined \in BOOLEAN
  BY DEF Menu
<1> HIDE DEF e
<1>4. /\ e.type \in {"ready", "captured", "joined", "ended"}
      /\ e.type # "ready" => c \in Connections /\ c \in Nat /\ c # 0
  BY <1>1, EventFields, ConnectionFacts
<1>5. CASE e.type = "captured" /\ Captures(c)
  <2>1. /\ shown.active = c /\ shown.joined = (menu.joined /\ Shows(c))
    BY <1>5 DEF Displayed
  <2>2. ~Shows(c)
    BY <1>1, <1>4, <1>5 DEF ShownLeads, Shows
  <2>3. shown.joined = FALSE
    BY <2>1, <2>2
  <2> HIDE DEF shown
  <2>4. ShownLeads(Tail(q), sessions, shown)
    BY <1>1, <1>2, <1>5, <2>1, <2>3 DEF ShownLeads, LineLeads
  <2>5. ASSUME NewestComes(q, sessions, menu), NEW d \in Connections, IsNewest(sessions, d)
        PROVE  shown.active = d \/ Prints(Tail(q), 0, "captured", d)
    <3>1. menu.active = d \/ Prints(q, 0, "captured", d)
      BY <2>5 DEF NewestComes
    <3>2. CASE menu.active = d
      <4>1. d <= c /\ sessions[c] \in {"captured", "joined", "ended"}
        BY <1>1, <1>2, <1>5, <3>2 DEF Captures, LineLeads
      <4>2. ~(c > d)
        BY <1>4, <1>5, <2>5, <4>1 DEF IsNewest
      <4> QED
        BY <1>4, <1>5, <2>1, <4>1, <4>2, ConnectionFacts
    <3>3. CASE Prints(q, 0, "captured", d)
      BY <1>1, <2>1, <3>3
    <3> QED
      BY <3>1, <3>2, <3>3
  <2> QED
    BY <2>4, <2>5 DEF NewestComes, shown, e
<1>6. CASE e.type = "captured" /\ ~Captures(c)
  <2>1. shown = menu
    BY <1>6 DEF Displayed
  <2>2. menu.active # c /\ menu.active > c
    BY <1>3, <1>4, <1>6, SupervisorAssumption DEF Captures, SupervisorAssumption
  <2> HIDE DEF shown
  <2>3. ShownLeads(Tail(q), sessions, shown)
    BY <1>1, <1>6, <2>1, <2>2 DEF ShownLeads
  <2>4. ASSUME NewestComes(q, sessions, menu), NEW d \in Connections, IsNewest(sessions, d)
        PROVE  shown.active = d \/ Prints(Tail(q), 0, "captured", d)
    <3>1. menu.active \in Connections /\ sessions[menu.active] \in {"captured", "joined", "ended"}
      BY <1>3, <1>4, <1>6, <2>2, SupervisorAssumption DEF ShownLeads, Connections, SupervisorAssumption
    <3>2. d # c
      BY <2>2, <2>4, <3>1 DEF IsNewest
    <3> QED
      BY <1>1, <2>1, <2>4, <3>2 DEF NewestComes
  <2> QED
    BY <2>3, <2>4 DEF NewestComes, shown, e
<1>7. CASE e.type = "joined" /\ Shows(c)
  <2>1. shown = [menu EXCEPT !.captured = TRUE, !.joined = TRUE, !.notice = FALSE]
    BY <1>7 DEF Displayed
  <2>2. shown.active = menu.active /\ shown.active = c /\ shown.joined = TRUE
    BY <1>7, <2>1 DEF Menu, Shows
  <2> HIDE DEF shown
  <2>3. ShownLeads(Tail(q), sessions, shown)
    BY <1>1, <1>2, <1>4, <1>7, <2>2 DEF ShownLeads, LineLeads
  <2>4. NewestComes(q, sessions, menu) => NewestComes(Tail(q), sessions, shown)
    BY <1>1, <1>7, <2>2 DEF NewestComes
  <2> QED
    BY <2>3, <2>4 DEF shown, e
<1>8. CASE e.type = "ended" /\ Shows(c)
  <2>1. shown = [NoLobby EXCEPT !.notice = e.error]
    BY <1>8 DEF Displayed
  <2>2. shown.active = 0 /\ menu.active = c
    BY <1>8, <2>1 DEF NoLobby, Shows
  <2> HIDE DEF shown
  <2>3. ShownLeads(Tail(q), sessions, shown)
    BY <2>2 DEF ShownLeads
  <2>4. ASSUME NewestComes(q, sessions, menu), NEW d \in Connections, IsNewest(sessions, d)
        PROVE  Prints(Tail(q), 0, "captured", d)
    <3>1. sessions[c] = "ended" /\ d # c
      BY <1>1, <1>2, <1>8, <2>4 DEF LineLeads, IsNewest
    <3> QED
      BY <1>1, <1>8, <2>2, <2>4, <3>1 DEF NewestComes
  <2> QED
    BY <2>3, <2>4 DEF NewestComes, shown, e
<1>9. CASE e.type = "ready" \/ (e.type \in {"joined", "ended"} /\ ~Shows(c))
  <2>1. shown = menu
    BY <1>9 DEF Displayed
  <2>2. e.type = "ready" \/ c # menu.active
    BY <1>9 DEF Shows
  <2> HIDE DEF shown
  <2>3. ShownLeads(Tail(q), sessions, shown)
    BY <1>1, <1>9, <2>1, <2>2 DEF ShownLeads
  <2>4. NewestComes(q, sessions, menu) => NewestComes(Tail(q), sessions, shown)
    BY <1>1, <1>9, <2>1 DEF NewestComes
  <2> QED
    BY <2>3, <2>4 DEF shown, e
<1> QED
  BY <1>4, <1>5, <1>6, <1>7, <1>8, <1>9

(* Nothing is added to the queue but what is about connection c. *)
SaysMoreOf(c, q, r) ==
  /\ \A i \in DOMAIN q : i \in DOMAIN r /\ r[i] = q[i]
  /\ \A i \in DOMAIN q : \A type, d : d # c => (Prints(r, i, type, d) <=> Prints(q, i, type, d))
  /\ \A type, d : d # c => (Prints(r, 0, type, d) <=> Prints(q, 0, type, d))
  /\ Prints(q, 0, "captured", c) => Prints(r, 0, "captured", c)

(* What is said of connection c, and what is new, leads to its session.    *)
OwnLinesLead(c, q, r, sessions) ==
  /\ \A i \in DOMAIN q : q[i].type # "ready" /\ q[i].connection = c => LineLeads(r, sessions, i)
  /\ \A i \in DOMAIN r : i \notin DOMAIN q => LineLeads(r, sessions, i)

(* No other session becomes the newest. *)
NoneIsNewer(c, r, sessions, moved) ==
  \A d \in Connections :
    IsNewest(moved, d) => IsNewest(sessions, d) \/ (d = c /\ Prints(r, 0, "captured", c))

(* A session that moves prints, at most, a line of its own. *)
LEMMA MovedLeads ==
  ASSUME NEW q \in Seq(Events), NEW r \in Seq(Events),
         NEW sessions \in [Connections -> SessionStages], NEW moved \in [Connections -> SessionStages],
         NEW c \in Connections,
         NEW shown \in Menu, LinesLead(q, sessions), ShownLeads(q, sessions, shown),
         \A d \in Connections : d # c => moved[d] = sessions[d],
         SaysMoreOf(c, q, r), OwnLinesLead(c, q, r, moved),
         shown.active # c \/ ShownLeads(r, moved, shown),
         NoneIsNewer(c, r, sessions, moved)
  PROVE  /\ LinesLead(r, moved) /\ ShownLeads(r, moved, shown)
         /\ NewestComes(q, sessions, shown) => NewestComes(r, moved, shown)
<1>0. /\ \A i \in DOMAIN q : i \in DOMAIN r /\ r[i] = q[i]
      /\ \A i \in DOMAIN q : \A type, d : d # c => (Prints(r, i, type, d) <=> Prints(q, i, type, d))
      /\ \A type, d : d # c => (Prints(r, 0, type, d) <=> Prints(q, 0, type, d))
      /\ Prints(q, 0, "captured", c) => Prints(r, 0, "captured", c)
  BY DEF SaysMoreOf
<1>1. ASSUME NEW i \in DOMAIN q, q[i].type = "ready"
      PROVE  LineLeads(r, moved, i)
  BY <1>0, <1>1 DEF LineLeads
<1>2. ASSUME NEW i \in DOMAIN q, q[i].type # "ready", q[i].connection # c
      PROVE  LineLeads(r, moved, i)
  <2>1. q[i] \in Events
    OBVIOUS
  <2>2. q[i].connection \in Connections
    BY <1>2, <2>1, EventFields
  <2>3. LineLeads(q, sessions, i) /\ r[i] = q[i]
    BY <1>0 DEF LinesLead
  <2>4. moved[q[i].connection] = sessions[q[i].connection]
    BY <1>2, <2>2
  <2>5. \A type : Prints(r, i, type, q[i].connection) <=> Prints(q, i, type, q[i].connection)
    BY <1>0, <1>2
  <2> QED
    BY <2>3, <2>4, <2>5 DEF LineLeads
<1>3. LinesLead(r, moved)
  BY <1>1, <1>2 DEF LinesLead, OwnLinesLead
<1>4. ShownLeads(r, moved, shown)
  <2>1. CASE shown.active = c
    BY <2>1
  <2>2. CASE shown.active = 0
    BY <2>2 DEF ShownLeads
  <2>3. CASE shown.active # c /\ shown.active # 0
    <3>1. shown.active \in Connections
      BY <2>3, SupervisorAssumption DEF Menu, Connections, SupervisorAssumption
    <3>2. moved[shown.active] = sessions[shown.active]
      BY <2>3, <3>1
    <3>3. \A type : Prints(r, 0, type, shown.active) <=> Prints(q, 0, type, shown.active)
      BY <1>0, <2>3
    <3> QED
      BY <2>3, <3>2, <3>3 DEF ShownLeads
  <2> QED
    BY <2>1, <2>2, <2>3
<1>5. ASSUME NewestComes(q, sessions, shown)
      PROVE  NewestComes(r, moved, shown)
  <2> SUFFICES ASSUME NEW d \in Connections, IsNewest(moved, d)
               PROVE  shown.active = d \/ Prints(r, 0, "captured", d)
    BY DEF NewestComes
  <2>1. CASE IsNewest(sessions, d)
    <3>1. shown.active = d \/ Prints(q, 0, "captured", d)
      BY <1>5, <2>1 DEF NewestComes
    <3> QED
      BY <1>0, <3>1
  <2>2. CASE d = c /\ Prints(r, 0, "captured", c)
    BY <2>2
  <2> QED
    BY <2>1, <2>2 DEF NoneIsNewer
<1> QED
  BY <1>3, <1>4, <1>5

(* Nothing is said of a session before it is captured. *)
LEMMA SilentBefore ==
  ASSUME NEW q \in Seq(Events), NEW sessions, NEW c \in Connections,
         NEW shown \in Menu, LinesLead(q, sessions), ShownLeads(q, sessions, shown),
         sessions[c] \in {"none", "open"}
  PROVE  /\ \A i \in DOMAIN q : q[i].type # "ready" => q[i].connection # c
         /\ shown.active # c
<1>1. ASSUME NEW i \in DOMAIN q, q[i].type # "ready"
      PROVE  q[i].connection # c
  <2>1. q[i].type \in {"captured", "joined", "ended"}
    <3>1. q[i] \in Events
      OBVIOUS
    <3> QED
      BY <1>1, <3>1, EventFields
  <2>2. LineLeads(q, sessions, i)
    BY DEF LinesLead
  <2> QED
    BY <2>1, <2>2 DEF LineLeads
<1>2. shown.active # c
  BY ConnectionFacts DEF ShownLeads
<1> QED
  BY <1>1, <1>2

LEMMA AcceptLeads ==
  ASSUME NEW q \in Seq(Events), NEW sessions \in [Connections -> SessionStages], NEW c \in Connections,
         NEW moved, moved = [sessions EXCEPT ![c] = "open"], sessions[c] = "none",
         NEW shown \in Menu, LinesLead(q, sessions), ShownLeads(q, sessions, shown)
  PROVE  /\ LinesLead(q, moved) /\ ShownLeads(q, moved, shown)
         /\ NewestComes(q, sessions, shown) => NewestComes(q, moved, shown)
<1>1. /\ moved \in [Connections -> SessionStages] /\ moved[c] = "open"
      /\ \A d \in Connections : d # c => moved[d] = sessions[d]
  BY DEF SessionStages
<1>2. (\A i \in DOMAIN q : q[i].type # "ready" => q[i].connection # c) /\ shown.active # c
  BY SilentBefore
<1>3. ASSUME NEW d \in Connections, IsNewest(moved, d)
      PROVE  IsNewest(sessions, d)
  BY <1>1, <1>3 DEF IsNewest
<1>4. SaysMoreOf(c, q, q) /\ OwnLinesLead(c, q, q, moved)
  BY <1>2 DEF SaysMoreOf, OwnLinesLead
<1>5. NoneIsNewer(c, q, sessions, moved)
  BY <1>3 DEF NoneIsNewer
<1> QED
  BY <1>1, <1>2, <1>4, <1>5, MovedLeads

LEMMA CaptureLeads ==
  ASSUME NEW q \in Seq(Events), NEW sessions \in [Connections -> SessionStages], NEW c \in Connections,
         NEW moved, moved = [sessions EXCEPT ![c] = "captured"], sessions[c] = "open",
         NEW e \in Events, e.type = "captured", e.connection = c,
         NEW shown \in Menu, LinesLead(q, sessions), ShownLeads(q, sessions, shown)
  PROVE  /\ LinesLead(Append(q, e), moved) /\ ShownLeads(Append(q, e), moved, shown)
         /\ NewestComes(q, sessions, shown) => NewestComes(Append(q, e), moved, shown)
<1> DEFINE r == Append(q, e)
<1>1. /\ moved \in [Connections -> SessionStages] /\ moved[c] = "captured"
      /\ \A d \in Connections : d # c => moved[d] = sessions[d]
  BY DEF SessionStages
<1>2. (\A i \in DOMAIN q : q[i].type # "ready" => q[i].connection # c) /\ shown.active # c
  BY SilentBefore
<1>3. /\ r \in Seq(Events)
      /\ \A i \in DOMAIN q : i \in 0..Len(q) /\ i \in DOMAIN r /\ r[i] = q[i]
      /\ \A i \in DOMAIN r : i \in DOMAIN q \/ i = Len(q) + 1
      /\ r[Len(q) + 1] = e /\ 0 \in 0..Len(q)
      /\ \A type, d : ~Prints(r, Len(q) + 1, type, d)
  BY PrintsAppend
<1>4. \A i \in 0..Len(q) : \A type, d :
        Prints(r, i, type, d) <=> Prints(q, i, type, d) \/ (e.type = type /\ e.connection = d)
  BY PrintsAppend
<1> HIDE DEF r
<1>5. Prints(r, 0, "captured", c)
  BY <1>3, <1>4
<1>6. \A i \in DOMAIN q : \A type, d : d # c => (Prints(r, i, type, d) <=> Prints(q, i, type, d))
  BY <1>3, <1>4
<1>7. \A type, d : d # c => (Prints(r, 0, type, d) <=> Prints(q, 0, type, d))
  BY <1>3, <1>4
<1>8. ASSUME NEW i \in DOMAIN r, i \notin DOMAIN q
      PROVE  LineLeads(r, moved, i)
  <2>1. i = Len(q) + 1 /\ r[i] = e /\ \A type, d : ~Prints(r, i, type, d)
    BY <1>3, <1>8
  <2> QED
    BY <1>1, <2>1 DEF LineLeads
<1>9. ASSUME NEW d \in Connections, IsNewest(moved, d)
      PROVE  IsNewest(sessions, d) \/ d = c
  BY <1>1, <1>9 DEF IsNewest
<1>10. \A i \in DOMAIN q : i \in DOMAIN r /\ r[i] = q[i]
  BY <1>3
<1>11. SaysMoreOf(c, q, r)
  BY <1>5, <1>6, <1>7, <1>10 DEF SaysMoreOf
<1>12. OwnLinesLead(c, q, r, moved)
  BY <1>2, <1>8 DEF OwnLinesLead
<1>13. /\ LinesLead(r, moved) /\ ShownLeads(r, moved, shown)
       /\ NewestComes(q, sessions, shown) => NewestComes(r, moved, shown)
  <2>1. r \in Seq(Events)
    BY <1>3
  <2>2. NoneIsNewer(c, r, sessions, moved)
    BY <1>5, <1>9 DEF NoneIsNewer
  <2>3. shown.active # c \/ ShownLeads(r, moved, shown)
    BY <1>2
  <2>4. \A d \in Connections : d # c => moved[d] = sessions[d]
    BY <1>1
  <2> QED
    BY <1>1, <1>11, <1>12, <2>1, <2>2, <2>3, <2>4, MovedLeads, ZenonT(60)
<1> QED
  BY <1>13 DEF r

LEMMA JoinLeads ==
  ASSUME NEW q \in Seq(Events), NEW sessions \in [Connections -> SessionStages], NEW c \in Connections,
         NEW moved, moved = [sessions EXCEPT ![c] = "joined"], sessions[c] = "captured",
         NEW e \in Events, e.type = "joined", e.connection = c,
         NEW shown \in Menu, LinesLead(q, sessions), ShownLeads(q, sessions, shown)
  PROVE  /\ LinesLead(Append(q, e), moved) /\ ShownLeads(Append(q, e), moved, shown)
         /\ NewestComes(q, sessions, shown) => NewestComes(Append(q, e), moved, shown)
<1> DEFINE r == Append(q, e)
<1>1. /\ moved \in [Connections -> SessionStages] /\ moved[c] = "joined"
      /\ \A d \in Connections : d # c => moved[d] = sessions[d]
  BY DEF SessionStages
<1>2. /\ r \in Seq(Events)
      /\ \A i \in DOMAIN q : i \in 0..Len(q) /\ i \in DOMAIN r /\ r[i] = q[i]
      /\ \A i \in DOMAIN r : i \in DOMAIN q \/ i = Len(q) + 1
      /\ r[Len(q) + 1] = e /\ 0 \in 0..Len(q)
      /\ \A type, d : ~Prints(r, Len(q) + 1, type, d)
  BY PrintsAppend
<1>3. \A i \in 0..Len(q) : \A type, d :
        Prints(r, i, type, d) <=> Prints(q, i, type, d) \/ (e.type = type /\ e.connection = d)
  BY PrintsAppend
<1> HIDE DEF r
<1>4. \A i \in DOMAIN q : i \in DOMAIN r /\ r[i] = q[i]
  BY <1>2
<1>5. \A i \in DOMAIN q : \A type, d : d # c => (Prints(r, i, type, d) <=> Prints(q, i, type, d))
  BY <1>2, <1>3
<1>6. \A type, d : d # c => (Prints(r, 0, type, d) <=> Prints(q, 0, type, d))
  BY <1>2, <1>3
<1>7. ASSUME NEW i \in DOMAIN q, q[i].type # "ready", q[i].connection = c
      PROVE  LineLeads(r, moved, i)
  <2>1. LineLeads(q, sessions, i) /\ r[i] = q[i] /\ i \in 0..Len(q)
    BY <1>2 DEF LinesLead
  <2>2. /\ Prints(r, i, "joined", c)
        /\ Prints(r, i, "captured", c) <=> Prints(q, i, "captured", c)
    BY <1>3, <2>1
  <2> QED
    BY <1>1, <1>7, <2>1, <2>2 DEF LineLeads
<1>8. ASSUME NEW i \in DOMAIN r, i \notin DOMAIN q
      PROVE  LineLeads(r, moved, i)
  <2>1. r[i] = e
    BY <1>2, <1>8
  <2> QED
    BY <1>1, <2>1 DEF LineLeads
<1>9. ASSUME shown.active = c
      PROVE  ShownLeads(r, moved, shown)
  <2>1. /\ Prints(r, 0, "joined", c)
        /\ Prints(r, 0, "captured", c) <=> Prints(q, 0, "captured", c)
    BY <1>2, <1>3
  <2> QED
    BY <1>1, <1>9, <2>1 DEF ShownLeads
<1>10. ASSUME NEW d \in Connections, IsNewest(moved, d)
       PROVE  IsNewest(sessions, d)
  BY <1>1, <1>10 DEF IsNewest
<1>11. Prints(q, 0, "captured", c) => Prints(r, 0, "captured", c)
  BY <1>2, <1>3
<1>12. SaysMoreOf(c, q, r) /\ OwnLinesLead(c, q, r, moved)
  <2>1. SaysMoreOf(c, q, r)
    BY <1>4, <1>5, <1>6, <1>11 DEF SaysMoreOf
  <2>2. OwnLinesLead(c, q, r, moved)
    BY <1>7, <1>8 DEF OwnLinesLead
  <2> QED
    BY <2>1, <2>2
<1>13. /\ LinesLead(r, moved) /\ ShownLeads(r, moved, shown)
       /\ NewestComes(q, sessions, shown) => NewestComes(r, moved, shown)
  <2>1. r \in Seq(Events)
    BY <1>2
  <2>2. shown.active # c \/ ShownLeads(r, moved, shown)
    BY <1>9
  <2>3. NoneIsNewer(c, r, sessions, moved)
    BY <1>10 DEF NoneIsNewer
  <2>4. CASE shown.active # c
    BY <1>1, <1>12, <2>1, <2>3, <2>4, MovedLeads, ZenonT(30)
  <2>5. CASE ShownLeads(r, moved, shown)
    BY <1>1, <1>12, <2>1, <2>3, <2>5, MovedLeads, ZenonT(30)
  <2> QED
    BY <2>2, <2>4, <2>5
<1> QED
  BY <1>13 DEF r

LEMMA EndLeads ==
  ASSUME NEW q \in Seq(Events), NEW sessions \in [Connections -> SessionStages], NEW c \in Connections,
         NEW moved, moved = [sessions EXCEPT ![c] = "ended"],
         sessions[c] \in {"open", "captured", "joined"},
         NEW e \in Events, e.type = "ended", e.connection = c,
         NEW shown \in Menu, LinesLead(q, sessions), ShownLeads(q, sessions, shown)
  PROVE  /\ LinesLead(Append(q, e), moved) /\ ShownLeads(Append(q, e), moved, shown)
         /\ NewestComes(q, sessions, shown) => NewestComes(Append(q, e), moved, shown)
<1> DEFINE r == Append(q, e)
<1>1. /\ moved \in [Connections -> SessionStages] /\ moved[c] = "ended"
      /\ \A d \in Connections : d # c => moved[d] = sessions[d]
  BY DEF SessionStages
<1>2. /\ r \in Seq(Events)
      /\ \A i \in DOMAIN q : i \in 0..Len(q) /\ i \in DOMAIN r /\ r[i] = q[i]
      /\ \A i \in DOMAIN r : i \in DOMAIN q \/ i = Len(q) + 1
      /\ r[Len(q) + 1] = e /\ 0 \in 0..Len(q)
  BY PrintsAppend
<1>3. \A i \in 0..Len(q) : \A type, d :
        Prints(r, i, type, d) <=> Prints(q, i, type, d) \/ (e.type = type /\ e.connection = d)
  BY PrintsAppend
<1> HIDE DEF r
<1>4. \A i \in DOMAIN q : i \in DOMAIN r /\ r[i] = q[i]
  BY <1>2
<1>5. \A i \in DOMAIN q : \A type, d : d # c => (Prints(r, i, type, d) <=> Prints(q, i, type, d))
  BY <1>2, <1>3
<1>6. \A type, d : d # c => (Prints(r, 0, type, d) <=> Prints(q, 0, type, d))
  BY <1>2, <1>3
<1>7. ASSUME NEW i \in DOMAIN q, q[i].type # "ready", q[i].connection = c
      PROVE  LineLeads(r, moved, i)
  <2>1. LineLeads(q, sessions, i) /\ r[i] = q[i] /\ i \in 0..Len(q)
    BY <1>2 DEF LinesLead
  <2>2. /\ Prints(r, i, "ended", c)
        /\ Prints(r, i, "captured", c) <=> Prints(q, i, "captured", c)
    BY <1>3, <2>1
  <2> QED
    BY <1>1, <1>7, <2>1, <2>2 DEF LineLeads
<1>8. ASSUME NEW i \in DOMAIN r, i \notin DOMAIN q
      PROVE  LineLeads(r, moved, i)
  <2>1. r[i] = e
    BY <1>2, <1>8
  <2> QED
    BY <1>1, <2>1 DEF LineLeads
<1>9. ASSUME shown.active = c
      PROVE  ShownLeads(r, moved, shown)
  <2>1. /\ Prints(r, 0, "ended", c)
        /\ Prints(r, 0, "captured", c) <=> Prints(q, 0, "captured", c)
    BY <1>2, <1>3
  <2> QED
    BY <1>1, <1>9, <2>1 DEF ShownLeads
<1>10. ASSUME NEW d \in Connections, IsNewest(moved, d)
       PROVE  IsNewest(sessions, d)
  <2>1. d # c
    BY <1>1, <1>10 DEF IsNewest
  <2>2. ASSUME NEW x \in Connections, x > d
        PROVE  sessions[x] \in {"none", "open"}
    <3>1. moved[x] \in {"none", "open"}
      BY <1>10, <2>2 DEF IsNewest
    <3> QED
      BY <1>1, <3>1
  <2> QED
    BY <1>1, <1>10, <2>1, <2>2 DEF IsNewest
<1>11. Prints(q, 0, "captured", c) => Prints(r, 0, "captured", c)
  BY <1>2, <1>3
<1>12. SaysMoreOf(c, q, r) /\ OwnLinesLead(c, q, r, moved)
  <2>1. SaysMoreOf(c, q, r)
    BY <1>4, <1>5, <1>6, <1>11 DEF SaysMoreOf
  <2>2. OwnLinesLead(c, q, r, moved)
    BY <1>7, <1>8 DEF OwnLinesLead
  <2> QED
    BY <2>1, <2>2
<1>13. /\ LinesLead(r, moved) /\ ShownLeads(r, moved, shown)
       /\ NewestComes(q, sessions, shown) => NewestComes(r, moved, shown)
  <2>1. r \in Seq(Events)
    BY <1>2
  <2>2. shown.active # c \/ ShownLeads(r, moved, shown)
    BY <1>9
  <2>3. NoneIsNewer(c, r, sessions, moved)
    BY <1>10 DEF NoneIsNewer
  <2>4. CASE shown.active # c
    BY <1>1, <1>12, <2>1, <2>3, <2>4, MovedLeads, ZenonT(30)
  <2>5. CASE ShownLeads(r, moved, shown)
    BY <1>1, <1>12, <2>1, <2>3, <2>5, MovedLeads, ZenonT(30)
  <2> QED
    BY <2>2, <2>4, <2>5
<1> QED
  BY <1>13 DEF r

----------------------------------------------------------------------------
(* The steps keep what is shown true. *)

LEMMA AgentFields ==
  ASSUME SupervisorInv, NEW p \in DOMAIN agents
  PROVE  /\ agents \in Seq(AgentProcess) /\ agents[p] \in AgentProcess
         /\ agents[p].output \in Seq(Events) /\ agents[p].ready \in BOOLEAN
         /\ agents[p].sessions \in [Connections -> SessionStages] /\ agents[p].life \in Lives
         /\ menu \in Menu /\ p # 0
<1>1. agents \in Seq(AgentProcess) /\ agents[p] \in AgentProcess /\ p # 0
  BY ElementOfSeq DEF SupervisorInv, TypeOK, AgentsTyped
<1>2. menu \in Menu
  BY DEF SupervisorInv, TypeOK, ShownTyped
<1> QED
  BY <1>1, <1>2 DEF AgentProcess

LEMMA ToldTyped == SupervisorInv => Told \in Menu
<1>1. NoLobby \in Menu
  BY SupervisorAssumption DEF NoLobby, Menu, SupervisorAssumption
<1> QED
  BY <1>1 DEF Told, SupervisorInv, TypeOK, ShownTyped

(* A step of one agent that is not gone: it is the one supervised. *)
LEMMA SpeakerKeeps ==
  ASSUME SupervisorInv, ShownInv, NEW p \in DOMAIN agents, NEW a \in AgentProcess,
         agents' = [agents EXCEPT ![p] = a], agents[p].life # "gone", a.life # "gone",
         UNCHANGED controlVars, shouldRun /\ ShownOf(p) => ShownOf(p)'
  PROVE  ShownInv'
<1> SUFFICES ASSUME shouldRun
             PROVE  /\ OthersAreGone' /\ process' # 0 /\ ShownOf(process)'
  BY DEF ShownInv, controlVars
<1>1. process' = process
  BY DEF controlVars
<1>2. p = process /\ p # 0 /\ ShownOf(p)
  BY AgentFields DEF ShownInv, OthersAreGone
<1>3. DOMAIN agents' = DOMAIN agents /\ \A q \in DOMAIN agents : agents'[q] = IF q = p THEN a ELSE agents[q]
  OBVIOUS
<1>4. OthersAreGone'
  BY <1>1, <1>2, <1>3 DEF ShownInv, OthersAreGone
<1>5. ShownOf(process)'
  <2>1. ShownOf(p)'
    BY <1>2
  <2> QED
    BY <1>1, <1>2, <2>1
<1> QED
  BY <1>1, <1>2, <1>4, <1>5

(* A launch that follows the end of all agents. *)
LEMMA LaunchShows ==
  ASSUME NEW known \in Seq(AgentProcess), NEW task, Launch(task, known),
         \A q \in DOMAIN known : known[q].life = "gone"
  PROVE  ShownInv'
<1>1. /\ menu' = NoLobby /\ stale' = FALSE
      /\ Told' = NoLobby /\ Told'.active = 0 /\ ToldStatus' = status'
  BY DEF Launch, ResetLobby, NoLobby, Told, ToldStatus
<1>2. CASE LaunchSucceeds(task, known)
  <2>1. /\ process' = Len(known) + 1 /\ agents' = Append(known, NewAgent) /\ status' = "connecting"
    BY <1>2 DEF LaunchSucceeds
  <2>2. /\ Len(known) \in Nat /\ DOMAIN agents' = 1..(Len(known) + 1) /\ DOMAIN known = 1..Len(known)
        /\ \A q \in DOMAIN known : agents'[q] = known[q]
        /\ agents'[process'] = NewAgent /\ process' # 0
    BY <2>1, NewAgentTyped, AppendProperties
  <2>3. OthersAreGone'
    <3>1. NewAgent.life # "gone"
      BY DEF NewAgent
    <3> QED
      BY <2>1, <2>2, <3>1 DEF OthersAreGone
  <2>4. /\ NewAgent.output = <<>> /\ DOMAIN NewAgent.output = {}
        /\ \A c \in Connections : NewAgent.sessions[c] = "none"
    BY DEF NewAgent
  <2>5. ShownOf(process)'
    BY <1>1, <2>1, <2>2, <2>4
    DEF ShownOf, ReadyComes, LinesLead, ShownLeads, NewestComes, IsNewest
  <2> QED
    BY <2>2, <2>3, <2>5 DEF ShownInv
<1>3. CASE LaunchFails(task, known)
  <2>1. process' = 0 /\ agents' = known /\ status' # "connected"
    BY <1>3 DEF LaunchFails, ScheduleRestart
  <2>2. OthersAreGone'
    BY <2>1 DEF OthersAreGone
  <2> QED
    BY <1>1, <2>1, <2>2 DEF ShownInv
<1> QED
  BY <1>2, <1>3 DEF Launch

(* The agent that is supervised is told to terminate, and nothing is shown *)
(* of it any more but that.                                                *)
LEMMA TerminateShows ==
  ASSUME SupervisorInv, ShownInv, agents' = IF process = 0 THEN agents ELSE Terminate(process),
         ResetLobby, status' \in {"connecting", "unavailable"}, process' = process,
         shouldRun' = shouldRun
  PROVE  ShownInv'
<1>1. process \in 0..Len(agents) /\ agents \in Seq(AgentProcess)
  BY DEF SupervisorInv, TypeOK, AgentsTyped
<1>2. Told'.active = 0 /\ ToldStatus' = status'
  BY DEF ResetLobby, NoLobby, Told, ToldStatus
<1>3. CASE ~shouldRun
  BY <1>3 DEF ShownInv
<1>4. CASE shouldRun /\ process = 0
  BY <1>2, <1>4 DEF ShownInv, OthersAreGone
<1>5. CASE shouldRun /\ process # 0
  <2> DEFINE l == IF agents[process].life = "running" THEN "signalled" ELSE agents[process].life
             a == [agents[process] EXCEPT !.life = l]
  <2>1. process \in DOMAIN agents
    BY <1>1, <1>5
  <2>2. l \in Lives /\ agents[process] \in AgentProcess
    BY <2>1, AgentFields DEF Lives
  <2>3. agents' = [agents EXCEPT ![process] = a]
    BY <1>5 DEF Terminate
  <2>4. a.life = l /\ l # "running" /\ (l = "gone" <=> agents[process].life = "gone")
        /\ a.output = agents[process].output /\ a.sessions = agents[process].sessions
        /\ a.ready = agents[process].ready
    BY <2>2 DEF AgentProcess
  <2> HIDE DEF a, l
  <2>5. DOMAIN agents' = DOMAIN agents /\ agents'[process] = a
        /\ \A q \in DOMAIN agents : q # process => agents'[q] = agents[q]
    BY <2>1, <2>3
  <2>6. OthersAreGone /\ ShownOf(process)
    BY <1>5 DEF ShownInv
  <2>7. OthersAreGone'
    BY <2>4, <2>5, <2>6 DEF OthersAreGone
  <2>8. ShownOf(process)'
    <3>1. ReadyComes(a.output, a.ready, ToldStatus')
      BY <1>2, <2>4, <2>6 DEF ShownOf, ReadyComes
    <3>2. LinesLead(a.output, a.sessions)
      BY <2>4, <2>6 DEF ShownOf
    <3>3. ShownLeads(a.output, a.sessions, Told')
      BY <1>2 DEF ShownLeads
    <3> QED
      BY <2>4, <2>5, <3>1, <3>2, <3>3 DEF ShownOf
  <2> QED
    BY <1>5, <2>7, <2>8 DEF ShownInv
<1> QED
  BY <1>3, <1>4, <1>5

LEMMA NooneSpeaks ==
  ASSUME SupervisorInv, ShownInv, shouldRun, process = 0
  PROVE  \A q \in DOMAIN agents : agents[q].life = "gone"
  BY AgentFields DEF ShownInv, OthersAreGone

LEMMA StartShows == SupervisorInv /\ Start => ShownInv'
<1> SUFFICES ASSUME SupervisorInv, Start PROVE ShownInv'
  OBVIOUS
<1>1. agents \in Seq(AgentProcess) /\ DOMAIN agents = {}
  BY DEF SupervisorInv, TypeOK, AgentsTyped, LivingInv, Start
<1> QED
  BY <1>1, LaunchShows DEF Start

LEMMA RestartAgentShows ==
  ASSUME SupervisorInv, ShownInv, shouldRun, RestartAgent, shouldRun' = shouldRun
  PROVE  ShownInv'
<1>1. agents \in Seq(AgentProcess)
  BY DEF SupervisorInv, TypeOK, AgentsTyped
<1>2. CASE process = 0
  <2>1. Launch("none", agents)
    BY <1>2 DEF RestartAgent, Cancelled
  <2> QED
    BY <1>1, <1>2, <2>1, NooneSpeaks, LaunchShows
<1>3. CASE process # 0
  <2>1. /\ agents' = IF process = 0 THEN agents ELSE Terminate(process)
        /\ status' = "connecting" /\ ResetLobby /\ process' = process
    BY <1>3 DEF RestartAgent
  <2>2. status' \in {"connecting", "unavailable"}
    BY <2>1
  <2> QED
    BY <2>1, <2>2, TerminateShows
<1> QED
  BY <1>2, <1>3

(* What changes neither the agents nor what is shown. *)
LEMMA NothingShown ==
  ASSUME ShownInv, UNCHANGED <<shouldRun, process, agents, shownVars>>
  PROVE  ShownInv'
  BY DEF ShownInv, OthersAreGone, ShownOf, Told, ToldStatus, shownVars

LEMMA NetworkPathUpdateShows == SupervisorInv /\ ShownInv /\ NetworkPathUpdate => ShownInv'
<1> SUFFICES ASSUME SupervisorInv, ShownInv, NetworkPathUpdate PROVE ShownInv'
  OBVIOUS
<1> DEFINE available == Head(pathUpdates)
<1>1. CASE shouldRun /\ ~available
  <2>1. /\ agents' = IF process = 0 THEN agents ELSE Terminate(process)
        /\ status' = "unavailable" /\ ResetLobby /\ process' = process
        /\ shouldRun' = shouldRun
    BY <1>1 DEF NetworkPathUpdate
  <2>2. status' \in {"connecting", "unavailable"}
    BY <2>1
  <2> QED
    BY <2>1, <2>2, TerminateShows
<1>2. CASE ~(shouldRun /\ ~available)
  <2>1. UNCHANGED <<shouldRun, process, agents, shownVars>>
    BY <1>2 DEF NetworkPathUpdate
  <2> QED
    BY <2>1, NothingShown
<1> QED
  BY <1>1, <1>2

(* With the end of the agent that is supervised all agents are gone,       *)
(* whatever of its lines is still on its way.                              *)
LEMMA ProcessDidTerminateShows ==
  ASSUME SupervisorInv, ShownInv, NEW p \in DOMAIN agents, ProcessDidTerminate(p)
  PROVE  ShownInv'
<1>1. /\ agents \in Seq(AgentProcess) /\ agents[p] \in AgentProcess /\ p # 0
      /\ agents[p].output \in Seq(Events)
  BY AgentFields
<1>2. shouldRun' = shouldRun /\ Ended(p)
  BY DEF ProcessDidTerminate
<1>3. CASE ~shouldRun
  BY <1>2, <1>3 DEF ShownInv
<1>4. CASE shouldRun
  <2>1. OthersAreGone
    BY <1>4 DEF ShownInv
  <2>2. p = process
    BY <1>2, <2>1 DEF OthersAreGone, Ended
  <2>3. PICK k \in 0..Len(agents[p].output) :
          Replace(agents[p].life, Gone(p, SubSeq(agents[p].output, 1, k)))
    BY <2>2 DEF ProcessDidTerminate
  <2> DEFINE known == Gone(p, SubSeq(agents[p].output, 1, k))
  <2>4. SubSeq(agents[p].output, 1, k) \in Seq(Events)
    BY <1>1, PrefixTyped
  <2>5. /\ known \in Seq(AgentProcess) /\ DOMAIN known = DOMAIN agents
        /\ \A q \in DOMAIN known : known[q].life = "gone"
    <3>1. /\ known \in Seq(AgentProcess) /\ DOMAIN known = DOMAIN agents
          /\ known[p].life = "gone" /\ \A q \in DOMAIN agents : q # p => known[q] = agents[q]
      BY <1>1, <2>4, GoneTyped
    <3> HIDE DEF known
    <3> QED
      BY <2>1, <2>2, <3>1 DEF OthersAreGone
  <2>6. 0 \notin DOMAIN known
    BY <2>5, ElementOfSeq
  <2>7. Replace(agents[p].life, known)
    BY <2>3
  <2> HIDE DEF known
  <2>8. CASE \E task : Launch(task, known)
    BY <2>5, <2>8, LaunchShows
  <2>9. CASE process' = 0 /\ agents' = known /\ ResetLobby /\ status' # "connected"
    <3>1. Told'.active = 0 /\ ToldStatus' # "connected"
      BY <2>9 DEF ResetLobby, NoLobby, Told, ToldStatus
    <3>2. OthersAreGone'
      BY <2>5, <2>6, <2>9 DEF OthersAreGone
    <3> QED
      BY <2>9, <3>1, <3>2 DEF ShownInv
  <2> QED
    BY <2>7, <2>8, <2>9 DEF Replace, ScheduleRestart
<1> QED
  BY <1>3, <1>4

(* A line of an agent that is gone: what it changes is stale. *)
LEMMA LateLineShows ==
  ASSUME SupervisorInv, ShownInv, shouldRun, NEW p \in DOMAIN agents, ConsumeLine(p),
         p # process
  PROVE  ShownInv'
<1> DEFINE a == [agents[p] EXCEPT !.output = Tail(@)]
<1>1. agents[p] \in AgentProcess /\ agents \in Seq(AgentProcess)
  BY AgentFields
<1>2. agents' = [agents EXCEPT ![p] = a] /\ a.life = agents[p].life
  BY <1>1 DEF ConsumeLine, AgentProcess
<1> HIDE DEF a
<1>3. /\ DOMAIN agents' = DOMAIN agents
      /\ \A q \in DOMAIN agents : q # p => agents'[q] = agents[q]
      /\ agents'[p].life = agents[p].life
  BY <1>2
<1>4. UNCHANGED controlVars /\ shouldRun' = shouldRun /\ process' = process
  BY DEF ConsumeLine, controlVars
<1>5. OthersAreGone'
  BY <1>3, <1>4 DEF ShownInv, OthersAreGone
<1>6. \/ stale' = TRUE
      \/ stale' = FALSE /\ stale = FALSE /\ menu' = menu /\ status' = status
  BY Zenon DEF ConsumeLine, SupervisorInv, TypeOK, ShownTyped
<1>7. CASE process = 0
  <2>1. Told'.active = 0 /\ ToldStatus' # "connected"
    BY <1>6, <1>7 DEF ShownInv, Told, ToldStatus, NoLobby
  <2> QED
    BY <1>4, <1>5, <1>7, <2>1 DEF ShownInv
<1>8. CASE process # 0
  <2>1. agents'[process] = agents[process] /\ ShownOf(process)
    <3>1. process \in DOMAIN agents
      BY <1>8 DEF SupervisorInv, TypeOK, AgentsTyped
    <3> QED
      BY <1>3, <1>8, <3>1 DEF ShownInv
  <2>2. CASE stale' = TRUE
    <3>1. Told'.active = 0 /\ ToldStatus' # "connected"
      BY <2>2 DEF Told, ToldStatus, NoLobby
    <3>2. ReadyComes(agents[process].output, agents[process].ready, ToldStatus')
      BY <2>1, <3>1 DEF ShownOf, ReadyComes
    <3>3. ShownLeads(agents[process].output, agents[process].sessions, Told')
      BY <3>1 DEF ShownLeads
    <3>4. LinesLead(agents[process].output, agents[process].sessions)
      BY <2>1 DEF ShownOf
    <3>5. ShownOf(process)'
      BY <1>4, <2>1, <2>2, <3>2, <3>3, <3>4 DEF ShownOf
    <3> QED
      BY <1>4, <1>5, <1>8, <3>5 DEF ShownInv
  <2>3. CASE stale' = FALSE /\ stale = FALSE /\ menu' = menu /\ status' = status
    <3>1. Told' = Told /\ ToldStatus' = ToldStatus /\ stale' = stale
      BY <2>3 DEF Told, ToldStatus
    <3>2. ShownOf(process)'
      BY <1>4, <2>1, <3>1 DEF ShownOf
    <3> QED
      BY <1>4, <1>5, <1>8, <3>2 DEF ShownInv
  <2> QED
    BY <1>6, <2>2, <2>3
<1> QED
  BY <1>7, <1>8

(* A line of the agent that is supervised brings what is shown nearer to   *)
(* what it prints last, unless that is stale already.                      *)
LEMMA ConsumeLineShows ==
  ASSUME SupervisorInv, ShownInv, NEW p \in DOMAIN agents, ConsumeLine(p)
  PROVE  ShownInv'
<1> DEFINE q == agents[p].output
           e == Head(q)
           a == [agents[p] EXCEPT !.output = Tail(@)]
<1>1. /\ agents[p] \in AgentProcess /\ menu \in Menu /\ q \in Seq(Events)
      /\ agents[p].sessions \in [Connections -> SessionStages]
      /\ agents \in Seq(AgentProcess)
  BY AgentFields
<1>2. /\ q # <<>> /\ agents' = [agents EXCEPT ![p] = a] /\ menu' = Displayed(e)
      /\ status' = IF e.type = "ready" THEN "connected" ELSE status
      /\ UNCHANGED controlVars
  BY DEF ConsumeLine
<1>3. Tail(q) \in Seq(Events) /\ e = q[1] /\ 1 \in DOMAIN q
      /\ \A i \in DOMAIN Tail(q) : i + 1 \in DOMAIN q /\ Tail(q)[i] = q[i + 1]
  BY <1>1, <1>2, PrintsTail
<1>4. /\ a \in AgentProcess /\ a.life = agents[p].life /\ a.ready = agents[p].ready
      /\ a.sessions = agents[p].sessions /\ a.output = Tail(q)
  BY <1>1, <1>3 DEF AgentProcess
<1>5. agents'[p] = a
  BY <1>1, <1>2
<1> HIDE DEF a
<1>6. CASE ~shouldRun
  BY <1>2, <1>6 DEF ShownInv, controlVars
<1>7. CASE shouldRun /\ p # process
  BY <1>7, LateLineShows
<1>8. CASE shouldRun /\ p = process
  <2>1. agents[p].life # "gone"
    BY <1>8 DEF ShownInv, OthersAreGone
  <2>2. stale' = stale /\ stale \in BOOLEAN
    BY <1>8, Zenon DEF ConsumeLine, SupervisorInv, TypeOK, ShownTyped
  <2>3. ASSUME ShownOf(p)
        PROVE  ShownOf(p)'
    <3>1. LinesLead(q, agents[p].sessions) /\ ShownLeads(q, agents[p].sessions, Told)
      BY <2>3 DEF ShownOf
    <3>2. ReadyComes(q, agents[p].ready, ToldStatus)
      BY <2>3 DEF ShownOf
    <3>3. ~stale /\ agents[p].life = "running" => NewestComes(q, agents[p].sessions, Told)
      BY <2>3 DEF ShownOf
    <3> HIDE DEF q
    <3>4. LinesLead(Tail(q), agents[p].sessions)
      BY <1>1, <1>2, <3>1, LinesTail
    <3>5. CASE stale
      <4>1. Told'.active = 0 /\ ToldStatus' = "connecting" /\ ToldStatus = "connecting"
        BY <2>2, <3>5 DEF Told, ToldStatus, NoLobby
      <4>2. ReadyComes(Tail(q), agents[p].ready, ToldStatus')
        BY <1>3, <3>2, <4>1 DEF ReadyComes
      <4>3. ShownLeads(Tail(q), agents[p].sessions, Told')
        BY <4>1 DEF ShownLeads
      <4> QED
        BY <1>4, <1>5, <2>2, <3>4, <3>5, <4>2, <4>3 DEF ShownOf
    <3>6. CASE ~stale
      <4>1. Told = menu /\ ToldStatus = status /\ Told' = menu' /\ ToldStatus' = status'
        BY <2>2, <3>6 DEF Told, ToldStatus
      <4>2. /\ ShownLeads(Tail(q), agents[p].sessions, menu')
            /\ NewestComes(q, agents[p].sessions, menu) =>
                 NewestComes(Tail(q), agents[p].sessions, menu')
        BY <1>1, <1>2, <3>1, <4>1, DisplayedLeads
      <4>3. ReadyComes(Tail(q), agents[p].ready, status')
        <5> HIDE DEF e
        <5> QED
          BY <1>2, <1>3, <3>2, <4>1 DEF ReadyComes
      <4> QED
        BY <1>4, <1>5, <3>3, <3>4, <3>6, <4>1, <4>2, <4>3 DEF ShownOf
    <3> QED
      BY <3>5, <3>6
  <2> QED
    BY <1>2, <1>4, <2>1, <2>3, SpeakerKeeps
<1> QED
  BY <1>6, <1>7, <1>8

(* What an agent prints of one of its sessions leads to where it moved. *)
LEMMA SessionShows ==
  ASSUME SupervisorInv, ShownInv, NEW p \in DOMAIN agents, NEW r \in Seq(Events),
         NEW moved \in [Connections -> SessionStages],
         agents' = [agents EXCEPT ![p].sessions = moved, ![p].output = r],
         Alive(p), UNCHANGED <<controlVars, shownVars>>,
         \A i \in DOMAIN r : r[i].type = "ready" => \E j \in DOMAIN agents[p].output :
            agents[p].output[j].type = "ready",
         LinesLead(agents[p].output, agents[p].sessions) /\
         ShownLeads(agents[p].output, agents[p].sessions, Told) =>
           /\ LinesLead(r, moved) /\ ShownLeads(r, moved, Told)
           /\ NewestComes(agents[p].output, agents[p].sessions, Told) => NewestComes(r, moved, Told)
  PROVE  ShownInv'
<1> DEFINE a == [agents[p] EXCEPT !.sessions = moved, !.output = r]
<1>1. agents[p] \in AgentProcess /\ agents \in Seq(AgentProcess)
  BY AgentFields
<1>2. /\ a \in AgentProcess /\ a.life = agents[p].life /\ a.ready = agents[p].ready
      /\ a.sessions = moved /\ a.output = r
  BY <1>1 DEF AgentProcess
<1>3. agents' = [agents EXCEPT ![p] = a] /\ agents'[p] = a
  BY <1>1
<1> HIDE DEF a
<1>4. agents[p].life # "gone" /\ UNCHANGED controlVars
      /\ Told' = Told /\ ToldStatus' = ToldStatus /\ stale' = stale
  BY DEF Alive, shownVars, Told, ToldStatus
<1>5. ASSUME ShownOf(p)
      PROVE  ShownOf(p)'
  <2>1. /\ LinesLead(r, moved) /\ ShownLeads(r, moved, Told)
        /\ ~stale /\ agents[p].life = "running" => NewestComes(r, moved, Told)
    BY <1>5 DEF ShownOf
  <2>2. ReadyComes(r, agents[p].ready, ToldStatus)
    BY <1>5 DEF ShownOf, ReadyComes
  <2> QED
    BY <1>2, <1>3, <1>4, <2>1, <2>2 DEF ShownOf
<1> QED
  BY <1>2, <1>3, <1>4, <1>5, SpeakerKeeps

(* A session that moves, with the line it prints. *)
LEMMA SessionMovesShows ==
  ASSUME SupervisorInv, ShownInv, NEW p \in DOMAIN agents, NEW c \in Connections
  PROVE  /\ Accept(p, c) => ShownInv'
         /\ CaptureJoin(p, c) => ShownInv'
         /\ JoinLobby(p, c) => ShownInv'
         /\ EndSession(p, c) => ShownInv'
<1> DEFINE q == agents[p].output
           sessions == agents[p].sessions
<1>1. /\ q \in Seq(Events) /\ sessions \in [Connections -> SessionStages] /\ Told \in Menu
      /\ agents[p] \in AgentProcess /\ agents \in Seq(AgentProcess)
  BY AgentFields, ToldTyped
<1>3. ASSUME Accept(p, c)
      PROVE  ShownInv'
  <2>1. SessionMoves(p, c, {"none"}, "open", <<>>)
    BY <1>3 DEF Accept
  <2>2. q \o <<>> = q
    BY <1>1, ConcatEmptySeq
  <2> DEFINE moved == [sessions EXCEPT ![c] = "open"]
  <2> HIDE DEF q, sessions
  <2>3. /\ agents' = [agents EXCEPT ![p].sessions = moved, ![p].output = q]
        /\ moved \in [Connections -> SessionStages] /\ sessions[c] = "none"
        /\ Alive(p) /\ UNCHANGED <<controlVars, shownVars>>
    <3>1. "open" \in SessionStages
      BY DEF SessionStages
    <3>2. /\ agents' = [agents EXCEPT ![p].sessions = moved, ![p].output = q \o <<>>]
          /\ moved \in [Connections -> SessionStages] /\ sessions[c] \in {"none"}
          /\ Alive(p) /\ UNCHANGED <<controlVars, shownVars>>
      BY <1>1, <2>1, <3>1 DEF SessionMoves, q, sessions
    <3> HIDE DEF moved
    <3> QED
      BY <2>2, <3>2
  <2>4. LinesLead(q, sessions) /\ ShownLeads(q, sessions, Told) =>
          /\ LinesLead(q, moved) /\ ShownLeads(q, moved, Told)
          /\ NewestComes(q, sessions, Told) => NewestComes(q, moved, Told)
    BY <1>1, <2>3, AcceptLeads
  <2> USE DEF q, sessions
  <2> HIDE DEF moved
  <2> QED
    BY <1>1, <2>3, <2>4, SessionShows
<1>4. ASSUME NEW to \in SessionStages, NEW e \in Events, e.type # "ready",
             NEW from, SessionMoves(p, c, from, to, <<e>>),
             LinesLead(q, sessions) /\ ShownLeads(q, sessions, Told) =>
               /\ LinesLead(Append(q, e), [sessions EXCEPT ![c] = to])
               /\ ShownLeads(Append(q, e), [sessions EXCEPT ![c] = to], Told)
               /\ NewestComes(q, sessions, Told) =>
                    NewestComes(Append(q, e), [sessions EXCEPT ![c] = to], Told)
      PROVE  ShownInv'
  <2> DEFINE moved == [sessions EXCEPT ![c] = to]
             r == Append(q, e)
  <2>1. /\ r \in Seq(Events) /\ q \o <<e>> = r
        /\ \A i \in DOMAIN q : r[i] = q[i]
        /\ \A i \in DOMAIN r : i \in DOMAIN q \/ i = Len(q) + 1
        /\ r[Len(q) + 1] = e
    BY <1>1, PrintsAppend
  <2>2. /\ agents' = [agents EXCEPT ![p].sessions = moved, ![p].output = r]
        /\ moved \in [Connections -> SessionStages]
        /\ Alive(p) /\ UNCHANGED <<controlVars, shownVars>>
    <3> HIDE DEF q, sessions, r
    <3>1. /\ agents' = [agents EXCEPT ![p].sessions = moved, ![p].output = q \o <<e>>]
          /\ moved \in [Connections -> SessionStages]
          /\ Alive(p) /\ UNCHANGED <<controlVars, shownVars>>
      BY <1>1, <1>4 DEF SessionMoves, q, sessions
    <3> QED
      BY <2>1, <3>1
  <2>3. LinesLead(q, sessions) /\ ShownLeads(q, sessions, Told) =>
          /\ LinesLead(r, moved) /\ ShownLeads(r, moved, Told)
          /\ NewestComes(q, sessions, Told) => NewestComes(r, moved, Told)
    BY <1>4
  <2> HIDE DEF moved, r
  <2>4. \A i \in DOMAIN r : r[i].type = "ready" => \E j \in DOMAIN q : q[j].type = "ready"
    BY <1>4, <2>1
  <2> QED
    BY <2>1, <2>2, <2>3, <2>4, SessionShows
<1>5. ASSUME NEW from, NEW to \in SessionStages, NEW lines, SessionMoves(p, c, from, to, lines)
      PROVE  sessions[c] \in from
  BY <1>5 DEF SessionMoves
<1>6. ASSUME CaptureJoin(p, c)
      PROVE  ShownInv'
  <2> DEFINE e == [type |-> "captured", connection |-> c]
  <2>1. e \in Events /\ e.type = "captured" /\ e.connection = c
    BY DEF Events
  <2>2. SessionMoves(p, c, {"open"}, "captured", <<e>>) /\ "captured" \in SessionStages
    BY <1>6 DEF CaptureJoin, SessionStages
  <2> HIDE DEF e, q, sessions
  <2>3. sessions[c] = "open"
    BY <1>5, <2>2
  <2>4. LinesLead(q, sessions) /\ ShownLeads(q, sessions, Told) =>
          /\ LinesLead(Append(q, e), [sessions EXCEPT ![c] = "captured"])
          /\ ShownLeads(Append(q, e), [sessions EXCEPT ![c] = "captured"], Told)
          /\ NewestComes(q, sessions, Told) =>
               NewestComes(Append(q, e), [sessions EXCEPT ![c] = "captured"], Told)
    BY <1>1, <2>1, <2>3, CaptureLeads
  <2> QED
    BY <1>4, <2>1, <2>2, <2>4
<1>7. ASSUME JoinLobby(p, c)
      PROVE  ShownInv'
  <2> DEFINE e == [type |-> "joined", connection |-> c]
  <2>1. e \in Events /\ e.type = "joined" /\ e.connection = c
    BY DEF Events
  <2>2. SessionMoves(p, c, {"captured"}, "joined", <<e>>) /\ "joined" \in SessionStages
    BY <1>7 DEF JoinLobby, SessionStages
  <2> HIDE DEF e, q, sessions
  <2>3. sessions[c] = "captured"
    BY <1>5, <2>2
  <2>4. LinesLead(q, sessions) /\ ShownLeads(q, sessions, Told) =>
          /\ LinesLead(Append(q, e), [sessions EXCEPT ![c] = "joined"])
          /\ ShownLeads(Append(q, e), [sessions EXCEPT ![c] = "joined"], Told)
          /\ NewestComes(q, sessions, Told) =>
               NewestComes(Append(q, e), [sessions EXCEPT ![c] = "joined"], Told)
    BY <1>1, <2>1, <2>3, JoinLeads
  <2> QED
    BY <1>4, <2>1, <2>2, <2>4
<1>8. ASSUME EndSession(p, c)
      PROVE  ShownInv'
  <2>1. PICK error \in BOOLEAN :
          SessionMoves(p, c, {"open", "captured", "joined"}, "ended",
                       <<[type |-> "ended", connection |-> c, error |-> error]>>)
    BY <1>8 DEF EndSession
  <2> DEFINE e == [type |-> "ended", connection |-> c, error |-> error]
  <2>2. e \in Events /\ e.type = "ended" /\ e.connection = c /\ "ended" \in SessionStages
    BY DEF Events, SessionStages
  <2>3. SessionMoves(p, c, {"open", "captured", "joined"}, "ended", <<e>>)
    BY <2>1
  <2> HIDE DEF e, q, sessions
  <2>4. sessions[c] \in {"open", "captured", "joined"}
    BY <1>5, <2>2, <2>3
  <2>5. LinesLead(q, sessions) /\ ShownLeads(q, sessions, Told) =>
          /\ LinesLead(Append(q, e), [sessions EXCEPT ![c] = "ended"])
          /\ ShownLeads(Append(q, e), [sessions EXCEPT ![c] = "ended"], Told)
          /\ NewestComes(q, sessions, Told) =>
               NewestComes(Append(q, e), [sessions EXCEPT ![c] = "ended"], Told)
    BY <1>1, <2>2, <2>4, EndLeads
  <2> QED
    BY <1>4, <2>2, <2>3, <2>5
<1> QED
  BY <1>3, <1>6, <1>7, <1>8

LEMMA AgentStepShows ==
  ASSUME SupervisorInv, ShownInv, NEW p \in DOMAIN agents, AgentStep(p)
  PROVE  ShownInv'
<1>1. /\ agents[p] \in AgentProcess /\ agents \in Seq(AgentProcess)
      /\ agents[p].output \in Seq(Events)
  BY AgentFields
<1>2. CASE AgentReady(p)
  <2> DEFINE q == agents[p].output
             e == [type |-> "ready"]
             r == Append(q, e)
             a == [agents[p] EXCEPT !.ready = TRUE, !.output = r]
  <2>1. e \in Events /\ e.type = "ready"
    BY DEF Events
  <2> HIDE DEF e
  <2>2. /\ r \in Seq(Events)
        /\ \A i \in DOMAIN q : i \in DOMAIN r /\ r[i] = q[i]
        /\ \A i \in DOMAIN r : i \in DOMAIN q \/ i = Len(q) + 1
        /\ r[Len(q) + 1] = e
    BY <1>1, <2>1, PrintsAppend
  <2>3. \A i \in 0..Len(q) : \A type, c : type # "ready" =>
          (Prints(r, i, type, c) <=> Prints(q, i, type, c))
    BY <1>1, <2>1, PrintsAppend
  <2>4. \A i \in DOMAIN q : i \in 0..Len(q)
    BY <1>1
  <2> HIDE DEF r
  <2>5. /\ a \in AgentProcess /\ a.life = agents[p].life /\ a.ready = TRUE
        /\ a.sessions = agents[p].sessions /\ a.output = r
    BY <1>1, <2>2 DEF AgentProcess
  <2>6. agents' = [agents EXCEPT ![p] = a]
    BY <1>2 DEF AgentReady, r, e
  <2>7. agents'[p] = a /\ Alive(p) /\ UNCHANGED controlVars
        /\ Told' = Told /\ ToldStatus' = ToldStatus /\ stale' = stale
    BY <1>1, <1>2, <2>6 DEF AgentReady, shownVars, Told, ToldStatus
  <2> HIDE DEF a
  <2>8. ASSUME ShownOf(p)
        PROVE  ShownOf(p)'
    <3>0. 0 \in 0..Len(q)
      BY <1>1
    <3>1. LinesLead(r, agents[p].sessions)
      <4> SUFFICES ASSUME NEW i \in DOMAIN r
                   PROVE  LineLeads(r, agents[p].sessions, i)
        BY DEF LinesLead
      <4>1. CASE i \in DOMAIN q
        <5>1. LineLeads(q, agents[p].sessions, i)
          BY <2>8, <4>1 DEF ShownOf, LinesLead
        <5> HIDE DEF q
        <5>2. \A type, c : type # "ready" => (Prints(r, i, type, c) <=> Prints(q, i, type, c))
          BY <2>3, <2>4, <4>1
        <5> QED
          BY <2>2, <4>1, <5>1, <5>2 DEF LineLeads
      <4>2. CASE i = Len(q) + 1
        BY <2>1, <2>2, <4>2 DEF LineLeads
      <4> QED
        BY <2>2, <4>1, <4>2
    <3>2. ShownLeads(r, agents[p].sessions, Told)
      <4>1. ShownLeads(q, agents[p].sessions, Told)
        BY <2>8 DEF ShownOf
      <4> HIDE DEF q
      <4> QED
        BY <2>3, <3>0, <4>1 DEF ShownLeads
    <3>3. ~stale /\ agents[p].life = "running" => NewestComes(r, agents[p].sessions, Told)
      <4>1. ~stale /\ agents[p].life = "running" => NewestComes(q, agents[p].sessions, Told)
        BY <2>8 DEF ShownOf
      <4> HIDE DEF q
      <4> QED
        BY <2>3, <3>0, <4>1 DEF NewestComes
    <3> QED
      BY <2>5, <2>7, <3>1, <3>2, <3>3 DEF ShownOf, ReadyComes
  <2>9. agents[p].life # "gone"
    BY <2>7 DEF Alive
  <2> QED
    BY <2>5, <2>6, <2>7, <2>8, <2>9, SpeakerKeeps
<1>3. CASE AgentEnds(p)
  <2>1. PICK life \in {"clean", "failed"} : agents' = [agents EXCEPT ![p].life = life]
    BY <1>3 DEF AgentEnds
  <2> DEFINE a == [agents[p] EXCEPT !.life = life]
  <2>2. /\ a \in AgentProcess /\ a.life = life /\ a.ready = agents[p].ready
        /\ a.sessions = agents[p].sessions /\ a.output = agents[p].output
    BY <1>1 DEF AgentProcess, Lives
  <2>3. agents' = [agents EXCEPT ![p] = a] /\ agents'[p] = a
    BY <1>1, <2>1
  <2>4. /\ agents[p].life # "gone" /\ UNCHANGED controlVars
        /\ Told' = Told /\ ToldStatus' = ToldStatus /\ stale' = stale
    BY <1>3 DEF AgentEnds, Alive, shownVars, Told, ToldStatus
  <2> HIDE DEF a
  <2>5. ASSUME ShownOf(p)
        PROVE  ShownOf(p)'
    BY <2>2, <2>3, <2>4, <2>5 DEF ShownOf
  <2> QED
    BY <2>2, <2>3, <2>4, <2>5, SpeakerKeeps
<1> QED
  BY <1>2, <1>3, SessionMovesShows DEF AgentStep

LEMMA ShownKept == SupervisorInv /\ ShownInv /\ [Next]_vars => ShownInv'
<1> SUFFICES ASSUME SupervisorInv, ShownInv, [Next]_vars PROVE ShownInv'
  OBVIOUS
<1>1. CASE Start
  BY <1>1, StartShows
<1>2. CASE Restart
  BY <1>2, RestartAgentShows DEF Restart
<1>3. CASE Stop
  BY <1>3 DEF Stop, ShownInv
<1>4. CASE RetryFires
  <2>1. agents \in Seq(AgentProcess) /\ shouldRun /\ process = 0
    BY <1>4 DEF RetryFires, SupervisorInv, TypeOK, AgentsTyped, TasksInv
  <2> QED
    BY <1>4, <2>1, NooneSpeaks, LaunchShows DEF RetryFires
<1>5. CASE NetworkPathUpdate
  BY <1>5, NetworkPathUpdateShows
<1>6. CASE NetworkRestart
  BY <1>6, RestartAgentShows DEF NetworkRestart, SupervisorInv, TasksInv
<1>7. CASE PathChange
  <2>1. UNCHANGED <<shouldRun, process, agents, shownVars>>
    BY <1>7 DEF PathChange, controlVars
  <2> QED
    BY <2>1, NothingShown
<1>8. ASSUME NEW p \in DOMAIN agents, ProcessDidTerminate(p) \/ ConsumeLine(p) \/ AgentStep(p)
      PROVE  ShownInv'
  BY <1>8, ProcessDidTerminateShows, ConsumeLineShows, AgentStepShows
<1>9. CASE UNCHANGED vars
  <2>1. UNCHANGED <<shouldRun, process, agents, shownVars>>
    BY <1>9 DEF vars, controlVars
  <2> QED
    BY <2>1, NothingShown
<1> QED
  BY <1>1, <1>2, <1>3, <1>4, <1>5, <1>6, <1>7, <1>8, <1>9 DEF Next

LEMMA ShownFollows == SupervisorInv /\ ShownInv => ShownIsTrue
<1> SUFFICES ASSUME SupervisorInv, ShownInv, ~stale
             PROVE  ConnectedMeansReady /\ MenuFollowsNewest /\ NoStaleLobby
  BY DEF ShownIsTrue
<1>0. Told = menu /\ ToldStatus = status
  BY DEF Told, ToldStatus
<1>1. process # 0 => shouldRun /\ process \in DOMAIN agents
  BY DEF SupervisorInv, TypeOK, AgentsTyped, TasksInv
<1>2. ConnectedMeansReady
  BY <1>0 DEF ShownInv, ShownOf, ReadyComes, ConnectedMeansReady
<1>3. MenuFollowsNewest
  <2> SUFFICES ASSUME process # 0, agents[process].life = "running", agents[process].output = <<>>
               PROVE  LET sessions == agents[process].sessions IN
                      /\ menu.active # 0 =>
                           /\ sessions[menu.active] \in {"captured", "joined"}
                           /\ menu.joined = (sessions[menu.active] = "joined")
                      /\ \A c \in Connections :
                           /\ sessions[c] \in {"captured", "joined"}
                           /\ \A d \in Connections : d > c => sessions[d] \in {"none", "open"}
                           => menu.active = c
    BY DEF MenuFollowsNewest
  <2>1. ShownOf(process)
    BY <1>1 DEF ShownInv
  <2>2. \A type, c : ~Prints(<<>>, 0, type, c)
    BY DEF Prints
  <2>3. menu.joined \in BOOLEAN
    BY DEF SupervisorInv, TypeOK, ShownTyped, Menu
  <2>4. /\ ShownLeads(<<>>, agents[process].sessions, menu)
        /\ NewestComes(<<>>, agents[process].sessions, menu)
    BY <1>0, <2>1 DEF ShownOf
  <2>5. menu.active # 0 =>
          \/ agents[process].sessions[menu.active] = "captured" /\ ~menu.joined
          \/ agents[process].sessions[menu.active] = "joined" /\ menu.joined
    BY <2>2, <2>4 DEF ShownLeads
  <2> QED
    BY <2>2, <2>3, <2>4, <2>5 DEF NewestComes, IsNewest
<1>4. NoStaleLobby
  BY <1>0 DEF ShownInv, ShownOf, ShownLeads, NoStaleLobby
<1> QED
  BY <1>2, <1>3, <1>4

(* The menu bar tells the truth about the agent that runs now, however     *)
(* many agents, connections, restarts and network changes there were:      *)
(* connected only when that agent is ready, its newest session once its    *)
(* lines are read, and no session of an agent that is gone; unless a line  *)
(* of an agent that is gone changed it since the last reset.  Nothing else *)
(* can make it false, and every launch and restart makes it true again.    *)
THEOREM ShownIsTrueAlways == Spec => []ShownIsTrue
<1>1. Init => ShownInv
  BY DEF Init, ShownInv
<1>2. SupervisorInv /\ ShownInv /\ [Next]_vars => ShownInv'
  BY ShownKept
<1> QED
  BY <1>1, <1>2, SupervisorInductive, ShownFollows, PTL DEF Spec
=============================================================================
