---------------------------- MODULE MCSupervisor ----------------------------
(* The agent supervisor for TLC.  Launches, connections and network        *)
(* changes multiply, so a behaviour has many of one kind and few of the    *)
(* others: it chooses its bounds at the start, and takes the steps of the  *)
(* supervisor that stay within them.                                       *)
EXTENDS AgentSupervisorProperties

VARIABLE bounds

mcVars == <<vars, bounds>>

Bounds ==
  {[launches |-> 3, connections |-> 0, pathChanges |-> 3],
   [launches |-> 2, connections |-> 1, pathChanges |-> 0],
   [launches |-> 1, connections |-> 2, pathChanges |-> 0]}

(* A step by the action A of the supervisor. *)
Bounded(A) ==
  /\ A
  /\ attempts' <= bounds.launches /\ pathChanges' <= bounds.pathChanges
  /\ \A p \in DOMAIN agents', c \in Connections :
       c > bounds.connections => agents'[p].sessions[c] = "none"
  /\ UNCHANGED bounds

MCInit == Init /\ bounds \in Bounds

(* What must happen, asked of the behaviours of many launches:             *)
(* the main actor runs what is due, sleeps end, and an agent that is told  *)
(* to terminate does.                                                      *)
Live(A) == bounds.launches = MaxLaunches /\ Bounded(A)

MCSpec ==
  /\ MCInit
  /\ [][Bounded(Next)]_mcVars
  /\ WF_mcVars(Live(RetryFires))
  /\ WF_mcVars(Live(NetworkPathUpdate))
  /\ WF_mcVars(Live(NetworkRestart))
  /\ WF_mcVars(Live(\E p \in DOMAIN agents : ProcessDidTerminate(p)))
  /\ WF_mcVars(Live(\E p \in DOMAIN agents : ConsumeLine(p)))
  /\ WF_mcVars(Live(\E p \in DOMAIN agents : agents[p].life = "signalled" /\ AgentEnds(p)))

(* The agent is launched again after any end, however often it failed.     *)
ComesBack == bounds.launches = MaxLaunches => AgentComesBack
=============================================================================
