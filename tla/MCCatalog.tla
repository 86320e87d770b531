----------------------------- MODULE MCCatalog -----------------------------
(* What an agent gets from its server: the lobbies of the catalogue, which *)
(* it lists in Warcraft, and the map of each.  AgentCatalog and MapService *)
(* see different sides of one catalogue and share no state, so a behaviour *)
(* takes the steps of one of them, `component'.                            *)
EXTENDS AgentCatalog, MapService

VARIABLE component

Lobby(game, version) == [game |-> game, version |-> version]

(* Two lobbies that change, come and go, and a catalogue that is not       *)
(* valid.                                                                  *)
MCCatalogs ==
  {<<Lobby("a", 1), Lobby("b", 1)>>, <<Lobby("a", 2)>>, <<Lobby("b", 1)>>, <<>>}

ASSUME BothAssumption == CatalogAssumption /\ ServiceAssumption

MCVars == <<component, vars, serviceVars>>

MCInit ==
  /\ component \in {"agent", "service"}
  /\ Init /\ (component # "agent" => catalog = <<>> /\ foreign = {})
  /\ ServiceInit
  /\ component # "service" =>
       /\ build = [map |-> "m1", spelling |-> "small"] /\ path = 1
       /\ config = [token |-> "t1", public |-> TRUE]

(* A step of one part, by the action A of its module. *)
AgentSteps(A) == component = "agent" /\ A /\ UNCHANGED <<component, serviceVars>>
ServiceSteps(A) == component = "service" /\ A /\ UNCHANGED <<component, vars>>

MCNext == AgentSteps(Next) \/ ServiceSteps(ServiceNext)

(* The supervisor starts the agent, the agent runs and an outage ends; and *)
(* for every lobby the system, which picks ports at random, picks some     *)
(* time one that is free on both addresses.  An agent asks for the         *)
(* catalogue every 30 seconds and reads what it is sent; its player tries  *)
(* to join again when a map did not come.                                  *)
Fairness ==
  /\ WF_MCVars(AgentSteps(Start)) /\ WF_MCVars(AgentSteps(Agent))
  /\ WF_MCVars(AgentSteps(ReachServer))
  /\ \A n \in 1..2 : SF_MCVars(AgentSteps(BindsFor(n)))
  /\ \A a \in Agents :
       /\ WF_MCVars(ServiceSteps(FetchEntry(a)))
       /\ WF_MCVars(ServiceSteps(Request(a) \/ Read(a) \/ AskAgain(a)))

MCSpec == MCInit /\ [][MCNext]_MCVars /\ Fairness
=============================================================================
