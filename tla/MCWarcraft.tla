---------------------------- MODULE MCWarcraft -----------------------------
(* What comes from a Warcraft and what it is told: its frames as its agent *)
(* reads them, the way of a message through agents and room, the rosters   *)
(* and updates of the others, the splitting of the players' actions into   *)
(* frames, the rounds of checksums by which the room compares what they    *)
(* did to each Warcraft, and the map: the loads by which the agent comes   *)
(* to have it and the transfer in parts.                                   *)
(*                                                                         *)
(* These share no state: each leaves open what it awaits of another, as a  *)
(* transfer how its load ends.  So what holds of each holds of all side by *)
(* side, and a behaviour takes the steps of one of them, `component'.      *)
EXTENDS FrameReader, Relay, AgentRoster, ActionFrames, ChecksumRounds, MapCache, MapTransfer

VARIABLE component

MCText(size, special, isCommand) ==
  [bytes |-> size, escaped |-> special, control |-> FALSE, utf8 |-> TRUE,
   command |-> isCommand]

(* Two names, the longest, which JSON doubles, and one that is a command,  *)
(* the longest chat, and a longer one.                                     *)
MCTexts ==
  {MCText(15, 15, FALSE), MCText(6, 0, TRUE), MCText(254, 254, FALSE), MCText(255, 0, FALSE)}

ASSUME AllAssumption ==
  SplitAssumption /\ RoundsAssumption /\ RelayAssumption

(* RelayAssumption has it for the players here, this for the 23 that a map *)
(* may have: a roster of the longest names fits.                           *)
ASSUME FullRosterFits == ControlFits(23 * (SeatBytes + 2 * MaxName))

queueVars == <<splitVars, roundsVars>>
tunnelVars == <<vars, rosterVars>>
mapVars == <<cacheVars, transferVars>>

MCVars == <<component, readerVars, tunnelVars, queueVars, mapVars>>

MCInit ==
  /\ component \in {"reader", "relay", "roster", "split", "rounds", "cache", "transfer"}
  /\ ReaderInit /\ Init /\ RosterInit /\ RoundsInit
  /\ SplitInit /\ (component # "split" => actions = <<>>)
  /\ CacheInit /\ (component # "cache" => installed = "other" /\ cacheFile = "other")
  /\ TransferInit /\ (component # "transfer" => honest /\ ~complete)

(* A step of one part, by the action A of its module. *)
StepOf(part, A) == component = part /\ A /\ UNCHANGED component
ReaderStep(A) == StepOf("reader", A) /\ UNCHANGED <<tunnelVars, queueVars, mapVars>>
RelayStep(A) == StepOf("relay", A) /\ UNCHANGED <<readerVars, rosterVars, queueVars, mapVars>>
RosterStep(A) == StepOf("roster", A) /\ UNCHANGED <<readerVars, vars, queueVars, mapVars>>
SplitStep(A) == StepOf("split", A) /\ UNCHANGED <<readerVars, tunnelVars, roundsVars, mapVars>>
RoundsStep(A) == StepOf("rounds", A) /\ UNCHANGED <<readerVars, tunnelVars, splitVars, mapVars>>
CacheStep(A) == StepOf("cache", A) /\ UNCHANGED <<readerVars, tunnelVars, queueVars, transferVars>>
TransferStep(A) == StepOf("transfer", A) /\ UNCHANGED <<readerVars, tunnelVars, queueVars, cacheVars>>

MCNext ==
  \/ ReaderStep(ReaderNext)
  \/ RelayStep(Next) \/ RosterStep(RosterNext)
  \/ SplitStep(SplitNext) \/ RoundsStep(RoundsNext)
  \/ CacheStep(CacheNext) \/ TransferStep(TransferNext)

(* The select loop of a session runs its interval and reads its frames and *)
(* time passes, however silent Warcraft and the load may be; the requests  *)
(* of a load time out.                                                     *)
Fairness ==
  /\ WF_MCVars(TransferStep(Advance)) /\ WF_MCVars(TransferStep(Pass))
  /\ WF_MCVars(TransferStep(HandleMapSize))
  /\ \A i \in Loads : WF_MCVars(CacheStep(LoadStep(i)))

MCSpec == MCInit /\ [][MCNext]_MCVars /\ Fairness

----------------------------------------------------------------------------
(* Loads end, also those that wait for one that is aborted or fails.       *)
LoadsEnd == component = "cache" => EveryLoadEnds
=============================================================================
