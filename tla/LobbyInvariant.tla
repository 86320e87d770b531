--------------------------- MODULE LobbyInvariant ---------------------------
(* The inductive invariant of the lobby room: the safety properties of     *)
(* module LobbyProperties, grouped by the state they speak about, each     *)
(* group with the facts it needs to carry over a step.                     *)
EXTENDS LobbyProperties

(* Session ids are handed out in order and never again, so a socket that   *)
(* has left can never match a seat, whoever got its player id.             *)
OldSessionsAreGone ==
  /\ \A m \in memberships \cup departed : m.session < nextSession
  /\ \A m \in departed : ~SessionMatches(m)

SeatsInv == SeatsMatchSockets /\ OldSessionsAreGone

(* Only a room that may start begins to count, and no task is ahead of the *)
(* room's own generation.                                                  *)
CountdownHasItsPlayers ==
  /\ countdownActive => AtLeastTwo(Connected) \/ Connected = PlayerIds
  /\ \A t \in countdownTasks : t.generation <= countdownGeneration

CountdownInv ==
  /\ CountdownHasItsTask /\ CountdownHasItsPlayers
  /\ ArmedWaitsForSomeone /\ FullLobbyCounts

(* Nobody has loaded the game that has not started. *)
UnloadedBeforeStart == ~started => \A p \in Connected : ~players[p].loaded

PhaseInv ==
  PhaseConsistent /\ LoadingNeverHangs /\ UnloadedBeforeStart /\ GameplayHasItsTask

(* A timer of the present generation was armed in a started game, and,     *)
(* under PromptEnd, a last-player ending that is still to be carried out   *)
(* is about the present game or finds none to end.                         *)
TimersMeanThisGame ==
  /\ \A g \in gameOverTimers : g = gameplayGeneration => started
  /\ PromptEnd => \A e \in endings : e.session = 0 =>
       \/ gameplayGeneration = e.generation /\ Solo(Connected)
       \/ ~started \/ gameEnded

TimersInv == NoStaleTimer /\ SoloGameIsTimed /\ TimersMeanThisGame

NothingPendingOutside == ~gameplayActive => pendingActions = <<>>

StreamInv == CleanStart /\ PendingFromConnected /\ NothingPendingOutside

(* A game is not over before the desync found in it has been reported or   *)
(* somebody else ended it.                                                 *)
DesyncedGameRuns ==
  \A e \in endings :
    e.session # 0 /\ e.generation = gameplayGeneration => gameplayActive

DesyncInv == DesyncNamesItsGame /\ DesyncedGameRuns

(* The room holds together in every state, under every interleaving of     *)
(* clients, tasks and timers: seats and sockets, countdown and its task,   *)
(* phase and loops, timers, queued actions, endings that were decided, and *)
(* rosters under way.                                                      *)
Inductive ==
  /\ TypeOK /\ SeatsInv /\ CountdownInv /\ PhaseInv /\ TimersInv
  /\ StreamInv /\ DesyncInv /\ RevisionNamesRoster
=============================================================================
