-------------------------- MODULE LobbyProperties --------------------------
(* What the lobby room of module Lobby must keep, whatever its clients ask *)
(* for and in whatever order its tasks wake up.                            *)
EXTENDS Lobby

RosterTyped ==
  /\ revision \in Nat
  /\ nextSession \in Sessions
  /\ Connected \subseteq PlayerIds
  /\ players \in [Connected -> ConnectedPlayer]

CountdownTyped ==
  /\ countdownGeneration \in Nat
  /\ countdownActive \in BOOLEAN
  /\ remaining \in 0..CountdownSteps
  /\ manualStart \in BOOLEAN
  /\ countdownTasks \subseteq [generation: Nat, remaining: 1..CountdownSteps]

GameTyped ==
  /\ started \in BOOLEAN
  /\ gameplayActive \in BOOLEAN
  /\ gameEnded \in BOOLEAN
  /\ gameplayGeneration \in Nat
  /\ gameplaySequence \in Nat
  /\ pendingActions \in Seq(PlayerIds)

TasksTyped ==
  /\ gameplayTasks \subseteq Nat
  /\ gameOverTimers \subseteq Nat
  /\ endings \subseteq [session: Nat, generation: Nat]

SocketsTyped ==
  /\ memberships \subseteq Membership
  /\ departed \subseteq Membership

UpdatesTyped ==
  /\ unsent \subseteq [session: Sessions, update: Updates]
  /\ sent \in Seq(Updates)

(* Every variable has its type; in particular a countdown task is never    *)
(* asleep with nothing left to count.                                      *)
TypeOK ==
  /\ RosterTyped /\ CountdownTyped /\ GameTyped
  /\ TasksTyped /\ SocketsTyped /\ UpdatesTyped

----------------------------------------------------------------------------
(* The roster. *)

(* Player ids are reused and a session may call leave twice (its Leave     *)
(* message, then the end of its socket), yet a socket that has not left    *)
(* holds its seat, and every seat is held by exactly one such socket: no   *)
(* stale leave frees the seat of the session that got the id next, and no  *)
(* seat is left behind by a socket that is gone.                           *)
SeatsMatchSockets ==
  /\ \A m \in memberships : SessionMatches(m)
  /\ \A p \in Connected : \E m \in memberships : m.player = p

(* Agents drop a roster whose revision is not newer than the one they      *)
(* have, and a join's roster is sent after the lock is released, so two    *)
(* different rosters must never carry the same revision.                   *)
RevisionNamesRoster ==
  \A u \in unsent : u.update.type = "Roster" =>
    \/ u.update.roster.revision < revision
    \/ u.update.roster = CurrentRoster(revision, players)

----------------------------------------------------------------------------
(* The countdown. *)

(* Cancelling a countdown leaves its task asleep, and the next countdown   *)
(* gets a task of its own.  Exactly one task may act, it agrees with the   *)
(* room on the time left, and while it counts the lobby is complete: every *)
(* connected player is ready and nobody has been let in.                   *)
CountdownHasItsTask ==
  countdownActive =>
    /\ ~started /\ AllReady(players)
    /\ \E t \in countdownTasks :
         /\ t.remaining = remaining
         /\ \A other \in countdownTasks :
              other.generation = countdownGeneration <=> other = t

(* A manual start stays armed only while it has something to wait for: at  *)
(* least two players, one of them not ready.  It never survives into the   *)
(* countdown or the game, nor a departure that changed who was asked.      *)
ArmedWaitsForSomeone ==
  manualStart =>
    /\ ~started /\ ~countdownActive
    /\ AtLeastTwo(Connected)
    /\ ~AllReady(players)

(* A full lobby whose players are all ready is counting down or beyond:    *)
(* the last ready, not the last join, completes it.                        *)
FullLobbyCounts ==
  Connected = PlayerIds /\ AllReady(players) => countdownActive \/ started

----------------------------------------------------------------------------
(* The game. *)

(* A started room is occupied (the branch of end_game that resets an empty *)
(* room is dead), and the flags nest: gameplay and its end only within a   *)
(* started game, never both.                                               *)
PhaseConsistent ==
  /\ started => Connected # {} /\ ~countdownActive
  /\ gameplayActive => started /\ ~gameEnded /\ AllLoaded(players)
  /\ gameEnded => started

(* Loading never hangs: when the last player everybody was loading for     *)
(* loads or leaves, gameplay begins in that same step.                     *)
LoadingNeverHangs ==
  started /\ ~gameEnded /\ AtLeastTwo(Connected) /\ AllLoaded(players) =>
    gameplayActive

(* Each generation has one loop: running gameplay has the loop of its      *)
(* generation, and a loop of a generation that is over never comes alive   *)
(* again.                                                                  *)
GameplayHasItsTask ==
  /\ gameplayActive => gameplayGeneration \in gameplayTasks
  /\ \A g \in gameplayTasks :
       g <= gameplayGeneration /\ (g = gameplayGeneration => gameplayActive)

(* Every timer that can still act is about the present game and its last   *)
(* player: no timer survives a reset into the next game.                   *)
NoStaleTimer ==
  \A g \in gameOverTimers :
    /\ g <= gameplayGeneration
    /\ g = gameplayGeneration /\ started /\ ~gameEnded => Solo(Connected)

(* A player left alone in a game is released: the timer of this generation *)
(* is asleep or has decided.  (A lobby with one seat starts a game nobody  *)
(* left, and has no timer.)                                                *)
SoloGameIsTimed ==
  MaxPlayers > 1 /\ started /\ ~gameEnded /\ Solo(Connected) =>
    \/ gameplayGeneration \in gameOverTimers
    \/ [session |-> 0, generation |-> gameplayGeneration] \in endings

(* No action of a player who is gone is left for a later tick: it would    *)
(* reach the clients after that player's PlayerLeft.                       *)
PendingFromConnected ==
  \A i \in DOMAIN pendingActions : pendingActions[i] \in Connected

(* A game starts clean although neither its start nor the reset clears the *)
(* players' numbering and checksums: nothing of an earlier game, and       *)
(* nothing submitted before gameplay began, is counted in.                 *)
CleanStart ==
  ~gameplayActive /\ ~gameEnded =>
    /\ pendingActions = <<>>
    /\ \A p \in Connected :
         players[p].lastSequence = 0 /\ players[p].checksums = <<>>

(* A session that found a desync still holds its seat in the game it found *)
(* it in, so its end_game, which looks at no generation, cannot reach any  *)
(* other game.                                                             *)
DesyncNamesItsGame ==
  \A e \in endings : e.session # 0 =>
    /\ started
    /\ \E p \in Connected : players[p].session = e.session
    /\ \/ gameplayGeneration = e.generation
       \/ gameEnded /\ gameplayGeneration = e.generation + 1

(* Whoever decides to end a game ends that game and no later one, although *)
(* the lock is released between the decision and its execution.  For the   *)
(* last-player task this rests on PromptEnd.                               *)
EndsTheGameItMeant ==
  [][\A e \in endings \ endings' :
       gameEnded' /\ ~gameEnded => gameplayGeneration = e.generation]_vars

(* The step broadcasts k frames of the running game, in front of whatever  *)
(* else it says, and they go on with the numbering.                        *)
FramesGoOn(k) ==
  /\ \A i \in DOMAIN sent' : sent'[i].type = "GameFrame" <=> i <= k
  /\ \A i \in 1..k : sent'[i].sequence = gameplaySequence + i
  /\ k > 0 => gameplayActive
  /\ gameplayActive' => gameplaySequence' =
       IF gameplayActive THEN gameplaySequence + k ELSE 0

(* The frames of one running game are numbered 1, 2, 3... without gap or   *)
(* repetition, whichever step broadcasts them, a tick or the flush of a    *)
(* leave; a leave tells them before it tells the departure, and no frame   *)
(* is broadcast outside a running game.  Agents give up the session on any *)
(* other numbering.                                                        *)
FramesAreContiguous == [][\E k \in 0..Len(sent') : FramesGoOn(k)]_vars

----------------------------------------------------------------------------
(* What must happen. *)

(* A countdown ends: it starts the game or a departure cancels it.         *)
CountdownEnds == []<>~countdownActive

(* A game with one player left is ended, unless that player leaves first.  *)
SoloGameEnds ==
  (MaxPlayers > 1 /\ started /\ Solo(Connected)) ~> (gameEnded \/ ~started)

(* No cancelled or superseded task keeps a later countdown or game waiting:*)
(* whatever the clients do meanwhile, the tasks that sleep come to act.    *)
TimersFire == CountdownEnds /\ SoloGameEnds
=============================================================================
