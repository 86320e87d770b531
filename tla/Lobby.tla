------------------------------- MODULE Lobby -------------------------------
(***************************************************************************)
(* The authoritative lobby room of the coordinator,                        *)
(* apps/strajer-server/src/lobby.rs: who holds which player id, the start  *)
(* countdown, the loading barrier, the gameplay stream and the end of the  *)
(* game.  Every operation takes the room's mutex, so an action is one      *)
(* critical section; where the code releases the lock and goes on (a join  *)
(* or a chat that still has to be sent, a decision to end the game that    *)
(* still has to be carried out) the rest is an action of its own, and      *)
(* everything else may run in between.                                     *)
(*                                                                         *)
(* The tasks the room spawns are data: `countdownTasks' the countdowns     *)
(* still sleeping between two ticks, `gameplayTasks' the generations of    *)
(* the 100 ms gameplay loops, `gameOverTimers' the generations of the 60 s *)
(* last-player timers.  A task is woken in any order with anything else.   *)
(*                                                                         *)
(* Time is abstracted: a sleep ends at any moment.  The one assumption on  *)
(* speed is `PromptEnd', see there.                                        *)
(*                                                                         *)
(* An operator named Wrong... is a slip that the code could contain in     *)
(* place of the definition that follows it.  No behaviour uses it: put in  *)
(* that definition's place, it shows which property notices the slip.      *)
(***************************************************************************)
EXTENDS Integers, Sequences

CONSTANTS
  MaxPlayers,          \* capacity of the lobby, maximum_players
  Names,               \* player names that ask to join
  Messages,            \* chat messages
  Checksums,           \* checksums a client may report
  CountdownSteps,      \* ticks of one countdown: 60 s in steps of 10 s
  MaxPendingActions,   \* MAX_PENDING_GAME_ACTIONS
  MaxPendingChecksums, \* MAX_PENDING_CHECKSUMS_PER_PLAYER
  PromptEnd,           \* TRUE: a task that decided to end the game takes the
                       \* lock again before a countdown tick (10 s) passes
  MaxSessions,         \* bound: sessions handed out
  MaxSequence,         \* bound: game messages of one session
  MaxFrames            \* bound: no tick is published beyond this frame

ASSUME LobbyAssumption ==
  /\ MaxPlayers \in Nat \ {0}
  /\ CountdownSteps \in Nat \ {0}
  /\ MaxPendingActions \in Nat
  /\ MaxPendingChecksums \in Nat
  /\ PromptEnd \in BOOLEAN
  /\ MaxSessions \in Nat
  /\ MaxSequence \in Nat
  /\ MaxFrames \in Nat

VARIABLES
  revision,            \* roster revision
  nextSession,         \* next_session_id
  players,             \* player id -> connected player, a partial function
  countdownGeneration,
  countdownActive,
  remaining,           \* countdown_remaining_seconds in steps, 0 for None
  manualStart,         \* manual_start_requested
  countdownTasks,      \* run_countdown tasks: generation, local remaining
  started,
  gameplayActive,
  gameEnded,
  gameplayGeneration,
  gameplaySequence,
  pendingActions,      \* player ids whose actions wait for the next tick
  gameplayTasks,       \* generations of the running run_gameplay tasks
  gameOverTimers,      \* generations of the sleeping last-player timers
  endings,             \* end_game calls decided but not yet under the lock
  memberships,         \* sockets that have joined and have not left
  departed,            \* sockets still open after their Leave message
  unsent,              \* updates whose sender has already unlocked the room
  sent                 \* the updates broadcast by the last step

rosterVars == <<revision, nextSession, players>>
countdownVars ==
  <<countdownGeneration, countdownActive, remaining, manualStart, countdownTasks>>
gameVars ==
  <<started, gameplayActive, gameEnded, gameplayGeneration, gameplaySequence,
    pendingActions>>
taskVars == <<gameplayTasks, gameOverTimers, endings>>
socketVars == <<memberships, departed>>
vars == <<rosterVars, countdownVars, gameVars, taskVars, socketVars, unsent, sent>>

PlayerIds == 1..MaxPlayers
Sessions == Nat \ {0}
Connected == DOMAIN players

ConnectedPlayer ==
  [session: Sessions, name: Names, ready: BOOLEAN, loaded: BOOLEAN,
   lastSequence: Nat, checksums: Seq(Checksums)]
Membership == [player: PlayerIds, session: Sessions]
Roster == [revision: Nat, players: SUBSET PlayerIds]
EndReasons == {"Desync", "LastPlayerStanding"}
Updates ==
  [type: {"Roster"}, roster: Roster]
    \cup [type: {"Countdown"}, remaining: 1..CountdownSteps]
    \cup [type: {"CountdownCancelled", "Start"}]
    \cup [type: {"Chat"}, player: PlayerIds, message: Messages]
    \cup [type: {"PlayerLoaded"}, player: PlayerIds]
    \cup [type: {"PlayerLeft"}, player: PlayerIds, roster: Roster]
    \cup [type: {"GameFrame"}, sequence: Nat]
    \cup [type: {"GameEnded"}, reason: EndReasons]

----------------------------------------------------------------------------
(* Predicates on the room and its players. *)

\* MINIMUM_MANUAL_START_PLAYERS is 2.
AtLeastTwo(ids) == \E p, q \in ids : p # q
Solo(ids) == \E p \in ids : ids = {p}

AllReady(ps) == \A p \in DOMAIN ps : ps[p].ready
AllLoaded(ps) == \A p \in DOMAIN ps : ps[p].loaded

CurrentRoster(rev, ps) == [revision |-> rev, players |-> DOMAIN ps]

(* The roster entry at m's player id is m's own session: ids are reused,   *)
(* session ids never are.                                                  *)
SessionMatches(m) ==
  m.player \in Connected /\ players[m.player].session = m.session

(* A socket task makes its calls one after the other, awaiting each, so a  *)
(* session whose join or chat is not sent yet, or that found the desync it *)
(* must still report, makes no other call.                                 *)
Idle(m) ==
  /\ \A e \in endings : e.session # m.session
  /\ \A u \in unsent : u.session # m.session

Calls(m) == m \in memberships /\ Idle(m) /\ SessionMatches(m)

(* can_start_automatic_countdown or can_start_requested_countdown. *)
CanStartCountdown(ps) ==
  /\ ~started /\ ~countdownActive
  /\ AllReady(ps)
  /\ DOMAIN ps = PlayerIds \/ (manualStart /\ AtLeastTwo(DOMAIN ps))

CountdownMatches(generation) ==
  /\ countdownActive /\ countdownGeneration = generation
  /\ AllReady(players) /\ ~started

WrongBeginsAgain(ps) ==
  started /\ ~gameEnded /\ AtLeastTwo(DOMAIN ps) /\ AllLoaded(ps)

BeginsGameplay(ps) ==
  /\ started /\ ~gameplayActive /\ ~gameEnded
  /\ AtLeastTwo(DOMAIN ps) /\ AllLoaded(ps)

GameRuns == gameplayActive /\ ~gameEnded

(* The frames of n drained actions: at least one, and never an empty       *)
(* fragment; how many actions share a frame depends on their sizes.        *)
FrameCounts(n) == IF n = 0 THEN {1} ELSE 1..n
Frames(k) ==
  [i \in 1..k |-> [type |-> "GameFrame", sequence |-> gameplaySequence + i]]

----------------------------------------------------------------------------
(* Steps shared by several operations. *)

NextRevision(current) == current + 1

WrongNextCountdown == countdownGeneration
NextCountdown == countdownGeneration + 1

BeginCountdown ==
  /\ countdownGeneration' = NextCountdown
  /\ countdownActive' = TRUE
  /\ remaining' = CountdownSteps
  /\ manualStart' = FALSE
  /\ countdownTasks' = countdownTasks \cup
       {[generation |-> NextCountdown, remaining |-> CountdownSteps]}
  /\ sent' = <<[type |-> "Countdown", remaining |-> CountdownSteps]>>

StopCountdown ==
  /\ countdownActive' = FALSE
  /\ remaining' = 0
  /\ manualStart' = FALSE
  /\ UNCHANGED <<countdownGeneration, countdownTasks>>

(* begin_gameplay_if_ready when it finds the room ready. *)
BeginGameplay ==
  /\ gameplayGeneration' = gameplayGeneration + 1
  /\ gameplayActive' = TRUE
  /\ gameplaySequence' = 0
  /\ gameplayTasks' = gameplayTasks \cup {gameplayGeneration + 1}
  /\ UNCHANGED <<started, gameEnded>>

ResetGeneration == gameplayGeneration + 1

ResetGame ==
  /\ started' = FALSE
  /\ gameplayActive' = FALSE
  /\ gameEnded' = FALSE
  /\ gameplayGeneration' = ResetGeneration
  /\ gameplaySequence' = 0
  /\ pendingActions' = <<>>

----------------------------------------------------------------------------
(* Membership. *)

WrongAdmits == ~started
Admits == ~started /\ ~countdownActive

FreshPlayer(name) ==
  [session |-> nextSession, name |-> name, ready |-> FALSE, loaded |-> FALSE,
   lastSequence |-> 0, checksums |-> <<>>]

LowestFree(p) ==
  p \in PlayerIds \ Connected /\ \A q \in 1..(p - 1) : q \in Connected

(* The roster is sent after the lock is released. *)
TakeSeat(p, name) ==
  /\ players' = [q \in Connected \cup {p} |->
       IF q = p THEN FreshPlayer(name) ELSE players[q]]
  /\ nextSession' = nextSession + 1
  /\ revision' = NextRevision(revision)
  /\ memberships' = memberships \cup {[player |-> p, session |-> nextSession]}
  /\ unsent' = unsent \cup
       {[session |-> nextSession,
         update |-> [type |-> "Roster",
                     roster |-> CurrentRoster(revision', players')]]}

Join(name) ==
  /\ nextSession <= MaxSessions
  /\ Admits
  /\ Connected # PlayerIds
  /\ \A q \in Connected : players[q].name # name
  /\ \E p \in PlayerIds : LowestFree(p) /\ TakeSeat(p, name)
  /\ sent' = <<>>
  /\ UNCHANGED <<countdownVars, gameVars, taskVars, departed>>

(* A join or a chat reaches the broadcast channel. *)
SendUnlocked(u) ==
  /\ u \in unsent
  /\ unsent' = unsent \ {u}
  /\ sent' = <<u.update>>
  /\ UNCHANGED <<rosterVars, countdownVars, gameVars, taskVars, socketVars>>

(* A message repeated within the duplicate window changes nothing. *)
PublishChat(m, message) ==
  /\ Calls(m)
  /\ unsent' = unsent \cup
       {[session |-> m.session,
         update |-> [type |-> "Chat", player |-> m.player, message |-> message]]}
  /\ sent' = <<>>
  /\ UNCHANGED <<rosterVars, countdownVars, gameVars, taskVars, socketVars>>

LeaveFlushes == gameplayActive /\ pendingActions # <<>>

ArmsTimer(ps) == started /\ Solo(DOMAIN ps)

(* What leave does once the player is gone: the last one out resets the    *)
(* room, a player left alone gets a timer, and otherwise the leaver may    *)
(* have been the one everybody was loading for.  k frames were flushed.    *)
AfterLeave(ps, k) ==
  \/ /\ DOMAIN ps = {}
     /\ ResetGame
     /\ UNCHANGED <<gameplayTasks, gameOverTimers>>
  \/ /\ DOMAIN ps # {}
     /\ pendingActions' = IF LeaveFlushes THEN <<>> ELSE pendingActions
     /\ \/ /\ ArmsTimer(ps)
           /\ gameOverTimers' = gameOverTimers \cup {gameplayGeneration}
           /\ gameplaySequence' = gameplaySequence + k
           /\ UNCHANGED <<started, gameplayActive, gameEnded, gameplayGeneration,
                          gameplayTasks>>
        \/ /\ ~ArmsTimer(ps)
           /\ UNCHANGED gameOverTimers
           /\ \/ BeginsGameplay(ps) /\ BeginGameplay
              \/ /\ ~BeginsGameplay(ps)
                 /\ gameplaySequence' = gameplaySequence + k
                 /\ UNCHANGED <<started, gameplayActive, gameEnded,
                                gameplayGeneration, gameplayTasks>>

LeaveSeat(m) ==
  LET stay == [q \in Connected \ {m.player} |-> players[q]]
      roster == CurrentRoster(NextRevision(revision), stay)
      farewell ==
        IF started
          THEN <<[type |-> "PlayerLeft", player |-> m.player, roster |-> roster]>>
          ELSE <<[type |-> "Roster", roster |-> roster]>> \o
               IF countdownActive THEN <<[type |-> "CountdownCancelled"]>> ELSE <<>>
  IN  /\ players' = stay
      /\ revision' = NextRevision(revision)
      /\ StopCountdown
      /\ \E k \in IF LeaveFlushes THEN FrameCounts(Len(pendingActions)) ELSE {0} :
           sent' = Frames(k) \o farewell /\ AfterLeave(stay, k)
      /\ UNCHANGED <<nextSession, endings, unsent>>

(* leave for a session that no longer holds the id is Ok and changes       *)
(* nothing in the room.                                                    *)
LeaveRoom(m) ==
  \/ SessionMatches(m) /\ LeaveSeat(m)
  \/ /\ ~SessionMatches(m)
     /\ sent' = <<>>
     /\ UNCHANGED <<rosterVars, countdownVars, gameVars, taskVars, unsent>>

(* The agent's Leave message: the socket stays open. *)
LeaveByMessage(m) ==
  /\ m \in memberships /\ Idle(m)
  /\ memberships' = memberships \ {m}
  /\ departed' = departed \cup {m}
  /\ LeaveRoom(m)

(* The end of the socket task, whatever ended it, after a Leave or not. *)
Disconnect(m) ==
  /\ m \in memberships \cup departed /\ Idle(m)
  /\ memberships' = memberships \ {m}
  /\ departed' = departed \ {m}
  /\ LeaveRoom(m)

----------------------------------------------------------------------------
(* Readiness and the countdown. *)

MarkReady(m) ==
  /\ Calls(m) /\ ~players[m.player].ready
  /\ players' = [players EXCEPT ![m.player].ready = TRUE]
  /\ \/ CanStartCountdown(players') /\ BeginCountdown
     \/ /\ ~CanStartCountdown(players')
        /\ sent' = <<>>
        /\ UNCHANGED countdownVars
  /\ UNCHANGED <<revision, nextSession, gameVars, taskVars, socketVars, unsent>>

(* The outcomes that only answer the caller change nothing. *)
RequestManualStart(m) ==
  /\ Calls(m)
  /\ ~started /\ ~countdownActive /\ AtLeastTwo(Connected)
  /\ \/ AllReady(players) /\ BeginCountdown
     \/ /\ ~AllReady(players)
        /\ manualStart' = TRUE
        /\ sent' = <<>>
        /\ UNCHANGED <<countdownGeneration, countdownActive, remaining,
                       countdownTasks>>
  /\ UNCHANGED <<rosterVars, gameVars, taskVars, socketVars, unsent>>

(* See PromptEnd: a last-player task between its two critical sections is  *)
(* not overtaken by a whole countdown tick.                                *)
TickDue == PromptEnd => \A e \in endings : e.session # 0

MoreTicks(t) == t.remaining > 1

CountdownTick(t) ==
  /\ t \in countdownTasks /\ MoreTicks(t)
  /\ CountdownMatches(t.generation) /\ TickDue
  /\ remaining' = t.remaining - 1
  /\ countdownTasks' = (countdownTasks \ {t}) \cup {[t EXCEPT !.remaining = @ - 1]}
  /\ sent' = <<[type |-> "Countdown", remaining |-> t.remaining - 1]>>
  /\ UNCHANGED <<countdownGeneration, countdownActive, manualStart>>
  /\ UNCHANGED <<rosterVars, gameVars, taskVars, socketVars, unsent>>

CountdownStart(t) ==
  /\ t \in countdownTasks /\ ~MoreTicks(t)
  /\ CountdownMatches(t.generation) /\ TickDue
  /\ countdownActive' = FALSE
  /\ remaining' = 0
  /\ started' = TRUE
  /\ countdownTasks' = countdownTasks \ {t}
  /\ sent' = <<[type |-> "Start"]>>
  /\ UNCHANGED <<countdownGeneration, manualStart>>
  /\ UNCHANGED <<gameplayActive, gameEnded, gameplayGeneration, gameplaySequence,
                 pendingActions>>
  /\ UNCHANGED <<rosterVars, taskVars, socketVars, unsent>>

(* A countdown that was cancelled or superseded while it slept. *)
CountdownStale(t) ==
  /\ t \in countdownTasks
  /\ ~CountdownMatches(t.generation)
  /\ countdownTasks' = countdownTasks \ {t}
  /\ sent' = <<>>
  /\ UNCHANGED <<countdownGeneration, countdownActive, remaining, manualStart>>
  /\ UNCHANGED <<rosterVars, gameVars, taskVars, socketVars, unsent>>

----------------------------------------------------------------------------
(* Loading and gameplay. *)

MarkLoaded(m) ==
  /\ Calls(m) /\ started /\ ~gameEnded /\ ~players[m.player].loaded
  /\ players' = [players EXCEPT ![m.player].loaded = TRUE]
  /\ sent' = <<[type |-> "PlayerLoaded", player |-> m.player]>>
  /\ \/ BeginsGameplay(players') /\ BeginGameplay
     \/ /\ ~BeginsGameplay(players')
        /\ UNCHANGED <<started, gameplayActive, gameEnded, gameplayGeneration,
                       gameplaySequence, gameplayTasks>>
  /\ UNCHANGED <<pendingActions, revision, nextSession, countdownVars>>
  /\ UNCHANGED <<gameOverTimers, endings, socketVars, unsent>>

(* accept_game_sequence: actions and keepalives share one numbering. *)
AcceptsSequence(m, sequence) == sequence = players[m.player].lastSequence + 1

SubmitAction(m, sequence) ==
  /\ Calls(m) /\ GameRuns
  /\ Len(pendingActions) < MaxPendingActions
  /\ AcceptsSequence(m, sequence)
  /\ players' = [players EXCEPT ![m.player].lastSequence = sequence]
  /\ pendingActions' = Append(pendingActions, m.player)
  /\ sent' = <<>>
  /\ UNCHANGED <<started, gameplayActive, gameEnded, gameplayGeneration,
                 gameplaySequence>>
  /\ UNCHANGED <<revision, nextSession, countdownVars, taskVars, socketVars, unsent>>

(* Every connected player reported the same checksum in round i. *)
Agree(queues, i) ==
  \A p, q \in DOMAIN queues : queues[p][i] = queues[q][i]

(* consume_checksum_consensus pops n complete rounds: it goes on while     *)
(* every queue holds a checksum and stops after the first round the        *)
(* players disagree on.                                                    *)
Consumes(queues, n) ==
  /\ \A p \in DOMAIN queues : n <= Len(queues[p])
  /\ \A i \in 1..(n - 1) : Agree(queues, i)
  /\ \/ n > 0 /\ ~Agree(queues, n)
     \/ \E p \in DOMAIN queues : n = Len(queues[p])

(* On a desync the lock is released before end_game takes it again. *)
SubmitKeepalive(m, sequence, checksum) ==
  /\ Calls(m) /\ GameRuns
  /\ Len(players[m.player].checksums) < MaxPendingChecksums
  /\ AcceptsSequence(m, sequence)
  /\ LET queues == [q \in Connected |->
           IF q = m.player THEN Append(players[q].checksums, checksum)
                           ELSE players[q].checksums]
     IN \E n \in 0..MaxPendingChecksums :
          /\ Consumes(queues, n)
          /\ players' = [q \in Connected |->
               [players[q] EXCEPT
                  !.lastSequence = IF q = m.player THEN sequence ELSE @,
                  !.checksums = SubSeq(queues[q], n + 1, Len(queues[q]))]]
          /\ endings' = endings \cup
               IF n > 0 /\ ~Agree(queues, n)
                 THEN {[session |-> m.session, generation |-> gameplayGeneration]}
                 ELSE {}
  /\ sent' = <<>>
  /\ UNCHANGED <<revision, nextSession, countdownVars, gameVars, gameplayTasks>>
  /\ UNCHANGED <<gameOverTimers, socketVars, unsent>>

TickMatches(generation) ==
  GameRuns /\ gameplayGeneration = generation /\ Connected # {}

GameplayTick(generation) ==
  /\ generation \in gameplayTasks
  /\ TickMatches(generation)
  /\ gameplaySequence < MaxFrames
  /\ \E k \in FrameCounts(Len(pendingActions)) :
       /\ sent' = Frames(k)
       /\ gameplaySequence' = gameplaySequence + k
  /\ pendingActions' = <<>>
  /\ UNCHANGED <<started, gameplayActive, gameEnded, gameplayGeneration>>
  /\ UNCHANGED <<rosterVars, countdownVars, taskVars, socketVars, unsent>>

GameplayStop(generation) ==
  /\ generation \in gameplayTasks
  /\ ~TickMatches(generation)
  /\ gameplayTasks' = gameplayTasks \ {generation}
  /\ sent' = <<>>
  /\ UNCHANGED <<rosterVars, countdownVars, gameVars, gameOverTimers, endings>>
  /\ UNCHANGED <<socketVars, unsent>>

----------------------------------------------------------------------------
(* The end of the game. *)

WrongShouldEndAnyGame(generation) == started /\ ~gameEnded /\ Solo(Connected)

WrongShouldEndPlaying(generation) ==
  GameRuns /\ Solo(Connected) /\ gameplayGeneration = generation

ShouldEnd(generation) ==
  /\ started /\ ~gameEnded
  /\ Solo(Connected)
  /\ gameplayGeneration = generation

(* The timer decides under the lock and releases it before end_game. *)
LastPlayerTimer(generation) ==
  /\ generation \in gameOverTimers
  /\ gameOverTimers' = gameOverTimers \ {generation}
  /\ endings' = endings \cup
       IF ShouldEnd(generation)
         THEN {[session |-> 0, generation |-> generation]}
         ELSE {}
  /\ sent' = <<>>
  /\ UNCHANGED <<rosterVars, countdownVars, gameVars, gameplayTasks>>
  /\ UNCHANGED <<socketVars, unsent>>

EndedGeneration == gameplayGeneration + 1

EndGame(e) ==
  /\ e \in endings
  /\ endings' = endings \ {e}
  /\ \/ /\ ~started \/ gameEnded
        /\ sent' = <<>>
        /\ UNCHANGED <<countdownVars, gameVars>>
     \/ /\ started /\ ~gameEnded
        /\ IF Connected = {}
             THEN /\ ResetGame
                  /\ StopCountdown
                  /\ sent' = <<>>
             ELSE /\ gameplayActive' = FALSE
                  /\ gameEnded' = TRUE
                  /\ gameplayGeneration' = EndedGeneration
                  /\ pendingActions' = <<>>
                  /\ sent' = <<[type |-> "GameEnded",
                                reason |-> IF e.session = 0
                                             THEN "LastPlayerStanding"
                                             ELSE "Desync"]>>
                  /\ UNCHANGED <<started, gameplaySequence, countdownVars>>
  /\ UNCHANGED <<rosterVars, gameplayTasks, gameOverTimers, socketVars, unsent>>

----------------------------------------------------------------------------
Init ==
  /\ revision = 0 /\ nextSession = 1 /\ players = [p \in {} |-> p]
  /\ countdownGeneration = 0 /\ countdownActive = FALSE /\ remaining = 0
  /\ manualStart = FALSE /\ countdownTasks = {}
  /\ started = FALSE /\ gameplayActive = FALSE /\ gameEnded = FALSE
  /\ gameplayGeneration = 0 /\ gameplaySequence = 0 /\ pendingActions = <<>>
  /\ gameplayTasks = {} /\ gameOverTimers = {} /\ endings = {}
  /\ memberships = {} /\ departed = {} /\ unsent = {} /\ sent = <<>>

(* What the sockets ask for. *)
ClientCall ==
  \/ \E name \in Names : Join(name)
  \/ \E m \in memberships :
       \/ MarkReady(m)
       \/ RequestManualStart(m)
       \/ MarkLoaded(m)
       \/ \E message \in Messages : PublishChat(m, message)
       \/ \E sequence \in 1..MaxSequence :
            \/ SubmitAction(m, sequence)
            \/ \E checksum \in Checksums : SubmitKeepalive(m, sequence, checksum)
       \/ LeaveByMessage(m)
  \/ \E m \in memberships \cup departed : Disconnect(m)

(* What the server's own tasks do. *)
CountdownTask ==
  \E t \in countdownTasks : CountdownTick(t) \/ CountdownStart(t) \/ CountdownStale(t)
GameplayTask == \E g \in gameplayTasks : GameplayTick(g) \/ GameplayStop(g)
TimerTask == \E g \in gameOverTimers : LastPlayerTimer(g)
EndTask == \E e \in endings : EndGame(e)
SendTask == \E u \in unsent : SendUnlocked(u)

Next ==
  \/ ClientCall
  \/ CountdownTask
  \/ GameplayTask
  \/ TimerTask
  \/ EndTask
  \/ SendTask

Spec == Init /\ [][Next]_vars
=============================================================================
