---------------------------- MODULE LobbyProofs ----------------------------
(* What is proved of the lobby room of module Lobby, for every capacity    *)
(* and number of sessions.  Its types are kept.  The safety properties     *)
(* hold in every behaviour, because the invariant of module LobbyInvariant *)
(* is inductive: one lemma per action shows that the step preserves each   *)
(* group of the invariant, and the groups a step does not touch are        *)
(* carried over by the frame lemmas.  And the room implements module       *)
(* Match: every step of it is a step of the match or leaves it unchanged.  *)
(* The mapping of module LobbyMatch reads the phase from `remaining' and   *)
(* the seats from the players' sessions, so besides the invariant the      *)
(* argument needs that the remaining time is shown only while a countdown  *)
(* is active and that no session sits twice.                               *)
EXTENDS LobbyMatch, LobbyInvariant, TLAPS

----------------------------------------------------------------------------
(* The types. *)

LEMMA InitTyped == Init => TypeOK
<1> SUFFICES ASSUME Init PROVE TypeOK
  OBVIOUS
<1> USE LobbyAssumption DEF LobbyAssumption
<1>1. RosterTyped
  BY DEF Init, RosterTyped, Connected, Sessions
<1>2. CountdownTyped
  <2>1. countdownActive \in BOOLEAN /\ manualStart \in BOOLEAN
    BY Zenon DEF Init
  <2>2. countdownGeneration \in Nat /\ remaining \in 0..CountdownSteps
    BY DEF Init
  <2> QED
    BY <2>1, <2>2 DEF Init, CountdownTyped
<1>3. GameTyped
  <2>1. started \in BOOLEAN /\ gameplayActive \in BOOLEAN /\ gameEnded \in BOOLEAN
    BY Zenon DEF Init
  <2>2. /\ gameplayGeneration \in Nat /\ gameplaySequence \in Nat
        /\ pendingActions \in Seq(PlayerIds)
    BY DEF Init
  <2> QED
    BY <2>1, <2>2 DEF GameTyped
<1>4. TasksTyped /\ SocketsTyped
  BY DEF Init, TasksTyped, SocketsTyped
<1>5. UpdatesTyped
  BY DEF Init, UpdatesTyped
<1> QED
  BY <1>1, <1>2, <1>3, <1>4, <1>5 DEF TypeOK

LEMMA FramesTyped ==
  ASSUME gameplaySequence \in Nat, NEW k \in Nat
  PROVE  Frames(k) \in Seq(Updates)
  BY DEF Frames, Updates

LEMMA UnchangedTyped ==
  /\ RosterTyped /\ UNCHANGED rosterVars => RosterTyped'
  /\ CountdownTyped /\ UNCHANGED countdownVars => CountdownTyped'
  /\ GameTyped /\ UNCHANGED gameVars => GameTyped'
  /\ TasksTyped /\ UNCHANGED taskVars => TasksTyped'
  /\ SocketsTyped /\ UNCHANGED socketVars => SocketsTyped'
  BY DEF RosterTyped, rosterVars, CountdownTyped, countdownVars, GameTyped, gameVars,
     TasksTyped, taskVars, SocketsTyped, socketVars, Connected

LEMMA JoinTyped ==
  ASSUME TypeOK, NEW name \in Names, Join(name)
  PROVE  TypeOK'
<1> USE LobbyAssumption DEF LobbyAssumption, TypeOK
<1>1. PICK p \in PlayerIds : LowestFree(p) /\ TakeSeat(p, name)
  BY DEF Join
<1>2. /\ nextSession \in Sessions
      /\ nextSession' \in Sessions
      /\ revision' \in Nat
  BY <1>1 DEF TakeSeat, RosterTyped, Sessions, NextRevision
<1>3. RosterTyped'
  <2>1. Connected' = Connected \cup {p}
    BY <1>1 DEF Connected, TakeSeat
  <2>2. \A q \in Connected' : players'[q] \in ConnectedPlayer
    BY <1>1, <1>2, <2>1 DEF RosterTyped, ConnectedPlayer, TakeSeat, FreshPlayer, Connected
  <2> QED
    BY <1>1, <1>2, <2>1, <2>2 DEF RosterTyped, Connected, TakeSeat
<1>4. SocketsTyped'
  BY <1>1, <1>2 DEF SocketsTyped, Membership, Join, TakeSeat
<1>5. UpdatesTyped'
  BY <1>1, <1>2, <1>3 DEF UpdatesTyped, Join, TakeSeat, Updates, Roster, CurrentRoster, RosterTyped, Connected
<1> QED
  BY <1>3, <1>4, <1>5, UnchangedTyped DEF Join, NextRevision, Admits

LEMMA BeginCountdownTyped ==
  ASSUME CountdownTyped, BeginCountdown
  PROVE  CountdownTyped' /\ sent' \in Seq(Updates)
<1> USE LobbyAssumption DEF LobbyAssumption
<1>1. countdownActive' \in BOOLEAN /\ manualStart' \in BOOLEAN
  BY Zenon DEF BeginCountdown
<1>2. /\ countdownGeneration' \in Nat
      /\ remaining' \in 0..CountdownSteps
      /\ countdownTasks' \subseteq [generation: Nat, remaining: 1..CountdownSteps]
  BY DEF BeginCountdown, NextCountdown, CountdownTyped
<1>3. sent' \in Seq(Updates)
  BY DEF BeginCountdown, Updates
<1> QED
  BY <1>1, <1>2, <1>3 DEF CountdownTyped

LEMMA StopCountdownTyped ==
  ASSUME CountdownTyped, StopCountdown
  PROVE  CountdownTyped'
<1> USE LobbyAssumption DEF LobbyAssumption
<1>1. countdownActive' \in BOOLEAN /\ manualStart' \in BOOLEAN
  BY Zenon DEF StopCountdown
<1>2. /\ countdownGeneration' \in Nat
      /\ remaining' \in 0..CountdownSteps
      /\ countdownTasks' \subseteq [generation: Nat, remaining: 1..CountdownSteps]
  BY DEF StopCountdown, CountdownTyped
<1> QED
  BY <1>1, <1>2 DEF CountdownTyped

LEMMA ResetGameTyped ==
  ASSUME GameTyped, ResetGame
  PROVE  GameTyped'
<1>1. started' \in BOOLEAN /\ gameplayActive' \in BOOLEAN /\ gameEnded' \in BOOLEAN
  BY Zenon DEF ResetGame
<1>2. /\ gameplayGeneration' \in Nat /\ gameplaySequence' \in Nat
      /\ pendingActions' \in Seq(PlayerIds)
  BY DEF ResetGame, ResetGeneration, GameTyped
<1> QED
  BY <1>1, <1>2 DEF GameTyped

LEMMA BeginGameplayTyped ==
  ASSUME GameTyped, gameplayTasks \subseteq Nat, BeginGameplay,
         pendingActions' \in Seq(PlayerIds)
  PROVE  GameTyped' /\ gameplayTasks' \subseteq Nat
<1>1. started' \in BOOLEAN /\ gameplayActive' \in BOOLEAN /\ gameEnded' \in BOOLEAN
  BY Zenon DEF BeginGameplay, GameTyped
<1>2. /\ gameplayGeneration' \in Nat /\ gameplaySequence' \in Nat
      /\ gameplayTasks' \subseteq Nat
  BY DEF BeginGameplay, GameTyped
<1> QED
  BY <1>1, <1>2 DEF GameTyped

(* A call comes from a connected player. *)
LEMMA CallerConnected ==
  ASSUME TypeOK, NEW m \in memberships \cup departed, SessionMatches(m)
  PROVE  /\ m \in Membership /\ m.player \in PlayerIds /\ m.session \in Sessions
         /\ m.player \in Connected
         /\ players[m.player] \in ConnectedPlayer
  BY DEF TypeOK, SocketsTyped, SessionMatches, Membership, RosterTyped

LEMMA SendUnlockedTyped ==
  ASSUME TypeOK, NEW u \in unsent, SendUnlocked(u)
  PROVE  TypeOK'
<1>1. UpdatesTyped'
  BY DEF TypeOK, UpdatesTyped, SendUnlocked
<1> QED
  BY <1>1, UnchangedTyped DEF TypeOK, SendUnlocked

LEMMA PublishChatTyped ==
  ASSUME TypeOK, NEW m \in memberships, NEW message \in Messages,
         PublishChat(m, message)
  PROVE  TypeOK'
<1>1. m.player \in PlayerIds /\ m.session \in Sessions
  BY CallerConnected DEF PublishChat, Calls
<1>2. UpdatesTyped'
  BY <1>1 DEF TypeOK, UpdatesTyped, PublishChat, Updates
<1> QED
  BY <1>2, UnchangedTyped DEF TypeOK, PublishChat

LEMMA MarkReadyTyped ==
  ASSUME TypeOK, NEW m \in memberships, MarkReady(m)
  PROVE  TypeOK'
<1>1. m.player \in Connected /\ players[m.player] \in ConnectedPlayer
  BY CallerConnected DEF MarkReady, Calls
<1>2. RosterTyped'
  BY <1>1 DEF TypeOK, RosterTyped, MarkReady, Connected, ConnectedPlayer
<1>3. CountdownTyped' /\ sent' \in Seq(Updates)
  <2>1. CASE BeginCountdown
    BY <2>1, BeginCountdownTyped DEF TypeOK
  <2>2. CASE sent' = <<>> /\ UNCHANGED countdownVars
    BY <2>2, UnchangedTyped DEF TypeOK
  <2> QED
    BY <2>1, <2>2 DEF MarkReady
<1>4. UpdatesTyped'
  BY <1>3 DEF TypeOK, UpdatesTyped, MarkReady
<1> QED
  BY <1>2, <1>3, <1>4, UnchangedTyped DEF TypeOK, MarkReady

LEMMA RequestManualStartTyped ==
  ASSUME TypeOK, NEW m \in memberships, RequestManualStart(m)
  PROVE  TypeOK'
<1>1. CASE AllReady(players)
  BY <1>1, BeginCountdownTyped, UnchangedTyped
     DEF TypeOK, RequestManualStart, UpdatesTyped
<1>2. CASE ~AllReady(players)
  <2>1. manualStart' \in BOOLEAN
    BY <1>2, Zenon DEF RequestManualStart
  <2>2. CountdownTyped'
    BY <1>2, <2>1 DEF TypeOK, RequestManualStart, CountdownTyped
  <2>3. sent' = <<>> /\ unsent' = unsent
    BY <1>2 DEF RequestManualStart
  <2>4. UpdatesTyped'
    BY <2>3 DEF TypeOK, UpdatesTyped
  <2> QED
    BY <2>2, <2>4, UnchangedTyped DEF TypeOK, RequestManualStart
<1> QED
  BY <1>1, <1>2

LEMMA MarkLoadedTyped ==
  ASSUME TypeOK, NEW m \in memberships, MarkLoaded(m)
  PROVE  TypeOK'
<1>1. m.player \in Connected /\ players[m.player] \in ConnectedPlayer /\ m.player \in PlayerIds
  BY CallerConnected DEF MarkLoaded, Calls
<1>2. RosterTyped'
  BY <1>1 DEF TypeOK, RosterTyped, MarkLoaded, Connected, ConnectedPlayer
<1>3. GameTyped' /\ TasksTyped'
  <2>1. pendingActions' \in Seq(PlayerIds)
    BY DEF TypeOK, GameTyped, MarkLoaded
  <2>2. CASE BeginGameplay
    BY <2>1, <2>2, BeginGameplayTyped DEF TypeOK, TasksTyped, MarkLoaded
  <2>3. CASE ~BeginGameplay
    BY <2>1, <2>3 DEF TypeOK, GameTyped, TasksTyped, MarkLoaded
  <2> QED
    BY <2>2, <2>3
<1>4. UpdatesTyped'
  BY <1>1 DEF TypeOK, UpdatesTyped, MarkLoaded, Updates
<1> QED
  BY <1>2, <1>3, <1>4, UnchangedTyped DEF TypeOK, MarkLoaded

LEMMA SubmitActionTyped ==
  ASSUME TypeOK, NEW m \in memberships, NEW sequence \in 1..MaxSequence,
         SubmitAction(m, sequence)
  PROVE  TypeOK'
<1>1. m.player \in Connected /\ players[m.player] \in ConnectedPlayer /\ m.player \in PlayerIds
  BY CallerConnected DEF SubmitAction, Calls
<1>2. sequence \in Nat
  BY LobbyAssumption DEF LobbyAssumption
<1>3. RosterTyped'
  BY <1>1, <1>2 DEF TypeOK, RosterTyped, SubmitAction, Connected, ConnectedPlayer
<1>4. GameTyped'
  BY <1>1 DEF TypeOK, GameTyped, SubmitAction
<1>5. UpdatesTyped'
  BY DEF TypeOK, UpdatesTyped, SubmitAction
<1> QED
  BY <1>3, <1>4, <1>5, UnchangedTyped DEF TypeOK, SubmitAction

LEMMA SubmitKeepaliveTyped ==
  ASSUME TypeOK, NEW m \in memberships, NEW sequence \in 1..MaxSequence,
         NEW checksum \in Checksums, SubmitKeepalive(m, sequence, checksum)
  PROVE  TypeOK'
<1> DEFINE queues == [q \in Connected |->
             IF q = m.player THEN Append(players[q].checksums, checksum)
                             ELSE players[q].checksums]
<1>1. m.player \in Connected /\ m.session \in Sessions
  BY CallerConnected DEF SubmitKeepalive, Calls
<1>2. sequence \in Nat
  BY LobbyAssumption DEF LobbyAssumption
<1>3. PICK n \in 0..MaxPendingChecksums :
        /\ Consumes(queues, n)
        /\ players' = [q \in Connected |->
             [players[q] EXCEPT
                !.lastSequence = IF q = m.player THEN sequence ELSE @,
                !.checksums = SubSeq(queues[q], n + 1, Len(queues[q]))]]
        /\ endings' = endings \cup
             IF n > 0 /\ ~Agree(queues, n)
               THEN {[session |-> m.session, generation |-> gameplayGeneration]}
               ELSE {}
  BY DEF SubmitKeepalive
<1>4. \A q \in Connected : queues[q] \in Seq(Checksums)
  BY DEF TypeOK, RosterTyped, ConnectedPlayer
<1>5. \A q \in Connected : SubSeq(queues[q], n + 1, Len(queues[q])) \in Seq(Checksums)
  <2> TAKE q \in Connected
  <2> DEFINE queue == queues[q]
  <2>1. queue \in Seq(Checksums) /\ n \in Nat
    BY <1>4
  <2> HIDE DEF queue
  <2>2. SubSeq(queue, n + 1, Len(queue)) \in Seq(Checksums)
    BY <2>1
  <2> QED
    BY <2>2 DEF queue
<1>6. RosterTyped'
  <2> HIDE DEF queues
  <2>1. Connected' = Connected
    BY <1>3 DEF Connected
  <2>2. \A q \in Connected : players'[q] \in ConnectedPlayer
    BY <1>2, <1>3, <1>5 DEF TypeOK, RosterTyped, ConnectedPlayer
  <2>3. players' \in [Connected' -> ConnectedPlayer]
    BY <1>3, <2>1, <2>2
  <2> QED
    BY <2>1, <2>3 DEF TypeOK, RosterTyped, SubmitKeepalive
<1>9. sent' = <<>> /\ unsent' = unsent /\ UNCHANGED <<gameplayTasks, gameOverTimers>>
  BY DEF SubmitKeepalive
<1>7. TasksTyped'
  <2>1. [session |-> m.session, generation |-> gameplayGeneration]
          \in [session: Nat, generation: Nat]
    BY <1>1 DEF TypeOK, GameTyped, Sessions
  <2>2. endings' \subseteq endings \cup
          {[session |-> m.session, generation |-> gameplayGeneration]}
    BY <1>3
  <2> HIDE DEF queues
  <2> QED
    BY <1>9, <2>1, <2>2 DEF TypeOK, TasksTyped
<1>8. UpdatesTyped'
  BY <1>9 DEF TypeOK, UpdatesTyped
<1> QED
  BY <1>6, <1>7, <1>8, UnchangedTyped DEF TypeOK, SubmitKeepalive

LEMMA FrameCountsNat ==
  ASSUME NEW n \in Nat
  PROVE  /\ FrameCounts(n) \subseteq Nat \ {0}
  BY DEF FrameCounts

LEMMA AfterLeaveTyped ==
  ASSUME GameTyped, TasksTyped, NEW ps, NEW k \in Nat, AfterLeave(ps, k),
         UNCHANGED endings
  PROVE  GameTyped' /\ TasksTyped'
<1>1. CASE DOMAIN ps = {}
  <2>1. ResetGame /\ UNCHANGED <<gameplayTasks, gameOverTimers>>
    BY <1>1 DEF AfterLeave
  <2> QED
    BY <2>1, ResetGameTyped DEF TasksTyped
<1>2. CASE DOMAIN ps # {}
  <2>1. pendingActions' = IF LeaveFlushes THEN <<>> ELSE pendingActions
    BY <1>2 DEF AfterLeave
  <2>2. pendingActions' \in Seq(PlayerIds)
    BY <2>1 DEF GameTyped
  <2>3. CASE ArmsTimer(ps)
    <3>1. /\ gameOverTimers' = gameOverTimers \cup {gameplayGeneration}
          /\ gameplaySequence' = gameplaySequence + k
          /\ UNCHANGED <<started, gameplayActive, gameEnded, gameplayGeneration,
                         gameplayTasks>>
      BY <1>2, <2>3 DEF AfterLeave
    <3> QED
      BY <2>2, <3>1 DEF GameTyped, TasksTyped
  <2>4. CASE ~ArmsTimer(ps) /\ BeginsGameplay(ps)
    <3>1. BeginGameplay /\ UNCHANGED gameOverTimers
      BY <1>2, <2>4 DEF AfterLeave
    <3> QED
      BY <2>2, <3>1, BeginGameplayTyped DEF TasksTyped
  <2>5. CASE ~ArmsTimer(ps) /\ ~BeginsGameplay(ps)
    <3>1. /\ gameplaySequence' = gameplaySequence + k
          /\ UNCHANGED <<started, gameplayActive, gameEnded, gameplayGeneration,
                         gameplayTasks, gameOverTimers>>
      BY <1>2, <2>5 DEF AfterLeave
    <3> QED
      BY <2>2, <3>1 DEF GameTyped, TasksTyped
  <2> QED
    BY <2>3, <2>4, <2>5
<1> QED
  BY <1>1, <1>2

LEMMA LeaveSeatTyped ==
  ASSUME TypeOK, NEW m \in memberships \cup departed, SessionMatches(m),
         LeaveSeat(m)
  PROVE  RosterTyped' /\ CountdownTyped' /\ GameTyped' /\ TasksTyped' /\ UpdatesTyped'
<1> DEFINE stay == [q \in Connected \ {m.player} |-> players[q]]
           roster == CurrentRoster(NextRevision(revision), stay)
           farewell ==
             IF started
               THEN <<[type |-> "PlayerLeft", player |-> m.player, roster |-> roster]>>
               ELSE <<[type |-> "Roster", roster |-> roster]>> \o
                    IF countdownActive THEN <<[type |-> "CountdownCancelled"]>> ELSE <<>>
<1>1. m.player \in PlayerIds
  BY CallerConnected
<1>2. /\ players' = stay
      /\ revision' = revision + 1
      /\ StopCountdown
      /\ UNCHANGED <<nextSession, endings, unsent>>
  BY DEF LeaveSeat, NextRevision
<1>3. PICK k \in IF LeaveFlushes THEN FrameCounts(Len(pendingActions)) ELSE {0} :
        sent' = Frames(k) \o farewell /\ AfterLeave(stay, k)
  BY DEF LeaveSeat
<1>4. k \in Nat
  BY <1>3, FrameCountsNat DEF TypeOK, GameTyped
<1>5. RosterTyped'
  BY <1>2 DEF TypeOK, RosterTyped, Connected
<1>6. CountdownTyped'
  BY <1>2, StopCountdownTyped DEF TypeOK
<1>7. GameTyped' /\ TasksTyped'
  BY <1>2, <1>3, <1>4, AfterLeaveTyped DEF TypeOK
<1>8. farewell \in Seq(Updates)
  <2>1. roster \in Roster
    BY DEF CurrentRoster, NextRevision, Roster, TypeOK, RosterTyped, Connected
  <2> HIDE DEF roster
  <2>2. [type |-> "PlayerLeft", player |-> m.player, roster |-> roster] \in Updates
    BY <1>1, <2>1 DEF Updates
  <2>3. [type |-> "Roster", roster |-> roster] \in Updates
    BY <2>1 DEF Updates
  <2>4. [type |-> "CountdownCancelled"] \in Updates
    BY DEF Updates
  <2> QED
    BY <2>2, <2>3, <2>4
<1>9. Frames(k) \in Seq(Updates)
  BY <1>4, FramesTyped DEF TypeOK, GameTyped
<1>10. UpdatesTyped'
  <2> HIDE DEF farewell
  <2>1. sent' \in Seq(Updates)
    BY <1>3, <1>8, <1>9
  <2> QED
    BY <1>2, <2>1 DEF TypeOK, UpdatesTyped
<1> QED
  BY <1>5, <1>6, <1>7, <1>10

LEMMA LeaveRoomTyped ==
  ASSUME TypeOK, NEW m \in memberships \cup departed, LeaveRoom(m)
  PROVE  RosterTyped' /\ CountdownTyped' /\ GameTyped' /\ TasksTyped' /\ UpdatesTyped'
<1>1. CASE SessionMatches(m)
  BY <1>1, LeaveSeatTyped DEF LeaveRoom
<1>2. CASE ~SessionMatches(m)
  <2>1. /\ sent' = <<>> /\ unsent' = unsent
        /\ UNCHANGED <<rosterVars, countdownVars, gameVars, taskVars>>
    BY <1>2 DEF LeaveRoom
  <2> QED
    BY <2>1, UnchangedTyped DEF TypeOK, UpdatesTyped
<1> QED
  BY <1>1, <1>2

LEMMA LeaveTyped ==
  ASSUME TypeOK, NEW m \in memberships \cup departed,
         LeaveByMessage(m) \/ Disconnect(m)
  PROVE  TypeOK'
<1>1. LeaveRoom(m)
  BY DEF LeaveByMessage, Disconnect
<1>2. SocketsTyped'
  BY DEF LeaveByMessage, Disconnect, TypeOK, SocketsTyped
<1> QED
  BY <1>1, <1>2, LeaveRoomTyped DEF TypeOK

LEMMA CountdownTickTyped ==
  ASSUME TypeOK, NEW t \in countdownTasks, CountdownTick(t)
  PROVE  TypeOK'
<1>1. /\ t.generation \in Nat /\ t.remaining \in 1..CountdownSteps
      /\ t.remaining - 1 \in 1..CountdownSteps
      /\ t = [generation |-> t.generation, remaining |-> t.remaining]
  BY LobbyAssumption
     DEF LobbyAssumption, CountdownTick, MoreTicks, TypeOK, CountdownTyped
<1>2. [t EXCEPT !.remaining = @ - 1] \in [generation: Nat, remaining: 1..CountdownSteps]
  BY <1>1
<1>3. CountdownTyped'
  BY <1>1, <1>2, LobbyAssumption
     DEF LobbyAssumption, CountdownTick, TypeOK, CountdownTyped
<1>4. UpdatesTyped'
  BY <1>1 DEF CountdownTick, TypeOK, UpdatesTyped, Updates
<1> QED
  BY <1>3, <1>4, UnchangedTyped DEF CountdownTick, TypeOK

LEMMA CountdownStartTyped ==
  ASSUME TypeOK, NEW t \in countdownTasks, CountdownStart(t)
  PROVE  TypeOK'
<1>1. started' \in BOOLEAN /\ countdownActive' \in BOOLEAN
  BY Zenon DEF CountdownStart
<1>2. CountdownTyped'
  BY <1>1, LobbyAssumption
     DEF LobbyAssumption, CountdownStart, TypeOK, CountdownTyped
<1>3. GameTyped'
  BY <1>1 DEF CountdownStart, TypeOK, GameTyped
<1>4. UpdatesTyped'
  BY DEF CountdownStart, TypeOK, UpdatesTyped, Updates
<1> QED
  BY <1>2, <1>3, <1>4, UnchangedTyped DEF CountdownStart, TypeOK

LEMMA CountdownStaleTyped ==
  ASSUME TypeOK, NEW t \in countdownTasks, CountdownStale(t)
  PROVE  TypeOK'
<1>1. CountdownTyped'
  BY DEF CountdownStale, TypeOK, CountdownTyped
<1>2. UpdatesTyped'
  BY DEF CountdownStale, TypeOK, UpdatesTyped
<1> QED
  BY <1>1, <1>2, UnchangedTyped DEF CountdownStale, TypeOK

LEMMA GameplayTickTyped ==
  ASSUME TypeOK, NEW g \in gameplayTasks, GameplayTick(g)
  PROVE  TypeOK'
<1>1. PICK k \in FrameCounts(Len(pendingActions)) :
        sent' = Frames(k) /\ gameplaySequence' = gameplaySequence + k
  BY DEF GameplayTick
<1>2. k \in Nat
  BY FrameCountsNat DEF TypeOK, GameTyped
<1>3. GameTyped'
  BY <1>1, <1>2 DEF GameplayTick, TypeOK, GameTyped
<1>4. UpdatesTyped'
  BY <1>1, <1>2, FramesTyped DEF GameplayTick, TypeOK, UpdatesTyped, GameTyped
<1> QED
  BY <1>3, <1>4, UnchangedTyped DEF GameplayTick, TypeOK

LEMMA GameplayStopTyped ==
  ASSUME TypeOK, NEW g \in gameplayTasks, GameplayStop(g)
  PROVE  TypeOK'
<1>1. TasksTyped'
  BY DEF GameplayStop, TypeOK, TasksTyped
<1>2. UpdatesTyped'
  BY DEF GameplayStop, TypeOK, UpdatesTyped
<1> QED
  BY <1>1, <1>2, UnchangedTyped DEF GameplayStop, TypeOK

LEMMA LastPlayerTimerTyped ==
  ASSUME TypeOK, NEW g \in gameOverTimers, LastPlayerTimer(g)
  PROVE  TypeOK'
<1>1. [session |-> 0, generation |-> g] \in [session: Nat, generation: Nat]
  BY DEF TypeOK, TasksTyped
<1>2. endings' \subseteq endings \cup {[session |-> 0, generation |-> g]}
  BY DEF LastPlayerTimer
<1>3. TasksTyped'
  BY <1>1, <1>2 DEF LastPlayerTimer, TypeOK, TasksTyped
<1>4. UpdatesTyped'
  BY DEF LastPlayerTimer, TypeOK, UpdatesTyped
<1> QED
  BY <1>3, <1>4, UnchangedTyped DEF LastPlayerTimer, TypeOK

LEMMA EndGameTyped ==
  ASSUME TypeOK, NEW e \in endings, EndGame(e)
  PROVE  TypeOK'
<1>1. TasksTyped' /\ unsent' = unsent /\ UNCHANGED <<rosterVars, socketVars>>
  BY DEF EndGame, TypeOK, TasksTyped
<1>2. CASE ~started \/ gameEnded
  <2>1. sent' = <<>> /\ UNCHANGED <<countdownVars, gameVars>>
    BY <1>2 DEF EndGame
  <2>2. UpdatesTyped'
    BY <1>1, <2>1 DEF TypeOK, UpdatesTyped
  <2> QED
    BY <1>1, <2>1, <2>2, UnchangedTyped DEF TypeOK
<1>3. CASE started /\ ~gameEnded /\ Connected = {}
  <2>1. ResetGame /\ StopCountdown /\ sent' = <<>>
    BY <1>3 DEF EndGame
  <2>2. UpdatesTyped'
    BY <1>1, <2>1 DEF TypeOK, UpdatesTyped
  <2> QED
    BY <1>1, <2>1, <2>2, UnchangedTyped, ResetGameTyped, StopCountdownTyped
       DEF TypeOK
<1>4. CASE started /\ ~gameEnded /\ Connected # {}
  <2>1. gameplayActive' \in BOOLEAN /\ gameEnded' \in BOOLEAN
    BY <1>4, Zenon DEF EndGame
  <2>2. /\ gameplayGeneration' = gameplayGeneration + 1
        /\ pendingActions' = <<>>
        /\ UNCHANGED <<started, gameplaySequence, countdownVars>>
    BY <1>4 DEF EndGame, EndedGeneration
  <2>3. GameTyped'
    BY <2>1, <2>2 DEF TypeOK, GameTyped
  <2>4. sent' \in Seq(Updates)
    <3>1. \E r \in EndReasons : sent' = <<[type |-> "GameEnded", reason |-> r]>>
      BY <1>4 DEF EndGame, EndReasons
    <3>2. \A r \in EndReasons : [type |-> "GameEnded", reason |-> r] \in Updates
      BY DEF Updates
    <3> QED
      BY <3>1, <3>2
  <2> QED
    BY <1>1, <2>2, <2>3, <2>4, UnchangedTyped DEF TypeOK, UpdatesTyped
<1> QED
  BY <1>2, <1>3, <1>4

THEOREM StepTyped == TypeOK /\ [Next]_vars => TypeOK'
<1> SUFFICES ASSUME TypeOK, [Next]_vars PROVE TypeOK'
  OBVIOUS
<1>1. CASE ClientCall
  BY <1>1, JoinTyped, MarkReadyTyped, RequestManualStartTyped, MarkLoadedTyped,
     PublishChatTyped, SubmitActionTyped, SubmitKeepaliveTyped, LeaveTyped
     DEF ClientCall
<1>2. CASE CountdownTask
  BY <1>2, CountdownTickTyped, CountdownStartTyped, CountdownStaleTyped
     DEF CountdownTask
<1>3. CASE GameplayTask
  BY <1>3, GameplayTickTyped, GameplayStopTyped DEF GameplayTask
<1>4. CASE TimerTask
  BY <1>4, LastPlayerTimerTyped DEF TimerTask
<1>5. CASE EndTask
  BY <1>5, EndGameTyped DEF EndTask
<1>6. CASE SendTask
  BY <1>6, SendUnlockedTyped DEF SendTask
<1>7. CASE UNCHANGED vars
  BY <1>7, UnchangedTyped DEF vars, TypeOK, UpdatesTyped
<1> QED
  BY <1>1, <1>2, <1>3, <1>4, <1>5, <1>6, <1>7 DEF Next

(* The room's variables keep their types, for every capacity, every bound  *)
(* and every set of names, messages and checksums.                         *)
THEOREM TypeCorrect == Spec => []TypeOK
  BY InitTyped, StepTyped, PTL DEF Spec

----------------------------------------------------------------------------
(* The invariant. *)

SameSeats ==
  /\ Connected' = Connected
  /\ \A q \in Connected : players'[q].session = players[q].session
SameReady ==
  /\ Connected' = Connected
  /\ \A q \in Connected : players'[q].ready = players[q].ready
SameLoaded ==
  /\ Connected' = Connected
  /\ \A q \in Connected : players'[q].loaded = players[q].loaded
SameNumbers ==
  /\ Connected' = Connected
  /\ \A q \in Connected :
       /\ players'[q].lastSequence = players[q].lastSequence
       /\ players'[q].checksums = players[q].checksums

----------------------------------------------------------------------------
(* What a step leaves alone. *)

LEMMA SamePlayers ==
  ASSUME UNCHANGED players
  PROVE  SameSeats /\ SameReady /\ SameLoaded /\ SameNumbers
  BY DEF SameSeats, SameReady, SameLoaded, SameNumbers, Connected

LEMMA SeatsFrame ==
  ASSUME SeatsInv, SameSeats, UNCHANGED <<nextSession, socketVars>>
  PROVE  SeatsInv'
  BY DEF SeatsInv, SeatsMatchSockets, OldSessionsAreGone, SessionMatches, SameSeats,
     socketVars

LEMMA CountdownFrame ==
  ASSUME CountdownInv, SameReady, UNCHANGED <<countdownVars, started>>
  PROVE  CountdownInv'
<1>1. AllReady(players)' = AllReady(players)
  BY DEF AllReady, SameReady, Connected
<1> QED
  BY <1>1 DEF CountdownInv, CountdownHasItsTask, CountdownHasItsPlayers,
     ArmedWaitsForSomeone, FullLobbyCounts, countdownVars, SameReady, AtLeastTwo

LEMMA PhaseFrame ==
  ASSUME PhaseInv, SameLoaded,
         UNCHANGED <<countdownActive, started, gameplayActive, gameEnded,
                     gameplayGeneration, gameplayTasks>>
  PROVE  PhaseInv'
<1>1. AllLoaded(players)' = AllLoaded(players)
  BY DEF AllLoaded, SameLoaded, Connected
<1> QED
  BY <1>1 DEF PhaseInv, PhaseConsistent, LoadingNeverHangs, UnloadedBeforeStart,
     GameplayHasItsTask, SameLoaded, AtLeastTwo

LEMMA TimersFrame ==
  ASSUME TimersInv, Connected' = Connected,
         UNCHANGED <<started, gameEnded, gameplayGeneration, gameOverTimers, endings>>
  PROVE  TimersInv'
  BY DEF TimersInv, NoStaleTimer, SoloGameIsTimed, TimersMeanThisGame, Solo

LEMMA StreamFrame ==
  ASSUME StreamInv, SameNumbers, UNCHANGED <<gameplayActive, gameEnded, pendingActions>>
  PROVE  StreamInv'
  BY DEF StreamInv, CleanStart, PendingFromConnected, NothingPendingOutside, SameNumbers

LEMMA DesyncFrame ==
  ASSUME DesyncInv, SameSeats,
         UNCHANGED <<started, gameplayActive, gameEnded, gameplayGeneration, endings>>
  PROVE  DesyncInv'
  BY DEF DesyncInv, DesyncNamesItsGame, DesyncedGameRuns, SameSeats

LEMMA RevisionFrame ==
  ASSUME RevisionNamesRoster, Connected' = Connected, UNCHANGED <<revision, unsent>>
  PROVE  RevisionNamesRoster'
  BY DEF RevisionNamesRoster, CurrentRoster, Connected

(* A step that leaves the players, the countdown, the game and its tasks   *)
(* alone.                                                                  *)
LEMMA RoomFrame ==
  ASSUME Inductive, UNCHANGED <<rosterVars, countdownVars, gameVars, taskVars>>
  PROVE  /\ CountdownInv' /\ PhaseInv' /\ TimersInv' /\ StreamInv' /\ DesyncInv'
         /\ SameSeats
<1>1. SameSeats /\ SameReady /\ SameLoaded /\ SameNumbers
  BY SamePlayers DEF rosterVars
<1>2. /\ UNCHANGED <<started, gameplayActive, gameEnded, gameplayGeneration,
                     pendingActions>>
      /\ UNCHANGED <<gameplayTasks, gameOverTimers, endings>>
      /\ UNCHANGED countdownVars /\ UNCHANGED countdownActive
  BY DEF gameVars, taskVars, countdownVars
<1>3. Connected' = Connected
  BY <1>1 DEF SameSeats
<1>4. CountdownInv'
  BY <1>1, <1>2, CountdownFrame DEF Inductive
<1>5. PhaseInv'
  BY <1>1, <1>2, PhaseFrame DEF Inductive
<1>6. TimersInv'
  BY <1>2, <1>3, TimersFrame DEF Inductive
<1>7. StreamInv' /\ DesyncInv'
  BY <1>1, <1>2, StreamFrame, DesyncFrame DEF Inductive
<1> QED
  BY <1>1, <1>4, <1>5, <1>6, <1>7

----------------------------------------------------------------------------
LEMMA InitSafe == Init => Inductive
<1> SUFFICES ASSUME Init PROVE Inductive
  OBVIOUS
<1>1. Connected = {} /\ PlayerIds # {}
  <2>1. Connected = {}
    BY DEF Init, Connected
  <2>2. 1 \in PlayerIds
    BY LobbyAssumption DEF LobbyAssumption, PlayerIds
  <2> QED
    BY <2>1, <2>2
<1>2. SeatsInv
  BY <1>1 DEF Init, SeatsInv, SeatsMatchSockets, OldSessionsAreGone
<1>3. CountdownInv
  BY <1>1 DEF Init, CountdownInv, CountdownHasItsTask, CountdownHasItsPlayers,
     ArmedWaitsForSomeone, FullLobbyCounts
<1>4. PhaseInv
  BY <1>1 DEF Init, PhaseInv, PhaseConsistent, LoadingNeverHangs,
     UnloadedBeforeStart, GameplayHasItsTask
<1>5. TimersInv
  BY DEF Init, TimersInv, NoStaleTimer, SoloGameIsTimed, TimersMeanThisGame
<1>6. StreamInv
  BY <1>1 DEF Init, StreamInv, CleanStart, PendingFromConnected, NothingPendingOutside
<1>7. DesyncInv /\ RevisionNamesRoster
  BY DEF Init, DesyncInv, DesyncNamesItsGame, DesyncedGameRuns, RevisionNamesRoster
<1> QED
  BY <1>2, <1>3, <1>4, <1>5, <1>6, <1>7, InitTyped DEF Inductive

----------------------------------------------------------------------------
(* Membership. *)

LEMMA UnsentRevision ==
  ASSUME TypeOK, RevisionNamesRoster, NEW u \in unsent, u.update.type = "Roster"
  PROVE  u.update.roster.revision < revision + 1
<1>1. u.update.roster.revision \in Nat
  BY DEF TypeOK, UpdatesTyped, Updates, Roster
<1>2. revision \in Nat
  BY DEF TypeOK, RosterTyped
<1>3. CASE u.update.roster.revision < revision
  BY <1>1, <1>2, <1>3
<1>4. CASE u.update.roster = CurrentRoster(revision, players)
  BY <1>2, <1>4 DEF CurrentRoster
<1> QED
  BY <1>3, <1>4 DEF RevisionNamesRoster

LEMMA JoinSafe ==
  ASSUME Inductive, NEW name \in Names, Join(name)
  PROVE  Inductive'
<1>1. PICK p \in PlayerIds : LowestFree(p) /\ TakeSeat(p, name)
  BY DEF Join
<1>2. /\ ~started /\ ~countdownActive
      /\ p \notin Connected
      /\ Connected' = Connected \cup {p}
      /\ players'[p] = FreshPlayer(name)
      /\ \A q \in Connected : players'[q] = players[q]
  BY <1>1 DEF Join, Admits, LowestFree, TakeSeat, Connected
<1>3. /\ UNCHANGED <<countdownGeneration, countdownActive, remaining, manualStart,
                     countdownTasks>>
      /\ UNCHANGED <<started, gameplayActive, gameEnded, gameplayGeneration,
                     gameplaySequence, pendingActions>>
      /\ UNCHANGED <<gameplayTasks, gameOverTimers, endings, departed>>
  BY DEF Join, countdownVars, gameVars, taskVars
<1>4. /\ revision \in Nat /\ nextSession \in Nat
      /\ revision' = revision + 1 /\ nextSession' = nextSession + 1
  BY <1>1 DEF TakeSeat, NextRevision, Inductive, TypeOK, RosterTyped, Sessions
<1>5. FreshPlayer(name).session = nextSession /\ ~FreshPlayer(name).ready
      /\ ~FreshPlayer(name).loaded /\ FreshPlayer(name).lastSequence = 0
      /\ FreshPlayer(name).checksums = <<>>
  BY DEF FreshPlayer
<1>6. SeatsInv'
  <2>1. memberships' = memberships \cup {[player |-> p, session |-> nextSession]}
    BY <1>1 DEF TakeSeat
  <2>2. \A m \in memberships \cup departed : m \in Membership
    BY DEF Inductive, TypeOK, SocketsTyped
  <2>3. \A m \in memberships' \cup departed' : m.session \in Nat /\ m.session < nextSession'
    BY <1>3, <1>4, <2>1, <2>2
       DEF Inductive, SeatsInv, OldSessionsAreGone, Membership, Sessions
  <2>4. \A m \in memberships' : SessionMatches(m)'
    <3> SUFFICES ASSUME NEW m \in memberships' PROVE SessionMatches(m)'
      OBVIOUS
    <3>1. CASE m \in memberships
      <4>1. m.player \in Connected /\ players[m.player].session = m.session
        BY <3>1 DEF Inductive, SeatsInv, SeatsMatchSockets, SessionMatches
      <4> QED
        BY <1>2, <4>1 DEF SessionMatches
    <3>2. CASE m = [player |-> p, session |-> nextSession]
      BY <1>2, <1>5, <3>2 DEF SessionMatches
    <3> QED
      BY <2>1, <3>1, <3>2
  <2>5. \A q \in Connected' : \E m \in memberships' : m.player = q
    <3>1. [player |-> p, session |-> nextSession] \in memberships'
      BY <2>1
    <3>2. \A q \in Connected : \E m \in memberships' : m.player = q
      BY <2>1 DEF Inductive, SeatsInv, SeatsMatchSockets
    <3> QED
      BY <1>2, <3>1, <3>2
  <2>6. \A m \in departed' : ~SessionMatches(m)'
    <3> SUFFICES ASSUME NEW m \in departed PROVE ~SessionMatches(m)'
      BY <1>3
    <3>1. m.session < nextSession /\ m.session \in Nat /\ ~SessionMatches(m)
      BY <2>2 DEF Inductive, SeatsInv, OldSessionsAreGone, Membership, Sessions
    <3>2. m.session # nextSession
      BY <1>4, <3>1
    <3> QED
      BY <1>2, <1>5, <3>1, <3>2 DEF SessionMatches
  <2> QED
    BY <2>3, <2>4, <2>5, <2>6 DEF SeatsInv, SeatsMatchSockets, OldSessionsAreGone
<1>7. CountdownInv'
  <2>1. ~AllReady(players')
    BY <1>2, <1>5 DEF AllReady, Connected
  <2>2. AtLeastTwo(Connected) => AtLeastTwo(Connected')
    BY <1>2 DEF AtLeastTwo
  <2> QED
    BY <1>2, <1>3, <2>1, <2>2
       DEF Inductive, CountdownInv, CountdownHasItsTask, CountdownHasItsPlayers,
           ArmedWaitsForSomeone, FullLobbyCounts
<1>8. PhaseInv'
  BY <1>2, <1>3, <1>5
     DEF Inductive, PhaseInv, PhaseConsistent, LoadingNeverHangs,
         UnloadedBeforeStart, GameplayHasItsTask
<1>9. TimersInv'
  BY <1>2, <1>3
     DEF Inductive, TimersInv, NoStaleTimer, SoloGameIsTimed, TimersMeanThisGame
<1>10. StreamInv'
  BY <1>2, <1>3, <1>5
     DEF Inductive, StreamInv, CleanStart, PendingFromConnected, NothingPendingOutside
<1>11. DesyncInv'
  BY <1>2, <1>3 DEF Inductive, DesyncInv, DesyncNamesItsGame, DesyncedGameRuns
<1>12. RevisionNamesRoster'
  <2>1. unsent' = unsent \cup
          {[session |-> nextSession,
            update |-> [type |-> "Roster",
                        roster |-> CurrentRoster(revision', players')]]}
    BY <1>1 DEF TakeSeat
  <2>2. \A u \in unsent : u.update.type = "Roster" =>
          u.update.roster.revision < revision'
    BY <1>4, UnsentRevision DEF Inductive
  <2> QED
    BY <2>1, <2>2 DEF RevisionNamesRoster
<1> QED
  BY <1>6, <1>7, <1>8, <1>9, <1>10, <1>11, <1>12, JoinTyped DEF Inductive

LEMMA SendUnlockedSafe ==
  ASSUME Inductive, NEW u \in unsent, SendUnlocked(u)
  PROVE  Inductive'
<1>1. UNCHANGED <<rosterVars, countdownVars, gameVars, taskVars>>
      /\ UNCHANGED <<nextSession, socketVars, revision, players>>
  BY DEF SendUnlocked, rosterVars
<1>2. SeatsInv'
  BY <1>1, SamePlayers, SeatsFrame DEF Inductive
<1>3. RevisionNamesRoster'
  BY <1>1 DEF SendUnlocked, Inductive, RevisionNamesRoster, CurrentRoster
<1> QED
  BY <1>1, <1>2, <1>3, RoomFrame, SendUnlockedTyped DEF Inductive

LEMMA PublishChatSafe ==
  ASSUME Inductive, NEW m \in memberships, NEW message \in Messages,
         PublishChat(m, message)
  PROVE  Inductive'
<1>1. UNCHANGED <<rosterVars, countdownVars, gameVars, taskVars>>
      /\ UNCHANGED <<nextSession, socketVars, revision, players>>
  BY DEF PublishChat, rosterVars
<1>2. SeatsInv'
  BY <1>1, SamePlayers, SeatsFrame DEF Inductive
<1>3. RevisionNamesRoster'
  BY <1>1 DEF PublishChat, Inductive, RevisionNamesRoster, CurrentRoster
<1> QED
  BY <1>1, <1>2, <1>3, RoomFrame, PublishChatTyped DEF Inductive

----------------------------------------------------------------------------
(* Readiness, loading and the countdown. *)

LEMMA BeginCountdownSafe ==
  ASSUME Inductive, BeginCountdown, UNCHANGED started, ~started,
         Connected' = Connected, \A p \in Connected : players'[p].ready,
         AtLeastTwo(Connected) \/ Connected = PlayerIds
  PROVE  CountdownInv'
<1> DEFINE task == [generation |-> countdownGeneration + 1, remaining |-> CountdownSteps]
<1>1. /\ countdownGeneration \in Nat
      /\ \A t \in countdownTasks : t.generation \in Nat /\ t.generation <= countdownGeneration
  BY DEF Inductive, TypeOK, CountdownTyped, CountdownInv, CountdownHasItsPlayers
<1>2. /\ countdownGeneration' = countdownGeneration + 1
      /\ countdownActive' = TRUE /\ manualStart' = FALSE
      /\ remaining' = CountdownSteps
      /\ countdownTasks' = countdownTasks \cup {task}
  BY DEF BeginCountdown, NextCountdown
<1>3. AllReady(players)'
  BY DEF AllReady, Connected
<1>4. \A other \in countdownTasks' : other.generation = countdownGeneration' <=> other = task
  BY <1>1, <1>2
<1>5. CountdownHasItsTask'
  BY <1>2, <1>3, <1>4 DEF CountdownHasItsTask
<1>6. CountdownHasItsPlayers'
  BY <1>1, <1>2 DEF CountdownHasItsPlayers, AtLeastTwo
<1> QED
  BY <1>2, <1>5, <1>6 DEF CountdownInv, ArmedWaitsForSomeone, FullLobbyCounts

LEMMA MarkReadySafe ==
  ASSUME Inductive, NEW m \in memberships, MarkReady(m)
  PROVE  Inductive'
<1>1. /\ m.player \in Connected /\ ~players[m.player].ready
      /\ players' = [players EXCEPT ![m.player].ready = TRUE]
      /\ UNCHANGED <<revision, nextSession, socketVars, unsent>>
      /\ UNCHANGED <<started, gameplayActive, gameEnded, gameplayGeneration,
                     gameplaySequence, pendingActions>>
      /\ UNCHANGED <<gameplayTasks, gameOverTimers, endings>>
  BY DEF MarkReady, Calls, SessionMatches, gameVars, taskVars
<1>2. SameSeats /\ SameLoaded /\ SameNumbers /\ Connected' = Connected
  BY <1>1 DEF SameSeats, SameLoaded, SameNumbers, Connected, Inductive, TypeOK,
              RosterTyped, ConnectedPlayer
<1>3. CountdownInv' /\ PhaseInv'
  <2>1. CASE CanStartCountdown(players') /\ BeginCountdown
    <3>1. /\ ~started
          /\ AtLeastTwo(Connected) \/ Connected = PlayerIds
          /\ \A p \in Connected : players'[p].ready
      BY <1>2, <2>1 DEF CanStartCountdown, AllReady, Connected
    <3>2. AllLoaded(players)' = AllLoaded(players)
      BY <1>2 DEF AllLoaded, SameLoaded, Connected
    <3>3. PhaseInv'
      BY <1>1, <1>2, <3>1, <3>2
         DEF Inductive, PhaseInv, PhaseConsistent, LoadingNeverHangs,
             UnloadedBeforeStart, GameplayHasItsTask, SameLoaded, AtLeastTwo
    <3> QED
      BY <1>1, <1>2, <2>1, <3>1, <3>3, BeginCountdownSafe
  <2>2. CASE ~CanStartCountdown(players') /\ UNCHANGED countdownVars
    <3>1. UNCHANGED <<countdownGeneration, countdownActive, remaining, manualStart,
                      countdownTasks>>
      BY <2>2 DEF countdownVars
    <3>2. ~countdownActive
      BY <1>1 DEF Inductive, CountdownInv, CountdownHasItsTask, AllReady, Connected
    <3>3. AllReady(players)' <=> AllReady(players')
      BY DEF AllReady
    <3>4. CountdownInv'
      BY <1>1, <1>2, <2>2, <3>1, <3>2, <3>3
         DEF Inductive, CountdownInv, CountdownHasItsTask, CountdownHasItsPlayers,
             ArmedWaitsForSomeone, FullLobbyCounts, CanStartCountdown, AtLeastTwo,
             Connected
    <3> QED
      BY <1>1, <1>2, <3>1, <3>4, PhaseFrame DEF Inductive
  <2> QED
    BY <2>1, <2>2 DEF MarkReady
<1> QED
  BY <1>1, <1>2, <1>3, MarkReadyTyped, SeatsFrame, TimersFrame, StreamFrame,
     DesyncFrame, RevisionFrame DEF Inductive

LEMMA RequestManualStartSafe ==
  ASSUME Inductive, NEW m \in memberships, RequestManualStart(m)
  PROVE  Inductive'
<1>1. /\ UNCHANGED <<revision, nextSession, players, socketVars, unsent>>
      /\ UNCHANGED <<started, gameplayActive, gameEnded, gameplayGeneration,
                     gameplaySequence, pendingActions>>
      /\ UNCHANGED <<gameplayTasks, gameOverTimers, endings>>
      /\ ~started /\ ~countdownActive /\ AtLeastTwo(Connected)
  BY DEF RequestManualStart, rosterVars, gameVars, taskVars
<1>2. /\ SameSeats /\ SameReady /\ SameLoaded /\ SameNumbers
      /\ Connected' = Connected
  BY <1>1, SamePlayers DEF Connected
<1>3. CASE AllReady(players) /\ BeginCountdown
  <2>1. \A p \in Connected : players'[p].ready
    BY <1>1, <1>3 DEF AllReady, Connected
  <2>2. CountdownInv'
    BY <1>1, <1>2, <1>3, <2>1, BeginCountdownSafe
  <2>3. PhaseInv'
    BY <1>1, <1>2
       DEF Inductive, PhaseInv, PhaseConsistent, LoadingNeverHangs,
           UnloadedBeforeStart, GameplayHasItsTask, SameLoaded, AtLeastTwo
  <2> QED
    BY <1>1, <1>2, <2>2, <2>3, RequestManualStartTyped, SeatsFrame, TimersFrame,
       StreamFrame, DesyncFrame, RevisionFrame DEF Inductive
<1>4. CASE ~AllReady(players) /\ UNCHANGED <<countdownGeneration, countdownActive,
                                             remaining, countdownTasks>>
  <2>1. AllReady(players)' = AllReady(players)
    BY <1>1 DEF AllReady
  <2>2. CountdownInv'
    BY <1>1, <1>2, <1>4, <2>1
       DEF Inductive, CountdownInv, CountdownHasItsTask, CountdownHasItsPlayers,
           ArmedWaitsForSomeone, FullLobbyCounts, AtLeastTwo
  <2> QED
    BY <1>1, <1>2, <1>4, <2>2, RequestManualStartTyped, SeatsFrame, PhaseFrame,
       TimersFrame, StreamFrame, DesyncFrame, RevisionFrame DEF Inductive
<1> QED
  BY <1>3, <1>4 DEF RequestManualStart

(* The task whose generation the running countdown has, and no other.      *)
LEMMA OneCountdown ==
  ASSUME Inductive, NEW t \in countdownTasks, CountdownMatches(t.generation)
  PROVE  /\ t.remaining = remaining
         /\ \A other \in countdownTasks :
              other.generation = countdownGeneration <=> other = t
  BY DEF Inductive, CountdownInv, CountdownHasItsTask, CountdownMatches

LEMMA CountdownTickSafe ==
  ASSUME Inductive, NEW t \in countdownTasks, CountdownTick(t)
  PROVE  Inductive'
<1>1. /\ countdownActive /\ countdownGeneration = t.generation
      /\ remaining' = t.remaining - 1
      /\ countdownTasks' = (countdownTasks \ {t}) \cup {[t EXCEPT !.remaining = @ - 1]}
      /\ UNCHANGED <<countdownGeneration, countdownActive, manualStart>>
      /\ UNCHANGED <<revision, nextSession, players, socketVars, unsent>>
      /\ UNCHANGED <<started, gameplayActive, gameEnded, gameplayGeneration,
                     gameplaySequence, pendingActions>>
      /\ UNCHANGED <<gameplayTasks, gameOverTimers, endings>>
  BY DEF CountdownTick, CountdownMatches, rosterVars, gameVars, taskVars
<1>2. /\ SameSeats /\ SameReady /\ SameLoaded /\ SameNumbers
      /\ Connected' = Connected
  BY <1>1, SamePlayers DEF Connected
<1>3. /\ t = [generation |-> t.generation, remaining |-> t.remaining]
      /\ t.remaining \in Nat
      /\ \A other \in countdownTasks : other.generation = countdownGeneration <=> other = t
  BY OneCountdown DEF CountdownTick, Inductive, TypeOK, CountdownTyped
<1>4. CountdownInv'
  <2> DEFINE next == [t EXCEPT !.remaining = @ - 1]
  <2>1. next.generation = t.generation /\ next.remaining = t.remaining - 1
    BY <1>3
  <2> HIDE DEF next
  <2>2. \A other \in countdownTasks' : other.generation = countdownGeneration' <=> other = next
    BY <1>1, <1>3, <2>1 DEF next
  <2>3. AllReady(players)' = AllReady(players)
    BY <1>1 DEF AllReady
  <2>4. CountdownHasItsTask'
    BY <1>1, <2>1, <2>2, <2>3 DEF next, CountdownHasItsTask, Inductive, CountdownInv
  <2>5. CountdownHasItsPlayers'
    BY <1>1, <1>2, <2>1
       DEF next, CountdownHasItsPlayers, Inductive, CountdownInv, AtLeastTwo
  <2> QED
    BY <1>1, <1>2, <2>3, <2>4, <2>5
       DEF CountdownInv, ArmedWaitsForSomeone, FullLobbyCounts, Inductive, AtLeastTwo
<1> QED
  BY <1>1, <1>2, <1>4, CountdownTickTyped, SeatsFrame, PhaseFrame, TimersFrame,
     StreamFrame, DesyncFrame, RevisionFrame DEF Inductive

LEMMA CountdownStartSafe ==
  ASSUME Inductive, NEW t \in countdownTasks, CountdownStart(t)
  PROVE  Inductive'
<1>1. /\ countdownActive /\ TickDue
      /\ countdownActive' = FALSE /\ started' = TRUE
      /\ countdownTasks' = countdownTasks \ {t}
      /\ UNCHANGED <<countdownGeneration, manualStart>>
      /\ UNCHANGED <<revision, nextSession, players, socketVars, unsent>>
      /\ UNCHANGED <<gameplayActive, gameEnded, gameplayGeneration,
                     gameplaySequence, pendingActions>>
      /\ UNCHANGED <<gameplayTasks, gameOverTimers, endings>>
  BY DEF CountdownStart, CountdownMatches, rosterVars, taskVars
<1>2. /\ SameSeats /\ SameReady /\ SameLoaded /\ SameNumbers
      /\ Connected' = Connected
  BY <1>1, SamePlayers DEF Connected
<1>3. /\ ~started
      /\ AtLeastTwo(Connected) \/ Connected = PlayerIds
      /\ 1 \in PlayerIds /\ ~manualStart
  BY <1>1, LobbyAssumption
     DEF LobbyAssumption, PlayerIds, Inductive, CountdownInv, CountdownHasItsTask,
         CountdownHasItsPlayers, ArmedWaitsForSomeone
<1>4. Connected # {}
  BY <1>3 DEF AtLeastTwo
<1>5. CountdownInv'
  BY <1>1, <1>3
     DEF CountdownInv, CountdownHasItsTask, CountdownHasItsPlayers,
         ArmedWaitsForSomeone, FullLobbyCounts, Inductive
<1>6. PhaseInv'
  <2>1. ~AllLoaded(players)'
    BY <1>1, <1>3, <1>4
       DEF AllLoaded, Inductive, PhaseInv, UnloadedBeforeStart, Connected
  <2>2. ~gameplayActive /\ ~gameEnded
    BY <1>3 DEF Inductive, PhaseInv, PhaseConsistent
  <2> QED
    BY <1>1, <1>2, <1>4, <2>1, <2>2
       DEF Inductive, PhaseInv, PhaseConsistent, LoadingNeverHangs,
           UnloadedBeforeStart, GameplayHasItsTask
<1>7. TimersInv'
  <2>1. \A g \in gameOverTimers : g <= gameplayGeneration /\ g # gameplayGeneration
    BY <1>3 DEF Inductive, TimersInv, NoStaleTimer, TimersMeanThisGame
  <2>2. NoStaleTimer'
    BY <1>1, <2>1 DEF NoStaleTimer
  <2>3. SoloGameIsTimed'
    <3>1. ASSUME MaxPlayers > 1 PROVE ~Solo(Connected)
      <4>1. 1 \in PlayerIds /\ 2 \in PlayerIds
        BY <3>1, LobbyAssumption DEF LobbyAssumption, PlayerIds
      <4> QED
        BY <1>3, <4>1 DEF Solo, AtLeastTwo
    <3> QED
      BY <1>2, <3>1 DEF SoloGameIsTimed, Solo
  <2>4. TimersMeanThisGame'
    BY <1>1, <2>1 DEF TimersMeanThisGame, TickDue
  <2> QED
    BY <2>2, <2>3, <2>4 DEF TimersInv
<1>8. DesyncInv'
  BY <1>1, <1>2, <1>3
     DEF Inductive, DesyncInv, DesyncNamesItsGame, DesyncedGameRuns
<1> QED
  BY <1>1, <1>2, <1>5, <1>6, <1>7, <1>8, CountdownStartTyped, SeatsFrame,
     StreamFrame, RevisionFrame DEF Inductive

LEMMA CountdownStaleSafe ==
  ASSUME Inductive, NEW t \in countdownTasks, CountdownStale(t)
  PROVE  Inductive'
<1>1. /\ ~CountdownMatches(t.generation)
      /\ countdownTasks' = countdownTasks \ {t}
      /\ UNCHANGED <<countdownGeneration, countdownActive, remaining, manualStart>>
      /\ UNCHANGED <<revision, nextSession, players, socketVars, unsent>>
      /\ UNCHANGED <<started, gameplayActive, gameEnded, gameplayGeneration,
                     gameplaySequence, pendingActions>>
      /\ UNCHANGED <<gameplayTasks, gameOverTimers, endings>>
  BY DEF CountdownStale, rosterVars, gameVars, taskVars
<1>2. /\ SameSeats /\ SameReady /\ SameLoaded /\ SameNumbers
      /\ Connected' = Connected
  BY <1>1, SamePlayers DEF Connected
<1>3. AllReady(players)' = AllReady(players)
  BY <1>1 DEF AllReady
<1>4. CountdownInv'
  BY <1>1, <1>2, <1>3
     DEF Inductive, CountdownInv, CountdownHasItsTask, CountdownHasItsPlayers,
         ArmedWaitsForSomeone, FullLobbyCounts, CountdownMatches, AtLeastTwo
<1> QED
  BY <1>1, <1>2, <1>4, CountdownStaleTyped, SeatsFrame, PhaseFrame, TimersFrame,
     StreamFrame, DesyncFrame, RevisionFrame DEF Inductive

----------------------------------------------------------------------------
(* Loading and gameplay. *)

LEMMA MarkLoadedSafe ==
  ASSUME Inductive, NEW m \in memberships, MarkLoaded(m)
  PROVE  Inductive'
<1>1. /\ m.player \in Connected /\ started /\ ~gameEnded
      /\ players' = [players EXCEPT ![m.player].loaded = TRUE]
      /\ UNCHANGED <<pendingActions, revision, nextSession, countdownVars>>
      /\ UNCHANGED <<gameOverTimers, endings, socketVars, unsent>>
      /\ UNCHANGED <<countdownActive, started, gameEnded>>
  BY DEF MarkLoaded, Calls, SessionMatches, BeginGameplay, countdownVars
<1>2. SameSeats /\ SameReady /\ SameNumbers /\ Connected' = Connected
  BY <1>1 DEF SameSeats, SameReady, SameNumbers, Connected, Inductive, TypeOK,
              RosterTyped, ConnectedPlayer
<1>3. gameplayGeneration \in Nat
  BY DEF Inductive, TypeOK, GameTyped
<1>4. CASE BeginsGameplay(players') /\ BeginGameplay
  <2>1. /\ gameplayGeneration' = gameplayGeneration + 1
        /\ gameplayActive' = TRUE
        /\ gameplayTasks' = gameplayTasks \cup {gameplayGeneration + 1}
        /\ ~gameplayActive /\ AtLeastTwo(Connected) /\ AllLoaded(players')
    BY <1>2, <1>4 DEF BeginGameplay, BeginsGameplay, Connected
  <2>2. AllLoaded(players)' /\ ~Solo(Connected) /\ Connected # {}
    BY <2>1 DEF AllLoaded, Solo, AtLeastTwo
  <2>3. PhaseInv'
    BY <1>1, <1>2, <1>3, <2>1, <2>2
       DEF Inductive, PhaseInv, PhaseConsistent, LoadingNeverHangs,
           UnloadedBeforeStart, GameplayHasItsTask, TypeOK, TasksTyped
  <2>4. TimersInv'
    <3>1. \A g \in gameOverTimers : g \in Nat /\ g <= gameplayGeneration
      BY DEF Inductive, TypeOK, TasksTyped, TimersInv, NoStaleTimer
    <3>2. \A e \in endings : PromptEnd => e.session # 0
      BY <1>1, <2>2 DEF Inductive, TimersInv, TimersMeanThisGame
    <3> QED
      BY <1>1, <1>2, <1>3, <2>1, <2>2, <3>1, <3>2
         DEF TimersInv, NoStaleTimer, SoloGameIsTimed, TimersMeanThisGame, Solo
  <2>5. StreamInv'
    BY <1>1, <1>2, <2>1
       DEF Inductive, StreamInv, CleanStart, PendingFromConnected,
           NothingPendingOutside, SameNumbers
  <2>6. DesyncInv'
    <3>1. \A e \in endings : e.session = 0
      BY <1>1, <2>1 DEF Inductive, DesyncInv, DesyncNamesItsGame, DesyncedGameRuns
    <3> QED
      BY <1>1, <3>1 DEF DesyncInv, DesyncNamesItsGame, DesyncedGameRuns
  <2> QED
    BY <1>1, <1>2, <2>3, <2>4, <2>5, <2>6, MarkLoadedTyped, SeatsFrame,
       CountdownFrame, RevisionFrame DEF Inductive
<1>5. CASE /\ ~BeginsGameplay(players')
           /\ UNCHANGED <<started, gameplayActive, gameEnded, gameplayGeneration,
                          gameplaySequence, gameplayTasks>>
  <2>1. PhaseInv'
    <3>1. AllLoaded(players)' <=> AllLoaded(players')
      BY DEF AllLoaded
    <3>2. AllLoaded(players) => AllLoaded(players')
      BY <1>1 DEF AllLoaded, Inductive, TypeOK, RosterTyped, ConnectedPlayer, Connected
    <3>3. PhaseConsistent' /\ UnloadedBeforeStart' /\ GameplayHasItsTask'
      BY <1>1, <1>2, <1>5, <3>1, <3>2
         DEF Inductive, PhaseInv, PhaseConsistent, UnloadedBeforeStart,
             GameplayHasItsTask
    <3>4. LoadingNeverHangs'
      BY <1>1, <1>2, <1>5, <3>1
         DEF LoadingNeverHangs, BeginsGameplay, AtLeastTwo, Connected
    <3> QED
      BY <3>3, <3>4 DEF PhaseInv
  <2> QED
    BY <1>1, <1>2, <1>5, <2>1, MarkLoadedTyped, SeatsFrame, CountdownFrame,
       TimersFrame, StreamFrame, DesyncFrame, RevisionFrame DEF Inductive
<1> QED
  BY <1>4, <1>5 DEF MarkLoaded

LEMMA SubmitActionSafe ==
  ASSUME Inductive, NEW m \in memberships, NEW sequence \in 1..MaxSequence,
         SubmitAction(m, sequence)
  PROVE  Inductive'
<1>1. /\ m.player \in Connected /\ gameplayActive
      /\ players' = [players EXCEPT ![m.player].lastSequence = sequence]
      /\ pendingActions' = Append(pendingActions, m.player)
      /\ UNCHANGED <<started, gameplayActive, gameEnded, gameplayGeneration,
                     countdownActive, gameplayTasks, gameOverTimers, endings>>
      /\ UNCHANGED <<revision, nextSession, countdownVars, socketVars, unsent>>
  BY DEF SubmitAction, Calls, SessionMatches, GameRuns, countdownVars, taskVars
<1>2. SameSeats /\ SameReady /\ SameLoaded /\ Connected' = Connected
  BY <1>1 DEF SameSeats, SameReady, SameLoaded, Connected, Inductive, TypeOK,
              RosterTyped, ConnectedPlayer
<1>3. StreamInv'
  <2>1. pendingActions \in Seq(PlayerIds) /\ m.player \in PlayerIds
    BY <1>1 DEF Inductive, TypeOK, GameTyped, RosterTyped
  <2>2. \A i \in DOMAIN pendingActions' : pendingActions'[i] \in Connected
    BY <1>1, <2>1 DEF Inductive, StreamInv, PendingFromConnected
  <2> QED
    BY <1>1, <1>2, <2>2
       DEF StreamInv, CleanStart, PendingFromConnected, NothingPendingOutside
<1> QED
  BY <1>1, <1>2, <1>3, SubmitActionTyped, SeatsFrame, CountdownFrame, PhaseFrame,
     TimersFrame, DesyncFrame, RevisionFrame DEF Inductive

LEMMA SubmitKeepaliveSafe ==
  ASSUME Inductive, NEW m \in memberships, NEW sequence \in 1..MaxSequence,
         NEW checksum \in Checksums, SubmitKeepalive(m, sequence, checksum)
  PROVE  Inductive'
<1> DEFINE found == [session |-> m.session, generation |-> gameplayGeneration]
<1>1. /\ m.player \in Connected /\ players[m.player].session = m.session
      /\ m.session \in Sessions
      /\ gameplayActive /\ ~gameEnded
      /\ UNCHANGED <<started, gameplayActive, gameEnded, gameplayGeneration,
                     pendingActions, countdownActive, gameplayTasks, gameOverTimers>>
      /\ UNCHANGED <<revision, nextSession, countdownVars, socketVars, unsent>>
  BY DEF SubmitKeepalive, Calls, SessionMatches, GameRuns, countdownVars, gameVars,
         Inductive, TypeOK, SocketsTyped, Membership
<1>2. /\ Connected' = Connected
      /\ \A q \in Connected :
           /\ players'[q].session = players[q].session
           /\ players'[q].ready = players[q].ready
           /\ players'[q].loaded = players[q].loaded
  <2>1. \A q \in Connected : players[q] \in ConnectedPlayer
    BY DEF Inductive, TypeOK, RosterTyped
  <2> DEFINE queues == [q \in Connected |->
               IF q = m.player THEN Append(players[q].checksums, checksum)
                               ELSE players[q].checksums]
  <2>2. PICK n \in 0..MaxPendingChecksums :
          players' = [q \in Connected |->
            [players[q] EXCEPT
               !.lastSequence = IF q = m.player THEN sequence ELSE @,
               !.checksums = SubSeq(queues[q], n + 1, Len(queues[q]))]]
    BY DEF SubmitKeepalive
  <2> HIDE DEF queues
  <2> QED
    BY <2>1, <2>2 DEF Connected, ConnectedPlayer
<1>3. SameSeats /\ SameReady /\ SameLoaded
  BY <1>2 DEF SameSeats, SameReady, SameLoaded
<1>4. endings' = endings \/ endings' = endings \cup {found}
  BY ZenonT(20) DEF SubmitKeepalive
<1>5. TimersInv'
  <2>1. found.session # 0
    BY <1>1 DEF Sessions
  <2> HIDE DEF found
  <2> QED
    BY <1>1, <1>2, <1>4, <2>1
       DEF Inductive, TimersInv, NoStaleTimer, SoloGameIsTimed, TimersMeanThisGame, Solo
<1>6. StreamInv'
  BY <1>1, <1>2
     DEF Inductive, StreamInv, CleanStart, PendingFromConnected, NothingPendingOutside
<1>7. DesyncInv'
  <2>1. started
    BY <1>1 DEF Inductive, PhaseInv, PhaseConsistent
  <2> QED
    BY <1>1, <1>2, <1>4, <2>1
       DEF Inductive, DesyncInv, DesyncNamesItsGame, DesyncedGameRuns
<1> QED
  BY <1>1, <1>2, <1>3, <1>5, <1>6, <1>7, SubmitKeepaliveTyped, SeatsFrame,
     CountdownFrame, PhaseFrame, RevisionFrame DEF Inductive

LEMMA GameplayTickSafe ==
  ASSUME Inductive, NEW g \in gameplayTasks, GameplayTick(g)
  PROVE  Inductive'
<1>1. /\ gameplayActive /\ pendingActions' = <<>>
      /\ UNCHANGED <<started, gameplayActive, gameEnded, gameplayGeneration,
                     countdownActive, gameplayTasks, gameOverTimers, endings>>
      /\ UNCHANGED <<revision, nextSession, players, countdownVars, socketVars, unsent>>
  BY DEF GameplayTick, TickMatches, GameRuns, rosterVars, countdownVars, taskVars
<1>2. /\ SameSeats /\ SameReady /\ SameLoaded /\ SameNumbers
      /\ Connected' = Connected
  BY <1>1, SamePlayers DEF Connected
<1>3. StreamInv'
  BY <1>1 DEF StreamInv, CleanStart, PendingFromConnected, NothingPendingOutside
<1> QED
  BY <1>1, <1>2, <1>3, GameplayTickTyped, SeatsFrame, CountdownFrame, PhaseFrame,
     TimersFrame, DesyncFrame, RevisionFrame DEF Inductive

LEMMA GameplayStopSafe ==
  ASSUME Inductive, NEW g \in gameplayTasks, GameplayStop(g)
  PROVE  Inductive'
<1>1. /\ ~TickMatches(g) /\ gameplayTasks' = gameplayTasks \ {g}
      /\ UNCHANGED <<started, gameplayActive, gameEnded, gameplayGeneration,
                     pendingActions, countdownActive, gameOverTimers, endings>>
      /\ UNCHANGED <<revision, nextSession, players, countdownVars, socketVars, unsent>>
  BY DEF GameplayStop, rosterVars, countdownVars, gameVars
<1>2. /\ SameSeats /\ SameReady /\ SameLoaded /\ SameNumbers
      /\ Connected' = Connected
  BY <1>1, SamePlayers DEF Connected
<1>3. PhaseInv'
  <2>1. gameplayActive => g # gameplayGeneration
    BY <1>1 DEF TickMatches, GameRuns, Inductive, PhaseInv, PhaseConsistent
  <2>2. AllLoaded(players)' = AllLoaded(players)
    BY <1>1 DEF AllLoaded
  <2> QED
    BY <1>1, <1>2, <2>1, <2>2
       DEF Inductive, PhaseInv, PhaseConsistent, LoadingNeverHangs,
           UnloadedBeforeStart, GameplayHasItsTask, AtLeastTwo
<1> QED
  BY <1>1, <1>2, <1>3, GameplayStopTyped, SeatsFrame, CountdownFrame, TimersFrame,
     StreamFrame, DesyncFrame, RevisionFrame DEF Inductive

----------------------------------------------------------------------------
(* The end of the game. *)

LEMMA LastPlayerTimerSafe ==
  ASSUME Inductive, NEW g \in gameOverTimers, LastPlayerTimer(g)
  PROVE  Inductive'
<1> DEFINE decided == [session |-> 0, generation |-> g]
<1>1. /\ gameOverTimers' = gameOverTimers \ {g}
      /\ endings' = endings \cup IF ShouldEnd(g) THEN {decided} ELSE {}
      /\ UNCHANGED <<started, gameplayActive, gameEnded, gameplayGeneration,
                     pendingActions, countdownActive, gameplayTasks>>
      /\ UNCHANGED <<revision, nextSession, players, countdownVars, socketVars, unsent>>
  BY DEF LastPlayerTimer, rosterVars, countdownVars, gameVars
<1>2. /\ SameSeats /\ SameReady /\ SameLoaded /\ SameNumbers
      /\ Connected' = Connected
  BY <1>1, SamePlayers DEF Connected
<1>3. decided.session = 0 /\ decided.generation = g
  OBVIOUS
<1> HIDE DEF decided
<1>4. TimersInv'
  <2>1. NoStaleTimer'
    BY <1>1, <1>2 DEF Inductive, TimersInv, NoStaleTimer, Solo
  <2>2. SoloGameIsTimed'
    <3>1. CASE g = gameplayGeneration /\ ShouldEnd(g)
      BY <1>1, <1>2, <3>1 DEF SoloGameIsTimed, decided
    <3>2. CASE ~(g = gameplayGeneration /\ ShouldEnd(g))
      BY <1>1, <1>2, <3>2
         DEF Inductive, TimersInv, SoloGameIsTimed, Solo, ShouldEnd
    <3> QED
      BY <3>1, <3>2
  <2>3. TimersMeanThisGame'
    BY <1>1, <1>2, <1>3
       DEF Inductive, TimersInv, TimersMeanThisGame, ShouldEnd, Solo
  <2> QED
    BY <2>1, <2>2, <2>3 DEF TimersInv
<1>5. DesyncInv'
  BY <1>1, <1>2, <1>3
     DEF Inductive, DesyncInv, DesyncNamesItsGame, DesyncedGameRuns, SameSeats
<1> QED
  BY <1>1, <1>2, <1>4, <1>5, LastPlayerTimerTyped, SeatsFrame, CountdownFrame,
     PhaseFrame, StreamFrame, RevisionFrame DEF Inductive

LEMMA EndGameSafe ==
  ASSUME Inductive, NEW e \in endings, EndGame(e)
  PROVE  Inductive'
<1>1. /\ endings' = endings \ {e}
      /\ UNCHANGED <<revision, nextSession, players, gameplayTasks, gameOverTimers>>
      /\ UNCHANGED <<socketVars, unsent>>
  BY DEF EndGame, rosterVars
<1>2. /\ SameSeats /\ SameReady /\ SameLoaded /\ SameNumbers
      /\ Connected' = Connected
  BY <1>1, SamePlayers DEF Connected
<1>3. started => Connected # {}
  BY DEF Inductive, PhaseInv, PhaseConsistent
<1>4. CASE ~started \/ gameEnded
  <2>1. /\ UNCHANGED <<started, gameplayActive, gameEnded, gameplayGeneration,
                       pendingActions, countdownActive, countdownVars>>
    BY <1>4 DEF EndGame, gameVars, countdownVars
  <2>2. TimersInv'
    BY <1>1, <1>2, <1>4, <2>1
       DEF Inductive, TimersInv, NoStaleTimer, SoloGameIsTimed, TimersMeanThisGame, Solo
  <2>3. DesyncInv'
    BY <1>1, <1>2, <2>1
       DEF Inductive, DesyncInv, DesyncNamesItsGame, DesyncedGameRuns, SameSeats
  <2> QED
    BY <1>1, <1>2, <2>1, <2>2, <2>3, EndGameTyped, SeatsFrame, CountdownFrame,
       PhaseFrame, StreamFrame, RevisionFrame DEF Inductive
<1>5. CASE started /\ ~gameEnded
  <2>1. /\ gameplayActive' = FALSE /\ gameEnded' = TRUE
        /\ gameplayGeneration' = gameplayGeneration + 1
        /\ pendingActions' = <<>>
        /\ UNCHANGED <<started, countdownVars, countdownActive>>
    BY <1>3, <1>5 DEF EndGame, EndedGeneration, countdownVars
  <2>2. /\ gameplayGeneration \in Nat
        /\ \A g \in gameplayTasks \cup gameOverTimers : g \in Nat /\ g <= gameplayGeneration
        /\ \A other \in endings : other.generation \in Nat
    BY DEF Inductive, TypeOK, GameTyped, TasksTyped, PhaseInv, GameplayHasItsTask,
           TimersInv, NoStaleTimer
  <2>3. PhaseInv'
    BY <1>1, <1>2, <1>3, <1>5, <2>1, <2>2
       DEF Inductive, PhaseInv, PhaseConsistent, LoadingNeverHangs,
           UnloadedBeforeStart, GameplayHasItsTask
  <2>4. TimersInv'
    BY <1>1, <1>2, <2>1, <2>2
       DEF TimersInv, NoStaleTimer, SoloGameIsTimed, TimersMeanThisGame
  <2>5. StreamInv'
    BY <2>1 DEF StreamInv, CleanStart, PendingFromConnected, NothingPendingOutside
  <2>6. DesyncInv'
    <3>1. \A other \in endings : other.session # 0 =>
            /\ other.generation = gameplayGeneration
            /\ \E p \in Connected : players[p].session = other.session
      BY <1>5 DEF Inductive, DesyncInv, DesyncNamesItsGame
    <3> QED
      BY <1>1, <1>2, <1>5, <2>1, <2>2, <3>1
         DEF DesyncInv, DesyncNamesItsGame, DesyncedGameRuns
  <2> QED
    BY <1>1, <1>2, <2>1, <2>3, <2>4, <2>5, <2>6, EndGameTyped, SeatsFrame,
       CountdownFrame, RevisionFrame DEF Inductive
<1> QED
  BY <1>4, <1>5

----------------------------------------------------------------------------
(* Departures. *)

(* What every departure does, however the room goes on. *)
LEMMA LeaveSeatFacts ==
  ASSUME Inductive, NEW m \in memberships, SessionMatches(m), LeaveSeat(m)
  PROVE  /\ m.player \in Connected
         /\ Connected' = Connected \ {m.player}
         /\ \A q \in Connected' : players'[q] = players[q]
         /\ revision' = revision + 1
         /\ countdownActive' = FALSE /\ manualStart' = FALSE
         /\ UNCHANGED <<countdownGeneration, countdownTasks>>
         /\ UNCHANGED <<nextSession, endings, unsent>>
         /\ \E k \in Nat : AfterLeave(players', k)
<1> DEFINE stay == [q \in Connected \ {m.player} |-> players[q]]
<1>1. PICK k \in IF LeaveFlushes THEN FrameCounts(Len(pendingActions)) ELSE {0} :
        AfterLeave(stay, k)
  BY DEF LeaveSeat
<1>2. k \in Nat
  BY <1>1, FrameCountsNat DEF Inductive, TypeOK, GameTyped
<1>3. players' = stay
  BY DEF LeaveSeat
<1>4. Connected' = Connected \ {m.player} /\ \A q \in Connected' : players'[q] = players[q]
  BY <1>3 DEF Connected
<1> QED
  BY <1>1, <1>2, <1>3, <1>4
     DEF LeaveSeat, StopCountdown, NextRevision, SessionMatches

(* The four ways the room goes on. *)
LEMMA AfterLeaveCases ==
  ASSUME Inductive, NEW k \in Nat, AfterLeave(players', k)
  PROVE  \/ /\ Connected' = {}
            /\ ~started' /\ ~gameplayActive' /\ ~gameEnded'
            /\ gameplayGeneration' = gameplayGeneration + 1
            /\ pendingActions' = <<>>
            /\ UNCHANGED <<gameplayTasks, gameOverTimers>>
         \/ /\ Connected' # {}
            /\ pendingActions' = IF LeaveFlushes THEN <<>> ELSE pendingActions
            /\ UNCHANGED <<started, gameEnded>>
            /\ \/ /\ ArmsTimer(players')
                  /\ gameOverTimers' = gameOverTimers \cup {gameplayGeneration}
                  /\ UNCHANGED <<gameplayActive, gameplayGeneration, gameplayTasks>>
               \/ /\ ~ArmsTimer(players') /\ BeginsGameplay(players')
                  /\ gameplayActive'
                  /\ gameplayGeneration' = gameplayGeneration + 1
                  /\ gameplayTasks' = gameplayTasks \cup {gameplayGeneration + 1}
                  /\ UNCHANGED gameOverTimers
               \/ /\ ~ArmsTimer(players') /\ ~BeginsGameplay(players')
                  /\ UNCHANGED <<gameplayActive, gameplayGeneration, gameplayTasks,
                                 gameOverTimers>>
<1>1. CASE DOMAIN players' = {}
  BY <1>1 DEF AfterLeave, ResetGame, ResetGeneration, Connected
<1>2. CASE DOMAIN players' # {}
  <2>1. Connected' # {}
    BY <1>2 DEF Connected
  <2> QED
    BY <1>2, <2>1 DEF AfterLeave, BeginGameplay
<1> QED
  BY <1>1, <1>2

LEMMA LeaveSeatSafe ==
  ASSUME Inductive, NEW m \in memberships, Idle(m), SessionMatches(m), LeaveSeat(m),
         memberships' = memberships \ {m},
         departed' = departed \/ departed' = departed \cup {m} \/ departed' = departed \ {m}
  PROVE  /\ SeatsInv' /\ CountdownInv' /\ PhaseInv' /\ TimersInv'
         /\ StreamInv' /\ DesyncInv' /\ RevisionNamesRoster'
<1>1. PICK k \in Nat : AfterLeave(players', k)
  BY LeaveSeatFacts
<1>2. /\ m.player \in Connected
      /\ Connected' = Connected \ {m.player}
      /\ \A q \in Connected' : players'[q] = players[q]
      /\ revision' = revision + 1
      /\ countdownActive' = FALSE /\ manualStart' = FALSE
      /\ UNCHANGED <<countdownGeneration, countdownTasks>>
      /\ UNCHANGED <<nextSession, endings, unsent>>
  BY LeaveSeatFacts
<1>3. /\ gameplayGeneration \in Nat
      /\ \A g \in gameplayTasks \cup gameOverTimers : g \in Nat /\ g <= gameplayGeneration
      /\ \A e \in endings : e.generation \in Nat /\ e.session \in Nat
  BY DEF Inductive, TypeOK, GameTyped, TasksTyped, PhaseInv, GameplayHasItsTask,
         TimersInv, NoStaleTimer
<1>4. m.player \in PlayerIds /\ m \in Membership
  BY DEF Inductive, TypeOK, SocketsTyped, Membership
<1>5. SeatsInv'
  <2>1. \A other \in memberships' : other.player # m.player
    BY <1>4 DEF Inductive, TypeOK, SocketsTyped, SeatsInv, SeatsMatchSockets,
                SessionMatches, Membership
  <2>2. SeatsMatchSockets'
    BY <1>2, <2>1 DEF Inductive, SeatsInv, SeatsMatchSockets, SessionMatches
  <2>3. OldSessionsAreGone'
    BY <1>2 DEF Inductive, SeatsInv, OldSessionsAreGone, SessionMatches
  <2> QED
    BY <2>2, <2>3 DEF SeatsInv
<1>6. CountdownInv'
  BY <1>2, <1>4
     DEF Inductive, CountdownInv, CountdownHasItsTask, CountdownHasItsPlayers,
         ArmedWaitsForSomeone, FullLobbyCounts
<1>7. PhaseInv'
  <2>1. AllLoaded(players) => AllLoaded(players')
    BY <1>2 DEF AllLoaded, Connected
  <2>2. AllLoaded(players)' <=> AllLoaded(players')
    BY DEF AllLoaded
  <2>3. UnloadedBeforeStart'
    BY <1>1, <1>2, AfterLeaveCases DEF Inductive, PhaseInv, UnloadedBeforeStart
  <2>4. PhaseConsistent'
    BY <1>1, <1>2, <2>1, <2>2, AfterLeaveCases
       DEF Inductive, PhaseInv, PhaseConsistent, BeginsGameplay
  <2>5. LoadingNeverHangs'
    <3>1. CASE Connected' = {}
      BY <1>1, <3>1, AfterLeaveCases DEF LoadingNeverHangs
    <3>2. CASE Connected' # {} /\ ArmsTimer(players')
      <4>1. ~AtLeastTwo(Connected)'
        BY <3>2 DEF ArmsTimer, Solo, AtLeastTwo, Connected
      <4> QED
        BY <4>1 DEF LoadingNeverHangs
    <3>3. CASE Connected' # {} /\ ~ArmsTimer(players')
      <4>1. CASE BeginsGameplay(players')
        BY <1>1, <3>3, <4>1, AfterLeaveCases DEF LoadingNeverHangs
      <4>2. CASE ~BeginsGameplay(players')
        <5>1. UNCHANGED <<started, gameEnded, gameplayActive>>
          BY <1>1, <3>3, <4>2, AfterLeaveCases
        <5>2. AtLeastTwo(Connected)' <=> AtLeastTwo(DOMAIN players')
          BY DEF AtLeastTwo, Connected
        <5> QED
          BY <2>2, <4>2, <5>1, <5>2 DEF LoadingNeverHangs, BeginsGameplay
      <4> QED
        BY <4>1, <4>2
    <3> QED
      BY <3>1, <3>2, <3>3
  <2>6. GameplayHasItsTask'
    BY <1>1, <1>3, AfterLeaveCases
       DEF Inductive, PhaseInv, GameplayHasItsTask, BeginsGameplay
  <2> QED
    BY <2>3, <2>4, <2>5, <2>6 DEF PhaseInv
<1>8. TimersInv'
  <2>1. Solo(Connected) => Connected' = {}
    BY <1>2 DEF Solo
  <2>2. Solo(Connected)' <=> Solo(DOMAIN players')
    BY DEF Connected, Solo
  <2>3. BeginsGameplay(players') => ~Solo(Connected)'
    BY <2>2 DEF BeginsGameplay, AtLeastTwo, Solo
  <2>4. NoStaleTimer' /\ TimersMeanThisGame'
    BY <1>1, <1>2, <1>3, <2>1, <2>2, <2>3, AfterLeaveCases
       DEF Inductive, TimersInv, NoStaleTimer, TimersMeanThisGame, ArmsTimer,
           BeginsGameplay
  <2>5. SoloGameIsTimed'
    BY <1>1, <1>2, <2>1, <2>2, <2>3, AfterLeaveCases
       DEF Inductive, TimersInv, SoloGameIsTimed, ArmsTimer, Solo
  <2> QED
    BY <2>4, <2>5 DEF TimersInv
<1>9. StreamInv'
  <2>1. pendingActions' = <<>>
    BY <1>1, AfterLeaveCases
       DEF Inductive, StreamInv, NothingPendingOutside, LeaveFlushes
  <2>2. CleanStart'
    <3>1. CASE Connected' = {}
      BY <2>1, <3>1 DEF CleanStart
    <3>2. CASE Connected' # {}
      <4>1. ~gameplayActive' /\ ~gameEnded' => ~gameplayActive /\ ~gameEnded
        BY <1>1, <3>2, AfterLeaveCases
      <4> QED
        BY <1>2, <2>1, <4>1 DEF Inductive, StreamInv, CleanStart
    <3> QED
      BY <3>1, <3>2
  <2> QED
    BY <2>1, <2>2 DEF StreamInv, PendingFromConnected, NothingPendingOutside
<1>10. DesyncInv'
  <2>1. ASSUME NEW e \in endings, e.session # 0
        PROVE  \E p \in Connected' : players'[p].session = e.session
    <3>1. PICK p \in Connected : players[p].session = e.session
      BY <2>1 DEF Inductive, DesyncInv, DesyncNamesItsGame
    <3>2. e.session # m.session
      BY DEF Idle
    <3>3. p # m.player
      BY <3>1, <3>2 DEF SessionMatches
    <3> QED
      BY <1>2, <3>1, <3>3
  <2>2. DesyncNamesItsGame'
    BY <1>1, <1>2, <1>3, <2>1, AfterLeaveCases
       DEF Inductive, DesyncInv, DesyncNamesItsGame, DesyncedGameRuns, BeginsGameplay
  <2>3. DesyncedGameRuns'
    BY <1>1, <1>2, <1>3, <2>1, AfterLeaveCases
       DEF Inductive, DesyncInv, DesyncNamesItsGame, DesyncedGameRuns, BeginsGameplay
  <2> QED
    BY <2>2, <2>3 DEF DesyncInv
<1>11. RevisionNamesRoster'
  BY <1>2, UnsentRevision DEF Inductive, RevisionNamesRoster
<1> QED
  BY <1>5, <1>6, <1>7, <1>8, <1>9, <1>10, <1>11

LEMMA LeaveSafe ==
  ASSUME Inductive, NEW m \in memberships \cup departed,
         LeaveByMessage(m) \/ Disconnect(m)
  PROVE  Inductive'
<1>1. /\ Idle(m) /\ LeaveRoom(m)
      /\ memberships' = memberships \ {m}
      /\ departed' = departed \cup {m} \/ departed' = departed \ {m}
  BY DEF LeaveByMessage, Disconnect
<1>2. CASE SessionMatches(m)
  <2>1. m \in memberships
    BY <1>2 DEF Inductive, SeatsInv, OldSessionsAreGone
  <2> QED
    BY <1>1, <1>2, <2>1, LeaveSeatSafe, LeaveTyped DEF Inductive, LeaveRoom
<1>3. CASE ~SessionMatches(m)
  <2>1. m \notin memberships
    BY <1>3 DEF Inductive, SeatsInv, SeatsMatchSockets
  <2>2. /\ UNCHANGED <<rosterVars, countdownVars, gameVars, taskVars>>
        /\ UNCHANGED <<nextSession, revision, players, unsent>>
    BY <1>1, <1>3 DEF LeaveRoom, rosterVars
  <2>3. memberships' = memberships /\ departed' \subseteq departed \cup {m}
    BY <1>1, <2>1
  <2>4. SeatsInv'
    BY <1>3, <2>2, <2>3
       DEF Inductive, SeatsInv, SeatsMatchSockets, OldSessionsAreGone,
           SessionMatches, Connected
  <2>5. RevisionNamesRoster'
    BY <2>2 DEF Inductive, RevisionNamesRoster, CurrentRoster
  <2> QED
    BY <2>2, <2>4, <2>5, RoomFrame, LeaveTyped DEF Inductive
<1> QED
  BY <1>2, <1>3

----------------------------------------------------------------------------
LEMMA StepSafe == Inductive /\ [Next]_vars => Inductive'
<1> SUFFICES ASSUME Inductive, [Next]_vars PROVE Inductive'
  OBVIOUS
<1>1. CASE ClientCall
  BY <1>1, JoinSafe, MarkReadySafe, RequestManualStartSafe, MarkLoadedSafe,
     PublishChatSafe, SubmitActionSafe, SubmitKeepaliveSafe, LeaveSafe
     DEF ClientCall
<1>2. CASE CountdownTask
  BY <1>2, CountdownTickSafe, CountdownStartSafe, CountdownStaleSafe
     DEF CountdownTask
<1>3. CASE GameplayTask
  BY <1>3, GameplayTickSafe, GameplayStopSafe DEF GameplayTask
<1>4. CASE TimerTask
  BY <1>4, LastPlayerTimerSafe DEF TimerTask
<1>5. CASE EndTask
  BY <1>5, EndGameSafe DEF EndTask
<1>6. CASE SendTask
  BY <1>6, SendUnlockedSafe DEF SendTask
<1>7. CASE UNCHANGED vars
  <2>1. /\ UNCHANGED <<rosterVars, countdownVars, gameVars, taskVars>>
        /\ UNCHANGED <<nextSession, revision, players, socketVars, unsent>>
    BY <1>7 DEF vars, rosterVars
  <2>2. TypeOK'
    BY <1>7, StepTyped DEF Inductive
  <2>3. SeatsInv'
    BY <2>1, SamePlayers, SeatsFrame DEF Inductive
  <2>4. RevisionNamesRoster'
    BY <2>1 DEF Inductive, RevisionNamesRoster, CurrentRoster
  <2> QED
    BY <2>1, <2>2, <2>3, <2>4, RoomFrame DEF Inductive
<1> QED
  BY <1>1, <1>2, <1>3, <1>4, <1>5, <1>6, <1>7 DEF Next

(* The invariant holds in every reachable state of the room, whatever its  *)
(* capacity and however many sessions, messages and frames it handles.     *)
THEOREM InductiveHolds == Spec => []Inductive
  BY InitSafe, StepSafe, PTL DEF Spec

(* join, leave, disconnect: every seat is held by exactly one socket that  *)
(* has not left, and a stale leave frees nobody's seat.                    *)
THEOREM SeatsSafe == Spec => []SeatsMatchSockets
<1>1. Inductive => SeatsMatchSockets
  BY DEF Inductive, SeatsInv
<1> QED
  BY <1>1, InductiveHolds, PTL

(* join releases the lock before it sends its roster, yet no revision ever *)
(* names two rosters.                                                      *)
THEOREM RevisionsSafe == Spec => []RevisionNamesRoster
<1>1. Inductive => RevisionNamesRoster
  BY DEF Inductive
<1> QED
  BY <1>1, InductiveHolds, PTL

(* begin_countdown, run_countdown: a running countdown has exactly one     *)
(* task that may act, with the room's own remaining time, over a lobby     *)
(* that is ready.                                                          *)
THEOREM CountdownSafe == Spec => []CountdownHasItsTask
<1>1. Inductive => CountdownHasItsTask
  BY DEF Inductive, CountdownInv
<1> QED
  BY <1>1, InductiveHolds, PTL

(* request_manual_start, mark_ready: an armed start waits for somebody,    *)
(* and a full lobby that is ready has begun to count.                      *)
THEOREM ReadinessSafe == Spec => [](ArmedWaitsForSomeone /\ FullLobbyCounts)
<1>1. Inductive => ArmedWaitsForSomeone /\ FullLobbyCounts
  BY DEF Inductive, CountdownInv
<1> QED
  BY <1>1, InductiveHolds, PTL

(* The phase flags nest, and a started room is never empty.                *)
THEOREM PhasesSafe == Spec => []PhaseConsistent
<1>1. Inductive => PhaseConsistent
  BY DEF Inductive, PhaseInv
<1> QED
  BY <1>1, InductiveHolds, PTL

(* begin_gameplay_if_ready is called wherever it can come true: nobody     *)
(* waits for a player who has loaded or left.                              *)
THEOREM LoadingSafe == Spec => []LoadingNeverHangs
<1>1. Inductive => LoadingNeverHangs
  BY DEF Inductive, PhaseInv
<1> QED
  BY <1>1, InductiveHolds, PTL

(* run_gameplay: running gameplay has one loop, and no old loop revives.   *)
THEOREM LoopsSafe == Spec => []GameplayHasItsTask
<1>1. Inductive => GameplayHasItsTask
  BY DEF Inductive, PhaseInv
<1> QED
  BY <1>1, InductiveHolds, PTL

(* spawn_last_player_game_over: no timer outlives its game, and the last   *)
(* player of a game always has one.                                        *)
THEOREM TimersSafe == Spec => [](NoStaleTimer /\ SoloGameIsTimed)
<1>1. Inductive => NoStaleTimer /\ SoloGameIsTimed
  BY DEF Inductive, TimersInv
<1> QED
  BY <1>1, InductiveHolds, PTL

(* submit_action, submit_keepalive, leave: the queues of a game start      *)
(* empty and hold nothing of a player who is gone.                         *)
THEOREM StreamSafe == Spec => [](CleanStart /\ PendingFromConnected)
<1>1. Inductive => CleanStart /\ PendingFromConnected
  BY DEF Inductive, StreamInv
<1> QED
  BY <1>1, InductiveHolds, PTL

(* submit_keepalive: a desync on its way to end_game is about the game     *)
(* that its session still plays.                                           *)
THEOREM DesyncSafe == Spec => []DesyncNamesItsGame
<1>1. Inductive => DesyncNamesItsGame
  BY DEF Inductive, DesyncInv
<1> QED
  BY <1>1, InductiveHolds, PTL

LEMMA OnlyStartedGamesEnd ==
  ASSUME [Next]_vars, gameEnded'
  PROVE  gameEnded \/ started
<1>1. CASE ClientCall
  <2>1. ASSUME NEW name \in Names, Join(name) PROVE gameEnded' = gameEnded
    BY <2>1 DEF Join, gameVars
  <2>2. ASSUME NEW m \in memberships,
               \/ MarkReady(m) \/ RequestManualStart(m) \/ MarkLoaded(m)
               \/ \E message \in Messages : PublishChat(m, message)
               \/ \E sequence \in 1..MaxSequence :
                    \/ SubmitAction(m, sequence)
                    \/ \E checksum \in Checksums : SubmitKeepalive(m, sequence, checksum)
        PROVE  gameEnded' = gameEnded
    BY <2>2 DEF MarkReady, RequestManualStart, MarkLoaded, BeginGameplay, PublishChat,
                SubmitAction, SubmitKeepalive, gameVars
  <2>3. ASSUME NEW m \in memberships \cup departed, LeaveRoom(m)
        PROVE  gameEnded \/ ~gameEnded'
    BY <2>3 DEF LeaveRoom, LeaveSeat, AfterLeave, ResetGame, BeginGameplay, gameVars
  <2> QED
    BY <1>1, <2>1, <2>2, <2>3 DEF ClientCall, LeaveByMessage, Disconnect
<1>2. CASE CountdownTask \/ GameplayTask \/ TimerTask \/ SendTask
  BY <1>2 DEF CountdownTask, CountdownTick, CountdownStart, CountdownStale,
     GameplayTask, GameplayTick, GameplayStop, TimerTask, LastPlayerTimer,
     SendTask, SendUnlocked, gameVars
<1>3. CASE EndTask
  BY <1>3 DEF EndTask, EndGame, gameVars
<1>4. CASE UNCHANGED vars
  BY <1>4 DEF vars, gameVars
<1> QED
  BY <1>1, <1>2, <1>3, <1>4 DEF Next

(* end_game looks at no generation, and the lock is free between the       *)
(* decision and end_game: it still ends only the game that was meant, if   *)
(* the last-player task is back before a countdown tick has passed.        *)
THEOREM EndingsSafe == PromptEnd /\ Spec => EndsTheGameItMeant
<1> SUFFICES ASSUME PromptEnd PROVE Spec => EndsTheGameItMeant
  OBVIOUS
<1>1. Inductive /\ [Next]_vars =>
        [\A e \in endings \ endings' :
           gameEnded' /\ ~gameEnded => gameplayGeneration = e.generation]_vars
  <2> SUFFICES ASSUME Inductive, [Next]_vars,
                      NEW e \in endings \ endings', gameEnded', ~gameEnded
               PROVE  gameplayGeneration = e.generation
    OBVIOUS
  <2>1. started
    BY OnlyStartedGamesEnd
  <2> QED
    BY <2>1
       DEF Inductive, DesyncInv, DesyncNamesItsGame, TimersInv, TimersMeanThisGame
<1> QED
  BY <1>1, InductiveHolds, PTL DEF EndsTheGameItMeant, Spec

----------------------------------------------------------------------------
(* The numbering of the frames. *)

LEMMA ConcatFacts ==
  ASSUME NEW s \in Seq(Updates), NEW t \in Seq(Updates)
  PROVE  /\ s \o t \in Seq(Updates) /\ Len(s \o t) = Len(s) + Len(t)
         /\ \A k \in 1..Len(s) : (s \o t)[k] = s[k]
         /\ \A k \in 1..Len(t) : (s \o t)[Len(s) + k] = t[k]
         /\ \A k \in DOMAIN (s \o t) :
              \/ k \in DOMAIN s /\ (s \o t)[k] = s[k]
              \/ k - Len(s) \in DOMAIN t /\ (s \o t)[k] = t[k - Len(s)]
         /\ DOMAIN s = 1..Len(s) /\ DOMAIN t = 1..Len(t) /\ Len(s) \in Nat /\ Len(t) \in Nat
  OBVIOUS

LEMMA FramesAre ==
  ASSUME gameplaySequence \in Nat, NEW k \in Nat
  PROVE  /\ Frames(k) \in Seq(Updates) /\ Len(Frames(k)) = k
         /\ \A i \in 1..k : /\ Frames(k)[i].type = "GameFrame"
                            /\ Frames(k)[i].sequence = gameplaySequence + i
  BY FramesTyped DEF Frames

(* What the step does to the numbering, k frames being sent. *)
StreamMoves(k) ==
  /\ k > 0 => gameplayActive
  /\ gameplayActive' => gameplaySequence' =
       IF gameplayActive THEN gameplaySequence + k ELSE 0

LEMMA FramesInFront ==
  ASSUME gameplaySequence \in Nat, NEW k \in Nat, NEW s \in Seq(Updates),
         \A i \in DOMAIN s : s[i].type # "GameFrame",
         sent' = Frames(k) \o s, StreamMoves(k)
  PROVE  \E j \in 0..Len(sent') : FramesGoOn(j)
<1> DEFINE f == Frames(k)
           all == f \o s
<1>1. /\ f \in Seq(Updates) /\ Len(f) = k
      /\ \A i \in 1..k : f[i].type = "GameFrame" /\ f[i].sequence = gameplaySequence + i
  BY FramesAre
<1> HIDE DEF f
<1>2. /\ Len(all) = k + Len(s) /\ Len(s) \in Nat /\ DOMAIN all = 1..(k + Len(s))
      /\ \A i \in 1..k : all[i] = f[i]
      /\ \A i \in 1..(k + Len(s)) : i > k => all[i] = s[i - k]
  <2>1. /\ f \o s \in Seq(Updates) /\ Len(f \o s) = k + Len(s) /\ Len(s) \in Nat
        /\ \A i \in 1..k : (f \o s)[i] = f[i]
        /\ \A i \in 1..Len(s) : (f \o s)[k + i] = s[i]
    BY <1>1, ConcatFacts
  <2> DEFINE t == f \o s
  <2>2. t \in Seq(Updates) /\ Len(t) = k + Len(s) => DOMAIN t = 1..(k + Len(s))
    OBVIOUS
  <2> HIDE DEF t
  <2>3. \A i \in 1..(k + Len(s)) : i > k => i - k \in 1..Len(s) /\ k + (i - k) = i
    BY <2>1
  <2> QED
    BY <2>1, <2>2, <2>3 DEF t
<1>3. \A i \in 1..(k + Len(s)) : i > k => i - k \in DOMAIN s
  BY <1>2
<1> HIDE DEF all
<1>4. \A i \in DOMAIN all : all[i].type = "GameFrame" <=> i <= k
  <2> SUFFICES ASSUME NEW i \in 1..(k + Len(s)) PROVE all[i].type = "GameFrame" <=> i <= k
    BY <1>2
  <2>1. CASE i <= k
    <3>1. i \in 1..k
      BY <2>1
    <3> QED
      BY <1>1, <1>2, <2>1, <3>1
  <2>2. CASE i > k
    BY <1>2, <1>3, <2>2
  <2> QED
    BY <1>2, <2>1, <2>2
<1>5. \A i \in 1..k : all[i].sequence = gameplaySequence + i
  BY <1>1, <1>2
<1>6. sent' = all /\ k \in 0..Len(all)
  BY <1>2 DEF all, f
<1>7. FramesGoOn(k)
  BY <1>4, <1>5, <1>6 DEF FramesGoOn, StreamMoves
<1> QED
  BY <1>6, <1>7

LEMMA NoFrames ==
  ASSUME gameplaySequence \in Nat, sent' \in Seq(Updates),
         \A i \in DOMAIN sent' : sent'[i].type # "GameFrame", StreamMoves(0)
  PROVE  \E j \in 0..Len(sent') : FramesGoOn(j)
<1>1. Len(sent') \in Nat /\ DOMAIN sent' = 1..Len(sent')
  OBVIOUS
<1>2. FramesGoOn(0)
  BY <1>1 DEF FramesGoOn, StreamMoves
<1> QED
  BY <1>1, <1>2

LEMMA SaysNoFrame ==
  /\ <<>> \in Seq(Updates) /\ \A i \in DOMAIN <<>> : <<>>[i].type # "GameFrame"
  /\ \A u \in Updates : u.type # "GameFrame" =>
       <<u>> \in Seq(Updates) /\ \A i \in DOMAIN <<u>> : <<u>>[i].type # "GameFrame"
<1>1. <<>> \in Seq(Updates) /\ DOMAIN <<>> = {}
  <2>1. \A S : <<>> \in Seq(S) /\ DOMAIN <<>> = {}
    OBVIOUS
  <2> QED
    BY <2>1
<1>2. ASSUME NEW u \in Updates
      PROVE  <<u>> \in Seq(Updates) /\ \A i \in DOMAIN <<u>> : <<u>>[i] = u
  <2>1. \A S : \A v \in S : <<v>> \in Seq(S) /\ \A i \in DOMAIN <<v>> : <<v>>[i] = v
    OBVIOUS
  <2> QED
    BY <2>1
<1> QED
  BY <1>1, <1>2

LEMMA KeepaliveIsSilent ==
  ASSUME NEW m, NEW sequence, NEW checksum, SubmitKeepalive(m, sequence, checksum)
  PROVE  sent' = <<>> /\ UNCHANGED <<gameVars, unsent>>
<1>1. sent' = <<>>
  BY Zenon DEF SubmitKeepalive
<1>2. UNCHANGED gameVars
  BY Zenon DEF SubmitKeepalive
<1>3. unsent' = unsent
  BY Zenon DEF SubmitKeepalive
<1> QED
  BY <1>1, <1>2, <1>3

(* What is sent after the lock was released is no frame. *)
UnsentInv == \A u \in unsent : u.update.type \in {"Roster", "Chat"}

LEMMA UnsentStays ==
  ASSUME UnsentInv, [Next]_vars PROVE UnsentInv'
<1>1. ASSUME unsent' \subseteq unsent PROVE UnsentInv'
  BY <1>1 DEF UnsentInv
<1>2. CASE ClientCall
  <2>1. ASSUME NEW name \in Names, Join(name) PROVE UnsentInv'
    BY <2>1 DEF Join, TakeSeat, UnsentInv
  <2>2. ASSUME NEW m \in memberships, NEW message, PublishChat(m, message) PROVE UnsentInv'
    BY <2>2 DEF PublishChat, UnsentInv
  <2>3. ASSUME NEW m \in memberships,
               MarkReady(m) \/ RequestManualStart(m) \/ MarkLoaded(m)
        PROVE  unsent' \subseteq unsent
    BY <2>3 DEF MarkReady, RequestManualStart, MarkLoaded
  <2>4. ASSUME NEW m, LeaveRoom(m) PROVE unsent' \subseteq unsent
    BY <2>4 DEF LeaveRoom, LeaveSeat
  <2>5. ASSUME NEW m, NEW sequence, SubmitAction(m, sequence) PROVE unsent' = unsent
    BY <2>5 DEF SubmitAction
  <2>6. ASSUME NEW m, NEW sequence, NEW checksum, SubmitKeepalive(m, sequence, checksum)
        PROVE  unsent' = unsent
    BY <2>6, KeepaliveIsSilent
  <2> QED
    BY <1>1, <1>2, <2>1, <2>2, <2>3, <2>4, <2>5, <2>6 DEF ClientCall, LeaveByMessage, Disconnect
<1>3. CASE CountdownTask \/ GameplayTask \/ TimerTask \/ EndTask \/ SendTask
  BY <1>1, <1>3 DEF CountdownTask, CountdownTick, CountdownStart, CountdownStale,
     GameplayTask, GameplayTick, GameplayStop, TimerTask, LastPlayerTimer,
     EndTask, EndGame, SendTask, SendUnlocked
<1>4. CASE UNCHANGED vars
  BY <1>1, <1>4 DEF vars
<1> QED
  BY <1>2, <1>3, <1>4 DEF Next

LEMMA LeaveNumbers ==
  ASSUME TypeOK, NEW m, SessionMatches(m), LeaveSeat(m)
  PROVE  \E j \in 0..Len(sent') : FramesGoOn(j)
<1> DEFINE stay == [q \in Connected \ {m.player} |-> players[q]]
           roster == CurrentRoster(NextRevision(revision), stay)
           off == [type |-> "CountdownCancelled"]
           news == [type |-> "Roster", roster |-> roster]
           left == [type |-> "PlayerLeft", player |-> m.player, roster |-> roster]
           farewell == IF started THEN <<left>>
                       ELSE <<news>> \o IF countdownActive THEN <<off>> ELSE <<>>
<1>1. /\ gameplaySequence \in Nat /\ Len(pendingActions) \in Nat /\ revision \in Nat
      /\ gameplayActive \in BOOLEAN /\ started \in BOOLEAN
      /\ Connected \subseteq PlayerIds /\ m.player \in PlayerIds
  BY DEF TypeOK, GameTyped, RosterTyped, SessionMatches
<1>2. PICK k \in IF LeaveFlushes THEN FrameCounts(Len(pendingActions)) ELSE {0} :
        sent' = Frames(k) \o farewell /\ AfterLeave(stay, k)
  BY DEF LeaveSeat
<1>3. k \in Nat /\ (k > 0 => LeaveFlushes)
  BY <1>1, <1>2, FrameCountsNat
<1>4. roster \in Roster
  BY <1>1 DEF CurrentRoster, NextRevision, Roster
<1> HIDE DEF stay, roster
<1>5. /\ off \in Updates /\ off.type # "GameFrame"
      /\ news \in Updates /\ news.type # "GameFrame"
      /\ left \in Updates /\ left.type # "GameFrame"
  BY <1>1, <1>4 DEF Updates
<1> HIDE DEF off, news, left
<1>6. farewell \in Seq(Updates) /\ \A i \in DOMAIN farewell : farewell[i].type # "GameFrame"
  <2>1. \A s, t \in Seq(Updates) :
          /\ \A i \in DOMAIN s : s[i].type # "GameFrame"
          /\ \A i \in DOMAIN t : t[i].type # "GameFrame"
          => s \o t \in Seq(Updates) /\ \A i \in DOMAIN (s \o t) : (s \o t)[i].type # "GameFrame"
    OBVIOUS
  <2>2. /\ <<>> \in Seq(Updates) /\ \A i \in DOMAIN <<>> : <<>>[i].type # "GameFrame"
        /\ <<off>> \in Seq(Updates) /\ \A i \in DOMAIN <<off>> : <<off>>[i].type # "GameFrame"
        /\ <<news>> \in Seq(Updates) /\ \A i \in DOMAIN <<news>> : <<news>>[i].type # "GameFrame"
        /\ <<left>> \in Seq(Updates) /\ \A i \in DOMAIN <<left>> : <<left>>[i].type # "GameFrame"
    BY <1>5, SaysNoFrame
  <2> QED
    BY <1>1, <2>1, <2>2
<1> HIDE DEF farewell
<1>7. StreamMoves(k)
  <2>1. k > 0 => gameplayActive
    BY <1>3 DEF LeaveFlushes
  <2>2. CASE ResetGame
    BY <2>1, <2>2 DEF StreamMoves, ResetGame
  <2>3. CASE BeginsGameplay(stay) /\ BeginGameplay
    BY <2>1, <2>3 DEF StreamMoves, BeginsGameplay, BeginGameplay
  <2>4. CASE gameplaySequence' = gameplaySequence + k /\ UNCHANGED gameplayActive
    BY <2>1, <2>4 DEF StreamMoves
  <2> QED
    BY <1>2, <2>2, <2>3, <2>4 DEF AfterLeave
<1> QED
  BY <1>1, <1>2, <1>3, <1>6, <1>7, FramesInFront

LEMMA StepNumbers ==
  ASSUME TypeOK, TypeOK', UnsentInv, Next
  PROVE  \E j \in 0..Len(sent') : FramesGoOn(j)
<1>1. /\ gameplaySequence \in Nat /\ Len(pendingActions) \in Nat /\ sent' \in Seq(Updates)
      /\ gameplayActive \in BOOLEAN
  BY DEF TypeOK, GameTyped, UpdatesTyped
<1>2. ASSUME UNCHANGED <<gameplayActive, gameplaySequence>>,
             \A i \in DOMAIN sent' : sent'[i].type # "GameFrame"
      PROVE  \E j \in 0..Len(sent') : FramesGoOn(j)
  <2>1. StreamMoves(0)
    BY <1>1, <1>2 DEF StreamMoves
  <2> QED
    BY <1>1, <1>2, <2>1, NoFrames
<1>3. ASSUME sent' = <<>>, UNCHANGED <<gameplayActive, gameplaySequence>>
      PROVE  \E j \in 0..Len(sent') : FramesGoOn(j)
  BY <1>2, <1>3, SaysNoFrame
<1>4. ASSUME NEW u, sent' = <<u>>, u.type # "GameFrame",
             UNCHANGED <<gameplayActive, gameplaySequence>>
      PROVE  \E j \in 0..Len(sent') : FramesGoOn(j)
  <2>1. \A i \in DOMAIN sent' : sent'[i] = u
    BY <1>4
  <2> QED
    BY <1>2, <1>4, <2>1
<1>5. CASE ClientCall
  <2>1. ASSUME NEW name \in Names, Join(name) PROVE \E j \in 0..Len(sent') : FramesGoOn(j)
    BY <1>3, <2>1 DEF Join, gameVars
  <2>2. ASSUME NEW m \in memberships, MarkReady(m) \/ RequestManualStart(m)
        PROVE  \E j \in 0..Len(sent') : FramesGoOn(j)
    <3>1. UNCHANGED <<gameplayActive, gameplaySequence>>
      BY <2>2 DEF MarkReady, RequestManualStart, gameVars
    <3>2. sent' = <<>> \/ BeginCountdown
      BY <2>2 DEF MarkReady, RequestManualStart
    <3>3. ASSUME BeginCountdown PROVE \E j \in 0..Len(sent') : FramesGoOn(j)
      <4> DEFINE u == [type |-> "Countdown", remaining |-> CountdownSteps]
      <4>1. sent' = <<u>> /\ u.type # "GameFrame"
        BY <3>3 DEF BeginCountdown
      <4> HIDE DEF u
      <4> QED
        BY <1>4, <3>1, <4>1
    <3> QED
      BY <1>3, <3>1, <3>2, <3>3
  <2>3. ASSUME NEW m \in memberships, MarkLoaded(m)
        PROVE  \E j \in 0..Len(sent') : FramesGoOn(j)
    <3> DEFINE u == [type |-> "PlayerLoaded", player |-> m.player]
    <3>1. sent' = <<u>> /\ u.type # "GameFrame"
      BY <2>3 DEF MarkLoaded
    <3> HIDE DEF u
    <3>2. \A i \in DOMAIN sent' : sent'[i].type # "GameFrame"
      <4>1. \A i \in DOMAIN <<u>> : <<u>>[i] = u
        OBVIOUS
      <4> QED
        BY <3>1, <4>1
    <3>3. StreamMoves(0)
      <4>1. CASE BeginsGameplay(players') /\ BeginGameplay
        BY <4>1 DEF BeginsGameplay, BeginGameplay, StreamMoves
      <4>2. CASE UNCHANGED <<gameplayActive, gameplaySequence>>
        BY <1>1, <4>2 DEF StreamMoves
      <4> QED
        BY <2>3, <4>1, <4>2 DEF MarkLoaded
    <3> QED
      BY <1>1, <3>2, <3>3, NoFrames
  <2>4. ASSUME NEW m, NEW message, PublishChat(m, message)
        PROVE  \E j \in 0..Len(sent') : FramesGoOn(j)
    BY <1>3, <2>4 DEF PublishChat, gameVars
  <2>5. ASSUME NEW m, NEW sequence, SubmitAction(m, sequence)
        PROVE  \E j \in 0..Len(sent') : FramesGoOn(j)
    BY <1>3, <2>5 DEF SubmitAction
  <2>6. ASSUME NEW m, NEW sequence, NEW checksum, SubmitKeepalive(m, sequence, checksum)
        PROVE  \E j \in 0..Len(sent') : FramesGoOn(j)
    <3>1. sent' = <<>> /\ UNCHANGED <<gameplayActive, gameplaySequence>>
      BY <2>6, KeepaliveIsSilent DEF gameVars
    <3> QED
      BY <1>3, <3>1
  <2>7. ASSUME NEW m, LeaveRoom(m) PROVE \E j \in 0..Len(sent') : FramesGoOn(j)
    <3>1. CASE SessionMatches(m) /\ LeaveSeat(m)
      BY <3>1, LeaveNumbers
    <3>2. CASE sent' = <<>> /\ UNCHANGED gameVars
      BY <1>3, <3>2 DEF gameVars
    <3> QED
      BY <2>7, <3>1, <3>2 DEF LeaveRoom
  <2> QED
    BY <1>5, <2>1, <2>2, <2>3, <2>4, <2>5, <2>6, <2>7 DEF ClientCall, LeaveByMessage, Disconnect
<1>6. CASE CountdownTask
  <2>1. UNCHANGED <<gameplayActive, gameplaySequence>>
    BY <1>6 DEF CountdownTask, CountdownTick, CountdownStart, CountdownStale, gameVars
  <2>2. \/ sent' = <<>>
        \/ \E u : sent' = <<u>> /\ u.type # "GameFrame"
    <3>1. ASSUME NEW t, CountdownTick(t) PROVE \E u : sent' = <<u>> /\ u.type # "GameFrame"
      <4> DEFINE u == [type |-> "Countdown", remaining |-> t.remaining - 1]
      <4>1. sent' = <<u>> /\ u.type # "GameFrame"
        BY <3>1 DEF CountdownTick
      <4> HIDE DEF u
      <4> QED
        BY <4>1
    <3>2. ASSUME NEW t, CountdownStart(t) PROVE \E u : sent' = <<u>> /\ u.type # "GameFrame"
      <4> DEFINE u == [type |-> "Start"]
      <4>1. sent' = <<u>> /\ u.type # "GameFrame"
        BY <3>2 DEF CountdownStart
      <4> HIDE DEF u
      <4> QED
        BY <4>1
    <3>3. ASSUME NEW t, CountdownStale(t) PROVE sent' = <<>>
      BY <3>3 DEF CountdownStale
    <3> QED
      BY <1>6, <3>1, <3>2, <3>3 DEF CountdownTask
  <2> QED
    BY <1>3, <1>4, <2>1, <2>2
<1>7. CASE GameplayTask
  <2>1. ASSUME NEW g, GameplayTick(g) PROVE \E j \in 0..Len(sent') : FramesGoOn(j)
    <3>1. PICK k \in FrameCounts(Len(pendingActions)) :
            sent' = Frames(k) /\ gameplaySequence' = gameplaySequence + k
      BY <2>1 DEF GameplayTick
    <3>2. k \in Nat /\ gameplayActive /\ UNCHANGED gameplayActive
      BY <1>1, <2>1, FrameCountsNat DEF GameplayTick, TickMatches, GameRuns
    <3>3. sent' = Frames(k) \o <<>>
      <4>1. \A s \in Seq(Updates) : s \o <<>> = s
        OBVIOUS
      <4> QED
        BY <1>1, <3>1, <3>2, <4>1, FramesAre
    <3>4. StreamMoves(k)
      BY <3>1, <3>2 DEF StreamMoves
    <3> QED
      BY <1>1, <3>2, <3>3, <3>4, FramesInFront, SaysNoFrame
  <2>2. ASSUME NEW g, GameplayStop(g) PROVE \E j \in 0..Len(sent') : FramesGoOn(j)
    BY <1>3, <2>2 DEF GameplayStop, gameVars
  <2> QED
    BY <1>7, <2>1, <2>2 DEF GameplayTask
<1>8. CASE TimerTask
  BY <1>3, <1>8 DEF TimerTask, LastPlayerTimer, gameVars
<1>9. CASE EndTask
  <2>1. PICK e \in endings : EndGame(e)
    BY <1>9 DEF EndTask
  <2>2. StreamMoves(0)
    BY <1>1, <2>1 DEF EndGame, ResetGame, StreamMoves, gameVars
  <2>3. \A i \in DOMAIN sent' : sent'[i].type # "GameFrame"
    <3> DEFINE u == [type |-> "GameEnded",
                     reason |-> IF e.session = 0 THEN "LastPlayerStanding" ELSE "Desync"]
    <3>1. (sent' = <<>> \/ sent' = <<u>>) /\ u.type # "GameFrame"
      BY <2>1 DEF EndGame
    <3> HIDE DEF u
    <3>2. \A i \in DOMAIN <<u>> : <<u>>[i] = u
      OBVIOUS
    <3> QED
      BY <3>1, <3>2, SaysNoFrame
  <2> QED
    BY <1>1, <2>2, <2>3, NoFrames
<1>10. CASE SendTask
  <2>1. PICK u \in unsent : SendUnlocked(u)
    BY <1>10 DEF SendTask
  <2>2. u.update.type # "GameFrame"
    BY <2>1 DEF UnsentInv
  <2> QED
    BY <1>4, <2>1, <2>2 DEF SendUnlocked, gameVars
<1> QED
  BY <1>5, <1>6, <1>7, <1>8, <1>9, <1>10 DEF Next

(* publish_gameplay_tick and the flush in leave share one counter: agents, *)
(* which give up on any other frame, are sent 1, 2, 3... in every game.    *)
THEOREM FramesNumbered == Spec => FramesAreContiguous
<1>1. Init => UnsentInv
  BY DEF Init, UnsentInv
<1>2. UnsentInv /\ [Next]_vars => UnsentInv'
  BY UnsentStays
<1>3. TypeOK /\ TypeOK' /\ UnsentInv /\ [Next]_vars =>
        [\E k \in 0..Len(sent') : FramesGoOn(k)]_vars
  BY StepNumbers
<1> QED
  BY <1>1, <1>2, <1>3, TypeCorrect, PTL DEF FramesAreContiguous, Spec

----------------------------------------------------------------------------
(* The refinement of Match. *)

SeatedOnce ==
  \A p, q \in Connected : players[p].session = players[q].session => p = q

IdleShowsNothing == ~countdownActive => remaining = 0

MatchInv == SeatedOnce /\ IdleShowsNothing

----------------------------------------------------------------------------
(* The phase of a state, and what a step does to it. *)

LEMMA CountdownShown ==
  ASSUME Inductive, MatchInv
  PROVE  remaining # 0 <=> countdownActive
<1>1. \A t \in countdownTasks : t.remaining # 0
  BY DEF Inductive, TypeOK, CountdownTyped
<1> QED
  BY <1>1 DEF Inductive, CountdownInv, CountdownHasItsTask, MatchInv, IdleShowsNothing

LEMMA PhaseCases ==
  ASSUME Inductive, MatchInv
  PROVE  /\ gameEnded <=> Phase = "Ended"
         /\ gameplayActive <=> Phase = "Playing"
         /\ started /\ ~gameplayActive /\ ~gameEnded <=> Phase = "Loading"
         /\ countdownActive <=> Phase = "Countdown"
         /\ ~started /\ ~countdownActive <=> Phase = "Waiting"
  BY CountdownShown DEF Phase, Inductive, PhaseInv, PhaseConsistent

LEMMA PhaseCasesNext ==
  ASSUME Inductive', MatchInv'
  PROVE  /\ gameEnded' <=> Phase' = "Ended"
         /\ gameplayActive' <=> Phase' = "Playing"
         /\ started' /\ ~gameplayActive' /\ ~gameEnded' <=> Phase' = "Loading"
         /\ countdownActive' <=> Phase' = "Countdown"
         /\ ~started' /\ ~countdownActive' <=> Phase' = "Waiting"
<1>1. (Inductive /\ MatchInv =>
         /\ gameEnded <=> Phase = "Ended"
         /\ gameplayActive <=> Phase = "Playing"
         /\ started /\ ~gameplayActive /\ ~gameEnded <=> Phase = "Loading"
         /\ countdownActive <=> Phase = "Countdown"
         /\ ~started /\ ~countdownActive <=> Phase = "Waiting")'
  BY PhaseCases, PTL
<1> QED
  BY <1>1

LEMMA SeatsStay ==
  ASSUME SameSeats
  PROVE  Seats' = Seats /\ (SeatedOnce => SeatedOnce')
  BY DEF Seats, SeatedOnce, SameSeats

(* A step that touches neither the seats nor anything the phase is made of *)
(* leaves the match as it is.                                              *)
LEMMA Stutters ==
  ASSUME MatchInv, SameSeats,
         UNCHANGED <<nextSession, remaining, countdownActive, started,
                     gameplayActive, gameEnded>>
  PROVE  MatchInv' /\ UNCHANGED M!matchVars
  BY SeatsStay DEF MatchInv, IdleShowsNothing, M!matchVars, Phase

(* Several connected players are several seats. *)
LEMMA SeveralSeats ==
  ASSUME SeatedOnce, AtLeastTwo(Connected)
  PROVE  M!Several(Seats)
<1>1. PICK p, q \in Connected : p # q
  BY DEF AtLeastTwo
<1>2. players[p].session # players[q].session
  BY <1>1 DEF SeatedOnce
<1> QED
  BY <1>2 DEF Seats, M!Several

----------------------------------------------------------------------------
LEMMA InitMatch == Init => M!MatchInit /\ MatchInv
<1> SUFFICES ASSUME Init PROVE M!MatchInit /\ MatchInv
  OBVIOUS
<1>1. Connected = {}
  BY DEF Init, Connected
<1> QED
  BY <1>1 DEF Init, M!MatchInit, MatchInv, SeatedOnce, IdleShowsNothing, Phase, Seats

LEMMA JoinEnters ==
  ASSUME Inductive, MatchInv, Inductive', NEW name \in Names, Join(name)
  PROVE  MatchInv' /\ M!Enter
<1>1. PICK p \in PlayerIds : LowestFree(p) /\ TakeSeat(p, name)
  BY DEF Join
<1>2. /\ ~started /\ ~countdownActive
      /\ p \notin Connected
      /\ Connected' = Connected \cup {p}
      /\ players'[p].session = nextSession
      /\ \A q \in Connected : players'[q] = players[q]
      /\ nextSession' = nextSession + 1
  BY <1>1 DEF Join, Admits, LowestFree, TakeSeat, Connected, FreshPlayer
<1>3. /\ nextSession \in Nat
      /\ \A q \in Connected : players[q].session \in Nat /\ players[q].session < nextSession
  BY SMTT(30) DEF Inductive, TypeOK, RosterTyped, Sessions, SeatsInv, SeatsMatchSockets,
         OldSessionsAreGone, SessionMatches, ConnectedPlayer
<1>4. /\ UNCHANGED <<countdownActive, remaining, started, gameplayActive, gameEnded>>
  BY DEF Join, countdownVars, gameVars
<1>5. MatchInv'
  BY <1>2, <1>3, <1>4 DEF MatchInv, SeatedOnce, IdleShowsNothing
<1>6. Phase = "Waiting" /\ Phase' = "Waiting"
  BY <1>2, <1>4, PhaseCases DEF Phase
<1>7. Seats' = Seats \cup {nextSession}
  BY <1>2 DEF Seats
<1> QED
  BY <1>2, <1>3, <1>5, <1>6, <1>7 DEF M!Enter

(* The steps a countdown begins with. *)
LEMMA BeginCounts ==
  ASSUME Inductive, MatchInv, Inductive', BeginCountdown, SameSeats,
         ~started, ~countdownActive, Connected # {},
         UNCHANGED <<nextSession, started, gameplayActive, gameEnded>>
  PROVE  MatchInv' /\ M!CountDown
<1>1. countdownActive' = TRUE
  BY DEF BeginCountdown
<1>2. MatchInv'
  BY <1>1, SeatsStay DEF MatchInv, IdleShowsNothing
<1>3. Phase = "Waiting" /\ Phase' = "Countdown"
  BY <1>1, <1>2, PhaseCases, PhaseCasesNext
<1>4. Seats # {}
  BY DEF Seats
<1> QED
  BY <1>2, <1>3, <1>4, SeatsStay DEF M!CountDown

LEMMA MarkReadyCounts ==
  ASSUME Inductive, MatchInv, Inductive', NEW m \in memberships, MarkReady(m)
  PROVE  MatchInv' /\ [M!MatchNext]_(M!matchVars)
<1>1. /\ m.player \in Connected
      /\ players' = [players EXCEPT ![m.player].ready = TRUE]
      /\ UNCHANGED <<nextSession, started, gameplayActive, gameEnded>>
  BY DEF MarkReady, Calls, SessionMatches, gameVars
<1>2. SameSeats
  <2>1. \A q \in Connected : players[q] \in ConnectedPlayer
    BY DEF Inductive, TypeOK, RosterTyped
  <2> QED
    BY <1>1, <2>1 DEF SameSeats, Connected, ConnectedPlayer, Inductive, TypeOK, RosterTyped
<1>3. CASE CanStartCountdown(players')
  <2>1. BeginCountdown /\ ~started /\ ~countdownActive
    BY <1>3 DEF MarkReady, CanStartCountdown
  <2> QED
    BY <1>1, <1>2, <2>1, BeginCounts DEF M!MatchNext
<1>4. CASE ~CanStartCountdown(players')
  BY <1>1, <1>2, <1>4, Stutters DEF MarkReady, countdownVars
<1> QED
  BY <1>3, <1>4

LEMMA RequestManualStartCounts ==
  ASSUME Inductive, MatchInv, Inductive', NEW m \in memberships, RequestManualStart(m)
  PROVE  MatchInv' /\ [M!MatchNext]_(M!matchVars)
<1>1. /\ m.player \in Connected
      /\ ~started /\ ~countdownActive
      /\ UNCHANGED <<players, nextSession, started, gameplayActive, gameEnded>>
  BY DEF RequestManualStart, Calls, SessionMatches, gameVars, rosterVars
<1>2. SameSeats
  BY <1>1, SamePlayers
<1>3. CASE BeginCountdown
  BY <1>1, <1>2, <1>3, BeginCounts DEF M!MatchNext
<1>4. CASE ~BeginCountdown
  BY <1>1, <1>2, <1>4, Stutters DEF RequestManualStart
<1> QED
  BY <1>3, <1>4

LEMMA CountdownTickStutters ==
  ASSUME Inductive, MatchInv, Inductive', NEW t \in countdownTasks, CountdownTick(t)
  PROVE  MatchInv' /\ [M!MatchNext]_(M!matchVars)
<1>1. /\ countdownActive /\ countdownActive' = countdownActive
      /\ UNCHANGED <<players, nextSession, started, gameplayActive, gameEnded>>
  BY DEF CountdownTick, CountdownMatches, rosterVars, gameVars
<1>2. MatchInv' /\ Seats' = Seats
  BY <1>1, SamePlayers, SeatsStay DEF MatchInv, IdleShowsNothing
<1>3. Phase = "Countdown" /\ Phase' = "Countdown"
  BY <1>1, <1>2, PhaseCases, PhaseCasesNext
<1> QED
  BY <1>1, <1>2, <1>3 DEF M!matchVars

LEMMA CountdownStartLaunches ==
  ASSUME Inductive, MatchInv, Inductive', NEW t \in countdownTasks, CountdownStart(t)
  PROVE  MatchInv' /\ M!Launch
<1>1. /\ countdownActive /\ ~started /\ started' /\ remaining' = 0
      /\ UNCHANGED <<players, nextSession, gameplayActive, gameEnded>>
  BY DEF CountdownStart, CountdownMatches, rosterVars
<1>2. MatchInv' /\ Seats' = Seats
  BY <1>1, SamePlayers, SeatsStay DEF MatchInv, IdleShowsNothing
<1>3. ~gameplayActive /\ ~gameEnded
  BY <1>1 DEF Inductive, PhaseInv, PhaseConsistent
<1>4. Phase = "Countdown" /\ Phase' = "Loading"
  BY <1>1, <1>2, <1>3, PhaseCases, PhaseCasesNext
<1> QED
  BY <1>1, <1>2, <1>4 DEF M!Launch

LEMMA MarkLoadedPlays ==
  ASSUME Inductive, MatchInv, Inductive', NEW m \in memberships, MarkLoaded(m)
  PROVE  MatchInv' /\ [M!MatchNext]_(M!matchVars)
<1>1. /\ m.player \in Connected
      /\ players' = [players EXCEPT ![m.player].loaded = TRUE]
      /\ UNCHANGED <<nextSession, countdownActive, remaining>>
  BY DEF MarkLoaded, Calls, SessionMatches, countdownVars
<1>2. SameSeats
  <2>1. \A q \in Connected : players[q] \in ConnectedPlayer
    BY DEF Inductive, TypeOK, RosterTyped
  <2> QED
    BY <1>1, <2>1 DEF SameSeats, Connected, ConnectedPlayer, Inductive, TypeOK, RosterTyped
<1>3. CASE BeginsGameplay(players')
  <2>1. /\ started /\ ~gameplayActive /\ ~gameEnded
        /\ started' = started /\ gameEnded' = gameEnded /\ gameplayActive' = TRUE
    BY <1>3 DEF MarkLoaded, BeginsGameplay, BeginGameplay
  <2>2. MatchInv' /\ Seats' = Seats
    BY <1>1, <1>2, SeatsStay DEF MatchInv, IdleShowsNothing
  <2>3. Phase = "Loading" /\ Phase' = "Playing"
    BY <2>1, <2>2, PhaseCases, PhaseCasesNext
  <2>4. M!Several(Seats)
    BY <1>2, <1>3, SeveralSeats DEF MatchInv, BeginsGameplay, SameSeats, Connected
  <2> QED
    BY <1>1, <2>2, <2>3, <2>4 DEF M!MatchNext, M!Play
<1>4. CASE ~BeginsGameplay(players')
  BY <1>1, <1>2, <1>4, Stutters DEF MarkLoaded
<1> QED
  BY <1>3, <1>4

(* The calls and tasks an observer of phase and seats does not notice. *)
LEMMA QuietSteps ==
  ASSUME Inductive, MatchInv,
         \/ \E m \in memberships, message \in Messages : PublishChat(m, message)
         \/ \E u \in unsent : SendUnlocked(u)
         \/ \E t \in countdownTasks : CountdownStale(t)
         \/ \E g \in gameplayTasks : GameplayTick(g) \/ GameplayStop(g)
         \/ \E g \in gameOverTimers : LastPlayerTimer(g)
         \/ UNCHANGED vars
  PROVE  MatchInv' /\ [M!MatchNext]_(M!matchVars)
<1>1. UNCHANGED <<players, nextSession, remaining, countdownActive, started,
                  gameplayActive, gameEnded>>
  BY DEF PublishChat, SendUnlocked, CountdownStale, GameplayTick, GameplayStop,
         LastPlayerTimer, vars, rosterVars, countdownVars, gameVars
<1> QED
  BY <1>1, SamePlayers, Stutters

LEMMA SubmitActionStutters ==
  ASSUME Inductive, MatchInv, NEW m \in memberships, NEW sequence \in 1..MaxSequence,
         SubmitAction(m, sequence)
  PROVE  MatchInv' /\ [M!MatchNext]_(M!matchVars)
<1>1. /\ m.player \in Connected
      /\ players' = [players EXCEPT ![m.player].lastSequence = sequence]
      /\ UNCHANGED <<nextSession, remaining, countdownActive, started,
                     gameplayActive, gameEnded>>
  BY DEF SubmitAction, Calls, SessionMatches, countdownVars
<1>2. SameSeats
  <2>1. \A q \in Connected : players[q] \in ConnectedPlayer
    BY DEF Inductive, TypeOK, RosterTyped
  <2> QED
    BY <1>1, <2>1 DEF SameSeats, Connected, ConnectedPlayer, Inductive, TypeOK, RosterTyped
<1> QED
  BY <1>1, <1>2, Stutters

LEMMA SubmitKeepaliveStutters ==
  ASSUME Inductive, MatchInv, NEW m \in memberships, NEW sequence \in 1..MaxSequence,
         NEW checksum \in Checksums, SubmitKeepalive(m, sequence, checksum)
  PROVE  MatchInv' /\ [M!MatchNext]_(M!matchVars)
<1>1. UNCHANGED <<nextSession, remaining, countdownActive, started,
                  gameplayActive, gameEnded>>
  BY DEF SubmitKeepalive, countdownVars, gameVars
<1>2. SameSeats
  <2>1. \A q \in Connected : players[q] \in ConnectedPlayer
    BY DEF Inductive, TypeOK, RosterTyped
  <2> DEFINE queues == [q \in Connected |->
               IF q = m.player THEN Append(players[q].checksums, checksum)
                               ELSE players[q].checksums]
  <2>2. PICK n \in 0..MaxPendingChecksums :
          players' = [q \in Connected |->
            [players[q] EXCEPT
               !.lastSequence = IF q = m.player THEN sequence ELSE @,
               !.checksums = SubSeq(queues[q], n + 1, Len(queues[q]))]]
    BY DEF SubmitKeepalive
  <2> HIDE DEF queues
  <2> QED
    BY <2>1, <2>2 DEF SameSeats, Connected, ConnectedPlayer
<1> QED
  BY <1>1, <1>2, Stutters

LEMMA EndGameFinishes ==
  ASSUME Inductive, MatchInv, Inductive', NEW e \in endings, EndGame(e)
  PROVE  MatchInv' /\ [M!MatchNext]_(M!matchVars)
<1>1. UNCHANGED <<players, nextSession>>
  BY DEF EndGame, rosterVars
<1>2. CASE ~started \/ gameEnded
  BY <1>1, <1>2, SamePlayers, Stutters DEF EndGame, countdownVars, gameVars
<1>3. CASE started /\ ~gameEnded
  <2>1. Connected # {}
    BY <1>3 DEF Inductive, PhaseInv, PhaseConsistent
  <2>2. gameEnded' = TRUE /\ UNCHANGED <<countdownActive, remaining>>
    BY <1>3, <2>1 DEF EndGame, countdownVars
  <2>3. MatchInv' /\ Seats' = Seats
    BY <1>1, <2>2, SamePlayers, SeatsStay DEF MatchInv, IdleShowsNothing
  <2>4. Phase \in {"Loading", "Playing"} /\ Phase' = "Ended"
    BY <1>3, <2>2, <2>3, PhaseCases, PhaseCasesNext
  <2> QED
    BY <1>1, <2>3, <2>4 DEF M!MatchNext, M!Finish
<1> QED
  BY <1>2, <1>3

----------------------------------------------------------------------------
(* Departures. *)

LEMMA LeaveSeatDeparts ==
  ASSUME Inductive, MatchInv, Inductive', NEW m \in memberships, SessionMatches(m),
         LeaveSeat(m)
  PROVE  MatchInv' /\ \E s \in Seats : M!Depart(s)
<1>1. PICK k \in Nat : AfterLeave(players', k)
  BY LeaveSeatFacts
<1>2. /\ m.player \in Connected /\ players[m.player].session = m.session
      /\ Connected' = Connected \ {m.player}
      /\ \A q \in Connected' : players'[q] = players[q]
      /\ countdownActive' = FALSE
      /\ UNCHANGED nextSession
  BY LeaveSeatFacts DEF SessionMatches
<1>3. MatchInv'
  <2>1. remaining' = 0
    BY DEF LeaveSeat, StopCountdown
  <2> QED
    BY <1>2, <2>1 DEF MatchInv, SeatedOnce, IdleShowsNothing
<1>4. m.session \in Seats /\ Seats' = Seats \ {m.session}
  BY <1>2 DEF Seats, MatchInv, SeatedOnce
<1>5. Seats' = {} <=> Connected' = {}
  BY DEF Seats
<1>6. Phase' \in IF Seats' = {} \/ Phase \in {"Waiting", "Countdown"} THEN {"Waiting"}
                 ELSE IF Phase = "Loading" /\ M!Several(Seats') THEN {"Loading", "Playing"}
                 ELSE {Phase}
  <2>1. CASE Connected' = {}
    BY <1>1, <1>2, <1>3, <1>5, <2>1, AfterLeaveCases, PhaseCasesNext
  <2>2. CASE Connected' # {} /\ ~BeginsGameplay(players')
    <3>1. UNCHANGED <<started, gameplayActive, gameEnded>>
      BY <1>1, <2>2, AfterLeaveCases
    <3>2. Phase' = IF Phase = "Countdown" THEN "Waiting" ELSE Phase
      BY <1>2, <1>3, <3>1, PhaseCases, PhaseCasesNext DEF Phase
    <3> QED
      BY <1>5, <2>2, <3>2 DEF Phase
  <2>3. CASE Connected' # {} /\ BeginsGameplay(players')
    <3>1. AtLeastTwo(Connected')
      BY <2>3 DEF BeginsGameplay, Connected
    <3>2. ~ArmsTimer(players')
      BY <2>3 DEF BeginsGameplay, ArmsTimer, AtLeastTwo, Solo
    <3>3. gameplayActive' /\ UNCHANGED <<started, gameEnded>>
      BY <1>1, <2>3, <3>2, AfterLeaveCases
    <3>4. Phase = "Loading" /\ Phase' = "Playing"
      BY <1>3, <2>3, <3>3, PhaseCases, PhaseCasesNext DEF BeginsGameplay
    <3>5. M!Several(Seats')
      <4>1. PICK p, q \in Connected' : p # q
        BY <3>1 DEF AtLeastTwo
      <4>2. players'[p].session # players'[q].session
        BY <1>3, <4>1 DEF MatchInv, SeatedOnce
      <4> QED
        BY <4>2 DEF Seats, M!Several
    <3> QED
      BY <1>5, <2>3, <3>4, <3>5
  <2> QED
    BY <2>1, <2>2, <2>3
<1> QED
  BY <1>2, <1>3, <1>4, <1>6 DEF M!Depart

LEMMA LeaveDeparts ==
  ASSUME Inductive, MatchInv, Inductive', NEW m \in memberships \cup departed,
         LeaveByMessage(m) \/ Disconnect(m)
  PROVE  MatchInv' /\ [M!MatchNext]_(M!matchVars)
<1>1. LeaveRoom(m)
  BY DEF LeaveByMessage, Disconnect
<1>2. CASE SessionMatches(m)
  <2>1. m \in memberships
    BY <1>2 DEF Inductive, SeatsInv, OldSessionsAreGone
  <2> QED
    BY <1>1, <1>2, <2>1, LeaveSeatDeparts DEF LeaveRoom, M!MatchNext
<1>3. CASE ~SessionMatches(m)
  BY <1>1, <1>3, SamePlayers, Stutters
     DEF LeaveRoom, rosterVars, countdownVars, gameVars
<1> QED
  BY <1>2, <1>3

----------------------------------------------------------------------------
LEMMA StepMatches ==
  Inductive /\ MatchInv /\ Inductive' /\ [Next]_vars =>
    MatchInv' /\ [M!MatchNext]_(M!matchVars)
<1> SUFFICES ASSUME Inductive, MatchInv, Inductive', [Next]_vars
             PROVE  MatchInv' /\ [M!MatchNext]_(M!matchVars)
  OBVIOUS
<1>1. CASE ClientCall
  BY <1>1, JoinEnters, MarkReadyCounts, RequestManualStartCounts, MarkLoadedPlays,
     QuietSteps, SubmitActionStutters, SubmitKeepaliveStutters, LeaveDeparts
     DEF ClientCall, M!MatchNext
<1>2. CASE CountdownTask
  BY <1>2, CountdownTickStutters, CountdownStartLaunches, QuietSteps
     DEF CountdownTask, M!MatchNext
<1>3. CASE EndTask
  BY <1>3, EndGameFinishes DEF EndTask
<1>4. CASE GameplayTask \/ TimerTask \/ SendTask \/ UNCHANGED vars
  BY <1>4, QuietSteps DEF GameplayTask, TimerTask, SendTask
<1> QED
  BY <1>1, <1>2, <1>3, <1>4 DEF Next

(* control_snapshot and the roster: whatever the room's tasks do, its      *)
(* phase and its seats are those of a match, which nobody enters once it   *)
(* counts, which begins and ends at most once and which only an empty room *)
(* follows with another.                                                   *)
THEOREM MatchImplemented == Spec => ImplementsMatch
<1>1. Init => M!MatchInit /\ MatchInv
  BY InitMatch
<1>2. Spec => []Inductive
  BY InductiveHolds
<1>3. Inductive /\ MatchInv /\ Inductive' /\ [Next]_vars =>
        MatchInv' /\ [M!MatchNext]_(M!matchVars)
  BY StepMatches
<1> QED
  BY <1>1, <1>2, <1>3, PTL DEF Spec, ImplementsMatch, M!MatchSpec
=============================================================================
