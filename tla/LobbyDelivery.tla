--------------------------- MODULE LobbyDelivery ---------------------------
(***************************************************************************)
(* The lobby room of module Lobby with the sessions around it: the socket  *)
(* tasks of apps/strajer-server/src/http.rs, each with its receiver on the *)
(* room's broadcast channel, and the agents at their other ends            *)
(* (apps/strajer-agent/src/remote_lobby.rs and run_lobby_session in        *)
(* main.rs), which follow the room from the updates and give the session   *)
(* up on one that does not fit what they know.                             *)
(*                                                                         *)
(* A receiver keeps the last Capacity updates it has not read; when one is *)
(* lost it is told so once and goes on with the oldest that is left.  What *)
(* the socket task sends arrives in order or the session ends, so sending  *)
(* an update and the agent's handling of it are one step; the updates not  *)
(* yet sent may be behind the room by any amount.                          *)
(*                                                                         *)
(* A player has one socket at a time, and sockets are named by players.    *)
(***************************************************************************)
EXTENDS LobbyMatch

CONSTANT Capacity  \* LOBBY_UPDATE_CAPACITY

ASSUME DeliveryAssumption == Capacity \in Nat \ {0}

VARIABLE links  \* player name -> its socket, receiver and agent

deliveryVars == <<vars, links>>

Stages == {"closed", "asking", "member", "snapshot", "closing"}
Causes == {"none", "left", "told", "gave up", "late", "refused", "lagged"}

Agent ==
  [player: 0..MaxPlayers,      \* assigned_player_id
   roster: Roster,
   started: BOOLEAN,           \* game_started
   loaded: SUBSET PlayerIds,   \* loaded_player_ids
   frame: Nat]                 \* last_received_game_sequence

Link ==
  [stage: Stages,
   session: Nat,
   queue: Seq(Updates),        \* updates the receiver has not read
   lagged: BOOLEAN,            \* it lost updates and has not been told
   agent: Agent,
   cause: Causes,              \* why the session is closing
   early: BOOLEAN,             \* history: updates older than the join waited
   recovered: BOOLEAN]         \* history: a snapshot was sent

NoAgent ==
  [player |-> 0, roster |-> [revision |-> 0, players |-> {}], started |-> FALSE,
   loaded |-> {}, frame |-> 0]

ClosedLink ==
  [stage |-> "closed", session |-> 0, queue |-> <<>>, lagged |-> FALSE,
   agent |-> NoAgent, cause |-> "none", early |-> FALSE, recovered |-> FALSE]

Closing(link, why) ==
  [link EXCEPT !.stage = "closing", !.queue = <<>>, !.lagged = FALSE,
               !.agent = NoAgent, !.cause = why]

Socket(n, m) == m.session = links[n].session

(* The socket task is in its select loop: neither its join nor a call of   *)
(* its own is under way.                                                   *)
Serves(n) ==
  /\ links[n].stage = "member"
  /\ \E m \in memberships : Socket(n, m) /\ Idle(m)

----------------------------------------------------------------------------
(* The broadcast channel. *)

Newest(queue) ==
  SubSeq(queue, IF Len(queue) > Capacity THEN Len(queue) - Capacity + 1 ELSE 1,
         Len(queue))

WrongListens(link) ==
  link.stage \in {"member", "snapshot"} /\ \A u \in unsent : u.session # link.session

(* join subscribes before it waits for the room's lock. *)
Listens(link) == link.stage \in {"asking", "member", "snapshot"}

(* What the step sends goes to every receiver, whatever else it does to    *)
(* the links.                                                              *)
Broadcast(next) ==
  links' = [n \in Names |->
    IF Listens(next[n])
      THEN [next[n] EXCEPT !.queue = Newest(@ \o sent'),
                           !.lagged = @ \/ Len(next[n].queue \o sent') > Capacity]
      ELSE next[n]]

----------------------------------------------------------------------------
(* The agent. *)

WrongIsNewer(agent, roster) == TRUE
IsNewer(agent, roster) == roster.revision > agent.roster.revision

(* What the agent's session lets through to its loop. *)
Valid(agent, u) ==
  CASE u.type = "PlayerLeft" ->
         /\ u.player # agent.player
         /\ u.player \notin u.roster.players
         /\ agent.player \in u.roster.players
    [] u.type = "GameFrame" -> u.sequence = agent.frame + 1
    [] OTHER -> TRUE

(* What the agent's loop does not give the session up on. *)
Fits(agent, u) ==
  CASE u.type = "Roster" ->
         IsNewer(agent, u.roster) => agent.player \in u.roster.players
    [] u.type = "Chat" -> u.player \in agent.roster.players
    [] u.type = "PlayerLoaded" -> agent.started /\ u.player \in agent.roster.players
    [] u.type = "PlayerLeft" ->
         /\ agent.started /\ u.player \in agent.roster.players
         /\ IsNewer(agent, u.roster)
    [] u.type \in {"GameFrame", "GameEnded"} -> agent.started
    [] OTHER -> TRUE

Follow(agent, u) ==
  CASE u.type = "Roster" /\ IsNewer(agent, u.roster) ->
         [agent EXCEPT !.roster = u.roster]
    [] u.type = "Start" -> [agent EXCEPT !.started = TRUE]
    [] u.type = "PlayerLoaded" -> [agent EXCEPT !.loaded = @ \cup {u.player}]
    [] u.type = "PlayerLeft" ->
         [agent EXCEPT !.loaded = @ \ {u.player}, !.roster = u.roster]
    [] u.type = "GameFrame" -> [agent EXCEPT !.frame = u.sequence]
    [] OTHER -> agent

WrongEndsSession(u) == FALSE

(* The socket task returns once it has sent the end of the game. *)
EndsSession(u) == u.type = "GameEnded"

----------------------------------------------------------------------------
(* The socket task. *)

Subscribe(n) ==
  /\ links[n].stage = "closed"
  /\ links' = [links EXCEPT ![n].stage = "asking"]
  /\ UNCHANGED vars

(* The Joined message carries the roster of the join itself. *)
Enter(n) ==
  /\ links[n].stage = "asking"
  /\ Join(n)
  /\ \E m \in memberships' \ memberships :
       Broadcast([links EXCEPT
         ![n].stage = "member",
         ![n].session = m.session,
         ![n].early = links[n].queue # <<>> \/ links[n].lagged,
         ![n].agent = [NoAgent EXCEPT !.player = m.player,
                         !.roster = CurrentRoster(revision', players')]])

Reject(n) ==
  /\ links[n].stage = "asking"
  /\ \/ ~Admits
     \/ Connected = PlayerIds
     \/ \E p \in Connected : players[p].name = n
  /\ links' = [links EXCEPT ![n] = ClosedLink]
  /\ UNCHANGED vars

(* What an agent asks for: it reports loading once it has seen the start,  *)
(* and Warcraft sends its game messages in answer to frames.               *)
Asks(m, agent) ==
  \/ MarkReady(m)
  \/ RequestManualStart(m)
  \/ agent.started /\ MarkLoaded(m)
  \/ \E message \in Messages : PublishChat(m, message)
  \/ /\ agent.frame > 0
     /\ \E sequence \in 1..MaxSequence :
          \/ SubmitAction(m, sequence)
          \/ \E checksum \in Checksums : SubmitKeepalive(m, sequence, checksum)

Call(n) ==
  /\ Serves(n)
  /\ \E m \in memberships : Socket(n, m) /\ Asks(m, links[n].agent)
  /\ Broadcast(links)

Leave(n) ==
  /\ Serves(n)
  /\ \E m \in memberships : Socket(n, m) /\ LeaveByMessage(m)
  /\ Broadcast([links EXCEPT ![n] = Closing(@, "left")])

(* A loaded or a game message that was under way when the game ended. *)
TooLate(m, agent) ==
  \/ agent.started /\ gameEnded /\ ~players[m.player].loaded
  \/ agent.frame > 0 /\ ~GameRuns

QueueFull(m, agent) ==
  /\ agent.frame > 0
  /\ \/ Len(pendingActions) = MaxPendingActions
     \/ Len(players[m.player].checksums) = MaxPendingChecksums

(* The room refuses a call that comes too late, or finds its queue full,   *)
(* and the socket task ends with the error, whatever waits in its queue.   *)
RefusedCall(n) ==
  /\ Serves(n)
  /\ \E m \in memberships :
       /\ Socket(n, m) /\ Idle(m)
       /\ \/ /\ TooLate(m, links[n].agent)
             /\ links' = [links EXCEPT ![n] = Closing(@, "late")]
          \/ /\ QueueFull(m, links[n].agent)
             /\ links' = [links EXCEPT ![n] = Closing(@, "refused")]
  /\ UNCHANGED vars

(* The next update is sent and the agent handles it. *)
Deliver(n) ==
  LET link == links[n]
      u == Head(link.queue)
  IN  /\ Serves(n) /\ ~link.lagged /\ link.queue # <<>>
      /\ links' = [links EXCEPT ![n] =
           IF ~(Valid(link.agent, u) /\ Fits(link.agent, u)) THEN Closing(link, "gave up")
           ELSE IF EndsSession(u) THEN Closing(link, "told")
           ELSE [link EXCEPT !.queue = Tail(@), !.agent = Follow(@, u)]]
      /\ UNCHANGED vars

(* RecvError::Lagged: the snapshot still has to wait for the lock. *)
NoticeLag(n) ==
  /\ Serves(n) /\ links[n].lagged
  /\ links' = [links EXCEPT ![n].stage = "snapshot", ![n].lagged = FALSE]
  /\ UNCHANGED vars

(* An agent that was sent the roster, the start and who has loaded. *)
Restored(agent, roster) ==
  LET current == Follow(agent, [type |-> "Roster", roster |-> roster])
  IN  IF Phase # "Loading" THEN current
      ELSE [current EXCEPT
              !.started = TRUE,
              !.loaded = @ \cup {p \in Connected : players[p].loaded}]

SendSnapshot(n) ==
  LET link == links[n]
      roster == CurrentRoster(revision, players)
  IN  /\ link.stage = "snapshot"
      /\ links' = [links EXCEPT ![n] =
           IF Phase \in {"Playing", "Ended"} THEN Closing(link, "lagged")
           ELSE [link EXCEPT !.stage = "member", !.recovered = TRUE,
                             !.agent = Restored(@, roster)]]
      /\ UNCHANGED vars

(* The socket task ends: the session was given up, or the client is gone.  *)
Close(n) ==
  /\ Serves(n) \/ links[n].stage = "closing"
  /\ \E m \in memberships \cup departed : Socket(n, m) /\ Disconnect(m)
  /\ Broadcast([links EXCEPT ![n] = ClosedLink])

----------------------------------------------------------------------------
DeliveryInit == Init /\ links = [n \in Names |-> ClosedLink]

RoomTask ==
  /\ CountdownTask \/ GameplayTask \/ TimerTask \/ EndTask \/ SendTask
  /\ Broadcast(links)

SocketTask(n) ==
  \/ Deliver(n)
  \/ NoticeLag(n)
  \/ SendSnapshot(n)
  \/ links[n].stage = "closing" /\ Close(n)

DeliveryNext ==
  \/ RoomTask
  \/ \E n \in Names :
       \/ Subscribe(n) \/ Enter(n) \/ Reject(n)
       \/ Call(n) \/ Leave(n) \/ RefusedCall(n)
       \/ Deliver(n) \/ NoticeLag(n) \/ SendSnapshot(n)
       \/ Close(n)

DeliverySpec == DeliveryInit /\ [][DeliveryNext]_deliveryVars

(* The runtime runs the room's tasks and the socket tasks, and every sleep *)
(* ends; a send ends, by success or by an error that ends the socket.  A   *)
(* client may fall silent for ever.                                        *)
FairDeliverySpec ==
  /\ DeliverySpec
  /\ WF_deliveryVars(CountdownTask /\ Broadcast(links))
  /\ WF_deliveryVars(TimerTask /\ Broadcast(links))
  /\ WF_deliveryVars(EndTask /\ Broadcast(links))
  /\ WF_deliveryVars(SendTask /\ Broadcast(links))
  /\ \A n \in Names : WF_deliveryVars(SocketTask(n))
=============================================================================
