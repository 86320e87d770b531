----------------------------- MODULE AgentRoster -----------------------------
(* What Warcraft is told of the other players: run_lobby_session and       *)
(* apply_roster_update of apps/strajer-agent/src/main.rs turn the room's   *)
(* updates into W3GS frames that introduce players, take them away, let    *)
(* them speak and report them as loaded.                                   *)
(*                                                                         *)
(* Module LobbyDelivery has the room, its socket tasks and all agents, and *)
(* rosters that are sets of identifiers; here one agent follows a room     *)
(* reduced to what its rosters depend on, and rosters have names, so that  *)
(* an identifier may come to stand for somebody else.                      *)
EXTENDS Naturals, Sequences, FiniteSets

CONSTANTS
  Me, Others,   \* names of players
  MaxPlayers,   \* human_player_capacity
  Capacity,     \* LOBBY_UPDATE_CAPACITY
  MaxRevision,  \* bound: the room's roster revisions
  MaxChats,     \* bound: chats
  MaxTicks      \* bound: frames of the game

ASSUME RosterAssumption ==
  /\ Me \notin Others /\ MaxPlayers \in Nat \ {0} /\ Capacity \in Nat \ {0}
  /\ {MaxRevision, MaxChats, MaxTicks} \subseteq Nat

VARIABLES
  revision, players, started, loaded, playing,  \* the room
  unsent,                              \* what tasks have yet to send, the lock released
  stage, queue, lagged,                \* the agent's socket and its receiver
  agent,                               \* what the agent knows
  view,                                \* what Warcraft was told
  chats, ticks

roomVars == <<revision, players, started, loaded, playing, chats, ticks>>
receiverVars == <<stage, queue, lagged>>
rosterVars == <<roomVars, unsent, receiverVars, agent, view>>

Ids == 1..MaxPlayers
Everybody == Others \cup {Me}
Player == [id: Ids, name: Everybody]
Roster == [revision: 0..MaxRevision, players: SUBSET Player]

IdsOf(them) == {p.id : p \in them}
CurrentRoster(r, them) == [revision |-> r, players |-> them]

NoView == [known |-> {}, slots |-> {}, started |-> FALSE, loaded |-> {}, misled |-> FALSE]
NoAgent == [id |-> 0, roster |-> CurrentRoster(0, {}), started |-> FALSE, loaded |-> {}]

----------------------------------------------------------------------------
(* The room and its channel. *)

Updates ==
  [type: {"Roster"}, roster: Roster] \cup [type: {"Chat", "PlayerLoaded"}, player: Ids]
  \cup [type: {"PlayerLeft"}, player: Ids, roster: Roster] \cup [type: {"Start", "GameFrame"}]

Newest(updates) ==
  SubSeq(updates, IF Len(updates) > Capacity THEN Len(updates) - Capacity + 1 ELSE 1,
         Len(updates))

(* The updates reach the agent's receiver when it has subscribed. *)
Publish(updates) ==
  IF stage \in {"asking", "member"}
    THEN /\ queue' = Newest(queue \o updates)
         /\ lagged' = (lagged \/ Len(queue \o updates) > Capacity)
    ELSE UNCHANGED <<queue, lagged>>

(* A socket task sends its update before it reads the next message, so its *)
(* player neither gets ready nor leaves in between.                        *)
Idle(n) == \A u \in unsent : u.by # n

(* The lobby is full when no identifier is free. *)
LowestFree(i) == i \in Ids \ IdsOf(players) /\ \A j \in 1..(i - 1) : j \in IdsOf(players)

TakeSeat(i, n) ==
  /\ ~started /\ revision < MaxRevision
  /\ LowestFree(i) /\ \A p \in players : p.name # n
  /\ players' = players \cup {[id |-> i, name |-> n]}
  /\ revision' = revision + 1
  /\ unsent' = unsent \cup {[by |-> n, update |-> [type |-> "Roster",
                              roster |-> CurrentRoster(revision', players')]]}
  /\ UNCHANGED <<started, loaded, playing, chats, ticks>>

(* begin_gameplay_if_ready, with the lock that took the last loaded or the *)
(* last who had not loaded.                                                *)
BeginsGameplay(them) ==
  playing' = \/ playing
             \/ started /\ Cardinality(them) > 1 /\ IdsOf(them) \subseteq loaded'

OtherJoins(n) ==
  /\ n \in Others /\ \E i \in Ids : TakeSeat(i, n)
  /\ UNCHANGED <<receiverVars, agent, view>>

OtherLeaves(p) ==
  /\ p \in players /\ p.name # Me /\ Idle(p.name) /\ revision < MaxRevision
  /\ players' = players \ {p} /\ loaded' = loaded \ {p.id}
  /\ revision' = revision + 1
  /\ LET roster == CurrentRoster(revision', players')
     IN  Publish(IF started
                   THEN <<[type |-> "PlayerLeft", player |-> p.id, roster |-> roster]>>
                   ELSE <<[type |-> "Roster", roster |-> roster]>>)
  /\ BeginsGameplay(players')
  /\ UNCHANGED <<started, chats, ticks, unsent, stage, agent, view>>

OtherChats(p) ==
  /\ p \in players /\ Idle(p.name) /\ chats < MaxChats /\ chats' = chats + 1
  /\ unsent' = unsent \cup {[by |-> p.name, update |-> [type |-> "Chat", player |-> p.id]]}
  /\ UNCHANGED <<revision, players, started, loaded, playing, ticks, receiverVars, agent, view>>

(* Everybody is ready, which takes a message of each after it has joined. *)
BeginMatch ==
  /\ ~started /\ Cardinality(players) > 1 /\ started' = TRUE
  /\ \A u \in unsent : u.update.type # "Roster"
  /\ Publish(<<[type |-> "Start"]>>)
  /\ UNCHANGED <<revision, players, loaded, playing, chats, ticks, unsent, stage, agent, view>>

WrongLoadedUpdate(p) ==
  IF p.name = Me THEN <<>> ELSE <<[type |-> "PlayerLoaded", player |-> p.id]>>

(* Every session is told, the one that has loaded too: its Warcraft waits  *)
(* for the confirmation of every player, itself included.                  *)
LoadedUpdate(p) == <<[type |-> "PlayerLoaded", player |-> p.id]>>

MarkLoaded(p) ==
  /\ started /\ p \in players /\ Idle(p.name) /\ p.id \notin loaded
  /\ loaded' = loaded \cup {p.id}
  /\ BeginsGameplay(players)
  /\ Publish(LoadedUpdate(p))
  /\ UNCHANGED <<revision, players, started, chats, ticks, unsent, stage, agent, view>>

OtherLoads(p) == p.name # Me /\ MarkLoaded(p)

(* Warcraft loads the map when it was told of the start. *)
MeLoads(p) == p.name = Me /\ stage = "member" /\ view.started /\ MarkLoaded(p)

GameplayTick ==
  /\ playing /\ ticks < MaxTicks /\ ticks' = ticks + 1
  /\ Publish(<<[type |-> "GameFrame"]>>)
  /\ UNCHANGED <<revision, players, started, loaded, playing, chats, unsent, stage, agent, view>>

SendUnlocked ==
  /\ \E u \in unsent : Publish(<<u.update>>) /\ unsent' = unsent \ {u}
  /\ UNCHANGED <<roomVars, stage, agent, view>>

----------------------------------------------------------------------------
(* The frames for Warcraft. *)

Remote(roster, id) == {p \in roster.players : p.id # id}

WrongLeaving(id, previous, next) ==
  {p \in Remote(previous, id) : p.id \notin IdsOf(next.players)}
Leaving(id, previous, next) == Remote(previous, id) \ next.players

Arriving(id, previous, next) == Remote(next, id) \ previous.players

(* Every player has the slot of its identifier.                            *)
SlotsOf(roster) == IdsOf(roster.players)

(* A frame misleads Warcraft that takes away somebody it does not know, or *)
(* introduces somebody under an identifier that it knows.                  *)
ApplyRoster(v, id, previous, next) ==
  LET gone == Leaving(id, previous, next)
      new == Arriving(id, previous, next)
      left == {p \in v.known : p.id \notin IdsOf(gone)}
  IN  [v EXCEPT !.known = left \cup new,
                !.slots = SlotsOf(next),
                !.misled = @ \/ ~(IdsOf(gone) \subseteq IdsOf(v.known))
                             \/ IdsOf(left) \cap IdsOf(new) # {}]

InitialFrames(id, roster) ==
  [NoView EXCEPT !.known = Remote(roster, id), !.slots = SlotsOf(roster)]

(* PlayerInfo comes before anything else that names a player. *)
Mention(v, id) == [v EXCEPT !.misled = @ \/ id \notin IdsOf(v.known) \cup {agent.id}]

Fits(a, u) ==
  CASE u.type = "Roster" ->
         u.roster.revision > a.roster.revision => a.id \in IdsOf(u.roster.players)
    [] u.type = "Chat" -> u.player \in IdsOf(a.roster.players)
    [] u.type = "PlayerLoaded" -> a.started /\ u.player \in IdsOf(a.roster.players)
    [] u.type = "GameFrame" -> a.started
    [] u.type = "PlayerLeft" ->
         /\ a.started /\ u.player # a.id /\ u.player \in IdsOf(a.roster.players)
         /\ u.roster.revision > a.roster.revision
    [] OTHER -> TRUE

Follow(a, u) ==
  CASE u.type = "Roster" /\ u.roster.revision > a.roster.revision ->
         [a EXCEPT !.roster = u.roster]
    [] u.type = "Start" -> [a EXCEPT !.started = TRUE]
    [] u.type = "PlayerLoaded" -> [a EXCEPT !.loaded = @ \cup {u.player}]
    [] u.type = "PlayerLeft" -> [a EXCEPT !.loaded = @ \ {u.player}, !.roster = u.roster]
    [] OTHER -> a

(* Idempotent updates, of which Warcraft is told once. *)
Repeats(a, u) ==
  \/ u.type = "Roster" /\ u.roster.revision <= a.roster.revision
  \/ u.type = "Start" /\ a.started
  \/ u.type = "PlayerLoaded" /\ u.player \in a.loaded

(* Warcraft takes the first frame of the game when every player it knows,  *)
(* and its own, was reported as loaded.                                    *)
AwaitsLoaded(v) == ~(IdsOf(v.known) \cup {agent.id} \subseteq v.loaded)

Show(v, a, u) ==
  IF Repeats(a, u) THEN v ELSE
  CASE u.type = "Roster" -> ApplyRoster(v, a.id, a.roster, u.roster)
    [] u.type = "Chat" -> Mention(v, u.player)
    [] u.type = "Start" -> [v EXCEPT !.started = TRUE, !.misled = @ \/ v.started]
    [] u.type = "PlayerLoaded" ->
         [Mention(v, u.player) EXCEPT !.loaded = @ \cup {u.player},
            !.misled = @ \/ ~v.started \/ u.player \in v.loaded]
    [] u.type = "GameFrame" -> [v EXCEPT !.misled = @ \/ AwaitsLoaded(v)]
    [] u.type = "PlayerLeft" ->
         [Mention(v, u.player) EXCEPT !.known = {p \in @ : p.id # u.player},
            !.loaded = @ \ {u.player}]

----------------------------------------------------------------------------
(* The agent. *)

Subscribe ==
  /\ stage = "away" /\ stage' = "asking"
  /\ UNCHANGED <<roomVars, unsent, queue, lagged, agent, view>>

Enter ==
  /\ stage = "asking" /\ stage' = "member"
  /\ \E i \in Ids :
       LET roster == CurrentRoster(revision', players')
       IN  /\ TakeSeat(i, Me)
           /\ agent' = [NoAgent EXCEPT !.id = i, !.roster = roster]
           /\ view' = InitialFrames(i, roster)
  /\ UNCHANGED <<queue, lagged>>

GiveUp == stage' = "done" /\ queue' = <<>> /\ lagged' = FALSE /\ UNCHANGED <<agent, view>>

Deliver ==
  /\ stage = "member" /\ Idle(Me) /\ ~lagged /\ queue # <<>>
  /\ LET u == Head(queue)
     IN  IF ~Fits(agent, u) THEN GiveUp
         ELSE /\ queue' = Tail(queue)
              /\ agent' = Follow(agent, u)
              /\ view' = Show(view, agent, u)
              /\ UNCHANGED <<stage, lagged>>
  /\ UNCHANGED <<roomVars, unsent>>

Replay(a) == loaded \ a.loaded

(* The snapshot: the roster, and while the game loads its start and who    *)
(* has loaded; a game that is played is not recovered.                     *)
Recover ==
  /\ stage = "member" /\ Idle(Me) /\ lagged
  /\ LET current == [type |-> "Roster", roster |-> CurrentRoster(revision, players)]
         begin == [type |-> "Start"]
         a1 == Follow(agent, current)
         v1 == Show(view, agent, current)
         a2 == Follow(a1, begin)
         v2 == Show(v1, a1, begin)
     IN  \/ /\ ~started
            /\ agent' = a1 /\ view' = v1
            /\ lagged' = FALSE /\ UNCHANGED <<stage, queue>>
         \/ /\ started /\ ~playing
            /\ agent' = [a2 EXCEPT !.loaded = @ \cup Replay(a2)]
            /\ view' = [v2 EXCEPT !.loaded = @ \cup Replay(a2),
                          !.misled = @ \/ Replay(a2) \cap v2.loaded # {}]
            /\ lagged' = FALSE /\ UNCHANGED <<stage, queue>>
         \/ playing /\ GiveUp
  /\ UNCHANGED <<roomVars, unsent>>

----------------------------------------------------------------------------
RosterInit ==
  /\ revision = 0 /\ players = {} /\ started = FALSE /\ loaded = {} /\ playing = FALSE
  /\ chats = 0 /\ ticks = 0
  /\ unsent = {}
  /\ stage = "away" /\ queue = <<>> /\ lagged = FALSE
  /\ agent = NoAgent /\ view = NoView

RosterNext ==
  \/ \E n \in Others : OtherJoins(n)
  \/ \E p \in players : OtherLeaves(p) \/ OtherChats(p) \/ OtherLoads(p) \/ MeLoads(p)
  \/ BeginMatch \/ GameplayTick \/ SendUnlocked
  \/ Subscribe \/ Enter \/ Deliver \/ Recover

RosterSpec == RosterInit /\ [][RosterNext]_rosterVars

----------------------------------------------------------------------------
(* Every variable of the session keeps its type. *)
RosterTypeOK ==
  /\ revision \in 0..MaxRevision /\ players \subseteq Player
  /\ {started, playing} \subseteq BOOLEAN /\ loaded \subseteq Ids
  /\ chats \in 0..MaxChats /\ ticks \in 0..MaxTicks
  /\ unsent \subseteq [by: Everybody, update: Updates] /\ queue \in Seq(Updates) /\ Len(queue) <= Capacity
  /\ stage \in {"away", "asking", "member", "done"} /\ lagged \in BOOLEAN
  /\ agent \in [id: 0..MaxPlayers, roster: Roster, started: BOOLEAN, loaded: SUBSET Ids]
  /\ view.known \subseteq Player /\ view.slots \subseteq Ids

(* Every frame that Warcraft is sent names a player it was told of; nobody *)
(* is introduced twice under one identifier, loaded twice or taken away    *)
(* without having been there, whatever was lost, overtaken or reused; and  *)
(* no frame of the game comes before every player that Warcraft knows, its *)
(* own included, was reported as loaded.                                   *)
NeverMisled == RosterTypeOK /\ ~view.misled

CaughtUp == stage = "member" /\ queue = <<>> /\ ~lagged /\ unsent = {}

(* When the agent has nothing left to follow, Warcraft shows exactly the   *)
(* other players of the room, each under the name of its player, and in    *)
(* the lobby the slots that they take; and it has been told of everybody   *)
(* who has loaded.                                                         *)
WarcraftSeesTheRoom ==
  CaughtUp =>
    /\ view.known = {p \in players : p.name # Me}
    /\ ~started => view.slots = IdsOf(players)
    /\ view.started = started
    /\ loaded \subseteq view.loaded
=============================================================================
