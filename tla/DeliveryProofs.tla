--------------------------- MODULE DeliveryProofs ---------------------------
(* What is proved of the sessions of module LobbyDelivery, for every       *)
(* number of players, sessions and updates and every capacity of the       *)
(* channel.  The argument follows the agent into the future: `run' are the *)
(* states it would go through if it read all that its receiver holds.  If  *)
(* it accepts everything on the way, it ends up knowing the room as it is  *)
(* now; and whatever the room does next, the update of that step fits an   *)
(* agent that knows the room, and leaves it knowing the new one.           *)
EXTENDS LobbyProofs, LobbyDeliveryProperties, SequenceTheorems

(* The room as its sessions see it, after the frames up to `sequence'. *)
RoomAt(sequence) ==
  [revision |-> revision, here |-> Connected,
   session |-> [p \in Connected |-> players[p].session],
   loaded |-> {p \in Connected : players[p].loaded = TRUE},
   started |-> started, active |-> gameplayActive, ended |-> gameEnded,
   sequence |-> sequence, unsent |-> unsent]

Room == RoomAt(gameplaySequence)

HasRoster(u) == u.type \in {"Roster", "PlayerLeft"}

GameUpdate(u) == u.type \in {"Start", "PlayerLoaded", "PlayerLeft", "GameFrame", "GameEnded"}

(* A roster is of this room, the latest that of now. *)
OfRoom(roster, room) ==
  /\ roster.revision <= room.revision
  /\ roster.revision = room.revision => roster.players = room.here

UpdateOfRoom(u, room) == HasRoster(u) => OfRoom(u.roster, room)

(* The joins whose roster is still to be sent. *)
Announced(room) == {u \in room.unsent : u.update.type = "Roster"}

RoomInv(room) ==
  /\ room.active = TRUE => room.started = TRUE /\ room.ended = FALSE
  /\ room.ended = TRUE => room.started = TRUE
  /\ room.started = FALSE => room.loaded = {}
  /\ room.loaded \subseteq room.here
  /\ \A p, q \in room.here : room.session[p] = room.session[q] => p = q
  /\ \A u \in room.unsent :
       /\ u.update.type \in {"Roster", "Chat"}
       /\ UpdateOfRoom(u.update, room)
       /\ \E p \in room.here : /\ room.session[p] = u.session
                               /\ u.update.type = "Chat" => u.update.player = p
  /\ \A u, v \in room.unsent : u.session = v.session => u = v

RoomTyped(room) ==
  /\ room.revision \in Nat /\ room.here \subseteq PlayerIds
  /\ room.started \in BOOLEAN /\ room.active \in BOOLEAN /\ room.ended \in BOOLEAN
  /\ room.sequence \in Nat
  /\ room.unsent \subseteq [session: Sessions, update: Updates]

----------------------------------------------------------------------------
(* What an agent knows that has read everything. *)

(* Player p is in every roster from revision rev on that the agent has or  *)
(* will be sent by a join.                                                 *)
StaysIn(p, rev, roster, room) ==
  /\ roster.revision >= rev => p \in roster.players
  /\ \A u \in Announced(room) :
       u.update.roster.revision >= rev => p \in u.update.roster.players

(* Player p is known, or its own join is still to be announced. *)
HearsOf(p, roster, room) ==
  \/ StaysIn(p, roster.revision, roster, room)
  \/ \E u \in Announced(room) :
       u.session = room.session[p] /\ StaysIn(p, u.update.roster.revision, roster, room)

LatestComes(roster, room) ==
  \/ roster.revision = room.revision
  \/ \E u \in Announced(room) : u.update.roster.revision = room.revision

KnowsRoster(a, room) ==
  /\ OfRoom(a.roster, room) /\ LatestComes(a.roster, room)
  /\ StaysIn(a.player, a.roster.revision, a.roster, room)
  /\ \A p \in room.here : HearsOf(p, a.roster, room)

KnowsGame(a, room) ==
  /\ a.started = room.started
  /\ a.loaded \cap room.here = room.loaded
  /\ room.started = FALSE => a.loaded = {}
  /\ room.active = TRUE => a.frame = room.sequence
  /\ room.active = FALSE => a.frame = 0
  /\ room.ended = FALSE

Knows(a, room) == a \in Agent /\ KnowsRoster(a, room) /\ KnowsGame(a, room)

----------------------------------------------------------------------------
(* The agent's states as it reads its queue. *)

Accepts(a, u) == Valid(a, u) /\ Fits(a, u) /\ ~EndsSession(u)

AcceptsUpTo(run, queue, k) == \A j \in 1..k : Accepts(run[j], queue[j])

(* The states matter as far as the agent gets. *)
Reads(run, agent, queue) ==
  /\ run[1] = agent
  /\ \A k \in 1..Len(queue) :
       AcceptsUpTo(run, queue, k) => run[k + 1] = Follow(run[k], queue[k])

NeverGivesUp(run, queue) ==
  \A k \in 1..Len(queue) :
    AcceptsUpTo(run, queue, k - 1) => Valid(run[k], queue[k]) /\ Fits(run[k], queue[k])

ComesToKnow(run, agent, queue, room) ==
  AcceptsUpTo(run, queue, Len(queue)) =>
    /\ run[Len(queue) + 1].player = agent.player
    /\ Knows(run[Len(queue) + 1], room)

Follows(run, agent, queue, room, steady) ==
  /\ Reads(run, agent, queue) /\ ComesToKnow(run, agent, queue, room)
  /\ steady => NeverGivesUp(run, queue)

Steady(link) == link.early = FALSE /\ link.recovered = FALSE

(* A room that was left by all: no session goes on that is told so. *)
TellsOfEmptyRoom(queue) ==
  \E k \in DOMAIN queue : queue[k].type = "PlayerLeft" /\ queue[k].roster.players = {}

UpToDate(link, room) ==
  \/ \E run : Follows(run, link.agent, link.queue, room, Steady(link))
  \/ link.early = TRUE /\ TellsOfEmptyRoom(link.queue)

----------------------------------------------------------------------------
(* The other facts about a link. *)

NoGameIn(queue) == \A k \in DOMAIN queue : ~GameUpdate(queue[k])

(* Of an earlier game, a new session reads nothing or also its end. *)
WaitsFor(queue, room) ==
  room.started = FALSE => TellsOfEmptyRoom(queue) \/ NoGameIn(queue)

(* What is said of a session that joined with nothing waiting is about the *)
(* game it plays.                                                          *)
UpdateOfGame(u, room) ==
  /\ u.type = "Start" => room.started = TRUE
  /\ u.type = "PlayerLoaded" =>
       room.started = TRUE /\ (u.player \in room.here => u.player \in room.loaded)
  /\ u.type = "GameFrame" => room.active = TRUE \/ room.ended = TRUE

AgentOfGame(a, room) ==
  /\ OfRoom(a.roster, room)
  /\ a.started = TRUE => room.started = TRUE
  /\ room.started = FALSE => a.loaded = {}
  /\ a.loaded \cap room.here \subseteq room.loaded
  /\ a.frame # 0 => room.active = TRUE \/ room.ended = TRUE

Seated(link, room) ==
  link.agent.player \in room.here /\ room.session[link.agent.player] = link.session

LinkInv(link, room) ==
  /\ link.stage = "closed" => link = ClosedLink
  /\ link.stage = "asking" =>
       link.recovered = FALSE /\ link.session = 0 /\ link.cause = "none"
  /\ Listens(link) => \A k \in DOMAIN link.queue : UpdateOfRoom(link.queue[k], room)
  /\ link.stage = "asking" /\ link.lagged = FALSE => WaitsFor(link.queue, room)
  /\ link.stage \in {"member", "snapshot"} => Seated(link, room)
  /\ link.stage \in {"member", "snapshot"} /\ link.early = FALSE =>
       /\ AgentOfGame(link.agent, room)
       /\ \A k \in DOMAIN link.queue : UpdateOfGame(link.queue[k], room)
  /\ link.stage = "member" /\ link.lagged = FALSE
       /\ (link.early = FALSE \/ link.recovered = FALSE) => UpToDate(link, room)
  /\ link.cause = "gave up" => link.early = TRUE \/ link.recovered = TRUE

(* A session has one socket. *)
SessionsInv ==
  /\ \A n \in Names : links[n].session < nextSession
  /\ \A n, k \in Names :
       n # k /\ links[n].session # 0 => links[n].session # links[k].session

DeliveryInv ==
  /\ DeliveryTypeOK /\ RoomInv(Room) /\ SessionsInv
  /\ \A n \in Names : LinkInv(links[n], Room)

----------------------------------------------------------------------------
(* Reading on. *)

(* The receiver as if it had room for everything. *)
Received(link, updates) == [link EXCEPT !.queue = @ \o updates]

LEMMA ReceivedShape ==
  ASSUME NEW link \in Link, NEW s \in Seq(Updates)
  PROVE  /\ Received(link, s) \in Link
         /\ Received(link, s).stage = link.stage /\ Received(link, s).session = link.session
         /\ Received(link, s).queue = link.queue \o s
         /\ Received(link, s).lagged = link.lagged /\ Received(link, s).agent = link.agent
         /\ Received(link, s).cause = link.cause /\ Received(link, s).early = link.early
         /\ Received(link, s).recovered = link.recovered
<1>1. link.queue \in Seq(Updates) /\ link.queue \o s \in Seq(Updates)
  BY ConcatFacts DEF Link
<1> QED
  BY <1>1 DEF Link, Received

(* A run over what waits goes on over what comes. *)

LEMMA RunGoesOn ==
  ASSUME NEW agent, NEW queue \in Seq(Updates), NEW s \in Seq(Updates), NEW room, NEW room2,
         NEW steady \in BOOLEAN, NEW run,
         Follows(run, agent, queue, room, steady),
         \A a : a.player = agent.player /\ Knows(a, room) =>
           \E more : Follows(more, a, s, room2, TRUE)
  PROVE  \E longer : Follows(longer, agent, queue \o s, room2, steady)
<1> DEFINE n == Len(queue)
           q == queue \o s
<1>1. n \in Nat /\ Len(s) \in Nat /\ Len(q) = n + Len(s)
      /\ (\A k \in 1..n : q[k] = queue[k]) /\ (\A k \in 1..Len(s) : q[n + k] = s[k])
  BY ConcatFacts
<1> HIDE DEF n, q
<1>2. /\ run[1] = agent
      /\ \A k \in 1..n : AcceptsUpTo(run, queue, k) => run[k + 1] = Follow(run[k], queue[k])
      /\ AcceptsUpTo(run, queue, n) =>
           run[n + 1].player = agent.player /\ Knows(run[n + 1], room)
      /\ steady => \A k \in 1..n : AcceptsUpTo(run, queue, k - 1) =>
                     Valid(run[k], queue[k]) /\ Fits(run[k], queue[k])
  BY DEF Follows, Reads, ComesToKnow, NeverGivesUp, n
<1>3. PICK more : AcceptsUpTo(run, queue, n) => Follows(more, run[n + 1], s, room2, TRUE)
  BY <1>2
<1> DEFINE longer == [i \in 1..(Len(q) + 1) |-> IF i <= n THEN run[i]
                        ELSE IF i = n + 1 THEN run[n + 1] ELSE more[i - n]]
<1>4. /\ \A k \in 1..(n + 1) : longer[k] = run[k]
      /\ \A k \in 1..(Len(s) + 1) : k > 1 => longer[n + k] = more[k]
  <2>1. \A k \in 1..(n + 1) : k \in 1..(Len(q) + 1) /\ (k <= n \/ k = n + 1)
    BY <1>1
  <2>2. \A k \in 1..(Len(s) + 1) : k > 1 =>
          n + k \in 1..(Len(q) + 1) /\ ~(n + k <= n) /\ n + k # n + 1 /\ (n + k) - n = k
    BY <1>1
  <2> QED
    BY <2>1, <2>2
<1>5. AcceptsUpTo(run, queue, n) => \A k \in 1..(Len(s) + 1) : longer[n + k] = more[k]
  <2>1. AcceptsUpTo(run, queue, n) => more[1] = run[n + 1]
    BY <1>3 DEF Follows, Reads
  <2> QED
    BY <1>1, <1>4, <2>1
<1> HIDE DEF longer
<1>6. \A k \in 0..n : AcceptsUpTo(longer, q, k) <=> AcceptsUpTo(run, queue, k)
  BY <1>1, <1>4 DEF AcceptsUpTo
<1>7. \A k \in 0..Len(s) : AcceptsUpTo(longer, q, n + k) =>
        AcceptsUpTo(run, queue, n) /\ AcceptsUpTo(more, s, k)
  <2> SUFFICES ASSUME NEW k \in 0..Len(s), AcceptsUpTo(longer, q, n + k)
               PROVE  AcceptsUpTo(run, queue, n) /\ AcceptsUpTo(more, s, k)
    OBVIOUS
  <2>1. AcceptsUpTo(run, queue, n)
    <3>1. \A j \in 1..n : j \in 1..(n + k)
      BY <1>1
    <3>2. AcceptsUpTo(longer, q, n)
      BY <3>1 DEF AcceptsUpTo
    <3> QED
      BY <1>1, <1>6, <3>2
  <2>2. \A j \in 1..k : n + j \in 1..(n + k) /\ j \in 1..Len(s) /\ j \in 1..(Len(s) + 1)
    BY <1>1
  <2>3. \A j \in 1..k : Accepts(longer[n + j], q[n + j])
    BY <2>2 DEF AcceptsUpTo
  <2> QED
    BY <1>1, <1>5, <2>1, <2>2, <2>3 DEF AcceptsUpTo
<1>8. Reads(longer, agent, q)
  <2>1. longer[1] = agent
    BY <1>1, <1>2, <1>4
  <2>2. ASSUME NEW k \in 1..Len(q), AcceptsUpTo(longer, q, k)
        PROVE  longer[k + 1] = Follow(longer[k], q[k])
    <3>1. CASE k <= n
      BY <1>1, <1>2, <1>4, <1>6, <2>2, <3>1
    <3>2. CASE k > n
      <4>1. PICK j \in 1..Len(s) : k = n + j
        <5>1. k - n \in 1..Len(s) /\ k = n + (k - n)
          BY <1>1, <3>2
        <5> QED
          BY <5>1
      <4>2. AcceptsUpTo(run, queue, n) /\ AcceptsUpTo(more, s, j)
        BY <1>7, <2>2, <4>1
      <4>3. more[j + 1] = Follow(more[j], s[j])
        BY <1>3, <4>1, <4>2 DEF Follows, Reads
      <4>4. longer[n + j] = more[j] /\ longer[n + (j + 1)] = more[j + 1] /\ q[n + j] = s[j]
        <5>1. j \in 1..(Len(s) + 1) /\ j + 1 \in 1..(Len(s) + 1)
          BY <1>1, <4>1
        <5> QED
          BY <1>1, <1>5, <4>1, <4>2, <5>1
      <4>5. k + 1 = n + (j + 1)
        BY <1>1, <4>1
      <4> QED
        BY <4>1, <4>3, <4>4, <4>5
    <3> QED
      BY <1>1, <3>1, <3>2
  <2> QED
    BY <2>1, <2>2 DEF Reads
<1>9. ComesToKnow(longer, agent, q, room2)
  <2> SUFFICES ASSUME AcceptsUpTo(longer, q, Len(q))
               PROVE  /\ longer[Len(q) + 1].player = agent.player
                      /\ Knows(longer[Len(q) + 1], room2)
    BY DEF ComesToKnow
  <2>1. AcceptsUpTo(run, queue, n) /\ AcceptsUpTo(more, s, Len(s))
    BY <1>1, <1>7
  <2>2. more[Len(s) + 1].player = agent.player /\ Knows(more[Len(s) + 1], room2)
    BY <1>2, <1>3, <2>1 DEF Follows, ComesToKnow
  <2>3. longer[n + (Len(s) + 1)] = more[Len(s) + 1] /\ Len(q) + 1 = n + (Len(s) + 1)
    BY <1>1, <1>5, <2>1
  <2> QED
    BY <2>2, <2>3
<1>10. ASSUME steady PROVE NeverGivesUp(longer, q)
  <2> SUFFICES ASSUME NEW k \in 1..Len(q), AcceptsUpTo(longer, q, k - 1)
               PROVE  Valid(longer[k], q[k]) /\ Fits(longer[k], q[k])
    BY DEF NeverGivesUp
  <2>1. CASE k <= n
    <3>1. k - 1 \in 0..n /\ k \in 1..n /\ k \in 1..(n + 1)
      BY <1>1, <2>1
    <3>2. Valid(run[k], queue[k]) /\ Fits(run[k], queue[k])
      BY <1>2, <1>6, <1>10, <3>1
    <3> QED
      BY <1>1, <1>4, <3>1, <3>2
  <2>2. CASE k > n
    <3>1. PICK j \in 1..Len(s) : k = n + j /\ k - 1 = n + (j - 1) /\ j - 1 \in 0..Len(s)
                                 /\ j \in 1..(Len(s) + 1)
      <4>1. LET j == k - n IN /\ j \in 1..Len(s) /\ k = n + j /\ k - 1 = n + (j - 1)
                              /\ j - 1 \in 0..Len(s) /\ j \in 1..(Len(s) + 1)
        BY <1>1, <2>2
      <4> QED
        BY <4>1
    <3>2. AcceptsUpTo(run, queue, n) /\ AcceptsUpTo(more, s, j - 1)
      BY <1>7, <3>1
    <3>3. Valid(more[j], s[j]) /\ Fits(more[j], s[j])
      BY <1>3, <3>2 DEF Follows, NeverGivesUp
    <3> QED
      BY <1>1, <1>5, <3>1, <3>2, <3>3
  <2> QED
    BY <1>1, <2>1, <2>2
<1> QED
  BY <1>8, <1>9, <1>10 DEF Follows, q

----------------------------------------------------------------------------
(* What a step of the room says to everybody, and to a player of it. *)

TellsAll(room, s, room2) ==
  /\ \A roster \in Roster : OfRoom(roster, room) => OfRoom(roster, room2)
  /\ \A k \in DOMAIN s : UpdateOfRoom(s[k], room2)
  /\ room2.started = FALSE => TellsOfEmptyRoom(s) \/ (room.started = FALSE /\ NoGameIn(s))

FitsWhoKnows(p, room, s, room2) ==
  \A a : a.player = p /\ Knows(a, room) => \E more : Follows(more, a, s, room2, TRUE)

TellsPlayer(p, room, s, room2) ==
  /\ p \in room2.here /\ room2.session[p] = room.session[p]
  /\ \A u \in Updates : UpdateOfGame(u, room) => UpdateOfGame(u, room2)
  /\ \A a \in Agent : AgentOfGame(a, room) => AgentOfGame(a, room2)
  /\ \A k \in DOMAIN s : UpdateOfGame(s[k], room2)
  /\ FitsWhoKnows(p, room, s, room2)

LEMMA RosterOfUpdate == ASSUME NEW u \in Updates, HasRoster(u) PROVE u.roster \in Roster
  BY DEF Updates, HasRoster

LEMMA UpdateGoesOn ==
  ASSUME NEW room, NEW s, NEW room2, TellsAll(room, s, room2),
         NEW u \in Updates, UpdateOfRoom(u, room)
  PROVE  UpdateOfRoom(u, room2)
  BY RosterOfUpdate DEF TellsAll, UpdateOfRoom

LEMMA QueueGoesOn ==
  ASSUME NEW room, NEW s \in Seq(Updates), NEW room2, TellsAll(room, s, room2),
         NEW queue \in Seq(Updates), \A k \in DOMAIN queue : UpdateOfRoom(queue[k], room)
  PROVE  \A k \in DOMAIN (queue \o s) : UpdateOfRoom((queue \o s)[k], room2)
<1> SUFFICES ASSUME NEW k \in DOMAIN (queue \o s) PROVE UpdateOfRoom((queue \o s)[k], room2)
  OBVIOUS
<1>1. CASE k \in DOMAIN queue /\ (queue \o s)[k] = queue[k]
  <2>1. queue[k] \in Updates
    BY <1>1
  <2> QED
    BY <1>1, <2>1, UpdateGoesOn
<1>2. CASE k - Len(queue) \in DOMAIN s /\ (queue \o s)[k] = s[k - Len(queue)]
  BY <1>2 DEF TellsAll
<1> QED
  BY <1>1, <1>2, ConcatFacts

LEMMA WaitsGoesOn ==
  ASSUME NEW room, NEW s \in Seq(Updates), NEW room2, TellsAll(room, s, room2),
         NEW queue \in Seq(Updates), WaitsFor(queue, room)
  PROVE  WaitsFor(queue \o s, room2)
<1> SUFFICES ASSUME room2.started = FALSE
             PROVE  TellsOfEmptyRoom(queue \o s) \/ NoGameIn(queue \o s)
  BY DEF WaitsFor
<1>1. CASE TellsOfEmptyRoom(s)
  <2>1. PICK k \in DOMAIN s : s[k].type = "PlayerLeft" /\ s[k].roster.players = {}
    BY <1>1 DEF TellsOfEmptyRoom
  <2>2. Len(queue) + k \in DOMAIN (queue \o s) /\ (queue \o s)[Len(queue) + k] = s[k]
    BY ConcatFacts
  <2> QED
    BY <2>1, <2>2 DEF TellsOfEmptyRoom
<1>2. CASE room.started = FALSE /\ NoGameIn(s) /\ TellsOfEmptyRoom(queue)
  <2>1. PICK k \in DOMAIN queue : queue[k].type = "PlayerLeft" /\ queue[k].roster.players = {}
    BY <1>2 DEF TellsOfEmptyRoom
  <2>2. k \in DOMAIN (queue \o s) /\ (queue \o s)[k] = queue[k]
    BY ConcatFacts
  <2> QED
    BY <2>1, <2>2 DEF TellsOfEmptyRoom
<1>3. CASE room.started = FALSE /\ NoGameIn(s) /\ NoGameIn(queue)
  BY <1>3, ConcatFacts DEF NoGameIn
<1> QED
  BY <1>1, <1>2, <1>3 DEF TellsAll, WaitsFor

LEMMA LinkGoesOn ==
  ASSUME NEW room, NEW s \in Seq(Updates), NEW room2, TellsAll(room, s, room2),
         NEW link \in Link, LinkInv(link, room), Listens(link),
         link.stage \in {"member", "snapshot"} =>
           TellsPlayer(link.agent.player, room, s, room2)
  PROVE  LinkInv(Received(link, s), room2)
<1> DEFINE new == Received(link, s)
<1>1. /\ new.stage = link.stage /\ new.session = link.session /\ new.queue = link.queue \o s
      /\ new.lagged = link.lagged /\ new.agent = link.agent /\ new.cause = link.cause
      /\ new.early = link.early /\ new.recovered = link.recovered
  BY ReceivedShape
<1>2. link.queue \in Seq(Updates) /\ link.agent \in Agent
  BY DEF Link
<1> HIDE DEF new
<1>3. new.stage \in {"asking", "member", "snapshot"}
  BY <1>1 DEF Listens
<1>4. \A k \in DOMAIN new.queue : UpdateOfRoom(new.queue[k], room2)
  BY <1>1, <1>2, QueueGoesOn DEF LinkInv
<1>5. ASSUME new.stage = "asking", new.lagged = FALSE PROVE WaitsFor(new.queue, room2)
  <2>1. WaitsFor(link.queue, room)
    BY <1>1, <1>5 DEF LinkInv
  <2> QED
    BY <1>1, <1>2, <2>1, WaitsGoesOn
<1>6. ASSUME new.stage \in {"member", "snapshot"} PROVE Seated(new, room2)
  BY <1>1, <1>6 DEF LinkInv, Seated, TellsPlayer
<1>7. ASSUME new.stage \in {"member", "snapshot"}, new.early = FALSE
      PROVE  /\ AgentOfGame(new.agent, room2)
             /\ \A k \in DOMAIN new.queue : UpdateOfGame(new.queue[k], room2)
  <2>1. TellsPlayer(link.agent.player, room, s, room2) /\ AgentOfGame(link.agent, room)
        /\ \A k \in DOMAIN link.queue : UpdateOfGame(link.queue[k], room)
    BY <1>1, <1>7 DEF LinkInv
  <2>2. AgentOfGame(new.agent, room2)
    BY <1>1, <1>2, <2>1 DEF TellsPlayer
  <2>3. ASSUME NEW k \in DOMAIN new.queue PROVE UpdateOfGame(new.queue[k], room2)
    <3>1. CASE k \in DOMAIN link.queue /\ new.queue[k] = link.queue[k]
      <4>1. link.queue[k] \in Updates
        BY <1>2, <3>1
      <4> QED
        BY <2>1, <3>1, <4>1 DEF TellsPlayer
    <3>2. CASE k - Len(link.queue) \in DOMAIN s /\ new.queue[k] = s[k - Len(link.queue)]
      BY <2>1, <3>2 DEF TellsPlayer
    <3> QED
      BY <1>1, <1>2, <2>3, <3>1, <3>2, ConcatFacts
  <2> QED
    BY <2>2, <2>3
<1>8. ASSUME new.stage = "member", new.lagged = FALSE,
             new.early = FALSE \/ new.recovered = FALSE
      PROVE  UpToDate(new, room2)
  <2>1. FitsWhoKnows(link.agent.player, room, s, room2) /\ UpToDate(link, room)
    BY <1>1, <1>8 DEF LinkInv, TellsPlayer
  <2>2. Steady(link) \in BOOLEAN /\ Steady(new) = Steady(link)
    BY <1>1 DEF Steady
  <2>3. ASSUME NEW run, Follows(run, link.agent, link.queue, room, Steady(link))
        PROVE  \E longer : Follows(longer, link.agent, link.queue \o s, room2, Steady(link))
    <3>1. \A a : a.player = link.agent.player /\ Knows(a, room) =>
            \E more : Follows(more, a, s, room2, TRUE)
      BY <2>1 DEF FitsWhoKnows
    <3> DEFINE steady == Steady(link)
    <3>2. steady \in BOOLEAN /\ Follows(run, link.agent, link.queue, room, steady)
      BY <2>2, <2>3
    <3> HIDE DEF steady
    <3>3. \E longer : Follows(longer, link.agent, link.queue \o s, room2, steady)
      BY <1>2, <3>1, <3>2, RunGoesOn
    <3> QED
      BY <3>3 DEF steady
  <2>4. ASSUME TellsOfEmptyRoom(link.queue) PROVE TellsOfEmptyRoom(link.queue \o s)
    <3>1. PICK k \in DOMAIN link.queue :
            link.queue[k].type = "PlayerLeft" /\ link.queue[k].roster.players = {}
      BY <2>4 DEF TellsOfEmptyRoom
    <3>2. k \in DOMAIN (link.queue \o s) /\ (link.queue \o s)[k] = link.queue[k]
      BY <1>2, ConcatFacts
    <3> QED
      BY <3>1, <3>2 DEF TellsOfEmptyRoom
  <2> QED
    BY <1>1, <2>1, <2>2, <2>3, <2>4 DEF UpToDate
<1>9. /\ new.stage = "asking" =>
           new.recovered = FALSE /\ new.session = 0 /\ new.cause = "none"
      /\ new.cause = "gave up" => new.early = TRUE \/ new.recovered = TRUE
  BY <1>1 DEF LinkInv
<1> QED
  BY <1>3, <1>4, <1>5, <1>6, <1>7, <1>8, <1>9 DEF LinkInv, new

(* What is said in two parts is said in one. *)
LEMMA ReceivedTwice ==
  ASSUME NEW link \in Link, NEW s \in Seq(Updates), NEW t \in Seq(Updates)
  PROVE  Received(Received(link, s), t) = Received(link, s \o t)
<1>1. (link.queue \o s) \o t = link.queue \o (s \o t)
  <2>1. link.queue \in Seq(Updates)
    BY DEF Link
  <2>2. \A q \in Seq(Updates) : (q \o s) \o t = q \o (s \o t)
    <3> SUFFICES ASSUME NEW q \in Seq(Updates) PROVE (q \o s) \o t = q \o (s \o t)
      OBVIOUS
    <3> DEFINE S == Updates
    <3>1. q \in Seq(S) /\ s \in Seq(S) /\ t \in Seq(S)
      OBVIOUS
    <3> HIDE DEF S
    <3> QED
      BY <3>1, ConcatAssociative
  <2> QED
    BY <2>1, <2>2
<1> QED
  BY <1>1, ReceivedShape, ConcatFacts DEF Received, Link

----------------------------------------------------------------------------
(* What the channel keeps. *)

Trimmed(link) ==
  [link EXCEPT !.queue = Newest(@), !.lagged = @ \/ Len(link.queue) > Capacity]

LEMMA NewestFacts ==
  ASSUME NEW queue \in Seq(Updates)
  PROVE  /\ Newest(queue) \in Seq(Updates) /\ Len(Newest(queue)) <= Capacity
         /\ Len(queue) <= Capacity => Newest(queue) = queue
         /\ \A k \in DOMAIN Newest(queue) : \E j \in DOMAIN queue : Newest(queue)[k] = queue[j]
<1> DEFINE n == Len(queue)
           m == IF n > Capacity THEN n - Capacity + 1 ELSE 1
<1>1. n \in Nat /\ Capacity \in Nat \ {0}
  BY DeliveryAssumption DEF DeliveryAssumption
<1>2. Newest(queue) = SubSeq(queue, m, n)
  BY DEF Newest
<1>3. m \in 1..(n + 1) /\ n - m + 1 <= Capacity /\ (n <= Capacity => m = 1) /\ m \in Nat
      /\ n - m + 1 \in Nat
  BY <1>1
<1> HIDE DEF m
<1>4. SubSeq(queue, m, n) = [i \in 1..(n - m + 1) |-> queue[i + m - 1]]
  BY <1>1, <1>3
<1>5. \A i \in 1..(n - m + 1) : i + m - 1 \in 1..n
  BY <1>1, <1>3
<1>6. Newest(queue) \in Seq(Updates) /\ Len(Newest(queue)) = n - m + 1
      /\ DOMAIN Newest(queue) = 1..(n - m + 1)
      /\ \A i \in 1..(n - m + 1) : Newest(queue)[i] = queue[i + m - 1]
  BY <1>1, <1>2, <1>3, <1>4, <1>5
<1>7. n <= Capacity => Newest(queue) = queue
  BY <1>1, <1>2, <1>3, <1>4
<1> QED
  BY <1>1, <1>3, <1>5, <1>6, <1>7

LEMMA TrimmedShape ==
  ASSUME NEW link \in Link
  PROVE  /\ Trimmed(link) \in Link
         /\ Trimmed(link).stage = link.stage /\ Trimmed(link).session = link.session
         /\ Trimmed(link).queue = Newest(link.queue) /\ Trimmed(link).agent = link.agent
         /\ Trimmed(link).lagged = FALSE => link.lagged = FALSE /\ Len(link.queue) <= Capacity
         /\ Trimmed(link).cause = link.cause /\ Trimmed(link).early = link.early
         /\ Trimmed(link).recovered = link.recovered
<1> DEFINE lagged == link.lagged \/ Len(link.queue) > Capacity
<1>1. lagged \in BOOLEAN /\ Newest(link.queue) \in Seq(Updates) /\ link.queue \in Seq(Updates)
  BY NewestFacts DEF Link
<1>2. lagged = FALSE => link.lagged = FALSE /\ Len(link.queue) <= Capacity
  BY DeliveryAssumption, <1>1 DEF Link, DeliveryAssumption
<1>3. Trimmed(link) = [link EXCEPT !.queue = Newest(link.queue), !.lagged = lagged]
  BY DEF Trimmed, Link
<1> HIDE DEF lagged
<1> QED
  BY <1>1, <1>2, <1>3 DEF Link

LEMMA TrimmedKeeps ==
  ASSUME NEW room, NEW link \in Link, LinkInv(link, room), Listens(link)
  PROVE  LinkInv(Trimmed(link), room) /\ Len(Trimmed(link).queue) <= Capacity
<1> DEFINE new == Trimmed(link)
<1>1. /\ new.stage = link.stage /\ new.session = link.session
      /\ new.queue = Newest(link.queue) /\ new.agent = link.agent /\ new.cause = link.cause
      /\ new.early = link.early /\ new.recovered = link.recovered
      /\ new.lagged = FALSE => link.lagged = FALSE /\ Len(link.queue) <= Capacity
  BY TrimmedShape
<1> HIDE DEF new
<1>2. /\ link.queue \in Seq(Updates) /\ Len(new.queue) <= Capacity
      /\ new.lagged = FALSE => new.queue = link.queue
      /\ \A k \in DOMAIN new.queue : \E j \in DOMAIN link.queue : new.queue[k] = link.queue[j]
  BY <1>1, NewestFacts DEF Link
<1>3. /\ new.stage = "asking" =>
           new.recovered = FALSE /\ new.session = 0 /\ new.cause = "none"
      /\ new.stage # "closed"
      /\ new.cause = "gave up" => new.early = TRUE \/ new.recovered = TRUE
  BY <1>1 DEF LinkInv, Listens
<1>4. \A k \in DOMAIN new.queue : UpdateOfRoom(new.queue[k], room)
  BY <1>2 DEF LinkInv
<1>5. new.stage = "asking" /\ new.lagged = FALSE => WaitsFor(new.queue, room)
  BY <1>1, <1>2 DEF LinkInv
<1>6. new.stage \in {"member", "snapshot"} => Seated(new, room)
  BY <1>1 DEF LinkInv, Seated
<1>7. new.stage \in {"member", "snapshot"} /\ new.early = FALSE =>
        /\ AgentOfGame(new.agent, room)
        /\ \A k \in DOMAIN new.queue : UpdateOfGame(new.queue[k], room)
  BY <1>1, <1>2 DEF LinkInv
<1>8. ASSUME new.stage = "member", new.lagged = FALSE,
             new.early = FALSE \/ new.recovered = FALSE
      PROVE  UpToDate(new, room)
  <2>1. UpToDate(link, room) /\ new.queue = link.queue
    BY <1>1, <1>2, <1>8 DEF LinkInv
  <2>2. Steady(new) = Steady(link)
    BY <1>1 DEF Steady
  <2> QED
    BY <1>1, <2>1, <2>2 DEF UpToDate
<1> QED
  BY <1>2, <1>3, <1>4, <1>5, <1>6, <1>7, <1>8 DEF LinkInv, new

----------------------------------------------------------------------------
(* What an agent does with each update. *)

LEMMA ReadsCountdown ==
  ASSUME NEW a, NEW u, u.type \in {"Countdown", "CountdownCancelled"}
  PROVE  Valid(a, u) /\ Fits(a, u) /\ Follow(a, u) = a /\ ~EndsSession(u) /\ ~HasRoster(u)
         /\ ~GameUpdate(u)
  BY DEF Valid, Fits, Follow, EndsSession, HasRoster, GameUpdate

LEMMA ReadsRoster ==
  ASSUME NEW a \in Agent, NEW u, u.type = "Roster", u.roster \in Roster
  PROVE  /\ Valid(a, u) /\ ~EndsSession(u) /\ ~GameUpdate(u)
         /\ Fits(a, u) <=>
              (u.roster.revision > a.roster.revision => a.player \in u.roster.players)
         /\ u.roster.revision > a.roster.revision => Follow(a, u) = [a EXCEPT !.roster = u.roster]
         /\ u.roster.revision <= a.roster.revision => Follow(a, u) = a
  BY DEF Valid, Fits, Follow, EndsSession, GameUpdate, IsNewer, Agent, Roster

LEMMA ReadsChat ==
  ASSUME NEW a, NEW u, u.type = "Chat"
  PROVE  /\ Valid(a, u) /\ ~EndsSession(u) /\ ~HasRoster(u) /\ ~GameUpdate(u)
         /\ Fits(a, u) <=> u.player \in a.roster.players
         /\ Follow(a, u) = a
  BY DEF Valid, Fits, Follow, EndsSession, HasRoster, GameUpdate

LEMMA ReadsStart ==
  ASSUME NEW a, NEW u, u.type = "Start"
  PROVE  /\ Valid(a, u) /\ Fits(a, u) /\ ~EndsSession(u) /\ ~HasRoster(u)
         /\ Follow(a, u) = [a EXCEPT !.started = TRUE]
  BY DEF Valid, Fits, Follow, EndsSession, HasRoster

LEMMA ReadsLoaded ==
  ASSUME NEW a, NEW u, u.type = "PlayerLoaded"
  PROVE  /\ Valid(a, u) /\ ~EndsSession(u) /\ ~HasRoster(u)
         /\ a.started = TRUE /\ u.player \in a.roster.players => Fits(a, u)
         /\ Fits(a, u) => u.player \in a.roster.players
         /\ Follow(a, u) = [a EXCEPT !.loaded = @ \cup {u.player}]
  BY DEF Valid, Fits, Follow, EndsSession, HasRoster

LEMMA ReadsLeft ==
  ASSUME NEW a, NEW u, u.type = "PlayerLeft"
  PROVE  /\ ~EndsSession(u) /\ HasRoster(u)
         /\ Valid(a, u) <=> /\ u.player # a.player /\ u.player \notin u.roster.players
                            /\ a.player \in u.roster.players
         /\ a.started = TRUE /\ u.player \in a.roster.players
              /\ u.roster.revision > a.roster.revision => Fits(a, u)
         /\ Fits(a, u) => u.roster.revision > a.roster.revision
         /\ Follow(a, u) = [a EXCEPT !.loaded = @ \ {u.player}, !.roster = u.roster]
  BY DEF Valid, Fits, Follow, EndsSession, HasRoster, IsNewer

LEMMA ReadsFrame ==
  ASSUME NEW a, NEW u, u.type = "GameFrame"
  PROVE  /\ ~EndsSession(u) /\ ~HasRoster(u)
         /\ Valid(a, u) <=> u.sequence = a.frame + 1
         /\ a.started = TRUE => Fits(a, u)
         /\ Follow(a, u) = [a EXCEPT !.frame = u.sequence]
  BY DEF Valid, Fits, Follow, EndsSession, HasRoster

LEMMA ReadsEnded ==
  ASSUME NEW a, NEW u, u.type = "GameEnded"
  PROVE  /\ Valid(a, u) /\ EndsSession(u) /\ ~HasRoster(u)
         /\ a.started = TRUE => Fits(a, u)
  BY DEF Valid, Fits, Follow, EndsSession, HasRoster

LEMMA OneUpdateFits ==
  ASSUME NEW a, NEW u, NEW room, Valid(a, u), Fits(a, u),
         ~EndsSession(u) => Follow(a, u).player = a.player /\ Knows(Follow(a, u), room)
  PROVE  \E more : Follows(more, a, <<u>>, room, TRUE)
<1> DEFINE more == <<a, Follow(a, u)>>
<1>1. more[1] = a /\ more[2] = Follow(a, u) /\ <<u>>[1] = u /\ Len(<<u>>) = 1
  OBVIOUS
<1> HIDE DEF more
<1>2. \A k \in 1..1 : k = 1 /\ k + 1 = 2
  OBVIOUS
<1>3. Reads(more, a, <<u>>)
  BY <1>1, <1>2 DEF Reads
<1>4. NeverGivesUp(more, <<u>>)
  BY <1>1, <1>2 DEF NeverGivesUp
<1>5. AcceptsUpTo(more, <<u>>, 1) => ~EndsSession(u)
  BY <1>1 DEF AcceptsUpTo, Accepts
<1>6. ComesToKnow(more, a, <<u>>, room)
  BY <1>1, <1>5 DEF ComesToKnow
<1> QED
  BY <1>3, <1>4, <1>6 DEF Follows

Quiet(s) == \A k \in DOMAIN s : s[k].type \in {"Countdown", "CountdownCancelled"}

LEMMA QuietFits ==
  ASSUME NEW a, NEW s \in Seq(Updates), Quiet(s), NEW room, Knows(a, room)
  PROVE  \E more : Follows(more, a, s, room, TRUE)
<1> DEFINE more == [i \in 1..(Len(s) + 1) |-> a]
<1>1. (\A k \in 1..Len(s) : more[k] = a /\ more[k + 1] = a) /\ more[1] = a
      /\ more[Len(s) + 1] = a
  OBVIOUS
<1> HIDE DEF more
<1>2. \A k \in 1..Len(s) : Valid(a, s[k]) /\ Fits(a, s[k]) /\ Follow(a, s[k]) = a
  BY ReadsCountdown DEF Quiet
<1> QED
  BY <1>1, <1>2 DEF Follows, Reads, NeverGivesUp, ComesToKnow

----------------------------------------------------------------------------
(* The steps of the room. *)

RosterStays(room, room2) ==
  room2.revision = room.revision /\ room2.here = room.here /\ room2.session = room.session

PhaseStays(room, room2) ==
  /\ room2.started = room.started /\ room2.ended = room.ended
  /\ room2.active = room.active /\ room2.sequence = room.sequence

(* The players' last one has loaded, or not yet. *)
MayBegin(room, room2) ==
  /\ room2.started = room.started /\ room2.ended = room.ended
  /\ \/ /\ room2.active = room.active
        /\ room.active = TRUE => room2.sequence = room.sequence
     \/ /\ room.active = FALSE /\ room.ended = FALSE /\ room.started = TRUE
        /\ room2.active = TRUE /\ room2.sequence = 0

IdlePlayer(p, room) == \A u \in room.unsent : u.session # room.session[p]

TellsOthers(gone, room, s, room2) ==
  /\ RoomInv(room2) /\ TellsAll(room, s, room2)
  /\ \A p \in room.here \ gone : TellsPlayer(p, room, s, room2)

LEMMA QuietTells ==
  ASSUME NEW room, RoomInv(room), NEW s \in Seq(Updates), Quiet(s)
  PROVE  TellsOthers({}, room, s, room)
<1>1. TellsAll(room, s, room)
  <2>1. \A k \in DOMAIN s : ~HasRoster(s[k]) /\ ~GameUpdate(s[k])
    BY DEF Quiet, HasRoster, GameUpdate
  <2> QED
    BY <2>1 DEF TellsAll, UpdateOfRoom, NoGameIn
<1>2. \A k \in DOMAIN s : UpdateOfGame(s[k], room)
  BY DEF UpdateOfGame, Quiet
<1>3. \A p : FitsWhoKnows(p, room, s, room)
  BY QuietFits DEF FitsWhoKnows
<1> QED
  BY <1>1, <1>2, <1>3 DEF TellsOthers, TellsPlayer

(* join: the newcomer's roster is still to be sent. *)
Joins(p, room, room2) ==
  /\ p \notin room.here /\ room.started = FALSE
  /\ room2.revision = room.revision + 1 /\ room2.here = room.here \cup {p}
  /\ \A q \in room.here : /\ room2.session[q] = room.session[q]
                          /\ room2.session[p] # room.session[q]
  /\ room2.loaded = room.loaded
  /\ room2.unsent = room.unsent \cup
       {[session |-> room2.session[p],
         update |-> [type |-> "Roster",
                     roster |-> [revision |-> room2.revision, players |-> room2.here]]]}
  /\ PhaseStays(room, room2)

LEMMA JoinsKeep ==
  ASSUME NEW room, NEW room2, NEW p, RoomInv(room), RoomTyped(room), Joins(p, room, room2)
  PROVE  RoomInv(room2)
<1> DEFINE v == [session |-> room2.session[p],
                 update |-> [type |-> "Roster",
                             roster |-> [revision |-> room2.revision, players |-> room2.here]]]
<1>1. v.session = room2.session[p] /\ v.update.type = "Roster"
      /\ v.update.roster.revision = room2.revision /\ v.update.roster.players = room2.here
  OBVIOUS
<1>2. room2.unsent = room.unsent \cup {v}
  BY DEF Joins
<1> HIDE DEF v
<1>3. room.revision \in Nat /\ room2.revision = room.revision + 1
  BY DEF RoomTyped, Joins
<1>4. /\ room2.active = TRUE => room2.started = TRUE /\ room2.ended = FALSE
      /\ room2.ended = TRUE => room2.started = TRUE
      /\ room2.started = FALSE => room2.loaded = {}
      /\ room2.loaded \subseteq room2.here
  BY DEF RoomInv, Joins, PhaseStays
<1>5. \A q, r \in room2.here : room2.session[q] = room2.session[r] => q = r
  BY DEF RoomInv, Joins
<1>6. \A u \in room.unsent : u.session # room2.session[p]
  BY DEF RoomInv, Joins
<1>7. \A u, w \in room2.unsent : u.session = w.session => u = w
  BY <1>1, <1>2, <1>6 DEF RoomInv
<1>8. ASSUME NEW u \in room2.unsent
      PROVE  /\ u.update.type \in {"Roster", "Chat"}
             /\ UpdateOfRoom(u.update, room2)
             /\ \E q \in room2.here : /\ room2.session[q] = u.session
                                      /\ u.update.type = "Chat" => u.update.player = q
  <2>1. CASE u = v
    BY <1>1, <1>3, <2>1 DEF UpdateOfRoom, OfRoom, Joins
  <2>2. CASE u \in room.unsent
    <3>1. u.update.type \in {"Roster", "Chat"} /\ UpdateOfRoom(u.update, room)
      BY <2>2 DEF RoomInv
    <3>2. UpdateOfRoom(u.update, room2)
      <4>1. u.update.type = "Roster" => u.update.roster \in Roster
        BY <2>2, RosterOfUpdate DEF RoomTyped, HasRoster
      <4>2. u.update.type = "Roster" => u.update.roster.revision \in Nat
        BY <4>1 DEF Roster
      <4> QED
        BY <1>3, <3>1, <4>2 DEF UpdateOfRoom, OfRoom, HasRoster
    <3>3. \E q \in room.here : /\ room.session[q] = u.session
                               /\ u.update.type = "Chat" => u.update.player = q
      BY <2>2 DEF RoomInv
    <3> QED
      BY <3>1, <3>2, <3>3 DEF Joins
  <2> QED
    BY <1>2, <2>1, <2>2
<1> QED
  BY <1>4, <1>5, <1>7, <1>8 DEF RoomInv

LEMMA NothingSaid == <<>> \in Seq(Updates) /\ Quiet(<<>>)
  BY DEF Quiet

LEMMA AnnouncedTyped ==
  ASSUME NEW room, RoomInv(room), RoomTyped(room)
  PROVE  \A u \in Announced(room) :
           /\ u \in room.unsent /\ u.update.type = "Roster" /\ u.update.roster \in Roster
           /\ u.update.roster.revision \in Nat
           /\ u.update.roster.revision <= room.revision
           /\ u.update.roster.revision = room.revision => u.update.roster.players = room.here
<1> SUFFICES ASSUME NEW u \in Announced(room)
             PROVE  /\ u \in room.unsent /\ u.update.type = "Roster"
                    /\ u.update.roster \in Roster /\ u.update.roster.revision \in Nat
                    /\ OfRoom(u.update.roster, room)
  BY DEF OfRoom
<1>1. u \in room.unsent /\ u.update.type = "Roster" /\ HasRoster(u.update)
  BY DEF Announced, HasRoster
<1>2. u.update.roster \in Roster
  BY <1>1, RosterOfUpdate DEF RoomTyped
<1>3. OfRoom(u.update.roster, room)
  BY <1>1 DEF RoomInv, UpdateOfRoom
<1> QED
  BY <1>1, <1>2, <1>3 DEF Roster

LEMMA JoinsTell ==
  ASSUME NEW room, NEW room2, NEW p, RoomInv(room), RoomTyped(room), Joins(p, room, room2)
  PROVE  TellsOthers({}, room, <<>>, room2)
<1> DEFINE v == [session |-> room2.session[p],
                 update |-> [type |-> "Roster",
                             roster |-> [revision |-> room2.revision, players |-> room2.here]]]
<1>1. v.session = room2.session[p] /\ v.update.type = "Roster"
      /\ v.update.roster.revision = room2.revision /\ v.update.roster.players = room2.here
  OBVIOUS
<1>2. Announced(room2) = Announced(room) \cup {v}
  BY <1>1 DEF Joins, Announced
<1> HIDE DEF v
<1>3. room.revision \in Nat /\ room2.revision = room.revision + 1
      /\ room2.here = room.here \cup {p} /\ PhaseStays(room, room2)
      /\ room2.loaded = room.loaded /\ room.loaded = {} /\ room.started = FALSE
  BY DEF RoomTyped, Joins, RoomInv
<1>4. \A u \in Announced(room) : u.update.roster.revision \in Nat
                                 /\ u.update.roster.revision <= room.revision
  BY AnnouncedTyped
<1>5. TellsAll(room, <<>>, room2)
  <2>1. \A roster \in Roster : OfRoom(roster, room) => OfRoom(roster, room2)
    BY <1>3 DEF OfRoom, Roster
  <2> QED
    BY <1>3, <2>1 DEF TellsAll, NoGameIn
<1>6. ASSUME NEW q \in room.here, NEW a, a.player = q, Knows(a, room)
      PROVE  Knows(a, room2)
  <2>1. a \in Agent /\ a.roster.revision \in Nat /\ KnowsRoster(a, room) /\ KnowsGame(a, room)
    BY <1>6 DEF Knows, Agent, Roster
  <2>2. a.roster.revision <= room.revision
    BY <2>1 DEF KnowsRoster, OfRoom
  <2>3. OfRoom(a.roster, room2) /\ LatestComes(a.roster, room2)
    BY <1>1, <1>2, <1>3, <2>1, <2>2 DEF OfRoom, LatestComes
  <2>4. ASSUME NEW r \in room.here, NEW rev, StaysIn(r, rev, a.roster, room)
        PROVE  StaysIn(r, rev, a.roster, room2)
    BY <1>1, <1>2, <1>3, <2>4 DEF StaysIn
  <2>5. \A r \in room.here : HearsOf(r, a.roster, room2)
    <3> SUFFICES ASSUME NEW r \in room.here PROVE HearsOf(r, a.roster, room2)
      OBVIOUS
    <3>1. HearsOf(r, a.roster, room) /\ room2.session[r] = room.session[r]
      BY <2>1 DEF KnowsRoster, Joins
    <3> QED
      BY <1>2, <2>4, <3>1 DEF HearsOf
  <2>6. HearsOf(p, a.roster, room2)
    <3>1. StaysIn(p, room2.revision, a.roster, room2)
      BY <1>1, <1>2, <1>3, <1>4, <2>1, <2>2 DEF StaysIn
    <3> QED
      BY <1>1, <1>2, <3>1 DEF HearsOf
  <2>7. KnowsRoster(a, room2)
    BY <1>3, <1>6, <2>1, <2>3, <2>4, <2>5, <2>6 DEF KnowsRoster
  <2>8. KnowsGame(a, room2)
    BY <1>3, <2>1 DEF KnowsGame, PhaseStays
  <2> QED
    BY <2>1, <2>7, <2>8 DEF Knows
<1>7. ASSUME NEW q \in room.here PROVE TellsPlayer(q, room, <<>>, room2)
  <2>1. q \in room2.here /\ room2.session[q] = room.session[q]
    BY <1>3 DEF Joins
  <2>2. \A u \in Updates : UpdateOfGame(u, room) => UpdateOfGame(u, room2)
    BY <1>3 DEF UpdateOfGame, PhaseStays
  <2>3. \A a \in Agent : AgentOfGame(a, room) => AgentOfGame(a, room2)
    BY <1>3 DEF AgentOfGame, PhaseStays, OfRoom, Agent, Roster
  <2>4. FitsWhoKnows(q, room, <<>>, room2)
    BY <1>6, <1>7, QuietFits, NothingSaid DEF FitsWhoKnows
  <2> QED
    BY <2>1, <2>2, <2>3, <2>4 DEF TellsPlayer
<1> QED
  BY <1>5, <1>7, JoinsKeep DEF TellsOthers

(* publish_chat: the message is still to be sent. *)
Chats(p, message, room, room2) ==
  /\ p \in room.here /\ IdlePlayer(p, room)
  /\ room2.unsent = room.unsent \cup
       {[session |-> room.session[p],
         update |-> [type |-> "Chat", player |-> p, message |-> message]]}
  /\ RosterStays(room, room2) /\ PhaseStays(room, room2) /\ room2.loaded = room.loaded

(* A step that changes nothing an agent knows. *)
LEMMA SameRostersKnown ==
  ASSUME NEW room, NEW room2, RosterStays(room, room2), Announced(room2) = Announced(room),
         NEW a, KnowsRoster(a, room)
  PROVE  KnowsRoster(a, room2)
  BY DEF RosterStays, KnowsRoster, OfRoom, LatestComes, StaysIn, HearsOf

LEMMA ChatsTell ==
  ASSUME NEW room, NEW room2, NEW p, NEW message, RoomInv(room),
         Chats(p, message, room, room2)
  PROVE  TellsOthers({}, room, <<>>, room2)
<1> DEFINE v == [session |-> room.session[p],
                 update |-> [type |-> "Chat", player |-> p, message |-> message]]
<1>1. v.session = room.session[p] /\ v.update.type = "Chat" /\ v.update.player = p
  OBVIOUS
<1>2. room2.unsent = room.unsent \cup {v}
  BY DEF Chats
<1> HIDE DEF v
<1>3. /\ RosterStays(room, room2) /\ PhaseStays(room, room2) /\ room2.loaded = room.loaded
      /\ p \in room.here /\ \A u \in room.unsent : u.session # v.session
  BY <1>1 DEF Chats, IdlePlayer
<1>4. RoomInv(room2)
  <2>1. ASSUME NEW u \in room2.unsent
        PROVE  /\ u.update.type \in {"Roster", "Chat"}
               /\ UpdateOfRoom(u.update, room2)
               /\ \E q \in room2.here : /\ room2.session[q] = u.session
                                        /\ u.update.type = "Chat" => u.update.player = q
    <3>1. CASE u = v
      BY <1>1, <1>3, <3>1 DEF RosterStays, UpdateOfRoom, HasRoster
    <3>2. CASE u \in room.unsent
      BY <1>3, <3>2 DEF RoomInv, RosterStays, UpdateOfRoom, OfRoom
    <3> QED
      BY <1>2, <3>1, <3>2
  <2>2. \A u, w \in room2.unsent : u.session = w.session => u = w
    BY <1>2, <1>3 DEF RoomInv
  <2> QED
    BY <1>3, <2>1, <2>2 DEF RoomInv, RosterStays, PhaseStays
<1>5. Announced(room2) = Announced(room)
  BY <1>1, <1>2 DEF Announced
<1>6. TellsAll(room, <<>>, room2)
  BY <1>3 DEF TellsAll, NoGameIn, OfRoom, RosterStays, PhaseStays
<1>7. ASSUME NEW a, Knows(a, room) PROVE Knows(a, room2)
  <2>1. KnowsGame(a, room2)
    BY <1>3, <1>7 DEF Knows, KnowsGame, RosterStays, PhaseStays
  <2> QED
    BY <1>3, <1>5, <1>7, <2>1, SameRostersKnown DEF Knows
<1>8. ASSUME NEW q \in room.here PROVE TellsPlayer(q, room, <<>>, room2)
  <2>1. /\ \A u \in Updates : UpdateOfGame(u, room) => UpdateOfGame(u, room2)
        /\ \A a \in Agent : AgentOfGame(a, room) => AgentOfGame(a, room2)
    BY <1>3 DEF UpdateOfGame, AgentOfGame, OfRoom, RosterStays, PhaseStays
  <2>2. FitsWhoKnows(q, room, <<>>, room2)
    BY <1>7, QuietFits, NothingSaid DEF FitsWhoKnows
  <2> QED
    BY <1>3, <1>8, <2>1, <2>2 DEF TellsPlayer, RosterStays
<1> QED
  BY <1>4, <1>6, <1>8 DEF TellsOthers

LEMMA RosterSet ==
  ASSUME NEW a \in Agent, NEW r \in Roster
  PROVE  LET b == [a EXCEPT !.roster = r]
         IN  /\ b \in Agent /\ b.player = a.player /\ b.roster = r /\ b.started = a.started
             /\ b.loaded = a.loaded /\ b.frame = a.frame
  BY DEF Agent

LEMMA StartedSet ==
  ASSUME NEW a \in Agent
  PROVE  LET b == [a EXCEPT !.started = TRUE]
         IN  /\ b \in Agent /\ b.player = a.player /\ b.roster = a.roster
             /\ b.started = TRUE /\ b.loaded = a.loaded /\ b.frame = a.frame
  BY DEF Agent

LEMMA LoadedSet ==
  ASSUME NEW a \in Agent, NEW p \in PlayerIds
  PROVE  LET b == [a EXCEPT !.loaded = @ \cup {p}]
         IN  /\ b \in Agent /\ b.player = a.player /\ b.roster = a.roster
             /\ b.started = a.started /\ b.loaded = a.loaded \cup {p}
             /\ b.frame = a.frame
  BY DEF Agent

LEMMA LeftSet ==
  ASSUME NEW a \in Agent, NEW r \in Roster, NEW p \in PlayerIds
  PROVE  LET b == [a EXCEPT !.loaded = @ \ {p}, !.roster = r]
         IN  /\ b \in Agent /\ b.player = a.player /\ b.roster = r
             /\ b.started = a.started /\ b.loaded = a.loaded \ {p} /\ b.frame = a.frame
  BY DEF Agent

LEMMA FrameSet ==
  ASSUME NEW a \in Agent, NEW n \in Nat
  PROVE  LET b == [a EXCEPT !.frame = n]
         IN  /\ b \in Agent /\ b.player = a.player /\ b.roster = a.roster
             /\ b.started = a.started /\ b.loaded = a.loaded /\ b.frame = n
  BY DEF Agent

(* join, publish_chat: what was to be sent is sent. *)
Announces(u, room, room2) ==
  /\ u \in room.unsent /\ room2.unsent = room.unsent \ {u}
  /\ RosterStays(room, room2) /\ PhaseStays(room, room2) /\ room2.loaded = room.loaded

LEMMA AnnouncedChatFits ==
  ASSUME NEW room, NEW room2, NEW u, RoomInv(room), Announces(u, room, room2),
         u.update.type = "Chat", NEW a, Knows(a, room)
  PROVE  Valid(a, u.update) /\ Fits(a, u.update) /\ Follow(a, u.update) = a
         /\ KnowsRoster(a, room2)
<1>1. KnowsRoster(a, room)
  BY DEF Knows
<1>2. PICK q \in room.here : room.session[q] = u.session /\ u.update.player = q
  BY DEF RoomInv, Announces
<1>3. \A w \in Announced(room) : w.session # u.session
  <2> SUFFICES ASSUME NEW w \in Announced(room), w.session = u.session PROVE FALSE
    OBVIOUS
  <2>1. w \in room.unsent /\ w.update.type = "Roster"
    BY DEF Announced
  <2>2. w = u
    BY <2>1 DEF RoomInv, Announces
  <2> QED
    BY <2>1, <2>2
<1>4. u.update.player \in a.roster.players
  <2>1. StaysIn(q, a.roster.revision, a.roster, room)
    BY <1>1, <1>2, <1>3 DEF KnowsRoster, HearsOf
  <2>2. a.roster.revision >= a.roster.revision
    <3>1. a.roster.revision \in Nat
      BY DEF Knows, Agent, Roster
    <3> QED
      BY <3>1
  <2> QED
    BY <1>2, <2>1, <2>2 DEF StaysIn
<1>5. Announced(room2) = Announced(room)
  BY DEF Announced, Announces
<1>6. KnowsRoster(a, room2)
  BY <1>1, <1>5, SameRostersKnown DEF Announces
<1> QED
  BY <1>4, <1>6, ReadsChat

LEMMA NewerRosterKnown ==
  ASSUME NEW room, NEW room2, NEW u, RoomInv(room), RoomTyped(room),
         Announces(u, room, room2), u \in Announced(room),
         NEW a \in Agent, KnowsRoster(a, room), u.update.roster.revision > a.roster.revision
  PROVE  /\ a.player \in u.update.roster.players
         /\ KnowsRoster([a EXCEPT !.roster = u.update.roster], room2)
<1> DEFINE r == u.update.roster
           b == [a EXCEPT !.roster = r]
<1>1. /\ r \in Roster /\ r.revision \in Nat /\ r.revision <= room.revision
      /\ r.revision = room.revision => r.players = room.here
  BY AnnouncedTyped
<1>2. b.roster = r /\ b.player = a.player
  BY <1>1, RosterSet
<1>3. /\ \A w \in Announced(room) : w.update.roster.revision \in Nat
      /\ a.roster.revision \in Nat /\ a.roster.revision <= room.revision
      /\ r.revision > a.roster.revision /\ room.revision \in Nat
  BY AnnouncedTyped DEF Agent, Roster, KnowsRoster, OfRoom, RoomTyped
<1>4. /\ RosterStays(room, room2) /\ \A w : w \in Announced(room2) <=> w \in Announced(room) /\ w # u
  BY DEF Announces, Announced
<1> HIDE DEF b
<1>5. ASSUME NEW p, NEW rev \in Nat, StaysIn(p, rev, a.roster, room)
      PROVE  /\ rev <= r.revision => p \in r.players
             /\ \A rev2 \in Nat : rev2 >= rev => StaysIn(p, rev2, r, room2)
  <2>1. \A w \in Announced(room) : w.update.roster.revision >= rev => p \in w.update.roster.players
    BY <1>5 DEF StaysIn
  <2>2. rev <= r.revision => p \in r.players
    BY <1>1, <2>1
  <2>3. ASSUME NEW rev2 \in Nat, rev2 >= rev PROVE StaysIn(p, rev2, r, room2)
    <3>1. r.revision >= rev2 => p \in r.players
      BY <1>1, <2>2, <2>3
    <3>2. ASSUME NEW w \in Announced(room2), w.update.roster.revision >= rev2
          PROVE  p \in w.update.roster.players
      <4>1. w \in Announced(room) /\ w.update.roster.revision \in Nat
        BY <1>3, <1>4, <3>2
      <4>2. w.update.roster.revision >= rev
        BY <2>3, <3>2, <4>1
      <4> QED
        BY <2>1, <4>1, <4>2
    <3> QED
      BY <3>1, <3>2 DEF StaysIn
  <2> QED
    BY <2>2, <2>3
<1>6. a.player \in r.players /\ StaysIn(a.player, r.revision, r, room2)
  <2>1. StaysIn(a.player, a.roster.revision, a.roster, room)
    BY DEF KnowsRoster
  <2> QED
    BY <1>1, <1>3, <1>5, <2>1
<1>7. OfRoom(r, room2)
  BY <1>1, <1>4 DEF OfRoom, RosterStays
<1>8. LatestComes(r, room2)
  <2>1. PICK w \in Announced(room) : w.update.roster.revision = room.revision
    BY <1>1, <1>3 DEF KnowsRoster, LatestComes
  <2>2. CASE w = u
    BY <1>4, <2>1, <2>2 DEF LatestComes, RosterStays
  <2>3. CASE w # u
    BY <1>4, <2>1, <2>3 DEF LatestComes, RosterStays
  <2> QED
    BY <2>2, <2>3
<1>9. ASSUME NEW p \in room.here PROVE HearsOf(p, r, room2)
  <2>1. HearsOf(p, a.roster, room)
    BY DEF KnowsRoster
  <2>2. CASE StaysIn(p, a.roster.revision, a.roster, room)
    BY <1>1, <1>3, <1>5, <2>2 DEF HearsOf
  <2>3. ASSUME NEW w \in Announced(room), w.session = room.session[p],
               StaysIn(p, w.update.roster.revision, a.roster, room)
        PROVE  HearsOf(p, r, room2)
    <3>1. StaysIn(p, w.update.roster.revision, r, room2)
      <4>1. w.update.roster.revision \in Nat
        BY <1>3, <2>3
      <4>2. w.update.roster.revision >= w.update.roster.revision
        BY <4>1
      <4> QED
        BY <1>5, <2>3, <4>1, <4>2
    <3>2. CASE w = u
      BY <3>1, <3>2 DEF HearsOf
    <3>3. CASE w # u
      BY <1>4, <2>3, <3>1, <3>3 DEF HearsOf, RosterStays
    <3> QED
      BY <3>2, <3>3
  <2> QED
    BY <2>1, <2>2, <2>3 DEF HearsOf
<1>10. room2.here = room.here
  BY <1>4 DEF RosterStays
<1> QED
  BY <1>2, <1>6, <1>7, <1>8, <1>9, <1>10 DEF KnowsRoster, b

LEMMA OlderRosterKnown ==
  ASSUME NEW room, NEW room2, NEW u, RoomInv(room), RoomTyped(room),
         Announces(u, room, room2), u \in Announced(room),
         NEW a \in Agent, KnowsRoster(a, room), u.update.roster.revision <= a.roster.revision
  PROVE  KnowsRoster(a, room2)
<1> DEFINE r == u.update.roster
<1>1. /\ \A w \in Announced(room) : w.update.roster.revision \in Nat
      /\ a.roster.revision \in Nat /\ a.roster.revision <= room.revision
      /\ r.revision \in Nat /\ r.revision <= a.roster.revision /\ room.revision \in Nat
  BY AnnouncedTyped DEF Agent, Roster, KnowsRoster, OfRoom, RoomTyped
<1>2. /\ RosterStays(room, room2) /\ \A w : w \in Announced(room2) <=> w \in Announced(room) /\ w # u
  BY DEF Announces, Announced
<1>3. ASSUME NEW p, NEW rev \in Nat, StaysIn(p, rev, a.roster, room),
             NEW rev2 \in Nat, rev2 >= rev
      PROVE  StaysIn(p, rev2, a.roster, room2)
  <2>1. a.roster.revision >= rev2 => p \in a.roster.players
    BY <1>1, <1>3 DEF StaysIn
  <2>2. ASSUME NEW w \in Announced(room2), w.update.roster.revision >= rev2
        PROVE  p \in w.update.roster.players
    <3>1. w \in Announced(room) /\ w.update.roster.revision \in Nat
      BY <1>1, <1>2, <2>2
    <3>2. w.update.roster.revision >= rev
      BY <1>3, <2>2, <3>1
    <3> QED
      BY <1>3, <3>1, <3>2 DEF StaysIn
  <2> QED
    BY <2>1, <2>2 DEF StaysIn
<1>4. OfRoom(a.roster, room2)
  BY <1>2 DEF KnowsRoster, OfRoom, RosterStays
<1>5. LatestComes(a.roster, room2)
  <2>1. CASE a.roster.revision = room.revision
    BY <1>2, <2>1 DEF LatestComes, RosterStays
  <2>2. ASSUME NEW w \in Announced(room), w.update.roster.revision = room.revision
        PROVE  LatestComes(a.roster, room2)
    <3>1. CASE w = u
      <4>1. a.roster.revision = room.revision
        BY <1>1, <2>2, <3>1
      <4> QED
        BY <2>1, <4>1
    <3>2. CASE w # u
      BY <1>2, <2>2, <3>2 DEF LatestComes, RosterStays
    <3> QED
      BY <3>1, <3>2
  <2> QED
    BY <2>1, <2>2 DEF KnowsRoster, LatestComes
<1>6. StaysIn(a.player, a.roster.revision, a.roster, room2)
  <2>1. a.roster.revision >= a.roster.revision
    BY <1>1
  <2> QED
    BY <1>1, <1>3, <2>1 DEF KnowsRoster
<1>7. ASSUME NEW p \in room.here PROVE HearsOf(p, a.roster, room2)
  <2>1. HearsOf(p, a.roster, room)
    BY DEF KnowsRoster
  <2>2. CASE StaysIn(p, a.roster.revision, a.roster, room)
    <3>1. a.roster.revision >= a.roster.revision
      BY <1>1
    <3> QED
      BY <1>1, <1>3, <2>2, <3>1 DEF HearsOf
  <2>3. ASSUME NEW w \in Announced(room), w.session = room.session[p],
               StaysIn(p, w.update.roster.revision, a.roster, room)
        PROVE  HearsOf(p, a.roster, room2)
    <3>1. CASE w = u
      <4>1. a.roster.revision >= w.update.roster.revision /\ w.update.roster.revision \in Nat
        BY <1>1, <3>1
      <4> QED
        BY <1>1, <1>3, <2>3, <4>1 DEF HearsOf
    <3>2. CASE w # u
      <4>1. w.update.roster.revision \in Nat
            /\ w.update.roster.revision >= w.update.roster.revision
        BY <1>1, <2>3
      <4>2. StaysIn(p, w.update.roster.revision, a.roster, room2)
        BY <1>3, <2>3, <4>1
      <4> QED
        BY <1>2, <2>3, <3>2, <4>2 DEF HearsOf, RosterStays
    <3> QED
      BY <3>1, <3>2
  <2> QED
    BY <2>1, <2>2, <2>3 DEF HearsOf
<1> QED
  BY <1>2, <1>4, <1>5, <1>6, <1>7 DEF KnowsRoster, RosterStays

LEMMA AnnouncesKeep ==
  ASSUME NEW room, NEW room2, NEW u, RoomInv(room), Announces(u, room, room2)
  PROVE  RoomInv(room2)
<1>1. RosterStays(room, room2) /\ PhaseStays(room, room2) /\ room2.loaded = room.loaded
      /\ room2.unsent \subseteq room.unsent
  BY DEF Announces
<1>2. \A w \in room2.unsent : UpdateOfRoom(w.update, room) => UpdateOfRoom(w.update, room2)
  BY <1>1 DEF UpdateOfRoom, OfRoom, RosterStays
<1> QED
  BY <1>1, <1>2 DEF RoomInv, RosterStays, PhaseStays

LEMMA AnnouncesFit ==
  ASSUME NEW room, NEW room2, NEW u, RoomInv(room), RoomTyped(room),
         Announces(u, room, room2), NEW a, Knows(a, room)
  PROVE  /\ Valid(a, u.update) /\ Fits(a, u.update)
         /\ Follow(a, u.update).player = a.player /\ Knows(Follow(a, u.update), room2)
<1>1. a \in Agent /\ KnowsRoster(a, room) /\ KnowsGame(a, room)
  BY DEF Knows
<1>2. \A b : /\ b.started = a.started /\ b.loaded = a.loaded /\ b.frame = a.frame
             => KnowsGame(b, room2)
  BY <1>1 DEF KnowsGame, Announces, RosterStays, PhaseStays
<1>3. CASE u.update.type = "Chat"
  BY <1>1, <1>2, <1>3, AnnouncedChatFits DEF Knows
<1>4. CASE u.update.type = "Roster"
  <2>1. u \in Announced(room) /\ u.update.roster \in Roster
    BY <1>4, AnnouncedTyped DEF Announced, Announces
  <2>2. CASE u.update.roster.revision > a.roster.revision
    <3> DEFINE b == [a EXCEPT !.roster = u.update.roster]
    <3>1. a.player \in u.update.roster.players /\ KnowsRoster(b, room2)
      BY <1>1, <2>1, <2>2, NewerRosterKnown
    <3>2. b \in Agent /\ b.player = a.player /\ b.started = a.started /\ b.loaded = a.loaded
          /\ b.frame = a.frame
      BY <1>1, <2>1, RosterSet
    <3>3. Valid(a, u.update) /\ Fits(a, u.update) /\ Follow(a, u.update) = b
      BY <1>1, <1>4, <2>1, <2>2, <3>1, ReadsRoster
    <3> HIDE DEF b
    <3> QED
      BY <1>2, <3>1, <3>2, <3>3 DEF Knows
  <2>3. CASE ~(u.update.roster.revision > a.roster.revision)
    <3>1. u.update.roster.revision <= a.roster.revision
      BY <1>1, <2>1, <2>3 DEF Agent, Roster
    <3>2. Valid(a, u.update) /\ Fits(a, u.update) /\ Follow(a, u.update) = a
      BY <1>1, <1>4, <2>1, <2>3, <3>1, ReadsRoster
    <3> QED
      BY <1>1, <1>2, <2>1, <3>1, <3>2, OlderRosterKnown DEF Knows
  <2> QED
    BY <2>2, <2>3
<1> QED
  BY <1>3, <1>4 DEF RoomInv, Announces

LEMMA AnnouncesTell ==
  ASSUME NEW room, NEW room2, NEW u, RoomInv(room), RoomTyped(room),
         Announces(u, room, room2)
  PROVE  TellsOthers({}, room, <<u.update>>, room2)
<1> DEFINE s == <<u.update>>
<1>1. DOMAIN s = {1} /\ s[1] = u.update
  OBVIOUS
<1>2. RosterStays(room, room2) /\ PhaseStays(room, room2) /\ room2.loaded = room.loaded
  BY DEF Announces
<1>3. UpdateOfRoom(u.update, room) /\ u.update.type \in {"Roster", "Chat"}
  BY DEF RoomInv, Announces
<1> HIDE DEF s
<1>4. TellsAll(room, s, room2)
  <2>1. \A roster \in Roster : OfRoom(roster, room) => OfRoom(roster, room2)
    BY <1>2 DEF OfRoom, RosterStays
  <2>2. \A k \in DOMAIN s : UpdateOfRoom(s[k], room2)
    BY <1>1, <1>2, <1>3 DEF UpdateOfRoom, OfRoom, RosterStays
  <2>3. NoGameIn(s)
    BY <1>1, <1>3 DEF NoGameIn, GameUpdate
  <2> QED
    BY <1>2, <2>1, <2>2, <2>3 DEF TellsAll, PhaseStays
<1>5. ASSUME NEW q \in room.here PROVE TellsPlayer(q, room, s, room2)
  <2>1. /\ \A w \in Updates : UpdateOfGame(w, room) => UpdateOfGame(w, room2)
        /\ \A a \in Agent : AgentOfGame(a, room) => AgentOfGame(a, room2)
        /\ \A k \in DOMAIN s : UpdateOfGame(s[k], room2)
    BY <1>1, <1>2, <1>3 DEF UpdateOfGame, AgentOfGame, OfRoom, RosterStays, PhaseStays
  <2>2. FitsWhoKnows(q, room, s, room2)
    <3> DEFINE v == u.update
    <3>1. \A a : Knows(a, room) => /\ Valid(a, v) /\ Fits(a, v)
                                  /\ Follow(a, v).player = a.player /\ Knows(Follow(a, v), room2)
      BY AnnouncesFit
    <3>2. s = <<v>>
      BY DEF s
    <3> HIDE DEF v
    <3> QED
      BY <3>1, <3>2, OneUpdateFits DEF FitsWhoKnows
  <2> QED
    BY <1>2, <1>5, <2>1, <2>2 DEF TellsPlayer, RosterStays
<1> QED
  BY <1>4, <1>5, AnnouncesKeep DEF TellsOthers, s

(* A step that only moves the game on. *)
GameMoves(room, room2) == RosterStays(room, room2) /\ room2.unsent = room.unsent

LEMMA GameMovesKeep ==
  ASSUME NEW room, NEW room2, GameMoves(room, room2)
  PROVE  /\ \A a : KnowsRoster(a, room) => KnowsRoster(a, room2)
         /\ \A roster : OfRoom(roster, room) => OfRoom(roster, room2)
         /\ RoomInv(room)
            /\ (room2.active = TRUE => room2.started = TRUE /\ room2.ended = FALSE)
            /\ (room2.ended = TRUE => room2.started = TRUE)
            /\ (room2.started = FALSE => room2.loaded = {})
            /\ room2.loaded \subseteq room2.here
            => RoomInv(room2)
<1>1. Announced(room2) = Announced(room)
  BY DEF GameMoves, Announced
<1>2. \A roster : OfRoom(roster, room) => OfRoom(roster, room2)
  BY DEF GameMoves, OfRoom, RosterStays
<1>3. \A a : KnowsRoster(a, room) => KnowsRoster(a, room2)
  BY <1>1, SameRostersKnown DEF GameMoves
<1> QED
  BY <1>2, <1>3 DEF RoomInv, GameMoves, RosterStays, UpdateOfRoom

(* One update that is no roster and moves the game on. *)
LEMMA GameUpdateTells ==
  ASSUME NEW room, NEW room2, GameMoves(room, room2), RoomInv(room2),
         NEW u, ~HasRoster(u), UpdateOfGame(u, room2), room2.started = TRUE,
         \A w \in Updates : UpdateOfGame(w, room) => UpdateOfGame(w, room2),
         \A a \in Agent : AgentOfGame(a, room) => AgentOfGame(a, room2),
         \A a \in Agent : Knows(a, room) =>
           /\ Valid(a, u) /\ Fits(a, u)
           /\ ~EndsSession(u) => /\ Follow(a, u) \in Agent /\ Follow(a, u).player = a.player
                                 /\ Follow(a, u).roster = a.roster
                                 /\ KnowsGame(Follow(a, u), room2)
  PROVE  TellsOthers({}, room, <<u>>, room2)
<1> DEFINE s == <<u>>
<1>1. DOMAIN s = {1} /\ s[1] = u
  OBVIOUS
<1> HIDE DEF s
<1>2. TellsAll(room, s, room2)
  BY <1>1, GameMovesKeep DEF TellsAll, UpdateOfRoom
<1>3. ASSUME NEW a, Knows(a, room)
      PROVE  /\ Valid(a, u) /\ Fits(a, u)
             /\ ~EndsSession(u) => Follow(a, u).player = a.player /\ Knows(Follow(a, u), room2)
  <2>1. KnowsRoster(a, room2) /\ a \in Agent
    BY <1>3, GameMovesKeep DEF Knows
  <2>2. \A b : b.player = a.player /\ b.roster = a.roster => KnowsRoster(b, room2)
    BY <2>1 DEF KnowsRoster
  <2> QED
    BY <1>3, <2>1, <2>2 DEF Knows
<1>4. \A q \in room.here : FitsWhoKnows(q, room, s, room2)
  BY <1>3, OneUpdateFits DEF FitsWhoKnows, s
<1>5. \A q \in room.here : TellsPlayer(q, room, s, room2)
  BY <1>1, <1>4 DEF TellsPlayer, GameMoves, RosterStays
<1> QED
  BY <1>2, <1>5 DEF TellsOthers, s

(* run_countdown: the game starts. *)
Starts(room, room2) ==
  /\ GameMoves(room, room2) /\ room2.loaded = room.loaded
  /\ room.started = FALSE /\ room2.started = TRUE
  /\ room2.ended = room.ended /\ room2.active = room.active /\ room2.sequence = room.sequence

StartUpdate == [type |-> "Start"]

LEMMA StartsTell ==
  ASSUME NEW room, NEW room2, RoomInv(room), RoomTyped(room2), Starts(room, room2)
  PROVE  TellsOthers({}, room, <<StartUpdate>>, room2)
<1>1. room.active # TRUE /\ room.ended # TRUE /\ room.loaded = {}
  BY DEF RoomInv, Starts
<1>2. RoomInv(room2)
  BY <1>1, GameMovesKeep DEF Starts
<1>3. StartUpdate.type = "Start"
  BY DEF StartUpdate
<1>4. /\ \A w \in Updates : UpdateOfGame(w, room) => UpdateOfGame(w, room2)
      /\ \A a \in Agent : AgentOfGame(a, room) => AgentOfGame(a, room2)
      /\ UpdateOfGame(StartUpdate, room2)
  BY <1>1, <1>3 DEF UpdateOfGame, AgentOfGame, OfRoom, Starts, GameMoves, RosterStays
<1>5. ASSUME NEW a \in Agent, Knows(a, room)
      PROVE  /\ Valid(a, StartUpdate) /\ Fits(a, StartUpdate) /\ ~HasRoster(StartUpdate)
             /\ Follow(a, StartUpdate) \in Agent
             /\ Follow(a, StartUpdate).player = a.player
             /\ Follow(a, StartUpdate).roster = a.roster
             /\ KnowsGame(Follow(a, StartUpdate), room2)
  <2> DEFINE b == [a EXCEPT !.started = TRUE]
  <2>1. /\ b \in Agent /\ b.player = a.player /\ b.roster = a.roster /\ b.started = TRUE
        /\ b.loaded = a.loaded /\ b.frame = a.frame
    BY StartedSet
  <2>2. /\ Valid(a, StartUpdate) /\ Fits(a, StartUpdate) /\ Follow(a, StartUpdate) = b
        /\ ~HasRoster(StartUpdate)
    BY <1>3, ReadsStart
  <2> HIDE DEF b
  <2>3. KnowsGame(b, room2)
    BY <1>5, <2>1 DEF Knows, KnowsGame, Starts, GameMoves, RosterStays
  <2> QED
    BY <2>1, <2>2, <2>3
<1>6. ~HasRoster(StartUpdate)
  BY <1>3 DEF HasRoster
<1> QED
  BY <1>2, <1>4, <1>5, <1>6, GameUpdateTells DEF Starts

(* A player whose roster and messages have been sent is known to all. *)
LEMMA IdlePlayersKnown ==
  ASSUME NEW room, NEW p \in room.here, IdlePlayer(p, room), NEW a, Knows(a, room)
  PROVE  p \in a.roster.players
<1>1. \A w \in Announced(room) : w.session # room.session[p]
  BY DEF IdlePlayer, Announced
<1>2. StaysIn(p, a.roster.revision, a.roster, room)
  BY <1>1 DEF Knows, KnowsRoster, HearsOf
<1>3. a.roster.revision >= a.roster.revision
  <2>1. a.roster.revision \in Nat
    BY DEF Knows, Agent, Roster
  <2> QED
    BY <2>1
<1> QED
  BY <1>2, <1>3 DEF StaysIn

(* loaded: a player is there, and the game may begin. *)
Loads(p, room, room2) ==
  /\ GameMoves(room, room2) /\ p \in room.here /\ IdlePlayer(p, room)
  /\ room.started = TRUE /\ room.ended = FALSE
  /\ room2.loaded = room.loaded \cup {p}
  /\ MayBegin(room, room2)

LoadedUpdate(p) == [type |-> "PlayerLoaded", player |-> p]

LEMMA LoadsTell ==
  ASSUME NEW room, NEW room2, NEW p, RoomInv(room), RoomTyped(room), RoomTyped(room2),
         Loads(p, room, room2)
  PROVE  TellsOthers({}, room, <<LoadedUpdate(p)>>, room2)
<1> DEFINE u == LoadedUpdate(p)
<1>1. u.type = "PlayerLoaded" /\ u.player = p
  BY DEF LoadedUpdate
<1> HIDE DEF u
<1>2. /\ GameMoves(room, room2) /\ p \in room.here /\ IdlePlayer(p, room)
      /\ room.started = TRUE /\ room.ended = FALSE /\ room2.started = TRUE
      /\ room2.ended = FALSE /\ room2.loaded = room.loaded \cup {p}
      /\ room2.here = room.here /\ MayBegin(room, room2) /\ p \in PlayerIds
  BY DEF Loads, MayBegin, GameMoves, RosterStays, RoomTyped
<1>3. RoomInv(room2)
  <2>1. room2.loaded \subseteq room2.here
    BY <1>2 DEF RoomInv
  <2> QED
    BY <1>2, <2>1, GameMovesKeep
<1>4. /\ \A w \in Updates : UpdateOfGame(w, room) => UpdateOfGame(w, room2)
      /\ UpdateOfGame(u, room2)
  BY <1>1, <1>2 DEF UpdateOfGame, MayBegin
<1>5. \A a \in Agent : AgentOfGame(a, room) => AgentOfGame(a, room2)
  BY <1>2, GameMovesKeep DEF AgentOfGame, MayBegin
<1>6. ASSUME NEW a \in Agent, Knows(a, room)
      PROVE  /\ Valid(a, u) /\ Fits(a, u)
             /\ Follow(a, u) \in Agent
             /\ Follow(a, u).player = a.player
             /\ Follow(a, u).roster = a.roster
             /\ KnowsGame(Follow(a, u), room2)
  <2> DEFINE b == [a EXCEPT !.loaded = @ \cup {p}]
  <2>1. /\ b \in Agent /\ b.player = a.player /\ b.roster = a.roster /\ b.started = a.started
        /\ b.loaded = a.loaded \cup {p} /\ b.frame = a.frame
    BY <1>2, LoadedSet
  <2>2. p \in a.roster.players
    BY <1>2, <1>6, IdlePlayersKnown
  <2>3. KnowsGame(a, room)
    BY <1>6 DEF Knows
  <2>4. a.started = TRUE
    BY <1>2, <2>3 DEF KnowsGame
  <2>5. Valid(a, u) /\ Fits(a, u) /\ Follow(a, u) = b
    BY <1>1, <2>2, <2>4, ReadsLoaded
  <2> HIDE DEF b
  <2>6. b.loaded \cap room2.here = room2.loaded
    BY <1>2, <2>1, <2>3 DEF KnowsGame
  <2>7. room2.active = TRUE => b.frame = room2.sequence
    BY <1>2, <2>1, <2>3 DEF KnowsGame, MayBegin
  <2>8. room2.active = FALSE => b.frame = 0
    BY <1>2, <2>1, <2>3 DEF KnowsGame, MayBegin
  <2>9. KnowsGame(b, room2)
    BY <1>2, <2>1, <2>4, <2>6, <2>7, <2>8 DEF KnowsGame
  <2> QED
    BY <2>1, <2>5, <2>9
<1>7. ~HasRoster(u)
  BY <1>1 DEF HasRoster
<1> QED
  BY <1>2, <1>3, <1>4, <1>5, <1>6, <1>7, GameUpdateTells DEF u

(* end_game: the game is over for all who are there. *)
Ends(room, room2) ==
  /\ GameMoves(room, room2) /\ room2.loaded = room.loaded
  /\ room.started = TRUE /\ room2.started = TRUE
  /\ room2.ended = TRUE /\ room2.active = FALSE

LEMMA EndsTell ==
  ASSUME NEW room, NEW room2, NEW u, u.type = "GameEnded", RoomInv(room), Ends(room, room2)
  PROVE  TellsOthers({}, room, <<u>>, room2)
<1>1. RoomInv(room2)
  <2>1. room2.loaded \subseteq room2.here
    BY DEF RoomInv, Ends, GameMoves, RosterStays
  <2> QED
    BY <2>1, GameMovesKeep DEF Ends
<1>2. /\ \A w \in Updates : UpdateOfGame(w, room) => UpdateOfGame(w, room2)
      /\ UpdateOfGame(u, room2) /\ ~HasRoster(u)
  BY DEF UpdateOfGame, Ends, GameMoves, RosterStays, HasRoster
<1>3. \A a \in Agent : AgentOfGame(a, room) => AgentOfGame(a, room2)
  BY GameMovesKeep DEF AgentOfGame, Ends, GameMoves, RosterStays
<1>4. ASSUME NEW a, Knows(a, room)
      PROVE  Valid(a, u) /\ Fits(a, u) /\ EndsSession(u)
  <2>1. a.started = TRUE
    BY <1>4 DEF Knows, KnowsGame, Ends
  <2> QED
    BY <2>1, ReadsEnded
<1> QED
  BY <1>1, <1>2, <1>3, <1>4, GameUpdateTells DEF Ends

(* run_gameplay, leave: the frames of what was queued. *)
Runs(k, room, room2) ==
  /\ GameMoves(room, room2) /\ room2.loaded = room.loaded
  /\ room.active = TRUE
  /\ room2.started = room.started /\ room2.ended = room.ended /\ room2.active = room.active
  /\ room2.sequence = room.sequence + k

FramesFrom(s, k, sequence) ==
  /\ s \in Seq(Updates) /\ Len(s) = k
  /\ \A i \in 1..k : s[i].type = "GameFrame" /\ s[i].sequence = sequence + i

LEMMA FrameSetAgain ==
  ASSUME NEW a \in Agent, NEW m, NEW n
  PROVE  [[a EXCEPT !.frame = m] EXCEPT !.frame = n] = [a EXCEPT !.frame = n]
  BY DEF Agent

LEMMA FrameKept == ASSUME NEW a \in Agent PROVE [a EXCEPT !.frame = a.frame] = a
  BY DEF Agent

LEMMA RunsFit ==
  ASSUME NEW room, NEW room2, NEW k \in Nat, NEW s, RoomInv(room), RoomTyped(room),
         Runs(k, room, room2), FramesFrom(s, k, room.sequence),
         NEW a, Knows(a, room)
  PROVE  \E more : Follows(more, a, s, room2, TRUE)
<1> DEFINE at(i) == [a EXCEPT !.frame = room.sequence + i]
           more == [i \in 1..(k + 1) |-> at(i - 1)]
<1>1. a \in Agent /\ KnowsRoster(a, room) /\ KnowsGame(a, room) /\ room.sequence \in Nat
  BY DEF Knows, RoomTyped
<1>2. a.started = TRUE /\ a.frame = room.sequence
  BY <1>1 DEF KnowsGame, Runs, RoomInv
<1>3. \A i \in 0..k : /\ at(i).frame = room.sequence + i /\ at(i).started = TRUE
                      /\ at(i).player = a.player
                      /\ \A n : [at(i) EXCEPT !.frame = n] = [a EXCEPT !.frame = n]
  <2> SUFFICES ASSUME NEW i \in 0..k
               PROVE  /\ at(i).frame = room.sequence + i /\ at(i).started = TRUE
                      /\ at(i).player = a.player
                      /\ \A n : [at(i) EXCEPT !.frame = n] = [a EXCEPT !.frame = n]
    OBVIOUS
  <2>1. room.sequence + i \in Nat
    BY <1>1
  <2>2. /\ at(i).frame = room.sequence + i /\ at(i).started = TRUE
        /\ at(i).player = a.player
    BY <1>1, <1>2, <2>1, FrameSet
  <2>3. \A n : [at(i) EXCEPT !.frame = n] = [a EXCEPT !.frame = n]
    BY <1>1, FrameSetAgain
  <2> QED
    BY <2>2, <2>3
<1>4. at(0) = a
  <2>1. room.sequence + 0 = a.frame
    BY <1>1, <1>2
  <2> QED
    BY <1>1, <2>1, FrameKept
<1>5. \A i \in 1..k : more[i] = at(i - 1) /\ more[i + 1] = at(i) /\ i - 1 \in 0..k
  <2>1. \A i \in 1..k : i \in 1..(k + 1) /\ i + 1 \in 1..(k + 1) /\ (i + 1) - 1 = i
    OBVIOUS
  <2> SUFFICES ASSUME NEW i \in 1..k
               PROVE  more[i] = at(i - 1) /\ more[i + 1] = at(i) /\ i - 1 \in 0..k
    OBVIOUS
  <2>2. more[i] = at(i - 1) /\ more[i + 1] = at((i + 1) - 1)
    BY <2>1
  <2> HIDE DEF more
  <2>3. (i + 1) - 1 = i /\ i - 1 \in 0..k
    OBVIOUS
  <2> QED
    BY <2>2, <2>3
<1>6. more[1] = a /\ more[k + 1] = at(k)
  <2>1. 1 \in 1..(k + 1) /\ k + 1 \in 1..(k + 1) /\ (k + 1) - 1 = k /\ 1 - 1 = 0
    OBVIOUS
  <2> QED
    BY <1>4, <2>1
<1> HIDE DEF more
<1>7. \A i \in 1..k : /\ Valid(more[i], s[i]) /\ Fits(more[i], s[i])
                      /\ Follow(more[i], s[i]) = more[i + 1]
  <2> SUFFICES ASSUME NEW i \in 1..k
               PROVE  /\ Valid(more[i], s[i]) /\ Fits(more[i], s[i])
                      /\ Follow(more[i], s[i]) = more[i + 1]
    OBVIOUS
  <2> DEFINE u == s[i]
             b == more[i]
  <2>1. u.type = "GameFrame" /\ u.sequence = room.sequence + i
    BY DEF FramesFrom
  <2>2. b = at(i - 1) /\ more[i + 1] = at(i) /\ i - 1 \in 0..k
    BY <1>5
  <2>3. b.frame = room.sequence + (i - 1) /\ b.started = TRUE
    BY <1>3, <2>2
  <2>4. room.sequence + i = (room.sequence + (i - 1)) + 1
    BY <1>1
  <2>5. [at(i - 1) EXCEPT !.frame = room.sequence + i] = at(i)
    BY <1>1, FrameSetAgain
  <2> HIDE DEF at, u, b
  <2>6. u.sequence = b.frame + 1
    BY <2>1, <2>3, <2>4
  <2>7. Valid(b, u) /\ Fits(b, u)
    BY <2>1, <2>3, <2>6, ReadsFrame
  <2>8. Follow(b, u) = [b EXCEPT !.frame = room.sequence + i]
    <3>1. Follow(b, u) = [b EXCEPT !.frame = u.sequence]
      BY <2>1, ReadsFrame, Zenon
    <3> QED
      BY <2>1, <3>1, Zenon
  <2>9. Follow(b, u) = more[i + 1]
    BY <2>2, <2>5, <2>8
  <2> QED
    BY <2>7, <2>9 DEF u, b
<1>8. Knows(at(k), room2) /\ at(k).player = a.player
  <2> DEFINE b == at(k)
  <2>1. room.sequence + k \in Nat
    BY <1>1
  <2>2. /\ b \in Agent /\ b.player = a.player /\ b.roster = a.roster /\ b.started = a.started
        /\ b.loaded = a.loaded /\ b.frame = room.sequence + k
    BY <1>1, <2>1, FrameSet
  <2> HIDE DEF b
  <2>3. KnowsRoster(b, room2)
    <3>1. KnowsRoster(a, room2)
      BY <1>1, GameMovesKeep DEF Runs
    <3> QED
      BY <2>2, <3>1 DEF KnowsRoster
  <2>4. KnowsGame(b, room2)
    BY <1>1, <2>2 DEF KnowsGame, Runs, GameMoves, RosterStays
  <2>5. Knows(b, room2)
    BY <2>2, <2>3, <2>4 DEF Knows
  <2> QED
    BY <2>2, <2>5 DEF b
<1> HIDE DEF at
<1>9. Len(s) = k
  BY DEF FramesFrom
<1> QED
  BY <1>6, <1>7, <1>8, <1>9 DEF Follows, Reads, NeverGivesUp, ComesToKnow

LEMMA RunsTell ==
  ASSUME NEW room, NEW room2, NEW k \in Nat, NEW s, RoomInv(room), RoomTyped(room),
         Runs(k, room, room2), FramesFrom(s, k, room.sequence)
  PROVE  TellsOthers({}, room, s, room2)
<1>1. RoomInv(room2) /\ room2.started = TRUE
  <2>1. room2.loaded \subseteq room2.here
    BY DEF RoomInv, Runs, GameMoves, RosterStays
  <2>2. room.started = TRUE /\ room.ended = FALSE
    BY DEF RoomInv, Runs
  <2>3. room2.started = TRUE /\ room2.ended = FALSE /\ GameMoves(room, room2)
    BY <2>2 DEF Runs
  <2> QED
    BY <2>1, <2>3, GameMovesKeep
<1>2. DOMAIN s = 1..k
  BY DEF FramesFrom
<1>3. TellsAll(room, s, room2)
  <2>1. \A i \in DOMAIN s : UpdateOfRoom(s[i], room2)
    BY <1>2 DEF FramesFrom, UpdateOfRoom, HasRoster
  <2> QED
    BY <1>1, <2>1, GameMovesKeep DEF TellsAll, Runs
<1>4. /\ \A w \in Updates : UpdateOfGame(w, room) => UpdateOfGame(w, room2)
      /\ \A i \in DOMAIN s : UpdateOfGame(s[i], room2)
  BY <1>2 DEF UpdateOfGame, FramesFrom, Runs, GameMoves, RosterStays
<1>5. \A a \in Agent : AgentOfGame(a, room) => AgentOfGame(a, room2)
  BY GameMovesKeep DEF AgentOfGame, Runs, GameMoves, RosterStays
<1>6. \A q : FitsWhoKnows(q, room, s, room2)
  BY RunsFit DEF FitsWhoKnows
<1> QED
  BY <1>1, <1>3, <1>4, <1>5, <1>6 DEF TellsOthers, TellsPlayer, Runs, GameMoves, RosterStays

----------------------------------------------------------------------------
(* leave: the player is gone, and with the last one the game. *)
Leaves(p, room, room2, u) ==
  /\ p \in room.here /\ IdlePlayer(p, room)
  /\ room2.revision = room.revision + 1 /\ room2.here = room.here \ {p}
  /\ \A q \in room2.here : room2.session[q] = room.session[q]
  /\ room2.loaded = room.loaded \ {p} /\ room2.unsent = room.unsent
  /\ room.started = TRUE => u.type = "PlayerLeft" /\ u.player = p
  /\ room.started = FALSE => u.type = "Roster"
  /\ u.roster = [revision |-> room2.revision, players |-> room2.here]
  /\ \/ room2.here # {} /\ MayBegin(room, room2)
     \/ /\ room2.here = {}
        /\ room2.started = FALSE /\ room2.active = FALSE /\ room2.ended = FALSE

LEMMA LeavesKeep ==
  ASSUME NEW room, NEW room2, NEW p, NEW u, RoomInv(room), RoomTyped(room),
         Leaves(p, room, room2, u)
  PROVE  RoomInv(room2)
<1>1. /\ room.revision \in Nat /\ room2.revision = room.revision + 1
      /\ room2.here = room.here \ {p} /\ room2.unsent = room.unsent
      /\ room2.loaded = room.loaded \ {p}
      /\ \A q \in room2.here : room2.session[q] = room.session[q]
      /\ \A v \in room.unsent : v.session # room.session[p]
  BY DEF RoomTyped, Leaves, IdlePlayer
<1>2. /\ room2.active = TRUE => room2.started = TRUE /\ room2.ended = FALSE
      /\ room2.ended = TRUE => room2.started = TRUE
      /\ room2.started = FALSE => room2.loaded = {}
      /\ room2.loaded \subseteq room2.here
  <2>1. room2.loaded \subseteq room2.here
    BY <1>1 DEF RoomInv
  <2>2. CASE room2.here # {} /\ MayBegin(room, room2)
    BY <1>1, <2>1, <2>2 DEF RoomInv, MayBegin
  <2>3. CASE room2.here = {} /\ room2.started = FALSE /\ room2.active = FALSE
             /\ room2.ended = FALSE
    BY <2>1, <2>3
  <2> QED
    BY <2>2, <2>3 DEF Leaves
<1>3. \A q, r \in room2.here : room2.session[q] = room2.session[r] => q = r
  BY <1>1 DEF RoomInv
<1>4. \A v, w \in room2.unsent : v.session = w.session => v = w
  BY <1>1 DEF RoomInv
<1>5. ASSUME NEW v \in room2.unsent
      PROVE  /\ v.update.type \in {"Roster", "Chat"}
             /\ UpdateOfRoom(v.update, room2)
             /\ \E q \in room2.here : /\ room2.session[q] = v.session
                                      /\ v.update.type = "Chat" => v.update.player = q
  <2>1. v.update.type \in {"Roster", "Chat"} /\ UpdateOfRoom(v.update, room)
    BY <1>1, <1>5 DEF RoomInv
  <2>2. UpdateOfRoom(v.update, room2)
    <3>1. HasRoster(v.update) => v.update.roster.revision \in Nat
      <4>1. HasRoster(v.update) => v.update.roster \in Roster
        BY <1>1, <1>5, RosterOfUpdate DEF RoomTyped
      <4> QED
        BY <4>1 DEF Roster
    <3> QED
      BY <1>1, <2>1, <3>1 DEF UpdateOfRoom, OfRoom
  <2>3. PICK q \in room.here : /\ room.session[q] = v.session
                               /\ v.update.type = "Chat" => v.update.player = q
    BY <1>1, <1>5 DEF RoomInv
  <2>4. q \in room2.here
    BY <1>1, <1>5, <2>3
  <2> QED
    BY <1>1, <2>1, <2>2, <2>3, <2>4
<1> QED
  BY <1>2, <1>3, <1>4, <1>5 DEF RoomInv

LEMMA NewestRosterKnown ==
  ASSUME NEW room, RoomInv(room), RoomTyped(room), NEW room2, RoomTyped(room2),
         NEW b, Announced(room2) = Announced(room),
         room2.revision = room.revision + 1, b.player \in room2.here,
         b.roster = [revision |-> room2.revision, players |-> room2.here]
  PROVE  KnowsRoster(b, room2)
<1>1. /\ b.roster.revision = room2.revision /\ b.roster.players = room2.here
      /\ room.revision \in Nat /\ room2.revision \in Nat
  BY DEF RoomTyped
<1>2. \A w \in Announced(room2) : ~(w.update.roster.revision >= room2.revision)
  <2>1. \A w \in Announced(room2) :
          w.update.roster.revision \in Nat /\ w.update.roster.revision <= room.revision
    BY AnnouncedTyped
  <2> QED
    BY <1>1, <2>1
<1>3. \A q \in room2.here : StaysIn(q, room2.revision, b.roster, room2)
  BY <1>1, <1>2 DEF StaysIn
<1> QED
  BY <1>1, <1>3 DEF KnowsRoster, OfRoom, LatestComes, HearsOf

LEMMA LeavesFit ==
  ASSUME NEW room, NEW room2, NEW p, NEW u, RoomInv(room), RoomTyped(room), RoomTyped(room2),
         Leaves(p, room, room2, u), NEW a, Knows(a, room), a.player \in room.here \ {p}
  PROVE  /\ Valid(a, u) /\ Fits(a, u)
         /\ Follow(a, u).player = a.player /\ Knows(Follow(a, u), room2)
<1> DEFINE r == [revision |-> room2.revision, players |-> room2.here]
<1>1. /\ r \in Roster /\ r.revision = room.revision + 1 /\ r.players = room.here \ {p}
      /\ u.roster = r /\ room.revision \in Nat
      /\ room2.revision = room.revision + 1 /\ room2.here = room.here \ {p}
      /\ room2.loaded = room.loaded \ {p} /\ p \in room.here
  BY DEF RoomTyped, Leaves, Roster
<1>2. MayBegin(room, room2)
  BY <1>1 DEF Leaves
<1>3. /\ a \in Agent /\ KnowsRoster(a, room) /\ KnowsGame(a, room)
      /\ a.roster.revision \in Nat /\ a.roster.revision <= room.revision
  BY DEF Knows, KnowsRoster, OfRoom, Agent, Roster
<1>4. u.roster.revision > a.roster.revision /\ p \in PlayerIds
  BY <1>1, <1>3 DEF RoomTyped
<1>5. Announced(room2) = Announced(room)
  BY DEF Announced, Leaves
<1> HIDE DEF r
<1>6. ASSUME NEW b \in Agent, b.player = a.player, b.roster = r, b.started = a.started,
             b.loaded \ {p} = a.loaded \ {p}, b.frame = a.frame,
             room.started = FALSE => b.loaded = a.loaded
      PROVE  Knows(b, room2)
  <2>1. KnowsRoster(b, room2)
    <3>1. b.player \in room2.here /\ b.roster = [revision |-> room2.revision,
                                                 players |-> room2.here]
      BY <1>1, <1>6 DEF r
    <3> QED
      BY <1>1, <1>5, <3>1, NewestRosterKnown
  <2>2. b.loaded \cap room2.here = room2.loaded
    <3>1. b.loaded \cap room2.here = (a.loaded \cap room.here) \ {p}
      BY <1>1, <1>6
    <3> QED
      BY <1>1, <1>3, <3>1 DEF KnowsGame
  <2>3. b.started = room2.started /\ (room2.started = FALSE => b.loaded = {})
        /\ room2.ended = FALSE
    BY <1>2, <1>3, <1>6 DEF KnowsGame, MayBegin
  <2>4. room2.active = TRUE => b.frame = room2.sequence
    BY <1>2, <1>3, <1>6 DEF KnowsGame, MayBegin
  <2>5. room2.active = FALSE => b.frame = 0
    BY <1>2, <1>3, <1>6 DEF KnowsGame, MayBegin
  <2>6. KnowsGame(b, room2)
    BY <2>2, <2>3, <2>4, <2>5 DEF KnowsGame
  <2> QED
    BY <1>6, <2>1, <2>6 DEF Knows
<1>7. CASE room.started = TRUE
  <2>1. u.type = "PlayerLeft" /\ u.player = p
    BY <1>7 DEF Leaves
  <2>2. p \in a.roster.players
    BY <1>1, IdlePlayersKnown DEF Leaves
  <2>3. a.started = TRUE
    BY <1>3, <1>7 DEF KnowsGame
  <2>4. Valid(a, u) /\ Fits(a, u)
    BY <1>1, <1>4, <2>1, <2>2, <2>3, ReadsLeft
  <2> DEFINE b == [a EXCEPT !.loaded = @ \ {p}, !.roster = r]
  <2>5. /\ b \in Agent /\ b.player = a.player /\ b.roster = r /\ b.started = a.started
        /\ b.loaded = a.loaded \ {p} /\ b.frame = a.frame
    BY <1>1, <1>3, <1>4 DEF Agent
  <2>6. Follow(a, u) = b
    <3>1. Follow(a, u) = [a EXCEPT !.loaded = @ \ {u.player}, !.roster = u.roster]
      BY <2>1, ReadsLeft
    <3> QED
      BY <1>1, <2>1, <3>1
  <2> HIDE DEF b
  <2>7. Knows(b, room2)
    BY <1>6, <1>7, <2>5
  <2> QED
    BY <2>4, <2>5, <2>6, <2>7
<1>8. CASE room.started = FALSE
  <2>1. u.type = "Roster" /\ u.roster \in Roster
    BY <1>1, <1>8 DEF Leaves
  <2> DEFINE b == [a EXCEPT !.roster = r]
  <2>2. /\ b \in Agent /\ b.player = a.player /\ b.roster = r /\ b.started = a.started
        /\ b.loaded = a.loaded /\ b.frame = a.frame
    BY <1>1, <1>3, RosterSet
  <2>3. Valid(a, u) /\ Fits(a, u)
    BY <1>1, <1>3, <2>1, ReadsRoster
  <2>4. Follow(a, u) = b
    <3>1. Follow(a, u) = [a EXCEPT !.roster = u.roster]
      BY <1>3, <1>4, <2>1, ReadsRoster
    <3> QED
      BY <1>1, <3>1
  <2> HIDE DEF b
  <2>5. Knows(b, room2)
    BY <1>6, <2>2
  <2> QED
    BY <2>2, <2>3, <2>4, <2>5
<1> QED
  BY <1>7, <1>8 DEF RoomTyped

LEMMA LeavesTell ==
  ASSUME NEW room, NEW room2, NEW p, NEW u, RoomInv(room), RoomTyped(room), RoomTyped(room2),
         Leaves(p, room, room2, u)
  PROVE  TellsOthers({p}, room, <<u>>, room2)
<1> DEFINE s == <<u>>
<1>1. DOMAIN s = {1} /\ s[1] = u
  OBVIOUS
<1>2. /\ room.revision \in Nat /\ room2.revision = room.revision + 1
      /\ room2.here = room.here \ {p} /\ room2.loaded = room.loaded \ {p}
      /\ u.type \in {"Roster", "PlayerLeft"}
      /\ u.roster.revision = room2.revision /\ u.roster.players = room2.here
  BY DEF RoomTyped, Leaves
<1> HIDE DEF s
<1>3. TellsAll(room, s, room2)
  <2>1. \A roster \in Roster : OfRoom(roster, room) => OfRoom(roster, room2)
    BY <1>2 DEF OfRoom, Roster
  <2>2. \A k \in DOMAIN s : UpdateOfRoom(s[k], room2)
    <3>1. OfRoom(u.roster, room2)
      BY <1>2 DEF OfRoom
    <3> QED
      BY <1>1, <3>1 DEF UpdateOfRoom
  <2>3. ASSUME room2.started = FALSE
        PROVE  TellsOfEmptyRoom(s) \/ (room.started = FALSE /\ NoGameIn(s))
    <3>1. CASE room.started = FALSE
      BY <1>1, <3>1 DEF NoGameIn, GameUpdate, Leaves
    <3>2. CASE room.started = TRUE
      <4>1. u.type = "PlayerLeft" /\ u.roster.players = {}
        BY <1>2, <2>3, <3>2 DEF Leaves, MayBegin
      <4> QED
        BY <1>1, <4>1 DEF TellsOfEmptyRoom
    <3> QED
      BY <3>1, <3>2 DEF RoomTyped
  <2> QED
    BY <2>1, <2>2, <2>3 DEF TellsAll
<1>4. ASSUME NEW q \in room.here \ {p} PROVE TellsPlayer(q, room, s, room2)
  <2>1. q \in room2.here /\ room2.session[q] = room.session[q] /\ MayBegin(room, room2)
    BY <1>2, <1>4 DEF Leaves
  <2>2. \A w \in Updates : UpdateOfGame(w, room) => UpdateOfGame(w, room2)
    BY <1>2, <2>1 DEF UpdateOfGame, MayBegin
  <2>3. \A a \in Agent : AgentOfGame(a, room) => AgentOfGame(a, room2)
    <3> SUFFICES ASSUME NEW a \in Agent, AgentOfGame(a, room) PROVE AgentOfGame(a, room2)
      OBVIOUS
    <3>1. OfRoom(a.roster, room2)
      BY <1>2 DEF OfRoom, Agent, Roster, AgentOfGame
    <3>2. a.loaded \cap room2.here \subseteq room2.loaded
      BY <1>2 DEF AgentOfGame
    <3> QED
      BY <2>1, <3>1, <3>2 DEF AgentOfGame, MayBegin
  <2>4. \A k \in DOMAIN s : UpdateOfGame(s[k], room2)
    BY <1>1, <1>2 DEF UpdateOfGame
  <2>5. FitsWhoKnows(q, room, s, room2)
    <3>1. \A a : a.player = q /\ Knows(a, room) =>
            /\ Valid(a, u) /\ Fits(a, u)
            /\ Follow(a, u).player = a.player /\ Knows(Follow(a, u), room2)
      BY <1>4, LeavesFit
    <3> QED
      BY <3>1, OneUpdateFits DEF FitsWhoKnows, s
  <2> QED
    BY <2>1, <2>2, <2>3, <2>4, <2>5 DEF TellsPlayer
<1> QED
  BY <1>3, <1>4, LeavesKeep DEF TellsOthers, s

----------------------------------------------------------------------------
(* A step of the room, for every link but that of a player it sends away. *)

LinksGoOn(gone, room, s, room2) ==
  /\ RoomInv(room2) /\ s \in Seq(Updates)
  /\ \A link \in Link :
       /\ LinkInv(link, room) /\ Listens(link)
       /\ link.stage \in {"member", "snapshot"} => link.agent.player \notin gone
       => LinkInv(Received(link, s), room2)

LEMMA TellsLinks ==
  ASSUME NEW gone, NEW room, NEW s \in Seq(Updates), NEW room2,
         TellsOthers(gone, room, s, room2)
  PROVE  LinksGoOn(gone, room, s, room2)
<1>1. ASSUME NEW link \in Link, LinkInv(link, room), Listens(link),
             link.stage \in {"member", "snapshot"} => link.agent.player \notin gone
      PROVE  LinkInv(Received(link, s), room2)
  <2>1. link.stage \in {"member", "snapshot"} => TellsPlayer(link.agent.player, room, s, room2)
    BY <1>1 DEF TellsOthers, LinkInv, Seated
  <2> QED
    BY <1>1, <2>1, LinkGoesOn DEF TellsOthers
<1> QED
  BY <1>1 DEF LinksGoOn, TellsOthers

LEMMA GoOnTwice ==
  ASSUME NEW gone, NEW gone2, NEW room, NEW s, NEW room2, NEW t, NEW room3,
         LinksGoOn(gone, room, s, room2), LinksGoOn(gone2, room2, t, room3)
  PROVE  LinksGoOn(gone \cup gone2, room, s \o t, room3)
<1>1. s \in Seq(Updates) /\ t \in Seq(Updates) /\ s \o t \in Seq(Updates)
  <2>1. s \in Seq(Updates) /\ t \in Seq(Updates)
    BY DEF LinksGoOn
  <2> QED
    BY <2>1, ConcatFacts
<1>2. ASSUME NEW link \in Link, LinkInv(link, room), Listens(link),
             link.stage \in {"member", "snapshot"} => link.agent.player \notin gone \cup gone2
      PROVE  LinkInv(Received(link, s \o t), room3)
  <2> DEFINE new == Received(link, s)
  <2>1. LinkInv(new, room2)
    BY <1>2 DEF LinksGoOn
  <2>2. new \in Link /\ new.stage = link.stage /\ new.agent = link.agent
        /\ Received(new, t) = Received(link, s \o t)
    BY <1>1, ReceivedShape, ReceivedTwice
  <2> HIDE DEF new
  <2>3. Listens(new)
    BY <1>2, <2>2 DEF Listens
  <2>4. LinkInv(Received(new, t), room3)
    BY <1>2, <2>1, <2>2, <2>3 DEF LinksGoOn
  <2> QED
    BY <2>2, <2>4
<1> QED
  BY <1>1, <1>2 DEF LinksGoOn

----------------------------------------------------------------------------
(* The room of the state. *)

LEMMA RoomFields ==
  /\ Room.revision = revision /\ Room.here = Connected /\ Room.started = started
  /\ Room.active = gameplayActive /\ Room.ended = gameEnded
  /\ Room.sequence = gameplaySequence /\ Room.unsent = unsent
  /\ Room.session = [p \in Connected |-> players[p].session]
  /\ \A p \in Connected : Room.session[p] = players[p].session
  /\ Room.loaded = {p \in Connected : players[p].loaded = TRUE}
  BY DEF Room, RoomAt

LEMMA RoomFieldsNext ==
  /\ Room'.revision = revision' /\ Room'.here = Connected' /\ Room'.started = started'
  /\ Room'.active = gameplayActive' /\ Room'.ended = gameEnded'
  /\ Room'.sequence = gameplaySequence' /\ Room'.unsent = unsent'
  /\ Room'.session = [p \in Connected' |-> players'[p].session]
  /\ \A p \in Connected' : Room'.session[p] = players'[p].session
  /\ Room'.loaded = {p \in Connected' : players'[p].loaded = TRUE}
  BY DEF Room, RoomAt

LEMMA RoomIsTyped == TypeOK => RoomTyped(Room)
  BY RoomFields DEF TypeOK, RosterTyped, GameTyped, UpdatesTyped, RoomTyped

LEMMA RoomIsTypedNext == TypeOK' => RoomTyped(Room')
  BY RoomFieldsNext DEF TypeOK, RosterTyped, GameTyped, UpdatesTyped, RoomTyped

SeatsStill ==
  /\ Connected' = Connected
  /\ \A p \in Connected : players'[p].session = players[p].session
                          /\ players'[p].loaded = players[p].loaded

LEMMA StillSeats ==
  ASSUME SeatsStill
  PROVE  /\ Room'.here = Room.here /\ Room'.session = Room.session
         /\ Room'.loaded = Room.loaded
<1>1. [p \in Connected' |-> players'[p].session] = [p \in Connected |-> players[p].session]
  BY DEF SeatsStill
<1>2. {p \in Connected' : players'[p].loaded = TRUE}
        = {p \in Connected : players[p].loaded = TRUE}
  BY DEF SeatsStill
<1> QED
  BY <1>1, <1>2, RoomFields, RoomFieldsNext DEF SeatsStill

LEMMA SameRoom ==
  ASSUME SeatsStill,
         UNCHANGED <<revision, started, gameplayActive, gameEnded, gameplaySequence, unsent>>
  PROVE  Room' = Room
<1>1. /\ Room'.here = Room.here /\ Room'.session = Room.session /\ Room'.loaded = Room.loaded
      /\ Room'.revision = Room.revision /\ Room'.started = Room.started
      /\ Room'.active = Room.active /\ Room'.ended = Room.ended
      /\ Room'.sequence = Room.sequence /\ Room'.unsent = Room.unsent
  BY StillSeats, RoomFields, RoomFieldsNext
<1> DEFINE record(room) ==
      [revision |-> room.revision, here |-> room.here, session |-> room.session,
       loaded |-> room.loaded, started |-> room.started, active |-> room.active,
       ended |-> room.ended, sequence |-> room.sequence, unsent |-> room.unsent]
<1>2. Room = record(Room) /\ Room' = record(Room')
  BY DEF Room, RoomAt
<1> QED
  BY <1>1, <1>2

LEMMA QuietStep ==
  ASSUME RoomInv(Room), Room' = Room, sent' \in Seq(Updates), Quiet(sent')
  PROVE  LinksGoOn({}, Room, sent', Room')
  BY QuietTells, TellsLinks

----------------------------------------------------------------------------
(* Every step of the room is one that its sessions follow. *)

RoomSteps == LinksGoOn({}, Room, sent', Room')

(* What one of the room's own steps may count on. *)
RoomHolds == Inductive /\ Inductive' /\ RoomInv(Room)

LEMMA RoomHoldsTyped ==
  ASSUME RoomHolds
  PROVE  /\ TypeOK /\ TypeOK' /\ RoomInv(Room) /\ RoomTyped(Room) /\ RoomTyped(Room')
         /\ sent' \in Seq(Updates) /\ players \in [Connected -> ConnectedPlayer]
         /\ nextSession \in Nat /\ \A p \in Connected : players[p].session < nextSession
<1>1. /\ TypeOK /\ TypeOK' /\ RoomInv(Room) /\ SeatsInv
      /\ players \in [Connected -> ConnectedPlayer] /\ nextSession \in Sessions
  BY DEF RoomHolds, Inductive, TypeOK, RosterTyped
<1>2. sent' \in Seq(Updates)
  BY <1>1 DEF TypeOK, UpdatesTyped
<1>3. \A p \in Connected : players[p].session < nextSession
  BY <1>1 DEF SeatsInv, SeatsMatchSockets, OldSessionsAreGone, SessionMatches
<1> QED
  BY <1>1, <1>2, <1>3, RoomIsTyped, RoomIsTypedNext DEF Sessions

LEMMA SamePlayersStill == UNCHANGED players => SeatsStill
  BY DEF SeatsStill, Connected

LEMMA Silence == sent' = <<>> => Quiet(sent')
  BY NothingSaid

LEMMA CallerIdle ==
  ASSUME RoomHolds, NEW m, Calls(m)
  PROVE  /\ m.player \in Room.here /\ Room.session[m.player] = m.session
         /\ IdlePlayer(m.player, Room) /\ m.player \in Connected
  BY RoomFields DEF Calls, SessionMatches, Idle, IdlePlayer

LEMMA JoinGoesOn ==
  ASSUME RoomHolds, NEW n, Join(n)
  PROVE  RoomSteps
<1>1. PICK p \in PlayerIds : LowestFree(p) /\ TakeSeat(p, n)
  BY DEF Join
<1>2. /\ p \notin Connected /\ Connected' = Connected \cup {p} /\ started = FALSE
      /\ players'[p] = FreshPlayer(n)
      /\ \A q \in Connected : players'[q] = players[q]
      /\ revision' = revision + 1
  BY <1>1 DEF LowestFree, TakeSeat, Connected, Join, Admits, NextRevision, RoomHolds,
     Inductive, TypeOK, GameTyped
<1>3. players'[p].session = nextSession /\ players'[p].loaded = FALSE
  BY <1>2 DEF FreshPlayer
<1>4. unsent' = unsent \cup
        {[session |-> Room'.session[p],
          update |-> [type |-> "Roster",
                      roster |-> [revision |-> Room'.revision, players |-> Room'.here]]]}
  BY <1>1, <1>2, <1>3, RoomFieldsNext DEF TakeSeat, CurrentRoster, Connected
<1>5. \A q \in Connected : Room'.session[q] = Room.session[q]
                          /\ Room'.session[p] # Room.session[q]
  <2>1. \A q \in Connected : Room.session[q] < nextSession /\ Room.session[q] \in Nat
    BY RoomHoldsTyped, RoomFields DEF ConnectedPlayer, Sessions
  <2> QED
    BY <1>2, <1>3, <2>1, RoomFields, RoomFieldsNext
<1>6. Room'.loaded = Room.loaded
  BY <1>2, <1>3, RoomFields, RoomFieldsNext
<1>7. PhaseStays(Room, Room')
  BY RoomFields, RoomFieldsNext DEF Join, gameVars, PhaseStays
<1>8. Joins(p, Room, Room')
  BY <1>2, <1>4, <1>5, <1>6, <1>7, RoomFields, RoomFieldsNext DEF Joins
<1>9. sent' = <<>>
  BY DEF Join
<1> QED
  BY <1>8, <1>9, RoomHoldsTyped, JoinsTell, TellsLinks DEF RoomSteps

LEMMA MarkReadyGoesOn ==
  ASSUME RoomHolds, NEW m, MarkReady(m)
  PROVE  RoomSteps
<1>1. SeatsStill
  BY RoomHoldsTyped DEF MarkReady, SeatsStill, Connected, ConnectedPlayer
<1>2. Quiet(sent')
  BY Silence DEF MarkReady, BeginCountdown, Quiet
<1>3. Room' = Room
  BY <1>1, SameRoom DEF MarkReady, gameVars
<1> QED
  BY <1>2, <1>3, RoomHoldsTyped, QuietStep DEF RoomSteps

LEMMA RequestGoesOn ==
  ASSUME RoomHolds, NEW m, RequestManualStart(m)
  PROVE  RoomSteps
<1>1. Quiet(sent')
  BY Silence DEF RequestManualStart, BeginCountdown, Quiet
<1>2. Room' = Room
  BY SamePlayersStill, SameRoom DEF RequestManualStart, gameVars, rosterVars
<1> QED
  BY <1>1, <1>2, RoomHoldsTyped, QuietStep DEF RoomSteps

LEMMA CountdownGoesOn ==
  ASSUME RoomHolds, NEW t, CountdownTick(t) \/ CountdownStale(t)
  PROVE  RoomSteps
<1>1. Quiet(sent')
  BY Silence DEF CountdownTick, CountdownStale, Quiet
<1>2. Room' = Room
  BY SamePlayersStill, SameRoom DEF CountdownTick, CountdownStale, gameVars, rosterVars
<1> QED
  BY <1>1, <1>2, RoomHoldsTyped, QuietStep DEF RoomSteps

LEMMA SubmitGoesOn ==
  ASSUME RoomHolds, NEW m, NEW sequence, SubmitAction(m, sequence)
  PROVE  RoomSteps
<1>1. SeatsStill
  BY RoomHoldsTyped DEF SubmitAction, SeatsStill, Connected, ConnectedPlayer
<1>2. Quiet(sent')
  BY Silence DEF SubmitAction
<1>3. Room' = Room
  BY <1>1, SameRoom DEF SubmitAction
<1> QED
  BY <1>2, <1>3, RoomHoldsTyped, QuietStep DEF RoomSteps

LEMMA KeepaliveGoesOn ==
  ASSUME RoomHolds, NEW m, NEW sequence, NEW checksum, SubmitKeepalive(m, sequence, checksum)
  PROVE  RoomSteps
<1>1. SeatsStill
  <2>1. \A q \in Connected : players[q] \in ConnectedPlayer
    BY RoomHoldsTyped
  <2> DEFINE queues == [q \in Connected |->
               IF q = m.player THEN Append(players[q].checksums, checksum)
                               ELSE players[q].checksums]
  <2>2. PICK n \in 0..MaxPendingChecksums :
          players' = [q \in Connected |->
            [players[q] EXCEPT
               !.lastSequence = IF q = m.player THEN sequence ELSE @,
               !.checksums = SubSeq(queues[q], n + 1, Len(queues[q]))]]
    BY DEF SubmitKeepalive
  <2> HIDE DEF queues
  <2> QED
    BY <2>1, <2>2 DEF SeatsStill, Connected, ConnectedPlayer
<1>2. Quiet(sent')
  BY Silence DEF SubmitKeepalive
<1>3. Room' = Room
  BY <1>1, SameRoom DEF SubmitKeepalive, gameVars
<1> QED
  BY <1>2, <1>3, RoomHoldsTyped, QuietStep DEF RoomSteps

LEMMA TimerGoesOn ==
  ASSUME RoomHolds, NEW g, LastPlayerTimer(g) \/ GameplayStop(g)
  PROVE  RoomSteps
<1>1. Quiet(sent')
  BY Silence DEF LastPlayerTimer, GameplayStop
<1>2. Room' = Room
  BY SamePlayersStill, SameRoom DEF LastPlayerTimer, GameplayStop, gameVars, rosterVars
<1> QED
  BY <1>1, <1>2, RoomHoldsTyped, QuietStep DEF RoomSteps

LEMMA ChatGoesOn ==
  ASSUME RoomHolds, NEW m, NEW message, PublishChat(m, message)
  PROVE  RoomSteps
<1>1. m.player \in Room.here /\ Room.session[m.player] = m.session
      /\ IdlePlayer(m.player, Room)
  BY CallerIdle DEF PublishChat
<1>2. /\ SeatsStill /\ sent' = <<>>
      /\ UNCHANGED <<revision, started, gameplayActive, gameEnded, gameplaySequence>>
  BY SamePlayersStill DEF PublishChat, rosterVars, gameVars
<1>3. RosterStays(Room, Room') /\ PhaseStays(Room, Room') /\ Room'.loaded = Room.loaded
  BY <1>2, StillSeats, RoomFields, RoomFieldsNext DEF RosterStays, PhaseStays
<1>4. Chats(m.player, message, Room, Room')
  BY <1>1, <1>3, RoomFields, RoomFieldsNext DEF Chats, PublishChat
<1> QED
  BY <1>2, <1>4, RoomHoldsTyped, ChatsTell, TellsLinks DEF RoomSteps

LEMMA SendGoesOn ==
  ASSUME RoomHolds, NEW u, SendUnlocked(u)
  PROVE  RoomSteps
<1>1. /\ SeatsStill /\ sent' = <<u.update>>
      /\ UNCHANGED <<revision, started, gameplayActive, gameEnded, gameplaySequence>>
  BY SamePlayersStill DEF SendUnlocked, rosterVars, gameVars
<1>2. RosterStays(Room, Room') /\ PhaseStays(Room, Room') /\ Room'.loaded = Room.loaded
  BY <1>1, StillSeats, RoomFields, RoomFieldsNext DEF RosterStays, PhaseStays
<1>3. Announces(u, Room, Room')
  BY <1>2, RoomFields, RoomFieldsNext DEF Announces, SendUnlocked
<1>4. TellsOthers({}, Room, sent', Room')
  BY <1>1, <1>3, RoomHoldsTyped, AnnouncesTell
<1> QED
  BY <1>4, RoomHoldsTyped, TellsLinks DEF RoomSteps

LEMMA StartGoesOn ==
  ASSUME RoomHolds, NEW t, CountdownStart(t)
  PROVE  RoomSteps
<1>1. /\ SeatsStill /\ sent' = <<StartUpdate>> /\ ~started /\ started' = TRUE
      /\ UNCHANGED <<revision, gameplayActive, gameEnded, gameplaySequence, unsent>>
  BY SamePlayersStill DEF CountdownStart, CountdownMatches, rosterVars, StartUpdate
<1>2. started = FALSE
  BY <1>1, RoomHoldsTyped DEF TypeOK, GameTyped
<1>3. Starts(Room, Room')
  BY <1>1, <1>2, StillSeats, RoomFields, RoomFieldsNext DEF Starts, GameMoves, RosterStays
<1>4. TellsOthers({}, Room, sent', Room')
  BY <1>1, <1>3, RoomHoldsTyped, StartsTell
<1> QED
  BY <1>4, RoomHoldsTyped, TellsLinks DEF RoomSteps

(* The game may begin with the one who loads or leaves. *)
LEMMA BeginsMayBegin ==
  ASSUME RoomHolds, NEW ps,
         \/ BeginsGameplay(ps) /\ BeginGameplay
         \/ UNCHANGED <<started, gameplayActive, gameEnded, gameplaySequence>>
  PROVE  MayBegin(Room, Room')
<1>1. started \in BOOLEAN /\ gameplayActive \in BOOLEAN /\ gameEnded \in BOOLEAN
  BY RoomHoldsTyped DEF TypeOK, GameTyped
<1>2. CASE BeginsGameplay(ps) /\ BeginGameplay
  <2>1. /\ started = TRUE /\ gameplayActive = FALSE /\ gameEnded = FALSE
        /\ gameplayActive' = TRUE /\ gameplaySequence' = 0
        /\ started' = started /\ gameEnded' = gameEnded
    BY <1>1, <1>2 DEF BeginsGameplay, BeginGameplay
  <2> QED
    BY <2>1, RoomFields, RoomFieldsNext DEF MayBegin
<1>3. CASE UNCHANGED <<started, gameplayActive, gameEnded, gameplaySequence>>
  BY <1>3, RoomFields, RoomFieldsNext DEF MayBegin
<1> QED
  BY <1>2, <1>3

LEMMA LoadedGoesOn ==
  ASSUME RoomHolds, NEW m, MarkLoaded(m)
  PROVE  RoomSteps
<1>1. m.player \in Room.here /\ IdlePlayer(m.player, Room) /\ m.player \in Connected
  BY CallerIdle DEF MarkLoaded
<1>2. /\ started = TRUE /\ gameEnded = FALSE
      /\ players' = [players EXCEPT ![m.player].loaded = TRUE]
      /\ sent' = <<LoadedUpdate(m.player)>>
      /\ UNCHANGED <<revision, unsent>>
  BY RoomHoldsTyped DEF MarkLoaded, TypeOK, GameTyped, LoadedUpdate
<1>3. /\ Connected' = Connected
      /\ \A q \in Connected : players'[q].session = players[q].session
      /\ \A q \in Connected : q # m.player => players'[q].loaded = players[q].loaded
      /\ players'[m.player].loaded = TRUE
  BY <1>1, <1>2, RoomHoldsTyped DEF Connected, ConnectedPlayer
<1>4. Room'.session = Room.session
  BY <1>3, RoomFields, RoomFieldsNext
<1>5. Room'.loaded = Room.loaded \cup {m.player}
  BY <1>1, <1>3, RoomFields, RoomFieldsNext
<1>6. GameMoves(Room, Room')
  BY <1>2, <1>3, <1>4, RoomFields, RoomFieldsNext DEF GameMoves, RosterStays
<1>7. MayBegin(Room, Room')
  BY BeginsMayBegin DEF MarkLoaded
<1>8. Loads(m.player, Room, Room')
  BY <1>1, <1>2, <1>5, <1>6, <1>7, RoomFields DEF Loads
<1>9. TellsOthers({}, Room, sent', Room')
  BY <1>2, <1>8, RoomHoldsTyped, LoadsTell
<1> QED
  BY <1>9, RoomHoldsTyped, TellsLinks DEF RoomSteps

LEMMA FramesAreFrames ==
  ASSUME gameplaySequence \in Nat, NEW k \in Nat
  PROVE  FramesFrom(Frames(k), k, gameplaySequence)
<1>1. Frames(k) \in Seq(Updates)
  BY FramesTyped
<1>2. Len(Frames(k)) = k
  BY DEF Frames
<1>3. \A i \in 1..k : Frames(k)[i].type = "GameFrame"
                      /\ Frames(k)[i].sequence = gameplaySequence + i
  BY DEF Frames
<1> QED
  BY <1>1, <1>2, <1>3 DEF FramesFrom

LEMMA TickGoesOn ==
  ASSUME RoomHolds, NEW g, GameplayTick(g)
  PROVE  RoomSteps
<1>1. gameplaySequence \in Nat /\ pendingActions \in Seq(PlayerIds)
  BY RoomHoldsTyped DEF TypeOK, GameTyped
<1>2. PICK k \in FrameCounts(Len(pendingActions)) :
        sent' = Frames(k) /\ gameplaySequence' = gameplaySequence + k
  BY DEF GameplayTick
<1>3. k \in Nat
  BY <1>1, <1>2, FrameCountsNat
<1>4. /\ SeatsStill /\ gameplayActive = TRUE
      /\ UNCHANGED <<revision, started, gameplayActive, gameEnded, unsent>>
  BY SamePlayersStill, RoomHoldsTyped
     DEF GameplayTick, TickMatches, GameRuns, rosterVars, TypeOK, GameTyped
<1>5. Runs(k, Room, Room')
  BY <1>2, <1>4, StillSeats, RoomFields, RoomFieldsNext DEF Runs, GameMoves, RosterStays
<1>6. FramesFrom(sent', k, Room.sequence)
  BY <1>1, <1>2, <1>3, FramesAreFrames, RoomFields
<1>7. TellsOthers({}, Room, sent', Room')
  BY <1>3, <1>5, <1>6, RoomHoldsTyped, RunsTell
<1> QED
  BY <1>7, RoomHoldsTyped, TellsLinks DEF RoomSteps

LEMMA EndGoesOn ==
  ASSUME RoomHolds, NEW e, EndGame(e)
  PROVE  RoomSteps
<1>1. SeatsStill /\ UNCHANGED <<revision, unsent>>
  BY SamePlayersStill DEF EndGame, rosterVars
<1>2. CASE ~started \/ gameEnded
  <2>1. Quiet(sent')
    BY <1>2, Silence DEF EndGame
  <2>2. Room' = Room
    BY <1>1, <1>2, SameRoom DEF EndGame, gameVars
  <2> QED
    BY <2>1, <2>2, RoomHoldsTyped, QuietStep DEF RoomSteps
<1>3. CASE started /\ ~gameEnded
  <2>1. Connected # {}
    BY <1>3 DEF RoomHolds, Inductive, PhaseInv, PhaseConsistent
  <2>2. /\ gameplayActive' = FALSE /\ gameEnded' = TRUE /\ started' = started
        /\ started = TRUE
    BY <1>3, <2>1, RoomHoldsTyped DEF EndGame, TypeOK, GameTyped
  <2>3. PICK u : u.type = "GameEnded" /\ sent' = <<u>>
    BY <1>3, <2>1 DEF EndGame
  <2>4. Ends(Room, Room')
    BY <1>1, <2>2, StillSeats, RoomFields, RoomFieldsNext DEF Ends, GameMoves, RosterStays
  <2>5. TellsOthers({}, Room, sent', Room')
    BY <2>3, <2>4, RoomHoldsTyped, EndsTell
  <2> QED
    BY <2>5, RoomHoldsTyped, TellsLinks DEF RoomSteps
<1> QED
  BY <1>2, <1>3

(* A departure is said in three parts: the frames of what was queued, the  *)
(* farewell, and that the countdown is off.                                *)
LEMMA FlushGoesOn ==
  ASSUME RoomHolds, NEW k \in Nat, LeaveFlushes \/ k = 0
  PROVE  /\ LinksGoOn({}, Room, Frames(k), RoomAt(gameplaySequence + k))
         /\ RoomTyped(RoomAt(gameplaySequence + k))
<1> DEFINE room2 == RoomAt(gameplaySequence + k)
<1>1. gameplaySequence \in Nat /\ RoomTyped(Room)
  BY RoomHoldsTyped DEF TypeOK, GameTyped
<1>2. /\ room2.revision = Room.revision /\ room2.here = Room.here
      /\ room2.session = Room.session /\ room2.loaded = Room.loaded
      /\ room2.started = Room.started /\ room2.active = Room.active
      /\ room2.ended = Room.ended /\ room2.unsent = Room.unsent
      /\ room2.sequence = Room.sequence + k /\ Room.sequence = gameplaySequence
  BY DEF Room, RoomAt
<1>3. FramesFrom(Frames(k), k, Room.sequence) /\ Frames(k) \in Seq(Updates)
  BY <1>1, <1>2, FramesAreFrames, FramesTyped
<1>4. ASSUME k = 0 PROVE room2 = Room /\ Quiet(Frames(k))
  <2>1. gameplaySequence + k = gameplaySequence
    BY <1>1, <1>4
  <2>2. Frames(k) = <<>>
    BY <1>4 DEF Frames
  <2> QED
    BY <2>1, <2>2, NothingSaid DEF Room
<1>5. ASSUME LeaveFlushes PROVE Runs(k, Room, room2)
  <2>1. Room.active = TRUE
    BY <1>5, RoomFields, RoomHoldsTyped DEF LeaveFlushes, TypeOK, GameTyped
  <2> QED
    BY <1>2, <2>1 DEF Runs, GameMoves, RosterStays
<1> HIDE DEF room2
<1>6. RoomTyped(room2)
  BY <1>1, <1>2 DEF RoomTyped
<1>7. TellsOthers({}, Room, Frames(k), room2)
  <2>1. CASE k = 0
    BY <1>3, <1>4, <2>1, RoomHoldsTyped, QuietTells
  <2>2. CASE LeaveFlushes
    BY <1>3, <1>5, <2>2, RoomHoldsTyped, RunsTell
  <2> QED
    BY <2>1, <2>2
<1> QED
  BY <1>3, <1>6, <1>7, TellsLinks DEF room2

LEMMA AfterLeaveBegins ==
  ASSUME RoomHolds, NEW k \in Nat, LeaveFlushes \/ k = 0, AfterLeave(players', k),
         Connected' # {}
  PROVE  MayBegin(RoomAt(gameplaySequence + k), Room')
<1> DEFINE room2 == RoomAt(gameplaySequence + k)
<1>1. /\ room2.started = started /\ room2.active = gameplayActive
      /\ room2.ended = gameEnded /\ room2.sequence = gameplaySequence + k
  BY DEF RoomAt
<1> HIDE DEF room2
<1>2. started \in BOOLEAN /\ gameplayActive \in BOOLEAN /\ gameEnded \in BOOLEAN
  BY RoomHoldsTyped DEF TypeOK, GameTyped
<1>3. \/ /\ gameplaySequence' = gameplaySequence + k
         /\ UNCHANGED <<started, gameplayActive, gameEnded>>
      \/ BeginsGameplay(players') /\ BeginGameplay
  BY DEF AfterLeave, Connected
<1>4. CASE /\ gameplaySequence' = gameplaySequence + k
           /\ UNCHANGED <<started, gameplayActive, gameEnded>>
  BY <1>1, <1>4, RoomFieldsNext DEF MayBegin, room2
<1>5. CASE BeginsGameplay(players') /\ BeginGameplay
  <2>1. /\ started = TRUE /\ gameplayActive = FALSE /\ gameEnded = FALSE
        /\ gameplayActive' = TRUE /\ gameplaySequence' = 0
        /\ started' = started /\ gameEnded' = gameEnded
    BY <1>2, <1>5 DEF BeginsGameplay, BeginGameplay
  <2>2. MayBegin(room2, Room')
    BY <1>1, <2>1, RoomFieldsNext DEF MayBegin
  <2> QED
    BY <2>2 DEF room2
<1> QED
  BY <1>3, <1>4, <1>5

LEMMA LeaveSeatGoesOn ==
  ASSUME RoomHolds, NEW m, SessionMatches(m), Idle(m), LeaveSeat(m)
  PROVE  LinksGoOn({m.player}, Room, sent', Room')
<1> DEFINE p == m.player
           stay == [q \in Connected \ {p} |-> players[q]]
           roster == CurrentRoster(NextRevision(revision), stay)
           u == IF started THEN [type |-> "PlayerLeft", player |-> p, roster |-> roster]
                           ELSE [type |-> "Roster", roster |-> roster]
           t == IF ~started /\ countdownActive THEN <<[type |-> "CountdownCancelled"]>>
                                               ELSE <<>>
<1>1. PICK k \in IF LeaveFlushes THEN FrameCounts(Len(pendingActions)) ELSE {0} :
        /\ sent' = Frames(k) \o
             IF started
               THEN <<[type |-> "PlayerLeft", player |-> p, roster |-> roster]>>
               ELSE <<[type |-> "Roster", roster |-> roster]>> \o
                    IF countdownActive THEN <<[type |-> "CountdownCancelled"]>> ELSE <<>>
        /\ AfterLeave(stay, k)
  BY DEF LeaveSeat
<1>2. k \in Nat /\ (LeaveFlushes \/ k = 0)
  <2>1. Len(pendingActions) \in Nat
    BY RoomHoldsTyped DEF TypeOK, GameTyped
  <2> QED
    BY <1>1, <2>1, FrameCountsNat
<1>3. players' = stay /\ revision' = revision + 1 /\ unsent' = unsent
  BY DEF LeaveSeat, NextRevision
<1>4. /\ p \in Connected /\ Connected' = Connected \ {p}
      /\ \A q \in Connected' : players'[q] = players[q]
      /\ players[p].session = m.session
  BY <1>3 DEF Connected, SessionMatches
<1>5. roster = [revision |-> Room'.revision, players |-> Room'.here]
  BY <1>3, RoomFieldsNext DEF CurrentRoster, NextRevision, Connected
<1>6. /\ started = TRUE => u.type = "PlayerLeft" /\ u.player = p
      /\ started = FALSE => u.type = "Roster"
      /\ u.roster = roster
  BY RoomHoldsTyped DEF TypeOK, GameTyped
<1>7. u \in Updates
  <2>1. roster \in Roster /\ p \in PlayerIds
    BY <1>4, <1>5, RoomHoldsTyped DEF RoomTyped, Roster, TypeOK, RosterTyped
  <2> HIDE DEF roster, p
  <2> QED
    BY <2>1 DEF Updates
<1>8. t \in Seq(Updates) /\ Quiet(t)
  <2> DEFINE c == [type |-> "CountdownCancelled"]
  <2>1. c \in Updates /\ c.type = "CountdownCancelled"
    BY DEF Updates
  <2> HIDE DEF c
  <2>2. <<c>> \in Seq(Updates) /\ Quiet(<<c>>)
    BY <2>1 DEF Quiet
  <2> QED
    BY <2>2, NothingSaid DEF c
<1>9. sent' = Frames(k) \o (<<u>> \o t)
  <2>1. \A x : <<x>> \o <<>> = <<x>>
    OBVIOUS
  <2> QED
    BY <1>1, <2>1
<1> DEFINE mid == RoomAt(gameplaySequence + k)
<1>10. /\ mid.revision = revision /\ mid.here = Connected /\ mid.started = started
       /\ mid.session = Room.session /\ mid.loaded = Room.loaded /\ mid.unsent = unsent
  BY DEF Room, RoomAt
<1>11. LinksGoOn({}, Room, Frames(k), mid) /\ RoomTyped(mid) /\ RoomInv(mid)
  BY <1>2, FlushGoesOn DEF LinksGoOn
<1> HIDE DEF mid, t, u, roster
<1>12. \/ Connected' # {} /\ MayBegin(mid, Room')
       \/ /\ Connected' = {}
          /\ started' = FALSE /\ gameplayActive' = FALSE /\ gameEnded' = FALSE
  <2>1. CASE Connected' = {}
    BY <1>1, <1>3, <2>1 DEF AfterLeave, ResetGame, Connected
  <2>2. CASE Connected' # {}
    BY <1>1, <1>2, <1>3, <2>2, AfterLeaveBegins DEF mid
  <2> QED
    BY <2>1, <2>2
<1>13. /\ \A q \in Room'.here : Room'.session[q] = mid.session[q]
       /\ Room'.loaded = mid.loaded \ {p}
  BY <1>4, <1>10, RoomFields, RoomFieldsNext
<1>14. IdlePlayer(p, mid)
  BY <1>4, <1>10, RoomFields DEF IdlePlayer, Idle
<1>15. Leaves(p, mid, Room', u)
  BY <1>3, <1>4, <1>5, <1>6, <1>10, <1>12, <1>13, <1>14, RoomFieldsNext DEF Leaves
<1> HIDE DEF p
<1>16. LinksGoOn({p}, mid, <<u>>, Room')
  <2>1. <<u>> \in Seq(Updates)
    BY <1>7
  <2>2. TellsOthers({p}, mid, <<u>>, Room')
    BY <1>11, <1>15, RoomHoldsTyped, LeavesTell
  <2> QED
    BY <2>1, <2>2, TellsLinks
<1>17. LinksGoOn({}, Room', t, Room')
  <2>1. RoomInv(Room')
    BY <1>16 DEF LinksGoOn
  <2> QED
    BY <1>8, <2>1, QuietTells, TellsLinks
<1>18. LinksGoOn({p}, Room, Frames(k) \o (<<u>> \o t), Room')
  <2>1. LinksGoOn({p} \cup {}, mid, <<u>> \o t, Room')
    BY <1>16, <1>17, GoOnTwice
  <2>2. LinksGoOn({} \cup ({p} \cup {}), Room, Frames(k) \o (<<u>> \o t), Room')
    BY <1>11, <2>1, GoOnTwice
  <2>3. {} \cup ({p} \cup {}) = {p}
    OBVIOUS
  <2> QED
    BY <2>2, <2>3
<1> QED
  BY <1>9, <1>18 DEF p

(* A stale leave says nothing. *)
LEMMA LeaveRoomGoesOn ==
  ASSUME RoomHolds, NEW m, Idle(m), LeaveRoom(m)
  PROVE  LinksGoOn(IF SessionMatches(m) THEN {m.player} ELSE {}, Room, sent', Room')
<1>1. CASE SessionMatches(m)
  BY <1>1, LeaveSeatGoesOn DEF LeaveRoom
<1>2. CASE ~SessionMatches(m)
  <2>1. Quiet(sent')
    BY <1>2, Silence DEF LeaveRoom
  <2>2. Room' = Room
    BY <1>2, SamePlayersStill, SameRoom DEF LeaveRoom, rosterVars, gameVars
  <2> QED
    BY <1>2, <2>1, <2>2, RoomHoldsTyped, QuietStep
<1> QED
  BY <1>1, <1>2

----------------------------------------------------------------------------
(* What a link hears of a step. *)

LinkOK(link, room) ==
  link \in Link /\ Len(link.queue) <= Capacity /\ LinkInv(link, room)

Heard(link, s) ==
  IF Listens(link)
    THEN [link EXCEPT !.queue = Newest(@ \o s),
                      !.lagged = @ \/ Len(link.queue \o s) > Capacity]
    ELSE link

LEMMA HeardIsTrimmed ==
  ASSUME NEW link \in Link, NEW s \in Seq(Updates), Listens(link)
  PROVE  Heard(link, s) = Trimmed(Received(link, s))
<1> DEFINE new == Received(link, s)
           lagged == link.lagged \/ Len(link.queue \o s) > Capacity
<1>1. new.queue = link.queue \o s /\ new.lagged = link.lagged /\ new \in Link
  BY ReceivedShape
<1>2. Trimmed(new) = [new EXCEPT !.queue = Newest(link.queue \o s), !.lagged = lagged]
  BY <1>1 DEF Trimmed
<1>3. Heard(link, s) = [link EXCEPT !.queue = Newest(link.queue \o s), !.lagged = lagged]
  BY DEF Heard, Link
<1> HIDE DEF lagged
<1> QED
  BY <1>2, <1>3 DEF Received, Link

LEMMA DeafKeeps ==
  ASSUME NEW link \in Link, NEW room, NEW room2, LinkInv(link, room), ~Listens(link)
  PROVE  LinkInv(link, room2)
  BY DEF LinkInv, Listens

LEMMA ClosedShape ==
  /\ ClosedLink \in Link /\ ClosedLink.stage = "closed" /\ ClosedLink.session = 0
  /\ ClosedLink.queue = <<>> /\ ClosedLink.lagged = FALSE
  /\ ClosedLink.cause = "none" /\ ClosedLink.recovered = FALSE /\ ClosedLink.early = FALSE
<1>1. NoAgent \in Agent
  <2>1. MaxPlayers \in Nat /\ 0 \in 0..MaxPlayers
    BY LobbyAssumption DEF LobbyAssumption
  <2> QED
    BY <2>1 DEF NoAgent, Agent, Roster
<1>2. <<>> \in Seq(Updates)
  BY NothingSaid
<1> QED
  BY <1>1, <1>2 DEF ClosedLink, Link, Stages, Causes

LEMMA HeardKeeps ==
  ASSUME NEW gone, NEW room, NEW s, NEW room2, LinksGoOn(gone, room, s, room2),
         NEW link, LinkOK(link, room),
         link.stage \in {"member", "snapshot"} => link.agent.player \notin gone
  PROVE  LinkOK(Heard(link, s), room2) /\ Heard(link, s).session = link.session
<1>1. link \in Link /\ s \in Seq(Updates)
  BY DEF LinkOK, LinksGoOn
<1>2. CASE Listens(link)
  <2> DEFINE new == Received(link, s)
  <2>1. LinkInv(new, room2) /\ new \in Link /\ new.session = link.session
        /\ new.stage = link.stage
    BY <1>1, <1>2, ReceivedShape DEF LinksGoOn, LinkOK
  <2>2. Heard(link, s) = Trimmed(new)
    BY <1>1, <1>2, HeardIsTrimmed
  <2> HIDE DEF new
  <2>3. Listens(new)
    BY <1>2, <2>1 DEF Listens
  <2> QED
    BY <2>1, <2>2, <2>3, TrimmedKeeps, TrimmedShape DEF LinkOK
<1>3. CASE ~Listens(link)
  <2>1. Heard(link, s) = link
    BY <1>3 DEF Heard
  <2> QED
    BY <1>1, <1>3, <2>1, DeafKeeps DEF LinkOK
<1> QED
  BY <1>2, <1>3

LEMMA HeardNothing ==
  ASSUME NEW link \in Link, Len(link.queue) <= Capacity
  PROVE  Heard(link, <<>>) = link
<1>1. link.queue \in Seq(Updates) /\ link.queue \o <<>> = link.queue
      /\ Newest(link.queue) = link.queue
  BY NewestFacts DEF Link
<1>2. ~(Len(link.queue) > Capacity)
  <2>1. Len(link.queue) \in Nat /\ Capacity \in Nat
    BY <1>1, DeliveryAssumption DEF DeliveryAssumption
  <2> QED
    BY <2>1
<1>3. (link.lagged \/ Len(link.queue \o <<>>) > Capacity) = link.lagged
  BY <1>1, <1>2 DEF Link
<1> QED
  BY <1>1, <1>3 DEF Heard, Link

(* The invariant, link by link. *)
LEMMA LinksOK ==
  ASSUME DeliveryInv
  PROVE  /\ \A n \in Names : LinkOK(links[n], Room)
         /\ links \in [Names -> Link]
         /\ \A n \in Names : links[n].session < nextSession /\ links[n].session \in Nat
         /\ \A n, k \in Names :
              n # k /\ links[n].session # 0 => links[n].session # links[k].session
  BY DEF DeliveryInv, DeliveryTypeOK, SessionsInv, LinkOK, Link

LEMMA LinksOKNext ==
  ASSUME RoomInv(Room'), links' \in [Names -> Link],
         \A n \in Names : LinkOK(links'[n], Room') /\ links'[n].session < nextSession',
         \A n, k \in Names :
           n # k /\ links'[n].session # 0 => links'[n].session # links'[k].session
  PROVE  DeliveryInv'
  BY DEF DeliveryInv, DeliveryTypeOK, SessionsInv, LinkOK

(* A step that is told to all. *)
LEMMA BroadcastKeeps ==
  ASSUME DeliveryInv, NEW gone, LinksGoOn(gone, Room, sent', Room'),
         nextSession \in Nat, nextSession' = nextSession, NEW next, Broadcast(next),
         \A n \in Names : /\ LinkOK(next[n], Room)
                          /\ next[n].session \in {0, links[n].session}
                          /\ next[n].stage \in {"member", "snapshot"} =>
                               next[n].agent.player \notin gone,
         0 < nextSession
  PROVE  DeliveryInv'
<1>1. links' = [n \in Names |-> Heard(next[n], sent')]
  BY DEF Broadcast, Heard
<1>2. \A n \in Names : /\ LinkOK(links'[n], Room')
                       /\ links'[n].session = next[n].session
  BY <1>1, HeardKeeps
<1>3. links' \in [Names -> Link]
  BY <1>1, <1>2 DEF LinkOK
<1>4. RoomInv(Room')
  BY DEF LinksGoOn
<1> QED
  BY <1>2, <1>3, <1>4, LinksOK, LinksOKNext

(* A step of one link only. *)
LEMMA OneLinkKeeps ==
  ASSUME DeliveryInv, Inductive, UNCHANGED vars, NEW n \in Names, NEW new,
         links' = [links EXCEPT ![n] = new], LinkOK(new, Room),
         new.session \in {0, links[n].session}
  PROVE  DeliveryInv'
<1>1. Room' = Room /\ nextSession' = nextSession /\ 0 < nextSession
  <2>1. Room' = Room
    BY DEF vars, rosterVars, gameVars, Room, RoomAt, Connected
  <2>2. nextSession' = nextSession
    BY DEF vars, rosterVars
  <2>3. nextSession \in Sessions
    BY DEF Inductive, TypeOK, RosterTyped
  <2> QED
    BY <2>1, <2>2, <2>3 DEF Sessions
<1>2. /\ \A k \in Names : k # n => links'[k] = links[k]
      /\ links'[n] = new /\ links' \in [Names -> Link]
  BY LinksOK DEF LinkOK
<1>3. \A k \in Names : LinkOK(links'[k], Room')
  BY <1>1, <1>2, LinksOK
<1>4. RoomInv(Room')
  BY <1>1 DEF DeliveryInv
<1>5. \A k \in Names : links'[k].session < nextSession'
                       /\ links'[k].session \in {0, links[k].session}
  BY <1>1, <1>2, LinksOK
<1> QED
  BY <1>2, <1>3, <1>4, <1>5, LinksOK, LinksOKNext

----------------------------------------------------------------------------
(* The socket task's own steps. *)

LEMMA UpdateTypes ==
  ASSUME NEW u \in Updates
  PROVE  /\ u.type \in {"Roster", "Countdown", "CountdownCancelled", "Start", "Chat",
                        "PlayerLoaded", "PlayerLeft", "GameFrame", "GameEnded"}
         /\ u.type \in {"Roster", "PlayerLeft"} => u.roster \in Roster
         /\ u.type \in {"PlayerLoaded", "PlayerLeft"} => u.player \in PlayerIds
         /\ u.type = "GameFrame" => u.sequence \in Nat
  BY DEF Updates

(* What an update changes in an agent. *)
LEMMA FollowCases ==
  ASSUME NEW a \in Agent, NEW u \in Updates
  PROVE  LET b == Follow(a, u) IN
         /\ b \in Agent /\ b.player = a.player
         /\ b.roster = a.roster \/ (HasRoster(u) /\ b.roster = u.roster)
         /\ b.started = a.started \/ (u.type = "Start" /\ b.started = TRUE)
         /\ \/ b.loaded \subseteq a.loaded
            \/ u.type = "PlayerLoaded" /\ b.loaded = a.loaded \cup {u.player}
         /\ b.frame = a.frame \/ u.type = "GameFrame"
<1>1. CASE u.type \in {"Countdown", "CountdownCancelled"}
  BY <1>1, ReadsCountdown
<1>2. CASE u.type = "Roster"
  <2>1. u.roster \in Roster /\ HasRoster(u)
    BY <1>2, UpdateTypes DEF HasRoster
  <2>2. CASE u.roster.revision > a.roster.revision
    <3> DEFINE b == [a EXCEPT !.roster = u.roster]
    <3>1. /\ b \in Agent /\ b.player = a.player /\ b.roster = u.roster
          /\ b.started = a.started /\ b.loaded = a.loaded /\ b.frame = a.frame
      BY <2>1, RosterSet
    <3>2. Follow(a, u) = b
      BY <1>2, <2>1, <2>2, ReadsRoster
    <3> HIDE DEF b
    <3> QED
      BY <2>1, <3>1, <3>2
  <2>3. CASE ~(u.roster.revision > a.roster.revision)
    <3>1. u.roster.revision <= a.roster.revision
      BY <2>1, <2>3 DEF Agent, Roster
    <3>2. Follow(a, u) = a
      BY <1>2, <2>1, <3>1, ReadsRoster
    <3> QED
      BY <3>2
  <2> QED
    BY <2>2, <2>3
<1>3. CASE u.type = "Chat"
  BY <1>3, ReadsChat
<1>4. CASE u.type = "Start"
  <2> DEFINE b == [a EXCEPT !.started = TRUE]
  <2>1. /\ b \in Agent /\ b.player = a.player /\ b.roster = a.roster
        /\ b.started = TRUE /\ b.loaded = a.loaded /\ b.frame = a.frame
    BY StartedSet
  <2>2. Follow(a, u) = b
    BY <1>4, ReadsStart
  <2> HIDE DEF b
  <2> QED
    BY <1>4, <2>1, <2>2
<1>5. CASE u.type = "PlayerLoaded"
  <2> DEFINE p == u.player
             b == [a EXCEPT !.loaded = @ \cup {p}]
  <2>1. p \in PlayerIds
    BY <1>5, UpdateTypes
  <2>2. Follow(a, u) = b
    BY <1>5, ReadsLoaded
  <2>3. /\ b \in Agent /\ b.player = a.player /\ b.roster = a.roster
        /\ b.started = a.started /\ b.loaded = a.loaded \cup {p} /\ b.frame = a.frame
    BY <2>1 DEF Agent
  <2> HIDE DEF b
  <2> QED
    BY <1>5, <2>2, <2>3
<1>6. CASE u.type = "PlayerLeft"
  <2> DEFINE p == u.player
             r == u.roster
             b == [a EXCEPT !.loaded = @ \ {p}, !.roster = r]
  <2>1. p \in PlayerIds /\ r \in Roster /\ HasRoster(u)
    BY <1>6, UpdateTypes DEF HasRoster
  <2>2. Follow(a, u) = b
    BY <1>6, ReadsLeft
  <2>3. /\ b \in Agent /\ b.player = a.player /\ b.roster = r
        /\ b.started = a.started /\ b.loaded = a.loaded \ {p} /\ b.frame = a.frame
    BY <2>1 DEF Agent
  <2> HIDE DEF b
  <2> QED
    BY <2>1, <2>2, <2>3
<1>7. CASE u.type = "GameFrame"
  <2> DEFINE n == u.sequence
             b == [a EXCEPT !.frame = n]
  <2>1. n \in Nat
    BY <1>7, UpdateTypes
  <2>2. Follow(a, u) = b
    BY <1>7, ReadsFrame
  <2>3. /\ b \in Agent /\ b.player = a.player /\ b.roster = a.roster
        /\ b.started = a.started /\ b.loaded = a.loaded
    BY <2>1 DEF Agent
  <2> HIDE DEF b
  <2> QED
    BY <1>7, <2>2, <2>3
<1>8. CASE u.type = "GameEnded"
  <2>1. Follow(a, u) = a
    BY <1>8 DEF Follow
  <2> QED
    BY <2>1
<1> QED
  BY <1>1, <1>2, <1>3, <1>4, <1>5, <1>6, <1>7, <1>8, UpdateTypes

LEMMA FollowOfGame ==
  ASSUME NEW room, NEW a \in Agent, AgentOfGame(a, room),
         NEW u \in Updates, UpdateOfRoom(u, room), UpdateOfGame(u, room)
  PROVE  AgentOfGame(Follow(a, u), room)
<1> DEFINE b == Follow(a, u)
<1>1. /\ b.roster = a.roster \/ (HasRoster(u) /\ b.roster = u.roster)
      /\ b.started = a.started \/ (u.type = "Start" /\ b.started = TRUE)
      /\ \/ b.loaded \subseteq a.loaded
         \/ u.type = "PlayerLoaded" /\ b.loaded = a.loaded \cup {u.player}
      /\ b.frame = a.frame \/ u.type = "GameFrame"
  BY FollowCases
<1> HIDE DEF b
<1>2. OfRoom(b.roster, room)
  BY <1>1 DEF AgentOfGame, UpdateOfRoom
<1>3. b.started = TRUE => room.started = TRUE
  BY <1>1 DEF AgentOfGame, UpdateOfGame
<1>4. (room.started = FALSE => b.loaded = {}) /\ b.loaded \cap room.here \subseteq room.loaded
  BY <1>1 DEF AgentOfGame, UpdateOfGame
<1>5. b.frame # 0 => room.active = TRUE \/ room.ended = TRUE
  BY <1>1 DEF AgentOfGame, UpdateOfGame
<1> QED
  BY <1>2, <1>3, <1>4, <1>5 DEF AgentOfGame, b

LEMMA TailFacts ==
  ASSUME NEW queue \in Seq(Updates), queue # <<>>
  PROVE  /\ Tail(queue) \in Seq(Updates) /\ Len(queue) \in Nat /\ Len(queue) >= 1
         /\ Len(Tail(queue)) = Len(queue) - 1
         /\ \A k \in 1..(Len(queue) - 1) : Tail(queue)[k] = queue[k + 1]
         /\ Head(queue) = queue[1] /\ 1 \in DOMAIN queue /\ queue[1] \in Updates
         /\ DOMAIN queue = 1..Len(queue) /\ DOMAIN Tail(queue) = 1..(Len(queue) - 1)
  OBVIOUS

LEMMA TailFollows ==
  ASSUME NEW run, NEW a, NEW queue \in Seq(Updates), queue # <<>>, NEW room, NEW steady,
         Follows(run, a, queue, room, steady), Accepts(a, queue[1]),
         Follow(a, queue[1]).player = a.player
  PROVE  \E rest : Follows(rest, Follow(a, queue[1]), Tail(queue), room, steady)
<1> DEFINE n == Len(queue)
           t == Tail(queue)
           rest == [i \in 1..n |-> run[i + 1]]
<1>1. /\ n \in Nat /\ n >= 1 /\ Len(t) = n - 1
      /\ \A k \in 1..(n - 1) : t[k] = queue[k + 1]
  BY TailFacts
<1>2. \A k \in 1..n : rest[k] = run[k + 1]
  OBVIOUS
<1> HIDE DEF n, t, rest
<1>3. run[1] = a /\ \A k \in 1..n : AcceptsUpTo(run, queue, k) =>
                                     run[k + 1] = Follow(run[k], queue[k])
  BY DEF Follows, Reads, n
<1>4. \A k \in 0..(n - 1) : AcceptsUpTo(rest, t, k) => AcceptsUpTo(run, queue, k + 1)
  <2> SUFFICES ASSUME NEW k \in 0..(n - 1), AcceptsUpTo(rest, t, k), NEW j \in 1..(k + 1)
               PROVE  Accepts(run[j], queue[j])
    BY DEF AcceptsUpTo
  <2>1. CASE j = 1
    BY <1>3, <2>1
  <2>2. CASE j # 1
    <3>1. j - 1 \in 1..k /\ j - 1 \in 1..(n - 1) /\ j - 1 \in 1..n /\ (j - 1) + 1 = j
      BY <1>1, <2>2
    <3>2. rest[j - 1] = run[j] /\ t[j - 1] = queue[j]
      BY <1>1, <1>2, <3>1
    <3>3. Accepts(rest[j - 1], t[j - 1])
      BY <3>1 DEF AcceptsUpTo
    <3> QED
      BY <3>2, <3>3
  <2> QED
    BY <2>1, <2>2
<1>5. rest[1] = Follow(a, queue[1])
  <2>1. 1 \in 1..n /\ 1 \in 1..1
    BY <1>1
  <2>2. AcceptsUpTo(run, queue, 1)
    <3>1. \A j \in 1..1 : j = 1
      OBVIOUS
    <3> QED
      BY <1>3, <3>1 DEF AcceptsUpTo
  <2>3. run[1 + 1] = Follow(run[1], queue[1])
    BY <1>3, <2>1, <2>2
  <2> QED
    BY <1>2, <1>3, <2>1, <2>3
<1>6. Reads(rest, Follow(a, queue[1]), t)
  <2> SUFFICES ASSUME NEW k \in 1..(n - 1), AcceptsUpTo(rest, t, k)
               PROVE  rest[k + 1] = Follow(rest[k], t[k])
    BY <1>1, <1>5 DEF Reads
  <2>1. k \in 0..(n - 1) /\ k \in 1..n /\ k + 1 \in 1..n
    BY <1>1
  <2>2. run[(k + 1) + 1] = Follow(run[k + 1], queue[k + 1])
    BY <1>3, <1>4, <2>1
  <2> QED
    BY <1>1, <1>2, <2>1, <2>2
<1>7. ComesToKnow(rest, Follow(a, queue[1]), t, room)
  <2> SUFFICES ASSUME AcceptsUpTo(rest, t, n - 1)
               PROVE  /\ rest[n].player = a.player /\ Knows(rest[n], room)
    <3>1. (n - 1) + 1 = n
      BY <1>1
    <3> QED
      BY <1>1, <3>1 DEF ComesToKnow
  <2>1. n - 1 \in 0..(n - 1) /\ (n - 1) + 1 = n /\ n \in 1..n
    BY <1>1
  <2>2. AcceptsUpTo(run, queue, n)
    BY <1>4, <2>1
  <2>3. run[n + 1].player = a.player /\ Knows(run[n + 1], room)
    BY <2>2 DEF Follows, ComesToKnow, n
  <2> QED
    BY <1>2, <2>1, <2>3
<1>8. ASSUME steady PROVE NeverGivesUp(rest, t)
  <2> SUFFICES ASSUME NEW k \in 1..(n - 1), AcceptsUpTo(rest, t, k - 1)
               PROVE  Valid(rest[k], t[k]) /\ Fits(rest[k], t[k])
    BY <1>1 DEF NeverGivesUp
  <2>1. k - 1 \in 0..(n - 1) /\ (k - 1) + 1 = (k + 1) - 1 /\ k + 1 \in 1..n /\ k \in 1..n
    BY <1>1
  <2>2. AcceptsUpTo(run, queue, (k + 1) - 1)
    BY <1>4, <2>1
  <2>3. Valid(run[k + 1], queue[k + 1]) /\ Fits(run[k + 1], queue[k + 1])
    BY <1>8, <2>1, <2>2 DEF Follows, NeverGivesUp, n
  <2> QED
    BY <1>1, <1>2, <2>1, <2>3
<1> QED
  BY <1>6, <1>7, <1>8 DEF Follows, t

LEMMA EmptyFits == Len(<<>>) <= Capacity
  BY DeliveryAssumption DEF DeliveryAssumption

LEMMA ClosingKeeps ==
  ASSUME NEW link \in Link, NEW why \in Causes, NEW room,
         why = "gave up" => link.early = TRUE \/ link.recovered = TRUE
  PROVE  /\ LinkOK(Closing(link, why), room) /\ Closing(link, why).session = link.session
         /\ Closing(link, why).stage = "closing"
<1> DEFINE new == Closing(link, why)
<1>1. NoAgent \in Agent /\ <<>> \in Seq(Updates)
  BY ClosedShape, NothingSaid DEF Link, ClosedLink
<1>2. /\ new \in Link /\ new.stage = "closing" /\ new.session = link.session
      /\ new.queue = <<>> /\ new.cause = why /\ new.early = link.early
      /\ new.recovered = link.recovered
  BY <1>1 DEF Closing, Link, Stages
<1> HIDE DEF new
<1>3. Len(new.queue) <= Capacity
  BY <1>2, EmptyFits
<1>4. LinkInv(new, room)
  BY <1>2 DEF LinkInv, Listens
<1> QED
  BY <1>2, <1>3, <1>4 DEF LinkOK, new

LEMMA ClosedKeeps ==
  ASSUME NEW room PROVE LinkOK(ClosedLink, room)
<1>1. Len(ClosedLink.queue) <= Capacity
  BY ClosedShape, DeliveryAssumption DEF DeliveryAssumption
<1>2. LinkInv(ClosedLink, room)
  BY ClosedShape DEF LinkInv, Listens
<1> QED
  BY <1>1, <1>2, ClosedShape DEF LinkOK

LEMMA SubscribeKeeps ==
  ASSUME DeliveryInv, Inductive, NEW n \in Names, Subscribe(n)
  PROVE  DeliveryInv'
<1> DEFINE new == [links[n] EXCEPT !.stage = "asking"]
<1>1. links[n] = ClosedLink
  BY LinksOK DEF Subscribe, LinkOK, LinkInv
<1>2. /\ new \in Link /\ new.stage = "asking" /\ new.session = 0 /\ new.queue = <<>>
      /\ new.cause = "none" /\ new.recovered = FALSE /\ links[n].session = 0
  BY <1>1, ClosedShape DEF Link, Stages
<1>3. links' = [links EXCEPT ![n] = new]
  BY LinksOK DEF Subscribe
<1> HIDE DEF new
<1>4. LinkInv(new, Room)
  <2>1. NoGameIn(<<>>)
    BY DEF NoGameIn
  <2> QED
    BY <1>2, <2>1 DEF LinkInv, WaitsFor
<1>5. LinkOK(new, Room)
  BY <1>2, <1>4, DeliveryAssumption DEF LinkOK, DeliveryAssumption
<1> QED
  BY <1>2, <1>3, <1>5, OneLinkKeeps DEF Subscribe

LEMMA RejectKeeps ==
  ASSUME DeliveryInv, Inductive, NEW n \in Names, Reject(n)
  PROVE  DeliveryInv'
  BY ClosedKeeps, ClosedShape, OneLinkKeeps DEF Reject

LEMMA RefusedKeeps ==
  ASSUME DeliveryInv, Inductive, NEW n \in Names, RefusedCall(n)
  PROVE  DeliveryInv'
<1>1. links[n] \in Link
  BY LinksOK DEF LinkOK
<1>2. PICK why \in {"late", "refused"} : links' = [links EXCEPT ![n] = Closing(@, why)]
  BY DEF RefusedCall
<1>3. links' = [links EXCEPT ![n] = Closing(links[n], why)]
  BY <1>2, LinksOK
<1>4. LinkOK(Closing(links[n], why), Room)
      /\ Closing(links[n], why).session = links[n].session
  BY <1>1, <1>2, ClosingKeeps DEF Causes
<1> QED
  BY <1>3, <1>4, OneLinkKeeps DEF RefusedCall

LEMMA NoticeLagKeeps ==
  ASSUME DeliveryInv, Inductive, NEW n \in Names, NoticeLag(n)
  PROVE  DeliveryInv'
<1> DEFINE link == links[n]
           new == [link EXCEPT !.stage = "snapshot", !.lagged = FALSE]
<1>1. link \in Link /\ LinkInv(link, Room) /\ link.stage = "member"
      /\ Len(link.queue) <= Capacity
  BY LinksOK DEF NoticeLag, Serves, LinkOK
<1>2. links' = [links EXCEPT ![n] = new]
  BY LinksOK DEF NoticeLag
<1> HIDE DEF link
<1>3. /\ new \in Link /\ new.stage = "snapshot" /\ new.session = link.session
      /\ new.queue = link.queue /\ new.agent = link.agent /\ new.cause = link.cause
      /\ new.early = link.early /\ new.recovered = link.recovered
  BY <1>1 DEF Link, Stages
<1> HIDE DEF new
<1>4. LinkInv(new, Room)
  BY <1>1, <1>3 DEF LinkInv, Listens, Seated
<1>5. LinkOK(new, Room)
  BY <1>1, <1>3, <1>4 DEF LinkOK
<1> QED
  BY <1>2, <1>3, <1>5, OneLinkKeeps DEF NoticeLag, link

(* The rest of the queue, for the agent that accepted its head. *)
LEMMA TailKeeps ==
  ASSUME NEW room, NEW link, LinkOK(link, room), link.stage = "member",
         link.lagged = FALSE, link.queue # <<>>, Accepts(link.agent, link.queue[1])
  PROVE  LET new == [link EXCEPT !.queue = Tail(link.queue),
                                 !.agent = Follow(link.agent, link.queue[1])]
         IN  LinkOK(new, room) /\ new.session = link.session
<1> DEFINE u == link.queue[1]
           b == Follow(link.agent, u)
           new == [link EXCEPT !.queue = Tail(link.queue), !.agent = b]
<1>1. link \in Link /\ LinkInv(link, room) /\ link.agent \in Agent
      /\ link.queue \in Seq(Updates) /\ Len(link.queue) <= Capacity
  BY DEF LinkOK, Link
<1>2. u \in Updates /\ 1 \in DOMAIN link.queue
  BY <1>1, TailFacts
<1>3. b \in Agent /\ b.player = link.agent.player
  BY <1>1, <1>2, FollowCases
<1>4. Tail(link.queue) \in Seq(Updates) /\ Len(Tail(link.queue)) <= Capacity
  <2>1. Len(Tail(link.queue)) = Len(link.queue) - 1 /\ Len(link.queue) \in Nat
    BY <1>1, TailFacts
  <2>2. Capacity \in Nat
    BY DeliveryAssumption DEF DeliveryAssumption
  <2> QED
    BY <1>1, <2>1, <2>2, TailFacts
<1> HIDE DEF b
<1>5. /\ new \in Link /\ new.stage = link.stage /\ new.session = link.session
      /\ new.queue = Tail(link.queue) /\ new.lagged = link.lagged /\ new.agent = b
      /\ new.cause = link.cause /\ new.early = link.early
      /\ new.recovered = link.recovered
  BY <1>1, <1>3, <1>4 DEF Link
<1> HIDE DEF new
<1>6. \A k \in DOMAIN new.queue : /\ k + 1 \in DOMAIN link.queue
                                  /\ new.queue[k] = link.queue[k + 1]
  <2>1. DOMAIN new.queue = 1..(Len(link.queue) - 1) /\ DOMAIN link.queue = 1..Len(link.queue)
        /\ Len(link.queue) \in Nat
        /\ \A k \in 1..(Len(link.queue) - 1) : Tail(link.queue)[k] = link.queue[k + 1]
    BY <1>1, <1>5, TailFacts
  <2> QED
    BY <1>5, <2>1
<1>7. /\ \A k \in DOMAIN link.queue : UpdateOfRoom(link.queue[k], room)
      /\ Seated(link, room)
      /\ link.early = FALSE =>
           /\ AgentOfGame(link.agent, room)
           /\ \A k \in DOMAIN link.queue : UpdateOfGame(link.queue[k], room)
      /\ (link.early = FALSE \/ link.recovered = FALSE) => UpToDate(link, room)
      /\ link.cause = "gave up" => link.early = TRUE \/ link.recovered = TRUE
  BY <1>1 DEF LinkInv, Listens
<1>8. \A k \in DOMAIN new.queue : UpdateOfRoom(new.queue[k], room)
  BY <1>6, <1>7
<1>9. Seated(new, room)
  BY <1>3, <1>5, <1>7 DEF Seated
<1>10. new.early = FALSE =>
         /\ AgentOfGame(new.agent, room)
         /\ \A k \in DOMAIN new.queue : UpdateOfGame(new.queue[k], room)
  <2>1. link.early = FALSE => AgentOfGame(b, room)
    BY <1>1, <1>2, <1>7, FollowOfGame DEF b
  <2> QED
    BY <1>5, <1>6, <1>7, <2>1
<1>11. ASSUME new.early = FALSE \/ new.recovered = FALSE PROVE UpToDate(new, room)
  <2>1. UpToDate(link, room) /\ Steady(new) = Steady(link)
    BY <1>5, <1>7, <1>11 DEF Steady
  <2>2. ASSUME NEW run, Follows(run, link.agent, link.queue, room, Steady(link))
        PROVE  \E rest : Follows(rest, b, Tail(link.queue), room, Steady(link))
    <3> DEFINE steady == Steady(link)
    <3>1. Follows(run, link.agent, link.queue, room, steady)
      BY <2>2
    <3> HIDE DEF steady
    <3>2. \E rest : Follows(rest, b, Tail(link.queue), room, steady)
      BY <1>1, <1>3, <3>1, TailFollows DEF b
    <3> QED
      BY <3>2 DEF steady
  <2>3. ASSUME TellsOfEmptyRoom(link.queue) PROVE TellsOfEmptyRoom(new.queue)
    <3>1. PICK k \in DOMAIN link.queue :
            link.queue[k].type = "PlayerLeft" /\ link.queue[k].roster.players = {}
      BY <2>3 DEF TellsOfEmptyRoom
    <3>2. k # 1
      <4>1. u.type = "PlayerLeft" => u.roster.players # {}
        BY ReadsLeft DEF Accepts
      <4> QED
        BY <3>1, <4>1
    <3>3. k - 1 \in DOMAIN new.queue /\ new.queue[k - 1] = link.queue[k]
      <4>1. DOMAIN new.queue = 1..(Len(link.queue) - 1) /\ k \in 1..Len(link.queue)
            /\ Len(link.queue) \in Nat
        BY <1>1, <1>5, TailFacts
      <4>2. k - 1 \in 1..(Len(link.queue) - 1) /\ (k - 1) + 1 = k
        BY <3>2, <4>1
      <4> QED
        BY <1>6, <4>1, <4>2
    <3> QED
      BY <3>1, <3>3 DEF TellsOfEmptyRoom
  <2> QED
    BY <1>5, <2>1, <2>2, <2>3 DEF UpToDate
<1>12. LinkInv(new, room)
  BY <1>5, <1>7, <1>8, <1>9, <1>10, <1>11 DEF LinkInv, Listens
<1> QED
  BY <1>4, <1>5, <1>12 DEF LinkOK, new, b

LEMMA DeliverKeeps ==
  ASSUME DeliveryInv, Inductive, NEW n \in Names, Deliver(n)
  PROVE  DeliveryInv'
<1> DEFINE link == links[n]
           u == Head(link.queue)
           rest == [link EXCEPT !.queue = Tail(@), !.agent = Follow(@, u)]
<1>1. LinkOK(link, Room) /\ link \in Link /\ LinkInv(link, Room) /\ link.stage = "member"
      /\ link.lagged = FALSE /\ link.queue # <<>> /\ link.queue \in Seq(Updates)
  BY LinksOK DEF Deliver, Serves, LinkOK, Link
<1>2. links' = [links EXCEPT ![n] =
        IF ~(Valid(link.agent, u) /\ Fits(link.agent, u)) THEN Closing(link, "gave up")
        ELSE IF EndsSession(u) THEN Closing(link, "told") ELSE rest]
  BY DEF Deliver
<1>3. u = link.queue[1]
  BY <1>1, TailFacts
<1>4. rest = [link EXCEPT !.queue = Tail(link.queue),
                          !.agent = Follow(link.agent, link.queue[1])]
  BY <1>1, <1>3 DEF Link
<1> HIDE DEF link, u, rest
<1>5. CASE ~(Valid(link.agent, u) /\ Fits(link.agent, u))
  <2>1. link.early = TRUE \/ link.recovered = TRUE
    <3> SUFFICES ASSUME link.early = FALSE, link.recovered = FALSE PROVE FALSE
      BY <1>1 DEF Link
    <3>1. UpToDate(link, Room) /\ Steady(link)
      BY <1>1 DEF LinkInv, Steady
    <3>2. PICK run : Follows(run, link.agent, link.queue, Room, Steady(link))
      BY <3>1 DEF UpToDate
    <3>3. 1 \in 1..Len(link.queue) /\ 1 - 1 = 0
      BY <1>1, TailFacts
    <3>4. AcceptsUpTo(run, link.queue, 0)
      BY DEF AcceptsUpTo
    <3>5. Valid(run[1], link.queue[1]) /\ Fits(run[1], link.queue[1]) /\ run[1] = link.agent
      BY <3>1, <3>2, <3>3, <3>4 DEF Follows, NeverGivesUp, Reads
    <3> QED
      BY <1>3, <1>5, <3>5
  <2>2. LinkOK(Closing(link, "gave up"), Room)
        /\ Closing(link, "gave up").session = link.session
    BY <1>1, <2>1, ClosingKeeps DEF Causes
  <2> QED
    BY <1>2, <1>5, <2>2, OneLinkKeeps DEF Deliver, link
<1>6. CASE Valid(link.agent, u) /\ Fits(link.agent, u) /\ EndsSession(u)
  <2>1. LinkOK(Closing(link, "told"), Room)
        /\ Closing(link, "told").session = link.session
    BY <1>1, ClosingKeeps DEF Causes
  <2> QED
    BY <1>2, <1>6, <2>1, OneLinkKeeps DEF Deliver, link
<1>7. CASE Valid(link.agent, u) /\ Fits(link.agent, u) /\ ~EndsSession(u)
  <2>1. Accepts(link.agent, link.queue[1])
    BY <1>3, <1>7 DEF Accepts
  <2>2. LinkOK(rest, Room) /\ rest.session = link.session
    BY <1>1, <1>4, <2>1, TailKeeps
  <2> QED
    BY <1>2, <1>7, <2>2, OneLinkKeeps DEF Deliver, link
<1> QED
  BY <1>5, <1>6, <1>7

----------------------------------------------------------------------------
(* An agent that is told the room as it is: by a snapshot, or by joining. *)

HasNow(a, room) ==
  a.roster.revision = room.revision /\ a.roster.players = room.here

LEMMA NowIsKnown ==
  ASSUME NEW room, RoomInv(room), RoomTyped(room), NEW a, HasNow(a, room),
         a.player \in room.here
  PROVE  KnowsRoster(a, room)
<1>1. room.revision \in Nat
  BY DEF RoomTyped
<1>2. \A q \in room.here : StaysIn(q, a.roster.revision, a.roster, room)
  <2> SUFFICES ASSUME NEW q \in room.here, NEW w \in Announced(room),
                      w.update.roster.revision >= room.revision
               PROVE  q \in w.update.roster.players
    BY DEF HasNow, StaysIn
  <2>1. /\ w.update.roster.revision \in Nat /\ w.update.roster.revision <= room.revision
        /\ w.update.roster.revision = room.revision => w.update.roster.players = room.here
    BY AnnouncedTyped
  <2>2. w.update.roster.revision = room.revision
    BY <1>1, <2>1
  <2> QED
    BY <2>1, <2>2
<1>3. OfRoom(a.roster, room) /\ LatestComes(a.roster, room)
  BY <1>1 DEF HasNow, OfRoom, LatestComes
<1> QED
  BY <1>2, <1>3 DEF KnowsRoster, HearsOf

(* Nothing that waits changes it. *)
LEMMA NothingNews ==
  ASSUME NEW room, NEW a, Knows(a, room), NEW queue \in Seq(Updates),
         \A k \in DOMAIN queue : Accepts(a, queue[k]) => Follow(a, queue[k]) = a
  PROVE  \E run : Follows(run, a, queue, room, FALSE)
<1> DEFINE run == [i \in 1..(Len(queue) + 1) |-> a]
<1>1. /\ \A k \in 1..Len(queue) : run[k] = a /\ run[k + 1] = a /\ k \in DOMAIN queue
      /\ run[1] = a /\ run[Len(queue) + 1] = a
  <2>1. Len(queue) \in Nat /\ DOMAIN queue = 1..Len(queue)
    OBVIOUS
  <2>2. /\ \A k \in 1..Len(queue) : k \in 1..(Len(queue) + 1) /\ k + 1 \in 1..(Len(queue) + 1)
        /\ 1 \in 1..(Len(queue) + 1) /\ Len(queue) + 1 \in 1..(Len(queue) + 1)
    BY <2>1
  <2> QED
    BY <2>1, <2>2
<1> HIDE DEF run
<1>2. Reads(run, a, queue)
  <2> SUFFICES ASSUME NEW k \in 1..Len(queue), AcceptsUpTo(run, queue, k)
               PROVE  run[k + 1] = Follow(run[k], queue[k])
    BY <1>1 DEF Reads
  <2>1. Accepts(run[k], queue[k])
    <3>1. k \in 1..k
      OBVIOUS
    <3> QED
      BY <3>1 DEF AcceptsUpTo
  <2> QED
    BY <1>1, <2>1
<1>3. ComesToKnow(run, a, queue, room)
  BY <1>1 DEF ComesToKnow
<1> QED
  BY <1>2, <1>3 DEF Follows

(* A roster that is not newer is no news, nor is a departure. *)
LEMMA OldRosterIsNoNews ==
  ASSUME NEW room, RoomTyped(room), NEW a \in Agent, HasNow(a, room),
         NEW u \in Updates, UpdateOfRoom(u, room), HasRoster(u), Accepts(a, u)
  PROVE  Follow(a, u) = a
<1>1. u.roster \in Roster /\ u.roster.revision <= room.revision
  BY RosterOfUpdate DEF UpdateOfRoom, OfRoom
<1>2. u.roster.revision \in Nat /\ room.revision \in Nat /\ u.roster.revision <= a.roster.revision
  BY <1>1 DEF Roster, RoomTyped, HasNow
<1>3. CASE u.type = "Roster"
  BY <1>1, <1>2, <1>3, ReadsRoster
<1>4. CASE u.type = "PlayerLeft"
  <2>1. u.roster.revision > a.roster.revision
    BY <1>4, ReadsLeft DEF Accepts
  <2> QED
    BY <1>2, <2>1 DEF HasNow
<1> QED
  BY <1>3, <1>4 DEF HasRoster

LEMMA JoinIsUpToDate ==
  ASSUME NEW room, RoomInv(room), RoomTyped(room), room.started = FALSE,
         NEW link \in Link, link.queue \in Seq(Updates), link.agent \in Agent,
         HasNow(link.agent, room), link.agent.player \in room.here,
         link.agent.started = FALSE, link.agent.loaded = {}, link.agent.frame = 0,
         link.early = FALSE <=> link.queue = <<>>,
         \A k \in DOMAIN link.queue : UpdateOfRoom(link.queue[k], room),
         WaitsFor(link.queue, room)
  PROVE  UpToDate(link, room)
<1> DEFINE a == link.agent
           queue == link.queue
<1>1. Knows(a, room)
  <2>1. KnowsGame(a, room)
    <3>1. /\ room.loaded = {} /\ room.active # TRUE /\ room.ended = FALSE
      BY DEF RoomInv, RoomTyped
    <3> QED
      BY <3>1 DEF KnowsGame
  <2> QED
    BY <2>1, NowIsKnown DEF Knows
<1>2. CASE queue = <<>>
  <2>1. \E run : Follows(run, a, queue, room, TRUE)
    BY <1>1, <1>2, NothingSaid, QuietFits
  <2>2. Steady(link) => TRUE
    OBVIOUS
  <2>3. \A run, steady : Follows(run, a, queue, room, TRUE) => Follows(run, a, queue, room, steady)
    BY DEF Follows
  <2> QED
    BY <2>1, <2>3 DEF UpToDate
<1>3. CASE queue # <<>> /\ NoGameIn(queue)
  <2>1. ASSUME NEW k \in DOMAIN queue, Accepts(a, queue[k]) PROVE Follow(a, queue[k]) = a
    <3> DEFINE u == queue[k]
    <3>1. u \in Updates /\ UpdateOfRoom(u, room) /\ ~GameUpdate(u) /\ Accepts(a, u)
      BY <1>3, <2>1 DEF NoGameIn
    <3> HIDE DEF u
    <3>2. u.type = "Roster" => Follow(a, u) = a
      BY <3>1, OldRosterIsNoNews DEF HasRoster
    <3>3. u.type \in {"Countdown", "CountdownCancelled"} => Follow(a, u) = a
      BY ReadsCountdown
    <3>4. u.type = "Chat" => Follow(a, u) = a
      BY ReadsChat
    <3>5. Follow(a, u) = a
      BY <3>1, <3>2, <3>3, <3>4, UpdateTypes DEF GameUpdate
    <3> QED
      BY <3>5 DEF u
  <2>2. \E run : Follows(run, a, queue, room, FALSE)
    BY <1>1, <2>1, NothingNews
  <2>3. Steady(link) = FALSE
    BY <1>3 DEF Steady
  <2> QED
    BY <2>2, <2>3 DEF UpToDate
<1>4. CASE queue # <<>> /\ TellsOfEmptyRoom(queue)
  <2>1. link.early = TRUE
    BY <1>4 DEF Link
  <2> QED
    BY <1>4, <2>1 DEF UpToDate
<1> QED
  BY <1>2, <1>3, <1>4 DEF WaitsFor

LEMMA EnterKeeps ==
  ASSUME DeliveryInv, RoomHolds, NEW n \in Names, Enter(n)
  PROVE  DeliveryInv'
<1> DEFINE link == links[n]
           roster == CurrentRoster(revision', players')
<1>1. link.stage = "asking" /\ Join(n) /\ sent' = <<>> /\ RoomSteps
  BY JoinGoesOn DEF Enter, Join
<1>2. PICK p \in PlayerIds : LowestFree(p) /\ TakeSeat(p, n)
  BY <1>1 DEF Join
<1> DEFINE early == link.queue # <<>> \/ link.lagged
           agent == [NoAgent EXCEPT !.player = p, !.roster = roster]
           new == [link EXCEPT !.stage = "member", !.session = nextSession,
                               !.early = early, !.agent = agent]
           next == [links EXCEPT ![n] = new]
<1>3. Broadcast(next)
  <2>1. PICK m \in memberships' \ memberships :
          Broadcast([links EXCEPT
            ![n].stage = "member", ![n].session = m.session, ![n].early = early,
            ![n].agent = [NoAgent EXCEPT !.player = m.player, !.roster = roster]])
    BY DEF Enter
  <2>2. m.player = p /\ m.session = nextSession
    BY <1>2, <2>1 DEF TakeSeat
  <2> HIDE DEF early, roster
  <2>3. [links EXCEPT ![n].stage = "member", ![n].session = m.session, ![n].early = early,
           ![n].agent = [NoAgent EXCEPT !.player = m.player, !.roster = roster]] = next
    BY <2>2, LinksOK
  <2> QED
    BY <2>1, <2>3
<1>4. /\ link \in Link /\ LinkInv(link, Room) /\ Len(link.queue) <= Capacity
      /\ link.queue \in Seq(Updates) /\ link.recovered = FALSE /\ link.cause = "none"
  BY <1>1, LinksOK DEF LinkOK, LinkInv, Link
<1>5. /\ p \in Connected' /\ players'[p].session = nextSession /\ started' = FALSE
      /\ nextSession' = nextSession + 1 /\ nextSession \in Nat /\ nextSession # 0
  <2>1. started = FALSE /\ nextSession \in Sessions
    BY <1>1 DEF Join, Admits, RoomHolds, Inductive, TypeOK, GameTyped, RosterTyped
  <2> QED
    BY <1>1, <1>2, <2>1 DEF TakeSeat, FreshPlayer, Connected, Join, gameVars, Sessions
<1>6. roster.revision = Room'.revision /\ roster.players = Room'.here /\ roster \in Roster
  <2>1. RoomTyped(Room')
    BY RoomHoldsTyped
  <2>2. roster.revision = Room'.revision /\ roster.players = Room'.here
    BY RoomFieldsNext DEF CurrentRoster, Connected
  <2>3. roster = [revision |-> Room'.revision, players |-> Room'.here]
    BY RoomFieldsNext DEF CurrentRoster, Connected
  <2> QED
    BY <2>1, <2>2, <2>3 DEF Roster, RoomTyped
<1> HIDE DEF link, roster
<1>7. /\ agent \in Agent /\ agent.player = p /\ agent.roster = roster
      /\ agent.started = FALSE /\ agent.loaded = {} /\ agent.frame = 0
  <2>1. p \in 0..MaxPlayers
    BY LobbyAssumption DEF PlayerIds, LobbyAssumption
  <2> QED
    BY <1>6, <2>1 DEF Agent, NoAgent
<1>8. early \in BOOLEAN /\ (early = FALSE <=> link.queue = <<>> /\ link.lagged = FALSE)
  BY <1>4 DEF Link
<1> HIDE DEF agent, early
<1>9. /\ new \in Link /\ new.stage = "member" /\ new.session = nextSession
      /\ new.queue = link.queue /\ new.lagged = link.lagged /\ new.agent = agent
      /\ new.cause = link.cause /\ new.early = early /\ new.recovered = FALSE
  BY <1>4, <1>5, <1>7, <1>8 DEF Link, Stages
<1>10. /\ \A k \in Names : k # n => next[k] = links[k]
       /\ next[n] = new
  BY LinksOK
<1> HIDE DEF new, next
<1>11. /\ \A k \in DOMAIN link.queue : UpdateOfRoom(link.queue[k], Room')
       /\ link.lagged = FALSE => WaitsFor(link.queue, Room')
  <2> DEFINE got == Received(link, <<>>)
  <2>1. /\ got.queue = link.queue /\ got.lagged = link.lagged /\ got.stage = link.stage
    <3>1. link.queue \o <<>> = link.queue
      BY <1>4
    <3> QED
      BY <1>4, <3>1, ReceivedShape, NothingSaid
  <2>2. LinkInv(got, Room')
    BY <1>1, <1>4 DEF RoomSteps, LinksGoOn, Listens, link
  <2> HIDE DEF got
  <2> QED
    BY <1>1, <2>1, <2>2 DEF LinkInv, Listens, link
<1>12. Seated(new, Room')
  BY <1>5, <1>7, <1>9, RoomFieldsNext DEF Seated
<1>13. HasNow(agent, Room')
  BY <1>6, <1>7 DEF HasNow
<1>14. new.early = FALSE =>
         /\ AgentOfGame(new.agent, Room')
         /\ \A k \in DOMAIN new.queue : UpdateOfGame(new.queue[k], Room')
  <2>1. AgentOfGame(agent, Room')
    <3>1. Room'.revision \in Nat
      BY RoomHoldsTyped DEF RoomTyped
    <3>2. OfRoom(agent.roster, Room')
      BY <1>13, <3>1 DEF HasNow, OfRoom
    <3> QED
      BY <1>7, <3>2 DEF AgentOfGame
  <2>2. early = FALSE => DOMAIN new.queue = {}
    BY <1>8, <1>9
  <2> QED
    BY <1>9, <2>1, <2>2
<1>15. ASSUME new.lagged = FALSE PROVE UpToDate(new, Room')
  <2>1. RoomInv(Room') /\ RoomTyped(Room') /\ Room'.started = FALSE
    BY <1>1, <1>5, RoomHoldsTyped, RoomFieldsNext DEF RoomSteps, LinksGoOn
  <2>2. new.agent.player \in Room'.here
    BY <1>12 DEF Seated
  <2>3. new.early = FALSE <=> new.queue = <<>>
    BY <1>8, <1>9, <1>15
  <2>4. /\ new.queue \in Seq(Updates) /\ WaitsFor(new.queue, Room')
        /\ \A k \in DOMAIN new.queue : UpdateOfRoom(new.queue[k], Room')
    BY <1>4, <1>9, <1>11, <1>15
  <2>5. /\ HasNow(new.agent, Room') /\ new.agent \in Agent /\ new.agent.started = FALSE
        /\ new.agent.loaded = {} /\ new.agent.frame = 0
    BY <1>7, <1>9, <1>13
  <2> QED
    BY <1>9, <2>1, <2>2, <2>3, <2>4, <2>5, JoinIsUpToDate
<1>16. LinkOK(new, Room')
  <2>1. new.cause = "gave up" => new.early = TRUE \/ new.recovered = TRUE
    BY <1>4, <1>9
  <2>2. LinkInv(new, Room')
    BY <1>9, <1>11, <1>12, <1>14, <1>15, <2>1 DEF LinkInv
  <2> QED
    BY <1>4, <1>9, <2>2 DEF LinkOK
<1>17. links' = [k \in Names |-> Heard(next[k], <<>>)]
  BY <1>1, <1>3 DEF Broadcast, Heard
<1>18. links'[n] = new
  BY <1>9, <1>10, <1>16, <1>17, HeardNothing DEF LinkOK
<1>19. \A k \in Names : k # n => /\ LinkOK(links'[k], Room')
                                 /\ links'[k].session = links[k].session
  <2> SUFFICES ASSUME NEW k \in Names, k # n
               PROVE  LinkOK(links'[k], Room') /\ links'[k].session = links[k].session
    OBVIOUS
  <2>1. links'[k] = Heard(links[k], <<>>) /\ LinkOK(links[k], Room)
    BY <1>10, <1>17, LinksOK
  <2>2. LinksGoOn({}, Room, <<>>, Room')
    BY <1>1 DEF RoomSteps
  <2> QED
    BY <2>1, <2>2, HeardKeeps
<1>20. \A k \in Names : LinkOK(links'[k], Room') /\ links'[k].session < nextSession'
  BY <1>5, <1>9, <1>16, <1>18, <1>19, LinksOK
<1>21. \A j, k \in Names :
         j # k /\ links'[j].session # 0 => links'[j].session # links'[k].session
  BY <1>5, <1>9, <1>18, <1>19, LinksOK
<1>22. links' \in [Names -> Link]
  BY <1>17, <1>20 DEF LinkOK
<1> QED
  BY <1>1, <1>20, <1>21, <1>22, LinksOKNext DEF RoomSteps, LinksGoOn


(* What the snapshot tells. *)
LEMMA RestoredFacts ==
  ASSUME Inductive, Phase \notin {"Playing", "Ended"}, NEW a \in Agent
  PROVE  LET b == Restored(a, CurrentRoster(revision, players)) IN
         /\ b \in Agent /\ b.player = a.player /\ b.frame = a.frame
         /\ OfRoom(a.roster, Room) => HasNow(b, Room)
         /\ started = TRUE => b.started = TRUE /\ b.loaded = a.loaded \cup Room.loaded
         /\ started = FALSE => b.started = a.started /\ b.loaded = a.loaded
         /\ gameplayActive = FALSE /\ gameEnded = FALSE
<1> DEFINE roster == CurrentRoster(revision, players)
           u == [type |-> "Roster", roster |-> roster]
           c == Follow(a, u)
           b == Restored(a, roster)
<1>1. /\ revision \in Nat /\ Connected \subseteq PlayerIds /\ started \in BOOLEAN
      /\ gameplayActive \in BOOLEAN /\ gameEnded \in BOOLEAN
      /\ players \in [Connected -> ConnectedPlayer]
  BY DEF Inductive, TypeOK, RosterTyped, GameTyped
<1>2. /\ gameplayActive = FALSE /\ gameEnded = FALSE
      /\ Phase = "Loading" <=> started = TRUE
  BY <1>1 DEF Phase
<1>3. roster \in Roster /\ roster.revision = revision /\ roster.players = Connected
  BY <1>1 DEF CurrentRoster, Roster, Connected
<1>4. u.type = "Roster" /\ u.roster = roster
  OBVIOUS
<1>5. b = IF Phase # "Loading" THEN c
          ELSE [c EXCEPT !.started = TRUE,
                         !.loaded = @ \cup {p \in Connected : players[p].loaded}]
  BY DEF Restored
<1> HIDE DEF roster, u, b
<1>6. a.roster \in Roster /\ a.roster.revision \in Nat
  BY DEF Agent, Roster
<1>7. /\ c \in Agent /\ c.player = a.player /\ c.frame = a.frame
      /\ c.started = a.started /\ c.loaded = a.loaded
      /\ OfRoom(a.roster, Room) => c.roster.revision = revision /\ c.roster.players = Connected
  <2>1. CASE roster.revision > a.roster.revision
    <3>1. c = [a EXCEPT !.roster = roster]
      BY <1>3, <1>4, <2>1, ReadsRoster
    <3> HIDE DEF c
    <3> QED
      BY <1>3, <3>1 DEF Agent
  <2>2. CASE roster.revision <= a.roster.revision
    <3>1. c = a
      BY <1>3, <1>4, <2>2, ReadsRoster
    <3>2. OfRoom(a.roster, Room) => a.roster.revision = revision /\ a.roster.players = Connected
      <4>1. OfRoom(a.roster, Room) =>
              /\ a.roster.revision <= revision
              /\ a.roster.revision = revision => a.roster.players = Connected
        BY RoomFields DEF OfRoom
      <4> QED
        BY <1>1, <1>3, <1>6, <2>2, <4>1
    <3> QED
      BY <3>1, <3>2
  <2> QED
    BY <1>1, <1>3, <1>6, <2>1, <2>2
<1> HIDE DEF c
<1>8. {p \in Connected : players[p].loaded} = Room.loaded /\ Room.loaded \subseteq PlayerIds
  <2>1. \A p \in Connected : players[p].loaded \in BOOLEAN
    BY <1>1 DEF ConnectedPlayer
  <2>2. \A p \in Connected : players[p].loaded <=> players[p].loaded = TRUE
    BY <2>1
  <2> QED
    BY <1>1, <2>2, RoomFields
<1>9. CASE started = TRUE
  <2>1. b = [c EXCEPT !.started = TRUE, !.loaded = c.loaded \cup Room.loaded]
    BY <1>2, <1>5, <1>7, <1>8, <1>9 DEF Agent
  <2>2. /\ b \in Agent /\ b.player = c.player /\ b.frame = c.frame /\ b.roster = c.roster
        /\ b.started = TRUE /\ b.loaded = c.loaded \cup Room.loaded
    BY <1>7, <1>8, <2>1 DEF Agent
  <2> QED
    BY <1>2, <1>7, <1>9, <2>2, RoomFields DEF HasNow, b, roster
<1>10. CASE started = FALSE
  <2>1. b = c
    BY <1>2, <1>5, <1>10
  <2> QED
    BY <1>2, <1>7, <1>10, <2>1, RoomFields DEF HasNow, b, roster
<1> QED
  BY <1>1, <1>9, <1>10

(* What still waits for an agent that was told the room of its own game is *)
(* no news to it.                                                          *)
LEMMA SnapshotIsNews ==
  ASSUME NEW room, RoomInv(room), RoomTyped(room), NEW a \in Agent, HasNow(a, room),
         a.started = room.started, room.active = FALSE, room.ended = FALSE,
         a.loaded \cap room.here = room.loaded,
         NEW u \in Updates, UpdateOfRoom(u, room), UpdateOfGame(u, room), Accepts(a, u)
  PROVE  Follow(a, u) = a
<1>1. CASE HasRoster(u)
  BY <1>1, OldRosterIsNoNews
<1>2. CASE u.type \in {"Countdown", "CountdownCancelled"}
  BY <1>2, ReadsCountdown
<1>3. CASE u.type = "Chat"
  BY <1>3, ReadsChat
<1>4. CASE u.type = "Start"
  <2>1. a.started = TRUE /\ Follow(a, u) = [a EXCEPT !.started = TRUE]
    BY <1>4, ReadsStart DEF UpdateOfGame
  <2> QED
    BY <2>1 DEF Agent
<1>5. CASE u.type = "PlayerLoaded"
  <2>1. u.player \in a.roster.players /\ Follow(a, u) = [a EXCEPT !.loaded = @ \cup {u.player}]
    BY <1>5, ReadsLoaded DEF Accepts
  <2>2. u.player \in a.loaded
    BY <1>5, <2>1 DEF HasNow, UpdateOfGame
  <2>3. a.loaded \cup {u.player} = a.loaded
    BY <2>2
  <2>4. Follow(a, u) = [a EXCEPT !.loaded = a.loaded \cup {u.player}]
    BY <2>1
  <2> QED
    BY <2>3, <2>4 DEF Agent
<1>6. u.type # "GameFrame"
  BY DEF UpdateOfGame
<1>7. u.type # "GameEnded"
  BY ReadsEnded DEF Accepts
<1> QED
  BY <1>1, <1>2, <1>3, <1>4, <1>5, <1>6, <1>7, UpdateTypes DEF HasRoster

LEMMA SendSnapshotKeeps ==
  ASSUME DeliveryInv, Inductive, NEW n \in Names, SendSnapshot(n)
  PROVE  DeliveryInv'
<1> DEFINE link == links[n]
           b == Restored(link.agent, CurrentRoster(revision, players))
           new == [link EXCEPT !.stage = "member", !.recovered = TRUE, !.agent = b]
<1>1. /\ link \in Link /\ LinkInv(link, Room) /\ link.stage = "snapshot"
      /\ Len(link.queue) <= Capacity /\ link.queue \in Seq(Updates) /\ link.agent \in Agent
  BY LinksOK DEF SendSnapshot, LinkOK, Link
<1>2. links' = [links EXCEPT ![n] =
        IF Phase \in {"Playing", "Ended"} THEN Closing(link, "lagged")
        ELSE [link EXCEPT !.stage = "member", !.recovered = TRUE,
               !.agent = Restored(@, CurrentRoster(revision, players))]]
  BY DEF SendSnapshot
<1>3. [link EXCEPT !.stage = "member", !.recovered = TRUE,
               !.agent = Restored(@, CurrentRoster(revision, players))] = new
  BY <1>1 DEF Link
<1> HIDE DEF link, b
<1>4. CASE Phase \in {"Playing", "Ended"}
  <2>1. LinkOK(Closing(link, "lagged"), Room)
        /\ Closing(link, "lagged").session = link.session
    BY <1>1, ClosingKeeps DEF Causes
  <2> QED
    BY <1>2, <1>4, <2>1, OneLinkKeeps DEF SendSnapshot, link
<1>5. CASE Phase \notin {"Playing", "Ended"}
  <2>1. /\ b \in Agent /\ b.player = link.agent.player /\ b.frame = link.agent.frame
        /\ OfRoom(link.agent.roster, Room) => HasNow(b, Room)
        /\ started = TRUE => b.started = TRUE /\ b.loaded = link.agent.loaded \cup Room.loaded
        /\ started = FALSE => b.started = link.agent.started /\ b.loaded = link.agent.loaded
        /\ gameplayActive = FALSE /\ gameEnded = FALSE
    BY <1>1, <1>5, RestoredFacts DEF b
  <2>2. /\ new \in Link /\ new.stage = "member" /\ new.session = link.session
        /\ new.queue = link.queue /\ new.lagged = link.lagged /\ new.agent = b
        /\ new.cause = link.cause /\ new.early = link.early /\ new.recovered = TRUE
    BY <1>1, <2>1 DEF Link, Stages
  <2> HIDE DEF new
  <2>3. Seated(new, Room)
    BY <1>1, <2>1, <2>2 DEF LinkInv, Seated
  <2>4. RoomInv(Room) /\ RoomTyped(Room)
    BY RoomIsTyped DEF DeliveryInv, Inductive
  <2>5. \A k \in DOMAIN new.queue : UpdateOfRoom(new.queue[k], Room)
    BY <1>1, <2>2 DEF LinkInv, Listens
  <2>6. ASSUME new.early = FALSE
        PROVE  /\ AgentOfGame(b, Room)
               /\ \A k \in DOMAIN new.queue : UpdateOfGame(new.queue[k], Room)
               /\ UpToDate(new, Room)
    <3>1. /\ AgentOfGame(link.agent, Room)
          /\ \A k \in DOMAIN new.queue : UpdateOfGame(new.queue[k], Room)
      BY <1>1, <2>2, <2>6 DEF LinkInv
    <3>2. HasNow(b, Room)
      BY <2>1, <3>1 DEF AgentOfGame
    <3>3. /\ Room.active = FALSE /\ Room.ended = FALSE /\ started = Room.started
          /\ started \in BOOLEAN
      BY <2>1, <2>4, RoomFields DEF RoomTyped
    <3>4. /\ b.started = Room.started /\ b.loaded \cap Room.here = Room.loaded
          /\ Room.started = FALSE => b.loaded = {}
      <4>1. CASE started = TRUE
        BY <2>1, <2>4, <3>1, <3>3, <4>1 DEF AgentOfGame, RoomInv
      <4>2. CASE started = FALSE
        <5>1. link.agent.started \in BOOLEAN
          BY <1>1 DEF Agent
        <5> QED
          BY <2>1, <2>4, <3>1, <3>3, <4>2, <5>1 DEF AgentOfGame, RoomInv
      <4> QED
        BY <3>3, <4>1, <4>2
    <3>5. b.frame = 0
      BY <2>1, <3>1, <3>3 DEF AgentOfGame
    <3>6. AgentOfGame(b, Room)
      <4>1. OfRoom(b.roster, Room)
        BY <2>4, <3>2 DEF HasNow, OfRoom, RoomTyped
      <4> QED
        BY <3>4, <3>5, <4>1 DEF AgentOfGame
    <3>7. Knows(b, Room)
      <4>1. KnowsRoster(b, Room)
        BY <2>2, <2>3, <2>4, <3>2, NowIsKnown DEF Seated
      <4>2. KnowsGame(b, Room)
        BY <3>3, <3>4, <3>5 DEF KnowsGame
      <4> QED
        BY <2>1, <4>1, <4>2 DEF Knows
    <3>8. \A k \in DOMAIN new.queue :
            Accepts(b, new.queue[k]) => Follow(b, new.queue[k]) = b
      <4> SUFFICES ASSUME NEW k \in DOMAIN new.queue, Accepts(b, new.queue[k])
                   PROVE  Follow(b, new.queue[k]) = b
        OBVIOUS
      <4> DEFINE u == new.queue[k]
      <4>1. /\ u \in Updates /\ UpdateOfRoom(u, Room) /\ UpdateOfGame(u, Room)
            /\ Accepts(b, u)
        BY <1>1, <2>2, <2>5, <3>1
      <4> HIDE DEF u
      <4>2. Follow(b, u) = b
        BY <2>1, <2>4, <3>2, <3>3, <3>4, <4>1, SnapshotIsNews
      <4> QED
        BY <4>2 DEF u
    <3>9. \E run : Follows(run, b, new.queue, Room, FALSE)
      BY <1>1, <2>2, <3>7, <3>8, NothingNews
    <3>10. UpToDate(new, Room)
      <4>1. Steady(new) = FALSE
        BY <2>2 DEF Steady
      <4> QED
        BY <2>2, <3>9, <4>1 DEF UpToDate
    <3> QED
      BY <3>1, <3>6, <3>10
  <2>7. LinkInv(new, Room)
    BY <2>2, <2>3, <2>5, <2>6 DEF LinkInv
  <2>8. LinkOK(new, Room)
    BY <1>1, <2>2, <2>7 DEF LinkOK
  <2> QED
    BY <1>2, <1>3, <1>5, <2>2, <2>8, OneLinkKeeps DEF SendSnapshot, link
<1> QED
  BY <1>4, <1>5

----------------------------------------------------------------------------
(* The steps of the room. *)

LEMMA LeavingKeeps ==
  ASSUME DeliveryInv, RoomHolds, NEW n \in Names, NEW m, Socket(n, m), Idle(m), LeaveRoom(m),
         NEW new, LinkOK(new, Room), new.session \in {0, links[n].session},
         new.stage \notin {"member", "snapshot"},
         Broadcast([links EXCEPT ![n] = new])
  PROVE  DeliveryInv'
<1> DEFINE next == [links EXCEPT ![n] = new]
           gone == IF SessionMatches(m) THEN {m.player} ELSE {}
<1>1. next[n] = new /\ \A k \in Names : k # n => next[k] = links[k]
  BY LinksOK
<1>2. LinksGoOn(gone, Room, sent', Room')
  BY LeaveRoomGoesOn
<1>3. nextSession' = nextSession /\ nextSession \in Nat /\ 0 < nextSession
  <2>1. nextSession \in Sessions
    BY DEF RoomHolds, Inductive, TypeOK, RosterTyped
  <2>2. nextSession' = nextSession
    BY DEF LeaveRoom, LeaveSeat, rosterVars
  <2> QED
    BY <2>1, <2>2 DEF Sessions
<1>4. ASSUME NEW k \in Names, next[k].stage \in {"member", "snapshot"}
      PROVE  next[k].agent.player \notin gone
  <2>1. k # n /\ next[k] = links[k]
    BY <1>1, <1>4
  <2>2. Seated(links[k], Room)
    BY <1>4, <2>1, LinksOK DEF LinkOK, LinkInv
  <2>3. ASSUME SessionMatches(m), links[k].agent.player = m.player PROVE FALSE
    <3>1. m.player \in Connected /\ players[m.player].session = links[n].session
      BY <2>3 DEF SessionMatches, Socket
    <3>2. links[k].session = links[n].session
      BY <2>2, <2>3, <3>1, RoomFields DEF Seated
    <3>3. links[n].session # 0
      BY <3>1, RoomHoldsTyped DEF ConnectedPlayer, Sessions
    <3> QED
      BY <2>1, <3>2, <3>3, LinksOK
  <2> QED
    BY <2>1, <2>3
<1> HIDE DEF gone
<1>5. Broadcast(next)
  OBVIOUS
<1> HIDE DEF next
<1>6. \A k \in Names : /\ LinkOK(next[k], Room)
                       /\ next[k].session \in {0, links[k].session}
                       /\ next[k].stage \in {"member", "snapshot"} =>
                            next[k].agent.player \notin gone
  <2>1. \A k \in Names : LinkOK(next[k], Room) /\ next[k].session \in {0, links[k].session}
    BY <1>1, LinksOK
  <2> QED
    BY <1>4, <2>1
<1> QED
  BY <1>2, <1>3, <1>5, <1>6, BroadcastKeeps

LEMMA LeaveKeeps ==
  ASSUME DeliveryInv, RoomHolds, NEW n \in Names, Leave(n)
  PROVE  DeliveryInv'
<1>1. PICK m \in memberships : Socket(n, m) /\ LeaveByMessage(m)
  BY DEF Leave
<1> DEFINE new == Closing(links[n], "left")
<1>2. LinkOK(new, Room) /\ new.session = links[n].session /\ new.stage = "closing"
  <2>1. links[n] \in Link
    BY LinksOK
  <2> QED
    BY <2>1, ClosingKeeps DEF Causes
<1>3. Broadcast([links EXCEPT ![n] = new])
  <2>1. [links EXCEPT ![n] = Closing(@, "left")] = [links EXCEPT ![n] = new]
    BY LinksOK
  <2> QED
    BY <2>1 DEF Leave
<1>4. Idle(m) /\ LeaveRoom(m)
  BY <1>1 DEF LeaveByMessage
<1> HIDE DEF new
<1> QED
  BY <1>1, <1>2, <1>3, <1>4, LeavingKeeps

LEMMA CloseKeeps ==
  ASSUME DeliveryInv, RoomHolds, NEW n \in Names, Close(n)
  PROVE  DeliveryInv'
<1>1. PICK m \in memberships \cup departed : Socket(n, m) /\ Disconnect(m)
  BY DEF Close
<1>2. Idle(m) /\ LeaveRoom(m)
  BY <1>1 DEF Disconnect
<1>3. Broadcast([links EXCEPT ![n] = ClosedLink])
  BY DEF Close
<1> DEFINE new == ClosedLink
<1>4. LinkOK(new, Room) /\ new.session = 0 /\ new.stage = "closed"
  BY ClosedKeeps, ClosedShape
<1>5. Broadcast([links EXCEPT ![n] = new])
  BY <1>3
<1> HIDE DEF new
<1> QED
  BY <1>1, <1>2, <1>4, <1>5, LeavingKeeps

(* A step of the room that leaves everybody where they are. *)
LEMMA RoomStepKeeps ==
  ASSUME DeliveryInv, Inductive, RoomSteps, nextSession' = nextSession, Broadcast(links)
  PROVE  DeliveryInv'
<1>1. nextSession \in Nat /\ 0 < nextSession
  BY DEF Inductive, TypeOK, RosterTyped, Sessions
<1>2. LinksGoOn({}, Room, sent', Room')
  BY DEF RoomSteps
<1> DEFINE next == links
           gone == {}
<1>3. Broadcast(next) /\ LinksGoOn(gone, Room, sent', Room')
  BY <1>2
<1>4. \A k \in Names : /\ LinkOK(next[k], Room)
                       /\ next[k].session \in {0, links[k].session}
                       /\ next[k].stage \in {"member", "snapshot"} =>
                            next[k].agent.player \notin gone
  BY LinksOK
<1> HIDE DEF next, gone
<1> QED
  BY <1>1, <1>3, <1>4, BroadcastKeeps

LEMMA CallKeeps ==
  ASSUME DeliveryInv, RoomHolds, NEW n \in Names, Call(n)
  PROVE  DeliveryInv'
<1>1. PICK m \in memberships : Asks(m, links[n].agent)
  BY DEF Call
<1>2. Broadcast(links) /\ Inductive
  BY DEF Call, RoomHolds
<1>3. RoomSteps /\ nextSession' = nextSession
  <2>1. CASE MarkReady(m)
    BY <2>1, MarkReadyGoesOn DEF MarkReady
  <2>2. CASE RequestManualStart(m)
    BY <2>2, RequestGoesOn DEF RequestManualStart, rosterVars
  <2>3. CASE MarkLoaded(m)
    BY <2>3, LoadedGoesOn DEF MarkLoaded
  <2>4. CASE \E message \in Messages : PublishChat(m, message)
    BY <2>4, ChatGoesOn DEF PublishChat, rosterVars
  <2>5. ASSUME NEW sequence, SubmitAction(m, sequence)
        PROVE  RoomSteps /\ nextSession' = nextSession
    BY <2>5, SubmitGoesOn DEF SubmitAction
  <2>6. ASSUME NEW sequence, NEW checksum, SubmitKeepalive(m, sequence, checksum)
        PROVE  RoomSteps /\ nextSession' = nextSession
    <3>1. nextSession' = nextSession
      BY <2>6 DEF SubmitKeepalive
    <3> QED
      BY <2>6, <3>1, KeepaliveGoesOn
  <2> QED
    BY <1>1, <2>1, <2>2, <2>3, <2>4, <2>5, <2>6 DEF Asks
<1> QED
  BY <1>2, <1>3, RoomStepKeeps

LEMMA RoomTaskKeeps ==
  ASSUME DeliveryInv, RoomHolds, RoomTask
  PROVE  DeliveryInv'
<1>1. Broadcast(links) /\ Inductive
  BY DEF RoomTask, RoomHolds
<1>2. RoomSteps /\ nextSession' = nextSession
  <2>1. CASE CountdownTask
    <3>1. PICK t \in countdownTasks : CountdownTick(t) \/ CountdownStart(t) \/ CountdownStale(t)
      BY <2>1 DEF CountdownTask
    <3>2. nextSession' = nextSession
      BY <3>1 DEF CountdownTick, CountdownStart, CountdownStale, rosterVars
    <3> QED
      BY <3>1, <3>2, CountdownGoesOn, StartGoesOn
  <2>2. CASE GameplayTask
    <3>1. PICK g \in gameplayTasks : GameplayTick(g) \/ GameplayStop(g)
      BY <2>2 DEF GameplayTask
    <3>2. nextSession' = nextSession
      BY <3>1 DEF GameplayTick, GameplayStop, rosterVars
    <3> QED
      BY <3>1, <3>2, TickGoesOn, TimerGoesOn
  <2>3. CASE TimerTask
    BY <2>3, TimerGoesOn DEF TimerTask, LastPlayerTimer, rosterVars
  <2>4. CASE EndTask
    BY <2>4, EndGoesOn DEF EndTask, EndGame, rosterVars
  <2>5. CASE SendTask
    BY <2>5, SendGoesOn DEF SendTask, SendUnlocked, rosterVars
  <2> QED
    BY <2>1, <2>2, <2>3, <2>4, <2>5 DEF RoomTask
<1> QED
  BY <1>1, <1>2, RoomStepKeeps

----------------------------------------------------------------------------
(* The invariant of the sessions. *)

LEMMA InitDelivered ==
  ASSUME DeliveryInit PROVE DeliveryInv
<1>1. Init /\ links = [n \in Names |-> ClosedLink]
  BY DEF DeliveryInit
<1>2. Connected = {}
  BY <1>1 DEF Init, Connected
<1>3. RoomInv(Room)
  <2>1. /\ Room.here = {} /\ Room.loaded = {} /\ Room.unsent = {}
        /\ Room.started = FALSE /\ Room.active = FALSE /\ Room.ended = FALSE
    BY <1>1, <1>2, RoomFields DEF Init
  <2> QED
    BY <2>1 DEF RoomInv
<1>4. \A n \in Names : links[n] = ClosedLink
  BY <1>1
<1>5. DeliveryTypeOK /\ \A n \in Names : LinkInv(links[n], Room)
  BY <1>1, <1>4, ClosedKeeps, ClosedShape DEF LinkOK, DeliveryTypeOK
<1>6. SessionsInv
  <2>1. nextSession = 1
    BY <1>1 DEF Init
  <2> QED
    BY <1>4, <2>1, ClosedShape DEF SessionsInv
<1> QED
  BY <1>3, <1>5, <1>6 DEF DeliveryInv

(* Whatever the sessions do, the room does a step of its own. *)
LEMMA RoomMoves ==
  ASSUME [DeliveryNext]_deliveryVars PROVE [Next]_vars
<1>1. CASE RoomTask
  BY <1>1 DEF RoomTask, Next
<1>2. ASSUME NEW n \in Names, Subscribe(n) \/ Reject(n) \/ RefusedCall(n) \/ Deliver(n)
                              \/ NoticeLag(n) \/ SendSnapshot(n)
      PROVE  UNCHANGED vars
  BY <1>2 DEF Subscribe, Reject, RefusedCall, Deliver, NoticeLag, SendSnapshot
<1>3. ASSUME NEW n \in Names, Enter(n) \/ Call(n) \/ Leave(n) \/ Close(n) PROVE ClientCall
  <2>1. CASE Enter(n)
    BY <2>1 DEF Enter, ClientCall
  <2>2. CASE Call(n)
    BY <2>2 DEF Call, Asks, ClientCall
  <2>3. CASE Leave(n)
    BY <2>3 DEF Leave, ClientCall
  <2>4. CASE Close(n)
    BY <2>4 DEF Close, ClientCall
  <2> QED
    BY <1>3, <2>1, <2>2, <2>3, <2>4
<1>4. CASE UNCHANGED deliveryVars
  BY <1>4 DEF deliveryVars
<1> QED
  BY <1>1, <1>2, <1>3, <1>4 DEF DeliveryNext, Next

LEMMA SessionsStep ==
  ASSUME Inductive, Inductive', DeliveryInv, [DeliveryNext]_deliveryVars
  PROVE  DeliveryInv'
<1>1. RoomHolds
  BY DEF RoomHolds, DeliveryInv
<1>2. CASE RoomTask
  BY <1>1, <1>2, RoomTaskKeeps
<1>3. ASSUME NEW n \in Names, Subscribe(n) \/ Enter(n) \/ Reject(n) PROVE DeliveryInv'
  BY <1>1, <1>3, SubscribeKeeps, EnterKeeps, RejectKeeps
<1>4. ASSUME NEW n \in Names, Call(n) \/ Leave(n) \/ RefusedCall(n) PROVE DeliveryInv'
  BY <1>1, <1>4, CallKeeps, LeaveKeeps, RefusedKeeps
<1>5. ASSUME NEW n \in Names, Deliver(n) \/ NoticeLag(n) PROVE DeliveryInv'
  BY <1>5, DeliverKeeps, NoticeLagKeeps
<1>6. ASSUME NEW n \in Names, SendSnapshot(n) \/ Close(n) PROVE DeliveryInv'
  BY <1>1, <1>6, SendSnapshotKeeps, CloseKeeps
<1>7. CASE UNCHANGED deliveryVars
  <2>1. links' = links /\ nextSession' = nextSession /\ Room' = Room
    BY <1>7 DEF deliveryVars, vars, rosterVars, gameVars, Room, RoomAt, Connected
  <2>2. /\ \A k \in Names : LinkOK(links'[k], Room') /\ links'[k].session < nextSession'
        /\ \A j, k \in Names :
             j # k /\ links'[j].session # 0 => links'[j].session # links'[k].session
        /\ links' \in [Names -> Link] /\ RoomInv(Room')
    BY <2>1, LinksOK DEF DeliveryInv
  <2> QED
    BY <2>2, LinksOKNext
<1> QED
  BY <1>2, <1>3, <1>4, <1>5, <1>6, <1>7 DEF DeliveryNext

(* The room of a system with sessions is the room that was proved safe. *)
THEOREM RoomUnderSessions == DeliverySpec => Spec
<1>1. DeliveryInit => Init
  BY DEF DeliveryInit
<1>2. [DeliveryNext]_deliveryVars => [Next]_vars
  BY RoomMoves
<1> QED
  BY <1>1, <1>2, PTL DEF DeliverySpec, Spec

(* The invariant of the sessions: each that neither lags nor lags behind a *)
(* snapshot taken over an earlier game has an agent that, reading what its *)
(* receiver holds, comes to know the room as it is.                        *)
THEOREM SessionsHold == DeliverySpec => []DeliveryInv
<1>1. DeliveryInit => DeliveryInv
  BY InitDelivered
<1>2. Inductive /\ Inductive' /\ DeliveryInv /\ [DeliveryNext]_deliveryVars => DeliveryInv'
  BY SessionsStep
<1>3. DeliverySpec => []Inductive
  BY RoomUnderSessions, InductiveHolds, PTL
<1> QED
  BY <1>1, <1>2, <1>3, PTL DEF DeliverySpec

LEMMA ReadAllKnowsAll ==
  ASSUME Inductive, DeliveryInv, NEW n \in Names, links[n].stage = "member",
         links[n].queue = <<>>, ~links[n].lagged, unsent = {},
         ~(links[n].early /\ links[n].recovered)
  PROVE  /\ links[n].agent.roster = CurrentRoster(revision, players)
         /\ links[n].agent.started = started
         /\ started => links[n].agent.loaded \cap Connected
                         = {p \in Connected : players[p].loaded}
         /\ gameplayActive => links[n].agent.frame = gameplaySequence
         /\ ~gameEnded
<1> DEFINE link == links[n]
           a == link.agent
<1>1. /\ link \in Link /\ LinkInv(link, Room) /\ link.stage = "member"
      /\ link.lagged = FALSE /\ link.queue = <<>>
      /\ link.early = FALSE \/ link.recovered = FALSE
  BY LinksOK DEF LinkOK, Link
<1>2. UpToDate(link, Room)
  BY <1>1 DEF LinkInv
<1>3. ~TellsOfEmptyRoom(link.queue)
  BY <1>1 DEF TellsOfEmptyRoom
<1>4. PICK run : Follows(run, a, link.queue, Room, Steady(link))
  BY <1>2, <1>3 DEF UpToDate
<1>5. Knows(a, Room)
  <2>1. Len(link.queue) = 0 /\ 0 + 1 = 1
    BY <1>1
  <2>2. AcceptsUpTo(run, link.queue, 0)
    BY DEF AcceptsUpTo
  <2>3. run[1] = a /\ Knows(run[1], Room)
    BY <1>4, <2>1, <2>2 DEF Follows, Reads, ComesToKnow
  <2> QED
    BY <2>3
<1> HIDE DEF a, link
<1>6. /\ started \in BOOLEAN /\ gameplayActive \in BOOLEAN /\ gameEnded \in BOOLEAN
      /\ players \in [Connected -> ConnectedPlayer]
  BY DEF Inductive, TypeOK, RosterTyped, GameTyped
<1>7. a.roster = CurrentRoster(revision, players)
  <2>1. Announced(Room) = {}
    BY RoomFields DEF Announced
  <2>2. a.roster.revision = revision /\ a.roster.players = Connected
    BY <1>5, <2>1, RoomFields DEF Knows, KnowsRoster, LatestComes, OfRoom
  <2>3. a.roster \in Roster
    BY <1>5 DEF Knows, Agent
  <2> QED
    BY <2>2, <2>3 DEF Roster, CurrentRoster, Connected
<1>8. {p \in Connected : players[p].loaded} = Room.loaded
  <2>1. \A p \in Connected : players[p].loaded \in BOOLEAN
    BY <1>6 DEF ConnectedPlayer
  <2>2. \A p \in Connected : players[p].loaded <=> players[p].loaded = TRUE
    BY <2>1
  <2> QED
    BY <2>2, RoomFields
<1>9. /\ a.started = started /\ a.loaded \cap Connected = Room.loaded
      /\ gameplayActive => a.frame = gameplaySequence
      /\ ~gameEnded
  BY <1>5, <1>6, RoomFields DEF Knows, KnowsGame
<1> QED
  BY <1>7, <1>8, <1>9 DEF a, link

(* run_lobby_session, the broadcast channel and the lag snapshot: an agent *)
(* that has read everything there was to read knows the room, whoever      *)
(* joined, left, chatted or lagged in between and in whatever order.       *)
THEOREM AgentsConvergeAlways == DeliverySpec => []AgentsConverge
<1>1. Inductive /\ DeliveryInv => AgentsConverge
  <2> SUFFICES ASSUME Inductive, DeliveryInv PROVE AgentsConverge
    OBVIOUS
  <2>1. DeliveryTypeOK
    BY DEF DeliveryInv
  <2> QED
    BY <2>1, ReadAllKnowsAll DEF AgentsConverge
<1>2. DeliverySpec => []Inductive
  BY RoomUnderSessions, InductiveHolds, PTL
<1> QED
  BY <1>1, <1>2, SessionsHold, PTL

(* The agent gives up on an update that does not fit: no session that      *)
(* joined with nothing waiting and never lagged ever meets one.            *)
THEOREM SteadySessionsFollowAlways == DeliverySpec => []SteadySessionsFollow
<1>1. DeliveryInv => SteadySessionsFollow
  BY LinksOK DEF LinkOK, LinkInv, SteadySessionsFollow
<1> QED
  BY <1>1, SessionsHold, PTL
=============================================================================
