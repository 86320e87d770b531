------------------------------- MODULE Relay --------------------------------
(* What one Warcraft says and the others are told: names, chat, actions    *)
(* and reasons to leave on their way through its agent, the room and the   *)
(* other agents, each of which checks the message by rules of its own      *)
(* (crates strajer-w3gs and strajer-protocol, remote_lobby.rs, http.rs).   *)
(* A hop that refuses a message ends the session in which it came.         *)
(*                                                                         *)
(* Here every message comes at a time when it may and none is lost: which  *)
(* ones the game allows, what a full channel loses and how it is recovered *)
(* are modules LobbyDelivery and AgentRoster.  A session is named after    *)
(* the seat that it gets.  A text is its length and what the hops look for *)
(* in it.                                                                  *)
EXTENDS Naturals, Sequences, FiniteSets

CONSTANTS
  Players,     \* player ids: 1 to human_player_capacity
  Texts, NoText,
  Actions,     \* lengths of the data of actions
  Codes,       \* reasons to leave, as Warcraft numbers them
  Versions,    \* LOBBY_SESSION_PROTOCOL_VERSION of the agents' builds
  Version,     \* that of the server's
  MaxReqJoin,  \* MAX_PLAYER_NAME_BYTES of req_join.rs
  MaxName, MaxClassicName, MaxTag,  \* MAX_LOBBY_PLAYER_NAME_, _BATTLE_TAG_BYTES
  MaxChat, MaxHostChat,             \* MAX_LOBBY_CHAT_, MAX_CHAT_MESSAGE_BYTES
  MaxControl,  \* MAX_LOBBY_CONTROL_MESSAGE_BYTES
  MaxData, MaxIncoming,             \* MAX_ACTION_DATA_, _INCOMING_ACTION_FRAME_BYTES
  MaxTunnel,   \* MAX_TUNNELED_W3GS_FRAME_BYTES
  MaxNotice,   \* bytes of the longest notice of manual_start_notice
  MaxSent      \* bound: frames of one Warcraft after it has joined

(* JSON writes a backslash before `escaped' characters of a text that has  *)
(* no control characters; `command' is !start.                             *)
Text == [bytes: Nat, escaped: Nat, control: BOOLEAN, utf8: BOOLEAN, command: BOOLEAN]

Envelope == 160   \* no message has more JSON around its text or its roster
SeatBytes == 44   \* nor a roster around a name

JsonText(t) == t.bytes + t.escaped

JsonRoster(names) ==
  LET Sum[n \in 0..Cardinality(Players)] ==
        IF n = 0 THEN 0
        ELSE Sum[n - 1] + (IF names[n] # NoText THEN SeatBytes + JsonText(names[n]) ELSE 0)
  IN  Sum[Cardinality(Players)]

ControlFits(bytes) == Envelope + bytes <= MaxControl

WrongValidName(t) == t.bytes > 0 /\ ~t.control
(* validate_lobby_player_name *)
ValidName(t) == t.bytes \in 1..MaxName /\ ~t.control

Names == [Players -> Texts \cup {NoText}]
ValidRoster(names) == \A p \in Players : names[p] # NoText => ValidName(names[p])

(* The limits of the hops fit each other. *)
RelayAssumption ==
  /\ IsFiniteSet(Players) /\ Players = 1..Cardinality(Players)
  /\ Texts \subseteq Text /\ NoText \notin Texts
  /\ \A t \in Texts : t.escaped <= t.bytes
  /\ Actions \subseteq Nat /\ Codes \subseteq Nat
  /\ {MaxReqJoin, MaxName, MaxClassicName, MaxTag, MaxChat, MaxHostChat, MaxControl, MaxData,
      MaxIncoming, MaxTunnel, MaxNotice, MaxSent} \subseteq Nat
  /\ MaxName <= MaxClassicName /\ MaxName <= MaxTag /\ ControlFits(2 * MaxName)
  /\ MaxChat <= MaxHostChat /\ MaxNotice \in 1..MaxChat /\ ControlFits(2 * MaxChat)
  /\ MaxData + 11 <= MaxIncoming /\ MaxIncoming <= MaxTunnel
  /\ ControlFits(Cardinality(Players) * (SeatBytes + 2 * MaxName))

VARIABLES
  seat,       \* per session: away, joining, in or gone
  room,       \* the names of the players in the room
  began,      \* the game has started
  inbox,      \* per session, what its agent has sent
  outbox,     \* per session, what the room has for its agent
  recent,     \* the last chat of a player, for a while
  forwarded,  \* history: what a Warcraft said and its agent passed on
  told,       \* history: what a Warcraft was told
  blamed,     \* history: by whose message a session was ended
  sent

vars == <<seat, room, began, inbox, outbox, recent, forwarded, told, blamed, sent>>

Members == {p \in Players : room[p] # NoText}

----------------------------------------------------------------------------
(* What the hops look for. *)

(* validate_lobby_chat_message *)
ValidChat(t) == t.bytes \in 1..MaxChat /\ ~t.control

(* ReqJoin::decode and decode_player_name: the name ends at its NUL.       *)
ReadsName(t) == t.bytes \in 1..MaxReqJoin /\ t.utf8

(* LobbyChatToHost::decode *)
ReadsChat(t) == t.bytes \in 1..MaxHostChat /\ ~t.control /\ t.utf8

(* player_info_frame and player_profile_frame *)
ShowsName(t) == t.bytes \in 1..MaxClassicName /\ t.bytes <= MaxTag

(* chat_from_host *)
ShowsChat(t) == t.bytes \in 1..MaxHostChat /\ ~t.control

Reasons == {"disconnect", "lost", "lost_buildings", "won", "draw", "observer", "lobby"}

W3gsCode(r) ==
  CASE r = "disconnect" -> 1 [] r = "lost" -> 7 [] r = "lost_buildings" -> 8 [] r = "won" -> 9
    [] r = "draw" -> 10 [] r = "observer" -> 11 [] r = "lobby" -> 13

(* LobbyLeaveReason::from_w3gs_code *)
ReasonOf(code) ==
  CASE code = 1 -> "disconnect" [] code = 7 -> "lost" [] code = 8 -> "lost_buildings"
    [] code = 9 -> "won" [] code = 10 -> "draw" [] code = 11 -> "observer" [] code = 13 -> "lobby"
    [] OTHER -> "unknown"

(* An action with its header and checksum, and alone in a frame of a tick. *)
ReadsAction(n) == n \in 0..MaxData
OutgoingBytes(n) == n + 8
IncomingBytes(n) == n + 11
KeepAliveBytes == 9

TunnelFits(bytes) == bytes \in 1..MaxTunnel

(* AgentLobbyMessage::validate, and AgentGameMessage and the frame in it.  *)
ServerTakes(m) ==
  CASE m.type = "Join" -> m.version = Version /\ ValidName(m.text) /\ ControlFits(JsonText(m.text))
    [] m.type = "Chat" -> ValidChat(m.text) /\ ControlFits(JsonText(m.text))
    [] m.type = "Action" -> ReadsAction(m.bytes) /\ TunnelFits(OutgoingBytes(m.bytes))
    [] OTHER -> TRUE

(* What the socket task can send, the agent of p takes and Warcraft's      *)
(* frames can hold.                                                        *)
RosterReaches(p, names) ==
  /\ ControlFits(JsonRoster(names)) /\ ValidRoster(names) /\ names[p] # NoText
  /\ \A q \in Players : names[q] # NoText => ShowsName(names[q])

Reaches(p, u) ==
  CASE u.type = "Joined" ->
         /\ RosterReaches(p, u.names)
         /\ [type |-> "Join", text |-> u.names[p], version |-> u.version] \in forwarded[p]
    [] u.type = "Roster" -> RosterReaches(p, u.names)
    [] u.type = "Left" -> RosterReaches(p, u.names) /\ u.by # p /\ u.names[u.by] = NoText
    [] u.type = "Chat" -> ControlFits(JsonText(u.text)) /\ ValidChat(u.text) /\ ShowsChat(u.text)
    [] u.type = "Notice" -> u.bytes \in 1..MaxChat /\ u.bytes <= MaxHostChat
    [] u.type = "Action" ->
         IncomingBytes(u.bytes) <= MaxIncoming /\ TunnelFits(IncomingBytes(u.bytes))
    [] u.type = "Rejected" -> FALSE
    [] OTHER -> TRUE

----------------------------------------------------------------------------
(* Warcraft and its agent: serve_join_connection and handle_lobby_frame.   *)

Ends(p, by) ==
  /\ seat' = [seat EXCEPT ![p] = "gone"]
  /\ blamed' = [blamed EXCEPT ![p] = @ \cup {by}]

Forward(p, m) ==
  /\ inbox' = [inbox EXCEPT ![p] = Append(@, m)]
  /\ forwarded' = [forwarded EXCEPT ![p] = @ \cup {m}]

Refuse(p) == Ends(p, p) /\ UNCHANGED <<inbox, forwarded>>

ReqJoin(p, t, v) ==
  /\ seat[p] = "away"
  /\ IF ReadsName(t) /\ ValidName(t) /\ ControlFits(JsonText(t))
       THEN /\ Forward(p, [type |-> "Join", text |-> t, version |-> v])
            /\ seat' = [seat EXCEPT ![p] = "joining"] /\ UNCHANGED blamed
       ELSE Refuse(p)
  /\ UNCHANGED <<room, began, outbox, recent, told, sent>>

Says(p) ==
  /\ seat[p] = "in" /\ sent[p] < MaxSent /\ sent' = [sent EXCEPT ![p] = @ + 1]
  /\ UNCHANGED <<room, began, outbox, recent, told>>

(* The agent forwards what it reads, or ends the session. *)
Passes(p, fits, m) ==
  IF fits THEN Forward(p, m) /\ UNCHANGED <<seat, blamed>> ELSE Refuse(p)

(* A message of another player is refused; other chat flags are ignored.   *)
ChatToHost(p, sender, t) ==
  /\ Says(p)
  /\ Passes(p, sender = p /\ ReadsChat(t) /\ ValidChat(t) /\ ControlFits(JsonText(t)),
            [type |-> "Chat", text |-> t])

(* Frames of the game; what is not `whole' has another length or checksum. *)
GameLoadedSelf(p, whole) == began /\ Says(p) /\ Passes(p, whole, [type |-> "Loaded"])

OutgoingAction(p, n, whole) ==
  /\ began /\ Says(p)
  /\ Passes(p, whole /\ ReadsAction(n) /\ TunnelFits(OutgoingBytes(n)),
            [type |-> "Action", bytes |-> n])

KeepAlive(p, whole) ==
  /\ began /\ Says(p)
  /\ Passes(p, whole /\ TunnelFits(KeepAliveBytes), [type |-> "KeepAlive"])

(* The agent is done when it has sent the reason. *)
LeaveRequest(p, code) ==
  /\ Says(p)
  /\ IF ReasonOf(code) \in Reasons
       THEN /\ Forward(p, [type |-> "Leave", reason |-> ReasonOf(code), code |-> code])
            /\ seat' = [seat EXCEPT ![p] = "gone"] /\ UNCHANGED blamed
       ELSE Refuse(p)

(* Warcraft or its agent is gone without a word. *)
Vanish(p) ==
  /\ seat[p] \in {"joining", "in"} /\ seat' = [seat EXCEPT ![p] = "gone"]
  /\ UNCHANGED <<room, began, inbox, outbox, recent, forwarded, told, blamed, sent>>

----------------------------------------------------------------------------
(* The room: receive_join_message, handle_active_agent_message and         *)
(* handle_active_agent_game_message, and what they call.                   *)

(* The queues after u went to the players with names. *)
Published(names, queues, u) ==
  [q \in Players |-> IF names[q] # NoText THEN Append(queues[q], u) ELSE queues[q]]

Takes(p) == seat[p] # "away" /\ inbox[p] # <<>> /\ inbox' = [inbox EXCEPT ![p] = Tail(@)]

TakeJoin(p) ==
  /\ Takes(p) /\ Head(inbox[p]).type = "Join"
  /\ LET m == Head(inbox[p])
         free == ~began /\ \A q \in Players : room[q] # m.text
     IN  IF ServerTakes(m) /\ free
           THEN /\ room' = [room EXCEPT ![p] = m.text]
                /\ LET joined == [type |-> "Joined", by |-> p, names |-> room', version |-> Version]
                       roster == [type |-> "Roster", by |-> p, names |-> room']
                   IN  outbox' =
                         Published(room', [outbox EXCEPT ![p] = Append(@, joined)], roster)
           ELSE /\ outbox' = [outbox EXCEPT ![p] = Append(@, [type |-> "Rejected", by |-> p])]
                /\ UNCHANGED room
  /\ UNCHANGED <<seat, began, recent, forwarded, told, blamed, sent>>

(* leave; with the session its receiver is gone. *)
LeaveRoom(p, r) ==
  /\ room' = [room EXCEPT ![p] = NoText] /\ recent' = [recent EXCEPT ![p] = NoText]
  /\ LET update == [type |-> IF began THEN "Left" ELSE "Roster",
                    by |-> p, names |-> room', reason |-> r]
     IN  outbox' = Published(room', [outbox EXCEPT ![p] = <<>>], update)

Tell(u) ==
  /\ outbox' = Published(room, outbox, u)
  /\ UNCHANGED <<seat, blamed, room>>

(* A chat that is repeated at once is dropped, a command answered.         *)
TakeChat(p, t) ==
  \/ /\ ~t.command
     /\ recent' = [recent EXCEPT ![p] = t]
     /\ Tell([type |-> "Chat", by |-> p, text |-> t])
  \/ /\ ~t.command /\ recent[p] = t
     /\ UNCHANGED <<seat, blamed, room, outbox, recent>>
  \/ /\ t.command
     /\ \/ outbox' = [outbox EXCEPT ![p] = Append(@, [type |-> "Notice", by |-> p,
                                                      bytes |-> MaxNotice])]
        \/ UNCHANGED outbox
     /\ UNCHANGED <<seat, blamed, room, recent>>

TakeMessage(p) ==
  /\ p \in Members /\ Takes(p)
  /\ LET m == Head(inbox[p])
     IN  IF ~ServerTakes(m) THEN Ends(p, p) /\ LeaveRoom(p, "disconnect")
         ELSE \/ m.type = "Chat" /\ TakeChat(p, m.text)
              \/ m.type = "Leave" /\ LeaveRoom(p, m.reason) /\ UNCHANGED <<seat, blamed>>
              \/ /\ m.type = "Loaded"
                 /\ Tell([type |-> "Loaded", by |-> p]) /\ UNCHANGED recent
              \/ /\ m.type = "Action"
                 /\ Tell([type |-> "Action", by |-> p, bytes |-> m.bytes]) /\ UNCHANGED recent
              \/ m.type = "KeepAlive" /\ UNCHANGED <<seat, blamed, room, outbox, recent>>
  /\ UNCHANGED <<began, forwarded, told, sent>>

(* The socket of an agent that is gone is closed. *)
Clean(p) ==
  /\ p \in Members /\ seat[p] = "gone" /\ inbox[p] = <<>>
  /\ LeaveRoom(p, "disconnect")
  /\ UNCHANGED <<seat, began, inbox, forwarded, told, blamed, sent>>

StartGame ==
  /\ ~began /\ began' = TRUE
  /\ Cardinality(Members) > 1 /\ outbox' = Published(room, outbox, [type |-> "Start"]) /\ UNCHANGED room
  /\ UNCHANGED <<seat, inbox, recent, forwarded, told, blamed, sent>>

----------------------------------------------------------------------------
(* The agent of somebody else: next_event and run_lobby_session.           *)

(* What Warcraft sees of an update. *)
Frame(u) ==
  CASE u.type = "Left" -> [type |-> "Left", by |-> u.by, code |-> W3gsCode(u.reason)]
    [] OTHER -> u

Hear(p) ==
  /\ seat[p] \in {"joining", "in"} /\ outbox[p] # <<>>
  /\ outbox' = [outbox EXCEPT ![p] = Tail(@)]
  /\ LET u == Head(outbox[p])
     IN  IF Reaches(p, u)
           THEN /\ seat' = [seat EXCEPT ![p] = "in"]
                /\ told' = [told EXCEPT ![p] = @ \cup {Frame(u)}]
                /\ UNCHANGED blamed
           ELSE Ends(p, u.by) /\ UNCHANGED told
  /\ UNCHANGED <<room, began, inbox, recent, forwarded, sent>>

----------------------------------------------------------------------------
Init ==
  /\ seat = [p \in Players |-> "away"]
  /\ room = [p \in Players |-> NoText] /\ recent = room
  /\ began = FALSE
  /\ inbox = [p \in Players |-> <<>>] /\ outbox = inbox
  /\ forwarded = [p \in Players |-> {}] /\ told = forwarded /\ blamed = forwarded
  /\ sent = [p \in Players |-> 0]

Next ==
  \/ \E p \in Players :
       \/ \E t \in Texts, v \in Versions : ReqJoin(p, t, v)
       \/ \E t \in Texts, sender \in Players : ChatToHost(p, sender, t)
       \/ \E whole \in BOOLEAN :
            \/ GameLoadedSelf(p, whole) \/ KeepAlive(p, whole)
            \/ \E n \in Actions : OutgoingAction(p, n, whole)
       \/ \E code \in Codes : LeaveRequest(p, code)
       \/ Vanish(p) \/ TakeJoin(p) \/ TakeMessage(p) \/ Clean(p) \/ Hear(p)
  \/ StartGame

Spec == Init /\ [][Next]_vars

----------------------------------------------------------------------------
(* Nobody's session ends because of what somebody else said: what the room *)
(* takes of one player, every later hop takes in the sessions of the       *)
(* others.                                                                 *)
OnlyTheSenderPays == \A p \in Players : blamed[p] \subseteq {p}

Said(u) ==
  CASE u.type = "Chat" -> [type |-> "Chat", text |-> u.text] \in forwarded[u.by]
    [] u.type = "Action" -> [type |-> "Action", bytes |-> u.bytes] \in forwarded[u.by]
    [] u.type \in {"Joined", "Roster"} ->
         \A q \in Players : u.names[q] # NoText =>
           \E m \in forwarded[q] : m.type = "Join" /\ m.text = u.names[q]
    [] u.type = "Left" ->
         IF \E m \in forwarded[u.by] : m.type = "Leave"
           THEN \E m \in forwarded[u.by] : m.type = "Leave" /\ m.code = u.code
           ELSE u.code = W3gsCode("disconnect")
    [] OTHER -> TRUE

(* What a Warcraft is told that another one said, that one said: its name, *)
(* its chat, its actions, and the reason for which it left, or that it was *)
(* disconnected when it gave none.                                         *)
HeardAsSaid == \A p \in Players : \A u \in told[p] : Said(u)

(* What is said reaches the others as it was said, and nobody pays for it. *)
RelaysFaithfully == OnlyTheSenderPays /\ HeardAsSaid
=============================================================================
