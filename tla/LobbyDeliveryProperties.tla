---------------------- MODULE LobbyDeliveryProperties ----------------------
(* What the sessions of module LobbyDelivery must keep, and what they do   *)
(* not keep although the code says so.                                     *)
EXTENDS LobbyDelivery

(* Every link has its type, and its receiver never holds more than the     *)
(* channel retains.                                                        *)
DeliveryTypeOK ==
  /\ links \in [Names -> Link]
  /\ \A n \in Names : Len(links[n].queue) <= Capacity

(* An agent that has read everything there was to read knows the room:     *)
(* the roster, although a join's roster is sent after others that are      *)
(* newer; the start and who has loaded it, although a lagging receiver     *)
(* lost some of these updates; and the last frame of a running game.  No   *)
(* agent is left in a game that has ended.  Excepted is the session that   *)
(* joined with updates of an earlier game waiting and then lost some of    *)
(* them: it may have read that game's start and lost the departure that    *)
(* emptied the room, and a snapshot takes no start back.                   *)
AgentsConverge ==
  /\ DeliveryTypeOK
  /\ \A n \in Names :
       LET link == links[n] IN
       /\ link.stage = "member" /\ link.queue = <<>> /\ ~link.lagged /\ unsent = {}
       /\ ~(link.early /\ link.recovered)
       => /\ link.agent.roster = CurrentRoster(revision, players)
          /\ link.agent.started = started
          /\ started =>
               link.agent.loaded \cap Connected = {p \in Connected : players[p].loaded}
          /\ gameplayActive => link.agent.frame = gameplaySequence
          /\ ~gameEnded

(* No update makes an agent give its session up, in whatever order the     *)
(* room's steps interleave: no frame is out of sequence, no chat comes     *)
(* from a stranger, no departure is older than the roster.  This is said   *)
(* of the sessions that never lagged and had no update waiting when they   *)
(* joined.                                                                 *)
SteadySessionsFollow ==
  \A n \in Names :
    links[n].cause = "gave up" => links[n].early \/ links[n].recovered

(* A game that has ended empties its room, and the room opens again: only  *)
(* the reset by the last one who leaves takes the end back.                *)
RoomReopens == []<>~gameEnded

----------------------------------------------------------------------------
(* Claims the code does not keep. *)

(* `snapshot pentru recuperarea update-urilor pierdute': a lagging session *)
(* that was sent the snapshot goes on.                                     *)
RecoveredSessionsGoOn ==
  \A n \in Names :
    links[n].cause = "gave up" => links[n].early \/ ~links[n].recovered

(* `celalalt Mac trebuie sa primeasca leave-ul si inchiderea               *)
(* determinista': whoever is in a game when it ends is told so, and no     *)
(* session ends with the error of its own last game message.               *)
GameEndIsTold == \A n \in Names : links[n].cause # "late"
=============================================================================
