----------------------------- MODULE LobbyMatch -----------------------------
(* The lobby room of module Lobby implements the promise of module Match.  *)
EXTENDS Lobby

(* control_snapshot's phase: what a lagging session is told. *)
Phase ==
  IF gameEnded THEN "Ended"
  ELSE IF gameplayActive THEN "Playing"
  ELSE IF started THEN "Loading"
  ELSE IF remaining # 0 THEN "Countdown"
  ELSE "Waiting"

Seats == {players[p].session : p \in Connected}

M == INSTANCE Match WITH
       phase <- Phase, seats <- Seats, issued <- nextSession - 1

(* Whatever the tasks, generations and half-finished calls do, observers   *)
(* of the phase and the seats see a match: nobody enters one that counts   *)
(* down or runs, it begins once, ends once, and only an empty room opens   *)
(* the next.                                                               *)
ImplementsMatch == M!MatchSpec
=============================================================================
