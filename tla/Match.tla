------------------------------- MODULE Match -------------------------------
(***************************************************************************)
(* What the lobby room promises to everybody around it, with no tasks, no  *)
(* generations, no player ids and no updates: a set of seats taken by      *)
(* sessions, and the phase the room reports in a control snapshot          *)
(* (LobbyPhase in apps/strajer-server/src/lobby.rs).  A match is open to   *)
(* new sessions only while it waits; from its countdown on it only loses   *)
(* seats, it is played by at least two that all loaded it together, it     *)
(* ends at most once, and only an empty room opens the next match.         *)
(***************************************************************************)
EXTENDS Integers

VARIABLES
  phase,  \* LobbyPhase
  seats,  \* the sessions that hold a seat
  issued  \* how many session ids were handed out; none comes twice

matchVars == <<phase, seats, issued>>

Phases == {"Waiting", "Countdown", "Loading", "Playing", "Ended"}
Several(s) == \E a, b \in s : a # b

MatchTypeOK ==
  /\ phase \in Phases
  /\ issued \in Nat
  /\ seats \subseteq 1..issued

MatchInit == phase = "Waiting" /\ seats = {} /\ issued = 0

Enter ==
  /\ phase = "Waiting"
  /\ issued' = issued + 1
  /\ seats' = seats \cup {issued + 1}
  /\ UNCHANGED phase

CountDown ==
  /\ phase = "Waiting" /\ seats # {}
  /\ phase' = "Countdown"
  /\ UNCHANGED <<seats, issued>>

Launch ==
  /\ phase = "Countdown"
  /\ phase' = "Loading"
  /\ UNCHANGED <<seats, issued>>

Play ==
  /\ phase = "Loading" /\ Several(seats)
  /\ phase' = "Playing"
  /\ UNCHANGED <<seats, issued>>

Finish ==
  /\ phase \in {"Loading", "Playing"}
  /\ phase' = "Ended"
  /\ UNCHANGED <<seats, issued>>

(* The last departure opens the room again.  Otherwise a departure calls   *)
(* off a countdown, may be what the others were loading for, and leaves a  *)
(* game that plays or has ended as it is.                                  *)
Depart(s) ==
  /\ s \in seats
  /\ seats' = seats \ {s}
  /\ phase' \in
       IF seats' = {} \/ phase \in {"Waiting", "Countdown"} THEN {"Waiting"}
       ELSE IF phase = "Loading" /\ Several(seats') THEN {"Loading", "Playing"}
       ELSE {phase}
  /\ UNCHANGED issued

MatchNext ==
  \/ Enter \/ CountDown \/ Launch \/ Play \/ Finish
  \/ \E s \in seats : Depart(s)

MatchSpec == MatchInit /\ [][MatchNext]_matchVars
=============================================================================
