--------------------------- MODULE ChecksumRounds ---------------------------
(* The search for a desync in apps/strajer-server/src/lobby.rs: every      *)
(* player reports one checksum per frame it has played, the room compares  *)
(* the players round by round, and a player whose reports outrun those of  *)
(* the slowest by a whole queue is refused, which ends its session.        *)
(*                                                                         *)
(* Module Lobby has the same steps among all others of the room, within a  *)
(* game of very few rounds and without the reports of the past; here a     *)
(* game has only its checksums and goes on, and what was reported is       *)
(* remembered, so that what the room compares can be compared with it.     *)
EXTENDS Naturals, Sequences

CONSTANTS
  PlayerIds,     \* the players of the game
  Checksums,
  MaxPending,  \* MAX_PENDING_CHECKSUMS_PER_PLAYER
  MaxRounds    \* bound: checksums of one player

RoundsAssumption ==
  PlayerIds # {} /\ MaxPending \in Nat \ {0} /\ MaxRounds \in Nat

VARIABLES
  present,   \* players in the room
  queues,    \* their checksums that wait for those of the others
  verdict,   \* whether a desync was found, and whether end_game has run
  consumed,  \* history: rounds that were compared
  reported   \* history: every checksum of every player

roundsVars == <<present, queues, verdict, consumed, reported>>

Verdicts == {"playing", "desync", "over"}

----------------------------------------------------------------------------
(* consume_checksum_consensus. *)

Complete(them, qs, i) == \A p \in them : i <= Len(qs[p])
Agree(them, qs, i) == \A p, q \in them : qs[p][i] = qs[q][i]

(* The loop ends after n rounds: with a mismatch, or somebody's last one.  *)
Stops(them, qs, n) ==
  /\ \A i \in 1..(n - 1) : Agree(them, qs, i)
  /\ \/ n > 0 /\ ~Agree(them, qs, n)
     \/ \E p \in them : n = Len(qs[p])

Consumes(them, qs, n) == Complete(them, qs, n) /\ Stops(them, qs, n)

WrongRest(qs, n) ==
  [p \in PlayerIds |-> IF Len(qs[p]) > n THEN SubSeq(qs[p], n + 1, Len(qs[p])) ELSE qs[p]]

(* Every queue loses the rounds that were compared. *)
Rest(qs, n) == [p \in PlayerIds |-> SubSeq(qs[p], n + 1, Len(qs[p]))]

----------------------------------------------------------------------------
(* The room's operations on a game that runs. *)

(* submit_keepalive; the lock is released before a desync ends the game.   *)
Report(p, c) ==
  /\ verdict # "over" /\ p \in present
  /\ Len(queues[p]) < MaxPending /\ Len(reported[p]) < MaxRounds
  /\ reported' = [reported EXCEPT ![p] = Append(@, c)]
  /\ LET qs == [queues EXCEPT ![p] = Append(@, c)]
     IN  \E n \in 0..MaxPending :
           /\ Consumes(present, qs, n)
           /\ queues' = Rest(qs, n)
           /\ consumed' = consumed + n
           /\ verdict' = IF n > 0 /\ ~Agree(present, qs, n) THEN "desync"
                                                            ELSE verdict
  /\ UNCHANGED present

(* leave: what the others wait with is compared when one of them reports.  *)
Goes(p) ==
  /\ present' = present \ {p}
  /\ queues' = [queues EXCEPT ![p] = <<>>]

Leave(p) ==
  /\ p \in present /\ Goes(p)
  /\ UNCHANGED <<verdict, consumed, reported>>

(* ChecksumQueueFull ends the socket task, which leaves. *)
RefuseKeepalive(p) ==
  /\ verdict # "over" /\ p \in present
  /\ Len(queues[p]) = MaxPending
  /\ Goes(p)
  /\ UNCHANGED <<verdict, consumed, reported>>

EndGame ==
  /\ verdict = "desync" /\ verdict' = "over"
  /\ UNCHANGED <<present, queues, consumed, reported>>

----------------------------------------------------------------------------
RoundsInit ==
  /\ present = PlayerIds
  /\ queues = [p \in PlayerIds |-> <<>>]
  /\ verdict = "playing"
  /\ consumed = 0
  /\ reported = [p \in PlayerIds |-> <<>>]

RoundsNext ==
  \/ \E p \in PlayerIds :
       \/ \E c \in Checksums : Report(p, c)
       \/ Leave(p)
       \/ RefuseKeepalive(p)
  \/ EndGame

RoundsSpec == RoundsInit /\ [][RoundsNext]_roundsVars

----------------------------------------------------------------------------
(* Every variable keeps its type, and no queue grows over its limit. *)
RoundsTypeOK ==
  /\ present \subseteq PlayerIds
  /\ queues \in [PlayerIds -> Seq(Checksums)]
  /\ verdict \in Verdicts
  /\ consumed \in Nat
  /\ reported \in [PlayerIds -> Seq(Checksums)]
  /\ \A p \in PlayerIds : Len(queues[p]) <= MaxPending

(* The room compares the k-th checksum of one player with the k-th of      *)
(* every other and with no other one, whoever reported faster and whoever  *)
(* left in between: what waits is what was reported since the last round.  *)
RoundsAligned ==
  \A p \in present :
    /\ Len(reported[p]) = consumed + Len(queues[p])
    /\ \A i \in 1..Len(queues[p]) : queues[p][i] = reported[p][consumed + i]

(* While no desync is found, everybody present reported the same in every  *)
(* round that was compared.                                                *)
InStepSoFar ==
  verdict = "playing" =>
    \A p, q \in present : \A i \in 1..consumed : reported[p][i] = reported[q][i]

(* No game is ended for a desync unless two of its players reported        *)
(* different checksums for one and the same round.                         *)
DesyncIsReal ==
  verdict # "playing" =>
    \E p, q \in PlayerIds, i \in 1..consumed :
      /\ i <= Len(reported[p]) /\ i <= Len(reported[q])
      /\ reported[p][i] # reported[q][i]

(* A session is refused only when somebody who played is a whole queue     *)
(* behind it; but whoever that is may have left, for its departure does    *)
(* not let the others' queues go.                                          *)
FullMeansLag ==
  verdict = "playing" => \E p \in PlayerIds : Len(reported[p]) = consumed

(* A verdict is about what the players reported: a desync is one, nothing  *)
(* that was compared is missed, rounds are never shifted, and a full queue *)
(* is the sign of a player who fell behind.                                *)
VerdictsAreJust ==
  /\ RoundsTypeOK /\ RoundsAligned /\ InStepSoFar /\ DesyncIsReal /\ FullMeansLag
=============================================================================
