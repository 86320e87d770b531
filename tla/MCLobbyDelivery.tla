-------------------------- MODULE MCLobbyDelivery --------------------------
(* Instances of the lobby room with its sessions for TLC. *)
EXTENDS LobbyDeliveryProperties, LobbyProperties, TLC

CONSTANTS n1, n2, m1

\* Names are compared and never ordered, so they may be permuted.
NameSymmetry == Permutations(Names)
=============================================================================
