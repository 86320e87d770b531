------------------------------ MODULE MCLobby ------------------------------
(* Instances of the lobby room for TLC. *)
EXTENDS LobbyInvariant, LobbyMatch, TLC

CONSTANTS n1, n2, n3

\* Names are compared and never ordered, so they may be permuted.
NameSymmetry == Permutations(Names)
=============================================================================
