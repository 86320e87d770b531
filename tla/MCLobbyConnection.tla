------------------------- MODULE MCLobbyConnection -------------------------
(* The intervals and limits of the code, in units of five seconds. *)
EXTENDS LobbyConnection

MCInterval == [e \in Ends |-> IF e = "agent" THEN 2 ELSE 3]
MCLimit == [e \in Ends |-> IF e = "agent" THEN 7 ELSE 9]
=============================================================================
