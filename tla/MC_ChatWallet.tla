--------------------------- MODULE MC_ChatWallet ---------------------------
(* Two rooms, so that the recipient's room can be replaced by another one, *)
(* and enough presses for a request to be pending while the user leaves.  *)
EXTENDS ChatWallet

CONSTANTS r1, r2

MCRooms == {r1, r2}

=============================================================================
