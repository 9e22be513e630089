------------------------- MODULE MCRoomParticipants -------------------------
(* RoomParticipants for TLC. *)
EXTENDS RoomParticipants, TLC

Symmetric == Permutations(Joiner) \union Permutations(User)
=============================================================================
