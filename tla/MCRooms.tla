------------------------------ MODULE MCRooms ------------------------------
(* Instances of Rooms for TLC. *)
EXTENDS Rooms, TLC

Symmetry == Permutations(Room) \union Permutations(Name) \union Permutations(Creator)
  \union Permutations(JobId) \union Permutations(Worker)
=============================================================================
