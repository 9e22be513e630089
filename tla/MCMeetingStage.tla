--------------------------- MODULE MCMeetingStage ---------------------------
(* Instances of MeetingStage for TLC. *)
EXTENDS MeetingStage, TLC

Symmetry == Permutations(Peer)
=============================================================================
