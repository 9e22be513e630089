---------------------------- MODULE MCMeetingChat ----------------------------
(* Instances of MeetingChat for TLC: one message, of a. *)
EXTENDS MeetingChat, TLC

CONSTANTS a, m1

ByA == m1 :> a
Large == m1 :> 2
=============================================================================
