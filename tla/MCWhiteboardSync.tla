-------------------------- MODULE MCWhiteboardSync --------------------------
(* Instances of WhiteboardSync for TLC. *)
EXTENDS WhiteboardSync, TLC

CONSTANTS a, b, e1, e2

ByTwo == (e1 :> a) @@ (e2 :> b)
=============================================================================
