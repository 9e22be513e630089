------------------------------- MODULE Filter -------------------------------
(***************************************************************************)
(* Array.prototype.filter as the client uses it on its queues and logs: a  *)
(* recursive function of the length looked at, so that FilterProofs can    *)
(* say what it returns.                                                    *)
(***************************************************************************)
EXTENDS Integers, Sequences

(* The elements of s that are in S, in order. *)
Kept(s, S) ==
  LET kept[i \in 0..Len(s)] ==
        IF i = 0 THEN <<>>
        ELSE IF s[i] \in S THEN Append(kept[i - 1], s[i]) ELSE kept[i - 1]
  IN kept[Len(s)]
=============================================================================
