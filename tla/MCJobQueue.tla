---------------------------- MODULE MCJobQueue ----------------------------
(* Instances of JobQueue for TLC. *)
EXTENDS JobQueue, TLC

(* Keyless jobs (webhooks, e-mail) have priority 0, room and user deletes 1. *)
MCPrio == [k \in Keys |-> IF k = NoKey THEN 0 ELSE 1]

Symmetry == Permutations(Job) \union Permutations(Producer) \union Permutations(Worker)
=============================================================================
