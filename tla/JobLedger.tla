----------------------------- MODULE JobLedger -----------------------------
(***************************************************************************)
(* What the job queue promises to the rest of the server, with no workers, *)
(* no retries, no crashes and no clock: a request is accepted at most once *)
(* while an equal one is open, its effect happens only while it is open,   *)
(* and it is reported complete only after its effect took place.  Effects  *)
(* may be repeated while a request is open: delivery is at least once.     *)
(* JobQueue is shown to implement this specification.                      *)
(***************************************************************************)
CONSTANTS Job,    \* identities of the rows of the jobs table (UUIDs)
          Key,    \* dedupe identities: a job type with a non-empty dedupe key
          NoKey   \* the empty dedupe key: such a job is never a duplicate

VARIABLES outcome, \* what a caller who could see the table would conclude
          opkey,   \* the dedupe identity the request was accepted under
          effects  \* the requests whose handler succeeded at least once

ledgerVars == <<outcome, opkey, effects>>

Outcome == {"none", "open", "done", "failed", "gone"}

LedgerInit ==
  /\ outcome = [j \in Job |-> "none"]
  /\ opkey = [j \in Job |-> NoKey]
  /\ effects = {}

(* A request is accepted unless an equal one is still open. *)
Accept(j, k) ==
  /\ outcome[j] = "none"
  /\ k # NoKey => \A i \in Job : ~(outcome[i] = "open" /\ opkey[i] = k)
  /\ outcome' = [outcome EXCEPT ![j] = "open"]
  /\ opkey' = [opkey EXCEPT ![j] = k]
  /\ UNCHANGED effects

(* The effect of an open request takes place, for the first time or again. *)
Effect(j) ==
  /\ outcome[j] = "open"
  /\ effects' = effects \union {j}
  /\ UNCHANGED <<outcome, opkey>>

Complete(j) ==
  /\ outcome[j] = "open"
  /\ j \in effects
  /\ outcome' = [outcome EXCEPT ![j] = "done"]
  /\ UNCHANGED <<opkey, effects>>

GiveUp(j) ==
  /\ outcome[j] = "open"
  /\ outcome' = [outcome EXCEPT ![j] = "failed"]
  /\ UNCHANGED <<opkey, effects>>

(* The record of a settled request is dropped. *)
Forget(j) ==
  /\ outcome[j] \in {"done", "failed"}
  /\ outcome' = [outcome EXCEPT ![j] = "gone"]
  /\ UNCHANGED <<opkey, effects>>

LedgerNext ==
  \E j \in Job :
    \/ \E k \in Key \union {NoKey} : Accept(j, k)
    \/ Effect(j)
    \/ Complete(j)
    \/ GiveUp(j)
    \/ Forget(j)

LedgerSpec == LedgerInit /\ [][LedgerNext]_ledgerVars
=============================================================================
