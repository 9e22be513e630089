------------------------------ MODULE JobQueue ------------------------------
(***************************************************************************)
(* The database-backed job queue of the server: queue/queue.go (Enqueue,   *)
(* Worker.Start and the run loop) and queue/worker.go (claim, handle, the  *)
(* mark* updates, recovery of stale rows and clean-up).                    *)
(*                                                                         *)
(* Producers are request handlers calling Enqueue; each of its database    *)
(* statements is a step, so two producers interleave between the depth     *)
(* count, the dedupe query and the insert.  Workers are the goroutines of  *)
(* the one Worker of a server process.  A crash loses everything but the   *)
(* table; the recovery of stale rows runs once, when a process starts.     *)
(*                                                                         *)
(* Wall-clock time is abstracted to the two comparisons the code makes:    *)
(* due[j] is "run_at <= now" and aged[j] is "updated_at < now - 10min".    *)
(***************************************************************************)
EXTENDS Integers, FiniteSets

CONSTANTS
  Job,          \* identities of rows (UUIDs, never reused)
  Key,          \* non-empty dedupe identities <<type, dedupe_key>>
  NoKey,        \* the empty dedupe key
  NoJob,        \* a worker that holds no job
  Producer,     \* concurrent callers of Enqueue
  Worker,       \* worker goroutines (WorkerOptions.Concurrency)
  Prio,         \* priority of a job by its identity, lower is claimed first
  Unhandled,    \* identities whose type has no registered handler
  MaxDepth,     \* maxQueueDepth
  MaxAttempts,  \* MaxAttempts of every job (3 at every call site)
  MaxFaults     \* bound on crashes and lost database updates

Keys == Key \union {NoKey}

ASSUME QueueAssumption ==
  /\ NoKey \notin Key
  /\ NoJob \notin Job
  /\ Prio \in [Keys -> Nat]
  /\ Unhandled \subseteq Keys
  /\ IsFiniteSet(Producer)
  /\ MaxDepth \in Nat \ {0}
  /\ MaxAttempts \in Nat \ {0}
  /\ MaxFaults \in Nat

VARIABLES
  status, key, attempts, due, aged,  \* columns of the jobs table, by row
  ran,        \* history: rows whose handler has returned nil at least once
  pc, want,   \* where a producer is inside Enqueue, and the key it was given
  wpc, held,  \* where a worker goroutine is, and the row it claimed
  up,         \* whether the server process runs
  faults      \* crashes and lost updates so far (bounded by MaxFaults)

table == <<status, key, attempts, due, aged>>
producers == <<pc, want>>
workers == <<wpc, held>>
vars == <<status, key, attempts, due, aged, ran, pc, want, wpc, held, up, faults>>

Status == {"none", "pending", "active", "done", "failed", "deleted"}

TypeOK ==
  /\ status \in [Job -> Status]
  /\ key \in [Job -> Keys]
  /\ attempts \in [Job -> Nat]
  /\ due \in [Job -> BOOLEAN]
  /\ aged \in [Job -> BOOLEAN]
  /\ ran \in SUBSET Job
  /\ pc \in [Producer -> {"idle", "counted", "insert"}]
  /\ want \in [Producer -> Keys]
  /\ wpc \in [Worker -> {"idle", "running", "ok", "err", "nohandler"}]
  /\ held \in [Worker -> Job \union {NoJob}]
  /\ up \in BOOLEAN
  /\ faults \in 0..MaxFaults

Init ==
  /\ status = [j \in Job |-> "none"]
  /\ key = [j \in Job |-> NoKey]
  /\ attempts = [j \in Job |-> 0]
  /\ due = [j \in Job |-> FALSE]
  /\ aged = [j \in Job |-> FALSE]
  /\ ran = {}
  /\ pc = [p \in Producer |-> "idle"]
  /\ want = [p \in Producer |-> NoKey]
  /\ wpc = [w \in Worker |-> "idle"]
  /\ held = [w \in Worker |-> NoJob]
  /\ up = TRUE
  /\ faults = 0

-----------------------------------------------------------------------------
(* Enqueue *)

(* The statuses that still hold a target: pending or active. *)
Unfinished == {j \in Job : status[j] \in {"pending", "active"}}

(* hasUnfinishedJob, and the predicate of idx_jobs_active_dedupe. *)
HasUnfinished(k) == \E j \in Unfinished : key[j] = k

(* Mutant: the cap is compared with > instead of >=. *)
CountDepthOffByOne(p, k) ==
  /\ up /\ pc[p] = "idle"
  /\ Cardinality(Unfinished) <= MaxDepth
  /\ pc' = [pc EXCEPT ![p] = "counted"]
  /\ want' = [want EXCEPT ![p] = k]
  /\ UNCHANGED <<table, ran, workers, up, faults>>

(* The depth check: refused (no step) when the queue is full. *)
CountDepth(p, k) ==
  /\ up /\ pc[p] = "idle"
  /\ Cardinality(Unfinished) < MaxDepth
  /\ pc' = [pc EXCEPT ![p] = "counted"]
  /\ want' = [want EXCEPT ![p] = k]
  /\ UNCHANGED <<table, ran, workers, up, faults>>

(* The dedupe query: a keyed request goes on only if none is unfinished. *)
CheckDuplicate(p) ==
  /\ up /\ pc[p] = "counted"
  /\ want[p] # NoKey => ~HasUnfinished(want[p])
  /\ pc' = [pc EXCEPT ![p] = "insert"]
  /\ UNCHANGED <<table, ran, want, workers, up, faults>>

(* Mutant: only the query before the insert looks for duplicates. *)
IndexAllowsAnything(k) == k \in Keys

(* The unique index refuses a second unfinished row of a non-empty key. *)
IndexAllows(k) == k # NoKey => ~HasUnfinished(k)

(* Enqueue returns. *)
Return(p) ==
  /\ pc' = [pc EXCEPT ![p] = "idle"]
  /\ want' = [want EXCEPT ![p] = NoKey]

(* The insert, decided by the unique index. *)
Insert(p, j) ==
  /\ up /\ pc[p] = "insert"
  /\ status[j] = "none"
  /\ IndexAllows(want[p])
  /\ status' = [status EXCEPT ![j] = "pending"]
  /\ key' = [key EXCEPT ![j] = want[p]]
  /\ due' = [due EXCEPT ![j] = TRUE]
  /\ Return(p)
  /\ UNCHANGED <<attempts, aged, ran, workers, up, faults>>

(* Enqueue returns an error having written nothing: ErrDuplicateJob from   *)
(* the query or from the index, or a failed statement.                     *)
EnqueueFails(p) ==
  /\ up /\ pc[p] \in {"counted", "insert"}
  /\ Return(p)
  /\ UNCHANGED <<table, ran, workers, up, faults>>

-----------------------------------------------------------------------------
(* Worker goroutines *)

Claimable(j) == status[j] = "pending" /\ due[j]

(* ORDER BY priority: ties (run_at) are left open. *)
FirstInLine(j) ==
  /\ Claimable(j)
  /\ \A i \in Job : Claimable(i) => Prio[key[j]] <= Prio[key[i]]

(* The UPDATE of a claim: the row becomes active and its attempt counts. *)
TakeRow(j) ==
  /\ status' = [status EXCEPT ![j] = "active"]
  /\ attempts' = [attempts EXCEPT ![j] = @ + 1]
  /\ aged' = [aged EXCEPT ![j] = FALSE]

Claim(w, j) ==
  /\ up /\ wpc[w] = "idle"
  /\ FirstInLine(j)
  /\ TakeRow(j)
  /\ wpc' = [wpc EXCEPT ![w] = "running"]
  /\ held' = [held EXCEPT ![w] = j]
  /\ UNCHANGED <<key, due, ran, producers, up, faults>>

(* The UPDATE commits but the row is not read back: the claim returns nil  *)
(* and nobody holds the active row.                                        *)
ClaimLost(w, j) ==
  /\ up /\ wpc[w] = "idle"
  /\ faults < MaxFaults
  /\ FirstInLine(j)
  /\ TakeRow(j)
  /\ faults' = faults + 1
  /\ UNCHANGED <<key, due, ran, producers, workers, up>>

(* handleJob: the handler returns nil, or an error (a panic and a timeout  *)
(* are errors too); an unregistered type never reaches a handler.          *)
HandlerReturns(w) ==
  /\ up /\ wpc[w] = "running"
  /\ \E r \in {"ok", "err", "nohandler"} :
       /\ r = "nohandler" <=> key[held[w]] \in Unhandled
       /\ wpc' = [wpc EXCEPT ![w] = r]
       /\ ran' = IF r = "ok" THEN ran \union {held[w]} ELSE ran
  /\ UNCHANGED <<table, producers, held, up, faults>>

Release(w) ==
  /\ wpc' = [wpc EXCEPT ![w] = "idle"]
  /\ held' = [held EXCEPT ![w] = NoJob]

MarkDone(w) ==
  /\ up /\ wpc[w] = "ok"
  /\ status' = [status EXCEPT ![held[w]] = "done"]
  /\ Release(w)
  /\ UNCHANGED <<key, attempts, due, aged, ran, producers, up, faults>>

(* Mutant: the retry budget is compared with > instead of >=. *)
MarkErrorOffByOne(w) ==
  /\ up /\ wpc[w] = "err"
  /\ IF attempts[held[w]] > MaxAttempts
     THEN /\ status' = [status EXCEPT ![held[w]] = "failed"]
          /\ UNCHANGED due
     ELSE /\ status' = [status EXCEPT ![held[w]] = "pending"]
          /\ due' = [due EXCEPT ![held[w]] = FALSE]
  /\ Release(w)
  /\ UNCHANGED <<key, attempts, aged, ran, producers, up, faults>>

(* Mutant: a retried row keeps the status its claim gave it. *)
MarkErrorKeepsActive(w) ==
  /\ up /\ wpc[w] = "err"
  /\ IF attempts[held[w]] >= MaxAttempts
     THEN /\ status' = [status EXCEPT ![held[w]] = "failed"]
          /\ UNCHANGED due
     ELSE /\ due' = [due EXCEPT ![held[w]] = FALSE]
          /\ UNCHANGED status
  /\ Release(w)
  /\ UNCHANGED <<key, attempts, aged, ran, producers, up, faults>>

(* Retries left: back to pending after a backoff; otherwise failed. *)
MarkError(w) ==
  /\ up /\ wpc[w] = "err"
  /\ IF attempts[held[w]] >= MaxAttempts
     THEN /\ status' = [status EXCEPT ![held[w]] = "failed"]
          /\ UNCHANGED due
     ELSE /\ status' = [status EXCEPT ![held[w]] = "pending"]
          /\ due' = [due EXCEPT ![held[w]] = FALSE]
  /\ Release(w)
  /\ UNCHANGED <<key, attempts, aged, ran, producers, up, faults>>

(* Mutant: a job of an unregistered type is acknowledged as done. *)
MarkUnknownDone(w) ==
  /\ up /\ wpc[w] = "nohandler"
  /\ status' = [status EXCEPT ![held[w]] = "done"]
  /\ Release(w)
  /\ UNCHANGED <<key, attempts, due, aged, ran, producers, up, faults>>

(* Mutant: an unregistered type gets a status the queries do not know. *)
MarkUnknownStatus(w) ==
  /\ up /\ wpc[w] = "nohandler"
  /\ status' = [status EXCEPT ![held[w]] = "unhandled"]
  /\ Release(w)
  /\ UNCHANGED <<key, attempts, due, aged, ran, producers, up, faults>>

(* markPermanentFail: no retry for a type without a handler. *)
MarkPermanentFail(w) ==
  /\ up /\ wpc[w] = "nohandler"
  /\ status' = [status EXCEPT ![held[w]] = "failed"]
  /\ Release(w)
  /\ UNCHANGED <<key, attempts, due, aged, ran, producers, up, faults>>

(* A mark* update fails: the error is logged, the goroutine moves on and   *)
(* the row stays active with nobody holding it.                            *)
MarkLost(w) ==
  /\ up /\ wpc[w] \in {"ok", "err", "nohandler"}
  /\ faults < MaxFaults
  /\ faults' = faults + 1
  /\ Release(w)
  /\ UNCHANGED <<table, ran, producers, up>>

-----------------------------------------------------------------------------
(* Time, crash and restart, clean-up *)

(* The backoff of a retried row elapses. *)
BecomeDue(j) ==
  /\ status[j] = "pending" /\ ~due[j]
  /\ due' = [due EXCEPT ![j] = TRUE]
  /\ UNCHANGED <<status, key, attempts, aged, ran, producers, workers, up, faults>>

(* A row has been active, untouched, for ten minutes. *)
BecomeStale(j) ==
  /\ status[j] = "active" /\ ~aged[j]
  /\ aged' = [aged EXCEPT ![j] = TRUE]
  /\ UNCHANGED <<status, key, attempts, due, ran, producers, workers, up, faults>>

(* The process dies, or is stopped: Stop does not wait for running jobs. *)
Crash ==
  /\ up /\ faults < MaxFaults
  /\ up' = FALSE
  /\ faults' = faults + 1
  /\ pc' = [p \in Producer |-> "idle"]
  /\ want' = [p \in Producer |-> NoKey]
  /\ wpc' = [w \in Worker |-> "idle"]
  /\ held' = [w \in Worker |-> NoJob]
  /\ UNCHANGED <<table, ran>>

(* Mutant: recovery also runs beside live workers, as a periodic sweep. *)
MayRecoverAnytime == up \in BOOLEAN

(* When recoverStaleJobs may run: before the workers of a process start. *)
MayRecover == ~up

(* Mutant: rows without retries left are not recovered. *)
StaleWithBudget ==
  {j \in Job : status[j] = "active" /\ aged[j] /\ attempts[j] < MaxAttempts}

(* recoverStaleJobs, whatever the attempts of the row. *)
Stale == {j \in Job : status[j] = "active" /\ aged[j]}

Start ==
  /\ MayRecover
  /\ up' = TRUE
  /\ status' = [j \in Job |-> IF j \in Stale THEN "pending" ELSE status[j]]
  /\ aged' = [j \in Job |-> IF j \in Stale THEN FALSE ELSE aged[j]]
  /\ UNCHANGED <<key, attempts, due, ran, producers, workers, faults>>

(* The recovery UPDATE fails: it is logged and the workers start anyway. *)
StartUnrecovered ==
  /\ ~up /\ faults < MaxFaults
  /\ up' = TRUE
  /\ faults' = faults + 1
  /\ UNCHANGED <<table, ran, producers, workers>>

(* CleanupJobs and CleanupFailedJobs, one expired row at a time. *)
Cleanup(j) ==
  /\ up
  /\ status[j] \in {"done", "failed"}
  /\ status' = [status EXCEPT ![j] = "deleted"]
  /\ UNCHANGED <<key, attempts, due, aged, ran, producers, workers, up, faults>>

-----------------------------------------------------------------------------
Enqueue(p) ==
  \/ \E k \in Keys : CountDepth(p, k)
  \/ CheckDuplicate(p)
  \/ \E j \in Job : Insert(p, j)
  \/ EnqueueFails(p)

Mark(w) == MarkDone(w) \/ MarkError(w) \/ MarkPermanentFail(w)

Work(w) ==
  \/ \E j \in Job : Claim(w, j) \/ ClaimLost(w, j)
  \/ HandlerReturns(w)
  \/ Mark(w)
  \/ MarkLost(w)

Next ==
  \/ \E p \in Producer : Enqueue(p)
  \/ \E w \in Worker : Work(w)
  \/ \E j \in Job : BecomeDue(j) \/ BecomeStale(j) \/ Cleanup(j)
  \/ Crash
  \/ Start
  \/ StartUnrecovered

Spec == Init /\ [][Next]_vars

(* The run loop polls, a handler returns by its deadline, the clock moves  *)
(* and a stopped server is started again.                                  *)
Fairness ==
  /\ \A w \in Worker :
       /\ WF_vars(\E j \in Job : Claim(w, j))
       /\ WF_vars(HandlerReturns(w))
       /\ WF_vars(Mark(w))
  /\ \A j \in Job : WF_vars(BecomeDue(j)) /\ WF_vars(BecomeStale(j))
  /\ WF_vars(Start)

FairSpec == Spec /\ Fairness

-----------------------------------------------------------------------------
(* Properties *)

(* At most one unfinished job exists per dedupe identity, however the      *)
(* checks of concurrent Enqueue calls interleave and whatever crashes and  *)
(* recoveries do (idx_jobs_active_dedupe, queue.go hasUnfinishedJob).      *)
DedupeUnique ==
  \A i, j \in Job :
    (/\ i \in Unfinished
     /\ j \in Unfinished
     /\ key[i] = key[j]
     /\ key[i] # NoKey) => i = j

(* A row a goroutine works on is active and no other goroutine has it: the *)
(* unconditional mark* updates by id rely on this, since they look neither *)
(* at the status nor at who claimed the row.                               *)
ExclusiveHolder ==
  \A w \in Worker :
    held[w] # NoJob =>
      /\ status[held[w]] = "active"
      /\ \A v \in Worker : held[v] = held[w] => v = w

(* The retry budget: a claim beyond MaxAttempts is always paid for by a    *)
(* crash or a lost update, and a job is failed only when its budget is     *)
(* spent or no handler is registered for it (markError).                   *)
RetryBudget ==
  \A j \in Job :
    /\ attempts[j] <= MaxAttempts + faults
    /\ status[j] = "failed" /\ key[j] \notin Unhandled => attempts[j] >= MaxAttempts

(* Callers past the depth count, who may still insert. *)
PastCount == {p \in Producer : pc[p] # "idle"}

(* The depth cap is exceeded by at most the callers already past the count *)
(* when it was reached, those who have yet to insert included (queue.go:   *)
(* the count and the insert are separate).                                 *)
DepthOvershoot ==
  Cardinality(Unfinished) + Cardinality(PastCount) <= MaxDepth + Cardinality(Producer) - 1

(* A settled job stays settled: a row that is done or failed never goes    *)
(* back to the queue, and is only ever removed by the clean-up.            *)
SettledIsFinal ==
  [][\A j \in Job :
       status[j] \in {"done", "failed"} => status'[j] \in {status[j], "deleted"}]_vars

(* What the status column says of a request: a retried or recovered row is *)
(* still the same open request.                                            *)
OutcomeOf(s) ==
  CASE s = "none" -> "none"
    [] s \in {"pending", "active"} -> "open"
    [] s = "done" -> "done"
    [] s = "failed" -> "failed"
    [] s = "deleted" -> "gone"

outcomes == [j \in Job |-> OutcomeOf(status[j])]

Ledger == INSTANCE JobLedger WITH outcome <- outcomes, opkey <- key, effects <- ran

(* The queue implements its contract: no duplicate is accepted while an    *)
(* equal request is open, and a job is done only after its handler         *)
(* returned nil (queue.go Enqueue, worker.go handleJob).                   *)
ImplementsLedger == Ledger!LedgerSpec

Settled(j) == status[j] \in {"done", "failed", "deleted"}

(* After a fault, an active row no goroutine works on: a claim or a mark*  *)
(* update was lost, or the process that had it died.                       *)
Orphaned(j) == faults > 0 /\ status[j] = "active" /\ \A w \in Worker : held[w] # j

(* Every accepted job is settled, unless a fault orphans it on its way:    *)
(* errors, panics, timeouts, jobs nobody handles and restarts of the       *)
(* server do not hold the others up (worker.go markError, Start).          *)
EveryJobSettles == \A j \in Job : status[j] = "pending" ~> (Settled(j) \/ Orphaned(j))

(* A job a crash left behind is settled if the next process starts ten     *)
(* minutes or more after the claim and no step of it fails, its recovery   *)
(* included (worker.go recoverStaleJobs).                                  *)
CrashedJobSettles ==
  \A j \in Job :
    (~up /\ status[j] = "active" /\ aged[j] /\ faults = MaxFaults) ~> Settled(j)

-----------------------------------------------------------------------------
(* The inductive invariant behind the safety properties. *)

(* A goroutine is idle iff it holds nothing; past the handler it remembers *)
(* truthfully what the handler did; a stopped process has no goroutines.   *)
WorkerInv ==
  \A w \in Worker :
    /\ wpc[w] = "idle" <=> held[w] = NoJob
    /\ wpc[w] = "ok" => held[w] \in ran
    /\ wpc[w] = "nohandler" => key[held[w]] \in Unhandled
    /\ ~up => held[w] = NoJob

(* A row that can still be claimed has an attempt left, counting the       *)
(* attempts that faults have given back.                                   *)
BudgetInv ==
  \A j \in Job :
    /\ status[j] = "none" => attempts[j] = 0
    /\ status[j] = "pending" \/ ~up => attempts[j] < MaxAttempts + faults

DepthInv == IsFiniteSet(Unfinished) /\ DepthOvershoot

DoneInv == \A j \in Job : status[j] = "done" => j \in ran

IInv ==
  /\ TypeOK
  /\ DedupeUnique
  /\ ExclusiveHolder
  /\ RetryBudget
  /\ WorkerInv
  /\ BudgetInv
  /\ DoneInv

=============================================================================
