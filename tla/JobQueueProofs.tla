--------------------------- MODULE JobQueueProofs ---------------------------
(***************************************************************************)
(* Proofs about JobQueue for every set of jobs, keys, producers and        *)
(* workers, every depth cap, retry budget and number of faults.            *)
(*                                                                         *)
(* The argument: IInv is inductive.  ExclusiveHolder is the hinge: mark*   *)
(* updates rows by id without looking, so that a row is never marked twice *)
(* rests on recovery running only when no goroutine exists.                *)
(***************************************************************************)
EXTENDS JobQueue, FiniteSetTheorems, TLAPS

(* An empty queue satisfies the inductive invariant. *)
LEMMA InitIInv == Init => IInv
<1> SUFFICES ASSUME Init PROVE IInv
  OBVIOUS
<1> USE QueueAssumption DEF Init
<1>1. TypeOK
  BY DEF TypeOK, Keys, Status
<1>2. DedupeUnique
  BY DEF DedupeUnique, Unfinished
<1>3. ExclusiveHolder
  BY DEF ExclusiveHolder
<1>4. RetryBudget
  BY DEF RetryBudget
<1>5. WorkerInv
  BY DEF WorkerInv
<1>6. BudgetInv
  BY DEF BudgetInv
<1>7. DoneInv
  BY DEF DoneInv
<1>8. QED
  BY <1>1, <1>2, <1>3, <1>4, <1>5, <1>6, <1>7 DEF IInv

(* Type correctness is inductive by itself, given who holds what. *)
LEMMA NextTypeOK == TypeOK /\ WorkerInv /\ [Next]_vars => TypeOK'
<1> SUFFICES ASSUME TypeOK, WorkerInv, [Next]_vars PROVE TypeOK'
  OBVIOUS
<1> USE QueueAssumption DEF TypeOK, Status
<1>1. ASSUME NEW p \in Producer, Enqueue(p) PROVE TypeOK'
  <2>1. ASSUME NEW k \in Keys, CountDepth(p, k) PROVE TypeOK'
    BY <2>1 DEF CountDepth, table, workers
  <2>2. CASE CheckDuplicate(p)
    BY <2>2 DEF CheckDuplicate, table, workers
  <2>3. ASSUME NEW j \in Job, Insert(p, j) PROVE TypeOK'
    BY <2>3 DEF Insert, Return, workers, Keys
  <2>4. CASE EnqueueFails(p)
    BY <2>4 DEF EnqueueFails, Return, table, workers, Keys
  <2>5. QED
    BY <1>1, <2>1, <2>2, <2>3, <2>4 DEF Enqueue
<1>2. ASSUME NEW w \in Worker, Work(w) PROVE TypeOK'
  <2>1. ASSUME NEW j \in Job, Claim(w, j) PROVE TypeOK'
    BY <2>1 DEF Claim, TakeRow, producers
  <2>2. ASSUME NEW j \in Job, ClaimLost(w, j) PROVE TypeOK'
    BY <2>2 DEF ClaimLost, TakeRow, producers, workers
  <2>3. CASE HandlerReturns(w)
    BY <2>3 DEF HandlerReturns, table, producers, WorkerInv
  <2>4. CASE MarkDone(w)
    BY <2>4 DEF MarkDone, Release, producers
  <2>5. CASE MarkError(w)
    BY <2>5 DEF MarkError, Release, producers
  <2>6. CASE MarkPermanentFail(w)
    BY <2>6 DEF MarkPermanentFail, Release, producers
  <2>7. CASE MarkLost(w)
    BY <2>7 DEF MarkLost, Release, table, producers
  <2>8. QED
    BY <1>2, <2>1, <2>2, <2>3, <2>4, <2>5, <2>6, <2>7 DEF Work, Mark
<1>3. ASSUME NEW j \in Job, BecomeDue(j) \/ BecomeStale(j) \/ Cleanup(j) PROVE TypeOK'
  BY <1>3 DEF BecomeDue, BecomeStale, Cleanup, producers, workers
<1>4. CASE Crash
  <2>1. faults' \in 0..MaxFaults
    <3>1. faults < MaxFaults /\ faults' = faults + 1
      BY <1>4, Zenon DEF Crash
    <3>2. QED
      BY <3>1
  <2>6. up' \in BOOLEAN
    BY <1>4, Zenon DEF Crash
  <2>2. pc' \in [Producer -> {"idle", "counted", "insert"}] /\ want' \in [Producer -> Keys]
    BY <1>4 DEF Crash, Keys
  <2>3. /\ wpc' \in [Worker -> {"idle", "running", "ok", "err", "nohandler"}]
        /\ held' \in [Worker -> Job \union {NoJob}]
    BY <1>4 DEF Crash
  <2>4. UNCHANGED <<status, key, attempts, due, aged, ran>>
    BY <1>4 DEF Crash, table
  <2>5. QED
    BY <2>1, <2>2, <2>3, <2>4, <2>6
<1>5. CASE Start
  BY <1>5 DEF Start, producers, workers
<1>6. CASE StartUnrecovered
  BY <1>6 DEF StartUnrecovered, table, producers, workers
<1>7. CASE UNCHANGED vars
  BY <1>7 DEF vars
<1>8. QED
  BY <1>1, <1>2, <1>3, <1>4, <1>5, <1>6, <1>7 DEF Next

-----------------------------------------------------------------------------
(* Steps of Enqueue. *)

(* Enqueue preserves the invariant: only Insert touches the table. *)
LEMMA EnqueueIInv ==
  ASSUME IInv, TypeOK', NEW p \in Producer, Enqueue(p)
  PROVE  IInv'
<1> USE QueueAssumption DEF IInv
<1>1. CASE UNCHANGED <<table, ran, workers, up, faults>>
  BY <1>1 DEF table, workers, DedupeUnique, Unfinished, ExclusiveHolder,
              RetryBudget, WorkerInv, BudgetInv, DoneInv
<1>2. ASSUME NEW j \in Job, Insert(p, j) PROVE IInv'
  <2> USE <1>2 DEF Insert, workers, TypeOK, Status
  <2>1. DedupeUnique'
    <3> SUFFICES ASSUME NEW a \in Job, NEW b \in Job,
                        a \in Unfinished', b \in Unfinished',
                        key'[a] = key'[b], key'[a] # NoKey
                 PROVE  a = b
      BY DEF DedupeUnique
    <3>1. CASE a # j /\ b # j
      BY <3>1 DEF DedupeUnique, Unfinished
    <3>2. ASSUME NEW c \in Job, c # j, c \in Unfinished', key'[c] = want[p], want[p] # NoKey
          PROVE  FALSE
      BY <3>2 DEF IndexAllows, HasUnfinished, Unfinished
    <3>3. QED
      BY <3>1, <3>2
  <2>2. ExclusiveHolder'
    BY DEF ExclusiveHolder
  <2>3. RetryBudget'
    BY DEF RetryBudget
  <2>4. WorkerInv'
    BY DEF WorkerInv, ExclusiveHolder
  <2>5. BudgetInv'
    BY DEF BudgetInv
  <2>6. DoneInv'
    BY DEF DoneInv
  <2>7. QED
    BY <2>1, <2>2, <2>3, <2>4, <2>5, <2>6
<1>3. QED
  BY <1>1, <1>2 DEF Enqueue, CountDepth, CheckDuplicate, EnqueueFails, table, workers

-----------------------------------------------------------------------------
(* Steps of a worker goroutine. *)

(* A claim takes a pending row, which nobody holds. *)
LEMMA ClaimIInv ==
  ASSUME IInv, TypeOK', NEW w \in Worker, NEW j \in Job, Claim(w, j)
  PROVE  IInv'
<1> USE QueueAssumption DEF IInv, Claim, TakeRow, FirstInLine, Claimable, TypeOK, Status
<1>1. DedupeUnique'
  BY DEF DedupeUnique, Unfinished
<1>2. ExclusiveHolder'
  BY DEF ExclusiveHolder
<1>3. RetryBudget'
  BY DEF RetryBudget, BudgetInv
<1>4. WorkerInv'
  BY DEF WorkerInv
<1>5. BudgetInv'
  BY DEF BudgetInv
<1>6. DoneInv'
  BY DEF DoneInv
<1>7. QED
  BY <1>1, <1>2, <1>3, <1>4, <1>5, <1>6

(* A claim nobody learns of is paid for by a fault. *)
LEMMA ClaimLostIInv ==
  ASSUME IInv, TypeOK', NEW w \in Worker, NEW j \in Job, ClaimLost(w, j)
  PROVE  IInv'
<1> USE QueueAssumption
    DEF IInv, ClaimLost, TakeRow, FirstInLine, Claimable, TypeOK, Status, workers
<1>1. DedupeUnique'
  BY DEF DedupeUnique, Unfinished
<1>2. ExclusiveHolder'
  BY DEF ExclusiveHolder
<1>3. RetryBudget'
  BY DEF RetryBudget, BudgetInv
<1>4. WorkerInv'
  BY DEF WorkerInv
<1>5. BudgetInv'
  BY DEF BudgetInv
<1>6. DoneInv'
  BY DEF DoneInv
<1>7. QED
  BY <1>1, <1>2, <1>3, <1>4, <1>5, <1>6

(* A handler's result is recorded in ran before the row can be done. *)
LEMMA HandlerReturnsIInv ==
  ASSUME IInv, TypeOK', NEW w \in Worker, HandlerReturns(w)
  PROVE  IInv'
<1> USE DEF IInv, HandlerReturns, TypeOK, table
<1>1. DedupeUnique' /\ ExclusiveHolder' /\ RetryBudget' /\ BudgetInv'
  BY DEF DedupeUnique, Unfinished, ExclusiveHolder, RetryBudget, BudgetInv
<1>2. WorkerInv'
  BY DEF WorkerInv
<1>3. DoneInv'
  BY DEF DoneInv
<1>4. QED
  BY <1>1, <1>2, <1>3

(* The goroutine's row leaves the active status and the goroutine lets go  *)
(* of it in one step: nobody else is left holding it.                      *)
LEMMA ReleaseKeepsHolders ==
  ASSUME IInv, TypeOK', NEW w \in Worker, wpc[w] # "idle", up,
         NEW s \in Status, status' = [status EXCEPT ![held[w]] = s],
         Release(w), UNCHANGED <<key, ran, up>>
  PROVE  ExclusiveHolder' /\ WorkerInv'
<1> USE QueueAssumption DEF IInv, TypeOK, Release
<1>1. held[w] \in Job
  BY DEF WorkerInv
<1>2. ExclusiveHolder'
  BY <1>1 DEF ExclusiveHolder
<1>3. WorkerInv'
  BY <1>1 DEF WorkerInv
<1>4. QED
  BY <1>2, <1>3

(* The mark* updates settle or release the row of their own worker. *)
LEMMA MarkIInv ==
  ASSUME IInv, TypeOK', NEW w \in Worker, Mark(w)
  PROVE  IInv'
<1> USE QueueAssumption DEF IInv
<1>1. held[w] \in Job /\ status[held[w]] = "active"
  BY DEF WorkerInv, ExclusiveHolder, TypeOK, Mark, MarkDone, MarkError, MarkPermanentFail
<1>2. CASE MarkDone(w)
  <2>1. ExclusiveHolder' /\ WorkerInv'
    BY <1>2, ReleaseKeepsHolders DEF MarkDone, Status
  <2>2. DedupeUnique' /\ RetryBudget' /\ BudgetInv' /\ DoneInv'
    BY <1>1, <1>2 DEF MarkDone, DedupeUnique, Unfinished, RetryBudget, BudgetInv,
                      DoneInv, WorkerInv, TypeOK
  <2>3. QED
    BY <2>1, <2>2
<1>3. CASE MarkError(w)
  <2>1. PICK s \in {"failed", "pending"} :
          /\ status' = [status EXCEPT ![held[w]] = s]
          /\ s = "failed" <=> attempts[held[w]] >= MaxAttempts
    BY <1>3 DEF MarkError
  <2>2. ExclusiveHolder' /\ WorkerInv'
    BY <1>3, <2>1, ReleaseKeepsHolders DEF MarkError, Status
  <2>3. DedupeUnique' /\ DoneInv'
    BY <1>1, <1>3, <2>1 DEF MarkError, DedupeUnique, Unfinished, DoneInv, TypeOK
  <2>4. RetryBudget' /\ BudgetInv'
    BY <1>1, <1>3, <2>1 DEF MarkError, RetryBudget, BudgetInv, TypeOK
  <2>5. QED
    BY <2>2, <2>3, <2>4
<1>4. CASE MarkPermanentFail(w)
  <2>1. ExclusiveHolder' /\ WorkerInv'
    BY <1>4, ReleaseKeepsHolders DEF MarkPermanentFail, Status
  <2>2. DedupeUnique' /\ RetryBudget' /\ BudgetInv' /\ DoneInv'
    BY <1>1, <1>4 DEF MarkPermanentFail, DedupeUnique, Unfinished, RetryBudget,
                      BudgetInv, DoneInv, WorkerInv, TypeOK
  <2>3. QED
    BY <2>1, <2>2
<1>5. QED
  BY <1>2, <1>3, <1>4 DEF Mark

(* A lost update leaves an active row that no worker holds. *)
LEMMA MarkLostIInv ==
  ASSUME IInv, TypeOK', NEW w \in Worker, MarkLost(w)
  PROVE  IInv'
<1> USE QueueAssumption DEF IInv, MarkLost, Release, TypeOK, table
<1>1. DedupeUnique' /\ DoneInv'
  BY DEF DedupeUnique, Unfinished, DoneInv
<1>2. ExclusiveHolder'
  BY DEF ExclusiveHolder
<1>3. RetryBudget'
  BY DEF RetryBudget
<1>4. BudgetInv'
  BY DEF BudgetInv
<1>5. WorkerInv'
  BY DEF WorkerInv
<1>6. QED
  BY <1>1, <1>2, <1>3, <1>4, <1>5

-----------------------------------------------------------------------------
(* Time, crash, restart and clean-up. *)

(* The clock and the clean-up do not touch rows in a worker's hands. *)
LEMMA RowIInv ==
  ASSUME IInv, TypeOK', NEW j \in Job, BecomeDue(j) \/ BecomeStale(j) \/ Cleanup(j)
  PROVE  IInv'
<1> USE DEF IInv
<1>1. CASE BecomeDue(j) \/ BecomeStale(j)
  BY <1>1 DEF BecomeDue, BecomeStale, workers, DedupeUnique, Unfinished,
              ExclusiveHolder, RetryBudget, WorkerInv, BudgetInv, DoneInv
<1>2. CASE Cleanup(j)
  <2> USE <1>2 DEF Cleanup, workers, TypeOK
  <2>1. DedupeUnique' /\ DoneInv'
    BY DEF DedupeUnique, Unfinished, DoneInv
  <2>2. ExclusiveHolder' /\ WorkerInv'
    BY DEF ExclusiveHolder, WorkerInv
  <2>3. RetryBudget' /\ BudgetInv'
    BY DEF RetryBudget, BudgetInv
  <2>4. QED
    BY <2>1, <2>2, <2>3
<1>3. QED
  BY <1>1, <1>2

(* A crash empties every hand and gives each row one more attempt. *)
LEMMA CrashIInv ==
  ASSUME IInv, TypeOK', Crash
  PROVE  IInv'
<1> USE QueueAssumption DEF IInv, Crash, table, TypeOK
<1>1. DedupeUnique' /\ DoneInv'
  BY DEF DedupeUnique, Unfinished, DoneInv
<1>2. ExclusiveHolder' /\ WorkerInv'
  BY DEF ExclusiveHolder, WorkerInv
<1>3. faults' = faults + 1
  BY Zenon
<1>4. RetryBudget'
  BY <1>3 DEF RetryBudget
<1>5. BudgetInv'
  BY <1>3 DEF BudgetInv, RetryBudget
<1>6. QED
  BY <1>1, <1>2, <1>4, <1>5

(* Recovery may make a row pending again only because no goroutine exists. *)
LEMMA StartIInv ==
  ASSUME IInv, TypeOK', Start
  PROVE  IInv'
<1> USE DEF IInv, Start, MayRecover, producers, workers, TypeOK
<1>1. DedupeUnique'
  BY DEF DedupeUnique, Unfinished, Stale
<1>2. ExclusiveHolder' /\ WorkerInv'
  BY DEF ExclusiveHolder, WorkerInv
<1>3. RetryBudget' /\ BudgetInv'
  BY DEF RetryBudget, BudgetInv, Stale
<1>4. DoneInv'
  BY DEF DoneInv, Stale
<1>5. QED
  BY <1>1, <1>2, <1>3, <1>4

(* A process that starts without recovering leaves the rows as they are. *)
LEMMA StartUnrecoveredIInv ==
  ASSUME IInv, TypeOK', StartUnrecovered
  PROVE  IInv'
<1> USE QueueAssumption DEF IInv, StartUnrecovered, table, producers, workers, TypeOK
<1>1. DedupeUnique' /\ DoneInv'
  BY DEF DedupeUnique, Unfinished, DoneInv
<1>2. ExclusiveHolder' /\ WorkerInv'
  BY DEF ExclusiveHolder, WorkerInv
<1>3. RetryBudget' /\ BudgetInv'
  BY DEF RetryBudget, BudgetInv
<1>4. QED
  BY <1>1, <1>2, <1>3

(* Every step preserves the inductive invariant. *)
LEMMA NextIInv == IInv /\ [Next]_vars => IInv'
<1> SUFFICES ASSUME IInv, [Next]_vars PROVE IInv'
  OBVIOUS
<1>1. TypeOK'
  BY NextTypeOK DEF IInv
<1>2. ASSUME NEW p \in Producer, Enqueue(p) PROVE IInv'
  BY <1>1, <1>2, EnqueueIInv
<1>3. ASSUME NEW w \in Worker, Work(w) PROVE IInv'
  BY <1>1, <1>3, ClaimIInv, ClaimLostIInv, HandlerReturnsIInv, MarkIInv, MarkLostIInv DEF Work
<1>4. ASSUME NEW j \in Job, BecomeDue(j) \/ BecomeStale(j) \/ Cleanup(j) PROVE IInv'
  BY <1>1, <1>4, RowIInv
<1>5. CASE Crash
  BY <1>1, <1>5, CrashIInv
<1>6. CASE Start
  BY <1>1, <1>6, StartIInv
<1>7. CASE StartUnrecovered
  BY <1>1, <1>7, StartUnrecoveredIInv
<1>8. CASE UNCHANGED vars
  BY <1>8 DEF vars, IInv, TypeOK, DedupeUnique, Unfinished, ExclusiveHolder,
              RetryBudget, WorkerInv, BudgetInv, DoneInv
<1>9. QED
  BY <1>2, <1>3, <1>4, <1>5, <1>6, <1>7, <1>8 DEF Next

(* The inductive invariant holds in every reachable state. *)
THEOREM Invariance == Spec => []IInv
<1>1. Init => IInv
  BY InitIInv
<1>2. IInv /\ [Next]_vars => IInv'
  BY NextIInv
<1>3. QED
  BY <1>1, <1>2, PTL DEF Spec

(* The columns of the table, Enqueue and the goroutines keep their types. *)
THEOREM TypeCorrect == Spec => []TypeOK
  BY Invariance, PTL DEF IInv

(* At most one unfinished job per dedupe identity. *)
THEOREM NoDuplicateJob == Spec => []DedupeUnique
  BY Invariance, PTL DEF IInv

(* Nobody else works on, or may claim, the row a goroutine works on. *)
THEOREM HoldersAreExclusive == Spec => []ExclusiveHolder
  BY Invariance, PTL DEF IInv

(* Claims beyond MaxAttempts are paid for by faults. *)
THEOREM RetriesAreBudgeted == Spec => []RetryBudget
  BY Invariance, PTL DEF IInv

-----------------------------------------------------------------------------
(* A settled row is not touched again, except by the clean-up. *)

(* No single step takes a settled row back to the queue. *)
LEMMA SettledStep ==
  ASSUME IInv, [Next]_vars, NEW j \in Job, status[j] \in {"done", "failed"}
  PROVE  status'[j] \in {status[j], "deleted"}
<1> USE DEF IInv, TypeOK
<1>1. ASSUME NEW p \in Producer, Enqueue(p) PROVE status'[j] = status[j]
  BY <1>1 DEF Enqueue, CountDepth, CheckDuplicate, Insert, EnqueueFails, table
<1>2. ASSUME NEW w \in Worker, Work(w) PROVE status'[j] = status[j]
  <2>1. CASE Mark(w)
    <3>1. held[w] \in Job /\ status[held[w]] = "active"
      BY <2>1 DEF WorkerInv, ExclusiveHolder, Mark, MarkDone, MarkError, MarkPermanentFail
    <3>2. QED
      BY <2>1, <3>1 DEF Mark, MarkDone, MarkError, MarkPermanentFail
  <2>2. CASE \E i \in Job : Claim(w, i) \/ ClaimLost(w, i)
    BY <2>2 DEF Claim, ClaimLost, TakeRow, FirstInLine, Claimable
  <2>3. CASE HandlerReturns(w) \/ MarkLost(w)
    BY <2>3 DEF HandlerReturns, MarkLost, table
  <2>4. QED
    BY <1>2, <2>1, <2>2, <2>3 DEF Work
<1>3. ASSUME NEW i \in Job, BecomeDue(i) \/ BecomeStale(i) \/ Cleanup(i)
      PROVE  status'[j] \in {status[j], "deleted"}
  BY <1>3 DEF BecomeDue, BecomeStale, Cleanup
<1>4. CASE Crash \/ Start \/ StartUnrecovered \/ UNCHANGED vars
  BY <1>4 DEF Crash, Start, StartUnrecovered, Stale, table, producers, workers, vars
<1>5. QED
  BY <1>1, <1>2, <1>3, <1>4 DEF Next

(* Once done or failed, a job never returns to the queue. *)
THEOREM SettledForGood == Spec => SettledIsFinal
<1>1. IInv /\ [Next]_vars =>
        [\A j \in Job :
           status[j] \in {"done", "failed"} => status'[j] \in {status[j], "deleted"}]_vars
  BY SettledStep
<1>2. QED
  BY <1>1, Invariance, PTL DEF Spec, SettledIsFinal

-----------------------------------------------------------------------------
(* The depth cap is overshot by at most the callers past the count. *)

(* An empty queue is within the overshoot bound. *)
LEMMA InitDepthInv == Init => DepthInv
<1> SUFFICES ASSUME Init PROVE DepthInv
  OBVIOUS
<1>1. Unfinished = {} /\ PastCount = {}
  BY DEF Init, Unfinished, PastCount
<1>2. Cardinality(Producer) \in Nat
  BY QueueAssumption, FS_CardinalityType
<1>3. QED
  BY <1>1, <1>2, FS_EmptySet, QueueAssumption DEF DepthInv, DepthOvershoot

(* A step that adds neither an unfinished row nor a caller past the count. *)
LEMMA DepthShrinks ==
  ASSUME DepthInv, Unfinished' \subseteq Unfinished, PastCount' \subseteq PastCount
  PROVE  DepthInv'
<1>1. IsFiniteSet(PastCount)
  BY QueueAssumption, FS_Subset DEF PastCount
<1>2. /\ IsFiniteSet(Unfinished')
      /\ Cardinality(Unfinished') <= Cardinality(Unfinished)
      /\ Cardinality(PastCount') <= Cardinality(PastCount)
      /\ IsFiniteSet(PastCount')
  BY <1>1, FS_Subset DEF DepthInv, DepthOvershoot
<1>3. /\ Cardinality(Unfinished) \in Nat /\ Cardinality(Unfinished') \in Nat
      /\ Cardinality(PastCount) \in Nat /\ Cardinality(PastCount') \in Nat
      /\ Cardinality(Producer) \in Nat
  BY <1>1, <1>2, QueueAssumption, FS_CardinalityType DEF DepthInv, DepthOvershoot
<1>4. QED
  BY <1>2, <1>3, QueueAssumption DEF DepthInv, DepthOvershoot

(* A caller passes the count only below the cap, and takes one slot. *)
LEMMA CountDepthDepthInv ==
  ASSUME TypeOK, DepthInv, NEW p \in Producer, NEW k \in Keys, CountDepth(p, k)
  PROVE  DepthInv'
<1>1. Unfinished' = Unfinished
  BY DEF CountDepth, table, Unfinished
<1>2. Cardinality(PastCount') <= Cardinality(Producer) /\ IsFiniteSet(PastCount')
  BY QueueAssumption, FS_Subset DEF PastCount
<1>3. /\ Cardinality(Unfinished) \in Nat
      /\ Cardinality(PastCount') \in Nat
      /\ Cardinality(Producer) \in Nat
  BY <1>2, QueueAssumption, FS_CardinalityType DEF DepthInv, DepthOvershoot
<1>4. Cardinality(Unfinished) < MaxDepth
  BY DEF CountDepth
<1>5. QED
  BY <1>1, <1>2, <1>3, <1>4, QueueAssumption DEF DepthInv, DepthOvershoot

(* An insert turns the caller's slot into a row. *)
LEMMA InsertDepthInv ==
  ASSUME TypeOK, DepthInv, NEW p \in Producer, NEW j \in Job, Insert(p, j)
  PROVE  DepthInv'
<1>1. Unfinished' = Unfinished \union {j} /\ j \notin Unfinished
  BY DEF Insert, TypeOK, Unfinished
<1>2. PastCount' = PastCount \ {p} /\ p \in PastCount
  BY DEF Insert, Return, TypeOK, PastCount
<1>3. IsFiniteSet(PastCount)
  BY QueueAssumption, FS_Subset DEF PastCount
<1>4. /\ IsFiniteSet(Unfinished')
      /\ Cardinality(Unfinished') = Cardinality(Unfinished) + 1
  BY <1>1, FS_AddElement DEF DepthInv, DepthOvershoot
<1>5. Cardinality(PastCount') = Cardinality(PastCount) - 1
  BY <1>2, <1>3, FS_RemoveElement
<1>6. /\ Cardinality(Unfinished) \in Nat
      /\ Cardinality(PastCount) \in Nat
      /\ Cardinality(Producer) \in Nat
  BY <1>3, QueueAssumption, FS_CardinalityType DEF DepthInv, DepthOvershoot
<1>7. QED
  BY <1>4, <1>5, <1>6, QueueAssumption DEF DepthInv, DepthOvershoot

(* Every step preserves the overshoot bound. *)
LEMMA NextDepthInv == IInv /\ DepthInv /\ [Next]_vars => DepthInv'
<1> SUFFICES ASSUME IInv, DepthInv, [Next]_vars PROVE DepthInv'
  OBVIOUS
<1> USE DEF IInv
<1>1. ASSUME NEW p \in Producer, Enqueue(p) PROVE DepthInv'
  <2>1. CASE CheckDuplicate(p)
    <3>1. Unfinished' \subseteq Unfinished /\ PastCount' \subseteq PastCount
      BY <2>1 DEF CheckDuplicate, table, Unfinished, PastCount, TypeOK
    <3>2. QED
      BY <3>1, DepthShrinks
  <2>2. CASE EnqueueFails(p)
    <3>1. Unfinished' \subseteq Unfinished /\ PastCount' \subseteq PastCount
      BY <2>2 DEF EnqueueFails, Return, table, Unfinished, PastCount, TypeOK
    <3>2. QED
      BY <3>1, DepthShrinks
  <2>3. QED
    BY <1>1, <2>1, <2>2, CountDepthDepthInv, InsertDepthInv DEF Enqueue
<1>2. ASSUME NEW w \in Worker, Work(w) PROVE DepthInv'
  <2>1. PastCount' \subseteq PastCount
    BY <1>2 DEF Work, Mark, Claim, ClaimLost, HandlerReturns, MarkDone, MarkError,
                MarkPermanentFail, MarkLost, producers, PastCount
  <2>2. Unfinished' \subseteq Unfinished
    <3>1. CASE Mark(w)
      <4>1. held[w] \in Job /\ status[held[w]] = "active"
        BY <3>1 DEF WorkerInv, ExclusiveHolder, TypeOK, Mark, MarkDone, MarkError,
                    MarkPermanentFail
      <4>2. QED
        BY <3>1, <4>1 DEF Mark, MarkDone, MarkError, MarkPermanentFail, Unfinished, TypeOK
    <3>2. CASE \E i \in Job : Claim(w, i) \/ ClaimLost(w, i)
      BY <3>2 DEF Claim, ClaimLost, TakeRow, FirstInLine, Claimable, Unfinished, TypeOK
    <3>3. CASE HandlerReturns(w) \/ MarkLost(w)
      BY <3>3 DEF HandlerReturns, MarkLost, table, Unfinished
    <3>4. QED
      BY <1>2, <3>1, <3>2, <3>3 DEF Work
  <2>3. QED
    BY <2>1, <2>2, DepthShrinks
<1>3. ASSUME NEW i \in Job, BecomeDue(i) \/ BecomeStale(i) \/ Cleanup(i) PROVE DepthInv'
  <2>1. Unfinished' \subseteq Unfinished /\ PastCount' \subseteq PastCount
    BY <1>3 DEF BecomeDue, BecomeStale, Cleanup, producers, Unfinished, PastCount, TypeOK
  <2>2. QED
    BY <2>1, DepthShrinks
<1>4. CASE Crash \/ Start \/ StartUnrecovered \/ UNCHANGED vars
  <2>1. Unfinished' \subseteq Unfinished
    BY <1>4 DEF Crash, Start, StartUnrecovered, Stale, table,
                  producers, workers, vars, Unfinished, TypeOK
  <2>2. PastCount' \subseteq PastCount
    BY <1>4 DEF Crash, Start, StartUnrecovered, table, producers, workers, vars, PastCount, TypeOK
  <2>3. QED
    BY <2>1, <2>2, DepthShrinks
<1>5. QED
  BY <1>1, <1>2, <1>3, <1>4 DEF Next

(* The queue never holds more than MaxDepth + |Producer| - 1 jobs, those   *)
(* about to be inserted counted too.                                       *)
THEOREM DepthIsBounded == Spec => []DepthOvershoot
<1>1. DepthInv => DepthOvershoot
  BY DEF DepthInv
<1>2. QED
  BY <1>1, InitDepthInv, NextDepthInv, Invariance, PTL DEF Spec

-----------------------------------------------------------------------------
(* JobQueue implements JobLedger. *)

(* Rewriting one row rewrites its outcome and no other. *)
LEMMA OutcomeExcept ==
  ASSUME TypeOK, NEW j \in Job, NEW s \in Status, status' = [status EXCEPT ![j] = s]
  PROVE  outcomes' = [outcomes EXCEPT ![j] = OutcomeOf(s)]
BY DEF TypeOK, outcomes

(* Moving rows between pending and active leaves the outcomes alone. *)
LEMMA OutcomeSame ==
  ASSUME TypeOK, TypeOK',
         \A j \in Job : \/ status'[j] = status[j]
                       \/ {status[j], status'[j]} \subseteq {"pending", "active"}
  PROVE  outcomes' = outcomes
<1>1. \A j \in Job : OutcomeOf(status'[j]) = OutcomeOf(status[j])
  BY DEF OutcomeOf
<1>2. QED
  BY <1>1 DEF outcomes

(* The outcome of a row is the outcome of its status. *)
LEMMA OutcomeAt ==
  ASSUME TypeOK, NEW j \in Job
  PROVE  /\ outcomes[j] = OutcomeOf(status[j])
         /\ outcomes[j] = "open" <=> j \in Unfinished
         /\ outcomes[j] = "none" <=> status[j] = "none"
         /\ status[j] = "done" => outcomes[j] = "done"
         /\ status[j] = "failed" => outcomes[j] = "failed"
BY DEF TypeOK, Status, outcomes, OutcomeOf, Unfinished

(* The outcomes of the five groups of statuses. *)
LEMMA OutcomeNames ==
  /\ OutcomeOf("pending") = "open" /\ OutcomeOf("done") = "done"
  /\ OutcomeOf("failed") = "failed" /\ OutcomeOf("deleted") = "gone"
BY DEF OutcomeOf

(* Enqueue accepts one request or changes nothing the ledger sees. *)
LEMMA LedgerEnqueue ==
  ASSUME IInv, TypeOK', NEW p \in Producer, Enqueue(p)
  PROVE  [Ledger!LedgerNext]_(Ledger!ledgerVars)
<1> USE DEF IInv
<1>1. ASSUME NEW j \in Job, Insert(p, j) PROVE Ledger!Accept(j, want[p])
  <2>1. outcomes' = [outcomes EXCEPT ![j] = "open"]
    BY <1>1, OutcomeExcept, OutcomeNames DEF Insert, Status
  <2>2. outcomes[j] = "none"
    BY <1>1, OutcomeAt DEF Insert
  <2>3. want[p] # NoKey => \A i \in Job : ~(outcomes[i] = "open" /\ key[i] = want[p])
    BY <1>1, OutcomeAt DEF Insert, IndexAllows, HasUnfinished
  <2>4. QED
    BY <1>1, <2>1, <2>2, <2>3 DEF Insert, Ledger!Accept
<1>2. CASE UNCHANGED <<table, ran>>
  BY <1>2 DEF table, Ledger!ledgerVars, outcomes
<1>3. want[p] \in Keys
  BY DEF TypeOK
<1>4. QED
  BY <1>1, <1>2, <1>3 DEF Enqueue, CountDepth, CheckDuplicate, EnqueueFails,
                           Ledger!LedgerNext, Keys

(* A worker's step is an effect, a completion, a giving up or a stutter. *)
LEMMA LedgerWork ==
  ASSUME IInv, TypeOK', NEW w \in Worker, Work(w)
  PROVE  [Ledger!LedgerNext]_(Ledger!ledgerVars)
<1> USE DEF IInv
<1> DEFINE j == held[w]
<1>1. ASSUME wpc[w] # "idle" PROVE j \in Job /\ status[j] = "active" /\ outcomes[j] = "open"
  <2>1. j \in Job /\ status[j] = "active"
    BY <1>1 DEF WorkerInv, ExclusiveHolder, TypeOK
  <2>2. QED
    BY <2>1, OutcomeAt DEF Unfinished
<1>2. CASE MarkDone(w)
  <2>1. j \in Job /\ outcomes[j] = "open" /\ j \in ran
    BY <1>1, <1>2 DEF MarkDone, WorkerInv
  <2>2. outcomes' = [outcomes EXCEPT ![j] = "done"]
    BY <1>2, <2>1, OutcomeExcept, OutcomeNames DEF MarkDone, Status
  <2>3. Ledger!Complete(j)
    BY <1>2, <2>1, <2>2 DEF MarkDone, Ledger!Complete
  <2>4. QED
    BY <2>1, <2>3 DEF Ledger!LedgerNext
<1>3. ASSUME j \in Job, outcomes[j] = "open",
             status' = [status EXCEPT ![j] = "failed"], UNCHANGED <<key, ran>>
      PROVE  Ledger!LedgerNext
  <2>1. outcomes' = [outcomes EXCEPT ![j] = "failed"]
    BY <1>3, OutcomeExcept, OutcomeNames DEF Status
  <2>2. Ledger!GiveUp(j)
    BY <1>3, <2>1 DEF Ledger!GiveUp
  <2>3. QED
    BY <1>3, <2>2 DEF Ledger!LedgerNext
<1>4. CASE MarkPermanentFail(w)
  BY <1>1, <1>3, <1>4 DEF MarkPermanentFail
<1>5. CASE MarkError(w)
  <2>1. CASE attempts[held[w]] >= MaxAttempts
    BY <1>1, <1>3, <1>5, <2>1 DEF MarkError
  <2>2. CASE ~(attempts[held[w]] >= MaxAttempts)
    <3>1. j \in Job /\ status[j] = "active" /\ status' = [status EXCEPT ![j] = "pending"]
      BY <1>1, <1>5, <2>2 DEF MarkError
    <3>2. outcomes' = outcomes
      BY <3>1, OutcomeSame DEF TypeOK
    <3>3. QED
      BY <1>5, <3>2 DEF MarkError, Ledger!ledgerVars
  <2>3. QED
    BY <2>1, <2>2
<1>6. CASE HandlerReturns(w)
  <2>1. j \in Job /\ outcomes[j] = "open"
    BY <1>1, <1>6 DEF HandlerReturns
  <2>2. outcomes' = outcomes /\ key' = key
    BY <1>6 DEF HandlerReturns, table, outcomes
  <2>3. ran' = ran \union {j} \/ ran' = ran
    BY <1>6 DEF HandlerReturns
  <2>4. QED
    BY <2>1, <2>2, <2>3 DEF Ledger!LedgerNext, Ledger!Effect, Ledger!ledgerVars
<1>7. CASE MarkLost(w)
  BY <1>7 DEF MarkLost, table, outcomes, Ledger!ledgerVars
<1>8. ASSUME NEW i \in Job, Claim(w, i) \/ ClaimLost(w, i) PROVE UNCHANGED Ledger!ledgerVars
  <2>1. status[i] = "pending" /\ status' = [status EXCEPT ![i] = "active"]
    BY <1>8 DEF Claim, ClaimLost, TakeRow, FirstInLine, Claimable
  <2>2. outcomes' = outcomes
    BY <2>1, OutcomeSame DEF TypeOK
  <2>3. QED
    BY <1>8, <2>2 DEF Claim, ClaimLost, TakeRow, Ledger!ledgerVars
<1>9. QED
  BY <1>2, <1>4, <1>5, <1>6, <1>7, <1>8 DEF Work, Mark

(* The clock stutters, the clean-up forgets. *)
LEMMA LedgerRow ==
  ASSUME IInv, TypeOK', NEW j \in Job, BecomeDue(j) \/ BecomeStale(j) \/ Cleanup(j)
  PROVE  [Ledger!LedgerNext]_(Ledger!ledgerVars)
<1> USE DEF IInv
<1>1. CASE BecomeDue(j) \/ BecomeStale(j)
  BY <1>1 DEF BecomeDue, BecomeStale, outcomes, Ledger!ledgerVars
<1>2. CASE Cleanup(j)
  <2>1. outcomes' = [outcomes EXCEPT ![j] = "gone"]
    BY <1>2, OutcomeExcept, OutcomeNames DEF Cleanup, Status
  <2>2. outcomes[j] \in {"done", "failed"}
    BY <1>2, OutcomeAt DEF Cleanup
  <2>3. Ledger!Forget(j)
    BY <1>2, <2>1, <2>2 DEF Cleanup, Ledger!Forget
  <2>4. QED
    BY <2>3 DEF Ledger!LedgerNext
<1>3. QED
  BY <1>1, <1>2

(* Every step of the queue is a step of the ledger or a stutter. *)
LEMMA LedgerStep ==
  ASSUME IInv, [Next]_vars
  PROVE  [Ledger!LedgerNext]_(Ledger!ledgerVars)
<1> USE DEF IInv
<1>1. TypeOK'
  BY NextTypeOK
<1>2. CASE Crash \/ StartUnrecovered \/ UNCHANGED vars
  BY <1>2 DEF Crash, StartUnrecovered, table, vars, outcomes, Ledger!ledgerVars
<1>3. CASE Start
  <2>1. \A j \in Job : \/ status'[j] = status[j]
                      \/ {status[j], status'[j]} \subseteq {"pending", "active"}
    BY <1>3 DEF Start, Stale
  <2>2. outcomes' = outcomes
    BY <1>1, <2>1, OutcomeSame
  <2>3. QED
    BY <1>3, <2>2 DEF Start, Ledger!ledgerVars
<1>4. QED
  BY <1>1, <1>2, <1>3, LedgerEnqueue, LedgerWork, LedgerRow DEF Next

(* The queue keeps the contract of JobLedger. *)
THEOREM QueueImplementsLedger == Spec => ImplementsLedger
<1>1. Init => Ledger!LedgerInit
  BY DEF Init, outcomes, OutcomeOf, Ledger!LedgerInit
<1>2. IInv /\ [Next]_vars => [Ledger!LedgerNext]_(Ledger!ledgerVars)
  BY LedgerStep
<1>3. QED
  BY <1>1, <1>2, Invariance, PTL DEF Spec, ImplementsLedger, Ledger!LedgerSpec
=============================================================================
