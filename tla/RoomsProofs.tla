----------------------------- MODULE RoomsProofs -----------------------------
(***************************************************************************)
(* Proofs about Rooms, for every set of rooms, names, users, requests and  *)
(* workers.  The inductive invariant is type correctness, the uniqueness   *)
(* of active names, the hold of a worker on its job, and whose rooms a job *)
(* may work on; the two action properties and the quota follow from it     *)
(* step by step.                                                           *)
(***************************************************************************)
EXTENDS Rooms, TLAPS, FiniteSetTheorems

-----------------------------------------------------------------------------
(* What each part of the system leaves alone *)

(* A creation. *)
LEMMA CreateLeaves ==
  ASSUME NEW c \in Creator, Create(c)
  PROVE  UNCHANGED <<hook, jobs, workers, editors, sweep>>
BY DEF Create, CheckQuota, CreateMedia, CreateMediaFails, CreateRow, CreateRowFails, UndoMedia

(* A creation but for its insert. *)
LEMMA UncreatedLeaves ==
  ASSUME NEW c \in Creator, Create(c), \A q \in Room : ~CreateRow(c, q)
  PROVE  UNCHANGED <<room, maker>>
BY DEF Create, CheckQuota, CreateMedia, CreateMediaFails, CreateRowFails, UndoMedia

(* An editing request. *)
LEMMA EditLeaves ==
  ASSUME NEW e \in Editor, Edit(e)
  PROVE  UNCHANGED <<maker, hook, jobs, workers, creators, sweep>> /\ (SaveRow(e) \/ UNCHANGED room)
BY DEF Edit, ReadForSettings, ReadForReactivate, ReadRow, SaveRow, SaveFails, SyncMedia

(* A worker. *)
LEMMA JobLeaves ==
  ASSUME NEW w \in Worker, RunJob(w)
  PROVE  /\ UNCHANGED <<maker, hook, creators, editors, sweep>>
         /\ (\E t \in wtodo[w] : SettleRow(w, t)) \/ UNCHANGED room
BY DEF RunJob, Fetch, FetchFails, EndMedia, SettleRow, SkipRoom, CompleteJob, JobErrs, MarkLost

(* A member who joins, and an expiry. *)
LEMMA RoomLeaves ==
  ASSUME NEW r, Join(r) \/ Expire(r)
  PROVE  UNCHANGED <<maker, hook, jobs, workers, creators, editors, sweep>>
BY DEF Join, Expire

(* A request of a job. *)
LEMMA RequestLeaves ==
  ASSUME NEW i, NEW k, NEW x, Request(i, k, x)
  PROVE  UNCHANGED <<room, maker, livekit, hook, workers, creators, editors, sweep, faults>>
BY DEF Request

(* LiveKit, and what becomes of its events. *)
LEMMA LiveKitLeaves ==
  ASSUME LiveKit
  PROVE  UNCHANGED <<room, maker, jobs, workers, creators, editors, sweep>>
BY DEF LiveKit, Leave, MediaTimeout, HookLookup, HookLost

(* The webhook's write. *)
LEMMA HookLeaves ==
  ASSUME HookDeactivate
  PROVE  UNCHANGED <<maker, livekit, jobs, workers, creators, editors, sweep, faults>>
BY DEF HookDeactivate

(* The sweep. *)
LEMMA SweepLeaves ==
  ASSUME Sweep
  PROVE  /\ UNCHANGED <<maker, hook, jobs, workers, creators, editors>>
         /\ SweepIdle \/ SweepRecheck \/ UNCHANGED room
BY DEF Sweep, SweepList, SweepCount, SweepIdle, SweepRecheck

(* A crash and start. *)
LEMMA RestartLeaves ==
  ASSUME Restart
  PROVE  UNCHANGED <<room, maker, livekit>>
BY DEF Restart

-----------------------------------------------------------------------------
(* Type correctness *)

(* The table keeps its type when a row is deactivated. *)
LEMMA SetIdleType ==
  ASSUME TypeOK, NEW r, r \in Room \union {NoRoom}, SetIdle(r)
  PROVE  room' \in [Room -> Row \union {NoRow}]
BY DEF TypeOK, SetIdle, Flagged, Row

(* The table keeps its type when a row is archived. *)
LEMMA SoftDeleteType ==
  ASSUME TypeOK, NEW r \in Room, SoftDelete(r)
  PROVE  room' \in [Room -> Row \union {NoRow}]
BY DEF TypeOK, SoftDelete, Flagged, Row

(* The calls of LiveKit keep their type when one is deleted, or is not. *)
LEMMA DeleteMediaType ==
  ASSUME TypeOK, NEW n, EndCall(n) \/ UNCHANGED livekit
  PROVE  media' \subseteq Name /\ call' \in [Name -> SUBSET Room] /\ finished' \subseteq Name
BY DEF TypeOK, EndCall, livekit

(* Creating a room keeps the types. *)
LEMMA CreateType ==
  ASSUME TypeOK, NEW c \in Creator, Create(c)
  PROVE  TypeOK'
<1> USE DEF TypeOK, Names, Users
<1>1. ASSUME NEW u \in User, NEW n \in Name, CheckQuota(c, u, n) PROVE TypeOK'
  BY <1>1 DEF CheckQuota, livekit, workers, editors, sweep
<1>2. CASE CreateMedia(c)
  BY <1>2 DEF CreateMedia, OpenCall, workers, editors, sweep
<1>3. CASE CreateMediaFails(c)
  BY <1>3 DEF CreateMediaFails, CreateReturns, livekit, workers, editors, sweep
<1>4. ASSUME NEW r \in Room, CreateRow(c, r) PROVE TypeOK'
  BY <1>4 DEF CreateRow, CreateReturns, Row, livekit, workers, editors, sweep
<1>5. CASE CreateRowFails(c)
  BY <1>5 DEF CreateRowFails, livekit, workers, editors, sweep
<1>6. CASE UndoMedia(c)
  <2>1. EndCall(cname[c]) \/ UNCHANGED livekit
    BY <1>6 DEF UndoMedia, DeleteMedia
  <2>2. faults' \in 0..MaxFaults
    BY <1>6, RoomsAssumption DEF UndoMedia, DeleteMedia
  <2>3. QED
    BY <1>6, <2>1, <2>2, DeleteMediaType DEF UndoMedia, CreateReturns, workers, editors, sweep
<1>7. QED
  BY <1>1, <1>2, <1>3, <1>4, <1>5, <1>6 DEF Create

(* What UpdateRoom writes is a row. *)
LEMMA SavedType ==
  ASSUME NEW r, NEW img \in Row
  PROVE  Saved(r, img) \in Row
BY DEF Saved, Flagged, Row, Present

(* Reading and saving rows keeps the types. *)
LEMMA EditType ==
  ASSUME TypeOK, ReadersInv, NEW e \in Editor, Edit(e)
  PROVE  TypeOK'
<1> USE DEF TypeOK
<1>1. ASSUME NEW r \in Room, ReadForSettings(e, r) PROVE TypeOK'
  BY <1>1 DEF ReadForSettings, ReadRow, livekit, workers, creators, sweep
<1>2. ASSUME NEW r \in Room, ReadForReactivate(e, r) PROVE TypeOK'
  <2>1. Flagged(room[r], TRUE, room[r].archived) \in Row
    BY <1>2 DEF ReadForReactivate, Present, Flagged, Row
  <2>2. QED
    BY <1>2, <2>1 DEF ReadForReactivate, ReadRow, livekit, workers, creators, sweep
<1>3. CASE SaveRow(e)
  BY <1>3, SavedType DEF SaveRow, Save, ReadersInv, livekit, workers, creators, sweep
<1>4. CASE SaveFails(e)
  BY <1>4 DEF SaveFails, EditReturns, livekit, workers, creators, sweep
<1>5. CASE SyncMedia(e)
  BY <1>5 DEF SyncMedia, OpenCall, EditReturns, Names, Row, ReadersInv,
             livekit, workers, creators, sweep
<1>6. QED
  BY <1>1, <1>2, <1>3, <1>4, <1>5 DEF Edit

(* A claimed job, and one that failed, is a row, and about the same.       *)
LEMMA JobRows ==
  ASSUME NEW j \in Job
  PROVE  /\ Claimed(j) \in Job /\ Claimed(j).status = "active"
         /\ Claimed(j).kind = j.kind /\ Claimed(j).on = j.on
         /\ Errored(j) \in Job /\ Errored(j).kind = j.kind /\ Errored(j).on = j.on
<1>1. /\ j.status \in {"pending", "active", "failed"} /\ j.attempts \in Nat
      /\ j \in [kind : Kind, on : Room \union User,
                 status : {"pending", "active", "failed"}, attempts : Nat]
  BY DEF Job
<1> DEFINE n == j.attempts + 1
<1>2. n \in Nat
  BY <1>1
<1> HIDE DEF n
<1>3. /\ Claimed(j) \in Job /\ Claimed(j).status = "active"
      /\ Claimed(j).kind = j.kind /\ Claimed(j).on = j.on
  <2>1. Claimed(j) = [[j EXCEPT !.status = "active"] EXCEPT !.attempts = n]
    BY <1>1 DEF Claimed, n
  <2>2. [j EXCEPT !.status = "active"] \in Job
    BY <1>1 DEF Job
  <2>3. QED
    BY <1>1, <1>2, <2>1, <2>2 DEF Job
<1>4. Errored(j) \in Job
  BY <1>1 DEF Job, Errored
<1>5. Errored(j).kind = j.kind /\ Errored(j).on = j.on
  BY <1>1 DEF Errored
<1>6. QED
  BY <1>3, <1>4, <1>5

(* What a job lists are rooms of the table. *)
LEMMA TargetsType ==
  ASSUME TypeOK, NEW j, NEW r \in Targets(j)
  PROVE  r \in Room /\ Present(r) /\ room[r] \in Row /\ room[r].name \in Names
BY DEF TypeOK, Targets, Owned, Findable, Present, Row

(* Running a job keeps the types. *)
LEMMA JobType ==
  ASSUME TypeOK, HeldInv, NEW w \in Worker, RunJob(w)
  PROVE  TypeOK'
<1> USE DEF TypeOK
<1>1. ASSUME NEW i \in JobId, Fetch(w, i) PROVE TypeOK'
  <2>1. Claimed(jobs[i]) \in Job
    BY <1>1, JobRows DEF Fetch, Claimable
  <2>2. {[room |-> r, name |-> room[r].name] : r \in Targets(jobs[i])} \in SUBSET Item
    BY TargetsType DEF Item
  <2>3. QED
    BY <1>1, <2>1, <2>2 DEF Fetch, livekit, creators, editors, sweep
<1>2. ASSUME NEW i \in JobId, FetchFails(w, i) PROVE TypeOK'
  <2>1. Errored(Claimed(jobs[i])) \in Job
    BY <1>2, JobRows DEF FetchFails, Claimable
  <2>2. faults' \in 0..MaxFaults
    BY <1>2, RoomsAssumption DEF FetchFails
  <2>3. QED
    BY <1>2, <2>1, <2>2 DEF FetchFails, livekit, workers, creators, editors, sweep
<1>3. ASSUME NEW t \in wtodo[w], EndMedia(w, t) PROVE TypeOK'
  <2>1. EndCall(t.name) \/ UNCHANGED livekit
    BY <1>3 DEF EndMedia, DeleteMedia
  <2>2. faults' \in 0..MaxFaults
    BY <1>3, RoomsAssumption DEF EndMedia, DeleteMedia
  <2>3. QED
    BY <1>3, <2>1, <2>2, DeleteMediaType DEF EndMedia, creators, editors, sweep
<1>4. ASSUME NEW t \in wtodo[w], SettleRow(w, t) PROVE TypeOK'
  <2>1. t.room \in Room
    BY DEF Item
  <2>2. room' \in [Room -> Row \union {NoRow}]
    BY <1>4, <2>1, SetIdleType, SoftDeleteType DEF SettleRow, Wipe, ArchiveRow
  <2>3. QED
    BY <1>4, <2>2 DEF SettleRow, Settled, livekit, creators, editors, sweep
<1>5. ASSUME NEW t \in wtodo[w], SkipRoom(w, t) PROVE TypeOK'
  <2>1. faults' \in 0..MaxFaults
    BY <1>5, RoomsAssumption DEF SkipRoom
  <2>2. QED
    BY <1>5, <2>1 DEF SkipRoom, Settled, livekit, creators, editors, sweep
<1>6. CASE CompleteJob(w)
  BY <1>6 DEF CompleteJob, Drop, livekit, creators, editors, sweep
<1>7. CASE JobErrs(w)
  <2>1. wjob[w] \in JobId /\ jobs[wjob[w]] \in Job
    BY <1>7 DEF JobErrs, HeldInv
  <2>2. Errored(jobs[wjob[w]]) \in Job
    BY <2>1, JobRows
  <2>3. faults' \in 0..MaxFaults
    BY <1>7, RoomsAssumption DEF JobErrs
  <2>4. QED
    BY <1>7, <2>1, <2>2, <2>3 DEF JobErrs, Drop, livekit, creators, editors, sweep
<1>8. CASE MarkLost(w)
  <2>1. faults' \in 0..MaxFaults
    BY <1>8, RoomsAssumption DEF MarkLost
  <2>2. QED
    BY <1>8, <2>1 DEF MarkLost, Drop, livekit, creators, editors, sweep
<1>9. QED
  BY <1>1, <1>2, <1>3, <1>4, <1>5, <1>6, <1>7, <1>8 DEF RunJob

(* A request of a job keeps the types. *)
LEMMA RequestType ==
  ASSUME TypeOK, NEW i \in JobId, NEW k \in Kind, NEW x \in Room \union User, Request(i, k, x)
  PROVE  TypeOK'
<1>1. [kind |-> k, on |-> x, status |-> "pending", attempts |-> 0] \in Job
  BY DEF Job
<1>2. QED
  BY <1>1 DEF TypeOK, Request, livekit, workers, creators, editors, sweep

(* A crash and start keeps the types. *)
LEMMA RestartType ==
  ASSUME TypeOK, Restart
  PROVE  TypeOK'
<1>1. PICK S \in SUBSET {i \in JobId : jobs[i] # NoJob /\ jobs[i].status = "active"} :
        jobs' = Recovered(S)
  BY DEF Restart
<1>2. ASSUME NEW i \in S PROVE [jobs[i] EXCEPT !.status = "pending"] \in Job
  BY <1>2 DEF TypeOK, Job
<1>3. jobs' \in [JobId -> Job \union {NoJob}]
  BY <1>1, <1>2 DEF TypeOK, Recovered
<1>4. faults' \in 0..MaxFaults
  BY RoomsAssumption DEF TypeOK, Restart
<1>5. QED
  BY <1>3, <1>4 DEF TypeOK, Restart, SweepEnds, Names, Users, livekit

(* LiveKit and its webhook keep the types. *)
LEMMA LiveKitType ==
  ASSUME TypeOK, LiveKit \/ HookDeactivate
  PROVE  TypeOK'
<1> USE DEF TypeOK
<1>1. CASE HookDeactivate
  BY <1>1, SetIdleType DEF HookDeactivate, livekit, workers, creators, editors, sweep
<1>2. ASSUME NEW n \in Name, NEW r \in Room, Leave(n, r) PROVE TypeOK'
  BY <1>2 DEF Leave, workers, creators, editors, sweep
<1>3. ASSUME NEW n \in Name, MediaTimeout(n) PROVE TypeOK'
  BY <1>3, DeleteMediaType DEF MediaTimeout, workers, creators, editors, sweep
<1>4. ASSUME NEW n \in Name, HookLookup(n) PROVE TypeOK'
  BY <1>4 DEF HookLookup, Named, workers, creators, editors, sweep
<1>5. ASSUME NEW n \in Name, HookLost(n) PROVE TypeOK'
  BY <1>5 DEF HookLost, workers, creators, editors, sweep
<1>6. QED
  BY <1>1, <1>2, <1>3, <1>4, <1>5 DEF LiveKit

(* Members joining and rooms expiring keep the types. *)
LEMMA RoomType ==
  ASSUME TypeOK, NEW r \in Room, Join(r) \/ Expire(r)
  PROVE  TypeOK'
<1> USE DEF TypeOK
<1>1. CASE Join(r)
  <2>1. room[r].name \in Name
    BY <1>1 DEF Join, Active, Present, Row, Names
  <2>2. QED
    BY <1>1, <2>1 DEF Join, workers, creators, editors, sweep
<1>2. CASE Expire(r)
  BY <1>2, SetIdleType DEF Expire, livekit, workers, creators, editors, sweep
<1>3. QED
  BY <1>1, <1>2

(* The sweep keeps the types. *)
LEMMA SweepType ==
  ASSUME TypeOK, ReadersInv, Sweep
  PROVE  TypeOK'
<1> USE DEF TypeOK, Names
<1>1. ASSUME NEW r \in Room, SweepList(r) PROVE TypeOK'
  BY <1>1 DEF SweepList, Active, Present, Row, livekit, workers, creators, editors
<1>2. CASE SweepCount
  BY <1>2 DEF SweepCount, SweepEnds, livekit, workers, creators, editors
<1>3. CASE SweepIdle
  BY <1>3, SetIdleType DEF SweepIdle, livekit, workers, creators, editors
<1>4. CASE SweepRecheck
  <2>1. Reactivated \in Row
    BY DEF Reactivated, Row, Users
  <2>2. QED
    BY <1>4, <2>1, SavedType DEF SweepRecheck, SweepEnds, Save, ReadersInv,
                                  livekit, workers, creators, editors
<1>5. QED
  BY <1>1, <1>2, <1>3, <1>4 DEF Sweep

(* Every step keeps the types. *)
LEMMA NextTypeOK == RoomsInv /\ [Next]_vars => TypeOK'
<1> SUFFICES ASSUME RoomsInv, [Next]_vars PROVE TypeOK'
  OBVIOUS
<1>1. CASE UNCHANGED vars
  BY <1>1 DEF RoomsInv, TypeOK, vars, livekit, workers, creators, editors, sweep
<1>2. QED
  BY <1>1, CreateType, EditType, JobType, LiveKitType, RoomType, RequestType, SweepType,
     RestartType
     DEF Next, RoomsInv

-----------------------------------------------------------------------------
(* Active names stay unique *)

(* Writing one row keeps active names unique if the index lets it.  *)
LEMMA WriteKeepsUnique ==
  ASSUME TypeOK, ActiveNameUnique, NEW r \in Room, NEW img \in Row \union {NoRow},
         img # NoRow /\ img.active => NameFree(img.name, r),
         room' = [room EXCEPT ![r] = img]
  PROVE  ActiveNameUnique'
<1> USE DEF TypeOK
<1>1. /\ room'[r] = img
      /\ \A q \in Room \ {r} : room'[q] = room[q]
  OBVIOUS
<1>2. SUFFICES ASSUME NEW p \in Room, NEW q \in Room,
                      Active(p)', Active(q)', room'[p].name = room'[q].name
               PROVE  p = q
  BY DEF ActiveNameUnique
<1>3. CASE p # r /\ q # r
  BY <1>1, <1>2, <1>3 DEF ActiveNameUnique, Active, Present
<1>4. CASE p = r /\ q # r
  BY <1>1, <1>2, <1>4 DEF NameFree, Active, Present
<1>5. CASE p # r /\ q = r
  BY <1>1, <1>2, <1>5 DEF NameFree, Active, Present
<1>6. QED
  BY <1>3, <1>4, <1>5

(* What UpdateRoom writes is a row, and the index lets it.  *)
LEMMA SaveKeepsUnique ==
  ASSUME TypeOK, ActiveNameUnique, NEW r \in Room, NEW img \in Row, Save(r, img)
  PROVE  ActiveNameUnique'
<1>1. Saved(r, img) \in Row
  BY SavedType
<1>2. Saved(r, img).active => NameFree(Saved(r, img).name, r)
  BY DEF Save, SaveAllowed, Saved, Flagged
<1>3. room' = [room EXCEPT ![r] = Saved(r, img)]
  BY DEF Save
<1>4. QED
  BY <1>1, <1>2, <1>3, WriteKeepsUnique

(* Deactivating a row keeps active names unique. *)
LEMMA SetIdleKeepsUnique ==
  ASSUME TypeOK, ActiveNameUnique, NEW r \in Room, SetIdle(r)
  PROVE  ActiveNameUnique'
<1> DEFINE img == IF room[r] = NoRow THEN NoRow ELSE Flagged(room[r], FALSE, room[r].archived)
<1>1. img \in Row \union {NoRow} /\ (img # NoRow => ~img.active)
  BY DEF TypeOK, Flagged, Row
<1>2. room' = [room EXCEPT ![r] = img]
  BY DEF TypeOK, SetIdle
<1>3. QED
  BY <1>1, <1>2, WriteKeepsUnique

(* Archiving a row keeps active names unique. *)
LEMMA SoftDeleteKeepsUnique ==
  ASSUME TypeOK, ActiveNameUnique, NEW r \in Room, SoftDelete(r)
  PROVE  ActiveNameUnique'
<1> DEFINE img == IF room[r] = NoRow THEN NoRow ELSE Flagged(room[r], FALSE, TRUE)
<1>1. img \in Row \union {NoRow} /\ (img # NoRow => ~img.active)
  BY DEF TypeOK, Flagged, Row
<1>2. room' = [room EXCEPT ![r] = img]
  BY DEF TypeOK, SoftDelete
<1>3. QED
  BY <1>1, <1>2, WriteKeepsUnique

(* A step that leaves the table alone keeps active names unique. *)
LEMMA SameRoomsKeepUnique ==
  ASSUME ActiveNameUnique, UNCHANGED room
  PROVE  ActiveNameUnique'
BY DEF ActiveNameUnique, Active, Present

(* Every step keeps active names unique. *)
LEMMA NextUnique ==
  ASSUME RoomsInv, [Next]_vars
  PROVE  ActiveNameUnique'
<1> USE DEF RoomsInv
<1>1. ASSUME NEW c \in Creator, Create(c) PROVE ActiveNameUnique'
  <2>1. ASSUME NEW r \in Room, CreateRow(c, r) PROVE ActiveNameUnique'
    <3> DEFINE img == [name |-> cname[c], owner |-> cuser[c],
                       active |-> TRUE, archived |-> FALSE]
    <3>1. img \in Row /\ NameFree(img.name, r)
      BY <2>1 DEF CreateRow, TypeOK, Row
    <3>2. room' = [room EXCEPT ![r] = img]
      BY <2>1 DEF CreateRow
    <3>3. QED
      BY <3>1, <3>2, WriteKeepsUnique
  <2>2. QED
    BY <1>1, <2>1, UncreatedLeaves, SameRoomsKeepUnique
<1>2. ASSUME NEW e \in Editor, Edit(e) PROVE ActiveNameUnique'
  <2>1. CASE SaveRow(e)
    <3>1. eroom[e] \in Room /\ esnap[e] \in Row
      BY <2>1 DEF SaveRow, ReadersInv
    <3>2. QED
      BY <2>1, <3>1, SaveKeepsUnique DEF SaveRow
  <2>2. QED
    BY <1>2, <2>1, EditLeaves, SameRoomsKeepUnique
<1>3. ASSUME NEW w \in Worker, RunJob(w) PROVE ActiveNameUnique'
  <2>1. ASSUME NEW t \in wtodo[w], SettleRow(w, t) PROVE ActiveNameUnique'
    <3>1. t.room \in Room
      BY DEF TypeOK, Item
    <3>2. QED
      BY <2>1, <3>1, WriteKeepsUnique, SoftDeleteKeepsUnique, SetIdleKeepsUnique
         DEF SettleRow, Wipe, ArchiveRow
  <2>2. QED
    BY <1>3, <2>1, JobLeaves, SameRoomsKeepUnique
<1>4. CASE LiveKit
  BY <1>4, LiveKitLeaves, SameRoomsKeepUnique
<1>5. CASE HookDeactivate
  BY <1>5, SetIdleKeepsUnique DEF HookDeactivate, TypeOK
<1>6. ASSUME NEW r \in Room, Join(r) \/ Expire(r) PROVE ActiveNameUnique'
  BY <1>6, SetIdleKeepsUnique, SameRoomsKeepUnique DEF Join, Expire
<1>7. CASE Sweep
  <2>1. CASE SweepIdle
    BY <2>1, SetIdleKeepsUnique DEF SweepIdle, ReadersInv
  <2>2. CASE SweepRecheck
    <3>1. Reactivated \in Row
      BY DEF Reactivated, Row, Names, Users
    <3>2. sroom \in Room
      BY <2>2 DEF SweepRecheck, ReadersInv
    <3>3. QED
      BY <2>2, <3>1, <3>2, SaveKeepsUnique, SameRoomsKeepUnique DEF SweepRecheck
  <2>3. QED
    BY <1>7, <2>1, <2>2, SweepLeaves, SameRoomsKeepUnique
<1>8. CASE UNCHANGED vars \/ Restart \/ \E i \in JobId, k \in Kind, x \in Room \union User : Request(i, k, x)
  BY <1>8, RequestLeaves, RestartLeaves, SameRoomsKeepUnique DEF vars
<1>9. QED
  BY <1>1, <1>2, <1>3, <1>4, <1>5, <1>6, <1>7, <1>8 DEF Next

-----------------------------------------------------------------------------
(* Workers and their jobs, readers and their rows *)

(* A worker that lets go of its job, whatever becomes of the job, disturbs *)
(* no other.                                                               *)
LEMMA DropKeepsHeld ==
  ASSUME TypeOK, HeldInv, NEW w \in Worker, Drop(w),
         \A i \in JobId : i # wjob[w] => jobs'[i] = jobs[i]
  PROVE  HeldInv'
<1>1. /\ wjob'[w] = NoJob /\ wtodo'[w] = {} /\ wended'[w] = {}
      /\ \A v \in Worker \ {w} :
           wjob'[v] = wjob[v] /\ wtodo'[v] = wtodo[v] /\ wended'[v] = wended[v]
  BY DEF TypeOK, Drop
<1>2. ASSUME NEW v \in Worker, wjob'[v] # NoJob
      PROVE  v # w /\ jobs'[wjob'[v]] = jobs[wjob[v]]
  BY <1>1, <1>2 DEF TypeOK, HeldInv
<1>3. QED
  BY <1>1, <1>2 DEF HeldInv

(* Every step of a worker keeps the hold of workers on their jobs. *)
LEMMA JobHeld ==
  ASSUME TypeOK, HeldInv, NEW w \in Worker, RunJob(w)
  PROVE  HeldInv'
<1>1. ASSUME NEW i \in JobId, Fetch(w, i) PROVE HeldInv'
  <2>1. wjob[w] = NoJob /\ jobs[i] \in Job /\ jobs[i].status = "pending"
    BY <1>1 DEF Fetch, Claimable, TypeOK
  <2>2. /\ wjob'[w] = i /\ wended' = wended /\ wended[w] = {}
        /\ \A v \in Worker \ {w} : wjob'[v] = wjob[v] /\ wtodo'[v] = wtodo[v]
    BY <1>1, <2>1 DEF Fetch, TypeOK, HeldInv
  <2>3. jobs'[i] # NoJob /\ jobs'[i].status = "active"
    BY <1>1, <2>1, JobRows, RoomsAssumption DEF Fetch, TypeOK
  <2>4. \A j \in JobId \ {i} : jobs'[j] = jobs[j]
    BY <1>1 DEF Fetch, TypeOK
  <2>5. i # NoJob
    BY RoomsAssumption
  <2>6. \A v \in Worker : wjob[v] # i
    BY <2>1, <2>5 DEF HeldInv
  <2>7. \A v \in Worker : wended'[v] \subseteq wtodo'[v] /\ (wjob'[v] = NoJob => wtodo'[v] = {})
    BY <2>2, <2>5 DEF HeldInv
  <2>8. ASSUME NEW v \in Worker, wjob'[v] # NoJob
        PROVE  /\ jobs'[wjob'[v]] # NoJob /\ jobs'[wjob'[v]].status = "active"
               /\ \A u \in Worker : wjob'[u] = wjob'[v] => u = v
    <3>1. CASE v = w
      BY <2>2, <2>3, <2>6, <3>1
    <3>2. CASE v # w
      BY <2>2, <2>4, <2>6, <2>8, <3>2 DEF HeldInv, TypeOK
    <3>3. QED
      BY <3>1, <3>2
  <2>9. QED
    BY <2>7, <2>8 DEF HeldInv
<1>2. ASSUME NEW i \in JobId, FetchFails(w, i) PROVE HeldInv'
  <2>1. jobs[i].status = "pending" /\ jobs[i] # NoJob /\ UNCHANGED workers
    BY <1>2 DEF FetchFails, Claimable
  <2>2. \A v \in Worker : wjob[v] # NoJob => wjob[v] # i
    BY <2>1 DEF HeldInv
  <2>3. \A j \in JobId \ {i} : jobs'[j] = jobs[j]
    BY <1>2 DEF FetchFails, TypeOK
  <2>4. QED
    BY <2>1, <2>2, <2>3 DEF HeldInv, TypeOK, workers
<1>3. ASSUME NEW t \in wtodo[w], EndMedia(w, t) PROVE HeldInv'
  BY <1>3 DEF EndMedia, HeldInv, TypeOK
<1>4. ASSUME NEW t \in wtodo[w], SettleRow(w, t) \/ SkipRoom(w, t) PROVE HeldInv'
  BY <1>4 DEF SettleRow, SkipRoom, Settled, HeldInv, TypeOK
<1>5. CASE CompleteJob(w) \/ JobErrs(w) \/ MarkLost(w)
  BY <1>5, DropKeepsHeld DEF CompleteJob, JobErrs, MarkLost, TypeOK
<1>6. QED
  BY <1>1, <1>2, <1>3, <1>4, <1>5 DEF RunJob

(* Every step keeps the hold of workers on their jobs. *)
LEMMA NextHeld ==
  ASSUME RoomsInv, [Next]_vars
  PROVE  HeldInv'
<1> USE DEF RoomsInv
<1>1. CASE UNCHANGED <<jobs, workers>>
  BY <1>1 DEF HeldInv, workers
<1>2. ASSUME NEW i \in JobId, NEW k \in Kind, NEW x \in Room \union User, Request(i, k, x)
      PROVE  HeldInv'
  <2>1. \A v \in Worker : wjob[v] # NoJob => wjob[v] # i
    BY <1>2 DEF Request, HeldInv
  <2>2. \A j \in JobId \ {i} : jobs'[j] = jobs[j]
    BY <1>2 DEF Request, TypeOK
  <2>3. QED
    BY <1>2, <2>1, <2>2 DEF Request, HeldInv, TypeOK, workers
<1>3. CASE Restart
  BY <1>3 DEF Restart, HeldInv
<1>4. CASE UNCHANGED vars
  BY <1>1, <1>4 DEF vars
<1>5. QED
  BY <1>1, <1>2, <1>3, <1>4, JobHeld, CreateLeaves, EditLeaves, RoomLeaves, LiveKitLeaves,
     HookLeaves, SweepLeaves
     DEF Next

(* Every step keeps what the readers of rows know. *)
LEMMA NextReaders ==
  ASSUME RoomsInv, [Next]_vars
  PROVE  ReadersInv'
<1> USE DEF RoomsInv
<1>1. ASSUME NEW e \in Editor, Edit(e) PROVE ReadersInv'
  <2> USE DEF TypeOK, ReadersInv
  <2>1. ASSUME NEW r \in Room, ReadForSettings(e, r) PROVE ReadersInv'
    BY <2>1 DEF ReadForSettings, ReadRow, Present, sweep
  <2>2. ASSUME NEW r \in Room, ReadForReactivate(e, r) PROVE ReadersInv'
    <3>1. Flagged(room[r], TRUE, room[r].archived) \in Row
      BY <2>2 DEF ReadForReactivate, Present, Flagged, Row
    <3>2. QED
      BY <2>2, <3>1 DEF ReadForReactivate, ReadRow, sweep
  <2>3. CASE SaveRow(e)
    BY <2>3 DEF SaveRow, sweep
  <2>4. CASE SaveFails(e) \/ SyncMedia(e)
    BY <2>4 DEF SaveFails, SyncMedia, EditReturns, sweep
  <2>5. QED
    BY <1>1, <2>1, <2>2, <2>3, <2>4 DEF Edit
<1>2. CASE Sweep
  BY <1>2 DEF Sweep, SweepList, SweepCount, SweepIdle, SweepRecheck, SweepEnds, editors,
              ReadersInv
<1>3. CASE UNCHANGED <<editors, sweep>>
  BY <1>3 DEF ReadersInv, editors, sweep
<1>4. CASE Restart
  BY <1>4 DEF Restart, SweepEnds, ReadersInv
<1>5. CASE UNCHANGED vars
  BY <1>3, <1>5 DEF vars
<1>6. QED
  BY <1>1, <1>2, <1>3, <1>4, <1>5, CreateLeaves, JobLeaves, RoomLeaves, RequestLeaves,
     LiveKitLeaves, HookLeaves
     DEF Next

-----------------------------------------------------------------------------
(* Whose rooms they are, and whose a job works on *)

(* A row that is left with the owner it had, or removed. *)
KeepsOwner(r) == room'[r] = NoRow \/ (room[r] # NoRow /\ room'[r].owner = room[r].owner)

(* Deactivating, archiving and removing a row leave the owners alone. *)
LEMMA FlagsKeepOwners ==
  ASSUME TypeOK, NEW r \in Room, NEW q, SetIdle(q) \/ SoftDelete(q) \/ Wipe(q)
  PROVE  KeepsOwner(r)
<1>1. room \in [Room -> Row \union {NoRow}]
  BY DEF TypeOK
<1>2. CASE room[r] = NoRow
  BY <1>1, <1>2 DEF SetIdle, SoftDelete, Wipe, KeepsOwner
<1>3. CASE room[r] # NoRow
  <2>1. \/ room'[r] = room[r] \/ room'[r] = NoRow
        \/ room'[r] = Flagged(room[r], FALSE, room[r].archived)
        \/ room'[r] = Flagged(room[r], FALSE, TRUE)
    BY <1>1, <1>3 DEF SetIdle, SoftDelete, Wipe
  <2>2. QED
    BY <1>3, <2>1 DEF KeepsOwner, Flagged
<1>4. QED
  BY <1>2, <1>3

(* Where every row keeps its owner or goes, whose rooms they are stands. *)
LEMMA OwnersStay ==
  ASSUME OwnerInv, UNCHANGED <<maker, editors, creators, sweep>>, \A r \in Room : KeepsOwner(r)
  PROVE  OwnerInv'
BY DEF OwnerInv, KeepsOwner, Present, editors, creators, sweep

(* A creation gives the room it inserts to the user it is made for. *)
LEMMA CreateOwner ==
  ASSUME RoomsInv, NEW c \in Creator, Create(c)
  PROVE  OwnerInv'
<1> USE DEF RoomsInv, TypeOK
<1>1. ASSUME NEW u \in User, NEW n \in Name, CheckQuota(c, u, n) PROVE OwnerInv'
  BY <1>1 DEF CheckQuota, OwnerInv, Present, editors, sweep
<1>2. CASE CreateMedia(c)
  BY <1>2 DEF CreateMedia, OwnerInv, Present, editors, sweep
<1>3. CASE CreateMediaFails(c) \/ CreateRowFails(c) \/ UndoMedia(c)
  BY <1>3 DEF CreateMediaFails, CreateRowFails, UndoMedia, CreateReturns, OwnerInv, Present,
              editors, sweep
<1>4. ASSUME NEW r \in Room, CreateRow(c, r) PROVE OwnerInv'
  <2>1. cuser[c] \in User /\ cuser[c] # NoUser /\ maker[r] = NoUser
    BY <1>4, RoomsAssumption DEF CreateRow, OwnerInv
  <2>2. /\ maker'[r] = cuser[c] /\ room'[r].owner = cuser[c]
        /\ \A q \in Room \ {r} : maker'[q] = maker[q] /\ room'[q] = room[q]
    BY <1>4 DEF CreateRow
  <2>3. UNCHANGED <<editors, sweep>>
    BY <1>4 DEF CreateRow
  <2>4. \A q \in Room : Present(q)' => maker'[q] # NoUser /\ room'[q].owner \in {maker'[q], NoUser}
    BY <2>1, <2>2 DEF OwnerInv, Present
  <2>5. \A e \in Editor : epc'[e] = "read" =>
          maker'[eroom'[e]] # NoUser /\ esnap'[e].owner \in {maker'[eroom'[e]], NoUser}
    BY <2>1, <2>2, <2>3 DEF OwnerInv, ReadersInv, editors
  <2>6. spc' # "idle" => maker'[sroom'] # NoUser
    BY <2>1, <2>2, <2>3 DEF OwnerInv, ReadersInv, sweep
  <2>7. \A d \in Creator : cpc'[d] # "idle" => cuser'[d] \in User
    BY <1>4 DEF CreateRow, CreateReturns, OwnerInv
  <2>8. QED
    BY <2>4, <2>5, <2>6, <2>7 DEF OwnerInv
<1>5. QED
  BY <1>1, <1>2, <1>3, <1>4 DEF Create

(* A save gives a row back to the owner it was read with. *)
LEMMA EditOwner ==
  ASSUME RoomsInv, NEW e \in Editor, Edit(e)
  PROVE  OwnerInv'
<1> USE DEF RoomsInv, TypeOK
<1>1. ASSUME NEW r \in Room, NEW img, img.owner = room[r].owner, ReadRow(e, r, img)
      PROVE  OwnerInv'
  BY <1>1 DEF ReadRow, OwnerInv, Present, creators, sweep
<1>2. ASSUME NEW r \in Room, ReadForSettings(e, r) \/ ReadForReactivate(e, r) PROVE OwnerInv'
  BY <1>1, <1>2 DEF ReadForSettings, ReadForReactivate, Flagged
<1>3. CASE SaveRow(e)
  <2> DEFINE q == eroom[e]
  <2>1. q \in Room /\ maker[q] # NoUser /\ esnap[e].owner \in {maker[q], NoUser}
    BY <1>3 DEF SaveRow, ReadersInv, OwnerInv
  <2>2. /\ room'[q].owner = esnap[e].owner
        /\ \A r \in Room \ {q} : room'[r] = room[r]
    BY <1>3, <2>1 DEF SaveRow, Save, Saved, Flagged
  <2>3. UNCHANGED <<maker, creators, sweep, eroom, esnap>> /\ epc'[e] = "saved"
        /\ \A d \in Editor \ {e} : epc'[d] = epc[d]
    BY <1>3 DEF SaveRow
  <2>4. QED
    BY <2>1, <2>2, <2>3 DEF OwnerInv, Present, creators, sweep
<1>4. CASE SaveFails(e) \/ SyncMedia(e)
  BY <1>4 DEF SaveFails, SyncMedia, EditReturns, OwnerInv, Present, creators, sweep
<1>5. QED
  BY <1>2, <1>3, <1>4 DEF Edit

(* The sweep idles a room or leaves it to nobody. *)
LEMMA SweepOwner ==
  ASSUME RoomsInv, Sweep
  PROVE  OwnerInv'
<1> USE DEF RoomsInv, TypeOK
<1>1. ASSUME NEW r \in Room, SweepList(r) PROVE OwnerInv'
  BY <1>1 DEF SweepList, Active, OwnerInv, Present, editors, creators
<1>2. CASE SweepCount
  BY <1>2 DEF SweepCount, SweepEnds, OwnerInv, Present, editors, creators
<1>3. CASE SweepIdle
  <2>1. \A r \in Room : KeepsOwner(r)
    BY <1>3, FlagsKeepOwners DEF SweepIdle
  <2>2. QED
    BY <1>3, <2>1 DEF SweepIdle, OwnerInv, KeepsOwner, Present, editors, creators
<1>4. CASE SweepRecheck
  <2>1. sroom \in Room /\ maker[sroom] # NoUser
    BY <1>4 DEF SweepRecheck, ReadersInv, OwnerInv
  <2>2. Saved(sroom, Reactivated).owner = NoUser
    BY DEF Saved, Flagged, Reactivated
  <2>3. \A r \in Room : room'[r] = room[r] \/ (r = sroom /\ room'[r].owner = NoUser)
    BY <1>4, <2>1, <2>2 DEF SweepRecheck, Save
  <2>4. spc' = "idle" /\ UNCHANGED <<maker, editors, creators>>
    BY <1>4 DEF SweepRecheck, SweepEnds
  <2>5. QED
    BY <2>1, <2>3, <2>4 DEF OwnerInv, Present, editors, creators
<1>5. QED
  BY <1>1, <1>2, <1>3, <1>4 DEF Sweep

(* Every step leaves a row to who made it, or to nobody. *)
LEMMA NextOwner ==
  ASSUME RoomsInv, [Next]_vars
  PROVE  OwnerInv'
<1> USE DEF RoomsInv
<1>1. CASE UNCHANGED <<room, maker, editors, creators, sweep>>
  BY <1>1 DEF OwnerInv, Present, editors, creators, sweep
<1>2. ASSUME NEW w \in Worker, RunJob(w) PROVE OwnerInv'
  <2>1. ASSUME NEW t \in wtodo[w], SettleRow(w, t) PROVE OwnerInv'
    <3>1. \A r \in Room : KeepsOwner(r)
      BY <2>1, FlagsKeepOwners DEF SettleRow, ArchiveRow
    <3>2. QED
      BY <1>2, <3>1, OwnersStay, JobLeaves
  <2>2. QED
    BY <1>1, <1>2, <2>1, JobLeaves
<1>3. ASSUME NEW r \in Room, Join(r) \/ Expire(r) PROVE OwnerInv'
  <2>1. CASE Join(r)
    BY <1>1, <2>1 DEF Join
  <2>2. CASE Expire(r)
    <3>1. \A q \in Room : KeepsOwner(q)
      BY <2>2, FlagsKeepOwners DEF Expire
    <3>2. QED
      BY <2>2, <3>1, OwnersStay DEF Expire
  <2>3. QED
    BY <1>3, <2>1, <2>2
<1>4. CASE HookDeactivate
  <2>1. \A q \in Room : KeepsOwner(q)
    BY <1>4, FlagsKeepOwners DEF HookDeactivate
  <2>2. QED
    BY <1>4, <2>1, OwnersStay, HookLeaves
<1>5. CASE Restart
  BY <1>5 DEF Restart, SweepEnds, OwnerInv, Present
<1>6. CASE UNCHANGED vars
  BY <1>1, <1>6 DEF vars
<1>7. QED
  BY <1>1, <1>2, <1>3, <1>4, <1>5, <1>6, CreateOwner, EditOwner, SweepOwner, RequestLeaves,
     LiveKitLeaves
     DEF Next

(* Who made a room is settled once. *)
LEMMA MakersStay ==
  ASSUME RoomsInv, [Next]_vars, NEW r \in Room, maker[r] # NoUser
  PROVE  maker'[r] = maker[r]
<1>1. ASSUME NEW c \in Creator, Create(c) PROVE maker'[r] = maker[r]
  BY <1>1, UncreatedLeaves DEF CreateRow, RoomsInv, TypeOK
<1>2. QED
  BY <1>1, EditLeaves, JobLeaves, RoomLeaves, RequestLeaves, LiveKitLeaves, HookLeaves,
     SweepLeaves, RestartLeaves
     DEF Next, vars

(* What a job is about does not depend on its status, nor on creations of  *)
(* other rooms.                                                            *)
LEMMA StillAbout ==
  ASSUME RoomsInv, [Next]_vars, NEW w \in Worker, NEW t \in wtodo[w], NEW j,
         j.kind = jobs[wjob[w]].kind, j.on = jobs[wjob[w]].on
  PROVE  IF j.kind = "user" THEN j.on = maker'[t.room] ELSE j.on = t.room
<1> USE DEF RoomsInv
<1>1. /\ wjob[w] \in JobId /\ jobs[wjob[w]] # NoJob /\ t.room \in Room
      /\ About(jobs[wjob[w]], t.room)
  BY DEF HeldInv, TargetInv, TypeOK, Item
<1>2. CASE j.kind = "user"
  <2>1. j.on = maker[t.room] /\ j.on \in User
    BY <1>1, <1>2 DEF About, TargetInv
  <2>2. maker[t.room] # NoUser
    BY <2>1, RoomsAssumption
  <2>3. QED
    BY <1>1, <1>2, <2>1, <2>2, MakersStay
<1>3. CASE j.kind # "user"
  BY <1>1, <1>3 DEF About
<1>4. QED
  BY <1>2, <1>3

(* Where workers take up no room and jobs at most change their status,     *)
(* what each works on stands.                                              *)
LEMMA TargetsStay ==
  ASSUME RoomsInv, [Next]_vars,
         \A w \in Worker : wtodo'[w] \subseteq wtodo[w] /\ (wtodo'[w] # {} => wjob'[w] = wjob[w]),
         \A i \in JobId : jobs'[i] = NoJob \/
           (jobs[i] # NoJob /\ jobs'[i].kind = jobs[i].kind /\ jobs'[i].on = jobs[i].on),
         HeldInv'
  PROVE  TargetInv'
<1> USE DEF RoomsInv
<1>1. \A i \in JobId : jobs'[i] # NoJob /\ jobs'[i].kind = "user" => jobs'[i].on \in User
  BY DEF TargetInv
<1>2. ASSUME NEW w \in Worker, NEW t \in wtodo'[w] PROVE About(jobs[wjob[w]], t.room)'
  <2>1. t \in wtodo[w] /\ wjob'[w] = wjob[w] /\ wjob[w] \in JobId /\ jobs'[wjob[w]] # NoJob
    BY <1>2 DEF HeldInv, TypeOK
  <2>2. jobs'[wjob[w]].kind = jobs[wjob[w]].kind /\ jobs'[wjob[w]].on = jobs[wjob[w]].on
    BY <2>1
  <2>3. QED
    BY <2>1, <2>2, StillAbout DEF About
<1>3. QED
  BY <1>1, <1>2 DEF TargetInv

(* A worker's step keeps what each works on: what it lists when it starts  *)
(* is what its job is about.                                               *)
LEMMA JobTargets ==
  ASSUME RoomsInv, [Next]_vars, NEW w \in Worker, RunJob(w), HeldInv'
  PROVE  TargetInv'
<1> USE DEF RoomsInv
<1>1. ASSUME NEW i \in JobId, Fetch(w, i) PROVE TargetInv'
  <2>1. jobs[i] \in Job /\ wjob[w] = NoJob
    BY <1>1 DEF Fetch, Claimable, TypeOK
  <2>2. jobs'[i].kind = jobs[i].kind /\ jobs'[i].on = jobs[i].on
    BY <1>1, <2>1, JobRows DEF Fetch, TypeOK
  <2>3. \A k \in JobId \ {i} : jobs'[k] = jobs[k]
    BY <1>1 DEF Fetch, TypeOK
  <2>4. \A k \in JobId : jobs'[k] # NoJob /\ jobs'[k].kind = "user" => jobs'[k].on \in User
    BY <1>1, <2>2, <2>3 DEF TargetInv, Fetch, Claimable
  <2>5. wjob'[w] = i /\ maker' = maker
    BY <1>1 DEF Fetch, TypeOK
  <2>6. ASSUME NEW t \in wtodo'[w] PROVE About(jobs[wjob[w]], t.room)'
    <3>1. t.room \in Targets(jobs[i])
      BY <1>1, <2>6 DEF Fetch, TypeOK
    <3>2. About(jobs[i], t.room)
      <4>1. CASE jobs[i].kind = "user"
        <5>1. jobs[i].on \in User /\ jobs[i].on # NoUser
          BY <1>1, <4>1, RoomsAssumption DEF TargetInv, Fetch, Claimable
        <5>2. t.room \in Room /\ Present(t.room) /\ room[t.room].owner = jobs[i].on
          BY <3>1, <4>1 DEF Targets, Owned
        <5>3. QED
          BY <4>1, <5>1, <5>2 DEF About, OwnerInv
      <4>2. CASE jobs[i].kind # "user"
        BY <3>1, <4>2 DEF Targets, About
      <4>3. QED
        BY <4>1, <4>2
    <3>3. QED
      BY <2>2, <2>5, <3>2 DEF About
  <2>7. ASSUME NEW v \in Worker \ {w}, NEW t \in wtodo'[v] PROVE About(jobs[wjob[v]], t.room)'
    <3>1. t \in wtodo[v] /\ wjob'[v] = wjob[v] /\ wjob[v] # NoJob
      BY <1>1, <2>7 DEF Fetch, TypeOK, HeldInv
    <3>2. jobs'[wjob[v]] = jobs[wjob[v]]
      BY <1>1, <2>3, <3>1 DEF Fetch, Claimable, HeldInv, TypeOK
    <3>3. QED
      BY <2>5, <3>1, <3>2 DEF About, TargetInv
  <2>8. QED
    BY <2>4, <2>6, <2>7 DEF TargetInv
<1>2. ASSUME NEW i \in JobId, FetchFails(w, i) PROVE TargetInv'
  <2>1. jobs[i] \in Job /\ jobs[i] # NoJob
    BY <1>2 DEF FetchFails, Claimable, TypeOK
  <2>2. jobs'[i].kind = jobs[i].kind /\ jobs'[i].on = jobs[i].on
    BY <1>2, <2>1, JobRows DEF FetchFails, TypeOK
  <2>3. \A k \in JobId \ {i} : jobs'[k] = jobs[k]
    BY <1>2 DEF FetchFails, TypeOK
  <2>4. UNCHANGED workers
    BY <1>2 DEF FetchFails
  <2>5. QED
    BY <2>1, <2>2, <2>3, <2>4, TargetsStay DEF workers
<1>3. ASSUME NEW t \in wtodo[w], EndMedia(w, t) PROVE TargetInv'
  BY <1>3, TargetsStay DEF EndMedia
<1>4. ASSUME NEW t \in wtodo[w], SettleRow(w, t) \/ SkipRoom(w, t) PROVE TargetInv'
  <2>1. UNCHANGED <<wjob, jobs>> /\ \A v \in Worker : wtodo'[v] \subseteq wtodo[v]
    BY <1>4 DEF SettleRow, SkipRoom, Settled, TypeOK
  <2>2. QED
    BY <2>1, TargetsStay
<1>5. CASE CompleteJob(w) \/ JobErrs(w) \/ MarkLost(w)
  <2>1. Drop(w) /\ wjob[w] \in JobId /\ jobs[wjob[w]] \in Job
    BY <1>5 DEF CompleteJob, JobErrs, MarkLost, HeldInv, TypeOK
  <2>2. \A v \in Worker : wtodo'[v] \subseteq wtodo[v] /\ (wtodo'[v] # {} => wjob'[v] = wjob[v])
    BY <2>1 DEF Drop, TypeOK
  <2>3. \A i \in JobId \ {wjob[w]} : jobs'[i] = jobs[i]
    BY <1>5 DEF CompleteJob, JobErrs, MarkLost, TypeOK
  <2>4. \/ jobs'[wjob[w]] \in {NoJob, jobs[wjob[w]]}
        \/ jobs'[wjob[w]] = Errored(jobs[wjob[w]])
    BY <1>5, <2>1 DEF CompleteJob, JobErrs, MarkLost, TypeOK
  <2>5. jobs'[wjob[w]] = NoJob \/
          (/\ jobs'[wjob[w]].kind = jobs[wjob[w]].kind
           /\ jobs'[wjob[w]].on = jobs[wjob[w]].on)
    BY <2>1, <2>4, JobRows
  <2>6. jobs[wjob[w]] # NoJob
    BY <2>1, RoomsAssumption
  <2>7. QED
    BY <2>2, <2>3, <2>5, <2>6, TargetsStay
<1>6. QED
  BY <1>1, <1>2, <1>3, <1>4, <1>5 DEF RunJob

(* Every step keeps what each worker works on. *)
LEMMA NextTarget ==
  ASSUME RoomsInv, [Next]_vars
  PROVE  TargetInv'
<1> USE DEF RoomsInv
<1>1. HeldInv'
  BY NextHeld
<1>2. CASE UNCHANGED <<jobs, workers>>
  BY <1>1, <1>2, TargetsStay DEF workers
<1>3. ASSUME NEW i \in JobId, NEW k \in Kind, NEW x \in Room \union User, Request(i, k, x)
      PROVE  TargetInv'
  <2>1. \A j \in JobId \ {i} : jobs'[j] = jobs[j]
    BY <1>3 DEF Request, TypeOK
  <2>2. jobs'[i].kind = k /\ jobs'[i].on = x /\ (k = "user" => x \in User)
    BY <1>3 DEF Request, Accepts, TypeOK
  <2>3. UNCHANGED <<maker, workers>>
    BY <1>3, RequestLeaves
  <2>4. ASSUME NEW v \in Worker, NEW t \in wtodo'[v] PROVE About(jobs[wjob[v]], t.room)'
    <3>1. t \in wtodo[v] /\ wjob'[v] = wjob[v] /\ wjob[v] # NoJob /\ wjob[v] # i
      BY <1>3, <2>3, <2>4 DEF Request, HeldInv, workers
    <3>2. jobs'[wjob[v]] = jobs[wjob[v]]
      BY <2>1, <3>1 DEF TypeOK
    <3>3. QED
      BY <2>3, <3>1, <3>2 DEF About, TargetInv
  <2>5. \A j \in JobId : jobs'[j] # NoJob /\ jobs'[j].kind = "user" => jobs'[j].on \in User
    BY <2>1, <2>2 DEF TargetInv
  <2>6. QED
    BY <2>4, <2>5 DEF TargetInv
<1>4. CASE Restart
  <2>1. PICK S \in SUBSET {i \in JobId : jobs[i] # NoJob /\ jobs[i].status = "active"} :
          jobs' = Recovered(S)
    BY <1>4 DEF Restart
  <2>2. ASSUME NEW i \in JobId, jobs[i] # NoJob
        PROVE  jobs'[i].kind = jobs[i].kind /\ jobs'[i].on = jobs[i].on
    BY <2>1, <2>2 DEF Recovered, TypeOK, Job
  <2>3. ASSUME NEW i \in JobId, jobs[i] = NoJob PROVE jobs'[i] = NoJob
    BY <2>1, <2>3 DEF Recovered
  <2>4. \A v \in Worker : wtodo'[v] = {}
    BY <1>4 DEF Restart
  <2>5. QED
    BY <1>1, <2>2, <2>3, <2>4, TargetsStay
<1>5. CASE UNCHANGED vars
  BY <1>2, <1>5 DEF vars
<1>6. QED
  BY <1>1, <1>2, <1>3, <1>4, <1>5, JobTargets, CreateLeaves, EditLeaves, RoomLeaves,
     LiveKitLeaves, HookLeaves, SweepLeaves
     DEF Next

-----------------------------------------------------------------------------
(* What a step does to the rows that are, and are not, in the table *)

(* A row that keeps being there, or being gone. *)
Keeps(r) == (room'[r] = NoRow) <=> (room[r] = NoRow)

(* Deactivating or archiving a row neither removes nor brings back any. *)
LEMMA FlagsKeepRows ==
  ASSUME TypeOK, NEW r \in Room, NEW q, SetIdle(q) \/ SoftDelete(q)
  PROVE  Keeps(r)
<1>1. room \in [Room -> Row \union {NoRow}]
  BY DEF TypeOK
<1>2. ASSUME NEW img \in Row, NEW arch \in BOOLEAN PROVE Flagged(img, FALSE, arch) # NoRow
  <2>1. Flagged(img, FALSE, arch) \in Row
    BY DEF Flagged, Row
  <2>2. QED
    BY <2>1, RoomsAssumption
<1>3. ASSUME NEW img \in Row PROVE img.archived \in BOOLEAN
  BY DEF Row
<1>4. CASE room[r] = NoRow
  BY <1>1, <1>4 DEF SetIdle, SoftDelete, Keeps
<1>5. CASE room[r] \in Row
  <2>1. room[r] # NoRow
    BY <1>5, RoomsAssumption
  <2>2. \/ room'[r] = room[r]
        \/ room'[r] = Flagged(room[r], FALSE, room[r].archived)
        \/ room'[r] = Flagged(room[r], FALSE, TRUE)
    BY <1>1, <2>1 DEF SetIdle, SoftDelete
  <2>3. QED
    BY <1>2, <1>3, <1>5, <2>1, <2>2 DEF Keeps
<1>6. QED
  BY <1>1, <1>4, <1>5

(* The steps without an image of a row in their hands keep every row. *)
LEMMA OthersKeepRows ==
  ASSUME RoomsInv, NEW r \in Room,
         \/ \E q \in Room : Join(q) \/ Expire(q)
         \/ \E i \in JobId, k \in Kind, x \in Room \union User : Request(i, k, x)
         \/ LiveKit \/ HookDeactivate \/ Restart \/ UNCHANGED vars
  PROVE  Keeps(r)
<1> USE DEF RoomsInv
<1>1. CASE UNCHANGED room
  BY <1>1 DEF Keeps
<1>2. ASSUME NEW q \in Room, Join(q) \/ Expire(q) PROVE Keeps(r)
  BY <1>1, <1>2, FlagsKeepRows DEF Join, Expire
<1>3. CASE HookDeactivate
  BY <1>3, FlagsKeepRows DEF HookDeactivate
<1>4. QED
  BY <1>1, <1>2, <1>3, RequestLeaves, LiveKitLeaves, RestartLeaves DEF vars

(* A worker's step keeps every row but one that its job orders removed. *)
LEMMA JobsKeepRows ==
  ASSUME RoomsInv, NEW r \in Room, NEW w \in Worker, RunJob(w)
  PROVE  \/ Keeps(r)
         \/ room'[r] = NoRow /\ \E i \in JobId : Orders(i, r)
<1> USE DEF RoomsInv
<1>1. CASE UNCHANGED room
  BY <1>1 DEF Keeps
<1>2. ASSUME NEW t \in wtodo[w], SettleRow(w, t)
      PROVE  Keeps(r) \/ (room'[r] = NoRow /\ \E i \in JobId : Orders(i, r))
  <2>1. /\ wjob[w] \in JobId /\ jobs[wjob[w]] # NoJob /\ jobs[wjob[w]].status = "active"
        /\ About(jobs[wjob[w]], t.room)
    BY DEF HeldInv, TargetInv, TypeOK
  <2>2. CASE jobs[wjob[w]].kind \in {"purge", "user"} /\ Wipe(t.room)
    <3>1. CASE t.room = r
      <4>1. Orders(wjob[w], r)
        BY <2>1, <2>2, <3>1 DEF Orders, About
      <4>2. room'[r] = NoRow
        BY <2>2, <3>1 DEF Wipe, TypeOK
      <4>3. QED
        BY <2>1, <4>1, <4>2
    <3>2. CASE t.room # r
      BY <2>2, <3>2 DEF Wipe, Keeps, TypeOK
    <3>3. QED
      BY <3>1, <3>2
  <2>3. CASE SoftDelete(t.room) \/ SetIdle(t.room)
    BY <2>3, FlagsKeepRows
  <2>4. QED
    BY <1>2, <2>2, <2>3 DEF SettleRow, ArchiveRow
<1>3. QED
  BY <1>1, <1>2, JobLeaves

(* A creation, an editing request and the sweep remove no row. *)
LEMMA WritersKeepRows ==
  ASSUME RoomsInv, NEW r \in Room, Present(r),
         (\E c \in Creator : Create(c)) \/ (\E e \in Editor : Edit(e)) \/ Sweep
  PROVE  room'[r] # NoRow
<1> USE RoomsAssumption DEF RoomsInv
<1>1. CASE UNCHANGED room
  BY <1>1 DEF Present
<1>2. ASSUME NEW c \in Creator, NEW q \in Room, CreateRow(c, q) PROVE room'[r] # NoRow
  <2> DEFINE img == [name |-> cname[c], owner |-> cuser[c], active |-> TRUE, archived |-> FALSE]
  <2>1. img \in Row
    BY DEF TypeOK, Row
  <2>2. room' = [room EXCEPT ![q] = img] /\ room \in [Room -> Row \union {NoRow}]
    BY <1>2 DEF CreateRow, TypeOK
  <2> HIDE DEF img
  <2>3. QED
    BY <2>1, <2>2 DEF Present
<1>3. ASSUME NEW c \in Creator, Create(c), \A q \in Room : ~CreateRow(c, q) PROVE UNCHANGED room
  BY <1>3, UncreatedLeaves
<1>4. ASSUME NEW q \in Room, NEW img \in Row, Save(q, img) PROVE room'[r] # NoRow
  BY <1>4, SavedType DEF Save, TypeOK, Present
<1>5. ASSUME NEW e \in Editor, Edit(e) PROVE room'[r] # NoRow
  <2>1. CASE SaveRow(e)
    BY <1>4, <2>1 DEF SaveRow, ReadersInv
  <2>2. QED
    BY <1>1, <1>5, <2>1, EditLeaves
<1>6. CASE Sweep
  <2>1. CASE SweepIdle
    BY <2>1, FlagsKeepRows DEF SweepIdle, Keeps, Present
  <2>2. CASE SweepRecheck
    <3>1. Reactivated \in Row
      BY DEF Reactivated, Row, Names, Users
    <3>2. QED
      BY <1>1, <1>4, <2>2, <3>1 DEF SweepRecheck, ReadersInv
  <2>3. QED
    BY <1>1, <1>6, <2>1, <2>2, SweepLeaves
<1>7. QED
  BY <1>1, <1>2, <1>3, <1>5, <1>6

-----------------------------------------------------------------------------
(* The quota *)

(* A step after which a row that is active and owned was so before. *)
GainsNothing(r) ==
  \/ room'[r] = NoRow
  \/ ~room'[r].active
  \/ room'[r].owner = NoUser
  \/ room'[r] = room[r]

(* Deactivating or archiving a row gives nobody an active room. *)
LEMMA FlagsGainNothing ==
  ASSUME TypeOK, NEW r \in Room, NEW q, SetIdle(q) \/ SoftDelete(q)
  PROVE  GainsNothing(r)
<1>1. room \in [Room -> Row \union {NoRow}]
  BY DEF TypeOK
<1>2. \/ room'[r] = room[r]
      \/ room'[r] = NoRow
      \/ room'[r] = Flagged(room[r], FALSE, room[r].archived)
      \/ room'[r] = Flagged(room[r], FALSE, TRUE)
  BY <1>1 DEF SetIdle, SoftDelete
<1>3. QED
  BY <1>2 DEF GainsNothing, Flagged

(* Of all steps but those of settings requests only the insert of a        *)
(* creation gives somebody an active room: what the sweep reactivates has  *)
(* lost its owner.                                                         *)
LEMMA OthersGainNothing ==
  ASSUME RoomsInv, [Next]_vars, Editor = {}, NEW r \in Room,
         \A c \in Creator, q \in Room : ~CreateRow(c, q)
  PROVE  GainsNothing(r)
<1> USE DEF RoomsInv
<1>1. CASE UNCHANGED room
  BY <1>1 DEF GainsNothing
<1>2. ASSUME NEW w \in Worker, RunJob(w) PROVE GainsNothing(r)
  <2>1. ASSUME NEW t \in wtodo[w], SettleRow(w, t) PROVE GainsNothing(r)
    <3>1. CASE Wipe(t.room)
      BY <3>1 DEF Wipe, GainsNothing, TypeOK
    <3>2. CASE SoftDelete(t.room) \/ SetIdle(t.room)
      BY <3>2, FlagsGainNothing
    <3>3. QED
      BY <2>1, <3>1, <3>2 DEF SettleRow, ArchiveRow
  <2>2. QED
    BY <1>1, <1>2, <2>1, JobLeaves
<1>3. ASSUME NEW q \in Room, Join(q) \/ Expire(q) PROVE GainsNothing(r)
  BY <1>1, <1>3, FlagsGainNothing DEF Join, Expire
<1>4. CASE HookDeactivate
  BY <1>4, FlagsGainNothing DEF HookDeactivate
<1>5. CASE Sweep
  <2>1. CASE SweepIdle
    BY <2>1, FlagsGainNothing DEF SweepIdle
  <2>2. CASE SweepRecheck
    <3>1. CASE Save(sroom, Reactivated)
      <4>1. room' = [room EXCEPT ![sroom] = Saved(sroom, Reactivated)]
        BY <3>1 DEF Save
      <4>2. Saved(sroom, Reactivated).owner = NoUser
        BY DEF Saved, Flagged, Reactivated
      <4>3. QED
        BY <4>1, <4>2 DEF GainsNothing, TypeOK
    <3>2. QED
      BY <1>1, <2>2, <3>1 DEF SweepRecheck
  <2>3. QED
    BY <1>1, <1>5, <2>1, <2>2, SweepLeaves
<1>6. QED
  BY <1>1, <1>2, <1>3, <1>4, <1>5, UncreatedLeaves, RequestLeaves, LiveKitLeaves, RestartLeaves
     DEF Next, vars

(* Such a step adds nothing to anybody's active rooms. *)
LEMMA ActiveShrinks ==
  ASSUME RoomsInv, NEW u \in User, \A r \in Room : GainsNothing(r)
  PROVE  ActiveBy(u)' \subseteq ActiveBy(u)
BY RoomsAssumption DEF ActiveBy, Active, Present, GainsNothing

(* Active rooms and creations under way are finitely many. *)
LEMMA QuotaFinite ==
  ASSUME IsFiniteSet(Creator), NEW u
  PROVE  /\ IsFiniteSet(ActiveBy(u)) /\ IsFiniteSet(ActiveBy(u)')
         /\ IsFiniteSet(Creating(u)) /\ IsFiniteSet(Creating(u)')
         /\ Cardinality(ActiveBy(u)) \in Nat /\ Cardinality(ActiveBy(u)') \in Nat
         /\ Cardinality(Creating(u)) \in Nat /\ Cardinality(Creating(u)') \in Nat
         /\ Cardinality(Creator) \in Nat
         /\ Cardinality(Creating(u)') <= Cardinality(Creator)
<1>1. /\ ActiveBy(u) \in SUBSET Room /\ ActiveBy(u)' \in SUBSET Room
      /\ Creating(u) \in SUBSET Creator /\ Creating(u)' \in SUBSET Creator
  BY DEF ActiveBy, Creating
<1>2. IsFiniteSet(Room)
  BY RoomsAssumption
<1>3. /\ IsFiniteSet(ActiveBy(u)) /\ IsFiniteSet(ActiveBy(u)')
      /\ IsFiniteSet(Creating(u)) /\ IsFiniteSet(Creating(u)')
      /\ Cardinality(Creating(u)') <= Cardinality(Creator)
  BY <1>1, <1>2, FS_Subset
<1>4. QED
  BY <1>3, FS_CardinalityType

(* What a user holds or is about to hold, and how much that may be. *)
RoomsOf(u) == Cardinality(ActiveBy(u)) + Cardinality(Creating(u))
Bound == MaxRooms + Cardinality(Creator) - 1

(* A count lets at most the other creations add to what it saw; an insert  *)
(* turns a creation into a room; no other step adds to either.             *)
LEMMA QuotaStep ==
  ASSUME RoomsInv, [Next]_vars, Editor = {}, IsFiniteSet(Creator),
         MaxRooms # 0, NEW u \in User \ Admin, RoomsOf(u) <= Bound
  PROVE  RoomsOf(u)' <= Bound
<1> USE DEF RoomsInv
<1> DEFINE a == Cardinality(ActiveBy(u))
           b == Cardinality(Creating(u))
           m == Cardinality(Creator)
<1>1. /\ a \in Nat /\ a' \in Nat /\ b \in Nat /\ b' \in Nat /\ m \in Nat /\ MaxRooms \in Nat
      /\ b' <= m
      /\ IsFiniteSet(ActiveBy(u)) /\ IsFiniteSet(ActiveBy(u)')
      /\ IsFiniteSet(Creating(u)) /\ IsFiniteSet(Creating(u)')
  BY QuotaFinite, RoomsAssumption
<1>2. ASSUME NEW c \in Creator, NEW q \in Room, CreateRow(c, q) PROVE RoomsOf(u)' <= Bound
  <2>1. CASE cuser[c] = u
    <3>1. ActiveBy(u)' \in SUBSET (ActiveBy(u) \union {q})
      BY <1>2 DEF CreateRow, ActiveBy, Active, Present, TypeOK
    <3>2. a' <= a + 1
      <4>1. /\ IsFiniteSet(ActiveBy(u) \union {q})
            /\ Cardinality(ActiveBy(u) \union {q}) \in {a, a + 1}
        BY <1>1, FS_AddElement
      <4>2. a' <= Cardinality(ActiveBy(u) \union {q})
        BY <3>1, <4>1, FS_Subset
      <4> HIDE DEF a
      <4>3. QED
        BY <1>1, <4>1, <4>2
    <3>3. c \in Creating(u) /\ Creating(u)' = Creating(u) \ {c}
      BY <1>2, <2>1 DEF CreateRow, CreateReturns, Creating, TypeOK
    <3>4. b' = b - 1
      BY <1>1, <3>3, FS_RemoveElement
    <3> HIDE DEF a, b, m
    <3>5. QED
      BY <1>1, <3>2, <3>4 DEF RoomsOf, Bound, a, b, m
  <2>2. CASE cuser[c] # u
    <3>1. ActiveBy(u)' \in SUBSET ActiveBy(u)
      BY <1>2, <2>2 DEF CreateRow, ActiveBy, Active, Present, TypeOK
    <3>2. Creating(u)' \in SUBSET Creating(u)
      BY <1>2, RoomsAssumption DEF CreateRow, CreateReturns, Creating, TypeOK
    <3>3. a' <= a /\ b' <= b
      BY <1>1, <3>1, <3>2, FS_Subset
    <3> HIDE DEF a, b, m
    <3>4. QED
      BY <1>1, <3>3 DEF RoomsOf, Bound, a, b, m
  <2>3. QED
    BY <2>1, <2>2
<1>3. CASE \A c \in Creator, q \in Room : ~CreateRow(c, q)
  <2>1. ActiveBy(u)' \in SUBSET ActiveBy(u)
    BY <1>3, OthersGainNothing, ActiveShrinks
  <2>2. a' <= a
    BY <1>1, <2>1, FS_Subset
  <2>3. ASSUME NEW c \in Creator, NEW n \in Name, CheckQuota(c, u, n)
        PROVE  RoomsOf(u)' <= Bound
    <3>1. a < MaxRooms
      BY <2>3 DEF CheckQuota, QuotaAllows
    <3> HIDE DEF a, b, m
    <3>2. QED
      BY <1>1, <2>2, <3>1 DEF RoomsOf, Bound, a, b, m
  <2>4. CASE Creating(u)' \in SUBSET Creating(u)
    <3>1. b' <= b
      BY <1>1, <2>4, FS_Subset
    <3> HIDE DEF a, b, m
    <3>2. QED
      BY <1>1, <2>2, <3>1 DEF RoomsOf, Bound, a, b, m
  <2>5. CASE UNCHANGED creators
    BY <2>4, <2>5 DEF creators, Creating
  <2>6. ASSUME NEW c \in Creator, Create(c) PROVE RoomsOf(u)' <= Bound
    <3>1. ASSUME NEW v \in User, NEW n \in Name, CheckQuota(c, v, n)
          PROVE  RoomsOf(u)' <= Bound
      <4>1. CASE v = u
        BY <2>3, <3>1, <4>1
      <4>2. CASE v # u
        BY <2>4, <3>1, <4>2 DEF CheckQuota, Creating, TypeOK
      <4>3. QED
        BY <4>1, <4>2
    <3>2. CASE CreateMedia(c) \/ CreateMediaFails(c) \/ CreateRowFails(c) \/ UndoMedia(c)
      <4>1. Creating(u)' \in SUBSET Creating(u)
        BY <3>2, RoomsAssumption
           DEF CreateMedia, CreateMediaFails, CreateRowFails, UndoMedia, CreateReturns,
               Creating, TypeOK
      <4>2. QED
        BY <2>4, <4>1
    <3>3. QED
      BY <1>3, <2>6, <3>1, <3>2 DEF Create
  <2>7. CASE Restart
    <3>1. Creating(u)' = {}
      BY <2>7 DEF Restart, Creating
    <3>2. QED
      BY <2>4, <3>1
  <2>8. CASE UNCHANGED vars
    BY <2>5, <2>8 DEF vars
  <2>9. QED
    BY <2>5, <2>6, <2>7, <2>8, JobLeaves, RoomLeaves, RequestLeaves, LiveKitLeaves, HookLeaves,
       SweepLeaves
       DEF Next
<1>4. QED
  BY <1>2, <1>3

-----------------------------------------------------------------------------
(* Theorems *)

(* The inductive invariant holds in every reachable state. *)
THEOREM RoomsInvariance == Spec => []RoomsInv
<1>1. Init => RoomsInv
  BY RoomsAssumption
     DEF Init, RoomsInv, TypeOK, ActiveNameUnique, Active, Present, ReadersInv,
         HeldInv, OwnerInv, TargetInv, Names, Users
<1>2. RoomsInv /\ [Next]_vars => RoomsInv'
  BY NextTypeOK, NextUnique, NextReaders, NextHeld, NextOwner, NextTarget DEF RoomsInv
<1>3. QED
  BY <1>1, <1>2, PTL DEF Spec

(* The table, LiveKit and every request in progress keep their types. *)
THEOREM RoomsTypeCorrect == Spec => []TypeOK
BY RoomsInvariance, PTL DEF RoomsInv

(* No two active rooms ever share a name. *)
THEOREM NamesAreUnique == Spec => []ActiveNameUnique
BY RoomsInvariance, PTL DEF RoomsInv

(* Whoever edits, sweeps, archives, retries or crashes meanwhile, a row    *)
(* that is in the table leaves it only in the hands of a job that is       *)
(* entitled to remove it: its own purge, or the deletion of the user who   *)
(* created it.                                                             *)
THEOREM RowsAreWipedOnOrder == Spec => WipedOnlyOnOrder
<1>1. ASSUME RoomsInv, [Next]_vars, NEW r \in Room, Present(r), room'[r] = NoRow
      PROVE  \E i \in JobId : Orders(i, r)
  <2>1. ASSUME NEW w \in Worker, RunJob(w) PROVE \E i \in JobId : Orders(i, r)
    BY <1>1, <2>1, JobsKeepRows DEF Keeps, Present
  <2>2. CASE (\E c \in Creator : Create(c)) \/ (\E e \in Editor : Edit(e)) \/ Sweep
    BY <1>1, <2>2, WritersKeepRows
  <2>3. CASE \/ \E q \in Room : Join(q) \/ Expire(q)
             \/ \E i \in JobId, k \in Kind, x \in Room \union User : Request(i, k, x)
             \/ LiveKit \/ HookDeactivate \/ Restart \/ UNCHANGED vars
    BY <1>1, <2>3, OthersKeepRows DEF Keeps, Present
  <2>4. QED
    BY <1>1, <2>1, <2>2, <2>3 DEF Next
<1>2. RoomsInv /\ [Next]_vars =>
        [\A r \in Room : Present(r) /\ room'[r] = NoRow => \E i \in JobId : Orders(i, r)]_vars
  BY <1>1
<1>3. QED
  BY <1>2, RoomsInvariance, PTL DEF Spec, WipedOnlyOnOrder

(* Without a request or a sweep that saves a row it has read before, a row *)
(* that was removed never comes back: jobs that are run again find nothing *)
(* to bring back, and an id is used once.                                  *)
THEOREM DeletedRowsStayDeleted ==
  ASSUME Editor = {}, ~Sweeping
  PROVE  Spec => DeletedForGood
<1>1. ASSUME RoomsInv, [Next]_vars, NEW r \in Room, maker[r] # NoUser, ~Present(r)
      PROVE  room'[r] = NoRow
  <2>1. room[r] = NoRow
    BY <1>1 DEF Present
  <2>2. ASSUME NEW w \in Worker, RunJob(w) PROVE room'[r] = NoRow
    BY <1>1, <2>1, <2>2, JobsKeepRows DEF Keeps
  <2>3. ASSUME NEW c \in Creator, Create(c) PROVE room'[r] = NoRow
    <3>1. ASSUME NEW q \in Room, CreateRow(c, q) PROVE room'[r] = NoRow
      BY <1>1, <2>1, <3>1 DEF CreateRow, RoomsInv, TypeOK
    <3>2. QED
      BY <2>1, <2>3, <3>1, UncreatedLeaves
  <2>4. CASE Sweep
    <3>1. spc = "idle"
      BY <1>1 DEF RoomsInv, ReadersInv
    <3>2. QED
      BY <2>4, <3>1 DEF Sweep, SweepList, SweepCount, SweepIdle, SweepRecheck
  <2>5. CASE \/ \E q \in Room : Join(q) \/ Expire(q)
             \/ \E i \in JobId, k \in Kind, x \in Room \union User : Request(i, k, x)
             \/ LiveKit \/ HookDeactivate \/ Restart \/ UNCHANGED vars
    BY <1>1, <2>1, <2>5, OthersKeepRows DEF Keeps
  <2>6. QED
    BY <1>1, <2>2, <2>3, <2>4, <2>5 DEF Next
<1>2. RoomsInv /\ [Next]_vars =>
        [\A r \in Room : maker[r] # NoUser /\ ~Present(r) => room'[r] = NoRow]_vars
  BY <1>1
<1>3. QED
  BY <1>2, RoomsInvariance, PTL DEF Spec, DeletedForGood

(* However many creations of however many users overlap, and whatever      *)
(* jobs, events and sweeps do meanwhile, nobody's active rooms exceed the  *)
(* quota by more than the other creations that can be under way; saves of  *)
(* settings, which bring a purged room back, are left out.                 *)
THEOREM QuotaOvershotAtMost ==
  ASSUME Editor = {}, IsFiniteSet(Creator)
  PROVE  Spec => []QuotaOvershoot
<1>1. QuotaOvershoot <=> (MaxRooms # 0 => \A u \in User \ Admin : RoomsOf(u) <= Bound)
  BY DEF QuotaOvershoot, RoomsOf, Bound
<1>2. Init => QuotaOvershoot
  <2>1. ASSUME Init, NEW u \in User PROVE ActiveBy(u) = {} /\ Creating(u) = {}
    BY <2>1, RoomsAssumption DEF Init, ActiveBy, Active, Present, Creating
  <2>2. Cardinality(Creator) \in Nat /\ MaxRooms \in Nat
    BY FS_CardinalityType, RoomsAssumption
  <2>3. ASSUME Init, MaxRooms # 0, NEW u \in User PROVE RoomsOf(u) <= Bound
    <3>1. ActiveBy(u) = {} /\ Creating(u) = {}
      BY <2>1, <2>3
    <3>2. RoomsOf(u) = 0 + 0
      BY <3>1, FS_EmptySet DEF RoomsOf
    <3>3. QED
      BY <2>2, <2>3, <3>2 DEF Bound
  <2>4. QED
    BY <1>1, <2>3
<1>3. RoomsInv /\ [Next]_vars /\ QuotaOvershoot => QuotaOvershoot'
  <2>1. QuotaOvershoot' <=> (MaxRooms # 0 => \A u \in User \ Admin : RoomsOf(u)' <= Bound)
    BY DEF QuotaOvershoot, RoomsOf, Bound
  <2>2. QED
    BY <1>1, <2>1, QuotaStep
<1>4. QED
  BY <1>2, <1>3, RoomsInvariance, PTL DEF Spec

=============================================================================
