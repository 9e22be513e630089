------------------------------- MODULE Rooms -------------------------------
(***************************************************************************)
(* The life of a room: its row in the rooms table, the media room of the   *)
(* same name in LiveKit, and everything in the server that moves either:   *)
(* the room handlers (handlers/room.go), the jobs on rooms and the         *)
(* deletion of users run by the queue workers (queue/handler_room_*.go,    *)
(* queue/handler_user_delete.go, services/room_cleanup.go), the LiveKit    *)
(* webhook (handlers/livekit_webhook.go) and the idle sweep of the         *)
(* scheduler (scheduler/scheduler.go).                                     *)
(*                                                                         *)
(* Rows are named by ids that are never reused, media rooms by name, and a *)
(* name may be reused as soon as its room is inactive.  One step is one    *)
(* database statement (or transaction) or one LiveKit call.  The claim of  *)
(* a job, its retries and its recovery are those of JobQueue, without the  *)
(* queue's clock and depth: a job left active by a crash is recovered only *)
(* by a start that finds it old enough.                                    *)
(***************************************************************************)
EXTENDS Integers, FiniteSets

CONSTANTS
  Room,      \* room ids (UUIDs)
  Name,      \* room names
  User,      \* creators of rooms
  Admin,     \* the superadmins among them
  JobId,     \* rows of the jobs table
  Kind,      \* kinds of jobs that are requested
  NoRow, NoRoom, NoName, NoUser, NoJob,
  Creator,   \* concurrent CreateRoom requests
  Editor,    \* concurrent UpdateSettings, AdminUpdateRoom, AdminReactivateRoom requests
  Worker,    \* queue workers
  MaxAttempts, \* WithMaxAttempts of these jobs
  Sweeping,  \* whether the idle sweep of the scheduler runs
  MaxRooms,  \* MaxRoomsPerUser, 0 for no limit
  MaxFaults  \* bound on crashes, failed steps of a job and lost LiveKit calls

Names == Name \union {NoName}
Users == User \union {NoUser}

(* The columns of a row that the room's state depends on. *)
Row == [name : Names, owner : Users, active : BOOLEAN, archived : BOOLEAN]

(* A room_delete, purging or not, a room_suspend or a user_delete, until   *)
(* it is done.                                                             *)
Job == [kind : Kind, on : Room \union User, status : {"pending", "active", "failed"},
        attempts : Nat]

(* A room a job has listed, with the name it read. *)
Item == [room : Room, name : Names]

ASSUME RoomsAssumption ==
  /\ NoRow \notin Row
  /\ NoRoom \notin Room
  /\ NoName \notin Name
  /\ NoUser \notin User
  /\ NoJob \notin Job \union JobId
  /\ Admin \subseteq User
  /\ Kind \subseteq {"archive", "purge", "suspend", "user"}
  /\ MaxAttempts \in Nat \ {0}
  /\ IsFiniteSet(Room)
  /\ Sweeping \in BOOLEAN
  /\ MaxRooms \in Nat
  /\ MaxFaults \in Nat

VARIABLES
  room,      \* the rooms table
  maker,     \* history: who created the room of an id, once it is handed out
  media,     \* LiveKit rooms that exist, by name
  call,      \* who is connected to a LiveKit room: members of which rooms
  finished,  \* room_finished events on their way
  hook,      \* the row the webhook handler is about to deactivate
  jobs,      \* the jobs table, without the jobs that are done
  wjob,      \* the job a worker runs
  wtodo,     \* the rooms it has listed and not settled yet
  wended,    \* of these, the one whose call it has ended
  cpc, cname, cuser,    \* a CreateRoom request: where it is, its arguments
  epc, eroom, esnap,    \* an editing request: its room and the row it read
  spc, sroom, sname,    \* the sweep: the room it looks at, the name it read
  faults

workers == <<wjob, wtodo, wended>>
creators == <<cpc, cname, cuser>>
editors == <<epc, eroom, esnap>>
sweep == <<spc, sroom, sname>>
livekit == <<media, call, finished>>
vars == <<room, maker, livekit, hook, jobs, workers, creators, editors, sweep, faults>>

TypeOK ==
  /\ room \in [Room -> Row \union {NoRow}]
  /\ maker \in [Room -> Users]
  /\ media \subseteq Name
  /\ call \in [Name -> SUBSET Room]
  /\ finished \subseteq Name
  /\ hook \in Room \union {NoRoom}
  /\ jobs \in [JobId -> Job \union {NoJob}]
  /\ wjob \in [Worker -> JobId \union {NoJob}]
  /\ wtodo \in [Worker -> SUBSET Item]
  /\ wended \in [Worker -> SUBSET Item]
  /\ cpc \in [Creator -> {"idle", "counted", "media", "undo"}]
  /\ cname \in [Creator -> Names]
  /\ cuser \in [Creator -> Users]
  /\ epc \in [Editor -> {"idle", "read", "saved"}]
  /\ eroom \in [Editor -> Room \union {NoRoom}]
  /\ esnap \in [Editor -> Row \union {NoRow}]
  /\ spc \in {"idle", "listed", "empty", "recheck"}
  /\ sroom \in Room \union {NoRoom}
  /\ sname \in Names
  /\ faults \in 0..MaxFaults

Init ==
  /\ room = [r \in Room |-> NoRow]
  /\ maker = [r \in Room |-> NoUser]
  /\ media = {}
  /\ call = [n \in Name |-> {}]
  /\ finished = {}
  /\ hook = NoRoom
  /\ jobs = [i \in JobId |-> NoJob]
  /\ wjob = [w \in Worker |-> NoJob]
  /\ wtodo = [w \in Worker |-> {}]
  /\ wended = [w \in Worker |-> {}]
  /\ cpc = [c \in Creator |-> "idle"]
  /\ cname = [c \in Creator |-> NoName]
  /\ cuser = [c \in Creator |-> NoUser]
  /\ epc = [e \in Editor |-> "idle"]
  /\ eroom = [e \in Editor |-> NoRoom]
  /\ esnap = [e \in Editor |-> NoRow]
  /\ spc = "idle"
  /\ sroom = NoRoom
  /\ sname = NoName
  /\ faults = 0

-----------------------------------------------------------------------------
(* The rooms table *)

Present(r) == room[r] # NoRow
Active(r) == Present(r) /\ room[r].active
ActiveBy(u) == {r \in Room : Active(r) /\ room[r].owner = u}

(* idx_rooms_active_name: active rows have distinct names. *)
NameFree(n, r) == \A q \in Room \ {r} : Active(q) => room[q].name # n

(* A row with its flags replaced: is_active, and deleted_at set or not. *)
Flagged(img, act, arch) ==
  [name |-> img.name, owner |-> img.owner, active |-> act, archived |-> arch]

(* SetRoomIdle and the UPDATE of CleanupExpiredRooms: no row, no effect. *)
SetIdle(r) ==
  room' = [room EXCEPT ![r] = IF @ = NoRow THEN NoRow ELSE Flagged(@, FALSE, @.archived)]

(* SoftDeleteRoom. *)
SoftDelete(r) ==
  room' = [room EXCEPT ![r] = IF @ = NoRow THEN NoRow ELSE Flagged(@, FALSE, TRUE)]

(* Mutant: nothing checks the names of rows that are saved. *)
SaveAlwaysAllowed(r, img) == r \in Room

(* UpdateRoom: db.Save writes every column; a row that is not there any    *)
(* more is inserted, and an insert takes a false is_active for one that    *)
(* was not given, whose default is true.  Only the index can refuse it.    *)
Saved(r, img) == Flagged(img, img.active \/ ~Present(r), img.archived)

SaveAllowed(r, img) == Saved(r, img).active => NameFree(img.name, r)
Save(r, img) == SaveAllowed(r, img) /\ room' = [room EXCEPT ![r] = Saved(r, img)]

(* LiveKit DeleteRoom(n): everybody in it is disconnected. *)
EndCall(n) ==
  /\ media' = media \ {n}
  /\ call' = [m \in Name |-> IF m = n THEN {} ELSE call[m]]
  /\ finished' = finished \union (media \intersect {n})

(* The call above, which may fail: the error is logged and passed over. *)
DeleteMedia(n) ==
  \/ EndCall(n) /\ UNCHANGED faults
  \/ faults < MaxFaults /\ faults' = faults + 1 /\ UNCHANGED livekit

(* LiveKit CreateRoom(n): a no-op if the room exists. *)
OpenCall(n) ==
  /\ media' = media \union ({n} \ {NoName})
  /\ UNCHANGED <<call, finished>>

-----------------------------------------------------------------------------
(* POST /room/create *)

(* Mutant: the quota is compared with > instead of >=. *)
QuotaAllowsOneMore(u) ==
  u \in Admin \/ MaxRooms = 0 \/ Cardinality(ActiveBy(u)) <= MaxRooms

(* The quota holds for everybody but superadmins. *)
QuotaAllows(u) ==
  u \in Admin \/ MaxRooms = 0 \/ Cardinality(ActiveBy(u)) < MaxRooms

(* Bound: rooms are asked for as long as there are ids left to give them. *)
IdsLeft == \E r \in Room : maker[r] = NoUser

CheckQuota(c, u, n) ==
  /\ cpc[c] = "idle" /\ IdsLeft
  /\ QuotaAllows(u)
  /\ cpc' = [cpc EXCEPT ![c] = "counted"]
  /\ cname' = [cname EXCEPT ![c] = n]
  /\ cuser' = [cuser EXCEPT ![c] = u]
  /\ UNCHANGED <<room, maker, livekit, hook, jobs, workers, editors, sweep, faults>>

CreateReturns(c) ==
  /\ cpc' = [cpc EXCEPT ![c] = "idle"]
  /\ cname' = [cname EXCEPT ![c] = NoName]
  /\ cuser' = [cuser EXCEPT ![c] = NoUser]

CreateMedia(c) ==
  /\ cpc[c] = "counted"
  /\ OpenCall(cname[c])
  /\ cpc' = [cpc EXCEPT ![c] = "media"]
  /\ UNCHANGED <<room, maker, hook, jobs, workers, cname, cuser, editors, sweep, faults>>

(* LiveKit is unreachable: the request fails with nothing done. *)
CreateMediaFails(c) ==
  /\ cpc[c] = "counted"
  /\ CreateReturns(c)
  /\ UNCHANGED <<room, maker, livekit, hook, jobs, workers, editors, sweep, faults>>

(* The transaction: name check, row, creator's participant, permissions. *)
CreateRow(c, r) ==
  /\ cpc[c] = "media"
  /\ maker[r] = NoUser
  /\ NameFree(cname[c], r)
  /\ maker' = [maker EXCEPT ![r] = cuser[c]]
  /\ room' = [room EXCEPT ![r] =
       [name |-> cname[c], owner |-> cuser[c], active |-> TRUE, archived |-> FALSE]]
  /\ CreateReturns(c)
  /\ UNCHANGED <<livekit, hook, jobs, workers, editors, sweep, faults>>

(* ErrRoomNameTaken, or any other database error. *)
CreateRowFails(c) ==
  /\ cpc[c] = "media"
  /\ cpc' = [cpc EXCEPT ![c] = "undo"]
  /\ UNCHANGED <<room, maker, livekit, hook, jobs, workers, cname, cuser, editors, sweep,
                 faults>>

(* The compensation: the media room of that name is deleted. *)
UndoMedia(c) ==
  /\ cpc[c] = "undo"
  /\ DeleteMedia(cname[c])
  /\ CreateReturns(c)
  /\ UNCHANGED <<room, maker, hook, jobs, workers, editors, sweep>>

-----------------------------------------------------------------------------
(* Participants and LiveKit *)

(* A member of r joins: JoinRoom finds the active row of the name, and the *)
(* client connects; LiveKit creates the media room if it is not there.     *)
Join(r) ==
  /\ Active(r) /\ room[r].name # NoName
  /\ r \notin call[room[r].name]
  /\ media' = media \union {room[r].name}
  /\ call' = [call EXCEPT ![room[r].name] = @ \union {r}]
  /\ UNCHANGED <<room, maker, finished, hook, jobs, workers, creators, editors, sweep, faults>>

(* The last member of r leaves the call. *)
Leave(n, r) ==
  /\ r \in call[n]
  /\ call' = [call EXCEPT ![n] = @ \ {r}]
  /\ UNCHANGED <<room, maker, media, finished, hook, jobs, workers, creators, editors, sweep,
                 faults>>

(* LiveKit closes a media room that stays empty. *)
MediaTimeout(n) ==
  /\ n \in media /\ call[n] = {}
  /\ EndCall(n)
  /\ UNCHANGED <<room, maker, hook, jobs, workers, creators, editors, sweep, faults>>

(* GetRoomByName: the active row of the name, without one the newest       *)
(* inactive row (which is left open), or none.                             *)
Named(n) ==
  LET rows == {r \in Room : Present(r) /\ room[r].name = n}
      live == {r \in rows : room[r].active}
  IN IF live # {} THEN live ELSE rows

HookLookup(n) ==
  /\ n \in finished /\ hook = NoRoom
  /\ finished' = finished \ {n}
  /\ hook' \in IF Named(n) = {} THEN {NoRoom} ELSE Named(n)
  /\ UNCHANGED <<room, maker, media, call, jobs, workers, creators, editors, sweep, faults>>

HookDeactivate ==
  /\ hook # NoRoom
  /\ SetIdle(hook)
  /\ hook' = NoRoom
  /\ UNCHANGED <<maker, livekit, jobs, workers, creators, editors, sweep, faults>>

(* The event is lost, or its handler fails. *)
HookLost(n) ==
  /\ n \in finished
  /\ finished' = finished \ {n}
  /\ UNCHANGED <<room, maker, media, call, hook, jobs, workers, creators, editors, sweep,
                 faults>>

-----------------------------------------------------------------------------
(* Settings and reactivation: read a row, change it, save all of it *)

ReadRow(e, r, img) ==
  /\ epc[e] = "idle" /\ Present(r)
  /\ epc' = [epc EXCEPT ![e] = "read"]
  /\ eroom' = [eroom EXCEPT ![e] = r]
  /\ esnap' = [esnap EXCEPT ![e] = img]
  /\ UNCHANGED <<room, maker, livekit, hook, jobs, workers, creators, sweep, faults>>

(* UpdateSettings and AdminUpdateRoom, whatever the state of the room. *)
ReadForSettings(e, r) == ReadRow(e, r, room[r])

(* AdminReactivateRoom: deleted_at stays as it is. *)
ReadForReactivate(e, r) ==
  /\ Present(r) /\ ~room[r].active
  /\ ReadRow(e, r, Flagged(room[r], TRUE, room[r].archived))

SaveRow(e) ==
  /\ epc[e] = "read"
  /\ Save(eroom[e], esnap[e])
  /\ epc' = [epc EXCEPT ![e] = "saved"]
  /\ UNCHANGED <<maker, livekit, hook, jobs, workers, creators, eroom, esnap, sweep, faults>>

EditReturns(e) ==
  /\ epc' = [epc EXCEPT ![e] = "idle"]
  /\ eroom' = [eroom EXCEPT ![e] = NoRoom]
  /\ esnap' = [esnap EXCEPT ![e] = NoRow]

SaveFails(e) ==
  /\ epc[e] = "read"
  /\ EditReturns(e)
  /\ UNCHANGED <<room, maker, livekit, hook, jobs, workers, creators, sweep, faults>>

(* The media room is created again, or told its new size; or not. *)
SyncMedia(e) ==
  /\ epc[e] = "saved"
  /\ OpenCall(esnap[e].name) \/ UNCHANGED livekit
  /\ EditReturns(e)
  /\ UNCHANGED <<room, maker, hook, jobs, workers, creators, sweep, faults>>

-----------------------------------------------------------------------------
(* Jobs on rooms, deletion of users *)

(* DeleteRoom, AdminCloseRoom (and its bulk form) accept any row, the      *)
(* suspensions an active one; any account can be deleted, and whose it was *)
(* is not remembered once it is.                                           *)
Accepts(k, x) ==
  IF k = "user" THEN x \in User
  ELSE x \in Room /\ Present(x) /\ (k = "suspend" => Active(x))

(* The dedupe key refuses an equal unfinished job; suspensions have none.  *)
Duplicate(k, x) ==
  k # "suspend" /\ \E i \in JobId :
    jobs[i] # NoJob /\ jobs[i].kind = k /\ jobs[i].on = x /\ jobs[i].status # "failed"

(* Enqueue.  A failed row stays in the table until it is cleaned up.       *)
Request(i, k, x) ==
  /\ jobs[i] # NoJob => jobs[i].status = "failed"
  /\ Accepts(k, x) /\ ~Duplicate(k, x)
  /\ jobs' = [jobs EXCEPT ![i] = [kind |-> k, on |-> x, status |-> "pending", attempts |-> 0]]
  /\ UNCHANGED <<room, maker, livekit, hook, workers, creators, editors, sweep, faults>>

(* Mutant: the handler looks for rooms that are not archived. *)
FindableUnlessArchived(r) == Present(r) /\ ~room[r].archived

(* GetRoom does not filter deleted_at. *)
Findable(r) == Present(r)

(* Mutant: the rooms the user would be shown, without the archived ones.   *)
OwnedUnlessArchived(u) ==
  {r \in Room : Present(r) /\ room[r].owner = u /\ ~room[r].archived}

(* GetRoomsCreatedByUser: idle and archived ones too. *)
Owned(u) == {r \in Room : Present(r) /\ room[r].owner = u}

(* The rooms a job is to work on, read when it starts. *)
Targets(j) ==
  IF j.kind = "user" THEN Owned(j.on) ELSE {r \in Room : r = j.on /\ Findable(r)}

(* claimNextJob takes pending rows only and counts the attempt. *)
Claimed(j) == [j EXCEPT !.status = "active", !.attempts = @ + 1]

(* markError: again later, or for good. *)
Errored(j) == [j EXCEPT !.status = IF j.attempts >= MaxAttempts THEN "failed" ELSE "pending"]

Claimable(w, i) ==
  wjob[w] = NoJob /\ jobs[i] # NoJob /\ jobs[i].status = "pending"

(* The handler starts.  A deletion of a row that is gone has nothing to do. *)
Fetch(w, i) ==
  /\ Claimable(w, i)
  /\ jobs[i].kind = "suspend" => Targets(jobs[i]) # {}
  /\ jobs' = [jobs EXCEPT ![i] = Claimed(@)]
  /\ wjob' = [wjob EXCEPT ![w] = i]
  /\ wtodo' = [wtodo EXCEPT ![w] =
       {[room |-> r, name |-> room[r].name] : r \in Targets(jobs[i])}]
  /\ UNCHANGED <<room, maker, livekit, hook, wended, creators, editors, sweep, faults>>

(* A suspension of a row that is gone is an error, at every attempt; the   *)
(* others fail to start only for an error of the database.                 *)
FetchFails(w, i) ==
  /\ Claimable(w, i)
  /\ \/ jobs[i].kind = "suspend" /\ Targets(jobs[i]) = {} /\ UNCHANGED faults
     \/ faults < MaxFaults /\ faults' = faults + 1
  /\ jobs' = [jobs EXCEPT ![i] = Errored(Claimed(@))]
  /\ UNCHANGED <<room, maker, livekit, hook, workers, creators, editors, sweep>>

(* The media room is deleted, by the name that was read. *)
EndMedia(w, t) ==
  /\ t \in wtodo[w] /\ wended[w] = {}
  /\ DeleteMedia(t.name)
  /\ wended' = [wended EXCEPT ![w] = {t}]
  /\ UNCHANGED <<room, maker, hook, jobs, wjob, wtodo, creators, editors, sweep>>

(* Mutant: archiving saves the row it read. *)
ArchiveRowSaves(r) ==
  \E u \in Users :
    room' = [room EXCEPT ![r] =
      [name |-> IF @ = NoRow THEN NoName ELSE @.name,
       owner |-> IF @ = NoRow THEN u ELSE @.owner,
       active |-> FALSE, archived |-> TRUE]]

(* Mutant: archiving removes the row. *)
ArchiveRowWipes(r) == room' = [room EXCEPT ![r] = NoRow]

ArchiveRow(r) == SoftDelete(r)

(* HardDeleteRoom. *)
Wipe(r) == room' = [room EXCEPT ![r] = NoRow]

(* The room is done with, its row written or not. *)
Settled(w, t) ==
  /\ t \in wended[w]
  /\ wtodo' = [wtodo EXCEPT ![w] = @ \ {t}]
  /\ wended' = [wended EXCEPT ![w] = {}]

(* CascadeDeleteRoom, ArchiveRoom or SuspendRoom writes the row. *)
SettleRow(w, t) ==
  /\ Settled(w, t)
  /\ \/ jobs[wjob[w]].kind \in {"purge", "user"} /\ Wipe(t.room)
     \/ jobs[wjob[w]].kind = "archive" /\ ArchiveRow(t.room)
     \/ jobs[wjob[w]].kind = "suspend" /\ SetIdle(t.room)
  /\ UNCHANGED <<maker, livekit, hook, jobs, wjob, creators, editors, sweep, faults>>

(* DeleteUserRooms logs a room it cannot remove and goes on to the next.   *)
SkipRoom(w, t) ==
  /\ Settled(w, t)
  /\ jobs[wjob[w]].kind = "user"
  /\ faults < MaxFaults /\ faults' = faults + 1
  /\ UNCHANGED <<room, maker, livekit, hook, jobs, wjob, creators, editors, sweep>>

Drop(w) ==
  /\ wjob' = [wjob EXCEPT ![w] = NoJob]
  /\ wtodo' = [wtodo EXCEPT ![w] = {}]
  /\ wended' = [wended EXCEPT ![w] = {}]

(* markDone, after the account itself is removed if it is a user_delete. *)
CompleteJob(w) ==
  /\ wjob[w] # NoJob /\ wtodo[w] = {}
  /\ jobs' = [jobs EXCEPT ![wjob[w]] = NoJob]
  /\ Drop(w)
  /\ UNCHANGED <<room, maker, livekit, hook, creators, editors, sweep, faults>>

(* The row cannot be written, the account not be removed, or the handler  *)
(* panics.                                                                *)
JobErrs(w) ==
  /\ wjob[w] # NoJob /\ faults < MaxFaults
  /\ wtodo[w] # {} \/ jobs[wjob[w]].kind = "user"
  /\ faults' = faults + 1
  /\ jobs' = [jobs EXCEPT ![wjob[w]] = Errored(@)]
  /\ Drop(w)
  /\ UNCHANGED <<room, maker, livekit, hook, creators, editors, sweep>>

(* The UPDATE of a mark fails and is logged: the row stays active. *)
MarkLost(w) ==
  /\ wjob[w] # NoJob /\ faults < MaxFaults
  /\ faults' = faults + 1
  /\ Drop(w)
  /\ UNCHANGED <<room, maker, livekit, hook, jobs, creators, editors, sweep>>

-----------------------------------------------------------------------------
(* Scheduler *)

(* CleanupExpiredRooms, one row at a time. *)
Expire(r) ==
  /\ Active(r)
  /\ SetIdle(r)
  /\ UNCHANGED <<maker, livekit, hook, jobs, workers, creators, editors, sweep, faults>>

(* checkIdleRooms: the active rows, looked at one by one. *)
SweepList(r) ==
  /\ Sweeping /\ spc = "idle" /\ Active(r)
  /\ spc' = "listed"
  /\ sroom' = r
  /\ sname' = room[r].name
  /\ UNCHANGED <<room, maker, livekit, hook, jobs, workers, creators, editors, faults>>

Occupied(n) == n \in Name /\ call[n] # {}

SweepEnds == spc' = "idle" /\ sroom' = NoRoom /\ sname' = NoName

(* ListRooms. *)
SweepCount ==
  /\ spc = "listed"
  /\ IF Occupied(sname) THEN SweepEnds ELSE spc' = "empty" /\ UNCHANGED <<sroom, sname>>
  /\ UNCHANGED <<room, maker, livekit, hook, jobs, workers, creators, editors, faults>>

SweepIdle ==
  /\ spc = "empty"
  /\ SetIdle(sroom)
  /\ spc' = "recheck"
  /\ UNCHANGED <<maker, livekit, hook, jobs, workers, creators, editors, sroom, sname, faults>>

(* Mutant: deleted_at is neither set nor null, but some zero value. *)
ReactivatedZero == [name |-> NoName, owner |-> NoUser, active |-> TRUE, archived |-> NoUser]

(* UpdateRoom(&Room{ID, IsActive: true}): every other column is zero. *)
Reactivated == [name |-> NoName, owner |-> NoUser, active |-> TRUE, archived |-> FALSE]

(* Mutant: a room that was idled is always taken for occupied. *)
RejoinedAlways(n) == n \in Names

(* ListParticipants, after the room was idled. *)
Rejoined(n) == Occupied(n)

SweepRecheck ==
  /\ spc = "recheck"
  /\ IF Rejoined(sname) /\ SaveAllowed(sroom, Reactivated)
     THEN Save(sroom, Reactivated)
     ELSE UNCHANGED room
  /\ SweepEnds
  /\ UNCHANGED <<maker, livekit, hook, jobs, workers, creators, editors, faults>>

-----------------------------------------------------------------------------
(* Crash and start *)

(* recoverStaleJobs gives the active rows older than ten minutes back. *)
Recovered(S) ==
  [i \in JobId |-> IF i \in S THEN [jobs[i] EXCEPT !.status = "pending"] ELSE jobs[i]]

(* The server crashes and starts again: what it was doing is gone, and of  *)
(* the active rows those old enough are recovered, the others stay as they *)
(* are until another start.                                                *)
Restart ==
  /\ faults < MaxFaults
  /\ faults' = faults + 1
  /\ \E S \in SUBSET {i \in JobId : jobs[i] # NoJob /\ jobs[i].status = "active"} :
       jobs' = Recovered(S)
  /\ hook' = NoRoom
  /\ wjob' = [w \in Worker |-> NoJob]
  /\ wtodo' = [w \in Worker |-> {}]
  /\ wended' = [w \in Worker |-> {}]
  /\ cpc' = [c \in Creator |-> "idle"]
  /\ cname' = [c \in Creator |-> NoName]
  /\ cuser' = [c \in Creator |-> NoUser]
  /\ epc' = [e \in Editor |-> "idle"]
  /\ eroom' = [e \in Editor |-> NoRoom]
  /\ esnap' = [e \in Editor |-> NoRow]
  /\ SweepEnds
  /\ UNCHANGED <<room, maker, livekit>>

-----------------------------------------------------------------------------
Create(c) ==
  \/ \E u \in User, n \in Name : CheckQuota(c, u, n)
  \/ CreateMedia(c)
  \/ CreateMediaFails(c)
  \/ \E r \in Room : CreateRow(c, r)
  \/ CreateRowFails(c)
  \/ UndoMedia(c)

Edit(e) ==
  \/ \E r \in Room : ReadForSettings(e, r) \/ ReadForReactivate(e, r)
  \/ SaveRow(e)
  \/ SaveFails(e)
  \/ SyncMedia(e)

RunJob(w) ==
  \/ \E i \in JobId : Fetch(w, i) \/ FetchFails(w, i)
  \/ \E t \in wtodo[w] : EndMedia(w, t) \/ SettleRow(w, t) \/ SkipRoom(w, t)
  \/ CompleteJob(w)
  \/ JobErrs(w)
  \/ MarkLost(w)

Sweep ==
  \/ \E r \in Room : SweepList(r)
  \/ SweepCount
  \/ SweepIdle
  \/ SweepRecheck

LiveKit ==
  \E n \in Name :
    \/ \E r \in Room : Leave(n, r)
    \/ MediaTimeout(n)
    \/ HookLookup(n)
    \/ HookLost(n)

Next ==
  \/ \E c \in Creator : Create(c)
  \/ \E e \in Editor : Edit(e)
  \/ \E r \in Room : Join(r) \/ Expire(r)
  \/ \E i \in JobId, k \in Kind, x \in Room \union User : Request(i, k, x)
  \/ \E w \in Worker : RunJob(w)
  \/ LiveKit
  \/ HookDeactivate
  \/ Sweep
  \/ Restart

Spec == Init /\ [][Next]_vars

(* The next step of a worker that has a job, if nothing fails.             *)
Proceed(w) ==
  \/ \E t \in wtodo[w] : EndMedia(w, t) \/ SettleRow(w, t)
  \/ CompleteJob(w)

(* Pending jobs are claimed by priority and age, so each gets its turn,    *)
(* and a handler runs to its end; every tick of the scheduler looks at     *)
(* every active room.  Nobody promises that the server is started again.   *)
Fairness ==
  /\ \A i \in JobId : SF_vars(jobs[i] # NoJob /\ \E w \in Worker : Fetch(w, i))
  /\ \A w \in Worker : WF_vars(wjob[w] # NoJob /\ Proceed(w))
  /\ \A r \in Room : SF_vars(SweepList(r))
  /\ WF_vars(SweepCount \/ SweepIdle \/ SweepRecheck)

FairSpec == Spec /\ Fairness

-----------------------------------------------------------------------------
(* Properties *)

(* Two active rooms never share a name, whatever creations, reactivations, *)
(* settings saves and sweeps overlap: GetRoomByName relies on it, and so   *)
(* does everything addressed to LiveKit by name (migrations.go:76).        *)
ActiveNameUnique ==
  \A r, q \in Room : Active(r) /\ Active(q) /\ room[r].name = room[q].name => r = q

(* A row that was removed does not come back, in whatever order an archive *)
(* and a purge of one room are run, retried or cut short (room.go:83): as  *)
(* documented, a deleted room is "Row removed" (room-lifecycle.md:48).     *)
DeletedForGood ==
  [][\A r \in Room : maker[r] # NoUser /\ ~Present(r) => room'[r] = NoRow]_vars

(* Job i, while it runs, is entitled to remove room r. *)
Orders(i, r) ==
  /\ jobs[i] # NoJob /\ jobs[i].status = "active"
  /\ \/ jobs[i].kind = "purge" /\ jobs[i].on = r
     \/ jobs[i].kind = "user" /\ jobs[i].on = maker[r]

(* Only an administrator's purge of the room, or the deletion of the user  *)
(* who created it, removes a row: an archive keeps it, and its recordings  *)
(* with it, and no mix of saves, sweeps, retries and restarts has a job    *)
(* remove the room of somebody else (handler_room_delete.go:36-50,         *)
(* handler_user_delete.go:32-43, room_cleanup.go:288).                     *)
WipedOnlyOnOrder ==
  [][\A r \in Room : Present(r) /\ room'[r] = NoRow => \E i \in JobId : Orders(i, r)]_vars

(* A user's creations past the count, which may still insert. *)
Creating(u) == {c \in Creator : cpc[c] \in {"counted", "media"} /\ cuser[c] = u}

(* A user's active rooms exceed the quota by at most the requests already  *)
(* past the count, those who have yet to insert included (room.go          *)
(* CreateRoom: the count and the insert are two transactions with a        *)
(* LiveKit call between them).                                             *)
QuotaOvershoot ==
  MaxRooms # 0 =>
    \A u \in User \ Admin :
      Cardinality(ActiveBy(u)) + Cardinality(Creating(u)) <= MaxRooms + Cardinality(Creator) - 1

(* An accepted purge whose effect on the row has not taken place yet. *)
Purging(i, r) ==
  /\ jobs[i] # NoJob /\ jobs[i].kind = "purge" /\ jobs[i].on = r
  /\ \/ jobs[i].status = "pending"
     \/ \E w \in Worker : wjob[w] = i /\ wtodo[w] # {}

(* A job that a crash or a lost update has left active with nobody on it.  *)
Stranded(i) ==
  jobs[i] # NoJob /\ jobs[i].status = "active" /\ \A w \in Worker : wjob[w] # i

(* A purge that was accepted removes the row, whether an archive of the    *)
(* room runs before it, beside it or after it, and whether its worker      *)
(* fails or the server is restarted (room.go:83-85), unless its own job    *)
(* has failed for good or is stranded: what a restart finds active for     *)
(* less than ten minutes is not run again (queue.go:195, worker.go:195).   *)
PurgeReached ==
  \A i \in JobId, r \in Room :
    Purging(i, r) ~>
      (~Present(r) \/ Stranded(i) \/ (jobs[i] # NoJob /\ jobs[i].status = "failed"))

(* Room r awaits, or is under, the deletion of its owner. *)
OwnerGoing(r) ==
  /\ Present(r)
  /\ \E i \in JobId :
       /\ jobs[i] # NoJob /\ jobs[i].kind = "user" /\ jobs[i].on = room[r].owner
       /\ \/ jobs[i].status = "pending"
          \/ \E w \in Worker : wjob[w] = i /\ \E t \in wtodo[w] : t.room = r

(* With its owner's account a room goes, an idle or archived one too (as   *)
(* documented, "For each room: CascadeDeleteRoom",                         *)
(* queue-deep-dive.md:128), if nothing fails meanwhile and the sweep does  *)
(* not blank its owner before the job looks for it                         *)
(* (handler_user_delete.go:32, scheduler.go:293).                          *)
RoomsGoWithOwner ==
  \A r \in Room, k \in 0..MaxFaults :
    (OwnerGoing(r) /\ faults = k) ~> (~Present(r) \/ room[r].owner = NoUser \/ faults > k)

(* Nobody is in the call of the room's name. *)
Quiet(r) == Present(r) /\ room[r].name # NoName => call[room[r].name] = {}

(* A room whose call stays empty gives its name back without waiting to    *)
(* expire (scheduler.go checkIdleRooms).                                   *)
QuietRoomGoesIdle ==
  \A r \in Room : <>[]Quiet(r) => <>[](~Active(r))

-----------------------------------------------------------------------------
(* The inductive invariant behind the safety properties. *)

(* A request that has read a row knows the row and its room; a sweep under *)
(* way knows its room, and there is none where the scheduler does not run. *)
ReadersInv ==
  /\ \A e \in Editor : epc[e] # "idle" => eroom[e] \in Room /\ esnap[e] \in Row
  /\ spc # "idle" => Sweeping /\ sroom \in Room

(* A worker's job is active, and it is alone on it; the room whose call it *)
(* has ended is one of those it has to do.                                 *)
HeldInv ==
  /\ \A w \in Worker : wended[w] \subseteq wtodo[w] /\ (wjob[w] = NoJob => wtodo[w] = {})
  /\ \A w \in Worker : wjob[w] # NoJob =>
       /\ jobs[wjob[w]] # NoJob /\ jobs[wjob[w]].status = "active"
       /\ \A v \in Worker : wjob[v] = wjob[w] => v = w

(* A row belongs to who made it or, once the sweep has blanked it, to      *)
(* nobody, and so does the image of a row somebody is about to save.       *)
OwnerInv ==
  /\ \A r \in Room : Present(r) => maker[r] # NoUser /\ room[r].owner \in {maker[r], NoUser}
  /\ \A e \in Editor : epc[e] = "read" =>
       maker[eroom[e]] # NoUser /\ esnap[e].owner \in {maker[eroom[e]], NoUser}
  /\ spc # "idle" => maker[sroom] # NoUser
  /\ \A c \in Creator : cpc[c] # "idle" => cuser[c] \in User

(* A deletion of a user is about a user, and what a worker has listed is   *)
(* what its job is about.                                                  *)
About(j, r) == IF j.kind = "user" THEN j.on = maker[r] ELSE j.on = r

TargetInv ==
  /\ \A i \in JobId : jobs[i] # NoJob /\ jobs[i].kind = "user" => jobs[i].on \in User
  /\ \A w \in Worker : \A t \in wtodo[w] : About(jobs[wjob[w]], t.room)

RoomsInv ==
  TypeOK /\ ActiveNameUnique /\ ReadersInv /\ HeldInv /\ OwnerInv /\ TargetInv

=============================================================================
