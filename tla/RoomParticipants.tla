-------------------------- MODULE RoomParticipants --------------------------
(***************************************************************************)
(* Who may be in a room: the room_participants rows of one room, the       *)
(* LiveKit tokens handed out for it and the LiveKit room behind it, under  *)
(* concurrent joins, token refreshes, kicks, bans, LiveKit webhooks and    *)
(* the closing of the room (handlers/room.go, handlers/livekit_webhook.go, *)
(* repository/room_repository.go, services/room_cleanup.go,                *)
(* roomcli/roomcli.go).                                                    *)
(*                                                                         *)
(* One step is one database statement (or the commit of a transaction) or  *)
(* one LiveKit call.  On SQLite the server has one connection, which an    *)
(* open transaction keeps to itself; on Postgres the statements of a       *)
(* transaction interleave with every other, at READ COMMITTED.  The row of *)
(* the room itself is reduced to two flags: Rooms models it.               *)
(***************************************************************************)
EXTENDS Integers, FiniteSets

CONSTANTS
  User,            \* identities: users.id, also the LiveKit identity
  Owner,           \* the creator of the room; one outside User has left for good
  Guest,           \* those who may come in through the guest join
  NoUser,
  Joiner,          \* concurrent JoinRoom and GuestJoinRoom requests
  Refresher,       \* concurrent RefreshLiveKitToken requests
  Moderator,       \* concurrent kicks and bans
  Closing,         \* whether the room is closed and opened again
  Editing,         \* whether its visibility is changed
  MaxParticipants, \* the room's limit, 0 for none
  MaxFaults        \* bound on failed statements, lost requests and lost events

ASSUME ParticipantsAssumption ==
  /\ Guest \subseteq User \ {Owner}
  /\ NoUser \notin User
  /\ IsFiniteSet(User)
  /\ IsFiniteSet(Joiner)
  /\ Closing \in BOOLEAN
  /\ Editing \in BOOLEAN
  /\ MaxParticipants \in Nat
  /\ MaxFaults \in Nat

VARIABLES
  db,        \* "sqlite" or "postgres": chosen once
  open,      \* is_active of the room's row
  public,    \* is_public of the room's row
  rows,      \* identities with a room_participants row
  active,    \* those whose row has is_active
  banned,    \* those whose row has is_banned
  token,     \* identities that hold an unexpired LiveKit token
  call,      \* identities connected to the LiveKit room
  left,      \* participant_left events on their way
  live,      \* whether the LiveKit room exists
  finished,  \* a room_finished event on its way
  closing,   \* the webhook, job or request that is closing or reopening the room
  jpc, who,  \* a join request: where it is, for whom
  rpc, rwho, \* a refresh request: where it is, for whom
  mpc, mwho, \* a kick or ban: what is still to be written, about whom
  faults

room == <<open, public>>
seats == <<rows, active, banned>>
livekit == <<call, left, live, finished>>
joins == <<jpc, who>>
refreshes == <<rpc, rwho>>
moderation == <<mpc, mwho>>
vars == <<db, room, seats, token, livekit, closing, joins, refreshes, moderation, faults>>

TypeOK ==
  /\ db \in {"sqlite", "postgres"}
  /\ open \in BOOLEAN
  /\ public \in BOOLEAN
  /\ rows \subseteq User
  /\ active \subseteq rows
  /\ banned \subseteq rows
  /\ token \subseteq User
  /\ call \subseteq User
  /\ left \subseteq User
  /\ live \in BOOLEAN
  /\ finished \in BOOLEAN
  /\ closing \in {"no", "finishing", "suspending", "suspended", "reopening"}
  /\ jpc \in [Joiner -> {"idle", "guest", "private", "enter",
                         "counted", "present", "absent", "admitted"}]
  /\ who \in [Joiner -> User \union {NoUser}]
  /\ rpc \in [Refresher -> {"idle", "public", "private", "member", "issue"}]
  /\ rwho \in [Refresher -> User \union {NoUser}]
  /\ mpc \in [Moderator -> {"idle", "kick", "ban"}]
  /\ mwho \in [Moderator -> User \union {NoUser}]
  /\ faults \in 0..MaxFaults

(* CreateRoom has just answered: the creator has a row and a token (or,    *)
(* outside User, has left already, and the row is inactive).               *)
Init ==
  /\ db \in {"sqlite", "postgres"}
  /\ open = TRUE
  /\ public = TRUE
  /\ rows = User \intersect {Owner}
  /\ active = User \intersect {Owner}
  /\ banned = {}
  /\ token = User \intersect {Owner}
  /\ call = {}
  /\ left = {}
  /\ live = TRUE
  /\ finished = FALSE
  /\ closing = "no"
  /\ jpc = [j \in Joiner |-> "idle"]
  /\ who = [j \in Joiner |-> NoUser]
  /\ rpc = [f \in Refresher |-> "idle"]
  /\ rwho = [f \in Refresher |-> NoUser]
  /\ mpc = [m \in Moderator |-> "idle"]
  /\ mwho = [m \in Moderator |-> NoUser]
  /\ faults = 0

-----------------------------------------------------------------------------
(* The database *)

(* The requests inside the transaction of AddParticipantWithCapacityCheck. *)
InTx == {j \in Joiner : jpc[j] \in {"counted", "present", "absent"}}

(* Mutant: the pool has a second connection on SQLite too. *)
TwoConnections == db \in {"sqlite", "postgres"}

(* A statement outside that transaction finds a connection. *)
Reachable == db = "sqlite" => InTx = {}

(* The rows the capacity is counted over, GetParticipantCount included. *)
Seated == active \ banned

(* IsParticipant *)
Participates(u) == u \in Seated

(* RemoveParticipant *)
Vacate(u) == active' = active \ {u} /\ UNCHANGED <<rows, banned>>

(* RemoveAllParticipants, DeactivateRoomParticipants *)
VacateAll == active' = {} /\ UNCHANGED <<rows, banned>>

(* Mutant: the ban is noted whether there is a row or not. *)
BanAnyone(u) ==
  /\ active' = active \ {u}
  /\ banned' = banned \union {u}
  /\ UNCHANGED rows

(* The repository's KickParticipant: an UPDATE, so without a row nothing. *)
Ban(u) ==
  /\ active' = active \ {u}
  /\ banned' = banned \union ({u} \intersect rows)
  /\ UNCHANGED rows

Fault == faults < MaxFaults /\ faults' = faults + 1

-----------------------------------------------------------------------------
(* JoinRoom and GuestJoinRoom *)

JoinAt(j, pc) == jpc' = [jpc EXCEPT ![j] = pc] /\ UNCHANGED who
JoinEnds(j) ==
  /\ jpc' = [jpc EXCEPT ![j] = "idle"]
  /\ who' = [who EXCEPT ![j] = NoUser]

JoinFor(j, u, pc) ==
  /\ jpc[j] = "idle"
  /\ jpc' = [jpc EXCEPT ![j] = pc]
  /\ who' = [who EXCEPT ![j] = u]

(* GetRoomByName: an inactive room is refused, and nothing has changed.    *)
(* A private room is left to its creator and its participants.             *)
JoinRoom(j, u) ==
  /\ Reachable
  /\ open
  /\ JoinFor(j, u, IF public \/ u = Owner THEN "enter" ELSE "private")
  /\ UNCHANGED <<db, room, seats, token, livekit, closing, refreshes, moderation, faults>>

JoinPrivate(j) ==
  /\ jpc[j] = "private"
  /\ Reachable
  /\ IF Participates(who[j]) THEN JoinAt(j, "enter") ELSE JoinEnds(j)
  /\ UNCHANGED <<db, room, seats, token, livekit, closing, refreshes, moderation, faults>>

(* Guests come into public rooms only. *)
GuestJoinRoom(j, u) ==
  /\ u \in Guest
  /\ Reachable
  /\ open /\ public
  /\ JoinFor(j, u, "guest")
  /\ UNCHANGED <<db, room, seats, token, livekit, closing, refreshes, moderation, faults>>

(* IsParticipantBanned: a lookup that fails is taken for "not banned".     *)
GuestBanCheck(j) ==
  /\ jpc[j] = "guest"
  /\ Reachable
  /\ \/ who[j] \in banned /\ JoinEnds(j) /\ UNCHANGED faults
     \/ who[j] \notin banned /\ JoinAt(j, "enter") /\ UNCHANGED faults
     \/ Fault /\ JoinAt(j, "enter")
  /\ UNCHANGED <<db, room, seats, token, livekit, closing, refreshes, moderation>>

(* Mutant: a room at its limit takes one more. *)
FullBeyond == MaxParticipants > 0 /\ Cardinality(Seated) > MaxParticipants

(* The transaction of AddParticipantWithCapacityCheck begins and counts.   *)
Full == MaxParticipants > 0 /\ Cardinality(Seated) >= MaxParticipants

JoinCount(j) ==
  /\ jpc[j] = "enter"
  /\ Reachable
  /\ IF Full THEN JoinEnds(j) ELSE JoinAt(j, "counted")
  /\ UNCHANGED <<db, room, seats, token, livekit, closing, refreshes, moderation, faults>>

(* Mutant: the row that was found is updated, banned or not. *)
RefusesNobody(u) == u \notin User

(* It looks the participant up and refuses a banned one. *)
Refused(u) == u \in banned

JoinLookup(j) ==
  /\ jpc[j] = "counted"
  /\ \/ Refused(who[j]) /\ JoinEnds(j)
     \/ ~Refused(who[j]) /\ JoinAt(j, IF who[j] \in rows THEN "present" ELSE "absent")
  /\ UNCHANGED <<db, room, seats, token, livekit, closing, refreshes, moderation, faults>>

(* It updates the row it found, or inserts one, and commits; the unique    *)
(* index idx_room_user refuses the second of two rows.                     *)
JoinCommit(j) ==
  /\ \/ /\ jpc[j] = "present" \/ (jpc[j] = "absent" /\ who[j] \notin rows)
        /\ rows' = rows \union {who[j]}
        /\ active' = active \union {who[j]}
        /\ JoinAt(j, "admitted")
     \/ /\ jpc[j] = "absent" /\ who[j] \in rows
        /\ JoinEnds(j)
        /\ UNCHANGED <<rows, active>>
  /\ UNCHANGED <<db, room, banned, token, livekit, closing, refreshes, moderation, faults>>

(* The answer carries the LiveKit token. *)
JoinAnswer(j) ==
  /\ jpc[j] = "admitted"
  /\ token' = token \union {who[j]}
  /\ JoinEnds(j)
  /\ UNCHANGED <<db, room, seats, livekit, closing, refreshes, moderation, faults>>

(* A statement fails, and the transaction is rolled back, or the answer    *)
(* never reaches the client.                                               *)
JoinFails(j) ==
  /\ jpc[j] # "idle"
  /\ Fault
  /\ JoinEnds(j)
  /\ UNCHANGED <<db, room, seats, token, livekit, closing, refreshes, moderation>>

JoinStep(j) ==
  \/ JoinPrivate(j) \/ GuestBanCheck(j) \/ JoinCount(j)
  \/ JoinLookup(j) \/ JoinCommit(j) \/ JoinAnswer(j)

-----------------------------------------------------------------------------
(* RefreshLiveKitToken *)

RefreshAt(f, pc) == rpc' = [rpc EXCEPT ![f] = pc] /\ UNCHANGED rwho
RefreshEnds(f) ==
  /\ rpc' = [rpc EXCEPT ![f] = "idle"]
  /\ rwho' = [rwho EXCEPT ![f] = NoUser]

(* GetRoomByName: the room's flags as the rest of the request sees them.   *)
RefreshLiveKitToken(f, u) ==
  /\ rpc[f] = "idle"
  /\ Reachable
  /\ open
  /\ rpc' = [rpc EXCEPT ![f] = IF public \/ u = Owner THEN "public" ELSE "private"]
  /\ rwho' = [rwho EXCEPT ![f] = u]
  /\ UNCHANGED <<db, room, seats, token, livekit, closing, joins, moderation, faults>>

(* Mutant: the refresh does not ask for bans. *)
RefreshUnchecked(f) ==
  /\ rpc[f] \in {"public", "private"}
  /\ Reachable
  /\ RefreshAt(f, IF rpc[f] = "public" THEN "issue" ELSE "member")
  /\ UNCHANGED <<db, room, seats, token, livekit, closing, joins, moderation, faults>>

(* IsParticipantBanned: a lookup that fails is taken for "not banned".     *)
RefreshBanCheck(f) ==
  /\ Reachable
  /\ rpc[f] \in {"public", "private"}
  /\ \/ /\ rwho[f] \in banned
        /\ RefreshEnds(f)
        /\ UNCHANGED faults
     \/ /\ (rwho[f] \notin banned /\ UNCHANGED faults) \/ Fault
        /\ RefreshAt(f, IF rpc[f] = "public" THEN "issue" ELSE "member")
  /\ UNCHANGED <<db, room, seats, token, livekit, closing, joins, moderation>>

RefreshMember(f) ==
  /\ rpc[f] = "member"
  /\ Reachable
  /\ IF Participates(rwho[f]) THEN RefreshAt(f, "issue") ELSE RefreshEnds(f)
  /\ UNCHANGED <<db, room, seats, token, livekit, closing, joins, moderation, faults>>

RefreshAnswer(f) ==
  /\ rpc[f] = "issue"
  /\ token' = token \union {rwho[f]}
  /\ RefreshEnds(f)
  /\ UNCHANGED <<db, room, seats, livekit, closing, joins, moderation, faults>>

RefreshFails(f) ==
  /\ rpc[f] # "idle"
  /\ Fault
  /\ RefreshEnds(f)
  /\ UNCHANGED <<db, room, seats, token, livekit, closing, joins, moderation>>

RefreshStep(f) == RefreshBanCheck(f) \/ RefreshMember(f) \/ RefreshAnswer(f)

-----------------------------------------------------------------------------
(* Kick and ban *)

(* LiveKit's RemoveParticipant comes first; it fails for somebody who is   *)
(* not in the call, and then nothing is written.  The admin's kick and the *)
(* command line take anybody, the creator included; the command line's     *)
(* kick writes a ban.                                                      *)
Remove(m, u, what) ==
  /\ mpc[m] = "idle"
  /\ u \in call
  /\ call' = call \ {u}
  /\ left' = left \union {u}
  /\ mpc' = [mpc EXCEPT ![m] = what]
  /\ mwho' = [mwho EXCEPT ![m] = u]
  /\ UNCHANGED <<db, room, seats, token, live, finished, closing, joins, refreshes, faults>>

(* A write that fails is ignored or logged, and the answer is a success.   *)
ModerationWrites(m) ==
  /\ mpc[m] # "idle"
  /\ \/ Reachable /\ mpc[m] = "kick" /\ Vacate(mwho[m]) /\ UNCHANGED faults
     \/ Reachable /\ mpc[m] = "ban" /\ Ban(mwho[m]) /\ UNCHANGED faults
     \/ Fault /\ UNCHANGED seats
  /\ mpc' = [mpc EXCEPT ![m] = "idle"]
  /\ mwho' = [mwho EXCEPT ![m] = NoUser]
  /\ UNCHANGED <<db, room, token, livekit, closing, joins, refreshes>>

-----------------------------------------------------------------------------
(* LiveKit: it looks at tokens only, and knows nothing of rows and bans.   *)

Connect(u) ==
  /\ u \in token \ call
  /\ call' = call \union {u}
  /\ live' = TRUE
  /\ UNCHANGED <<db, room, seats, token, left, finished, closing,
                 joins, refreshes, moderation, faults>>

Disconnect(u) ==
  /\ u \in call
  /\ call' = call \ {u}
  /\ left' = left \union {u}
  /\ UNCHANGED <<db, room, seats, token, live, finished, closing,
                 joins, refreshes, moderation, faults>>

(* LiveKit gives those it is connected to fresh tokens of its own.         *)
Renew(u) ==
  /\ u \in call \ token
  /\ token' = token \union {u}
  /\ UNCHANGED <<db, room, seats, livekit, closing, joins, refreshes, moderation, faults>>

(* livekitTokenTTL *)
Expire(u) ==
  /\ u \in token
  /\ token' = token \ {u}
  /\ UNCHANGED <<db, room, seats, livekit, closing, joins, refreshes, moderation, faults>>

(* The LiveKit room closes some time after the last participant left it.   *)
MediaCloses ==
  /\ live /\ call = {}
  /\ live' = FALSE
  /\ finished' = TRUE
  /\ UNCHANGED <<db, room, seats, token, call, left, closing, joins, refreshes, moderation, faults>>

(* handleParticipantDisconnected; an event whose write fails is lost.      *)
ParticipantLeft(u) ==
  /\ u \in left
  /\ left' = left \ {u}
  /\ \/ Reachable /\ Vacate(u) /\ UNCHANGED faults
     \/ Fault /\ UNCHANGED seats
  /\ UNCHANGED <<db, room, token, call, live, finished, closing, joins, refreshes, moderation>>

-----------------------------------------------------------------------------
(* The room closes, and opens again *)

(* handleRoomFinished: RemoveAllParticipants, then SetRoomIdle.            *)
RoomFinished ==
  /\ finished /\ closing = "no"
  /\ finished' = FALSE
  /\ \/ Reachable /\ VacateAll /\ closing' = "finishing" /\ UNCHANGED faults
     \/ Fault /\ UNCHANGED <<seats, closing>>
  /\ UNCHANGED <<db, room, token, call, left, live, joins, refreshes, moderation>>

(* SuspendRoom: LiveKit's DeleteRoom, whose failure is logged, ...         *)
SuspendRoom ==
  /\ open /\ closing = "no"
  /\ closing' = "suspending"
  /\ \/ /\ call' = {} /\ left' = left \union call
        /\ live' = FALSE /\ finished' = (finished \/ live)
        /\ UNCHANGED faults
     \/ Fault /\ UNCHANGED livekit
  /\ UNCHANGED <<db, room, seats, token, joins, refreshes, moderation>>

(* ... SetRoomIdle, the last statement of the webhook's handler too; when  *)
(* it fails the handler is done, and the queue runs the job again, ...     *)
SetRoomIdle ==
  /\ closing \in {"finishing", "suspending"}
  /\ \/ /\ Reachable
        /\ open' = FALSE
        /\ closing' = IF closing = "suspending" THEN "suspended" ELSE "no"
        /\ UNCHANGED faults
     \/ Fault /\ closing' = "no" /\ UNCHANGED open
  /\ UNCHANGED <<db, public, seats, token, livekit, joins, refreshes, moderation>>

(* ... and DeactivateRoomParticipants, whose failure is logged.            *)
SuspendVacates ==
  /\ closing = "suspended"
  /\ closing' = "no"
  /\ \/ Reachable /\ VacateAll /\ UNCHANGED faults
     \/ Fault /\ UNCHANGED seats
  /\ UNCHANGED <<db, room, token, livekit, joins, refreshes, moderation>>

(* AdminReactivateRoom: it saves the row, then creates the LiveKit room,   *)
(* and only logs a failure of that.                                        *)
Reactivate ==
  /\ ~open /\ closing = "no"
  /\ Reachable
  /\ open' = TRUE
  /\ closing' = "reopening"
  /\ UNCHANGED <<db, public, seats, token, livekit, joins, refreshes, moderation, faults>>

RecreateMedia ==
  /\ closing = "reopening"
  /\ closing' = "no"
  /\ \/ live' = TRUE /\ UNCHANGED faults
     \/ Fault /\ UNCHANGED live
  /\ UNCHANGED <<db, room, seats, token, call, left, finished, joins, refreshes, moderation>>

(* UpdateSettings: is_public *)
UpdateSettings ==
  /\ Reachable
  /\ public' = ~public
  /\ UNCHANGED <<db, open, seats, token, livekit, closing, joins, refreshes, moderation, faults>>

-----------------------------------------------------------------------------

JoinRequest(j) ==
  \/ \E u \in User : JoinRoom(j, u) \/ GuestJoinRoom(j, u)
  \/ JoinStep(j)
  \/ JoinFails(j)

RefreshRequest(f) ==
  \/ \E u \in User : RefreshLiveKitToken(f, u)
  \/ RefreshStep(f)
  \/ RefreshFails(f)

ModerationRequest(m) ==
  \/ \E u \in User, what \in {"kick", "ban"} : Remove(m, u, what)
  \/ ModerationWrites(m)

Session(u) ==
  Connect(u) \/ Disconnect(u) \/ Renew(u) \/ Expire(u) \/ ParticipantLeft(u)

CloseOrOpen ==
  Closing /\ (MediaCloses \/ RoomFinished \/ SuspendRoom \/ SetRoomIdle
              \/ SuspendVacates \/ Reactivate \/ RecreateMedia)

Next ==
  \/ \E j \in Joiner : JoinRequest(j)
  \/ \E f \in Refresher : RefreshRequest(f)
  \/ \E m \in Moderator : ModerationRequest(m)
  \/ \E u \in User : Session(u)
  \/ CloseOrOpen
  \/ Editing /\ UpdateSettings

Spec == Init /\ [][Next]_vars

(* A request that has begun runs to its end, and a token expires.          *)
Fairness ==
  /\ \A j \in Joiner : WF_vars(JoinStep(j))
  /\ \A f \in Refresher : WF_vars(RefreshStep(f))
  /\ \A u \in User : WF_vars(Expire(u))

FairSpec == Spec /\ Fairness

-----------------------------------------------------------------------------
(* Properties *)

(* AddParticipantWithCapacityCheck counts and inserts in one transaction.  *)
(* On SQLite that keeps the room within its limit.  At READ COMMITTED two  *)
(* joins may count the same seats, so on Postgres every concurrent join    *)
(* but one may come on top of it, and no more than that, whoever leaves,   *)
(* is kicked, or is banned meanwhile.                                      *)
Overshoot == IF db = "sqlite" THEN 0 ELSE Cardinality(Joiner) - 1

CapacityHeld ==
  MaxParticipants > 0 /\ Joiner # {} => Cardinality(Seated) <= MaxParticipants + Overshoot

(* On SQLite the row of a banned participant is never active again: the    *)
(* ban cannot come between the transaction's lookup and its UPDATE.  (On   *)
(* Postgres it can, which is why every reader of active rows also asks for *)
(* is_banned = false.)                                                     *)
BannedRowInactive == db = "sqlite" => active \intersect banned = {}

(* The inductive invariant: types; every request in progress is about a    *)
(* user; SQLite's connection is one transaction's; seats taken and seats   *)
(* about to be taken together stay within the limit; and on SQLite nobody  *)
(* found unbanned has been banned since.                                   *)
RequestsInv ==
  /\ \A j \in Joiner : jpc[j] # "idle" => who[j] \in User
  /\ \A f \in Refresher : rpc[f] # "idle" => rwho[f] \in User
  /\ \A m \in Moderator : mpc[m] # "idle" => mwho[m] \in User

ConnectionInv == db = "sqlite" => \A i, j \in InTx : i = j

SeatsInv ==
  MaxParticipants > 0 /\ Joiner # {} =>
    Cardinality(Seated) + Cardinality(InTx) <= MaxParticipants + Overshoot

BanInv ==
  db = "sqlite" =>
    /\ active \intersect banned = {}
    /\ \A j \in Joiner : jpc[j] = "present" => who[j] \notin banned

ParticipantsInv == TypeOK /\ RequestsInv /\ ConnectionInv /\ SeatsInv /\ BanInv

(* Once a ban is in the table, no join and no token refresh gets past the  *)
(* check of it: only those that had read the row before still go on.  A    *)
(* refresh whose lookup fails is the exception the code makes.             *)
Passed(u) ==
  {j \in Joiner : who[j] = u /\ jpc[j] \in {"present", "absent", "admitted"}}
    \union {f \in Refresher : rwho[f] = u /\ rpc[f] \in {"member", "issue"}}

BanStops ==
  [][faults' = faults => \A u \in banned : Passed(u)' \subseteq Passed(u)]_vars

(* livekitTokenTTL is the window in which someone banned can come back:    *)
(* once they stay out of the call they are left without a LiveKit token,   *)
(* and get no other one.  (Who came back within the window is kept in by   *)
(* LiveKit's own tokens for as long as they stay connected.)               *)
BannedOut ==
  \A u \in User : <>[](u \notin call) => <>[](u \in banned => u \notin token)

(* A ban whose write has succeeded has set is_banned: "Remove + set        *)
(* is_banned" (room-lifecycle.md).  BanParticipant's UPDATE finds no row   *)
(* for somebody who came in with a refreshed token and never joined.       *)
BanSticks ==
  [][\A m \in Moderator :
       mpc[m] = "ban" /\ mpc'[m] = "idle" /\ faults' = faults => mwho[m] \in banned']_vars

=============================================================================
