----------------------- MODULE RoomParticipantsProofs -----------------------
(***************************************************************************)
(* Proofs about RoomParticipants, for every set of users and requests,     *)
(* every limit and either database.  The capacity rests on one count: the  *)
(* seats taken and the joins that have counted them but not yet written.   *)
(***************************************************************************)
EXTENDS RoomParticipants, FiniteSetTheorems, TLAPS

-----------------------------------------------------------------------------
(* Types, and the users requests are about *)

(* A step of a join keeps the types and the user of every request. *)
LEMMA JoinType ==
  ASSUME TypeOK, RequestsInv, NEW j \in Joiner, JoinRequest(j)
  PROVE  TypeOK' /\ RequestsInv'
<1> USE ParticipantsAssumption
    DEF TypeOK, RequestsInv, room, seats, livekit, refreshes, moderation,
        JoinAt, JoinEnds, JoinFor, Fault
<1>1. ASSUME NEW u \in User, JoinRoom(j, u) \/ GuestJoinRoom(j, u) PROVE TypeOK' /\ RequestsInv'
  BY <1>1 DEF JoinRoom, GuestJoinRoom
<1>2. CASE JoinPrivate(j) \/ GuestBanCheck(j)
  BY <1>2 DEF JoinPrivate, GuestBanCheck
<1>3. CASE JoinCount(j) \/ JoinLookup(j)
  BY <1>3 DEF JoinCount, JoinLookup
<1>4. CASE JoinCommit(j)
  BY <1>4 DEF JoinCommit
<1>5. CASE JoinAnswer(j)
  BY <1>5 DEF JoinAnswer
<1>6. CASE JoinFails(j)
  BY <1>6 DEF JoinFails
<1>7. QED
  BY <1>1, <1>2, <1>3, <1>4, <1>5, <1>6 DEF JoinRequest, JoinStep

(* A step of a refresh keeps them. *)
LEMMA RefreshType ==
  ASSUME TypeOK, RequestsInv, NEW f \in Refresher, RefreshRequest(f)
  PROVE  TypeOK' /\ RequestsInv'
<1> USE ParticipantsAssumption
    DEF TypeOK, RequestsInv, room, seats, livekit, joins, moderation, RefreshAt, RefreshEnds, Fault
<1>1. ASSUME NEW u \in User, RefreshLiveKitToken(f, u) PROVE TypeOK' /\ RequestsInv'
  BY <1>1 DEF RefreshLiveKitToken
<1>2. CASE RefreshBanCheck(f) \/ RefreshMember(f)
  BY <1>2 DEF RefreshBanCheck, RefreshMember
<1>3. CASE RefreshAnswer(f) \/ RefreshFails(f)
  BY <1>3 DEF RefreshAnswer, RefreshFails
<1>4. QED
  BY <1>1, <1>2, <1>3 DEF RefreshRequest, RefreshStep

(* A kick or a ban keeps them. *)
LEMMA ModerationType ==
  ASSUME TypeOK, RequestsInv, NEW m \in Moderator, ModerationRequest(m)
  PROVE  TypeOK' /\ RequestsInv'
<1> USE ParticipantsAssumption
    DEF TypeOK, RequestsInv, room, seats, livekit, joins, refreshes, Vacate, Ban, Fault
<1>1. ASSUME NEW u \in User, NEW what \in {"kick", "ban"}, Remove(m, u, what)
      PROVE  TypeOK' /\ RequestsInv'
  BY <1>1 DEF Remove
<1>2. CASE ModerationWrites(m)
  BY <1>2 DEF ModerationWrites
<1>3. QED
  BY <1>1, <1>2 DEF ModerationRequest

(* The flags of the room and of LiveKit's room stay Boolean when they change. *)
LEMMA FlagsType ==
  ASSUME TypeOK, CloseOrOpen \/ UpdateSettings \/ UNCHANGED vars
  PROVE  open' \in BOOLEAN /\ public' \in BOOLEAN /\ live' \in BOOLEAN /\ finished' \in BOOLEAN
<1> USE DEF TypeOK, room, livekit
<1>1. CASE MediaCloses \/ RoomFinished
  BY <1>1, Zenon DEF MediaCloses, RoomFinished
<1>2. CASE SuspendRoom
  <2>1. (live' = FALSE /\ finished' = (finished \/ live)) \/ UNCHANGED <<live, finished>>
    BY <1>2, Zenon DEF SuspendRoom
  <2>2. live' \in BOOLEAN /\ finished' \in BOOLEAN
    BY <2>1, Zenon
  <2>3. QED
    BY <1>2, <2>2, Zenon DEF SuspendRoom
<1>3. CASE SetRoomIdle \/ SuspendVacates \/ Reactivate \/ RecreateMedia
  BY <1>3, Zenon DEF SetRoomIdle, SuspendVacates, Reactivate, RecreateMedia
<1>4. CASE UpdateSettings
  BY <1>4, Zenon DEF UpdateSettings
<1>5. CASE UNCHANGED vars
  BY <1>5, Zenon DEF vars
<1>6. QED
  BY <1>1, <1>2, <1>3, <1>4, <1>5 DEF CloseOrOpen

(* Every step keeps the types and the user of every request. *)
LEMMA NextTyped ==
  ASSUME TypeOK, RequestsInv, [Next]_vars
  PROVE  TypeOK' /\ RequestsInv'
<1>1. ASSUME NEW u \in User, Session(u) PROVE TypeOK' /\ RequestsInv'
  <2> USE ParticipantsAssumption
      DEF TypeOK, RequestsInv, room, seats, livekit, joins, refreshes, moderation
  <2>1. CASE Connect(u)
    BY <2>1 DEF Connect
  <2>2. CASE Disconnect(u) \/ Renew(u) \/ Expire(u)
    BY <2>2 DEF Disconnect, Renew, Expire
  <2>3. CASE ParticipantLeft(u)
    BY <2>3 DEF ParticipantLeft, Vacate, Fault
  <2>4. QED
    BY <1>1, <2>1, <2>2, <2>3 DEF Session
<1>2. CASE CloseOrOpen \/ UpdateSettings \/ UNCHANGED vars
  <2>1. seats' = seats \/ (VacateAll /\ UNCHANGED <<rows, banned>>)
    BY <1>2 DEF CloseOrOpen, MediaCloses, RoomFinished, SuspendRoom, SetRoomIdle, SuspendVacates,
                Reactivate, RecreateMedia, UpdateSettings, VacateAll, seats, vars
  <2>2. /\ UNCHANGED <<db, token, joins, refreshes, moderation>>
        /\ faults' \in 0..MaxFaults
        /\ call' \subseteq User /\ left' \subseteq User
        /\ closing' \in {"no", "finishing", "suspending", "suspended", "reopening"}
    BY <1>2, ParticipantsAssumption
       DEF TypeOK, CloseOrOpen, MediaCloses, RoomFinished, SuspendRoom, SetRoomIdle,
           SuspendVacates, Reactivate, RecreateMedia, UpdateSettings, Fault, livekit, vars
  <2>3. TypeOK'
    <3>1. rows' \subseteq User /\ active' \subseteq rows' /\ banned' \subseteq rows'
      BY <2>1 DEF TypeOK, VacateAll, seats
    <3>2. /\ jpc' = jpc /\ who' = who /\ rpc' = rpc /\ rwho' = rwho
          /\ mpc' = mpc /\ mwho' = mwho
      BY <2>2 DEF joins, refreshes, moderation
    <3>3. QED
      BY <1>2, <2>2, <3>1, <3>2, FlagsType DEF TypeOK
  <2>4. RequestsInv'
    BY <2>2 DEF RequestsInv, joins, refreshes, moderation
  <2>5. QED
    BY <2>3, <2>4
<1>3. QED
  BY <1>1, <1>2, JoinType, RefreshType, ModerationType DEF Next

-----------------------------------------------------------------------------
(* What a step does to the seats and to the transactions *)

(* A transaction begins: the room had a free seat when it counted.         *)
TxBegins(j) ==
  /\ ~Full /\ Reachable
  /\ InTx' = InTx \union {j}
  /\ \A k \in Joiner : jpc'[k] = "present" => jpc[k] = "present" /\ who'[k] = who[k]
  /\ UNCHANGED seats

(* No seat changes, and no transaction begins: one may have looked its     *)
(* participant up, and have found them not banned.                         *)
TxGoesOn ==
  /\ InTx' \subseteq InTx
  /\ \A k \in Joiner :
       jpc'[k] = "present" => who'[k] = who[k] /\ (jpc[k] = "present" \/ who[k] \notin banned)
  /\ UNCHANGED seats

(* A transaction commits: one seat more, and one transaction less.         *)
TxCommits(j) ==
  /\ j \in InTx
  /\ jpc[j] = "present" \/ who[j] \notin rows
  /\ InTx' = InTx \ {j}
  /\ \A k \in Joiner : jpc'[k] = "present" => jpc[k] = "present" /\ who'[k] = who[k]
  /\ active' = active \union {who[j]}
  /\ UNCHANGED banned

(* Somebody else writes rows: seats are only vacated, and never by a step  *)
(* that has no connection.                                                 *)
Vacates ==
  /\ Reachable
  /\ active' \subseteq active
  /\ banned \subseteq banned'
  /\ active' \intersect banned' \subseteq active \intersect banned

(* A step of a join does one of the three things. *)
LEMMA JoinEffect ==
  ASSUME TypeOK, NEW j \in Joiner, JoinRequest(j)
  PROVE  db' = db /\ (TxBegins(j) \/ TxGoesOn \/ TxCommits(j))
<1> USE DEF TypeOK, InTx, JoinAt, JoinEnds, JoinFor
<1>1. ASSUME NEW u \in User, JoinRoom(j, u) \/ GuestJoinRoom(j, u) PROVE db' = db /\ TxGoesOn
  BY <1>1 DEF JoinRoom, GuestJoinRoom, TxGoesOn
<1>2. CASE JoinPrivate(j) \/ GuestBanCheck(j)
  BY <1>2 DEF JoinPrivate, GuestBanCheck, TxGoesOn
<1>3. CASE JoinCount(j)
  BY <1>3 DEF JoinCount, TxGoesOn, TxBegins
<1>4. CASE JoinLookup(j)
  BY <1>4 DEF JoinLookup, Refused, TxGoesOn
<1>5. CASE JoinCommit(j)
  <2>1. CASE jpc[j] = "absent" /\ who[j] \in rows
    BY <1>5, <2>1 DEF JoinCommit, TxGoesOn, seats
  <2>2. CASE ~(jpc[j] = "absent" /\ who[j] \in rows)
    BY <1>5, <2>2 DEF JoinCommit, TxCommits
  <2>3. QED
    BY <2>1, <2>2
<1>6. CASE JoinAnswer(j) \/ JoinFails(j)
  BY <1>6 DEF JoinAnswer, JoinFails, TxGoesOn
<1>7. QED
  BY <1>1, <1>2, <1>3, <1>4, <1>5, <1>6 DEF JoinRequest, JoinStep

(* A step of anybody else leaves the joins alone, and the seats alone or   *)
(* vacates them.                                                           *)
LEMMA OtherEffect ==
  ASSUME TypeOK, [Next]_vars, ~\E j \in Joiner : JoinRequest(j)
  PROVE  UNCHANGED <<db, joins>> /\ (UNCHANGED seats \/ Vacates)
<1> USE DEF TypeOK, seats, Vacates, Vacate, VacateAll, Ban
<1>1. ASSUME NEW f \in Refresher, RefreshRequest(f) PROVE UNCHANGED <<db, joins, seats>>
  BY <1>1 DEF RefreshRequest, RefreshStep, RefreshLiveKitToken, RefreshBanCheck, RefreshMember,
              RefreshAnswer, RefreshFails
<1>2. ASSUME NEW m \in Moderator, ModerationRequest(m)
      PROVE  UNCHANGED <<db, joins>> /\ (UNCHANGED seats \/ Vacates)
  BY <1>2 DEF ModerationRequest, Remove, ModerationWrites
<1>3. ASSUME NEW u \in User, Session(u)
      PROVE  UNCHANGED <<db, joins>> /\ (UNCHANGED seats \/ Vacates)
  BY <1>3 DEF Session, Connect, Disconnect, Renew, Expire, ParticipantLeft
<1>4. CASE CloseOrOpen
  BY <1>4 DEF CloseOrOpen, MediaCloses, RoomFinished, SuspendRoom, SetRoomIdle, SuspendVacates,
              Reactivate, RecreateMedia
<1>5. CASE UpdateSettings \/ UNCHANGED vars
  BY <1>5 DEF UpdateSettings, vars
<1>6. QED
  BY <1>1, <1>2, <1>3, <1>4, <1>5 DEF Next

-----------------------------------------------------------------------------
(* The parts of the inductive invariant *)

(* A transaction on SQLite begins alone. *)
LEMMA NextConnection ==
  ASSUME TypeOK, ConnectionInv, [Next]_vars
  PROVE  ConnectionInv'
<1>1. ASSUME NEW j \in Joiner, JoinRequest(j) PROVE ConnectionInv'
  BY <1>1, JoinEffect DEF ConnectionInv, TxBegins, TxGoesOn, TxCommits, Reachable
<1>2. CASE ~\E j \in Joiner : JoinRequest(j)
  BY <1>2, OtherEffect DEF ConnectionInv, InTx, joins
<1>3. QED
  BY <1>1, <1>2

(* On SQLite nobody is banned between the lookup and the update. *)
LEMMA NextBan ==
  ASSUME TypeOK, BanInv, [Next]_vars
  PROVE  BanInv'
<1> SUFFICES ASSUME db' = "sqlite" PROVE BanInv'
  BY DEF BanInv
<1>1. ASSUME NEW j \in Joiner, JoinRequest(j) PROVE BanInv'
  <2>1. CASE TxBegins(j) \/ TxGoesOn
    BY <1>1, <2>1, JoinEffect DEF BanInv, TxBegins, TxGoesOn, seats
  <2>2. CASE TxCommits(j)
    <3>1. who[j] \notin banned
      BY <1>1, <2>2, JoinEffect DEF BanInv, TxCommits, TypeOK
    <3>2. QED
      BY <1>1, <2>2, <3>1, JoinEffect DEF BanInv, TxCommits
  <2>3. QED
    BY <1>1, <2>1, <2>2, JoinEffect
<1>2. CASE ~\E j \in Joiner : JoinRequest(j)
  <2>1. UNCHANGED <<db, jpc, who>> /\ (UNCHANGED <<active, banned>> \/ Vacates)
    BY <1>2, OtherEffect DEF joins, seats
  <2>2. CASE UNCHANGED <<active, banned>>
    BY <2>1, <2>2 DEF BanInv
  <2>3. CASE Vacates
    BY <2>1, <2>3 DEF BanInv, Vacates, Reachable, InTx
  <2>4. QED
    BY <2>1, <2>2, <2>3
<1>3. QED
  BY <1>1, <1>2

(* A join takes the seat it has counted. *)
LEMMA NextSeats ==
  ASSUME TypeOK, ConnectionInv, SeatsInv, [Next]_vars
  PROVE  SeatsInv'
<1> SUFFICES ASSUME MaxParticipants > 0, Joiner # {}
             PROVE  Cardinality(Seated') + Cardinality(InTx') <= MaxParticipants + Overshoot'
  BY DEF SeatsInv
<1> USE ParticipantsAssumption
<1>1. /\ IsFiniteSet(Seated) /\ Cardinality(Seated) \in Nat
      /\ IsFiniteSet(InTx) /\ Cardinality(InTx) \in Nat
      /\ Cardinality(Joiner) \in Nat
  BY FS_Subset, FS_CardinalityType DEF TypeOK, Seated, InTx
<1>2. Overshoot \in Int /\ (db' = db => Overshoot' = Overshoot)
  BY <1>1 DEF Overshoot
<1>3. Cardinality(Seated) + Cardinality(InTx) <= MaxParticipants + Overshoot
  BY DEF SeatsInv
<1>4. ASSUME Seated' \subseteq Seated, InTx' \subseteq InTx, db' = db
      PROVE  Cardinality(Seated') + Cardinality(InTx') <= MaxParticipants + Overshoot'
  <2>1. /\ Cardinality(Seated') <= Cardinality(Seated) /\ Cardinality(Seated') \in Nat
        /\ Cardinality(InTx') <= Cardinality(InTx) /\ Cardinality(InTx') \in Nat
    BY <1>1, <1>4, FS_Subset, FS_CardinalityType
  <2>2. QED
    BY <1>1, <1>2, <1>3, <1>4, <2>1
<1>5. ASSUME NEW j \in Joiner, JoinRequest(j)
      PROVE  Cardinality(Seated') + Cardinality(InTx') <= MaxParticipants + Overshoot'
  <2>1. db' = db /\ (TxBegins(j) \/ TxGoesOn \/ TxCommits(j))
    BY <1>5, JoinEffect
  <2>2. CASE TxBegins(j)
    <3>1. Seated' = Seated /\ Cardinality(Seated) <= MaxParticipants - 1
      BY <1>1, <2>2 DEF TxBegins, Full, Seated, seats
    <3>2. InTx' \subseteq Joiner
      BY <2>2 DEF TxBegins, InTx
    <3>3. CASE db = "sqlite"
      <4>1. InTx' = {j}
        BY <2>2, <3>3 DEF TxBegins, Reachable
      <4>2. Cardinality(InTx') = 1
        BY <4>1, FS_Singleton
      <4>3. QED
        BY <1>1, <2>1, <3>1, <3>3, <4>2 DEF Overshoot
    <3>4. CASE db # "sqlite"
      <4>1. Cardinality(InTx') <= Cardinality(Joiner) /\ Cardinality(InTx') \in Nat
        BY <3>2, FS_Subset, FS_CardinalityType
      <4>2. QED
        BY <1>1, <2>1, <3>1, <3>4, <4>1 DEF Overshoot
    <3>5. QED
      BY <3>3, <3>4
  <2>3. CASE TxGoesOn
    BY <1>4, <2>1, <2>3 DEF TxGoesOn, Seated, seats
  <2>4. CASE TxCommits(j)
    <3>1. Seated' \subseteq Seated \union {who[j]}
      BY <2>4 DEF TxCommits, Seated
    <3>2. /\ IsFiniteSet(Seated \union {who[j]})
          /\ Cardinality(Seated \union {who[j]}) <= Cardinality(Seated) + 1
      <4>1. /\ IsFiniteSet(Seated \union {who[j]})
            /\ Cardinality(Seated \union {who[j]}) =
                 IF who[j] \in Seated THEN Cardinality(Seated) ELSE Cardinality(Seated) + 1
        BY <1>1, FS_AddElement, Zenon
      <4>2. QED
        BY <1>1, <4>1
    <3>3. Cardinality(Seated') <= Cardinality(Seated) + 1 /\ Cardinality(Seated') \in Nat
      <4>1. /\ Cardinality(Seated') <= Cardinality(Seated \union {who[j]})
            /\ IsFiniteSet(Seated')
        BY <3>1, <3>2, FS_Subset
      <4>2. Cardinality(Seated') \in Nat /\ Cardinality(Seated \union {who[j]}) \in Nat
        BY <3>2, <4>1, FS_CardinalityType
      <4>3. QED
        BY <1>1, <3>2, <4>1, <4>2
    <3>4. Cardinality(InTx') = Cardinality(InTx) - 1
      BY <1>1, <2>4, FS_RemoveElement DEF TxCommits
    <3>5. QED
      BY <1>1, <1>2, <1>3, <2>1, <3>3, <3>4
  <2>5. QED
    BY <2>1, <2>2, <2>3, <2>4
<1>6. CASE ~\E j \in Joiner : JoinRequest(j)
  <2>1. UNCHANGED <<db, joins>> /\ (UNCHANGED seats \/ Vacates)
    BY <1>6, OtherEffect
  <2>2. Seated' \subseteq Seated
    BY <2>1 DEF Vacates, Seated, seats
  <2>3. InTx' \subseteq InTx
    BY <2>1 DEF InTx, joins
  <2>4. QED
    BY <1>4, <2>1, <2>2, <2>3
<1>7. QED
  BY <1>5, <1>6

-----------------------------------------------------------------------------
(* Theorems *)

(* The inductive invariant holds in every reachable state. *)
THEOREM ParticipantsInvariance == Spec => []ParticipantsInv
<1>1. Init => ParticipantsInv
  <2> SUFFICES ASSUME Init PROVE ParticipantsInv
    OBVIOUS
  <2> USE ParticipantsAssumption
  <2>1. TypeOK /\ RequestsInv /\ ConnectionInv /\ BanInv
    <3>1. /\ open \in BOOLEAN /\ public \in BOOLEAN /\ live \in BOOLEAN /\ finished \in BOOLEAN
          /\ jpc = [j \in Joiner |-> "idle"] /\ banned = {}
      BY Zenon DEF Init
    <3>2. TypeOK
      BY <3>1 DEF Init, TypeOK
    <3>3. RequestsInv
      BY DEF Init, RequestsInv
    <3>4. ConnectionInv /\ BanInv
      BY <3>1 DEF ConnectionInv, BanInv, InTx
    <3>5. QED
      BY <3>2, <3>3, <3>4
  <2>2. SeatsInv
    <3> SUFFICES ASSUME MaxParticipants > 0, Joiner # {}
                 PROVE  Cardinality(Seated) + Cardinality(InTx) <= MaxParticipants + Overshoot
      BY DEF SeatsInv
    <3>1. InTx = {} /\ Cardinality(InTx) = 0
      BY FS_EmptySet DEF Init, InTx
    <3>2. Cardinality(Seated) \in Nat /\ Cardinality(Seated) <= 1
      <4>1. Seated \subseteq {Owner}
        BY DEF Init, Seated
      <4>2. IsFiniteSet({Owner}) /\ Cardinality({Owner}) = 1
        BY FS_Singleton
      <4>3. QED
        BY <4>1, <4>2, FS_Subset, FS_CardinalityType
    <3>3. Cardinality(Joiner) \in Nat /\ Cardinality(Joiner) # 0
      BY FS_CardinalityType, FS_EmptySet
    <3>4. Overshoot \in Int /\ Overshoot >= 0
      BY <3>3 DEF Overshoot
    <3>5. QED
      BY <3>1, <3>2, <3>4
  <2>3. QED
    BY <2>1, <2>2 DEF ParticipantsInv
<1>2. ParticipantsInv /\ [Next]_vars => ParticipantsInv'
  BY NextTyped, NextConnection, NextBan, NextSeats DEF ParticipantsInv
<1>3. QED
  BY <1>1, <1>2, PTL DEF Spec

(* Rows, tokens, calls and every request in progress keep their types. *)
THEOREM ParticipantsTypeCorrect == Spec => []TypeOK
BY ParticipantsInvariance, PTL DEF ParticipantsInv

(* However many join, leave, are kicked or banned, the room exceeds its    *)
(* limit by no more than the concurrent joins on Postgres, and not at all  *)
(* on SQLite.                                                              *)
THEOREM CapacityIsHeld == Spec => []CapacityHeld
<1>1. ParticipantsInv => CapacityHeld
  <2> SUFFICES ASSUME ParticipantsInv, MaxParticipants > 0, Joiner # {}
               PROVE  Cardinality(Seated) <= MaxParticipants + Overshoot
    BY DEF CapacityHeld
  <2> USE ParticipantsAssumption
  <2>1. /\ Cardinality(Seated) \in Nat /\ Cardinality(InTx) \in Nat /\ Cardinality(Joiner) \in Nat
    BY FS_Subset, FS_CardinalityType DEF ParticipantsInv, TypeOK, Seated, InTx
  <2>2. Overshoot \in Int
    BY <2>1 DEF Overshoot
  <2>3. QED
    BY <2>1, <2>2 DEF ParticipantsInv, SeatsInv
<1>2. QED
  BY <1>1, ParticipantsInvariance, PTL

(* On SQLite the row of a banned participant is never active again. *)
THEOREM BannedRowsStayInactive == Spec => []BannedRowInactive
<1>1. ParticipantsInv => BannedRowInactive
  BY DEF ParticipantsInv, BanInv, BannedRowInactive
<1>2. QED
  BY <1>1, ParticipantsInvariance, PTL

(* Past the check, pointwise: the requests for u that have read the row.   *)
JoinsKept(u) ==
  \A k \in Joiner :
    who'[k] = u /\ jpc'[k] \in {"present", "absent", "admitted"} =>
      who[k] = u /\ jpc[k] \in {"present", "absent", "admitted"}

RefreshesKept(u) ==
  \A k \in Refresher :
    rwho'[k] = u /\ rpc'[k] \in {"member", "issue"} =>
      rwho[k] = u /\ rpc[k] \in {"member", "issue"}

(* No join for a banned participant gets past the lookup. *)
LEMMA BanStopsJoin ==
  ASSUME TypeOK, NEW u \in banned, NEW j \in Joiner, JoinRequest(j)
  PROVE  JoinsKept(u) /\ RefreshesKept(u)
<1> USE DEF TypeOK, JoinsKept, RefreshesKept, refreshes, JoinAt, JoinEnds, JoinFor
<1>1. ASSUME NEW v \in User, JoinRoom(j, v) \/ GuestJoinRoom(j, v)
      PROVE  JoinsKept(u) /\ RefreshesKept(u)
  BY <1>1 DEF JoinRoom, GuestJoinRoom
<1>2. CASE JoinPrivate(j) \/ GuestBanCheck(j) \/ JoinCount(j)
  BY <1>2 DEF JoinPrivate, GuestBanCheck, JoinCount
<1>3. CASE JoinLookup(j)
  BY <1>3 DEF JoinLookup, Refused
<1>4. CASE JoinCommit(j) \/ JoinAnswer(j) \/ JoinFails(j)
  BY <1>4 DEF JoinCommit, JoinAnswer, JoinFails
<1>5. QED
  BY <1>1, <1>2, <1>3, <1>4 DEF JoinRequest, JoinStep

(* No refresh for a banned participant gets past a lookup that succeeds. *)
LEMMA BanStopsRefresh ==
  ASSUME TypeOK, NEW u \in banned, NEW f \in Refresher, RefreshRequest(f), faults' = faults
  PROVE  JoinsKept(u) /\ RefreshesKept(u)
<1> USE DEF TypeOK, JoinsKept, RefreshesKept, joins, RefreshAt, RefreshEnds
<1>1. ASSUME NEW v \in User, RefreshLiveKitToken(f, v) PROVE JoinsKept(u) /\ RefreshesKept(u)
  BY <1>1 DEF RefreshLiveKitToken
<1>2. CASE RefreshBanCheck(f)
  BY <1>2, ParticipantsAssumption DEF RefreshBanCheck, Fault
<1>3. CASE RefreshMember(f) \/ RefreshAnswer(f) \/ RefreshFails(f)
  BY <1>3 DEF RefreshMember, RefreshAnswer, RefreshFails
<1>4. QED
  BY <1>1, <1>2, <1>3 DEF RefreshRequest, RefreshStep

(* Once a ban is in the table no further request for the participant gets  *)
(* past the check of it.                                                   *)
THEOREM BansStop == Spec => BanStops
<1>1. ASSUME TypeOK, [Next]_vars, faults' = faults, NEW u \in banned
      PROVE  Passed(u)' \subseteq Passed(u)
  <2>1. ASSUME NEW m \in Moderator, ModerationRequest(m) PROVE UNCHANGED <<joins, refreshes>>
    BY <2>1 DEF ModerationRequest, Remove, ModerationWrites
  <2>2. ASSUME NEW v \in User, Session(v) PROVE UNCHANGED <<joins, refreshes>>
    BY <2>2 DEF Session, Connect, Disconnect, Renew, Expire, ParticipantLeft
  <2>3. ASSUME CloseOrOpen \/ UpdateSettings \/ UNCHANGED vars
        PROVE  UNCHANGED <<joins, refreshes>>
    BY <2>3 DEF CloseOrOpen, MediaCloses, RoomFinished, SuspendRoom, SetRoomIdle,
                      SuspendVacates, Reactivate, RecreateMedia, UpdateSettings, vars
  <2>4. JoinsKept(u) /\ RefreshesKept(u)
    <3>1. CASE UNCHANGED <<joins, refreshes>>
      BY <3>1 DEF JoinsKept, RefreshesKept, joins, refreshes
    <3>2. QED
      BY <1>1, <2>1, <2>2, <2>3, <3>1, BanStopsJoin, BanStopsRefresh DEF Next
  <2>5. QED
    BY <2>4 DEF Passed, JoinsKept, RefreshesKept
<1>2. TypeOK /\ [Next]_vars =>
        [faults' = faults => \A u \in banned : Passed(u)' \subseteq Passed(u)]_vars
  BY <1>1
<1>3. QED
  BY <1>2, ParticipantsTypeCorrect, PTL DEF Spec, BanStops

=============================================================================
