---------------------------- MODULE MeetingStage ----------------------------
(***************************************************************************)
(* The stage of a meeting (components/meeting/stage): a register that      *)
(* every participant keeps for itself, without a server, over LiveKit's    *)
(* reliable data channel.  Whoever claims it owns it; claims, releases,    *)
(* requests and answers are broadcast, and a participant takes a stage     *)
(* whose time stamp is not older than that of the one it shows.            *)
(*                                                                         *)
(* One step is one callback up to its next await: a click, a packet, a     *)
(* presence event, a timer, the end of a publishData.  A channel is FIFO   *)
(* from one sender to one receiver and nothing orders different senders.   *)
(* stage_state is applied as stage_set is, so both are a "set" here.  The  *)
(* clocks agree and tell two claims apart.  The queue's cap of 20 is out   *)
(* of reach of the bounds.                                                 *)
(***************************************************************************)
EXTENDS Integers, Sequences, SequencesExt, FiniteSets, Filter

CONSTANTS
  Peer,       \* participants, by identity
  Kind,       \* what is put on stage
  NoStage, NoPeer,
  MaxStamps,  \* bound on time stamps handed out
  MaxSyncs,   \* bound on playhead updates
  Trouble,    \* what may go wrong, each once
  MaxTrouble, \* bound on how much of it does
  MaxBoth     \* bound on time stamps and trouble together

Stage == [owner : Peer, kind : Kind, at : 1..MaxStamps]

Wire == [type : {"set"}, stage : Stage]
        \union [type : {"clear", "sync"}, owner : Peer]
        \union {[type |-> "request"]}

ASSUME StageAssumption ==
  /\ Kind \subseteq {"screenshare", "whiteboard", "webxdc", "youtube"}
  /\ NoStage \notin Stage
  /\ NoPeer \notin Peer
  /\ MaxStamps \in Nat /\ MaxSyncs \in Nat /\ MaxTrouble \in Nat /\ MaxBoth \in Nat
  /\ Trouble \subseteq {"interrupt", "unavailable", "drop", "leave"}

VARIABLES
  stage,      \* stageRef: what each participant shows
  conn,       \* "out", "closed" (in the room, transport not open), "ready"
  queue,      \* publishQueueRef
  publishing, \* publishingRef: a drain is running
  sending,    \* packets whose publishData is awaited, one for each running drain
  retry,      \* drainRetryTimerRef: a drain is due
  chan,       \* chan[p][q]: packets of p on their way to q
  notice,     \* presence events on their way to a participant
  pushing,    \* a delayed push of the stage is due (joinTimers)
  share,      \* the local screen track
  now,        \* Date.now()
  latest,     \* history: whose claim is the newest, until it is given up or
              \* another stage is published with a newer stamp
  syncs,
  trouble     \* what has gone wrong

publisher == <<queue, publishing, sending, retry>>
bounds == <<syncs, trouble>>
vars == <<stage, conn, publisher, chan, notice, pushing, share, now, latest, bounds>>

Event == [who : Peer, type : {"joined", "left"}]

Tracks == {"off", "starting", "on", "late", "stopping", "ending"}

TypeOK ==
  /\ stage \in [Peer -> Stage \union {NoStage}]
  /\ conn \in [Peer -> {"out", "closed", "ready"}]
  /\ queue \in [Peer -> Seq(Wire)]
  /\ publishing \in [Peer -> BOOLEAN]
  /\ sending \in [Peer -> Seq(Wire)]
  /\ retry \in [Peer -> BOOLEAN]
  /\ chan \in [Peer -> [Peer -> Seq(Wire)]]
  /\ notice \in [Peer -> Seq(Event)]
  /\ pushing \in [Peer -> BOOLEAN]
  /\ share \in [Peer -> Tracks]
  /\ now \in 0..MaxStamps
  /\ latest \in Peer \union {NoPeer}
  /\ syncs \in 0..MaxSyncs
  /\ trouble \subseteq Trouble

(* Everybody is in the room and nothing is on stage. *)
Init ==
  /\ stage = [p \in Peer |-> NoStage]
  /\ conn = [p \in Peer |-> "ready"]
  /\ queue = [p \in Peer |-> <<>>]
  /\ publishing = [p \in Peer |-> FALSE]
  /\ sending = [p \in Peer |-> <<>>]
  /\ retry = [p \in Peer |-> FALSE]
  /\ chan = [p \in Peer |-> [q \in Peer |-> <<>>]]
  /\ notice = [p \in Peer |-> <<>>]
  /\ pushing = [p \in Peer |-> FALSE]
  /\ share = [p \in Peer |-> "off"]
  /\ now = 0
  /\ latest = NoPeer
  /\ syncs = 0
  /\ trouble = {}

-----------------------------------------------------------------------------
(* What a participant shows and owns *)

Holds(s, p) == s # NoStage /\ s.owner = p
Owns(p) == Holds(stage[p], p)
Shows(p, k) == stage[p] # NoStage /\ stage[p].kind = k
Present(p) == conn[p] # "out"

SetMsg(s) == [type |-> "set", stage |-> s]
ClearMsg(p) == [type |-> "clear", owner |-> p]
SyncMsg(p) == [type |-> "sync", owner |-> p]
Request == [type |-> "request"]

(* Bound: neither a stamp nor trouble is left once there were enough. *)
Enough == now + Cardinality(trouble) >= MaxBoth

(* Something goes wrong, for the first time. *)
Goes(t) ==
  /\ t \in Trouble \ trouble /\ Cardinality(trouble) < MaxTrouble /\ ~Enough
  /\ trouble' = trouble \union {t}

(* Mutant: the screen track is never stopped. *)
StoppedNever(p) == share[p]

(* The local screen track is on: it was started under a screen stage or    *)
(* none ("on") or, late, under a stage of another kind.                    *)
Sharing(p) == share[p] \in {"on", "late"}

(* stopLocalScreenShare: nothing to stop unless the track is on. *)
Stopped(p) == IF Sharing(p) THEN "stopping" ELSE share[p]

-----------------------------------------------------------------------------
(* Publishing *)

IsRequest(w) == w.type = "request"

(* Mutant: the queue is capped at one packet. *)
EnqueuedOnce(q, w) == IF q = <<>> THEN <<w>> ELSE q

(* publish: an earlier request in the queue makes room for a later one. *)
Enqueued(q, w) ==
  Append(IF IsRequest(w) THEN Kept(q, Wire \ {Request}) ELSE q, w)

(* drainPublishQueue, up to its first publishData. *)
DrainWith(p, q) ==
  IF q # <<>> /\ ~publishing[p] /\ conn[p] = "ready"
  THEN /\ publishing' = [publishing EXCEPT ![p] = TRUE]
       /\ sending' = [sending EXCEPT ![p] = Append(@, Head(q))]
       /\ queue' = [queue EXCEPT ![p] = Tail(q)]
  ELSE /\ queue' = [queue EXCEPT ![p] = q]
       /\ UNCHANGED <<publishing, sending>>

Publish(p, w) == DrainWith(p, Enqueued(queue[p], w)) /\ UNCHANGED retry

(* A request is dropped unless the transport is open. *)
PublishRequest(p) ==
  IF conn[p] = "ready" THEN Publish(p, Request) ELSE UNCHANGED publisher

(* The packet at place i is out: the receivers in the room will have it,   *)
(* and its drain goes on with the next one or ends.                        *)
Reached(p, w) ==
  [chan EXCEPT ![p] = [q \in Peer |->
     IF q # p /\ Present(q) THEN Append(@[q], w) ELSE @[q]]]

Without(s, i) == SubSeq(s, 1, i - 1) \o SubSeq(s, i + 1, Len(s))

(* The drain whose packet was at place i: it goes on while there are       *)
(* packets and the transport is open.                                      *)
DrainOn(p, i, q) ==
  IF q # <<>> /\ conn[p] = "ready"
  THEN /\ sending' = [sending EXCEPT ![p] = Append(Without(@, i), Head(q))]
       /\ queue' = [queue EXCEPT ![p] = Tail(q)]
       /\ UNCHANGED publishing
  ELSE /\ sending' = [sending EXCEPT ![p] = Without(@, i)]
       /\ queue' = [queue EXCEPT ![p] = q]
       /\ publishing' = [publishing EXCEPT ![p] = FALSE]

Sent(p) == \E i \in DOMAIN sending[p] :
  /\ conn[p] = "ready"
  /\ chan' = Reached(p, sending[p][i])
  /\ DrainOn(p, i, queue[p])
  /\ UNCHANGED <<retry, stage, conn, notice, pushing, share, now, latest, bounds>>

(* Mutant: no drain is scheduled after one that ended early. *)
RetryForgotten(p) == retry[p]

(* A drain that ends with packets left is tried again, if it may publish. *)
RetryDue(p) == retry[p] \/ conn[p] = "ready"

(* publishData fails because the transport is not there just now: the      *)
(* packet goes back to the front, the drain ends, and if the transport is  *)
(* open after all another one is due.  An interruption brings such         *)
(* failures with it, then and later.                                       *)
SendUnavailable(p) == \E i \in DOMAIN sending[p] :
  /\ IF "interrupt" \in trouble THEN UNCHANGED trouble ELSE Goes("unavailable")
  /\ queue' = [queue EXCEPT ![p] = <<sending[p][i]>> \o @]
  /\ sending' = [sending EXCEPT ![p] = Without(@, i)]
  /\ publishing' = [publishing EXCEPT ![p] = FALSE]
  /\ retry' = [retry EXCEPT ![p] = RetryDue(p)]
  /\ UNCHANGED <<stage, conn, chan, notice, pushing, share, now, latest, syncs>>

(* publishData fails for good: the packet is dropped, and with it the      *)
(* whole queue if the peer connection is gone.                             *)
SendDropped(p) == \E i \in DOMAIN sending[p] :
  /\ Goes("drop")
  /\ \/ DrainOn(p, i, queue[p])
     \/ /\ queue' = [queue EXCEPT ![p] = <<>>]
        /\ sending' = [sending EXCEPT ![p] = Without(@, i)]
        /\ publishing' = [publishing EXCEPT ![p] = FALSE]
  /\ UNCHANGED <<retry, stage, conn, chan, notice, pushing, share, now, latest, syncs>>

(* The retry timer of a drain that ended with packets left. *)
DrainRetry(p) ==
  /\ retry[p]
  /\ retry' = [retry EXCEPT ![p] = FALSE]
  /\ DrainWith(p, queue[p])
  /\ UNCHANGED <<stage, conn, chan, notice, pushing, share, now, latest, bounds>>

-----------------------------------------------------------------------------
(* What the local user does *)

Stamp == now < MaxStamps /\ ~Enough /\ now' = now + 1

(* claimStage, which is refused while somebody else's stage is shown.  A   *)
(* screen is not shared under the new stage, if it is of another kind.     *)
MayClaim(p) == stage[p] = NoStage \/ Owns(p)

Claimed(p, k) ==
  /\ MayClaim(p)
  /\ Stamp
  /\ LET s == [owner |-> p, kind |-> k, at |-> now']
     IN stage' = [stage EXCEPT ![p] = s] /\ Publish(p, SetMsg(s))
  /\ latest' = p

Claim(p, k) ==
  /\ Present(p) /\ k # "screenshare"
  /\ Claimed(p, k)
  /\ share' = [share EXCEPT ![p] = Stopped(p)]
  /\ UNCHANGED <<conn, chan, notice, pushing, bounds>>

(* clearStage, which only the owner's does something. *)
Disowned(p) == IF latest = p THEN NoPeer ELSE latest

Cleared(p) ==
  IF Owns(p)
  THEN /\ stage' = [stage EXCEPT ![p] = NoStage]
       /\ latest' = Disowned(p)
       /\ Publish(p, ClearMsg(p))
  ELSE UNCHANGED <<stage, publisher, latest>>

Clear(p) ==
  /\ Present(p) /\ Owns(p)
  /\ Cleared(p)
  /\ share' = [share EXCEPT ![p] = Stopped(p)]
  /\ UNCHANGED <<conn, chan, notice, pushing, now, bounds>>

(* toggleScreenShare: the stage is claimed, then the browser is asked. *)
StartShare(p) ==
  /\ Present(p) /\ share[p] = "off" /\ "screenshare" \in Kind
  /\ Claimed(p, "screenshare")
  /\ share' = [share EXCEPT ![p] = "starting"]
  /\ UNCHANGED <<conn, chan, notice, pushing, bounds>>

(* Mutant: the new stamp lies in the future. *)
RestampedLate(s) == [s EXCEPT !.at = now + 2]

(* The stage with a new stamp. *)
Restamped(s) == [s EXCEPT !.at = now + 1]

(* The track is published, whatever stage is shown by now: the effect that *)
(* stops a screen under a stage of another kind runs when the stage        *)
(* changes, not when the track starts.  The owner of a screen stage        *)
(* publishes its stage anew, with a new stamp on the wire only.            *)
ShareStarts(p) ==
  /\ share[p] = "starting"
  /\ share' = [share EXCEPT ![p] =
       IF stage[p] # NoStage /\ ~Shows(p, "screenshare") THEN "late" ELSE "on"]
  /\ IF Owns(p) /\ Shows(p, "screenshare")
     THEN /\ Stamp
          /\ latest' = IF latest = p THEN p ELSE NoPeer
          /\ Publish(p, SetMsg(Restamped(stage[p])))
     ELSE UNCHANGED <<now, latest, publisher>>
  /\ UNCHANGED <<stage, conn, chan, notice, pushing, bounds>>

(* The picker is dismissed, or the track never comes. *)
ShareFails(p) ==
  /\ share[p] = "starting"
  /\ share' = [share EXCEPT ![p] = "off"]
  /\ Cleared(p)
  /\ UNCHANGED <<conn, chan, notice, pushing, now, bounds>>

(* The browser ends the track, or toggleScreenShare does: with a screen    *)
(* stage of its own it will then clear the stage.                          *)
StopShare(p) ==
  /\ Sharing(p)
  /\ \/ share' = [share EXCEPT ![p] = "stopping"]
     \/ /\ Owns(p) /\ Shows(p, "screenshare")
        /\ share' = [share EXCEPT ![p] = "ending"]
  /\ UNCHANGED <<stage, conn, publisher, chan, notice, pushing, now, latest, bounds>>

(* The track has ended, and an own screen stage goes with it; the toggle   *)
(* clears its stage after that, of whatever kind it is by now.             *)
TrackEnds(p) ==
  /\ share[p] \in {"stopping", "ending"}
  /\ share' = [share EXCEPT ![p] = "off"]
  /\ IF share[p] = "ending" \/ Shows(p, "screenshare")
     THEN Cleared(p) ELSE UNCHANGED <<stage, publisher, latest>>
  /\ UNCHANGED <<conn, chan, notice, pushing, now, bounds>>

(* updateYoutubeStage: the owner's own stamp moves, the packet has none.   *)
(* The stage has changed, which stops a screen that started under it.      *)
SyncPlayhead(p) ==
  /\ Present(p) /\ Owns(p) /\ Shows(p, "youtube")
  /\ syncs < MaxSyncs /\ syncs' = syncs + 1
  /\ Stamp
  /\ stage' = [stage EXCEPT ![p].at = now']
  /\ Publish(p, SyncMsg(p))
  /\ share' = [share EXCEPT ![p] = Stopped(p)]
  /\ UNCHANGED <<conn, chan, notice, pushing, latest, trouble>>

-----------------------------------------------------------------------------
(* Packets *)

(* Mutant: a stage that is shown is kept. *)
TakesFirst(p, s) == stage[p] = NoStage

(* applyRemoteStage: nothing older than what is shown. *)
Takes(p, s) == stage[p] = NoStage \/ s.at >= stage[p].at

(* The screen track is stopped for any stage of another kind, taken or     *)
(* not, and for a screen that takes the place of an own stage of another.  *)
ReceiveSet(q, s) ==
  /\ stage' = [stage EXCEPT ![q] = IF Takes(q, s) THEN s ELSE @]
  /\ share' = [share EXCEPT ![q] =
       IF s.kind = "screenshare" /\ ~(Takes(q, s) /\ Owns(q) /\ ~Shows(q, "screenshare"))
       THEN @ ELSE Stopped(q)]
  /\ UNCHANGED <<publisher, now>>

ReceiveClear(q, o) ==
  /\ IF Holds(stage[q], o)
     THEN /\ stage' = [stage EXCEPT ![q] = NoStage]
          /\ share' = [share EXCEPT ![q] = Stopped(q)]
     ELSE UNCHANGED <<stage, share>>
  /\ UNCHANGED <<publisher, now>>

(* applyYoutubeSync: whoever's video is shown is stamped anew. *)
ReceiveSync(q) ==
  /\ IF Shows(q, "youtube")
     THEN /\ Stamp
          /\ stage' = [stage EXCEPT ![q].at = now']
          /\ share' = [share EXCEPT ![q] = Stopped(q)]
     ELSE UNCHANGED <<stage, share, now>>
  /\ UNCHANGED publisher

(* stage_request: the owner answers with stage_state. *)
ReceiveRequest(q) ==
  /\ IF Owns(q) THEN Publish(q, SetMsg(stage[q])) ELSE UNCHANGED publisher
  /\ UNCHANGED <<stage, share, now>>

Receive(p, q) ==
  /\ chan[p][q] # <<>> /\ conn[q] = "ready"
  /\ chan' = [chan EXCEPT ![p][q] = Tail(@)]
  /\ LET w == Head(chan[p][q])
     IN \/ w.type = "set" /\ ReceiveSet(q, w.stage)
        \/ w.type = "clear" /\ ReceiveClear(q, w.owner)
        \/ w.type = "sync" /\ ReceiveSync(q)
        \/ w.type = "request" /\ ReceiveRequest(q)
  /\ UNCHANGED <<conn, notice, pushing, latest, bounds>>

-----------------------------------------------------------------------------
(* The room *)

Tell(p, t) ==
  notice' = [q \in Peer |->
    IF q # p /\ Present(q) THEN Append(notice[q], [who |-> p, type |-> t]) ELSE notice[q]]

(* ParticipantConnected: ask for the stage, and push one's own in a moment. *)
(* ParticipantDisconnected: the stage of the one who left is gone.          *)
Notice(q) ==
  /\ notice[q] # <<>> /\ Present(q)
  /\ notice' = [notice EXCEPT ![q] = Tail(@)]
  /\ LET e == Head(notice[q])
     IN \/ /\ e.type = "joined"
           /\ PublishRequest(q)
           /\ pushing' = [pushing EXCEPT ![q] = @ \/ Owns(q)]
           /\ UNCHANGED <<stage, share>>
        \/ /\ e.type = "left"
           /\ IF Holds(stage[q], e.who)
              THEN /\ stage' = [stage EXCEPT ![q] = NoStage]
                   /\ share' = [share EXCEPT ![q] = Stopped(q)]
              ELSE UNCHANGED <<stage, share>>
           /\ UNCHANGED <<publisher, pushing>>
  /\ UNCHANGED <<conn, chan, now, latest, bounds>>

(* pushStageToRoom. *)
PushDue(p) ==
  /\ pushing[p]
  /\ pushing' = [pushing EXCEPT ![p] = FALSE]
  /\ IF Owns(p) /\ conn[p] = "ready" THEN Publish(p, SetMsg(stage[p]))
                                     ELSE UNCHANGED publisher
  /\ UNCHANGED <<stage, conn, chan, notice, share, now, latest, bounds>>

(* The provider is mounted anew; its transport is still opening. *)
Join(p) ==
  /\ conn[p] = "out"
  /\ conn' = [conn EXCEPT ![p] = "closed"]
  /\ Tell(p, "joined")
  /\ UNCHANGED <<stage, publisher, chan, pushing, share, now, latest, bounds>>

(* Leaving unmounts the provider; what it sent is still on its way. *)
Leave(p) ==
  /\ Present(p)
  /\ Goes("leave")
  /\ conn' = [conn EXCEPT ![p] = "out"]
  /\ stage' = [stage EXCEPT ![p] = NoStage]
  /\ queue' = [queue EXCEPT ![p] = <<>>]
  /\ publishing' = [publishing EXCEPT ![p] = FALSE]
  /\ sending' = [sending EXCEPT ![p] = <<>>]
  /\ retry' = [retry EXCEPT ![p] = FALSE]
  /\ pushing' = [pushing EXCEPT ![p] = FALSE]
  /\ share' = [share EXCEPT ![p] = "off"]
  /\ chan' = [q \in Peer |-> [chan[q] EXCEPT ![p] = <<>>]]
  /\ notice' = [q \in Peer |->
       IF q = p THEN <<>>
       ELSE IF Present(q) THEN Append(notice[q], [who |-> p, type |-> "left"])
       ELSE notice[q]]
  /\ latest' = Disowned(p)
  /\ UNCHANGED <<now, syncs>>

(* Reconnecting: the queue is emptied and the drain forgotten, though its  *)
(* publishData is still awaited.                                           *)
Interrupt(p) ==
  /\ conn[p] = "ready"
  /\ Goes("interrupt")
  /\ conn' = [conn EXCEPT ![p] = "closed"]
  /\ queue' = [queue EXCEPT ![p] = <<>>]
  /\ publishing' = [publishing EXCEPT ![p] = FALSE]
  /\ retry' = [retry EXCEPT ![p] = FALSE]
  /\ UNCHANGED <<stage, sending, chan, notice, pushing, share, now, latest, syncs>>

(* Connected, Reconnected and the transport open again.  What was sent to  *)
(* p meanwhile arrives after a resume and is lost after a restart.         *)
Ready(p) ==
  /\ conn[p] = "closed"
  /\ conn' = [conn EXCEPT ![p] = "ready"]
  /\ chan' \in {chan, [q \in Peer |-> [chan[q] EXCEPT ![p] = <<>>]]}
  /\ LET q == Enqueued(queue[p], Request)
         r == IF Owns(p) THEN Append(q, SetMsg(stage[p])) ELSE q
     IN IF publishing[p]
        THEN queue' = [queue EXCEPT ![p] = r] /\ UNCHANGED <<publishing, sending>>
        ELSE /\ queue' = [queue EXCEPT ![p] = Tail(r)]
             /\ sending' = [sending EXCEPT ![p] = Append(@, Head(r))]
             /\ publishing' = [publishing EXCEPT ![p] = TRUE]
  /\ UNCHANGED <<retry, stage, notice, pushing, share, now, latest, bounds>>

Next ==
  \/ \E p \in Peer :
       \/ \E k \in Kind : Claim(p, k)
       \/ Clear(p) \/ StartShare(p) \/ ShareStarts(p) \/ ShareFails(p) \/ StopShare(p)
       \/ SyncPlayhead(p)
       \/ Sent(p) \/ SendUnavailable(p) \/ SendDropped(p) \/ DrainRetry(p)
       \/ PushDue(p) \/ TrackEnds(p) \/ Notice(p)
       \/ Join(p) \/ Leave(p) \/ Interrupt(p) \/ Ready(p)
  \/ \E p, q \in Peer : Receive(p, q)

Spec == Init /\ [][Next]_vars

-----------------------------------------------------------------------------
(* Properties *)

(* Nothing is under way: transports are open, queues and channels empty,   *)
(* no timer and no screen track is about to change anything.               *)
Quiet == \A p \in Peer :
  /\ conn[p] # "closed"
  /\ queue[p] = <<>> /\ sending[p] = <<>> /\ notice[p] = <<>>
  /\ ~pushing[p] /\ ~retry[p] /\ share[p] \in {"off", "on", "late"}
  /\ \A q \in Peer : chan[p][q] = <<>>

Owners == {p \in Peer : Owns(p)}

(* Two claims made at once are resolved, through interruptions, restarts   *)
(* and departures: when everything has arrived at most one participant     *)
(* takes itself for the owner (claimStage, applyRemoteStage).  Playhead    *)
(* updates and packets dropped by publishData can break it and are left    *)
(* out.                                                                    *)
OneOwner == Quiet /\ syncs = 0 /\ "drop" \notin trouble => Cardinality(Owners) <= 1

(* Without trouble, when everything has arrived, the newest claim stands:  *)
(* who made it owns the stage, and whoever owns a stage is shown by        *)
(* everybody, with what it put there (claimStage, applyRemoteStage, the    *)
(* queue).  A screen that is published anew, with a stamp only the others  *)
(* see, may overtake a newer claim of somebody else and leave the stage    *)
(* to nobody: then no claim is the newest.                                 *)
Agreed ==
  Quiet /\ syncs = 0 /\ trouble = {} =>
    /\ latest # NoPeer => Owns(latest)
    /\ \A p \in Owners : \A q \in Peer : Holds(stage[q], p) /\ stage[q].kind = stage[p].kind

(* A screen that is shared when a stage of another kind comes is shared no *)
(* more once everything has settled, whatever order claims and packets     *)
(* come in (stopLocalScreenShare and the effects of the provider); nothing *)
(* stops one that starts late.                                             *)
ScreenOnStage ==
  Quiet => \A p \in Peer :
    share[p] = "on" => stage[p] = NoStage \/ Shows(p, "screenshare")

(* A packet never waits with an open transport and neither a drain nor a   *)
(* timer to send it, although an interruption forgets a drain that is      *)
(* still running (publishingRef, scheduleDrainRetry, onRoomReady).         *)
NotStuck == \A p \in Peer :
  queue[p] # <<>> /\ conn[p] = "ready" => sending[p] # <<>> \/ retry[p]

-----------------------------------------------------------------------------
(* The inductive invariant behind the properties *)

(* The packets that are still with p, and those that q has not received. *)
Unsent(p) == ToSet(queue[p]) \union ToSet(sending[p])
OnTheWay(p, q) == Unsent(p) \union ToSet(chan[p][q])

Sets(W) == {w \in W : w.type = "set"}

(* A drain is said to run only while a packet is in some drain's hands. *)
DrainHolds == \A p \in Peer : publishing[p] => sending[p] # <<>>

(* Who is out shows nothing, and nobody sends to itself. *)
OutInv == \A p \in Peer :
  (conn[p] = "out" => stage[p] = NoStage) /\ chan[p][p] = <<>>

(* Everybody speaks for itself; syncs are counted. *)
Speaks(p, w) ==
  /\ w.type = "set" => w.stage.owner = p /\ w.stage.at <= now
  /\ w.type = "clear" => w.owner = p
  /\ w.type = "sync" => syncs > 0

PacketInv == \A p, q \in Peer : \A w \in OnTheWay(p, q) : Speaks(p, w)

(* No two owners have one stamp. *)
StampInv ==
  /\ \A p \in Peer : stage[p] # NoStage => stage[p].at <= now
  /\ \A p, q \in Peer : Owns(p) /\ Owns(q) /\ stage[p].at = stage[q].at => p = q

(* p, who owns an older stage than q, will learn of q's: a transport opens *)
(* and then both speak, or a stage or a request is on its way.             *)
Learns(p, q) ==
  \/ conn[p] = "closed" \/ conn[q] = "closed"
  \/ \E w \in Sets(OnTheWay(q, p)) : w.stage.at >= stage[p].at
  \/ Request \in OnTheWay(p, q)

LearnInv ==
  syncs = 0 /\ "drop" \notin trouble =>
    \A p, q \in Peer : Owns(p) /\ Owns(q) /\ stage[p].at < stage[q].at => Learns(p, q)

(* A screen is shared under its own stage, or under none. *)
ShareInv == \A p \in Peer :
  share[p] = "on" => stage[p] = NoStage \/ Shows(p, "screenshare")

(* Without trouble there is one drain at most, and nobody asks. *)
Calm(p) ==
  /\ conn[p] = "ready" /\ ~retry[p] /\ ~pushing[p] /\ notice[p] = <<>>
  /\ Len(sending[p]) <= 1 /\ (sending[p] # <<>> => publishing[p])
  /\ \A q \in Peer : Request \notin OnTheWay(p, q)

CalmInv == trouble = {} => \A p \in Peer : Calm(p)

(* A stage not older than p's is on its way to p. *)
Overtaken(p) ==
  \E r \in Peer \ {p} : \E w \in Sets(OnTheWay(r, p)) : w.stage.at >= stage[p].at

(* What is not older than p's stage is p's own, or on its way to p. *)
HeardInv(p) ==
  /\ \A q \in Peer : stage[q] # NoStage /\ stage[q].owner # p /\ stage[q].at >= stage[p].at =>
       Overtaken(p)
  /\ \A r \in Peer \ {p}, q \in Peer : \A w \in Sets(OnTheWay(r, q)) :
       w.stage.at >= stage[p].at => Overtaken(p)

(* The last packet of p that q has still to receive. *)
Final(p, q) ==
  IF queue[p] # <<>> THEN queue[p][Len(queue[p])]
  ELSE IF sending[p] # <<>> THEN sending[p][Len(sending[p])]
  ELSE chan[p][q][Len(chan[p][q])]

(* q shows the stage of p, or it is the last that q will hear of p. *)
Reaches(p, q) ==
  IF OnTheWay(p, q) = {}
  THEN Holds(stage[q], p) /\ stage[q].kind = stage[p].kind /\ stage[q].at >= stage[p].at
  ELSE LET f == Final(p, q)
       IN /\ f.type = "set" /\ f.stage.kind = stage[p].kind /\ f.stage.at >= stage[p].at
          /\ \A w \in Sets(OnTheWay(p, q)) : w.stage.at <= f.stage.at
          /\ Holds(stage[q], p) => stage[q].at <= f.stage.at

AgreeInv ==
  trouble = {} /\ syncs = 0 =>
    \A p \in Peer : Owns(p) =>
      HeardInv(p) /\ \A q \in Peer \ {p} : Overtaken(p) \/ Reaches(p, q)

StageInv ==
  /\ TypeOK /\ DrainHolds /\ OutInv /\ PacketInv /\ StampInv
  /\ NotStuck /\ LearnInv /\ ShareInv /\ CalmInv /\ AgreeInv

(* Beside it: the newest claim is with its owner, nothing newer anywhere. *)
LatestInv ==
  latest # NoPeer /\ trouble = {} /\ syncs = 0 =>
    /\ Owns(latest)
    /\ \A q \in Peer : stage[q] # NoStage /\ stage[q].owner # latest =>
         stage[q].at < stage[latest].at
    /\ \A r \in Peer \ {latest}, q \in Peer : \A w \in Sets(OnTheWay(r, q)) :
         w.stage.at < stage[latest].at
=============================================================================
