--------------------------- MODULE WhiteboardSync ---------------------------
(***************************************************************************)
(* The shared whiteboard of a meeting: each participant who has it open    *)
(* keeps a Yjs document, and LiveKitYjsProvider (livekitYjsProvider.ts,    *)
(* yjsWire.ts) exchanges updates over the reliable data channel.  A peer   *)
(* asks for what it lacks when it opens the board and when its connection  *)
(* is back; everybody answers; a large message travels as a head and       *)
(* chunks.                                                                 *)
(*                                                                         *)
(* A document is the set of edits it has received: Yjs merges edits in any *)
(* order, so a state vector is the set itself.  A packet that publishData  *)
(* has accepted reaches every connected peer in the order of sending.      *)
(***************************************************************************)
EXTENDS Integers, Sequences, FiniteSets

CONSTANTS
  Peer, Edit,
  Host,       \* who had the board open before anybody else
  Author,     \* who makes an edit
  Big,        \* edits that make a message too large for one packet
  Id,         \* chunk ids
  None,
  Flaky,      \* the peers whose connection may be interrupted
  Timers,     \* requests timed besides the first (three)
  Patient,    \* the last request of an opening board is made with everybody connected
  Trouble,    \* what may go wrong, each once
  MaxTrouble  \* bound on how much of it does

ASSUME WhiteboardAssumption ==
  /\ Author \in [Edit -> Peer] /\ Big \subseteq Edit /\ Flaky \subseteq Peer /\ Host \in Peer
  /\ None \notin Id /\ Patient \in BOOLEAN /\ Timers \in Nat /\ MaxTrouble \in Nat
  /\ Trouble \subseteq {"interrupt", "fail", "close"}

VARIABLES
  open,        \* the provider exists
  linked,      \* the room is connected
  up,          \* and its reliable data channel is open (isRoomReady)
  board,       \* the document
  pending,     \* pendingDocUpdates, flushed after a frame
  queue,       \* publishQueue
  publishing,
  sending,     \* the drains that run: the packet each is publishing
  retry,       \* drainRetryTimer
  synced,
  asks,        \* the requests still timed (bootstrapSync)
  wire,        \* packets on their way from one peer to another
  heads,       \* chunkBuffers: the parts received, by id
  outage,      \* history: whether it was interrupted and, if so, has asked since
  unserved,    \* history: the channel opened late on packets that wait, and no
               \* drain has begun since
  trouble

outbound == <<queue, publishing, sending, unserved>>
vars == <<open, linked, up, board, pending, outbound, retry, synced, asks, wire, heads, outage,
          trouble>>

Chunks == 2

(* No set of parts is taken for a head that is not there. *)
ASSUME NoParts == \A s \in SUBSET (1..Chunks) : s # None

Message == [type : {"step1", "step2", "update"}, edits : SUBSET Edit]

(* A whole message (without an id), the head of one (part 0) or a chunk. *)
Packet == [part : 0..Chunks, msg : Message, id : Id \union {None}]
Whole(w) == w.id = None
IsHead(w) == w.id # None /\ w.part = 0
IsChunk(w) == w.id # None /\ w.part # 0

Outages == {"none", "unasked", "asked"}

TypeOK ==
  /\ open \in [Peer -> BOOLEAN] /\ linked \in [Peer -> BOOLEAN] /\ up \in [Peer -> BOOLEAN]
  /\ board \in [Peer -> SUBSET Edit] /\ pending \in [Peer -> SUBSET Edit]
  /\ queue \in [Peer -> Seq(Packet)] /\ publishing \in [Peer -> BOOLEAN]
  /\ sending \in [Peer -> Seq(Packet)]
  /\ retry \in [Peer -> BOOLEAN] /\ synced \in [Peer -> BOOLEAN] /\ asks \in [Peer -> 0..Timers]
  /\ wire \in [Peer \X Peer -> Seq(Packet)]
  /\ heads \in [Peer -> [Id -> {None} \union SUBSET (1..Chunks)]]
  /\ outage \in [Peer -> Outages] /\ unserved \in [Peer -> BOOLEAN]
  /\ trouble \subseteq Trouble

(* The host is alone: its requests have gone unanswered. *)
Init ==
  /\ open = [p \in Peer |-> p = Host]
  /\ linked = [p \in Peer |-> TRUE] /\ up = [p \in Peer |-> TRUE]
  /\ board = [p \in Peer |-> {}] /\ pending = [p \in Peer |-> {}]
  /\ queue = [p \in Peer |-> <<>>] /\ publishing = [p \in Peer |-> FALSE]
  /\ sending = [p \in Peer |-> <<>>]
  /\ retry = [p \in Peer |-> FALSE] /\ synced = [p \in Peer |-> FALSE]
  /\ asks = [p \in Peer |-> 0]
  /\ wire = [c \in Peer \X Peer |-> <<>>]
  /\ heads = [p \in Peer |-> [i \in Id |-> None]]
  /\ outage = [p \in Peer |-> "none"] /\ unserved = [p \in Peer |-> FALSE]
  /\ trouble = {}

Happens(h) ==
  /\ h \in Trouble \ trouble /\ Cardinality(trouble) < MaxTrouble
  /\ trouble' = trouble \union {h}

-----------------------------------------------------------------------------
(* Publishing *)

(* drainPublishQueue, up to its first publishData: nothing while a drain   *)
(* runs or the room is not ready (r).                                      *)
DrainWith(p, q, r) ==
  IF q # <<>> /\ ~publishing[p] /\ r
  THEN /\ publishing' = [publishing EXCEPT ![p] = TRUE]
       /\ sending' = [sending EXCEPT ![p] = Append(@, Head(q))]
       /\ queue' = [queue EXCEPT ![p] = Tail(q)]
       /\ unserved' = [unserved EXCEPT ![p] = FALSE]
  ELSE /\ queue' = [queue EXCEPT ![p] = q]
       /\ UNCHANGED <<publishing, sending, unserved>>

(* buildYjsWirePackets *)
Raw(m) == [part |-> 0, msg |-> m, id |-> None]
Parts(m, i) ==
  <<[part |-> 0, msg |-> m, id |-> i]>> \o
  [n \in 1..Chunks |-> [part |-> n, msg |-> m, id |-> i]]

Large(m) == m.type # "step1" /\ m.edits \intersect Big # {}

(* A chunk id is never one that is still about. *)
Used(i) ==
  \/ \E p \in Peer : \/ heads[p][i] # None
                     \/ \E n \in DOMAIN queue[p] : queue[p][n].id = i
                     \/ \E n \in DOMAIN sending[p] : sending[p][n].id = i
  \/ \E c \in Peer \X Peer : \E n \in DOMAIN wire[c] : wire[c][n].id = i

NewId(i) == ~Used(i) /\ \A j \in Id : ~Used(j) => i <= j

(* enqueuePackets *)
Say(p, m, r) ==
  IF Large(m)
  THEN \E i \in Id : NewId(i) /\ DrainWith(p, queue[p] \o Parts(m, i), r)
  ELSE DrainWith(p, Append(queue[p], Raw(m)), r)

Asked(p) == [outage EXCEPT ![p] = IF @ = "none" THEN "none" ELSE "asked"]

(* requestSync, of a peer that holds the edits b: nothing unless the room  *)
(* is ready (r).                                                           *)
RequestSync(p, b, r) ==
  IF r THEN Say(p, [type |-> "step1", edits |-> b], r) /\ outage' = Asked(p)
       ELSE UNCHANGED <<outbound, outage>>

Without(s, i) == SubSeq(s, 1, i - 1) \o SubSeq(s, i + 1, Len(s))

(* The packet is out, to everybody who is ready and perhaps to who is only *)
(* connected.  The drain goes on with the next one or ends.  (The pause    *)
(* between the two is part of publishing the next.)                        *)
Sent(p, i) ==
  /\ up[p]
  /\ \E R \in SUBSET Peer :
       /\ \A q \in Peer : (up[q] => q \in R) /\ (q \in R => linked[q])
       /\ wire' = [c \in Peer \X Peer |->
            IF c[1] = p /\ c[2] # p /\ c[2] \in R THEN Append(wire[c], sending[p][i])
            ELSE wire[c]]
  /\ IF queue[p] # <<>>
     THEN /\ sending' = [sending EXCEPT ![p][i] = Head(queue[p])]
          /\ queue' = [queue EXCEPT ![p] = Tail(@)]
          /\ UNCHANGED publishing
     ELSE /\ sending' = [sending EXCEPT ![p] = Without(@, i)]
          /\ publishing' = [publishing EXCEPT ![p] = FALSE]
          /\ UNCHANGED queue
  /\ UNCHANGED <<open, linked, up, board, pending, retry, synced, asks, heads, outage, unserved,
                 trouble>>

(* Mutant: no drain is scheduled after one that failed. *)
RetryForgotten(p) == retry[p]

(* The end of a drain that left packets behind. *)
RetryDue(p) == retry[p] \/ up[p]

(* Mutant: the packet that could not be published is dropped. *)
PacketDropped(p, i) == queue[p]

(* It is kept for the retry. *)
PacketKept(p, i) == <<sending[p][i]>> \o queue[p]

(* publishData fails, or goes down with the connection: the drain ends and *)
(* another is scheduled if the room is ready.                              *)
SendFails(p, i) ==
  /\ IF up[p] THEN Happens("fail") ELSE UNCHANGED trouble
  /\ queue' = [queue EXCEPT ![p] = PacketKept(p, i)]
  /\ sending' = [sending EXCEPT ![p] = Without(@, i)]
  /\ publishing' = [publishing EXCEPT ![p] = FALSE]
  /\ retry' = [retry EXCEPT ![p] = RetryDue(p)]
  /\ UNCHANGED <<open, linked, up, board, pending, synced, asks, wire, heads, outage, unserved>>

(* The retry timer. *)
Retry(p) ==
  /\ retry[p]
  /\ retry' = [retry EXCEPT ![p] = FALSE]
  /\ DrainWith(p, queue[p], up[p])
  /\ UNCHANGED <<open, linked, up, board, pending, synced, asks, wire, heads, outage, trouble>>

-----------------------------------------------------------------------------
(* The board *)

(* A provider for a new document: bootstrapSync asks the others. *)
Open(p) ==
  /\ ~open[p]
  /\ open' = [open EXCEPT ![p] = TRUE]
  /\ asks' = [asks EXCEPT ![p] = Timers]
  /\ RequestSync(p, {}, up[p])
  /\ UNCHANGED <<linked, up, board, pending, retry, synced, wire, heads, trouble>>

Drew(e) == \E p \in Peer : e \in board[p]

(* A local change of the document: onDocUpdate. *)
Draw(p, e) ==
  /\ open[p] /\ Author[e] = p /\ ~Drew(e)
  /\ board' = [board EXCEPT ![p] = @ \union {e}]
  /\ pending' = [pending EXCEPT ![p] = @ \union {e}]
  /\ UNCHANGED <<open, linked, up, outbound, retry, synced, asks, wire, heads, outage, trouble>>

(* flushOutbound *)
Flush(p) ==
  /\ pending[p] # {}
  /\ pending' = [pending EXCEPT ![p] = {}]
  /\ Say(p, [type |-> "update", edits |-> pending[p]], up[p])
  /\ UNCHANGED <<open, linked, up, board, retry, synced, asks, wire, heads, outage, trouble>>

Asking(p) ==
  LET Asks(s) == \E n \in DOMAIN s : s[n].msg.type = "step1" IN
  Asks(queue[p]) \/ Asks(sending[p]) \/ \E q \in Peer : Asks(wire[<<p, q>>])

(* The timers of bootstrapSync: ask again unless somebody has answered.    *)
(* They are far enough apart for a request to be out of the way.           *)
AskAgain(p) ==
  /\ asks[p] > 0 /\ ~Asking(p)
  /\ Patient /\ asks[p] = 1 => \A q \in Peer : up[q]
  /\ asks' = [asks EXCEPT ![p] = @ - 1]
  /\ RequestSync(p, board[p], up[p] /\ ~synced[p])
  /\ UNCHANGED <<open, linked, up, board, pending, retry, synced, wire, heads, trouble>>

(* destroy, and the document with it. *)
Close(p) ==
  /\ open[p] /\ Happens("close")
  /\ open' = [open EXCEPT ![p] = FALSE]
  /\ board' = [board EXCEPT ![p] = {}] /\ pending' = [pending EXCEPT ![p] = {}]
  /\ queue' = [queue EXCEPT ![p] = <<>>] /\ sending' = [sending EXCEPT ![p] = <<>>]
  /\ publishing' = [publishing EXCEPT ![p] = FALSE] /\ retry' = [retry EXCEPT ![p] = FALSE]
  /\ synced' = [synced EXCEPT ![p] = FALSE] /\ asks' = [asks EXCEPT ![p] = 0]
  /\ heads' = [heads EXCEPT ![p] = [i \in Id |-> None]]
  /\ outage' = [outage EXCEPT ![p] = "none"] /\ unserved' = [unserved EXCEPT ![p] = FALSE]
  /\ UNCHANGED <<linked, up, wire>>

(* onRoomReconnecting and onRoomDisconnected: a running drain is forgotten.*)
(* What was on its way to the peer is lost.                                *)
Interrupt(p) ==
  /\ p \in Flaky /\ linked[p] /\ Happens("interrupt")
  /\ linked' = [linked EXCEPT ![p] = FALSE] /\ up' = [up EXCEPT ![p] = FALSE]
  /\ publishing' = [publishing EXCEPT ![p] = FALSE] /\ retry' = [retry EXCEPT ![p] = FALSE]
  /\ wire' = [c \in Peer \X Peer |-> IF c[2] = p THEN <<>> ELSE wire[c]]
  /\ outage' = [outage EXCEPT ![p] = IF open[p] THEN "unasked" ELSE "none"]
  /\ unserved' = [unserved EXCEPT ![p] = FALSE]
  /\ UNCHANGED <<open, board, pending, queue, sending, synced, asks, heads>>

(* onRoomConnected, with the data channel open or still closed: it asks    *)
(* and drains at once or not at all.                                       *)
Reconnect(p) ==
  /\ ~linked[p]
  /\ linked' = [linked EXCEPT ![p] = TRUE]
  /\ \E ready \in BOOLEAN :
       /\ up' = [up EXCEPT ![p] = ready]
       /\ RequestSync(p, board[p], open[p] /\ ready)
  /\ UNCHANGED <<open, board, pending, retry, synced, asks, wire, heads, trouble>>

(* The data channel opens after that, which the provider does not hear of. *)
ChannelOpens(p) ==
  /\ linked[p] /\ ~up[p]
  /\ up' = [up EXCEPT ![p] = TRUE]
  /\ unserved' = [unserved EXCEPT ![p] = queue[p] # <<>>]
  /\ UNCHANGED <<open, linked, board, pending, queue, publishing, sending, retry, synced, asks,
                 wire, heads, outage, trouble>>

-----------------------------------------------------------------------------
(* Receiving *)

(* handleYjsMessage: a request is answered, to everybody, with the edits   *)
(* it did not name; others are merged.                                     *)
Handle(q, m) ==
  IF m.type = "step1"
  THEN /\ Say(q, [type |-> "step2", edits |-> board[q] \ m.edits], up[q])
       /\ UNCHANGED <<board, synced>>
  ELSE /\ board' = [board EXCEPT ![q] = @ \union m.edits]
       /\ synced' = [synced EXCEPT ![q] = @ \/ m.type = "step2"]
       /\ UNCHANGED outbound

(* ingestYjsChunkMeta: a head that is known keeps its parts. *)
HeadIn(q, i) == [heads EXCEPT ![q][i] = IF @ = None THEN {} ELSE @]

(* Mutant: the chunks are counted from one. *)
ChunkCountedFromOne(q, w) == heads[q][w.id] \union {w.part + 1}

(* applyYjsChunkPart *)
ChunkIn(q, w) == heads[q][w.id] \union {w.part}

Ignored == UNCHANGED <<board, synced, outbound, heads>>

(* onDataReceived *)
Receive(p, q) ==
  LET w == Head(wire[<<p, q>>]) IN
  /\ wire[<<p, q>>] # <<>>
  /\ wire' = [wire EXCEPT ![<<p, q>>] = Tail(@)]
  /\ \/ ~open[q] /\ Ignored
     \/ open[q] /\ Whole(w) /\ Handle(q, w.msg) /\ UNCHANGED heads
     \/ open[q] /\ IsHead(w) /\ heads' = HeadIn(q, w.id)
        /\ UNCHANGED <<board, synced, outbound>>
     \/ open[q] /\ IsChunk(w) /\ heads[q][w.id] = None /\ Ignored
     \/ /\ open[q] /\ IsChunk(w) /\ heads[q][w.id] # None
        /\ IF ChunkIn(q, w) = 1..Chunks
           THEN heads' = [heads EXCEPT ![q][w.id] = None] /\ Handle(q, w.msg)
           ELSE /\ heads' = [heads EXCEPT ![q][w.id] = ChunkIn(q, w)]
                /\ UNCHANGED <<board, synced, outbound>>
  /\ UNCHANGED <<open, linked, up, pending, retry, asks, outage, trouble>>

Next ==
  \/ \E p \in Peer :
       \/ \E i \in DOMAIN sending[p] : Sent(p, i) \/ SendFails(p, i)
       \/ Retry(p) \/ Open(p) \/ Flush(p) \/ AskAgain(p) \/ Close(p)
       \/ Interrupt(p) \/ Reconnect(p) \/ ChannelOpens(p)
       \/ \E e \in Edit : Draw(p, e)
       \/ \E q \in Peer : Receive(p, q)

Spec == Init /\ [][Next]_vars

-----------------------------------------------------------------------------
(* Properties *)

Settled ==
  /\ \A p \in Peer : open[p] => up[p] /\ pending[p] = {} /\ queue[p] = <<>> /\ sending[p] = <<>>
                               /\ (synced[p] \/ asks[p] = 0)
  /\ \A c \in Peer \X Peer : wire[c] = <<>>

(* The edits of p would have reached q, had p not been interrupted in the  *)
(* middle of a message: two drains mixed its chunks, q has kept a part of  *)
(* a message, and p has asked for what it lacks, but nobody asks p.        *)
Torn(p, q) == outage[p] = "asked" /\ \E i \in Id : heads[q][i] # None

(* Once everything is published, delivered and answered, everybody who has *)
(* the board open sees the same drawing, whatever was sent twice, failed   *)
(* to be sent or came in chunks, and through an interruption of one of two *)
(* people (livekitYjsProvider.ts).  Left out are who comes back before the *)
(* data channel is open, and so never asks; a message that two drains have *)
(* torn; and a third person (README.md).                                   *)
Converged ==
  Settled /\ (\A p \in Peer : outage[p] # "unasked") =>
    \A p, q \in Peer : open[p] /\ open[q] => board[p] \subseteq board[q] \/ Torn(p, q)

(* Packets that wait are being drained or will be, as long as the room is  *)
(* ready: a drain that is said to run has a packet in its hands, whichever *)
(* drains were forgotten in an interruption (publishing, drainRetryTimer). *)
(* Left out are packets that the channel found waiting when it opened late *)
(* after a reconnection: they wait for somebody to say something more.     *)
NotStuck == \A p \in Peer :
  up[p] /\ queue[p] # <<>> =>
    (publishing[p] /\ sending[p] # <<>>) \/ retry[p] \/ unserved[p]

-----------------------------------------------------------------------------
(* The inductive invariant behind NotStuck *)

(* The flag of a running drain is set only while a packet is being sent. *)
DrainHolds == \A p \in Peer : publishing[p] => sending[p] # <<>>

(* A peer without a board has nothing to publish and no timer. *)
ClosedIdle == \A p \in Peer :
  ~open[p] => /\ pending[p] = {} /\ asks[p] = 0
              /\ queue[p] = <<>> /\ sending[p] = <<>>
              /\ ~publishing[p] /\ ~retry[p]

BoardInv == TypeOK /\ DrainHolds /\ ClosedIdle /\ NotStuck

-----------------------------------------------------------------------------
(* The inductive invariant behind Converged, while nothing goes wrong but  *)
(* publications that fail                                                  *)

Undisturbed == trouble \subseteq {"fail"}

(* What is on its way from one peer to another, in the order it was said.  *)
Pair == {c \in Peer \X Peer : c[1] # c[2]}
Lines == [c \in Pair |-> wire[c] \o (sending[c[1]] \o queue[c[1]])]

(* Whoever receives the packet w whole merges the edit e. *)
Tells(w, e) == w.msg.type # "step1" /\ e \in w.msg.edits

(* The line l has the edit e in a whole message, *)
InWhole(l, e) == \E n \in DOMAIN l : Whole(l[n]) /\ Tells(l[n], e)

(* part k of a message with e after place n, *)
PartAfter(l, n, i, k, e) ==
  \E x \in DOMAIN l : x > n /\ l[x].id = i /\ l[x].part = k /\ Tells(l[x], e)

(* a message with e from its head on, *)
InHead(l, i, e) ==
  \E n \in DOMAIN l :
    l[n].id = i /\ l[n].part = 0 /\ \A k \in 1..Chunks : PartAfter(l, n, i, k, e)

(* or all the parts of one that the receiver, who has the head, lacks.     *)
InRest(l, h, i, e) == h[i] # None /\ \A k \in (1..Chunks) \ h[i] : PartAfter(l, 0, i, k, e)

Carried(l, h, e) ==
  InWhole(l, e) \/ \E i \in Id : InHead(l, i, e) \/ InRest(l, h, i, e)

(* The line l has a request of somebody who lacks e. *)
Wanted(l, e) == \E n \in DOMAIN l : Whole(l[n]) /\ l[n].msg.type = "step1" /\ e \notin l[n].msg.edits

(* Everybody is connected and has one drain at most. *)
DrainInv == \A p \in Peer :
  /\ linked[p] /\ up[p] /\ wire[<<p, p>>] = <<>>
  /\ Len(sending[p]) \in 0..1 /\ (publishing[p] <=> Len(sending[p]) = 1)

(* What is known anywhere its author knows, what is said its sender knows. *)
SourceInv ==
  /\ \A p \in Peer : (~open[p] => board[p] = {}) /\ pending[p] \subseteq board[p]
  /\ \A p \in Peer : \A e \in board[p] : e \in board[Author[e]]
  /\ \A c \in Pair : \A n \in DOMAIN Lines[c] : Lines[c][n].msg.edits \subseteq board[c[1]]

(* A chunk id is of one message, and a message that is complete has none.  *)
IdInv ==
  /\ \A c, d \in Pair : \A n \in DOMAIN Lines[c], x \in DOMAIN Lines[d] :
       LET w == Lines[c][n]
           v == Lines[d][x] IN
       w.id = v.id /\ w.id # None => c[1] = d[1] /\ w.msg = v.msg
  /\ \A c \in Pair : \A n \in DOMAIN Lines[c] :
       Lines[c][n].id # None => Lines[c][n].msg.type # "step1"
  /\ \A q \in Peer, i \in Id : heads[q][i] # 1..Chunks

(* Whoever lacks an edit will be told of it, or has asked its author.      *)
ToldInv == \A c \in Pair : \A e \in Edit :
  Author[e] = c[1] /\ open[c[2]] /\ e \in board[c[1]] /\ e \notin board[c[2]] =>
    e \in pending[c[1]] \/ Carried(Lines[c], heads[c[2]], e) \/ Wanted(Lines[<<c[2], c[1]>>], e)

CalmInv == Undisturbed => DrainInv /\ SourceInv /\ IdInv /\ ToldInv
=============================================================================
