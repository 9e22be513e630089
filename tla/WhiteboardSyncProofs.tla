------------------------- MODULE WhiteboardSyncProofs -------------------------
(***************************************************************************)
(* Proofs about WhiteboardSync, for any peers, edits, authors and bounds.  *)
(*                                                                         *)
(* First the types, and that packets that wait with the room ready are     *)
(* being sent or will be, but for those a data channel that opened late    *)
(* found waiting.  An interruption resets the flag of a running            *)
(* drain, and that drain may later reset the flag of its successor, so the *)
(* flag says little by itself; the argument is carried by its converse (a  *)
(* flag that is set comes with a packet in hand) and by a closed board     *)
(* having nothing to publish, which a reconnection without a board relies  *)
(* on.                                                                     *)
(*                                                                         *)
(* Then that boards converge while nothing goes wrong but publications.    *)
(* What a peer has said reaches another in a line: the wire, the packet in *)
(* its drain's hands and its queue.  A line only grows at its end and is   *)
(* read at its head, whatever drains fail and retry, so the argument is    *)
(* about lines and boards alone: whoever lacks an edit finds it in the     *)
(* line from its author, whole or with the parts still missing, or has a   *)
(* request without it in the line to its author.                           *)
(***************************************************************************)
EXTENDS WhiteboardSync, TLAPS

-----------------------------------------------------------------------------
(* Parts of the type invariant *)

OutType ==
  /\ queue \in [Peer -> Seq(Packet)]
  /\ publishing \in [Peer -> BOOLEAN]
  /\ sending \in [Peer -> Seq(Packet)]
  /\ unserved \in [Peer -> BOOLEAN]

FlagType ==
  /\ open \in [Peer -> BOOLEAN]
  /\ linked \in [Peer -> BOOLEAN]
  /\ outage \in [Peer -> Outages]
  /\ up \in [Peer -> BOOLEAN]
  /\ retry \in [Peer -> BOOLEAN]
  /\ synced \in [Peer -> BOOLEAN]
  /\ asks \in [Peer -> 0..Timers]
  /\ trouble \subseteq Trouble

BoardType ==
  /\ board \in [Peer -> SUBSET Edit]
  /\ pending \in [Peer -> SUBSET Edit]
  /\ heads \in [Peer -> [Id -> {None} \union SUBSET (1..Chunks)]]

WireType == wire \in [Peer \X Peer -> Seq(Packet)]

(* The type invariant is its parts. *)
LEMMA TypeParts == TypeOK <=> OutType /\ FlagType /\ BoardType /\ WireType
BY DEF TypeOK, OutType, FlagType, BoardType, WireType

(* After a step as well. *)
LEMMA NextTypeParts == OutType' /\ FlagType' /\ BoardType' /\ WireType' => TypeOK'
BY DEF TypeOK, OutType, FlagType, BoardType, WireType

(* A message goes into one packet, or into a head and its chunks. *)
LEMMA PacketTypes ==
  ASSUME NEW m \in Message
  PROVE  /\ Raw(m) \in Packet
         /\ \A i \in Id : Parts(m, i) \in Seq(Packet)
<1>1. Raw(m) \in Packet
  BY DEF Raw, Packet, Chunks
<1>2. ASSUME NEW i \in Id PROVE Parts(m, i) \in Seq(Packet)
  <2> DEFINE head == [part |-> 0, msg |-> m, id |-> i]
             chunk == [n \in 1..Chunks |-> [part |-> n, msg |-> m, id |-> i]]
  <2>1. head \in Packet
    BY DEF Packet, Chunks
  <2>2. \A n \in 1..Chunks : [part |-> n, msg |-> m, id |-> i] \in Packet
    BY DEF Packet, Chunks
  <2>3. chunk \in Seq(Packet)
    BY <2>2 DEF Chunks
  <2>4. Parts(m, i) = <<head>> \o chunk
    BY DEF Parts
  <2> HIDE DEF head, chunk
  <2>5. QED
    BY <2>1, <2>3, <2>4
<1>3. QED
  BY <1>1, <1>2

(* A sequence without one of its elements is one of the same things. *)
LEMMA WithoutType ==
  ASSUME NEW s \in Seq(Packet), NEW i \in DOMAIN s
  PROVE  Without(s, i) \in Seq(Packet)
<1>1. SubSeq(s, 1, i - 1) \in Seq(Packet) /\ SubSeq(s, i + 1, Len(s)) \in Seq(Packet)
  OBVIOUS
<1>2. QED
  BY <1>1 DEF Without

(* A sequence with an element more is one of the same things, not empty. *)
LEMMA AppendType ==
  ASSUME NEW s \in Seq(Packet), NEW w \in Packet
  PROVE  Append(s, w) \in Seq(Packet) /\ Append(s, w) # <<>>
<1>1. Append(s, w) \in Seq(Packet) /\ Len(Append(s, w)) = Len(s) + 1
  OBVIOUS
<1>2. Len(s) \in Nat /\ Len(<<>>) = 0
  OBVIOUS
<1>3. QED
  BY <1>1, <1>2

-----------------------------------------------------------------------------
(* Drains *)

(* Whoever p is, the others' queues and drains are left alone. *)
OthersSame(p) ==
  \A x \in Peer \ {p} :
    /\ queue'[x] = queue[x] /\ publishing'[x] = publishing[x]
    /\ sending'[x] = sending[x] /\ unserved'[x] = unserved[x]

(* What a step of p leaves behind. *)
Drains(p) == OutType' /\ DrainHolds' /\ OthersSame(p)

(* A peer that waits with the room ready is served. *)
Served(p, ready) == ready /\ queue'[p] # <<>> => publishing'[p] /\ sending'[p] # <<>>

(* A drain that is started takes a packet; one that runs has one. *)
LEMMA DrainWithDrains ==
  ASSUME OutType, DrainHolds, NEW p \in Peer, NEW q \in Seq(Packet), NEW r \in BOOLEAN,
         DrainWith(p, q, r)
  PROVE  Drains(p) /\ Served(p, r)
<1> USE DEF OutType, OthersSame, Drains, Served
<1>1. CASE q # <<>> /\ ~publishing[p] /\ r
  <2>1. Head(q) \in Packet /\ Tail(q) \in Seq(Packet)
    BY <1>1
  <2>2. Append(sending[p], Head(q)) \in Seq(Packet) /\ Append(sending[p], Head(q)) # <<>>
    <3>1. sending[p] \in Seq(Packet)
      OBVIOUS
    <3>2. QED
      BY <2>1, <3>1, AppendType
  <2>3. /\ publishing' = [publishing EXCEPT ![p] = TRUE]
        /\ sending' = [sending EXCEPT ![p] = Append(sending[p], Head(q))]
        /\ queue' = [queue EXCEPT ![p] = Tail(q)]
        /\ unserved' = [unserved EXCEPT ![p] = FALSE]
    BY <1>1 DEF DrainWith
  <2>4. OutType' /\ OthersSame(p) /\ Served(p, r)
    BY <2>1, <2>2, <2>3
  <2>5. DrainHolds'
    BY <2>2, <2>3 DEF DrainHolds
  <2>6. QED
    BY <2>4, <2>5
<1>2. CASE ~(q # <<>> /\ ~publishing[p] /\ r)
  <2>1. /\ queue' = [queue EXCEPT ![p] = q] /\ publishing' = publishing /\ sending' = sending
        /\ unserved' = unserved
    BY <1>2 DEF DrainWith
  <2>2. OutType' /\ OthersSame(p) /\ DrainHolds'
    BY <2>1 DEF DrainHolds
  <2>3. Served(p, r)
    BY <1>2, <2>1 DEF DrainHolds
  <2>4. QED
    BY <2>2, <2>3
<1>3. QED
  BY <1>1, <1>2

(* So does saying something, in one packet or in several. *)
LEMMA SayDrains ==
  ASSUME OutType, DrainHolds, NEW p \in Peer, NEW m \in Message, NEW r \in BOOLEAN,
         Say(p, m, r)
  PROVE  Drains(p) /\ Served(p, r)
<1>1. CASE Large(m)
  <2>1. PICK i \in Id : DrainWith(p, queue[p] \o Parts(m, i), r)
    BY <1>1 DEF Say
  <2>2. queue[p] \o Parts(m, i) \in Seq(Packet)
    BY PacketTypes DEF OutType
  <2>3. QED
    BY <2>1, <2>2, DrainWithDrains
<1>2. CASE ~Large(m)
  <2>1. DrainWith(p, Append(queue[p], Raw(m)), r)
    BY <1>2 DEF Say
  <2>2. Append(queue[p], Raw(m)) \in Seq(Packet)
    BY PacketTypes DEF OutType
  <2>3. QED
    BY <2>1, <2>2, DrainWithDrains
<1>3. QED
  BY <1>1, <1>2

(* What becomes of the record of interruptions. *)
LEMMA OutageType ==
  ASSUME outage \in [Peer -> Outages], NEW p \in Peer
  PROVE  /\ Asked(p) \in [Peer -> Outages]
         /\ [outage EXCEPT ![p] = "none"] \in [Peer -> Outages]
         /\ [outage EXCEPT ![p] = IF open[p] THEN "unasked" ELSE "none"] \in [Peer -> Outages]
  BY DEF Asked, Outages

(* A request is made only when the room is ready. *)
LEMMA RequestDrains ==
  ASSUME OutType, DrainHolds, NEW p \in Peer, NEW b \in SUBSET Edit, NEW r \in BOOLEAN,
         RequestSync(p, b, r)
  PROVE  /\ Drains(p)
         /\ r => Served(p, TRUE)
         /\ ~r => UNCHANGED outbound
         /\ outage' \in {outage, Asked(p)}
<1>1. CASE r
  <2>1. [type |-> "step1", edits |-> b] \in Message
    BY DEF Message
  <2>2. Say(p, [type |-> "step1", edits |-> b], r) /\ outage' = Asked(p)
    BY <1>1 DEF RequestSync
  <2>3. QED
    BY <1>1, <2>1, <2>2, SayDrains
<1>2. CASE ~r
  <2>1. UNCHANGED outbound /\ outage' = outage
    BY <1>2 DEF RequestSync
  <2>2. QED
    BY <1>2, <2>1 DEF outbound, Drains, OutType, DrainHolds, OthersSame
<1>3. QED
  BY <1>1, <1>2

(* A step of p that serves p and leaves the rest alone keeps the           *)
(* invariant.                                                              *)
LEMMA ServedKeeps ==
  ASSUME BoardInv, NEW p \in Peer, Drains(p), FlagType', BoardType', WireType',
         \/ Served(p, up'[p]) \/ retry'[p] \/ unserved'[p]
         \/ (up'[p] => up[p]) /\ retry' = retry /\ UNCHANGED outbound,
         open'[p],
         \A x \in Peer \ {p} :
           /\ open'[x] = open[x] /\ up'[x] = up[x]
           /\ pending'[x] = pending[x] /\ retry'[x] = retry[x] /\ asks'[x] = asks[x]
  PROVE  BoardInv'
<1>1. TypeOK'
  BY NextTypeParts DEF Drains
<1>2. DrainHolds'
  BY DEF Drains
<1>3. ClosedIdle'
  BY DEF Drains, OthersSame, ClosedIdle, BoardInv
<1>4. NotStuck'
  <2>1. ASSUME NEW x \in Peer, x # p, up'[x], queue'[x] # <<>>
        PROVE  (publishing'[x] /\ sending'[x] # <<>>) \/ retry'[x] \/ unserved'[x]
    BY <2>1 DEF Drains, OthersSame, NotStuck, BoardInv
  <2>2. ASSUME up'[p], queue'[p] # <<>>
        PROVE  (publishing'[p] /\ sending'[p] # <<>>) \/ retry'[p] \/ unserved'[p]
    BY <2>2 DEF Served, outbound, NotStuck, BoardInv
  <2>3. QED
    BY <2>1, <2>2 DEF NotStuck
<1>5. QED
  BY <1>1, <1>2, <1>3, <1>4 DEF BoardInv

-----------------------------------------------------------------------------
(* The actions *)

(* The end of a publishData, and of the drain if nothing is left. *)
LEMMA SentInv ==
  ASSUME BoardInv, NEW p \in Peer, NEW i \in DOMAIN sending[p], Sent(p, i)
  PROVE  BoardInv'
<1> USE DEF BoardInv
<1>1. OutType /\ FlagType /\ BoardType /\ WireType
  BY TypeParts
<1>2. sending[p] \in Seq(Packet) /\ queue[p] \in Seq(Packet) /\ sending[p] # <<>>
  BY <1>1 DEF OutType
<1>3. open[p] /\ open' = open /\ up' = up /\ pending' = pending /\ retry' = retry /\ asks' = asks
  BY <1>2 DEF ClosedIdle, Sent
<1>4. sending[p][i] \in Packet
  BY <1>2
<1>5. WireType'
  <2>1. PICK R \in SUBSET Peer :
          wire' = [c \in Peer \X Peer |->
            IF c[1] = p /\ c[2] # p /\ c[2] \in R THEN Append(wire[c], sending[p][i]) ELSE wire[c]]
    BY DEF Sent
  <2>2. QED
    BY <1>1, <1>4, <2>1 DEF WireType
<1>6. FlagType' /\ BoardType'
  BY <1>1, <1>3 DEF Sent, FlagType, BoardType
<1>7. CASE queue[p] # <<>>
  <2> DEFINE s == [sending[p] EXCEPT ![i] = Head(queue[p])]
  <2>1. Head(queue[p]) \in Packet /\ Tail(queue[p]) \in Seq(Packet)
    BY <1>2, <1>7
  <2>2. s \in Seq(Packet) /\ s # <<>>
    BY <1>2, <2>1
  <2>3. /\ sending' = [sending EXCEPT ![p] = s]
        /\ queue' = [queue EXCEPT ![p] = Tail(queue[p])]
        /\ publishing' = publishing /\ unserved' = unserved
    BY <1>7 DEF Sent
  <2> HIDE DEF s
  <2>4. Drains(p)
    BY <1>1, <2>1, <2>2, <2>3 DEF Drains, OutType, OthersSame, DrainHolds
  <2>5. Served(p, up'[p]) \/ retry'[p] \/ unserved'[p]
    BY <1>1, <1>3, <1>7, <2>2, <2>3 DEF NotStuck, Served, OutType
  <2>6. QED
    BY <1>3, <1>5, <1>6, <2>4, <2>5, ServedKeeps
<1>8. CASE queue[p] = <<>>
  <2>1. Without(sending[p], i) \in Seq(Packet)
    BY <1>2, WithoutType
  <2>2. /\ sending' = [sending EXCEPT ![p] = Without(sending[p], i)]
        /\ queue' = queue
        /\ publishing' = [publishing EXCEPT ![p] = FALSE] /\ unserved' = unserved
    BY <1>8 DEF Sent
  <2>3. Drains(p)
    BY <1>1, <2>1, <2>2 DEF Drains, OutType, OthersSame, DrainHolds
  <2>4. Served(p, up'[p])
    BY <1>8, <2>2 DEF Served
  <2>5. QED
    BY <1>3, <1>5, <1>6, <2>3, <2>4, ServedKeeps
<1>9. QED
  BY <1>7, <1>8

(* A publishData that fails: its packet goes back, its drain ends. *)
LEMMA SendFailsInv ==
  ASSUME BoardInv, NEW p \in Peer, NEW i \in DOMAIN sending[p], SendFails(p, i)
  PROVE  BoardInv'
<1> USE DEF BoardInv
<1>1. OutType /\ FlagType /\ BoardType /\ WireType
  BY TypeParts
<1>2. sending[p] \in Seq(Packet) /\ queue[p] \in Seq(Packet) /\ sending[p] # <<>>
  BY <1>1 DEF OutType
<1>3. open[p] /\ open' = open /\ up' = up /\ pending' = pending /\ asks' = asks
  BY <1>2 DEF ClosedIdle, SendFails
<1>4. retry' = [retry EXCEPT ![p] = retry[p] \/ up[p]]
  BY DEF SendFails, RetryDue
<1>5. <<sending[p][i]>> \o queue[p] \in Seq(Packet) /\ Without(sending[p], i) \in Seq(Packet)
  <2>1. sending[p][i] \in Packet
    BY <1>2
  <2>2. QED
    BY <1>2, <2>1, WithoutType
<1>6. /\ queue' = [queue EXCEPT ![p] = <<sending[p][i]>> \o queue[p]]
      /\ sending' = [sending EXCEPT ![p] = Without(sending[p], i)]
      /\ publishing' = [publishing EXCEPT ![p] = FALSE] /\ unserved' = unserved
  BY DEF SendFails, PacketKept
<1>7. Drains(p)
  BY <1>1, <1>5, <1>6 DEF Drains, OutType, OthersSame, DrainHolds
<1>8. FlagType' /\ BoardType' /\ WireType'
  BY <1>1, <1>3, <1>4 DEF SendFails, Happens, FlagType, BoardType, WireType
<1>9. Served(p, up'[p]) \/ retry'[p]
  BY <1>1, <1>3, <1>4 DEF Served, FlagType
<1>10. \A x \in Peer \ {p} : retry'[x] = retry[x]
  BY <1>1, <1>4 DEF FlagType
<1>11. QED
  BY <1>3, <1>7, <1>8, <1>9, <1>10, ServedKeeps

(* The retry timer. *)
LEMMA RetryInv ==
  ASSUME BoardInv, NEW p \in Peer, Retry(p)
  PROVE  BoardInv'
<1> USE DEF BoardInv
<1>1. OutType /\ FlagType /\ BoardType /\ WireType
  BY TypeParts
<1>2. open[p] /\ open' = open /\ up' = up /\ pending' = pending /\ asks' = asks
  BY DEF ClosedIdle, Retry
<1>3. retry' = [retry EXCEPT ![p] = FALSE]
  BY DEF Retry
<1>4. Drains(p) /\ Served(p, up[p])
  BY <1>1, DrainWithDrains DEF Retry, OutType, FlagType
<1>5. FlagType' /\ BoardType' /\ WireType'
  BY <1>1, <1>2, <1>3 DEF Retry, FlagType, BoardType, WireType
<1>6. \A x \in Peer \ {p} : retry'[x] = retry[x]
  BY <1>1, <1>3 DEF FlagType
<1>7. QED
  BY <1>2, <1>4, <1>5, <1>6, ServedKeeps

(* A board is opened and the others are asked. *)
LEMMA OpenInv ==
  ASSUME BoardInv, NEW p \in Peer, Open(p)
  PROVE  BoardInv'
<1> USE DEF BoardInv
<1>1. OutType /\ FlagType /\ BoardType /\ WireType
  BY TypeParts
<1>2. /\ open' = [open EXCEPT ![p] = TRUE] /\ asks' = [asks EXCEPT ![p] = Timers]
      /\ up' = up /\ pending' = pending /\ retry' = retry
  BY DEF Open
<1>3. up[p] \in BOOLEAN /\ {} \in SUBSET Edit
  BY <1>1 DEF FlagType
<1>4. /\ Drains(p)
      /\ up[p] => Served(p, TRUE)
      /\ ~up[p] => UNCHANGED outbound
      /\ outage' \in {outage, Asked(p)}
  BY <1>1, <1>3, RequestDrains DEF Open
<1>5. FlagType' /\ BoardType' /\ WireType'
  <2>1. outage' \in [Peer -> Outages]
    BY <1>1, <1>4, OutageType DEF FlagType
  <2>2. asks' \in [Peer -> 0..Timers] /\ open' \in [Peer -> BOOLEAN]
    BY <1>1, <1>2, WhiteboardAssumption DEF FlagType
  <2>3. QED
    BY <1>1, <1>2, <2>1, <2>2 DEF Open, FlagType, BoardType, WireType
<1>6. Served(p, up'[p])
  BY <1>2, <1>4 DEF Served
<1>7. open'[p] /\ \A x \in Peer \ {p} : open'[x] = open[x] /\ asks'[x] = asks[x]
  BY <1>1, <1>2 DEF FlagType
<1>8. QED
  BY <1>2, <1>4, <1>5, <1>6, <1>7, ServedKeeps

(* An edit waits for the next frame. *)
LEMMA DrawInv ==
  ASSUME BoardInv, NEW p \in Peer, NEW e \in Edit, Draw(p, e)
  PROVE  BoardInv'
<1> USE DEF BoardInv
<1>1. OutType /\ FlagType /\ BoardType /\ WireType
  BY TypeParts
<1>2. /\ open[p] /\ open' = open /\ up' = up /\ retry' = retry /\ asks' = asks
      /\ UNCHANGED outbound
      /\ pending' = [pending EXCEPT ![p] = pending[p] \union {e}]
  BY DEF Draw
<1>3. Drains(p)
  BY <1>1, <1>2 DEF Drains, OutType, OthersSame, DrainHolds, outbound
<1>4. FlagType' /\ BoardType' /\ WireType'
  BY <1>1, <1>2 DEF Draw, FlagType, BoardType, WireType
<1>5. \A x \in Peer \ {p} : pending'[x] = pending[x]
  BY <1>1, <1>2 DEF BoardType
<1>6. QED
  BY <1>2, <1>3, <1>4, <1>5, ServedKeeps

(* The edits of a frame are published. *)
LEMMA FlushInv ==
  ASSUME BoardInv, NEW p \in Peer, Flush(p)
  PROVE  BoardInv'
<1> USE DEF BoardInv
<1>1. OutType /\ FlagType /\ BoardType /\ WireType
  BY TypeParts
<1>2. /\ open[p] /\ open' = open /\ up' = up /\ retry' = retry /\ asks' = asks
      /\ pending' = [pending EXCEPT ![p] = {}]
  BY DEF Flush, ClosedIdle
<1>3. [type |-> "update", edits |-> pending[p]] \in Message /\ up[p] \in BOOLEAN
  BY <1>1 DEF Message, BoardType, FlagType
<1>4. Drains(p) /\ Served(p, up[p])
  BY <1>1, <1>3, SayDrains DEF Flush
<1>5. FlagType' /\ BoardType' /\ WireType'
  BY <1>1, <1>2 DEF Flush, FlagType, BoardType, WireType
<1>6. \A x \in Peer \ {p} : pending'[x] = pending[x]
  BY <1>1, <1>2 DEF BoardType
<1>7. QED
  BY <1>2, <1>4, <1>5, <1>6, ServedKeeps

(* The others are asked again, or have answered. *)
LEMMA AskAgainInv ==
  ASSUME BoardInv, NEW p \in Peer, AskAgain(p)
  PROVE  BoardInv'
<1> USE DEF BoardInv
<1>1. OutType /\ FlagType /\ BoardType /\ WireType
  BY TypeParts
<1>2. /\ open[p] /\ open' = open /\ up' = up /\ retry' = retry /\ pending' = pending
      /\ asks[p] \in 0..Timers /\ asks[p] > 0
      /\ asks' = [asks EXCEPT ![p] = asks[p] - 1]
  <2>1. asks[p] \in 0..Timers /\ asks[p] > 0
    BY <1>1 DEF AskAgain, FlagType
  <2>2. open[p]
    BY <2>1 DEF ClosedIdle
  <2>3. QED
    BY <2>1, <2>2 DEF AskAgain
<1>3. board[p] \in SUBSET Edit /\ (up[p] /\ ~synced[p]) \in BOOLEAN
  BY <1>1 DEF BoardType
<1>4. /\ Drains(p)
      /\ up[p] /\ ~synced[p] => Served(p, TRUE)
      /\ ~(up[p] /\ ~synced[p]) => UNCHANGED outbound
      /\ outage' \in {outage, Asked(p)}
  BY <1>1, <1>3, RequestDrains DEF AskAgain
<1>5. FlagType' /\ BoardType' /\ WireType'
  <2>1. asks[p] - 1 \in 0..Timers
    BY <1>2, WhiteboardAssumption
  <2>2. outage' \in [Peer -> Outages]
    BY <1>1, <1>4, OutageType DEF FlagType
  <2>3. asks' \in [Peer -> 0..Timers]
    BY <1>1, <1>2, <2>1 DEF FlagType
  <2>4. QED
    BY <1>1, <1>2, <2>2, <2>3 DEF AskAgain, FlagType, BoardType, WireType
<1>6. Served(p, up'[p]) \/ UNCHANGED outbound
  BY <1>4 DEF Served
<1>7. \A x \in Peer \ {p} : asks'[x] = asks[x]
  BY <1>1, <1>2 DEF FlagType
<1>8. QED
  BY <1>2, <1>4, <1>5, <1>6, <1>7, ServedKeeps

(* A board that is closed takes everything of its provider with it. *)
LEMMA CloseInv ==
  ASSUME BoardInv, NEW p \in Peer, Close(p)
  PROVE  BoardInv'
<1> USE DEF BoardInv
<1>1. OutType /\ FlagType /\ BoardType /\ WireType
  BY TypeParts
<1>2. OutType'
  BY <1>1 DEF Close, OutType
<1>3. FlagType' /\ WireType'
  BY <1>1, WhiteboardAssumption, OutageType DEF Close, Happens, FlagType, WireType
<1>4. BoardType'
  BY <1>1 DEF Close, BoardType
<1>5. DrainHolds'
  BY <1>1 DEF Close, DrainHolds, OutType
<1>6. ClosedIdle'
  BY <1>1 DEF Close, ClosedIdle, OutType, FlagType, BoardType
<1>7. NotStuck'
  BY <1>1 DEF Close, NotStuck, OutType, FlagType
<1>8. QED
  BY <1>2, <1>3, <1>4, <1>5, <1>6, <1>7, NextTypeParts

(* An interruption forgets the drain, but nothing is ready either. *)
LEMMA InterruptInv ==
  ASSUME BoardInv, NEW p \in Peer, Interrupt(p)
  PROVE  BoardInv'
<1> USE DEF BoardInv
<1>1. OutType /\ FlagType /\ BoardType /\ WireType
  BY TypeParts
<1>2. OutType' /\ FlagType' /\ BoardType'
  BY <1>1, OutageType DEF Interrupt, Happens, OutType, FlagType, BoardType
<1>3. WireType'
  BY <1>1 DEF Interrupt, WireType
<1>4. DrainHolds' /\ ClosedIdle'
  BY <1>1 DEF Interrupt, DrainHolds, ClosedIdle, OutType, FlagType
<1>5. NotStuck'
  BY <1>1 DEF Interrupt, NotStuck, OutType, FlagType
<1>6. QED
  BY <1>2, <1>3, <1>4, <1>5, NextTypeParts

(* The connection is back.  With the channel open, a peer with a board     *)
(* asks, and thereby drains what it had left; one without has nothing.     *)
(* With the channel closed nothing is ready yet.                           *)
LEMMA ReconnectInv ==
  ASSUME BoardInv, NEW p \in Peer, Reconnect(p)
  PROVE  BoardInv'
<1> USE DEF BoardInv
<1>1. OutType /\ FlagType /\ BoardType /\ WireType
  BY TypeParts
<1>2. PICK r \in BOOLEAN :
        /\ up' = [up EXCEPT ![p] = r]
        /\ RequestSync(p, board[p], open[p] /\ r)
  BY DEF Reconnect
<1>3. /\ open' = open /\ pending' = pending /\ retry' = retry /\ asks' = asks
      /\ linked' = [linked EXCEPT ![p] = TRUE]
      /\ UNCHANGED <<board, synced, wire, heads, trouble>>
  BY DEF Reconnect
<1>4. board[p] \in SUBSET Edit /\ (open[p] /\ r) \in BOOLEAN
  BY <1>1 DEF BoardType, FlagType
<1>5. /\ Drains(p)
      /\ open[p] /\ r => Served(p, TRUE)
      /\ ~(open[p] /\ r) => UNCHANGED outbound
      /\ outage' \in {outage, Asked(p)}
  BY <1>1, <1>2, <1>4, RequestDrains
<1>6. FlagType' /\ BoardType' /\ WireType'
  <2>1. outage' \in [Peer -> Outages]
    BY <1>1, <1>5, OutageType DEF FlagType
  <2>2. QED
    BY <1>1, <1>2, <1>3, <2>1 DEF FlagType, BoardType, WireType
<1>7. up'[p] = r /\ \A x \in Peer \ {p} : up'[x] = up[x]
  BY <1>1, <1>2 DEF FlagType
<1>8. CASE open[p]
  <2>1. Served(p, up'[p]) \/ (~up'[p] /\ UNCHANGED outbound)
    BY <1>5, <1>7, <1>8 DEF Served
  <2>2. QED
    BY <1>3, <1>5, <1>6, <1>7, <1>8, <2>1, ServedKeeps
<1>9. CASE ~open[p]
  <2>1. UNCHANGED outbound
    BY <1>5, <1>9
  <2>2. OutType' /\ DrainHolds' /\ ClosedIdle'
    BY <1>1, <1>3, <2>1 DEF outbound, OutType, DrainHolds, ClosedIdle
  <2>3. NotStuck'
    BY <1>3, <1>7, <1>9, <2>1 DEF outbound, NotStuck, ClosedIdle
  <2>4. QED
    BY <1>6, <2>2, <2>3, NextTypeParts
<1>10. QED
  BY <1>4, <1>8, <1>9

(* The channel opens late: what waits is marked as found waiting. *)
LEMMA ChannelOpensInv ==
  ASSUME BoardInv, NEW p \in Peer, ChannelOpens(p)
  PROVE  BoardInv'
<1> USE DEF BoardInv
<1>1. OutType /\ FlagType /\ BoardType /\ WireType
  BY TypeParts
<1>2. /\ up' = [up EXCEPT ![p] = TRUE]
      /\ unserved' = [unserved EXCEPT ![p] = queue[p] # <<>>]
      /\ UNCHANGED <<open, linked, board, pending, queue, publishing, sending, retry, synced,
                     asks, wire, heads, outage, trouble>>
  BY DEF ChannelOpens
<1>3. OutType' /\ FlagType' /\ BoardType' /\ WireType'
  BY <1>1, <1>2 DEF OutType, FlagType, BoardType, WireType
<1>4. DrainHolds' /\ ClosedIdle'
  BY <1>2 DEF DrainHolds, ClosedIdle
<1>5. NotStuck'
  BY <1>1, <1>2 DEF NotStuck, OutType, FlagType
<1>6. QED
  BY <1>3, <1>4, <1>5, NextTypeParts

(* A message: a request is answered, anything else is merged. *)
LEMMA HandleDrains ==
  ASSUME OutType, DrainHolds, FlagType, BoardType, NEW q \in Peer, NEW m \in Message,
         Handle(q, m)
  PROVE  /\ Drains(q)
         /\ Served(q, up[q]) \/ UNCHANGED outbound
         /\ board' \in [Peer -> SUBSET Edit] /\ synced' \in [Peer -> BOOLEAN]
<1>1. m.edits \in SUBSET Edit
  BY DEF Message
<1>2. CASE m.type = "step1"
  <2>1. [type |-> "step2", edits |-> board[q] \ m.edits] \in Message /\ up[q] \in BOOLEAN
    BY DEF Message, BoardType, FlagType
  <2>2. /\ Say(q, [type |-> "step2", edits |-> board[q] \ m.edits], up[q])
        /\ UNCHANGED <<board, synced>>
    BY <1>2 DEF Handle
  <2>3. QED
    BY <2>1, <2>2, SayDrains DEF BoardType, FlagType
<1>3. CASE m.type # "step1"
  <2>1. /\ board' = [board EXCEPT ![q] = board[q] \union m.edits]
        /\ synced' = [synced EXCEPT ![q] = synced[q] \/ m.type = "step2"]
        /\ UNCHANGED outbound
    BY <1>3 DEF Handle
  <2>2. board' \in [Peer -> SUBSET Edit] /\ synced' \in [Peer -> BOOLEAN]
    BY <1>1, <2>1 DEF BoardType, FlagType
  <2>3. Drains(q)
    BY <2>1 DEF Drains, OutType, OthersSame, DrainHolds, outbound
  <2>4. QED
    BY <2>1, <2>2, <2>3
<1>4. QED
  BY <1>2, <1>3

(* A packet arrives. *)
LEMMA ReceiveInv ==
  ASSUME BoardInv, NEW p \in Peer, NEW q \in Peer, Receive(p, q)
  PROVE  BoardInv'
<1> USE DEF BoardInv
<1> DEFINE c == <<p, q>>
           w == Head(wire[c])
<1>1. OutType /\ FlagType /\ BoardType /\ WireType
  BY TypeParts
<1>2. c \in Peer \X Peer /\ wire[c] \in Seq(Packet) /\ wire[c] # <<>>
  BY <1>1 DEF Receive, WireType
<1>3. w \in Packet /\ Tail(wire[c]) \in Seq(Packet)
  BY <1>2
<1>4. /\ wire' = [wire EXCEPT ![c] = Tail(wire[c])]
      /\ UNCHANGED <<open, linked, up, pending, retry, asks, outage, trouble>>
  BY DEF Receive
<1>5. WireType'
  BY <1>1, <1>2, <1>3, <1>4 DEF WireType
<1>6. w.msg \in Message /\ w.part \in 0..Chunks /\ w.id \in Id \union {None}
  BY <1>3 DEF Packet
<1> HIDE DEF w, c
<1>7. ASSUME UNCHANGED outbound, board' \in [Peer -> SUBSET Edit],
             synced' \in [Peer -> BOOLEAN],
             heads' \in [Peer -> [Id -> {None} \union SUBSET (1..Chunks)]]
      PROVE  BoardInv'
  <2>1. OutType' /\ DrainHolds' /\ ClosedIdle' /\ NotStuck'
    BY <1>1, <1>4, <1>7 DEF outbound, OutType, DrainHolds, ClosedIdle, NotStuck
  <2>2. FlagType' /\ BoardType'
    BY <1>1, <1>4, <1>7 DEF FlagType, BoardType
  <2>3. QED
    BY <1>5, <2>1, <2>2, NextTypeParts
<1>8. ASSUME open[q], Handle(q, w.msg),
             heads' \in [Peer -> [Id -> {None} \union SUBSET (1..Chunks)]]
      PROVE  BoardInv'
  <2>1. /\ Drains(q)
        /\ Served(q, up[q]) \/ UNCHANGED outbound
        /\ board' \in [Peer -> SUBSET Edit] /\ synced' \in [Peer -> BOOLEAN]
    BY <1>1, <1>6, <1>8, HandleDrains
  <2>2. FlagType' /\ BoardType'
    BY <1>1, <1>4, <1>8, <2>1 DEF FlagType, BoardType
  <2>3. QED
    BY <1>4, <1>5, <1>8, <2>1, <2>2, ServedKeeps
<1>9. heads \in [Peer -> [Id -> {None} \union SUBSET (1..Chunks)]]
      /\ board \in [Peer -> SUBSET Edit] /\ synced \in [Peer -> BOOLEAN]
  BY <1>1 DEF BoardType, FlagType
<1>10. CASE Ignored
  BY <1>7, <1>9, <1>10 DEF Ignored, outbound
<1>11. CASE open[q] /\ Whole(w) /\ Handle(q, w.msg) /\ UNCHANGED heads
  BY <1>8, <1>9, <1>11
<1>12. CASE open[q] /\ IsHead(w) /\ heads' = HeadIn(q, w.id) /\ UNCHANGED <<board, synced, outbound>>
  <2>1. w.id \in Id
    BY <1>6, <1>12 DEF IsHead
  <2>2. heads' \in [Peer -> [Id -> {None} \union SUBSET (1..Chunks)]]
    BY <1>9, <1>12, <2>1 DEF HeadIn
  <2>3. QED
    BY <1>7, <1>9, <1>12, <2>2
<1>13. CASE open[q] /\ IsChunk(w) /\ heads[q][w.id] # None
  <2>1. w.id \in Id /\ w.part \in 1..Chunks
    BY <1>6, <1>13 DEF IsChunk, Chunks
  <2>2. ChunkIn(q, w) \in SUBSET (1..Chunks)
    BY <1>9, <1>13, <2>1 DEF ChunkIn
  <2>3. ASSUME NEW h \in {None, ChunkIn(q, w)}
        PROVE  [heads EXCEPT ![q][w.id] = h] \in
                 [Peer -> [Id -> {None} \union SUBSET (1..Chunks)]]
    BY <1>9, <2>1, <2>2, <2>3
  <2>4. CASE heads' = [heads EXCEPT ![q][w.id] = None] /\ Handle(q, w.msg)
    BY <1>8, <1>13, <2>3, <2>4
  <2>5. CASE /\ heads' = [heads EXCEPT ![q][w.id] = ChunkIn(q, w)]
             /\ UNCHANGED <<board, synced, outbound>>
    BY <1>7, <1>9, <2>3, <2>5
  <2>6. \/ heads' = [heads EXCEPT ![q][w.id] = None] /\ Handle(q, w.msg)
        \/ /\ heads' = [heads EXCEPT ![q][w.id] = ChunkIn(q, w)]
           /\ UNCHANGED <<board, synced, outbound>>
        \/ Ignored
    BY <1>13 DEF Receive, Whole, IsHead, IsChunk, w, c
  <2>7. QED
    BY <1>10, <2>4, <2>5, <2>6
<1>14. QED
  BY <1>10, <1>11, <1>12, <1>13 DEF Receive, w, c

-----------------------------------------------------------------------------
(* Theorems *)

(* The inductive invariant holds in every reachable state. *)
THEOREM BoardInvariance == Spec => []BoardInv
<1>1. Init => BoardInv
  BY WhiteboardAssumption
     DEF Init, BoardInv, TypeOK, Outages, DrainHolds, ClosedIdle, NotStuck
<1>2. BoardInv /\ [Next]_vars => BoardInv'
  <2> SUFFICES ASSUME BoardInv, [Next]_vars PROVE BoardInv'
    OBVIOUS
  <2>1. ASSUME NEW p \in Peer, NEW i \in DOMAIN sending[p], Sent(p, i) \/ SendFails(p, i)
        PROVE  BoardInv'
    BY <2>1, SentInv, SendFailsInv
  <2>2. ASSUME NEW p \in Peer,
               \/ Retry(p) \/ Open(p) \/ Flush(p) \/ AskAgain(p) \/ Close(p)
               \/ Interrupt(p) \/ Reconnect(p) \/ ChannelOpens(p)
        PROVE  BoardInv'
    BY <2>2, RetryInv, OpenInv, FlushInv, AskAgainInv, CloseInv, InterruptInv, ReconnectInv,
       ChannelOpensInv
  <2>3. ASSUME NEW p \in Peer, NEW e \in Edit, Draw(p, e) PROVE BoardInv'
    BY <2>3, DrawInv
  <2>4. ASSUME NEW p \in Peer, NEW q \in Peer, Receive(p, q) PROVE BoardInv'
    BY <2>4, ReceiveInv
  <2>5. CASE UNCHANGED vars
    BY <2>5 DEF vars, outbound, BoardInv, TypeOK, DrainHolds, ClosedIdle, NotStuck
  <2>6. QED
    BY <2>1, <2>2, <2>3, <2>4, <2>5 DEF Next
<1>3. QED
  BY <1>1, <1>2, PTL DEF Spec

(* Boards, queues, drains, timers and packets keep their types. *)
THEOREM BoardTypeCorrect == Spec => []TypeOK
BY BoardInvariance, PTL DEF BoardInv

(* With the room ready, packets that wait are being sent or will be,       *)
(* however often connections were interrupted and publications failed,     *)
(* unless the data channel opened late, after the reconnection, and found  *)
(* them waiting.                                                           *)
THEOREM PacketsAreServed == Spec => []NotStuck
BY BoardInvariance, PTL DEF BoardInv

-----------------------------------------------------------------------------
(* What a line carries *)

(* The places of two lines that are joined. *)
LEMMA Joined ==
  ASSUME NEW l \in Seq(Packet), NEW s \in Seq(Packet)
  PROVE  /\ l \o s \in Seq(Packet) /\ Len(l \o s) = Len(l) + Len(s)
         /\ DOMAIN (l \o s) = 1..(Len(l) + Len(s))
         /\ \A n \in 1..Len(l) : (l \o s)[n] = l[n]
         /\ \A n \in 1..Len(s) : (l \o s)[Len(l) + n] = s[n]
OBVIOUS

(* What a line carries it still carries when more is said. *)
LEMMA MoreIsSaid ==
  ASSUME NEW l \in Seq(Packet), NEW s \in Seq(Packet), NEW h, NEW e
  PROVE  /\ Carried(l, h, e) => Carried(l \o s, h, e)
         /\ Wanted(l, e) => Wanted(l \o s, e)
<1>1. DOMAIN l \subseteq DOMAIN (l \o s) /\ \A n \in DOMAIN l : (l \o s)[n] = l[n]
  OBVIOUS
<1>2. \A n, i, k : PartAfter(l, n, i, k, e) => PartAfter(l \o s, n, i, k, e)
  BY <1>1 DEF PartAfter
<1>3. InWhole(l, e) => InWhole(l \o s, e)
  BY <1>1 DEF InWhole
<1>4. \A i : InHead(l, i, e) => InHead(l \o s, i, e)
  BY <1>1, <1>2 DEF InHead
<1>5. \A i : InRest(l, h, i, e) => InRest(l \o s, h, i, e)
  BY <1>2 DEF InRest
<1>6. Wanted(l, e) => Wanted(l \o s, e)
  BY <1>1 DEF Wanted
<1>7. QED
  BY <1>3, <1>4, <1>5, <1>6 DEF Carried

(* The packets of a message: one, or a head and chunks with an id that is  *)
(* not about.                                                              *)
Packets(m, s, free) ==
  \/ ~Large(m) /\ s = <<Raw(m)>>
  \/ Large(m) /\ \E i \in free : s = Parts(m, i)

(* They are of the message, and have no id or one of those. *)
LEMMA PacketsOf ==
  ASSUME NEW m \in Message, NEW s, NEW free \in SUBSET Id, Packets(m, s, free)
  PROVE  /\ s \in Seq(Packet)
         /\ \A n \in DOMAIN s : s[n].msg = m
         /\ \/ \A n \in DOMAIN s : s[n].id = None
            \/ Large(m) /\ \E i \in free : \A n \in DOMAIN s : s[n].id = i
<1>1. CASE ~Large(m) /\ s = <<Raw(m)>>
  <2>1. Raw(m) \in Packet
    BY PacketTypes
  <2>2. s[1] = Raw(m) /\ DOMAIN s = {1} /\ s \in Seq(Packet)
    BY <1>1, <2>1
  <2>3. QED
    BY <2>2 DEF Raw
<1>2. CASE Large(m) /\ \E i \in free : s = Parts(m, i)
  <2>1. PICK i \in free : s = Parts(m, i)
    BY <1>2
  <2>2. s \in Seq(Packet)
    BY <2>1, PacketTypes
  <2>3. DOMAIN s = 1..3 /\ \A n \in 1..3 : s[n] = [part |-> n - 1, msg |-> m, id |-> i]
    BY <2>1 DEF Parts, Chunks
  <2>4. QED
    BY <1>2, <2>2, <2>3
<1>3. QED
  BY <1>1, <1>2 DEF Packets

(* A line carries what has just been said. *)
LEMMA SaidIsCarried ==
  ASSUME NEW l \in Seq(Packet), NEW m \in Message, NEW s, NEW free \in SUBSET Id,
         Packets(m, s, free), NEW h, NEW e
  PROVE  /\ m.type # "step1" /\ e \in m.edits => Carried(l \o s, h, e)
         /\ m.type = "step1" /\ e \notin m.edits => Wanted(l \o s, e)
<1> DEFINE N == Len(l)
<1>1. N \in Nat
  OBVIOUS
<1>2. CASE ~Large(m) /\ s = <<Raw(m)>>
  <2>1. N + 1 \in DOMAIN (l \o s) /\ (l \o s)[N + 1] = Raw(m)
    <3>1. Raw(m) \in Packet
      BY PacketTypes
    <3>2. QED
      BY <1>2, <3>1
  <2>2. Raw(m).msg = m /\ Raw(m).id = None
    BY DEF Raw
  <2>3. m.type # "step1" /\ e \in m.edits => InWhole(l \o s, e)
    BY <2>1, <2>2 DEF InWhole, Whole, Tells
  <2>4. m.type = "step1" /\ e \notin m.edits => Wanted(l \o s, e)
    BY <2>1, <2>2 DEF Wanted, Whole
  <2>5. QED
    BY <2>3, <2>4 DEF Carried
<1>3. CASE Large(m) /\ \E i \in free : s = Parts(m, i)
  <2>1. PICK i \in free : s = Parts(m, i)
    BY <1>3
  <2>2. DOMAIN s = 1..3 /\ \A n \in 1..3 : s[n] = [part |-> n - 1, msg |-> m, id |-> i]
    BY <2>1 DEF Parts, Chunks
  <2>3. s \in Seq(Packet) /\ Len(s) = 3
    BY <2>1, <2>2, PacketTypes
  <2>4. \A n \in 1..3 : N + n \in DOMAIN (l \o s) /\ (l \o s)[N + n] = s[n]
    <3>1. /\ DOMAIN (l \o s) = 1..(Len(l) + Len(s))
          /\ \A n \in 1..Len(s) : (l \o s)[Len(l) + n] = s[n]
      BY <2>3, Joined
    <3>2. \A n \in 1..3 : N + n \in 1..(N + 3)
      BY <1>1
    <3>3. QED
      BY <2>3, <3>1, <3>2
  <2>5. (l \o s)[N + 1].part = 0 /\ (l \o s)[N + 1].id = i
    BY <2>2, <2>4
  <2>6. ASSUME NEW k \in 1..Chunks, m.type # "step1", e \in m.edits
        PROVE  PartAfter(l \o s, N + 1, i, k, e)
    <3>1. k \in 1..2 /\ k + 1 \in 1..3
      BY DEF Chunks
    <3>2. s[k + 1] = [part |-> k, msg |-> m, id |-> i]
      BY <2>2, <3>1
    <3>3. (l \o s)[N + (k + 1)] = s[k + 1] /\ N + (k + 1) \in DOMAIN (l \o s)
      BY <2>4, <3>1
    <3>4. N + (k + 1) > N + 1
      BY <3>1, <1>1
    <3>5. /\ s[k + 1].id = i /\ s[k + 1].part = k
          /\ Tells(s[k + 1], e)
      BY <2>6, <3>2 DEF Tells
    <3>6. PICK x \in DOMAIN (l \o s) : x = N + (k + 1) /\ (l \o s)[x] = s[k + 1]
      BY <3>3
    <3>7. x > N + 1 /\ (l \o s)[x].id = i /\ (l \o s)[x].part = k /\ Tells((l \o s)[x], e)
      BY <3>4, <3>5, <3>6
    <3>8. QED
      BY <3>7, Zenon DEF PartAfter
  <2>7. m.type # "step1" /\ e \in m.edits => InHead(l \o s, i, e)
    BY <2>4, <2>5, <2>6 DEF InHead
  <2>8. m.type # "step1"
    BY <1>3 DEF Large
  <2>9. QED
    BY <2>7, <2>8 DEF Carried
<1>4. QED
  BY <1>2, <1>3 DEF Packets

(* The first packet of a line leaves the rest of it. *)
LEMMA TailPackets ==
  ASSUME NEW l \in Seq(Packet), l # <<>>
  PROVE  /\ Tail(l) \in Seq(Packet) /\ Head(l) = l[1] /\ 1 \in DOMAIN l /\ Head(l) \in Packet
         /\ \A n \in DOMAIN Tail(l) : n + 1 \in DOMAIN l /\ Tail(l)[n] = l[n + 1]
         /\ \A n \in DOMAIN l : n # 1 => n - 1 \in DOMAIN Tail(l) /\ Tail(l)[n - 1] = l[n]
OBVIOUS

(* A part that is not the first packet is still to come. *)
LEMMA PartStaysBehind ==
  ASSUME NEW l \in Seq(Packet), l # <<>>, NEW n \in Nat, NEW i, NEW k, NEW e,
         PartAfter(l, n, i, k, e)
  PROVE  /\ n > 0 => PartAfter(Tail(l), n - 1, i, k, e)
         /\ Head(l).id # i \/ Head(l).part # k => PartAfter(Tail(l), 0, i, k, e)
<1>1. PICK x \in DOMAIN l : x > n /\ l[x].id = i /\ l[x].part = k /\ Tells(l[x], e)
  BY DEF PartAfter
<1>2. x \in Nat /\ x >= 1
  OBVIOUS
<1>3. CASE x # 1
  <2>1. x - 1 \in DOMAIN Tail(l) /\ Tail(l)[x - 1] = l[x]
    BY <1>3, TailPackets
  <2>2. x - 1 > 0 /\ (n > 0 => x - 1 > n - 1)
    BY <1>1, <1>2, <1>3
  <2>3. QED
    BY <1>1, <2>1, <2>2 DEF PartAfter
<1>4. CASE x = 1
  BY <1>1, <1>4, TailPackets
<1>5. QED
  BY <1>3, <1>4

-----------------------------------------------------------------------------
(* What the first packet of a line does *)

HeadsType == [Id -> {None} \union SUBSET (1..Chunks)]

(* The packet w makes a message complete for a receiver with the heads h. *)
Completes(h, w) ==
  \/ Whole(w)
  \/ IsChunk(w) /\ h[w.id] # None /\ h[w.id] \union {w.part} = 1..Chunks

(* What w makes of the heads h of a receiver who has the board open. *)
HeadsAfter(h, w, g) ==
  \/ Whole(w) /\ g = h
  \/ IsHead(w) /\ g = [h EXCEPT ![w.id] = IF h[w.id] = None THEN {} ELSE h[w.id]]
  \/ IsChunk(w) /\ h[w.id] = None /\ g = h
  \/ /\ IsChunk(w) /\ h[w.id] # None
     /\ IF h[w.id] \union {w.part} = 1..Chunks
        THEN g = [h EXCEPT ![w.id] = None]
        ELSE g = [h EXCEPT ![w.id] = h[w.id] \union {w.part}]

(* Packets with one id are of one message. *)
OneMessage(l) ==
  \A n, x \in DOMAIN l : l[n].id = l[x].id /\ l[n].id # None => l[n].msg = l[x].msg

(* No message is complete that has an id. *)
PartsLack(h) == \A i \in Id : h[i] # 1..Chunks

(* Heads keep their types, and lack parts. *)
LEMMA HeadsAfterType ==
  ASSUME NEW h \in HeadsType, NEW w \in Packet, NEW g, HeadsAfter(h, w, g), PartsLack(h)
  PROVE  g \in HeadsType /\ PartsLack(g)
<1>1. None # 1..Chunks /\ {} # 1..Chunks
  <2>1. 1 \in 1..Chunks /\ 1..Chunks \in SUBSET (1..Chunks)
    BY DEF Chunks
  <2>2. QED
    BY <2>1, NoParts
<1>2. ~Whole(w) => w.id \in Id
  BY DEF Whole, Packet
<1>3. IsChunk(w) => w.part \in 1..Chunks
  BY DEF IsChunk, Packet, Chunks
<1>4. CASE Whole(w) /\ g = h
  BY <1>4
<1>5. CASE IsHead(w) /\ g = [h EXCEPT ![w.id] = IF h[w.id] = None THEN {} ELSE h[w.id]]
  <2>1. w.id \in Id
    BY <1>2, <1>5 DEF Whole, IsHead
  <2>2. QED
    BY <1>1, <1>5, <2>1 DEF HeadsType, PartsLack
<1>6. CASE IsChunk(w) /\ h[w.id] = None /\ g = h
  BY <1>6
<1>7. CASE IsChunk(w) /\ h[w.id] # None /\ g = [h EXCEPT ![w.id] = None]
  <2>1. w.id \in Id
    BY <1>2, <1>7 DEF Whole, IsChunk
  <2>2. QED
    BY <1>1, <1>7, <2>1 DEF HeadsType, PartsLack
<1>8. CASE /\ IsChunk(w) /\ h[w.id] # None /\ h[w.id] \union {w.part} # 1..Chunks
           /\ g = [h EXCEPT ![w.id] = h[w.id] \union {w.part}]
  <2>1. w.id \in Id
    BY <1>2, <1>8 DEF Whole, IsChunk
  <2>2. h[w.id] \union {w.part} \in SUBSET (1..Chunks)
    BY <1>3, <1>8, <2>1 DEF HeadsType
  <2>3. QED
    BY <1>8, <2>1, <2>2 DEF HeadsType, PartsLack
<1>9. QED
  BY <1>4, <1>5, <1>6, <1>7, <1>8 DEF HeadsAfter

(* Heads of other ids are left alone. *)
LEMMA HeadsAfterOthers ==
  ASSUME NEW h \in HeadsType, NEW w \in Packet, NEW g, HeadsAfter(h, w, g),
         NEW i \in Id, i # w.id
  PROVE  g[i] = h[i]
BY DEF HeadsAfter, HeadsType

(* Edits on a line stay there when its first packet arrives, unless that   *)
(* packet completes a message with them.                                   *)
LEMMA CarriedOn ==
  ASSUME NEW l \in Seq(Packet), l # <<>>, OneMessage(l), NEW h \in HeadsType, PartsLack(h),
         NEW g, HeadsAfter(h, Head(l), g), NEW e, Carried(l, h, e)
  PROVE  Carried(Tail(l), g, e) \/ (Completes(h, Head(l)) /\ Tells(Head(l), e))
<1> DEFINE w == Head(l)
<1>1. w = l[1] /\ 1 \in DOMAIN l /\ w \in Packet
  BY TailPackets
<1>2. g \in HeadsType
  BY <1>1, HeadsAfterType
<1>3. ASSUME InWhole(l, e)
      PROVE  InWhole(Tail(l), e) \/ (Whole(w) /\ Tells(w, e))
  <2>1. PICK n \in DOMAIN l : Whole(l[n]) /\ Tells(l[n], e)
    BY <1>3 DEF InWhole
  <2>2. CASE n = 1
    BY <1>1, <2>1, <2>2
  <2>3. CASE n # 1
    <3>1. n - 1 \in DOMAIN Tail(l) /\ Tail(l)[n - 1] = l[n]
      BY <2>3, TailPackets
    <3>2. QED
      BY <2>1, <3>1 DEF InWhole
  <2>4. QED
    BY <2>2, <2>3
<1>4. ASSUME NEW i \in Id, InHead(l, i, e)
      PROVE  InHead(Tail(l), i, e) \/ InRest(Tail(l), g, i, e)
  <2>1. PICK n \in DOMAIN l :
          l[n].id = i /\ l[n].part = 0 /\ \A k \in 1..Chunks : PartAfter(l, n, i, k, e)
    BY <1>4 DEF InHead
  <2>2. n \in Nat /\ n > 0
    OBVIOUS
  <2>3. \A k \in 1..Chunks : PartAfter(Tail(l), n - 1, i, k, e)
    BY <2>1, <2>2, PartStaysBehind
  <2>4. CASE n = 1
    <3>1. IsHead(w) /\ w.id = i
      BY <1>1, <2>1, <2>4, WhiteboardAssumption DEF IsHead
    <3>2. g = [h EXCEPT ![i] = IF h[i] = None THEN {} ELSE h[i]]
      BY <3>1 DEF HeadsAfter, IsHead, Whole, IsChunk
    <3>3. g[i] # None
      <4>1. {} # None
        BY NoParts
      <4>2. QED
        BY <3>2, <4>1 DEF HeadsType
    <3>4. \A k \in 1..Chunks : PartAfter(Tail(l), 0, i, k, e)
      BY <2>3, <2>4
    <3>5. QED
      BY <3>3, <3>4 DEF InRest
  <2>5. CASE n # 1
    <3>1. n - 1 \in DOMAIN Tail(l) /\ Tail(l)[n - 1] = l[n]
      BY <2>5, TailPackets
    <3>2. QED
      BY <2>1, <2>3, <3>1 DEF InHead
  <2>6. QED
    BY <2>4, <2>5
<1>5. ASSUME NEW i \in Id, InRest(l, h, i, e)
      PROVE  InRest(Tail(l), g, i, e) \/ (Completes(h, w) /\ Tells(w, e))
  <2>1. h[i] # None /\ \A k \in (1..Chunks) \ h[i] : PartAfter(l, 0, i, k, e)
    BY <1>5 DEF InRest
  <2>2. i # None
    BY WhiteboardAssumption
  <2>3. \A k \in (1..Chunks) \ h[i] :
          w.id # i \/ w.part # k => PartAfter(Tail(l), 0, i, k, e)
    BY <2>1, PartStaysBehind
  <2>4. CASE w.id # i
    <3>1. g[i] = h[i]
      BY <1>1, <2>4, HeadsAfterOthers
    <3>2. QED
      BY <2>1, <2>3, <2>4, <3>1 DEF InRest
  <2>5. CASE IsHead(w) /\ w.id = i
    <3>1. g[i] = h[i]
      BY <2>1, <2>5 DEF HeadsAfter, HeadsType, IsHead, Whole, IsChunk
    <3>2. \A k \in 1..Chunks : w.part # k
      BY <2>5 DEF IsHead
    <3>3. QED
      BY <2>1, <2>3, <3>1, <3>2 DEF InRest
  <2>6. CASE IsChunk(w) /\ w.id = i /\ h[i] \union {w.part} = 1..Chunks
    <3>1. h[i] \subseteq 1..Chunks /\ h[i] # 1..Chunks
      BY <2>1 DEF HeadsType, PartsLack
    <3>2. PICK k \in (1..Chunks) \ h[i] : TRUE
      BY <3>1
    <3>3. PICK x \in DOMAIN l : l[x].id = i /\ Tells(l[x], e)
      BY <2>1, <3>2 DEF PartAfter
    <3>4. l[x].msg = w.msg
      BY <1>1, <2>2, <2>6, <3>3 DEF OneMessage
    <3>5. Tells(w, e)
      BY <3>3, <3>4 DEF Tells
    <3>6. Completes(h, w)
      BY <2>1, <2>6 DEF Completes
    <3>7. QED
      BY <3>5, <3>6
  <2>7. CASE IsChunk(w) /\ w.id = i /\ h[i] \union {w.part} # 1..Chunks
    <3>1. g = [h EXCEPT ![i] = h[i] \union {w.part}]
      BY <2>1, <2>7 DEF HeadsAfter, IsHead, Whole, IsChunk
    <3>2. g[i] = h[i] \union {w.part}
      BY <3>1 DEF HeadsType
    <3>3. h[i] \union {w.part} \in SUBSET (1..Chunks)
      <4>1. w.part \in 1..Chunks
        BY <1>1, <2>7 DEF IsChunk, Packet, Chunks
      <4>2. QED
        BY <2>1, <4>1 DEF HeadsType
    <3>4. g[i] # None
      BY <3>2, <3>3, NoParts
    <3>5. \A k \in (1..Chunks) \ g[i] : k \in (1..Chunks) \ h[i] /\ w.part # k
      BY <3>2
    <3>6. QED
      BY <2>3, <3>4, <3>5 DEF InRest
  <2>8. QED
    BY <2>2, <2>4, <2>5, <2>6, <2>7 DEF IsHead, IsChunk
<1>6. QED
  BY <1>3, <1>4, <1>5 DEF Carried, Completes

(* Nothing of the id j is on the line, and other heads are the same. *)
Aside(l, h, g, j) ==
  /\ \A i \in Id : i # j => g[i] = h[i]
  /\ \A n \in DOMAIN l : l[n].id # j

(* A packet with another id changes nothing for a line. *)
LEMMA CarriedAside ==
  ASSUME NEW l, NEW h \in HeadsType, PartsLack(h), NEW g \in HeadsType, NEW j,
         Aside(l, h, g, j), NEW e, Carried(l, h, e)
  PROVE  Carried(l, g, e)
<1> USE DEF Aside
<1>1. ASSUME NEW i \in Id, InRest(l, h, i, e)
      PROVE  InRest(l, g, i, e)
  <2>1. h[i] \subseteq 1..Chunks /\ h[i] # 1..Chunks
    BY <1>1 DEF HeadsType, PartsLack, InRest
  <2>2. PICK k \in (1..Chunks) \ h[i] : TRUE
    BY <2>1
  <2>3. PICK x \in DOMAIN l : l[x].id = i
    BY <1>1, <2>2 DEF InRest, PartAfter
  <2>4. g[i] = h[i]
    BY <2>3
  <2>5. QED
    BY <1>1, <2>4 DEF InRest
<1>2. QED
  BY <1>1 DEF Carried

(* A request on a line stays there until it is the first packet. *)
LEMMA WantedOn ==
  ASSUME NEW l \in Seq(Packet), l # <<>>, NEW e, Wanted(l, e)
  PROVE  \/ Wanted(Tail(l), e)
         \/ Whole(Head(l)) /\ Head(l).msg.type = "step1" /\ e \notin Head(l).msg.edits
<1>1. PICK n \in DOMAIN l : Whole(l[n]) /\ l[n].msg.type = "step1" /\ e \notin l[n].msg.edits
  BY DEF Wanted
<1>2. CASE n = 1
  BY <1>1, <1>2, TailPackets
<1>3. CASE n # 1
  <2>1. n - 1 \in DOMAIN Tail(l) /\ Tail(l)[n - 1] = l[n]
    BY <1>3, TailPackets
  <2>2. QED
    BY <1>1, <2>1 DEF Wanted
<1>4. QED
  BY <1>2, <1>3

-----------------------------------------------------------------------------
(* The invariant, of any lines and boards *)

LineType == [Pair -> Seq(Packet)]
BoardsType == [Peer -> SUBSET Edit]

Sources(L, bd, pd, op) ==
  /\ \A p \in Peer : (~op[p] => bd[p] = {}) /\ pd[p] \subseteq bd[p]
  /\ \A p \in Peer : \A e \in bd[p] : e \in bd[Author[e]]
  /\ \A c \in Pair : \A n \in DOMAIN L[c] : L[c][n].msg.edits \subseteq bd[c[1]]

OneSender(L) ==
  \A c, d \in Pair : \A n \in DOMAIN L[c], x \in DOMAIN L[d] :
    LET w == L[c][n]
        v == L[d][x] IN
    w.id = v.id /\ w.id # None => c[1] = d[1] /\ w.msg = v.msg

NoLargeRequest(L) ==
  \A c \in Pair : \A n \in DOMAIN L[c] : L[c][n].id # None => L[c][n].msg.type # "step1"

Ids(L, hd) ==
  /\ OneSender(L)
  /\ NoLargeRequest(L)
  /\ \A q \in Peer, i \in Id : hd[q][i] # 1..Chunks

Lacks(bd, op, c, e) == op[c[2]] /\ e \in bd[c[1]] /\ e \notin bd[c[2]]

Told(L, bd, pd, hd, op) == \A c \in Pair : \A e \in Edit :
  Author[e] = c[1] /\ Lacks(bd, op, c, e) =>
    e \in pd[c[1]] \/ Carried(L[c], hd[c[2]], e) \/ Wanted(L[<<c[2], c[1]>>], e)

(* The lines after p has said s. *)
Grown(L, p, s) == [c \in Pair |-> IF c[1] = p THEN L[c] \o s ELSE L[c]]

(* Both directions between two peers. *)
LEMMA Pairs ==
  ASSUME NEW c \in Pair
  PROVE  c[1] \in Peer /\ c[2] \in Peer /\ <<c[2], c[1]>> \in Pair /\ c = <<c[1], c[2]>>
BY DEF Pair

(* Lines that have grown are lines. *)
LEMMA GrownType ==
  ASSUME NEW L \in LineType, NEW p \in Peer, NEW s \in Seq(Packet)
  PROVE  Grown(L, p, s) \in LineType
BY DEF Grown, LineType

(* What is on a line that has grown was there, or is new. *)
LEMMA GrownPackets ==
  ASSUME NEW L \in LineType, NEW p \in Peer, NEW s \in Seq(Packet), NEW c \in Pair,
         NEW n \in DOMAIN Grown(L, p, s)[c]
  PROVE  \/ n \in DOMAIN L[c] /\ Grown(L, p, s)[c][n] = L[c][n]
         \/ c[1] = p /\ \E x \in DOMAIN s : Grown(L, p, s)[c][n] = s[x]
<1>1. L[c] \in Seq(Packet)
  BY DEF LineType
<1>2. CASE c[1] # p
  BY <1>2 DEF Grown
<1>3. CASE c[1] = p
  <2>1. Grown(L, p, s)[c] = L[c] \o s
    BY <1>3 DEF Grown
  <2>2. n \in 1..(Len(L[c]) + Len(s))
    BY <1>1, <2>1, Joined
  <2>3. CASE n <= Len(L[c])
    <3>1. n \in 1..Len(L[c])
      BY <2>2, <2>3, <1>1
    <3>2. QED
      BY <1>1, <2>1, <3>1, Joined
  <2>4. CASE n > Len(L[c])
    <3>1. n - Len(L[c]) \in 1..Len(s) /\ n = Len(L[c]) + (n - Len(L[c]))
      BY <2>2, <2>4, <1>1
    <3>2. (L[c] \o s)[Len(L[c]) + (n - Len(L[c]))] = s[n - Len(L[c])]
      BY <1>1, <3>1, Joined
    <3>3. QED
      BY <1>3, <2>1, <3>1, <3>2
  <2>5. QED
    BY <2>2, <2>3, <2>4, <1>1
<1>4. QED
  BY <1>2, <1>3

(* What is said keeps to what its sender knows. *)
LEMMA GrowSources ==
  ASSUME NEW L \in LineType, NEW bd, NEW pd, NEW op, Sources(L, bd, pd, op),
         NEW p \in Peer, NEW m \in Message, NEW s, NEW free \in SUBSET Id,
         Packets(m, s, free), m.edits \subseteq bd[p]
  PROVE  Sources(Grown(L, p, s), bd, pd, op)
<1>1. s \in Seq(Packet) /\ \A n \in DOMAIN s : s[n].msg = m
  BY PacketsOf
<1>2. ASSUME NEW c \in Pair, NEW n \in DOMAIN Grown(L, p, s)[c]
      PROVE  Grown(L, p, s)[c][n].msg.edits \subseteq bd[c[1]]
  <2>1. CASE n \in DOMAIN L[c] /\ Grown(L, p, s)[c][n] = L[c][n]
    BY <2>1 DEF Sources
  <2>2. CASE c[1] = p /\ \E x \in DOMAIN s : Grown(L, p, s)[c][n] = s[x]
    BY <1>1, <2>2
  <2>3. QED
    BY <1>1, <2>1, <2>2, GrownPackets
<1>3. QED
  BY <1>2 DEF Sources

(* A new message gets an id of its own. *)
LEMMA GrowIds ==
  ASSUME NEW L \in LineType, NEW hd, Ids(L, hd),
         NEW p \in Peer, NEW m \in Message, NEW s, NEW free \in SUBSET Id,
         Packets(m, s, free),
         \A i \in free : \A c \in Pair : \A n \in DOMAIN L[c] : L[c][n].id # i
  PROVE  Ids(Grown(L, p, s), hd)
<1> DEFINE G == Grown(L, p, s)
<1>1. s \in Seq(Packet) /\ \A n \in DOMAIN s : s[n].msg = m
  BY PacketsOf
<1>2. PICK j \in free \union {None} :
        /\ \A n \in DOMAIN s : s[n].id = j
        /\ j = None \/ (Large(m) /\ j \in free)
  BY PacketsOf
<1>3. ASSUME NEW c \in Pair, NEW n \in DOMAIN G[c]
      PROVE  \/ n \in DOMAIN L[c] /\ G[c][n] = L[c][n]
             \/ c[1] = p /\ G[c][n].msg = m /\ G[c][n].id = j
  BY <1>1, <1>2, GrownPackets
<1> HIDE DEF G
<1>4. ASSUME NEW c \in Pair, NEW d \in Pair, NEW n \in DOMAIN G[c], NEW x \in DOMAIN G[d],
             G[c][n].id = G[d][x].id, G[c][n].id # None
      PROVE  c[1] = d[1] /\ G[c][n].msg = G[d][x].msg
  <2>1. CASE G[c][n].id = j
    <3>1. j \in free
      BY <1>2, <1>4, <2>1
    <3>2. \A y \in DOMAIN L[c] : L[c][y].id # j
      BY <3>1
    <3>3. \A y \in DOMAIN L[d] : L[d][y].id # j
      BY <3>1
    <3>4. c[1] = p /\ G[c][n].msg = m
      BY <1>3, <2>1, <3>2
    <3>5. d[1] = p /\ G[d][x].msg = m
      BY <1>3, <1>4, <2>1, <3>3
    <3>6. QED
      BY <3>4, <3>5
  <2>2. CASE G[c][n].id # j
    <3>1. n \in DOMAIN L[c] /\ G[c][n] = L[c][n]
      BY <1>3, <2>2
    <3>2. x \in DOMAIN L[d] /\ G[d][x] = L[d][x]
      BY <1>3, <1>4, <2>2
    <3>3. OneSender(L)
      BY DEF Ids
    <3>4. QED
      BY <1>4, <3>1, <3>2, <3>3 DEF OneSender
  <2>3. QED
    BY <2>1, <2>2
<1>5. OneSender(G)
  BY <1>4 DEF OneSender
<1>6. ASSUME NEW c \in Pair, NEW n \in DOMAIN G[c], G[c][n].id # None
      PROVE  G[c][n].msg.type # "step1"
  <2>1. CASE n \in DOMAIN L[c] /\ G[c][n] = L[c][n]
    BY <1>6, <2>1 DEF Ids, NoLargeRequest
  <2>2. CASE G[c][n].msg = m /\ G[c][n].id = j
    BY <1>2, <1>6, <2>2 DEF Large
  <2>3. QED
    BY <1>3, <2>1, <2>2
<1>7. NoLargeRequest(G)
  BY <1>6 DEF NoLargeRequest
<1>8. QED
  BY <1>5, <1>7 DEF Ids, G

(* Who was told still is when more is said. *)
LEMMA GrowTold ==
  ASSUME NEW L \in LineType, NEW bd, NEW pd, NEW hd, NEW op, Told(L, bd, pd, hd, op),
         NEW p \in Peer, NEW s \in Seq(Packet)
  PROVE  Told(Grown(L, p, s), bd, pd, hd, op)
<1> DEFINE G == Grown(L, p, s)
<1>1. ASSUME NEW c \in Pair, NEW e
      PROVE  /\ Carried(L[c], hd[c[2]], e) => Carried(G[c], hd[c[2]], e)
             /\ Wanted(L[c], e) => Wanted(G[c], e)
  <2>1. L[c] \in Seq(Packet)
    BY DEF LineType
  <2>2. G[c] = L[c] \/ G[c] = L[c] \o s
    BY DEF Grown
  <2>3. QED
    BY <2>1, <2>2, MoreIsSaid
<1> HIDE DEF G
<1>2. \A c \in Pair : <<c[2], c[1]>> \in Pair
  BY Pairs
<1>3. Told(G, bd, pd, hd, op)
  BY <1>1, <1>2 DEF Told
<1>4. QED
  BY <1>3 DEF G

-----------------------------------------------------------------------------
(* A packet arrives *)

(* The lines when the first packet of c has arrived. *)
Dropped(L, c) == [L EXCEPT ![c] = Tail(L[c])]

(* The boards when it was w, and the heads h its receiver had. *)
Merged(bd, c, h, w) ==
  IF Completes(h, w) /\ w.msg.type # "step1"
  THEN [bd EXCEPT ![c[2]] = bd[c[2]] \union w.msg.edits] ELSE bd

(* Of a line whose first packet has arrived the rest is left. *)
LEMMA DroppedLines ==
  ASSUME NEW L \in LineType, NEW c \in Pair, L[c] # <<>>
  PROVE  /\ Dropped(L, c) \in LineType
         /\ Dropped(L, c)[c] = Tail(L[c])
         /\ \A d \in Pair : d # c => Dropped(L, c)[d] = L[d]
         /\ \A d \in Pair : \A n \in DOMAIN Dropped(L, c)[d] :
              \E x \in DOMAIN L[d] : Dropped(L, c)[d][n] = L[d][x]
<1>1. L[c] \in Seq(Packet)
  BY DEF LineType
<1>2. Tail(L[c]) \in Seq(Packet) /\
      \A n \in DOMAIN Tail(L[c]) : n + 1 \in DOMAIN L[c] /\ Tail(L[c])[n] = L[c][n + 1]
  BY <1>1, TailPackets
<1>3. /\ Dropped(L, c) \in LineType
      /\ Dropped(L, c)[c] = Tail(L[c])
      /\ \A d \in Pair : d # c => Dropped(L, c)[d] = L[d]
  BY <1>2 DEF Dropped, LineType
<1>4. ASSUME NEW d \in Pair, NEW n \in DOMAIN Dropped(L, c)[d]
      PROVE  \E x \in DOMAIN L[d] : Dropped(L, c)[d][n] = L[d][x]
  <2>1. CASE d = c
    BY <1>2, <1>3, <1>4, <2>1
  <2>2. CASE d # c
    BY <1>3, <1>4, <2>2
  <2>3. QED
    BY <2>1, <2>2
<1>5. QED
  BY <1>3, <1>4

(* The first packet of a line tells what its sender knows. *)
LEMMA FirstPacket ==
  ASSUME NEW L \in LineType, NEW c \in Pair, L[c] # <<>>
  PROVE  /\ Head(L[c]) \in Packet
         /\ 1 \in DOMAIN L[c] /\ L[c][1] = Head(L[c])
<1>1. L[c] \in Seq(Packet)
  BY DEF LineType
<1>2. QED
  BY <1>1, TailPackets

(* The board at the end of c grows to b, by what its other end knows. *)
BoardsGrow(bd, b, c, h, w) ==
  /\ \A p \in Peer : bd[p] \subseteq b[p]
  /\ \A p \in Peer : p # c[2] => b[p] = bd[p]
  /\ b[c[2]] \subseteq bd[c[2]] \union bd[c[1]]
  /\ Completes(h, w) /\ w.msg.type # "step1" => w.msg.edits \subseteq b[c[2]]

(* Boards only grow, by what the sender knows. *)
LEMMA MergedBoards ==
  ASSUME NEW L \in LineType, NEW bd \in BoardsType, NEW pd, NEW op, Sources(L, bd, pd, op),
         NEW c \in Pair, L[c] # <<>>, NEW h, NEW b, b = Merged(bd, c, h, Head(L[c]))
  PROVE  b \in BoardsType /\ BoardsGrow(bd, b, c, h, Head(L[c]))
<1> DEFINE w == Head(L[c])
<1>1. w \in Packet /\ 1 \in DOMAIN L[c] /\ L[c][1] = w
  BY FirstPacket
<1>2. c[1] \in Peer /\ c[2] \in Peer
  BY Pairs
<1>3. w.msg.edits \subseteq bd[c[1]] /\ w.msg.edits \subseteq Edit
  <2>1. w.msg.edits \subseteq bd[c[1]]
    BY <1>1 DEF Sources
  <2>2. w.msg.edits \subseteq Edit
    BY <1>1 DEF Packet, Message
  <2>3. QED
    BY <2>1, <2>2
<1> HIDE DEF w
<1>4. CASE Completes(h, w) /\ w.msg.type # "step1"
  <2>1. b = [bd EXCEPT ![c[2]] = bd[c[2]] \union w.msg.edits]
    BY <1>4 DEF Merged, w
  <2>2. QED
    BY <1>2, <1>3, <2>1 DEF BoardsType, BoardsGrow, w
<1>5. CASE ~(Completes(h, w) /\ w.msg.type # "step1")
  <2>1. b = bd
    BY <1>5 DEF Merged, w
  <2>2. QED
    BY <1>5, <2>1 DEF BoardsGrow, w
<1>6. QED
  BY <1>4, <1>5

(* An arrival keeps to what the authors know. *)
LEMMA ArriveSources ==
  ASSUME NEW L \in LineType, NEW bd \in BoardsType, NEW pd, NEW op, Sources(L, bd, pd, op),
         NEW c \in Pair, L[c] # <<>>, op[c[2]], NEW h
  PROVE  Sources(Dropped(L, c), Merged(bd, c, h, Head(L[c])), pd, op)
<1> DEFINE b == Merged(bd, c, h, Head(L[c]))
<1>1. /\ b \in BoardsType
      /\ \A p \in Peer : bd[p] \subseteq b[p]
      /\ \A p \in Peer : p # c[2] => b[p] = bd[p]
      /\ b[c[2]] \subseteq bd[c[2]] \union bd[c[1]]
  BY MergedBoards DEF BoardsGrow
<1> HIDE DEF b
<1>2. c[1] \in Peer /\ c[2] \in Peer
  BY Pairs
<1>3. ASSUME NEW p \in Peer PROVE (~op[p] => b[p] = {}) /\ pd[p] \subseteq b[p]
  BY <1>1 DEF Sources
<1>4. ASSUME NEW p \in Peer, NEW e \in b[p] PROVE e \in b[Author[e]]
  <2>1. \E x \in Peer : e \in bd[x]
    BY <1>1, <1>2
  <2>2. e \in bd[Author[e]] /\ e \in Edit
    BY <2>1 DEF Sources, BoardsType
  <2>3. Author[e] \in Peer
    BY <2>2, WhiteboardAssumption
  <2>4. QED
    BY <1>1, <2>2, <2>3
<1>5. ASSUME NEW d \in Pair, NEW n \in DOMAIN Dropped(L, c)[d]
      PROVE  Dropped(L, c)[d][n].msg.edits \subseteq b[d[1]]
  <2>1. PICK x \in DOMAIN L[d] : Dropped(L, c)[d][n] = L[d][x]
    BY DroppedLines
  <2>2. d[1] \in Peer
    BY Pairs
  <2>3. L[d][x].msg.edits \subseteq bd[d[1]]
    BY DEF Sources
  <2>4. QED
    BY <1>1, <2>1, <2>2, <2>3
<1>6. QED
  BY <1>3, <1>4, <1>5 DEF Sources, b

(* Ids stay apart. *)
LEMMA ArriveIds ==
  ASSUME NEW L \in LineType, NEW hd, Ids(L, hd), NEW c \in Pair, L[c] # <<>>,
         NEW hd2, \A q \in Peer, i \in Id : hd2[q][i] # 1..Chunks
  PROVE  Ids(Dropped(L, c), hd2)
<1> DEFINE D == Dropped(L, c)
<1>1. \A d \in Pair : \A n \in DOMAIN D[d] : \E x \in DOMAIN L[d] : D[d][n] = L[d][x]
  BY DroppedLines
<1> HIDE DEF D
<1>2. OneSender(L) /\ NoLargeRequest(L)
  BY DEF Ids
<1>3. OneSender(D)
  <2> SUFFICES ASSUME NEW d \in Pair, NEW b \in Pair, NEW n \in DOMAIN D[d], NEW x \in DOMAIN D[b],
                      D[d][n].id = D[b][x].id, D[d][n].id # None
               PROVE  d[1] = b[1] /\ D[d][n].msg = D[b][x].msg
    BY DEF OneSender
  <2>1. PICK y \in DOMAIN L[d] : D[d][n] = L[d][y]
    BY <1>1
  <2>2. PICK z \in DOMAIN L[b] : D[b][x] = L[b][z]
    BY <1>1
  <2>3. QED
    BY <1>2, <2>1, <2>2 DEF OneSender
<1>4. NoLargeRequest(D)
  BY <1>1, <1>2 DEF NoLargeRequest
<1>5. QED
  BY <1>3, <1>4 DEF Ids, D

(* The first packet of c arrives; its receiver had the heads h, and then g.*)
Arrives(L, bd, pd, op, hd, c, h, g, hd2) ==
  /\ \A p \in Peer : hd[p] \in HeadsType
  /\ Sources(L, bd, pd, op) /\ Ids(L, hd) /\ Told(L, bd, pd, hd, op)
  /\ L[c] # <<>> /\ hd[c[2]] = h /\ HeadsAfter(h, Head(L[c]), g)
  /\ hd2[c[2]] = g /\ \A p \in Peer : p # c[2] => hd2[p] = hd[p]

(* Nobody misses an arrival, except who asks in it for edits. *)
LEMMA ArriveTold ==
  ASSUME NEW L \in LineType, NEW bd \in BoardsType, NEW pd, NEW op, NEW hd, NEW c \in Pair,
         NEW h, NEW g, NEW hd2, Arrives(L, bd, pd, op, hd, c, h, g, hd2),
         NEW d \in Pair, NEW e \in Edit, Author[e] = d[1],
         Lacks(Merged(bd, c, h, Head(L[c])), op, d, e)
  PROVE  \/ e \in pd[d[1]]
         \/ Carried(Dropped(L, c)[d], hd2[d[2]], e)
         \/ Wanted(Dropped(L, c)[<<d[2], d[1]>>], e)
         \/ /\ <<d[2], d[1]>> = c /\ Whole(Head(L[c])) /\ Head(L[c]).msg.type = "step1"
            /\ e \notin Head(L[c]).msg.edits /\ e \in bd[d[1]]
<1>a. /\ \A p \in Peer : hd[p] \in HeadsType
      /\ Sources(L, bd, pd, op) /\ Ids(L, hd) /\ Told(L, bd, pd, hd, op)
      /\ L[c] # <<>> /\ hd[c[2]] = h /\ HeadsAfter(h, Head(L[c]), g)
      /\ hd2[c[2]] = g /\ \A p \in Peer : p # c[2] => hd2[p] = hd[p]
  BY DEF Arrives
<1> USE <1>a
<1> DEFINE w == Head(L[c])
           b == Merged(bd, c, h, w)
           D == Dropped(L, c)
           r == <<d[2], d[1]>>
<1>1. w \in Packet /\ 1 \in DOMAIN L[c] /\ L[c][1] = w
  BY FirstPacket
<1>2. /\ c[1] \in Peer /\ c[2] \in Peer /\ c = <<c[1], c[2]>>
      /\ d[1] \in Peer /\ d[2] \in Peer /\ r \in Pair /\ d = <<d[1], d[2]>>
  BY Pairs
<1>3. D[c] = Tail(L[c]) /\ \A x \in Pair : x # c => D[x] = L[x]
  BY DroppedLines
<1>4. /\ \A p \in Peer : bd[p] \subseteq b[p]
      /\ \A p \in Peer : p # c[2] => b[p] = bd[p]
      /\ b[c[2]] \subseteq bd[c[2]] \union bd[c[1]]
      /\ Completes(h, w) /\ w.msg.type # "step1" => w.msg.edits \subseteq b[c[2]]
  <2>1. b = Merged(bd, c, h, Head(L[c])) /\ Sources(L, bd, pd, op) /\ L[c] # <<>>
    OBVIOUS
  <2> HIDE <1>a
  <2> HIDE DEF b
  <2>2. BoardsGrow(bd, b, c, h, Head(L[c]))
    BY <2>1, MergedBoards
  <2>3. QED
    BY <2>2 DEF BoardsGrow
<1>5. L[c] \in Seq(Packet) /\ OneMessage(L[c])
  BY DEF LineType, Ids, OneSender, OneMessage
<1>6. \A p \in Peer : PartsLack(hd[p])
  BY DEF Ids, PartsLack
<1>7. g \in HeadsType
  <2>1. h \in HeadsType /\ PartsLack(h)
    BY <1>2, <1>6
  <2>2. QED
    BY <1>1, <2>1, HeadsAfterType
<1>8. Lacks(b, op, d, e)
  OBVIOUS
<1> HIDE DEF w, b, D, r
<1>9. Lacks(bd, op, d, e)
  <2>1. op[d[2]] /\ e \in b[d[1]] /\ e \notin b[d[2]]
    BY <1>8 DEF Lacks
  <2>2. e \notin bd[d[2]]
    BY <1>2, <1>4, <2>1
  <2>3. \E p \in Peer : e \in bd[p]
    BY <1>2, <1>4, <2>1
  <2>4. e \in bd[Author[e]]
    BY <2>3 DEF Sources
  <2>5. QED
    BY <2>1, <2>2, <2>4 DEF Lacks
<1>10. e \in pd[d[1]] \/ Carried(L[d], hd[d[2]], e) \/ Wanted(L[r], e)
  BY <1>9 DEF Told, r
<1>11. ASSUME Carried(L[d], hd[d[2]], e)
       PROVE  Carried(D[d], hd2[d[2]], e)
  <2>1. CASE d = c
    <3>1. Carried(L[c], h, e)
      BY <1>11, <2>1
    <3>2. h \in HeadsType /\ PartsLack(h)
      BY <1>2, <1>6
    <3>3. Carried(Tail(L[c]), g, e) \/ (Completes(h, w) /\ Tells(w, e))
      BY <1>5, <3>1, <3>2, CarriedOn DEF w
    <3>4. CASE Completes(h, w) /\ Tells(w, e)
      <4>1. e \in b[c[2]]
        BY <1>4, <3>4 DEF Tells
      <4>2. QED
        BY <1>8, <2>1, <4>1 DEF Lacks
    <3>5. QED
      BY <1>3, <2>1, <3>3, <3>4
  <2>2. CASE d # c /\ d[2] = c[2]
    <3>1. CASE Whole(w)
      <4>1. g = h
        BY <3>1 DEF HeadsAfter, Whole, IsHead, IsChunk, w
      <4>2. QED
        BY <1>3, <1>11, <2>2, <4>1
    <3>2. CASE ~Whole(w)
      <4>1. d[1] # c[1]
        BY <1>2, <2>2
      <4>2. ASSUME NEW n \in DOMAIN L[d], L[d][n].id = w.id PROVE FALSE
        <5>1. w.id # None
          BY <3>2 DEF Whole
        <5>2. OneSender(L)
          BY DEF Ids
        <5>3. d[1] = c[1]
          BY <1>1, <4>2, <5>1, <5>2 DEF OneSender
        <5>4. QED
          BY <4>1, <5>3
      <4>3. \A i \in Id : i # w.id => g[i] = h[i]
        BY <1>1, <1>2, HeadsAfterOthers DEF w
      <4>4. Carried(L[d], g, e)
        <5> DEFINE l == L[d]
        <5>1. h \in HeadsType /\ PartsLack(h)
          BY <1>2, <1>6
        <5>2. Carried(l, h, e)
          BY <1>11, <2>2
        <5>3. Aside(l, h, g, w.id)
          BY <4>2, <4>3 DEF Aside
        <5> HIDE DEF l
        <5>4. Carried(l, g, e)
          BY <1>7, <5>1, <5>2, <5>3, CarriedAside
        <5>5. QED
          BY <5>4 DEF l
      <4>5. QED
        BY <1>3, <2>2, <4>4
    <3>3. QED
      BY <3>1, <3>2
  <2>3. CASE d # c /\ d[2] # c[2]
    BY <1>2, <1>3, <1>11, <2>3
  <2>4. QED
    BY <2>1, <2>2, <2>3
<1>12. ASSUME Wanted(L[r], e)
       PROVE  Wanted(D[r], e) \/ (r = c /\ Whole(w) /\ w.msg.type = "step1" /\ e \notin w.msg.edits)
  <2>1. CASE r = c
    <3>1. Wanted(L[c], e)
      BY <1>12, <2>1
    <3>2. \/ Wanted(Tail(L[c]), e)
          \/ Whole(w) /\ w.msg.type = "step1" /\ e \notin w.msg.edits
      BY <1>5, <3>1, WantedOn DEF w
    <3>3. QED
      BY <1>3, <2>1, <3>2
  <2>2. CASE r # c
    BY <1>2, <1>3, <1>12, <2>2
  <2>3. QED
    BY <2>1, <2>2
<1>13. e \in bd[d[1]]
  BY <1>9 DEF Lacks
<1>14. QED
  BY <1>10, <1>11, <1>12, <1>13 DEF w, D, r

(* A packet that reaches a closed board was missed by nobody. *)
LEMMA ArriveClosed ==
  ASSUME NEW L \in LineType, NEW bd, NEW pd, NEW op, NEW hd,
         Told(L, bd, pd, hd, op), NEW c \in Pair, L[c] # <<>>, ~op[c[2]], bd[c[2]] = {}
  PROVE  Told(Dropped(L, c), bd, pd, hd, op)
<1> DEFINE D == Dropped(L, c)
<1>1. \A x \in Pair : x # c => D[x] = L[x]
  BY DroppedLines
<1> HIDE DEF D
<1>2. ASSUME NEW d \in Pair, NEW e \in Edit, Author[e] = d[1], Lacks(bd, op, d, e)
      PROVE  e \in pd[d[1]] \/ Carried(D[d], hd[d[2]], e) \/ Wanted(D[<<d[2], d[1]>>], e)
  <2>1. d # c /\ <<d[2], d[1]>> # c
    <3>1. <<d[2], d[1]>>[2] = d[1]
      OBVIOUS
    <3>2. QED
      BY <1>2, <3>1 DEF Lacks
  <2>2. <<d[2], d[1]>> \in Pair
    BY Pairs
  <2>3. D[d] = L[d] /\ D[<<d[2], d[1]>>] = L[<<d[2], d[1]>>]
    BY <1>1, <2>1, <2>2
  <2>4. QED
    BY <1>2, <2>3 DEF Told
<1>3. QED
  BY <1>2 DEF Told, D

-----------------------------------------------------------------------------
(* What the steps do to the lines *)

(* What a peer has said and not published. *)
Out(p) == sending[p] \o queue[p]

OutGrows(p, s) == \A x \in Peer : Out(x)' = IF x = p THEN Out(x) \o s ELSE Out(x)

OneDrain == \A p \in Peer :
  Len(sending[p]) \in 0..1 /\ (publishing[p] <=> Len(sending[p]) = 1)

Free == {i \in Id : ~Used(i)}

(* Joining lines. *)
LEMMA JoinedThrice ==
  ASSUME NEW r \in Seq(Packet), NEW s \in Seq(Packet), NEW t \in Seq(Packet)
  PROVE  (r \o s) \o t = r \o (s \o t)
OBVIOUS

(* Lines joined to nothing, or taken apart. *)
LEMMA Joins ==
  ASSUME NEW r \in Seq(Packet)
  PROVE  /\ r \o <<>> = r /\ <<>> \o r = r
         /\ r # <<>> => <<Head(r)>> \o Tail(r) = r /\ Tail(r) \in Seq(Packet)
         /\ Len(r) = 0 => r = <<>>
OBVIOUS

(* The first packet of two lines is the first one's. *)
LEMMA FirstOfJoined ==
  ASSUME NEW r \in Seq(Packet), r # <<>>, NEW s \in Seq(Packet)
  PROVE  Head(r \o s) = Head(r) /\ Tail(r \o s) = Tail(r) \o s /\ r \o s # <<>>
OBVIOUS

(* A packet that is appended is joined to the line. *)
LEMMA AppendJoins ==
  ASSUME NEW r \in Seq(Packet), NEW w \in Packet
  PROVE  Append(r, w) = r \o <<w>> /\ <<w>> \in Seq(Packet)
OBVIOUS

(* A drain that starts takes the first packet and leaves their order. *)
LEMMA DrainWithOut ==
  ASSUME OutType, OneDrain, NEW p \in Peer, NEW s \in Seq(Packet), NEW r,
         DrainWith(p, queue[p] \o s, r)
  PROVE  OutGrows(p, s) /\ OneDrain'
<1> DEFINE q == queue[p] \o s
<1>1. queue[p] \in Seq(Packet) /\ sending[p] \in Seq(Packet) /\ q \in Seq(Packet)
  BY DEF OutType
<1>2. Out(p) \o s = sending[p] \o q
  BY <1>1, JoinedThrice DEF Out
<1> HIDE DEF q
<1>3. CASE q # <<>> /\ ~publishing[p] /\ r
  <2>1. /\ publishing' = [publishing EXCEPT ![p] = TRUE]
        /\ sending' = [sending EXCEPT ![p] = Append(sending[p], Head(q))]
        /\ queue' = [queue EXCEPT ![p] = Tail(q)]
    BY <1>3 DEF DrainWith, q
  <2>2. sending[p] = <<>>
    <3>1. Len(sending[p]) = 0
      BY <1>3 DEF OneDrain
    <3>2. QED
      BY <1>1, <3>1, Joins
  <2>3. Append(<<>>, Head(q)) = <<Head(q)>> /\ Len(<<Head(q)>>) = 1
    OBVIOUS
  <2>4. sending'[p] = <<Head(q)>> /\ queue'[p] = Tail(q)
    BY <2>1, <2>2, <2>3 DEF OutType
  <2>5. Out(p)' = Out(p) \o s
    <3>1. <<Head(q)>> \o Tail(q) = q /\ <<>> \o q = q
      BY <1>1, <1>3, Joins
    <3>2. QED
      BY <1>2, <2>2, <2>4, <3>1 DEF Out
  <2>6. \A x \in Peer : x # p =>
          /\ sending'[x] = sending[x] /\ queue'[x] = queue[x] /\ publishing'[x] = publishing[x]
    BY <2>1 DEF OutType
  <2>7. OneDrain'
    <3>1. publishing'[p] = TRUE /\ Len(sending'[p]) = 1
      BY <2>1, <2>3, <2>4 DEF OutType
    <3>2. QED
      BY <2>6, <3>1 DEF OneDrain
  <2>8. QED
    BY <2>5, <2>6, <2>7 DEF OutGrows, Out
<1>4. CASE ~(q # <<>> /\ ~publishing[p] /\ r)
  <2>1. queue' = [queue EXCEPT ![p] = q] /\ publishing' = publishing /\ sending' = sending
    BY <1>4 DEF DrainWith, q
  <2>2. \A x \in Peer : Out(x)' = IF x = p THEN sending[x] \o q ELSE Out(x)
    BY <2>1 DEF Out, OutType
  <2>3. QED
    BY <1>2, <2>1, <2>2 DEF OutGrows, OneDrain
<1>5. QED
  BY <1>3, <1>4

(* What is said joins the line. *)
LEMMA SayOut ==
  ASSUME OutType, OneDrain, NEW p \in Peer, NEW m \in Message, NEW r, Say(p, m, r)
  PROVE  \E s : Packets(m, s, Free) /\ OutGrows(p, s) /\ OneDrain'
<1>1. queue[p] \in Seq(Packet)
  BY DEF OutType
<1>2. CASE Large(m)
  <2>1. PICK i \in Id : NewId(i) /\ DrainWith(p, queue[p] \o Parts(m, i), r)
    BY <1>2 DEF Say
  <2>2. i \in Free
    BY <2>1 DEF Free, NewId
  <2>3. Parts(m, i) \in Seq(Packet)
    BY PacketTypes
  <2>4. OutGrows(p, Parts(m, i)) /\ OneDrain'
    BY <2>1, <2>3, DrainWithOut
  <2>5. Packets(m, Parts(m, i), Free)
    BY <1>2, <2>2 DEF Packets
  <2>6. QED
    BY <2>4, <2>5
<1>3. CASE ~Large(m)
  <2>1. DrainWith(p, Append(queue[p], Raw(m)), r)
    BY <1>3 DEF Say
  <2>2. Raw(m) \in Packet
    BY PacketTypes
  <2>3. Append(queue[p], Raw(m)) = queue[p] \o <<Raw(m)>> /\ <<Raw(m)>> \in Seq(Packet)
    BY <1>1, <2>2, AppendJoins
  <2>4. OutGrows(p, <<Raw(m)>>) /\ OneDrain'
    BY <2>1, <2>3, DrainWithOut
  <2>5. Packets(m, <<Raw(m)>>, Free)
    BY <1>3 DEF Packets
  <2>6. QED
    BY <2>4, <2>5
<1>4. QED
  BY <1>2, <1>3

(* Nothing is said when nothing is put out. *)
LEMMA NothingOut ==
  ASSUME OutType, OneDrain, NEW p \in Peer, UNCHANGED outbound
  PROVE  OutGrows(p, <<>>) /\ OneDrain'
<1>1. \A x \in Peer : sending'[x] = sending[x] /\ queue'[x] = queue[x] /\ publishing'[x] = publishing[x]
  BY DEF outbound
<1>2. OneDrain'
  BY <1>1 DEF OneDrain
<1>3. Out(p) \in Seq(Packet)
  BY DEF OutType, Out
<1>4. \A x \in Peer : Out(x)' = Out(x)
  BY <1>1 DEF Out
<1>5. Out(p) \o <<>> = Out(p)
  BY <1>3, Joins
<1>6. QED
  BY <1>2, <1>4, <1>5 DEF OutGrows

(* A line is what is on the wire and what its sender has not published. *)
LEMMA LinesTyped ==
  ASSUME OutType, WireType
  PROVE  Lines \in LineType /\ \A c \in Pair : Lines[c] = wire[c] \o Out(c[1])
<1>1. \A c \in Pair : wire[c] \in Seq(Packet) /\ Out(c[1]) \in Seq(Packet)
  BY DEF Pair, WireType, OutType, Out
<1>2. \A c \in Pair : wire[c] \o Out(c[1]) \in Seq(Packet)
  BY <1>1
<1>3. \A c \in Pair : Lines[c] = wire[c] \o Out(c[1])
  BY DEF Lines, Out
<1>4. Lines = [c \in Pair |-> Lines[c]]
  BY DEF Lines
<1>5. QED
  BY <1>2, <1>3, <1>4 DEF LineType

(* What is on the lines has an id in use. *)
LEMMA FreeIds ==
  ASSUME OutType, WireType, NEW i \in Free, NEW c \in Pair, NEW n \in DOMAIN Lines[c]
  PROVE  Lines[c][n].id # i
<1> DEFINE a == c[1]
<1>1. a \in Peer /\ c \in Peer \X Peer
  BY Pairs DEF Pair
<1>2. wire[c] \in Seq(Packet) /\ sending[a] \in Seq(Packet) /\ queue[a] \in Seq(Packet)
  BY <1>1 DEF WireType, OutType
<1>3. /\ \A x \in DOMAIN wire[c] : wire[c][x].id # i
      /\ \A x \in DOMAIN sending[a] : sending[a][x].id # i
      /\ \A x \in DOMAIN queue[a] : queue[a][x].id # i
  BY <1>1 DEF Free, Used
<1>4. Lines[c] = wire[c] \o (sending[a] \o queue[a])
  BY DEF Lines
<1> HIDE DEF a
<1>5. ASSUME NEW l \in Seq(Packet), NEW s \in Seq(Packet),
             \A x \in DOMAIN l : l[x].id # i, \A x \in DOMAIN s : s[x].id # i
      PROVE  \A x \in DOMAIN (l \o s) : (l \o s)[x].id # i
  <2>1. ASSUME NEW x \in DOMAIN (l \o s) PROVE (l \o s)[x].id # i
    <3>1. \/ x \in DOMAIN l /\ (l \o s)[x] = l[x]
          \/ x - Len(l) \in DOMAIN s /\ (l \o s)[x] = s[x - Len(l)]
      OBVIOUS
    <3>2. QED
      BY <1>5, <3>1
  <2>2. QED
    BY <2>1
<1>6. sending[a] \o queue[a] \in Seq(Packet)
  BY <1>2
<1>7. \A x \in DOMAIN (sending[a] \o queue[a]) : (sending[a] \o queue[a])[x].id # i
  BY <1>2, <1>3, <1>5
<1>8. \A x \in DOMAIN Lines[c] : Lines[c][x].id # i
  BY <1>2, <1>3, <1>4, <1>5, <1>6, <1>7
<1>9. QED
  BY <1>8

(* The lines after p has said s. *)
LEMMA LinesGrow ==
  ASSUME OutType, WireType, OutType', NEW p \in Peer, NEW s \in Seq(Packet), OutGrows(p, s),
         wire' = wire
  PROVE  Lines' = Grown(Lines, p, s)
<1>1. \A c \in Pair : Lines[c] = wire[c] \o Out(c[1])
  BY LinesTyped
<1>2. WireType'
  BY DEF WireType
<1>3. Lines' = [c \in Pair |-> wire'[c] \o Out(c[1])']
  BY DEF Lines, Out
<1>4. ASSUME NEW c \in Pair
      PROVE  wire'[c] \o Out(c[1])' = IF c[1] = p THEN Lines[c] \o s ELSE Lines[c]
  <2>1. PICK a \in Peer : a = c[1]
    BY Pairs
  <2>2. Out(a)' = IF a = p THEN Out(a) \o s ELSE Out(a)
    BY DEF OutGrows
  <2>3. wire[c] \in Seq(Packet) /\ Out(a) \in Seq(Packet)
    BY <2>1 DEF Pair, WireType, OutType, Out
  <2>4. wire[c] \o (Out(a) \o s) = (wire[c] \o Out(a)) \o s
    BY <2>3, JoinedThrice
  <2>5. Lines[c] = wire[c] \o Out(a)
    BY <1>1, <2>1
  <2>6. wire'[c] \o Out(a)' = IF a = p THEN Lines[c] \o s ELSE Lines[c]
    BY <2>2, <2>4, <2>5
  <2>7. QED
    BY <2>1, <2>6
<1>5. QED
  BY <1>3, <1>4 DEF Grown

(* The lines after the first packet of one has arrived, and p has said s.  *)
LEMMA LinesDrop ==
  ASSUME OutType, WireType, OutType', NEW p \in Peer, NEW s \in Seq(Packet), OutGrows(p, s),
         NEW c \in Pair, wire[c] # <<>>, wire' = [wire EXCEPT ![c] = Tail(wire[c])]
  PROVE  /\ Lines[c] # <<>> /\ Head(Lines[c]) = Head(wire[c])
         /\ Lines' = Grown(Dropped(Lines, c), p, s)
<1>1. Lines \in LineType /\ \A d \in Pair : Lines[d] = wire[d] \o Out(d[1])
  BY LinesTyped
<1>2. Lines' = [d \in Pair |-> wire'[d] \o Out(d[1])']
  BY DEF Lines, Out
<1>3. c[1] \in Peer /\ wire[c] \in Seq(Packet) /\ Out(c[1]) \in Seq(Packet) /\ c \in Peer \X Peer
  BY Pairs DEF Pair, WireType, OutType, Out
<1>4. Lines[c] # <<>> /\ Head(Lines[c]) = Head(wire[c]) /\ Tail(Lines[c]) = Tail(wire[c]) \o Out(c[1])
  <2> DEFINE l == wire[c]
             o == Out(c[1])
  <2>1. l \in Seq(Packet) /\ l # <<>> /\ o \in Seq(Packet)
    BY <1>3
  <2>2. Lines[c] = l \o o
    BY <1>1
  <2> HIDE DEF l, o
  <2>3. Head(l \o o) = Head(l) /\ Tail(l \o o) = Tail(l) \o o /\ l \o o # <<>>
    BY <2>1, FirstOfJoined
  <2>4. Lines[c] # <<>> /\ Head(Lines[c]) = Head(l) /\ Tail(Lines[c]) = Tail(l) \o o
    BY <2>2, <2>3
  <2>5. QED
    BY <2>4 DEF l, o
<1>5. ASSUME NEW d \in Pair
      PROVE  wire'[d] \o Out(d[1])' =
               IF d[1] = p THEN Dropped(Lines, c)[d] \o s ELSE Dropped(Lines, c)[d]
  <2>1. PICK a \in Peer : a = d[1]
    BY Pairs
  <2>2. Out(a)' = IF a = p THEN Out(a) \o s ELSE Out(a)
    BY DEF OutGrows
  <2>3. wire'[d] \in Seq(Packet) /\ Out(a) \in Seq(Packet)
    <3>1. d \in Peer \X Peer /\ wire[d] \in Seq(Packet)
      BY DEF Pair, WireType
    <3>2. Tail(wire[c]) \in Seq(Packet)
      BY <1>3, Joins
    <3>3. wire'[d] \in Seq(Packet)
      BY <3>1, <3>2 DEF WireType
    <3>4. QED
      BY <3>3 DEF OutType, Out
  <2>4. wire'[d] \o (Out(a) \o s) = (wire'[d] \o Out(a)) \o s
    BY <2>3, JoinedThrice
  <2>5. Dropped(Lines, c)[d] = wire'[d] \o Out(a)
    <3>1. Dropped(Lines, c)[d] = IF d = c THEN Tail(Lines[c]) ELSE Lines[d]
      BY <1>1 DEF Dropped, LineType
    <3>2. wire'[d] = IF d = c THEN Tail(wire[c]) ELSE wire[d]
      BY <1>3 DEF Pair, WireType
    <3>3. QED
      BY <1>1, <1>4, <2>1, <3>1, <3>2
  <2>6. wire'[d] \o Out(a)' = IF a = p THEN Dropped(Lines, c)[d] \o s ELSE Dropped(Lines, c)[d]
    BY <2>2, <2>4, <2>5
  <2>7. QED
    BY <2>1, <2>6
<1>6. Lines' = Grown(Dropped(Lines, c), p, s)
  BY <1>2, <1>5 DEF Grown
<1>7. QED
  BY <1>4, <1>6

(* Saying nothing leaves the lines. *)
LEMMA GrownByNothing ==
  ASSUME NEW L \in LineType, NEW p \in Peer
  PROVE  Grown(L, p, <<>>) = L
<1>1. \A c \in Pair : L[c] \in Seq(Packet)
  BY DEF LineType
<1>2. \A c \in Pair : L[c] \o <<>> = L[c]
  BY <1>1, Joins
<1>3. L = [c \in Pair |-> L[c]]
  BY DEF LineType
<1>4. QED
  BY <1>2, <1>3 DEF Grown

-----------------------------------------------------------------------------
(* Steps in which nothing goes wrong *)

(* The invariant of the lines L and boards bd, but for the drains. *)
Calm(L, bd, pd, hd, op) ==
  Sources(L, bd, pd, op) /\ Ids(L, hd) /\ Told(L, bd, pd, hd, op)

Connected == \A p \in Peer : linked[p] /\ up[p] /\ wire[<<p, p>>] = <<>>

CalmParts == Connected /\ OneDrain /\ Calm(Lines, board, pending, heads, open)

(* The parts are those of CalmInv. *)
LEMMA CalmForms ==
  /\ CalmParts <=> DrainInv /\ SourceInv /\ IdInv /\ ToldInv
  /\ CalmParts' <=> DrainInv' /\ SourceInv' /\ IdInv' /\ ToldInv'
<1>1. (Connected /\ OneDrain) <=> DrainInv
  BY DEF Connected, OneDrain, DrainInv
<1>2. (Connected /\ OneDrain)' <=> DrainInv'
  BY DEF Connected, OneDrain, DrainInv
<1>3. SourceInv <=> Sources(Lines, board, pending, open)
  BY DEF SourceInv, Sources
<1>4. SourceInv' <=> Sources(Lines', board', pending', open')
  BY DEF SourceInv, Sources
<1>5. IdInv <=> Ids(Lines, heads)
  BY DEF IdInv, Ids, OneSender, NoLargeRequest
<1>6. IdInv' <=> Ids(Lines', heads')
  BY DEF IdInv, Ids, OneSender, NoLargeRequest
<1>7. ToldInv <=> Told(Lines, board, pending, heads, open)
  BY DEF ToldInv, Told, Lacks
<1>8. ToldInv' <=> Told(Lines', board', pending', heads', open')
  BY DEF ToldInv, Told, Lacks
<1>9. CalmParts <=> DrainInv /\ SourceInv /\ IdInv /\ ToldInv
  BY <1>1, <1>3, <1>5, <1>7 DEF CalmParts, Calm
<1>10. CalmParts' <=> DrainInv' /\ SourceInv' /\ IdInv' /\ ToldInv'
  BY <1>2, <1>4, <1>6, <1>8 DEF CalmParts, Calm
<1>11. QED
  BY <1>9, <1>10

(* The invariant is kept when a peer says what it knows. *)
LEMMA CalmGrows ==
  ASSUME NEW L \in LineType, NEW bd, NEW pd, NEW hd, NEW op, Calm(L, bd, pd, hd, op),
         NEW p \in Peer, NEW m \in Message, NEW s, NEW free \in SUBSET Id,
         Packets(m, s, free), m.edits \subseteq bd[p],
         \A i \in free : \A c \in Pair : \A n \in DOMAIN L[c] : L[c][n].id # i
  PROVE  Calm(Grown(L, p, s), bd, pd, hd, op)
<1>1. Sources(Grown(L, p, s), bd, pd, op)
  BY GrowSources DEF Calm
<1>2. Ids(Grown(L, p, s), hd)
  BY GrowIds DEF Calm
<1>3. s \in Seq(Packet)
  BY PacketsOf
<1>4. Told(Grown(L, p, s), bd, pd, hd, op)
  BY <1>3, GrowTold DEF Calm
<1>5. QED
  BY <1>1, <1>2, <1>4 DEF Calm

(* Lines that stay as they are. *)
LEMMA LinesSame ==
  ASSUME OutType, WireType, OutType', WireType',
         \A c \in Pair : wire'[c] \o Out(c[1])' = Lines[c]
  PROVE  Lines' = Lines
<1>1. Lines' = [c \in Pair |-> wire'[c] \o Out(c[1])']
  BY DEF Lines, Out
<1>2. Lines = [c \in Pair |-> Lines[c]]
  BY DEF Lines
<1>3. QED
  BY <1>1, <1>2

(* The one drain of a peer has one packet. *)
LEMMA OnePacket ==
  ASSUME OutType, OneDrain, NEW p \in Peer, NEW i \in DOMAIN sending[p]
  PROVE  /\ i = 1 /\ Len(sending[p]) = 1 /\ sending[p] = <<sending[p][1]>>
         /\ sending[p][1] \in Packet /\ publishing[p]
         /\ Without(sending[p], 1) = <<>>
<1>1. sending[p] \in Seq(Packet) /\ Len(sending[p]) \in 0..1
  BY DEF OutType, OneDrain
<1>2. Len(sending[p]) = 1 /\ i = 1
  BY <1>1
<1>3. sending[p] = <<sending[p][1]>> /\ sending[p][1] \in Packet
  BY <1>1, <1>2
<1>4. Without(sending[p], 1) = <<>>
  BY <1>1, <1>2 DEF Without
<1>5. QED
  BY <1>2, <1>3, <1>4 DEF OneDrain

(* A packet that has been sent is on the same lines. *)
LEMMA SentCalm ==
  ASSUME TypeOK, TypeOK', CalmParts, NEW p \in Peer, NEW i \in DOMAIN sending[p], Sent(p, i)
  PROVE  CalmParts'
<1>1. OutType /\ OutType' /\ WireType /\ WireType'
  BY DEF TypeOK, OutType, WireType
<1>2. Connected /\ OneDrain
  BY DEF CalmParts
<1> DEFINE w == sending[p][1]
<1>3. /\ i = 1 /\ Len(sending[p]) = 1 /\ sending[p] = <<w>> /\ w \in Packet /\ publishing[p]
      /\ Without(sending[p], 1) = <<>>
  BY <1>1, <1>2, OnePacket
<1> HIDE DEF w
<1>4. queue[p] \in Seq(Packet)
  BY <1>1 DEF OutType
<1>5. UNCHANGED <<open, linked, up, board, pending, heads>>
  BY DEF Sent
<1>6. /\ sending'[p] \o queue'[p] = queue[p]
      /\ Len(sending'[p]) \in 0..1 /\ (publishing'[p] <=> Len(sending'[p]) = 1)
      /\ \A x \in Peer : x # p =>
           sending'[x] = sending[x] /\ queue'[x] = queue[x] /\ publishing'[x] = publishing[x]
  <2>1. CASE queue[p] # <<>>
    <3>1. /\ sending' = [sending EXCEPT ![p][1] = Head(queue[p])]
          /\ queue' = [queue EXCEPT ![p] = Tail(queue[p])]
          /\ UNCHANGED publishing
      BY <1>3, <2>1 DEF Sent
    <3>2. sending'[p] = [sending[p] EXCEPT ![1] = Head(queue[p])]
      BY <1>1, <3>1 DEF OutType
    <3>3. [<<w>> EXCEPT ![1] = Head(queue[p])] = <<Head(queue[p])>>
      OBVIOUS
    <3>4. sending'[p] = <<Head(queue[p])>> /\ queue'[p] = Tail(queue[p])
      BY <1>1, <1>3, <3>1, <3>2, <3>3 DEF OutType
    <3>5. <<Head(queue[p])>> \o Tail(queue[p]) = queue[p]
      BY <1>4, <2>1, Joins
    <3>6. Len(<<Head(queue[p])>>) = 1
      OBVIOUS
    <3>7. \A x \in Peer : x # p =>
            sending'[x] = sending[x] /\ queue'[x] = queue[x] /\ publishing'[x] = publishing[x]
      BY <1>1, <3>1 DEF OutType
    <3>8. Len(sending'[p]) \in 0..1 /\ (publishing'[p] <=> Len(sending'[p]) = 1)
      BY <1>3, <3>1, <3>4, <3>6
    <3>9. sending'[p] \o queue'[p] = queue[p]
      BY <3>4, <3>5
    <3>10. QED
      BY <3>7, <3>8, <3>9
  <2>2. CASE queue[p] = <<>>
    <3>1. /\ sending' = [sending EXCEPT ![p] = Without(sending[p], 1)]
          /\ publishing' = [publishing EXCEPT ![p] = FALSE]
          /\ UNCHANGED queue
      BY <1>3, <2>2 DEF Sent
    <3>2. sending'[p] = <<>> /\ queue'[p] = <<>> /\ publishing'[p] = FALSE
      BY <1>1, <1>3, <2>2, <3>1 DEF OutType
    <3>3. <<>> \o <<>> = <<>> /\ Len(<<>>) = 0
      OBVIOUS
    <3>4. \A x \in Peer : x # p =>
            sending'[x] = sending[x] /\ queue'[x] = queue[x] /\ publishing'[x] = publishing[x]
      BY <1>1, <3>1 DEF OutType
    <3>5. Len(sending'[p]) \in 0..1 /\ (publishing'[p] <=> Len(sending'[p]) = 1)
      BY <3>2, <3>3
    <3>6. sending'[p] \o queue'[p] = queue[p]
      BY <2>2, <3>2, <3>3
    <3>7. QED
      BY <3>4, <3>5, <3>6
  <2>3. QED
    BY <2>1, <2>2
<1>7. OneDrain'
  BY <1>2, <1>6 DEF OneDrain
<1>8. PICK R \in SUBSET Peer :
        /\ \A q \in Peer : up[q] => q \in R
        /\ wire' = [c \in Peer \X Peer |->
             IF c[1] = p /\ c[2] # p /\ c[2] \in R THEN Append(wire[c], w) ELSE wire[c]]
  <2>1. PICK R \in SUBSET Peer :
          /\ \A q \in Peer : (up[q] => q \in R) /\ (q \in R => linked[q])
          /\ wire' = [c \in Peer \X Peer |->
               IF c[1] = p /\ c[2] # p /\ c[2] \in R THEN Append(wire[c], sending[p][i])
               ELSE wire[c]]
    BY DEF Sent
  <2>2. sending[p][i] = w
    BY <1>3
  <2>3. QED
    BY <2>1, <2>2
<1>9. Connected'
  BY <1>2, <1>5, <1>8 DEF Connected
<1>10. Lines \in LineType /\ \A c \in Pair : Lines[c] = wire[c] \o Out(c[1])
  BY <1>1, LinesTyped
<1>11. ASSUME NEW c \in Pair PROVE wire'[c] \o Out(c[1])' = Lines[c]
  <2>1. c \in Peer \X Peer /\ c[1] # c[2] /\ c[1] \in Peer /\ c[2] \in Peer /\ wire[c] \in Seq(Packet)
    BY <1>1 DEF Pair, WireType
  <2>2. PICK a \in Peer : a = c[1]
    BY <2>1
  <2>3. CASE a = p
    <3>1. wire'[c] = Append(wire[c], w)
      BY <1>2, <1>8, <2>1, <2>2, <2>3 DEF Connected
    <3>2. wire'[c] = wire[c] \o <<w>> /\ <<w>> \in Seq(Packet)
      BY <1>3, <2>1, <3>1, AppendJoins
    <3>3. Out(a)' = queue[p]
      BY <1>6, <2>3 DEF Out
    <3>4. Lines[c] = wire[c] \o (<<w>> \o queue[p])
      <4>1. Out(a) = <<w>> \o queue[p]
        BY <1>3, <2>3 DEF Out
      <4>2. Lines[c] = wire[c] \o Out(a)
        BY <1>10, <2>2
      <4>3. QED
        BY <4>1, <4>2
    <3>5. (wire[c] \o <<w>>) \o queue[p] = wire[c] \o (<<w>> \o queue[p])
      BY <1>4, <2>1, <3>2, JoinedThrice
    <3>6. wire'[c] \o Out(a)' = Lines[c]
      BY <3>2, <3>3, <3>4, <3>5
    <3>7. QED
      BY <2>2, <3>6
  <2>4. CASE a # p
    <3>1. wire'[c] = wire[c]
      BY <1>8, <2>1, <2>2, <2>4
    <3>2. Out(a)' = Out(a)
      BY <1>6, <2>4 DEF Out
    <3>3. wire'[c] \o Out(a)' = Lines[c]
      BY <1>10, <2>2, <3>1, <3>2
    <3>4. QED
      BY <2>2, <3>3
  <2>5. QED
    BY <2>3, <2>4
<1>12. Lines' = Lines
  BY <1>1, <1>11, LinesSame
<1>13. QED
  BY <1>5, <1>7, <1>9, <1>12 DEF CalmParts

(* One that could not be sent is first in the queue again. *)
LEMMA SendFailsCalm ==
  ASSUME TypeOK, TypeOK', CalmParts, NEW p \in Peer, NEW i \in DOMAIN sending[p], SendFails(p, i)
  PROVE  CalmParts'
<1>1. OutType /\ OutType' /\ WireType /\ WireType'
  BY DEF TypeOK, OutType, WireType
<1>2. Connected /\ OneDrain
  BY DEF CalmParts
<1> DEFINE w == sending[p][1]
<1>3. /\ i = 1 /\ Len(sending[p]) = 1 /\ sending[p] = <<w>> /\ w \in Packet
      /\ Without(sending[p], 1) = <<>>
  BY <1>1, <1>2, OnePacket
<1>4. /\ queue' = [queue EXCEPT ![p] = <<w>> \o queue[p]]
      /\ sending' = [sending EXCEPT ![p] = <<>>]
      /\ publishing' = [publishing EXCEPT ![p] = FALSE]
      /\ UNCHANGED <<open, linked, up, board, pending, wire, heads>>
  BY <1>3 DEF SendFails, PacketKept
<1> HIDE DEF w
<1>5. queue[p] \in Seq(Packet) /\ <<w>> \o queue[p] \in Seq(Packet)
  BY <1>1, <1>3 DEF OutType
<1>6. \A x \in Peer : Out(x)' = Out(x)
  <2>1. sending'[p] = <<>> /\ queue'[p] = <<w>> \o queue[p]
    BY <1>1, <1>4 DEF OutType
  <2>2. <<>> \o (<<w>> \o queue[p]) = <<w>> \o queue[p]
    BY <1>5, Joins
  <2>3. Out(p)' = Out(p)
    BY <1>3, <2>1, <2>2 DEF Out
  <2>4. \A x \in Peer : x # p => Out(x)' = Out(x)
    <3>1. \A x \in Peer : x # p => sending'[x] = sending[x] /\ queue'[x] = queue[x]
      BY <1>1, <1>4 DEF OutType
    <3>2. QED
      BY <3>1 DEF Out
  <2>5. QED
    BY <2>3, <2>4
<1>7. OneDrain'
  <2>1. Len(<<>>) = 0
    OBVIOUS
  <2>2. QED
    BY <1>1, <1>2, <1>4, <2>1 DEF OneDrain, OutType
<1>8. ASSUME NEW c \in Pair PROVE wire'[c] \o Out(c[1])' = Lines[c]
  <2>1. PICK a \in Peer : a = c[1]
    BY Pairs
  <2>2. wire'[c] \o Out(a)' = wire[c] \o Out(a)
    BY <1>4, <1>6
  <2>3. Lines[c] = wire[c] \o Out(a)
    BY <1>1, <2>1, LinesTyped
  <2>4. QED
    BY <2>1, <2>2, <2>3
<1>9. Lines' = Lines
  BY <1>1, <1>8, LinesSame
<1>10. Connected'
  BY <1>2, <1>4 DEF Connected
<1>11. QED
  BY <1>4, <1>7, <1>9, <1>10 DEF CalmParts

(* What a peer says of what it knows joins its lines. *)
LEMMA SayCalm ==
  ASSUME TypeOK, TypeOK', CalmParts, NEW p \in Peer, NEW m \in Message, NEW r, Say(p, m, r),
         m.edits \subseteq board[p], wire' = wire
  PROVE  \E s : /\ Packets(m, s, Free) /\ s \in Seq(Packet)
                /\ Lines' = Grown(Lines, p, s) /\ OneDrain'
                /\ Calm(Lines', board, pending, heads, open)
<1>1. OutType /\ OutType' /\ WireType /\ Lines \in LineType
  BY LinesTyped DEF TypeOK, OutType, WireType
<1>2. PICK s : Packets(m, s, Free) /\ OutGrows(p, s) /\ OneDrain'
  BY <1>1, SayOut DEF CalmParts
<1>3. Free \in SUBSET Id
  BY DEF Free
<1>4. s \in Seq(Packet)
  BY <1>2, <1>3, PacketsOf
<1>5. Lines' = Grown(Lines, p, s)
  BY <1>1, <1>2, <1>4, LinesGrow
<1>6. \A i \in Free : \A c \in Pair : \A n \in DOMAIN Lines[c] : Lines[c][n].id # i
  BY <1>1, FreeIds
<1>7. Calm(Lines, board, pending, heads, open)
  BY DEF CalmParts
<1>8. Calm(Grown(Lines, p, s), board, pending, heads, open)
  BY <1>1, <1>2, <1>3, <1>6, <1>7, CalmGrows
<1>9. QED
  BY <1>2, <1>4, <1>5, <1>8

(* Nor does saying nothing disturb anybody. *)
LEMMA QuietCalm ==
  ASSUME TypeOK, TypeOK', CalmParts, UNCHANGED outbound, wire' = wire
  PROVE  Lines' = Lines /\ OneDrain'
<1>1. OutType /\ OutType' /\ WireType /\ Lines \in LineType
  BY LinesTyped DEF TypeOK, OutType, WireType
<1>2. Host \in Peer
  BY WhiteboardAssumption
<1>3. OutGrows(Host, <<>>) /\ OneDrain'
  BY <1>1, <1>2, NothingOut DEF CalmParts
<1>4. <<>> \in Seq(Packet)
  OBVIOUS
<1>5. Lines' = Grown(Lines, Host, <<>>)
  BY <1>1, <1>2, <1>3, <1>4, LinesGrow
<1>6. QED
  BY <1>1, <1>2, <1>3, <1>5, GrownByNothing

(* Connections are left alone. *)
LEMMA ConnectedStays ==
  ASSUME CalmParts, linked' = linked, up' = up, wire' = wire
  PROVE  Connected'
BY DEF CalmParts, Connected

(* The retry timer takes up what waits. *)
LEMMA RetryCalm ==
  ASSUME TypeOK, TypeOK', CalmParts, NEW p \in Peer, Retry(p)
  PROVE  CalmParts'
<1>1. OutType /\ OutType' /\ WireType /\ Lines \in LineType /\ OneDrain
  BY LinesTyped DEF TypeOK, OutType, WireType, CalmParts
<1>2. DrainWith(p, queue[p], up[p]) /\ UNCHANGED <<open, linked, up, board, pending, wire, heads>>
  BY DEF Retry
<1>3. queue[p] \o <<>> = queue[p] /\ <<>> \in Seq(Packet)
  <2>1. queue[p] \in Seq(Packet)
    BY <1>1 DEF OutType
  <2>2. QED
    BY <2>1, Joins
<1>4. OutGrows(p, <<>>) /\ OneDrain'
  BY <1>1, <1>2, <1>3, DrainWithOut
<1>5. Lines' = Lines
  <2>1. Lines' = Grown(Lines, p, <<>>)
    BY <1>1, <1>2, <1>3, <1>4, LinesGrow
  <2>2. QED
    BY <1>1, <2>1, GrownByNothing
<1>6. QED
  BY <1>2, <1>4, <1>5, ConnectedStays DEF CalmParts

(* A board that opens asks for everything. *)
LEMMA OpenCalm ==
  ASSUME TypeOK, TypeOK', CalmParts, NEW p \in Peer, Open(p)
  PROVE  CalmParts'
<1> DEFINE m == [type |-> "step1", edits |-> {}]
<1>1. m \in Message /\ m.edits \subseteq board[p] /\ m.type = "step1" /\ m.edits = {}
  BY DEF Message
<1>2. Say(p, m, up[p])
  BY DEF Open, RequestSync, CalmParts, Connected
<1> HIDE DEF m
<1>3. /\ open' = [open EXCEPT ![p] = TRUE]
      /\ UNCHANGED <<linked, up, board, pending, wire, heads>>
  BY DEF Open
<1>4. PICK s : /\ Packets(m, s, Free) /\ s \in Seq(Packet)
               /\ Lines' = Grown(Lines, p, s) /\ OneDrain'
               /\ Calm(Lines', board, pending, heads, open)
  BY <1>1, <1>2, <1>3, SayCalm
<1>5. \A x \in Peer : x # p => open'[x] = open[x]
  BY <1>3 DEF TypeOK
<1>6. Sources(Lines', board, pending, open')
  BY <1>4, <1>3 DEF Calm, Sources, TypeOK
<1>7. ASSUME NEW c \in Pair, NEW e \in Edit, Author[e] = c[1], Lacks(board, open', c, e)
      PROVE  e \in pending[c[1]] \/ Carried(Lines'[c], heads[c[2]], e)
             \/ Wanted(Lines'[<<c[2], c[1]>>], e)
  <2>1. c[1] \in Peer /\ c[2] \in Peer /\ <<c[2], c[1]>> \in Pair
    BY Pairs
  <2>2. CASE c[2] = p
    <3>1. Lines'[<<c[2], c[1]>>] = Lines[<<c[2], c[1]>>] \o s
      BY <1>4, <2>1, <2>2 DEF Grown
    <3>2. Lines[<<c[2], c[1]>>] \in Seq(Packet)
      <4>1. Lines \in LineType
        BY LinesTyped DEF TypeOK, OutType, WireType
      <4>2. QED
        BY <2>1, <4>1 DEF LineType
    <3>3. Free \in SUBSET Id /\ e \notin m.edits
      BY <1>1 DEF Free
    <3>4. Wanted(Lines'[<<c[2], c[1]>>], e)
      BY <1>1, <1>4, <3>1, <3>2, <3>3, SaidIsCarried
    <3>5. QED
      BY <3>4
  <2>3. CASE c[2] # p
    BY <1>4, <1>5, <1>7, <2>1, <2>3 DEF Calm, Told, Lacks
  <2>4. QED
    BY <2>2, <2>3
<1>8. Told(Lines', board, pending, heads, open')
  BY <1>7 DEF Told
<1>9. Calm(Lines', board', pending', heads', open')
  BY <1>3, <1>4, <1>6, <1>8 DEF Calm
<1>10. QED
  BY <1>3, <1>4, <1>9, ConnectedStays DEF CalmParts

(* What is drawn waits to be said. *)
LEMMA DrawCalm ==
  ASSUME TypeOK, TypeOK', CalmParts, NEW p \in Peer, NEW e \in Edit, Draw(p, e)
  PROVE  CalmParts'
<1>1. /\ open[p] /\ Author[e] = p
      /\ board' = [board EXCEPT ![p] = board[p] \union {e}]
      /\ pending' = [pending EXCEPT ![p] = pending[p] \union {e}]
      /\ UNCHANGED <<open, linked, up, outbound, wire, heads>>
  BY DEF Draw
<1>2. Lines' = Lines /\ OneDrain'
  BY <1>1, QuietCalm
<1>3. Calm(Lines, board, pending, heads, open)
  BY DEF CalmParts
<1>4. /\ board'[p] = board[p] \union {e} /\ pending'[p] = pending[p] \union {e}
      /\ \A x \in Peer : x # p => board'[x] = board[x] /\ pending'[x] = pending[x]
  BY <1>1 DEF TypeOK
<1>5. Sources(Lines, board', pending', open)
  <2>1. \A x \in Peer : (~open[x] => board'[x] = {}) /\ pending'[x] \subseteq board'[x]
    BY <1>1, <1>3, <1>4 DEF Calm, Sources
  <2>2. \A x \in Peer : board[x] \subseteq board'[x]
    BY <1>4
  <2>3. ASSUME NEW x \in Peer, NEW f \in board'[x] PROVE f \in board'[Author[f]]
    <3>1. CASE f = e
      BY <1>1, <1>4, <3>1
    <3>2. CASE f # e
      <4>1. f \in board[x]
        BY <1>4, <2>3, <3>2
      <4>2. f \in board[Author[f]] /\ f \in Edit
        BY <1>3, <4>1 DEF Calm, Sources, TypeOK
      <4>3. Author[f] \in Peer
        BY <4>2, WhiteboardAssumption
      <4>4. QED
        BY <2>2, <4>2, <4>3
    <3>3. QED
      BY <3>1, <3>2
  <2>4. ASSUME NEW c \in Pair, NEW n \in DOMAIN Lines[c]
        PROVE  Lines[c][n].msg.edits \subseteq board'[c[1]]
    <3>1. Lines[c][n].msg.edits \subseteq board[c[1]]
      BY <1>3 DEF Calm, Sources
    <3>2. c[1] \in Peer
      BY Pairs
    <3>3. QED
      BY <2>2, <3>1, <3>2
  <2>5. QED
    BY <2>1, <2>3, <2>4 DEF Sources
<1>6. ASSUME NEW c \in Pair, NEW f \in Edit, Author[f] = c[1], Lacks(board', open, c, f)
      PROVE  f \in pending'[c[1]] \/ Carried(Lines[c], heads[c[2]], f)
             \/ Wanted(Lines[<<c[2], c[1]>>], f)
  <2>1. c[1] \in Peer /\ c[2] \in Peer
    BY Pairs
  <2>2. CASE f = e
    BY <1>1, <1>4, <1>6, <2>2
  <2>3. CASE f # e
    <3>1. Lacks(board, open, c, f)
      BY <1>4, <1>6, <2>1, <2>3 DEF Lacks
    <3>2. \/ f \in pending[c[1]] \/ Carried(Lines[c], heads[c[2]], f)
          \/ Wanted(Lines[<<c[2], c[1]>>], f)
      BY <1>3, <1>6, <3>1 DEF Calm, Told
    <3>3. pending[c[1]] \subseteq pending'[c[1]]
      BY <1>4, <2>1
    <3>4. QED
      BY <3>2, <3>3
  <2>4. QED
    BY <2>2, <2>3
<1>7. Told(Lines, board', pending', heads, open)
  BY <1>6 DEF Told
<1>8. Calm(Lines', board', pending', heads', open')
  BY <1>1, <1>2, <1>3, <1>5, <1>7 DEF Calm
<1>9. QED
  BY <1>1, <1>2, <1>8, ConnectedStays DEF CalmParts

(* What waited is said. *)
LEMMA FlushCalm ==
  ASSUME TypeOK, TypeOK', CalmParts, NEW p \in Peer, Flush(p)
  PROVE  CalmParts'
<1> DEFINE m == [type |-> "update", edits |-> pending[p]]
<1>1. /\ m \in Message /\ m.edits = pending[p] /\ m.type # "step1"
      /\ m.edits \subseteq board[p]
  BY DEF Message, TypeOK, CalmParts, Calm, Sources
<1>2. /\ Say(p, m, up[p]) /\ pending' = [pending EXCEPT ![p] = {}]
      /\ UNCHANGED <<open, linked, up, board, wire, heads>>
  BY DEF Flush
<1> HIDE DEF m
<1>3. PICK s : /\ Packets(m, s, Free) /\ s \in Seq(Packet)
               /\ Lines' = Grown(Lines, p, s) /\ OneDrain'
               /\ Calm(Lines', board, pending, heads, open)
  BY <1>1, <1>2, SayCalm
<1>4. pending'[p] = {} /\ \A x \in Peer : x # p => pending'[x] = pending[x]
  BY <1>2 DEF TypeOK
<1>5. Sources(Lines', board, pending', open)
  BY <1>3, <1>4 DEF Calm, Sources
<1>6. ASSUME NEW c \in Pair, NEW e \in Edit, Author[e] = c[1], Lacks(board, open, c, e)
      PROVE  e \in pending'[c[1]] \/ Carried(Lines'[c], heads[c[2]], e)
             \/ Wanted(Lines'[<<c[2], c[1]>>], e)
  <2>1. c[1] \in Peer /\ c[2] \in Peer
    BY Pairs
  <2>2. e \in pending[c[1]] \/ Carried(Lines'[c], heads[c[2]], e)
        \/ Wanted(Lines'[<<c[2], c[1]>>], e)
    BY <1>3, <1>6 DEF Calm, Told
  <2>3. CASE c[1] = p /\ e \in pending[p]
    <3>1. Lines'[c] = Lines[c] \o s
      BY <1>3, <2>3 DEF Grown
    <3>2. Lines[c] \in Seq(Packet)
      <4>1. Lines \in LineType
        BY LinesTyped DEF TypeOK, OutType, WireType
      <4>2. QED
        BY <4>1 DEF LineType
    <3>3. Free \in SUBSET Id /\ e \in m.edits
      BY <1>1, <2>3 DEF Free
    <3>4. Carried(Lines'[c], heads[c[2]], e)
      BY <1>1, <1>3, <3>1, <3>2, <3>3, SaidIsCarried
    <3>5. QED
      BY <3>4
  <2>4. QED
    BY <1>4, <2>1, <2>2, <2>3
<1>7. Told(Lines', board, pending', heads, open)
  BY <1>6 DEF Told
<1>8. Calm(Lines', board', pending', heads', open')
  BY <1>2, <1>3, <1>5, <1>7 DEF Calm
<1>9. QED
  BY <1>2, <1>3, <1>8, ConnectedStays DEF CalmParts

(* A further request says what the peer has. *)
LEMMA AskAgainCalm ==
  ASSUME TypeOK, TypeOK', CalmParts, NEW p \in Peer, AskAgain(p)
  PROVE  CalmParts'
<1> DEFINE m == [type |-> "step1", edits |-> board[p]]
<1>1. m \in Message /\ m.edits \subseteq board[p]
  BY DEF Message, TypeOK
<1>2. UNCHANGED <<open, linked, up, board, pending, wire, heads>>
  BY DEF AskAgain
<1>3. Say(p, m, TRUE) \/ UNCHANGED outbound
  BY DEF AskAgain, RequestSync
<1> HIDE DEF m
<1>4. CASE Say(p, m, TRUE)
  <2>1. PICK s : OneDrain' /\ Calm(Lines', board, pending, heads, open)
    BY <1>1, <1>2, <1>4, SayCalm
  <2>2. QED
    BY <1>2, <2>1, ConnectedStays DEF CalmParts
<1>5. CASE UNCHANGED outbound
  <2>1. Lines' = Lines /\ OneDrain'
    BY <1>2, <1>5, QuietCalm
  <2>2. QED
    BY <1>2, <2>1, ConnectedStays DEF CalmParts
<1>6. QED
  BY <1>3, <1>4, <1>5

(* A closed board's packet was said by somebody who knows it. *)
LEMMA DropSources ==
  ASSUME NEW L \in LineType, NEW bd, NEW pd, NEW op, Sources(L, bd, pd, op),
         NEW c \in Pair, L[c] # <<>>
  PROVE  Sources(Dropped(L, c), bd, pd, op)
<1>1. ASSUME NEW d \in Pair, NEW n \in DOMAIN Dropped(L, c)[d]
      PROVE  Dropped(L, c)[d][n].msg.edits \subseteq bd[d[1]]
  <2>1. PICK x \in DOMAIN L[d] : Dropped(L, c)[d][n] = L[d][x]
    BY DroppedLines
  <2>2. QED
    BY <2>1 DEF Sources
<1>2. QED
  BY <1>1 DEF Sources

(* What the first packet of a line does to a receiver who has the board    *)
(* open.                                                                   *)
Opened(p, q, w, g) ==
  /\ HeadsAfter(heads[q], w, g)
  /\ heads' = [heads EXCEPT ![q] = g]
  /\ board' = Merged(board, <<p, q>>, heads[q], w)
  /\ \/ UNCHANGED outbound /\ ~(Whole(w) /\ w.msg.type = "step1")
     \/ /\ Whole(w) /\ w.msg.type = "step1"
        /\ Say(q, [type |-> "step2", edits |-> board[q] \ w.msg.edits], up[q])

(* Receiving is one of these. *)
LEMMA ReceiveOpened ==
  ASSUME TypeOK, CalmParts, NEW p \in Peer, NEW q \in Peer, <<p, q>> \in Pair,
         NEW w, w = Head(wire[<<p, q>>]), w \in Packet, w.id # None => w.msg.type # "step1",
         Receive(p, q), open[q]
  PROVE  \E g : Opened(p, q, w, g)
<1> DEFINE h == heads[q]
           b == Merged(board, <<p, q>>, h, w)
<1>1. h \in HeadsType /\ heads = [heads EXCEPT ![q] = h]
  BY DEF TypeOK, HeadsType
<1>2. <<p, q>>[2] = q
  OBVIOUS
<1>3. ~Whole(w) => w.id \in Id
  BY DEF Whole, Packet
<1>4. Handle(q, w.msg) =>
        \/ /\ w.msg.type = "step1" /\ board' = board
           /\ Say(q, [type |-> "step2", edits |-> board[q] \ w.msg.edits], up[q])
        \/ /\ w.msg.type # "step1" /\ UNCHANGED outbound
           /\ board' = [board EXCEPT ![q] = board[q] \union w.msg.edits]
  BY DEF Handle
<1> DEFINE A1 == Whole(w) /\ Handle(q, w.msg) /\ UNCHANGED heads
           A2 == IsHead(w) /\ heads' = HeadIn(q, w.id) /\ UNCHANGED <<board, outbound>>
           A3 == IsChunk(w) /\ heads[q][w.id] = None /\ UNCHANGED <<board, outbound, heads>>
           A4 == /\ IsChunk(w) /\ heads[q][w.id] # None /\ ChunkIn(q, w) = 1..Chunks
                 /\ heads' = [heads EXCEPT ![q][w.id] = None] /\ Handle(q, w.msg)
           A5 == /\ IsChunk(w) /\ heads[q][w.id] # None /\ ChunkIn(q, w) # 1..Chunks
                 /\ heads' = [heads EXCEPT ![q][w.id] = ChunkIn(q, w)]
                 /\ UNCHANGED <<board, outbound>>
<1>5. A1 \/ A2 \/ A3 \/ A4 \/ A5
  <2> HIDE DEF h, b
  <2>1. QED
    BY DEF Receive, Ignored
<1>6. CASE A1
  <2>1. Completes(h, w) /\ HeadsAfter(h, w, h)
    BY <1>6 DEF Completes, HeadsAfter
  <2>2. CASE w.msg.type = "step1"
    <3>1. b = board
      BY <2>2 DEF Merged
    <3>2. QED
      BY <1>1, <1>4, <1>6, <2>1, <2>2, <3>1 DEF Opened
  <2>3. CASE w.msg.type # "step1"
    <3>1. b = [board EXCEPT ![q] = board[q] \union w.msg.edits]
      BY <1>2, <2>1, <2>3 DEF Merged
    <3>2. QED
      BY <1>1, <1>4, <1>6, <2>1, <2>3, <3>1 DEF Opened
  <2>4. QED
    BY <2>2, <2>3
<1>7. CASE A2
  <2> DEFINE g == [h EXCEPT ![w.id] = IF h[w.id] = None THEN {} ELSE h[w.id]]
  <2>1. HeadsAfter(h, w, g)
    BY <1>7 DEF HeadsAfter
  <2>2. heads' = [heads EXCEPT ![q] = g]
    BY <1>7 DEF HeadIn
  <2>3. ~Completes(h, w) /\ ~Whole(w)
    BY <1>7 DEF Completes, Whole, IsHead, IsChunk
  <2>4. b = board
    BY <2>3 DEF Merged
  <2> HIDE DEF g
  <2>5. QED
    BY <1>7, <2>1, <2>2, <2>3, <2>4 DEF Opened
<1>8. CASE A3
  <2>1. HeadsAfter(h, w, h) /\ ~Completes(h, w) /\ ~Whole(w)
    BY <1>8 DEF HeadsAfter, Completes, Whole, IsChunk
  <2>2. b = board
    BY <2>1 DEF Merged
  <2>3. QED
    BY <1>1, <1>8, <2>1, <2>2 DEF Opened
<1>9. CASE A4
  <2> DEFINE g == [h EXCEPT ![w.id] = None]
  <2>1. HeadsAfter(h, w, g)
    BY <1>9 DEF HeadsAfter, ChunkIn
  <2>2. heads' = [heads EXCEPT ![q] = g]
    BY <1>9
  <2>3. Completes(h, w) /\ ~Whole(w) /\ w.msg.type # "step1"
    BY <1>9 DEF Completes, Whole, IsChunk, ChunkIn
  <2>4. b = [board EXCEPT ![q] = board[q] \union w.msg.edits]
    BY <1>2, <2>3 DEF Merged
  <2>5. UNCHANGED outbound /\ board' = b
    BY <1>4, <1>9, <2>3, <2>4
  <2> HIDE DEF g
  <2>6. QED
    BY <2>1, <2>2, <2>3, <2>5 DEF Opened
<1>10. CASE A5
  <2> DEFINE g == [h EXCEPT ![w.id] = h[w.id] \union {w.part}]
  <2>1. HeadsAfter(h, w, g)
    BY <1>10 DEF HeadsAfter, ChunkIn
  <2>2. heads' = [heads EXCEPT ![q] = g]
    BY <1>10 DEF ChunkIn
  <2>3. ~Completes(h, w) /\ ~Whole(w)
    BY <1>10 DEF Completes, Whole, IsChunk, ChunkIn
  <2>4. b = board
    BY <2>3 DEF Merged
  <2> HIDE DEF g
  <2>5. QED
    BY <1>10, <2>1, <2>2, <2>3, <2>4 DEF Opened
<1>11. QED
  BY <1>5, <1>6, <1>7, <1>8, <1>9, <1>10

(* An arrival leaves nobody out. *)
LEMMA ReceiveCalm ==
  ASSUME TypeOK, TypeOK', CalmParts, NEW p \in Peer, NEW q \in Peer, Receive(p, q)
  PROVE  CalmParts'
<1> DEFINE c == <<p, q>>
           w == Head(wire[c])
           D == Dropped(Lines, c)
<1>1. /\ wire[c] # <<>> /\ wire' = [wire EXCEPT ![c] = Tail(wire[c])]
      /\ UNCHANGED <<open, linked, up, pending>>
  BY DEF Receive
<1>2. Connected /\ OneDrain /\ Calm(Lines, board, pending, heads, open)
  BY DEF CalmParts
<1>3. p # q /\ c \in Pair /\ c[1] = p /\ c[2] = q
  BY <1>1, <1>2 DEF Connected, Pair
<1>4. OutType /\ OutType' /\ WireType /\ Lines \in LineType
  BY LinesTyped DEF TypeOK, OutType, WireType
<1>5. Connected'
  BY <1>1, <1>2, <1>3 DEF Connected, TypeOK
<1>6. /\ Sources(Lines, board, pending, open) /\ Ids(Lines, heads)
      /\ Told(Lines, board, pending, heads, open)
  BY <1>2 DEF Calm
<1>7. board \in BoardsType /\ heads \in [Peer -> HeadsType]
  BY DEF TypeOK, BoardsType, HeadsType
<1>8. Lines[c] # <<>> /\ Head(Lines[c]) = w
  <2> HIDE DEF c
  <2>1. UNCHANGED outbound \/ ~UNCHANGED outbound
    OBVIOUS
  <2>2. Lines[c] = wire[c] \o Out(c[1])
    BY <1>3, <1>4, LinesTyped
  <2>3. wire[c] \in Seq(Packet) /\ Out(c[1]) \in Seq(Packet)
    BY <1>3, <1>4 DEF Pair, WireType, OutType, Out
  <2>4. Head(wire[c] \o Out(c[1])) = Head(wire[c]) /\ wire[c] \o Out(c[1]) # <<>>
    BY <1>1, <2>3, FirstOfJoined
  <2>5. QED
    BY <2>2, <2>4
<1>9. w \in Packet /\ (w.id # None => w.msg.type # "step1")
  <2> HIDE DEF c, w
  <2>1. w \in Packet /\ 1 \in DOMAIN Lines[c] /\ Lines[c][1] = w
    BY <1>3, <1>4, <1>8, FirstPacket
  <2>2. QED
    BY <1>3, <1>6, <2>1 DEF Ids, NoLargeRequest
<1>10. D \in LineType
  BY <1>3, <1>4, <1>8, DroppedLines
<1>11. ASSUME NEW s \in Seq(Packet), OutGrows(q, s)
       PROVE  Lines' = Grown(D, q, s)
  <2> HIDE DEF c
  <2>1. QED
    BY <1>1, <1>3, <1>4, <1>11, LinesDrop
<1>12. ASSUME UNCHANGED outbound
       PROVE  Lines' = D /\ OneDrain'
  <2>1. OutGrows(q, <<>>) /\ OneDrain' /\ <<>> \in Seq(Packet)
    BY <1>2, <1>4, <1>12, NothingOut
  <2>2. QED
    BY <1>10, <1>11, <2>1, GrownByNothing
<1>13. CASE ~open[q]
  <2>1. UNCHANGED <<board, heads, outbound>>
    BY <1>13 DEF Receive, Ignored
  <2>2. board[q] = {}
    BY <1>6, <1>13 DEF Sources
  <2>3. Sources(D, board, pending, open)
    BY <1>3, <1>4, <1>6, <1>8, DropSources
  <2>4. Ids(D, heads)
    <3>1. \A x \in Peer, i \in Id : heads[x][i] # 1..Chunks
      BY <1>6 DEF Ids
    <3>2. QED
      BY <1>3, <1>4, <1>6, <1>8, <3>1, ArriveIds
  <2>5. Told(D, board, pending, heads, open)
    BY <1>3, <1>4, <1>6, <1>8, <1>13, <2>2, ArriveClosed
  <2>6. QED
    BY <1>1, <1>5, <1>12, <2>1, <2>3, <2>4, <2>5 DEF CalmParts, Calm
<1>14. CASE open[q]
  <2> DEFINE h == heads[q]
             b == Merged(board, c, h, w)
  <2>1. PICK g : Opened(p, q, w, g)
    BY <1>3, <1>9, <1>14, ReceiveOpened
  <2>2. /\ HeadsAfter(h, w, g) /\ heads' = [heads EXCEPT ![q] = g] /\ board' = b
    BY <2>1 DEF Opened
  <2>3. h \in HeadsType /\ PartsLack(h)
    BY <1>6, <1>7 DEF Ids, PartsLack
  <2>4. g \in HeadsType /\ PartsLack(g)
    BY <1>9, <2>2, <2>3, HeadsAfterType
  <2>5. heads'[q] = g /\ \A x \in Peer : x # q => heads'[x] = heads[x]
    BY <1>7, <2>2
  <2> HIDE DEF c, w, D, h, b
  <2>6. Sources(D, b, pending, open)
    BY <1>3, <1>4, <1>6, <1>7, <1>8, <1>14, ArriveSources DEF D, b
  <2>7. Ids(D, heads')
    <3>1. \A x \in Peer, i \in Id : heads'[x][i] # 1..Chunks
      BY <1>6, <2>4, <2>5 DEF Ids, PartsLack
    <3>2. QED
      BY <1>3, <1>4, <1>6, <1>8, <3>1, ArriveIds DEF D
  <2>8. ASSUME NEW d \in Pair, NEW e \in Edit, Author[e] = d[1], Lacks(b, open, d, e)
        PROVE  \/ e \in pending[d[1]]
               \/ Carried(D[d], heads'[d[2]], e)
               \/ Wanted(D[<<d[2], d[1]>>], e)
               \/ /\ <<d[2], d[1]>> = c /\ Whole(w) /\ w.msg.type = "step1"
                  /\ e \notin w.msg.edits /\ e \in board[d[1]]
    <3>1. PICK hd2 : hd2 = heads'
      OBVIOUS
    <3>2. heads[c[2]] = h /\ hd2[c[2]] = g /\ \A x \in Peer : x # c[2] => hd2[x] = heads[x]
      BY <1>3, <2>5, <3>1 DEF h
    <3>3. \A x \in Peer : heads[x] \in HeadsType
      BY <1>7
    <3>4. HeadsAfter(h, Head(Lines[c]), g) /\ Lacks(Merged(board, c, h, Head(Lines[c])), open, d, e)
      BY <1>8, <2>2, <2>8 DEF b
    <3>5. \/ e \in pending[d[1]]
          \/ Carried(Dropped(Lines, c)[d], hd2[d[2]], e)
          \/ Wanted(Dropped(Lines, c)[<<d[2], d[1]>>], e)
          \/ /\ <<d[2], d[1]>> = c /\ Whole(Head(Lines[c])) /\ Head(Lines[c]).msg.type = "step1"
             /\ e \notin Head(Lines[c]).msg.edits /\ e \in board[d[1]]
      <4>1. Arrives(Lines, board, pending, open, heads, c, h, g, hd2)
        BY <1>6, <1>8, <3>2, <3>3, <3>4 DEF Arrives
      <4>2. QED
        BY <1>3, <1>4, <1>7, <2>8, <3>4, <4>1, ArriveTold
    <3>6. QED
      BY <1>8, <3>1, <3>5 DEF D
  <2>9. CASE UNCHANGED outbound /\ ~(Whole(w) /\ w.msg.type = "step1")
    <3>1. Told(D, b, pending, heads', open)
      BY <2>8, <2>9 DEF Told
    <3>2. QED
      BY <1>1, <1>5, <1>12, <2>2, <2>6, <2>7, <2>9, <3>1 DEF CalmParts, Calm
  <2>10. CASE /\ Whole(w) /\ w.msg.type = "step1"
              /\ Say(q, [type |-> "step2", edits |-> board[q] \ w.msg.edits], up[q])
    <3> DEFINE m == [type |-> "step2", edits |-> board[q] \ w.msg.edits]
    <3>1. /\ m \in Message /\ m.type # "step1" /\ m.edits = board[q] \ w.msg.edits
          /\ Say(q, m, up[q])
      BY <1>7, <2>10 DEF Message, BoardsType
    <3> HIDE DEF m
    <3>2. b = board
      BY <2>10 DEF b, Merged
    <3>3. PICK s : Packets(m, s, Free) /\ OutGrows(q, s) /\ OneDrain'
      BY <1>2, <1>4, <3>1, SayOut
    <3>4. Free \in SUBSET Id
      BY DEF Free
    <3>5. s \in Seq(Packet)
      BY <3>1, <3>3, <3>4, PacketsOf
    <3>6. Lines' = Grown(D, q, s)
      BY <1>11, <3>3, <3>5
    <3>7. \A i \in Free : \A d \in Pair : \A n \in DOMAIN D[d] : D[d][n].id # i
      <4>1. SUFFICES ASSUME NEW i \in Free, NEW d \in Pair, NEW n \in DOMAIN D[d]
                     PROVE  D[d][n].id # i
        OBVIOUS
      <4>2. PICK x \in DOMAIN Lines[d] : D[d][n] = Lines[d][x]
        BY <1>3, <1>4, <1>8, DroppedLines DEF D
      <4>3. QED
        BY <1>4, <4>2, FreeIds
    <3>8. Sources(Lines', board, pending, open)
      <4>1. Sources(D, board, pending, open) /\ m.edits \subseteq board[q]
        BY <2>6, <3>1, <3>2
      <4>2. Sources(Grown(D, q, s), board, pending, open)
        BY <1>10, <3>1, <3>3, <3>4, <4>1, GrowSources
      <4>3. QED
        BY <3>6, <4>2
    <3>9. Ids(Lines', heads')
      <4>1. Ids(Grown(D, q, s), heads')
        BY <1>10, <2>7, <3>1, <3>3, <3>4, <3>7, GrowIds
      <4>2. QED
        BY <3>6, <4>1
    <3>10. ASSUME NEW d \in Pair, NEW e \in Edit, Author[e] = d[1], Lacks(board, open, d, e)
           PROVE  \/ e \in pending[d[1]]
                  \/ Carried(Lines'[d], heads'[d[2]], e)
                  \/ Wanted(Lines'[<<d[2], d[1]>>], e)
      <4>1. <<d[2], d[1]>> \in Pair /\ d[1] \in Peer
        BY Pairs
      <4>2. \A x \in Pair : D[x] \in Seq(Packet) /\ (Lines'[x] = D[x] \/ Lines'[x] = D[x] \o s)
        BY <1>10, <3>6 DEF LineType, Grown
      <4>3. /\ Carried(D[d], heads'[d[2]], e) => Carried(Lines'[d], heads'[d[2]], e)
            /\ Wanted(D[<<d[2], d[1]>>], e) => Wanted(Lines'[<<d[2], d[1]>>], e)
        BY <3>5, <4>1, <4>2, MoreIsSaid
      <4>4. CASE <<d[2], d[1]>> = c /\ e \notin w.msg.edits /\ e \in board[d[1]]
        <5>1. d[1] = q
          BY <4>4 DEF c
        <5>2. Lines'[d] = D[d] \o s
          BY <3>6, <5>1 DEF Grown
        <5>3. e \in m.edits
          BY <3>1, <4>4, <5>1
        <5>4. D[d] \in Seq(Packet)
          BY <4>2
        <5>5. Carried(D[d] \o s, heads'[d[2]], e)
          BY <3>1, <3>3, <3>4, <5>3, <5>4, SaidIsCarried
        <5>6. QED
          BY <5>2, <5>5
      <4>5. QED
        BY <2>8, <3>2, <3>10, <4>3, <4>4
    <3>11. Told(Lines', board, pending, heads', open)
      BY <3>10 DEF Told
    <3>12. Calm(Lines', board', pending', heads', open')
      BY <1>1, <2>2, <3>2, <3>8, <3>9, <3>11 DEF Calm
    <3>13. QED
      BY <1>5, <3>3, <3>12 DEF CalmParts
  <2>11. QED
    BY <2>1, <2>9, <2>10 DEF Opened
<1>15. QED
  BY <1>13, <1>14

-----------------------------------------------------------------------------
(* Boards converge while only publications fail *)

(* An empty line carries nothing to a receiver who has no whole message.   *)
LEMMA NothingCarried ==
  ASSUME NEW h \in HeadsType, PartsLack(h), NEW e
  PROVE  ~Carried(<<>>, h, e) /\ ~Wanted(<<>>, e)
<1>1. DOMAIN <<>> = {}
  OBVIOUS
<1>2. ~Wanted(<<>>, e) /\ ~InWhole(<<>>, e) /\ \A i \in Id : ~InHead(<<>>, i, e)
  BY <1>1 DEF Wanted, InWhole, InHead
<1>3. ASSUME NEW i \in Id PROVE ~InRest(<<>>, h, i, e)
  <2>1. \A n, k : ~PartAfter(<<>>, n, i, k, e)
    BY <1>1 DEF PartAfter
  <2>2. CASE h[i] # None
    <3>1. h[i] \subseteq 1..Chunks /\ h[i] # 1..Chunks
      BY <2>2 DEF HeadsType, PartsLack
    <3>2. PICK k \in (1..Chunks) \ h[i] : TRUE
      BY <3>1
    <3>3. QED
      BY <2>1, <3>2 DEF InRest
  <2>3. QED
    BY <2>2 DEF InRest
<1>4. QED
  BY <1>2, <1>3 DEF Carried

(* When nothing is under way, an edit on one board is on the others. *)
LEMMA CalmReaches ==
  ASSUME TypeOK, CalmParts, Settled,
         NEW p \in Peer, NEW q \in Peer, open[p], open[q], NEW e \in board[p]
  PROVE  e \in board[q]
<1> DEFINE a == Author[e]
           c == <<a, q>>
<1>1. /\ Sources(Lines, board, pending, open) /\ Ids(Lines, heads)
      /\ Told(Lines, board, pending, heads, open)
  BY DEF CalmParts, Calm
<1>2. e \in Edit
  BY DEF TypeOK
<1>3. a \in Peer /\ e \in board[a]
  BY <1>1, <1>2, WhiteboardAssumption DEF Sources
<1>4. open[a]
  BY <1>1, <1>3 DEF Sources
<1> HIDE DEF a
<1>5. CASE a = q
  BY <1>3, <1>5
<1>6. CASE a # q
  <2>1. c \in Pair /\ <<q, a>> \in Pair /\ c[1] = a /\ c[2] = q
    BY <1>3, <1>6 DEF Pair
  <2>2. /\ pending[a] = {} /\ wire[c] = <<>> /\ wire[<<q, a>>] = <<>>
        /\ sending[a] = <<>> /\ queue[a] = <<>> /\ sending[q] = <<>> /\ queue[q] = <<>>
    BY <1>3, <1>4 DEF Settled
  <2>3. <<>> \o <<>> = <<>>
    OBVIOUS
  <2>4. Lines[c] = <<>>
    BY <2>1, <2>2, <2>3 DEF Lines
  <2>5. Lines[<<q, a>>] = <<>>
    BY <2>1, <2>2, <2>3 DEF Lines
  <2>6. heads[q] \in HeadsType /\ PartsLack(heads[q])
    BY <1>1 DEF Ids, PartsLack, TypeOK, HeadsType
  <2>7. ~Carried(<<>>, heads[q], e) /\ ~Wanted(<<>>, e)
    BY <2>6, NothingCarried
  <2>8. ASSUME e \notin board[q] PROVE FALSE
    <3>1. Lacks(board, open, c, e)
      BY <1>3, <2>1, <2>8 DEF Lacks
    <3>2. \/ e \in pending[c[1]] \/ Carried(Lines[c], heads[c[2]], e)
          \/ Wanted(Lines[<<c[2], c[1]>>], e)
      BY <1>1, <1>2, <2>1, <3>1 DEF Told, a
    <3>3. QED
      BY <2>1, <2>2, <2>4, <2>5, <2>7, <3>2
  <2>9. QED
    BY <2>8
<1>7. QED
  BY <1>5, <1>6

(* So boards are the same, and no message is torn. *)
Alike == \A p, q \in Peer : open[p] /\ open[q] => board[p] = board[q]

LEMMA CalmConverges == TypeOK /\ CalmParts => Converged /\ (Settled => Alike)
<1> SUFFICES ASSUME TypeOK, CalmParts, Settled PROVE Alike
  BY DEF Converged, Alike
<1> SUFFICES ASSUME NEW p \in Peer, NEW q \in Peer, open[p], open[q]
             PROVE  board[p] = board[q]
  BY DEF Alike
<1>1. board[p] \subseteq board[q]
  BY CalmReaches
<1>2. board[q] \subseteq board[p]
  BY CalmReaches
<1>3. QED
  BY <1>1, <1>2

(* The boards are empty and nothing is under way at first. *)
LEMMA InitCalm == Init => CalmParts
<1> SUFFICES ASSUME Init PROVE CalmParts
  OBVIOUS
<1>1. /\ open = [p \in Peer |-> p = Host]
      /\ linked = [p \in Peer |-> TRUE] /\ up = [p \in Peer |-> TRUE]
      /\ board = [p \in Peer |-> {}] /\ pending = [p \in Peer |-> {}]
      /\ queue = [p \in Peer |-> <<>>] /\ publishing = [p \in Peer |-> FALSE]
      /\ sending = [p \in Peer |-> <<>>] /\ wire = [c \in Peer \X Peer |-> <<>>]
      /\ heads = [p \in Peer |-> [i \in Id |-> None]]
  BY DEF Init
<1>2. <<>> \o <<>> = <<>> /\ DOMAIN <<>> = {} /\ Len(<<>>) = 0
  OBVIOUS
<1>3. \A c \in Pair : Lines[c] = <<>>
  BY <1>1, <1>2 DEF Lines, Pair
<1>4. Connected
  BY <1>1 DEF Connected
<1>5. OneDrain
  BY <1>1, <1>2 DEF OneDrain
<1>6. Sources(Lines, board, pending, open)
  BY <1>1, <1>2, <1>3 DEF Sources
<1>7. Ids(Lines, heads)
  <2>1. None # 1..Chunks
    BY NoParts
  <2>2. QED
    BY <1>1, <1>2, <1>3, <2>1 DEF Ids, OneSender, NoLargeRequest
<1>8. Told(Lines, board, pending, heads, open)
  <2>1. ASSUME NEW c \in Pair, NEW e PROVE ~Lacks(board, open, c, e)
    <3>1. c[1] \in Peer
      BY Pairs
    <3>2. QED
      BY <1>1, <3>1 DEF Lacks
  <2>2. QED
    BY <2>1 DEF Told
<1>9. QED
  BY <1>4, <1>5, <1>6, <1>7, <1>8 DEF CalmParts, Calm

(* What went wrong does not go away. *)
LEMMA TroubleStays == [Next]_vars => trouble \subseteq trouble'
<1> SUFFICES ASSUME [Next]_vars PROVE trouble \subseteq trouble'
  OBVIOUS
<1>1. ASSUME NEW p \in Peer, NEW i \in DOMAIN sending[p], Sent(p, i) \/ SendFails(p, i)
      PROVE  trouble \subseteq trouble'
  BY <1>1 DEF Sent, SendFails, Happens
<1>2. ASSUME NEW p \in Peer,
             \/ Retry(p) \/ Open(p) \/ Flush(p) \/ AskAgain(p) \/ Close(p)
             \/ Interrupt(p) \/ Reconnect(p) \/ ChannelOpens(p)
      PROVE  trouble \subseteq trouble'
  BY <1>2 DEF Retry, Open, Flush, AskAgain, Close, Interrupt, Reconnect, ChannelOpens, Happens
<1>3. ASSUME NEW p \in Peer, NEW e \in Edit, Draw(p, e) PROVE trouble \subseteq trouble'
  BY <1>3 DEF Draw
<1>4. ASSUME NEW p \in Peer, NEW q \in Peer, Receive(p, q) PROVE trouble \subseteq trouble'
  BY <1>4 DEF Receive
<1>5. CASE UNCHANGED vars
  BY <1>5 DEF vars
<1>6. QED
  BY <1>1, <1>2, <1>3, <1>4, <1>5 DEF Next

(* The invariant is kept by every step. *)
LEMMA CalmStep == TypeOK /\ TypeOK' /\ CalmInv /\ [Next]_vars => CalmInv'
<1> SUFFICES ASSUME TypeOK, TypeOK', CalmInv, [Next]_vars, Undisturbed' PROVE CalmParts'
  BY CalmForms DEF CalmInv
<1>1. Undisturbed
  BY TroubleStays DEF Undisturbed
<1>2. CalmParts
  BY <1>1, CalmForms DEF CalmInv
<1>3. ASSUME NEW p \in Peer, NEW i \in DOMAIN sending[p], Sent(p, i) \/ SendFails(p, i)
      PROVE  CalmParts'
  BY <1>2, <1>3, SentCalm, SendFailsCalm
<1>4. ASSUME NEW p \in Peer, Retry(p) \/ Open(p) \/ Flush(p) \/ AskAgain(p)
      PROVE  CalmParts'
  BY <1>2, <1>4, RetryCalm, OpenCalm, FlushCalm, AskAgainCalm
<1>5. ASSUME NEW p \in Peer, Close(p) \/ Interrupt(p) PROVE FALSE
  BY <1>5 DEF Close, Interrupt, Happens, Undisturbed
<1>6. ASSUME NEW p \in Peer, Reconnect(p) \/ ChannelOpens(p) PROVE FALSE
  BY <1>2, <1>6 DEF Reconnect, ChannelOpens, CalmParts, Connected
<1>7. ASSUME NEW p \in Peer, NEW e \in Edit, Draw(p, e) PROVE CalmParts'
  BY <1>2, <1>7, DrawCalm
<1>8. ASSUME NEW p \in Peer, NEW q \in Peer, Receive(p, q) PROVE CalmParts'
  BY <1>2, <1>8, ReceiveCalm
<1>9. CASE UNCHANGED vars
  <2>1. UNCHANGED <<open, linked, up, board, pending, wire, heads>> /\ UNCHANGED outbound
    BY <1>9 DEF vars
  <2>2. Lines' = Lines /\ OneDrain'
    BY <1>2, <2>1, QuietCalm
  <2>3. QED
    BY <1>2, <2>1, <2>2, ConnectedStays DEF CalmParts
<1>10. QED
  BY <1>3, <1>4, <1>5, <1>6, <1>7, <1>8, <1>9 DEF Next

(* As long as nothing is interrupted or closed, whoever lacks an edit is   *)
(* being told of it: the inductive invariant behind convergence.           *)
THEOREM CalmInvariance == Spec => []CalmInv
<1>1. Init => CalmInv
  BY InitCalm, CalmForms DEF CalmInv
<1>2. TypeOK /\ TypeOK' /\ CalmInv /\ [Next]_vars => CalmInv'
  BY CalmStep
<1>3. QED
  BY <1>1, <1>2, BoardTypeCorrect, PTL DEF Spec

(* For any participants, drawings, authors, chunk ids and numbers of       *)
(* requests: as long as no connection is interrupted and no board closed,  *)
(* whatever publications fail and however late a board is opened, boards   *)
(* converge, and are the same once nothing is under way, which is more     *)
(* than Converged says of a meeting with interruptions.                    *)
THEOREM CalmBoardsConverge == Spec => [](Undisturbed => Converged /\ (Settled => Alike))
<1>1. TypeOK /\ CalmInv => (Undisturbed => Converged /\ (Settled => Alike))
  BY CalmForms, CalmConverges DEF CalmInv
<1>2. QED
  BY <1>1, CalmInvariance, BoardTypeCorrect, PTL
=============================================================================
