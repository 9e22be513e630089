------------------------- MODULE MeetingStageProofs -------------------------
(***************************************************************************)
(* Proofs about MeetingStage, for any participants, kinds and bounds: all  *)
(* its properties follow from one inductive invariant, StageInv.           *)
(*                                                                         *)
(* That at most one participant is left as the owner rests on LearnInv:    *)
(* of two owners, the one with the older stage has a later one on its way, *)
(* or has asked, or one of the two has a transport still to open, and then *)
(* both speak.  That everybody shows the owner's stage rests on AgreeInv:  *)
(* unless a later stage is on its way to the owner, the last of its        *)
(* packets to each participant carries its stage.  Stamps, who speaks for  *)
(* whom, and that nobody asks before there is trouble, support the two.    *)
(***************************************************************************)
EXTENDS MeetingStage, FilterProofs

-----------------------------------------------------------------------------
(* Sequences of packets *)

(* Appending adds an element. *)
LEMMA AppendSet ==
  ASSUME NEW T, NEW s \in Seq(T), NEW w \in T
  PROVE  /\ Append(s, w) \in Seq(T) /\ Append(s, w) # <<>>
         /\ ToSet(Append(s, w)) = ToSet(s) \union {w}
         /\ Len(Append(s, w)) = Len(s) + 1
         /\ Append(s, w)[Len(Append(s, w))] = w
<1> DEFINE t == Append(s, w)
<1>1. /\ t \in Seq(T) /\ Len(t) = Len(s) + 1 /\ Len(s) \in Nat
      /\ DOMAIN s = 1..Len(s) /\ DOMAIN t = 1..(Len(s) + 1)
      /\ t[Len(s) + 1] = w
      /\ \A i \in 1..Len(s) : t[i] = s[i]
  OBVIOUS
<1> HIDE DEF t
<1>2. t # <<>>
  <2>1. Len(<<>>) = 0
    OBVIOUS
  <2>2. QED
    BY <1>1, <2>1
<1>3. ToSet(t) = ToSet(s) \union {w}
  BY <1>1 DEF ToSet
<1>4. QED
  BY <1>1, <1>2, <1>3 DEF t

(* A sequence is its head and its tail, and the tail ends as it does. *)
LEMMA HeadTailSet ==
  ASSUME NEW T, NEW s \in Seq(T), s # <<>>
  PROVE  /\ Head(s) \in T /\ Tail(s) \in Seq(T)
         /\ ToSet(s) = ToSet(Tail(s)) \union {Head(s)}
         /\ Len(Tail(s)) = Len(s) - 1
         /\ Tail(s) # <<>> => Tail(s)[Len(Tail(s))] = s[Len(s)]
         /\ Tail(s) = <<>> => s[Len(s)] = Head(s)
<1> DEFINE t == Tail(s)
           h == Head(s)
<1>1. /\ t \in Seq(T) /\ Len(t) = Len(s) - 1 /\ Len(s) \in Nat /\ Len(s) # 0
      /\ DOMAIN s = 1..Len(s) /\ DOMAIN t = 1..(Len(s) - 1)
      /\ h = s[1] /\ h \in T
      /\ \A i \in 1..(Len(s) - 1) : t[i] = s[i + 1]
  OBVIOUS
<1> HIDE DEF t, h
<1>2. t # <<>> => Len(t) # 0
  BY <1>1
<1>3. t = <<>> => Len(t) = 0
  BY <1>1
<1>4. t # <<>> => t[Len(t)] = s[Len(s)]
  BY <1>1, <1>2
<1>5. t = <<>> => s[Len(s)] = h
  BY <1>1, <1>3
<1>6. ToSet(s) = ToSet(t) \union {h}
  <2>1. \A i \in DOMAIN s : i = 1 \/ (i - 1 \in DOMAIN t /\ s[i] = t[i - 1])
    <3> SUFFICES ASSUME NEW i \in DOMAIN s, i # 1
        PROVE i - 1 \in DOMAIN t /\ s[i] = t[i - 1]
      OBVIOUS
    <3>1. i - 1 \in 1..(Len(s) - 1) /\ (i - 1) + 1 = i
      BY <1>1
    <3>2. QED
      BY <1>1, <3>1
  <2>2. ToSet(s) \subseteq ToSet(t) \union {h}
    <3>1. \A i \in DOMAIN s : s[i] = h \/ \E j \in DOMAIN t : s[i] = t[j]
      BY <1>1, <2>1
    <3>2. QED
      BY <3>1 DEF ToSet
  <2>3. \A i \in DOMAIN t : i + 1 \in DOMAIN s /\ t[i] = s[i + 1]
    BY <1>1
  <2>4. ToSet(t) \union {h} \subseteq ToSet(s)
    <3>1. 1 \in DOMAIN s /\ s[1] = h
      BY <1>1
    <3>2. QED
      BY <2>3, <3>1 DEF ToSet
  <2>5. QED
    BY <2>2, <2>4
<1>7. QED
  BY <1>1, <1>4, <1>5, <1>6 DEF t, h

(* What a concatenation is made of. *)
LEMMA ConcatElements ==
  ASSUME NEW T, NEW a \in Seq(T), NEW b \in Seq(T)
  PROVE  /\ a \o b \in Seq(T) /\ Len(a \o b) = Len(a) + Len(b)
         /\ \A j \in 1..(Len(a) + Len(b)) :
              (a \o b)[j] = IF j <= Len(a) THEN a[j] ELSE b[j - Len(a)]
OBVIOUS

(* Taking one element out leaves the others. *)
LEMMA WithoutSet ==
  ASSUME NEW T, NEW s \in Seq(T), NEW i \in DOMAIN s
  PROVE  /\ Without(s, i) \in Seq(T)
         /\ Len(Without(s, i)) = Len(s) - 1
         /\ ToSet(s) = ToSet(Without(s, i)) \union {s[i]}
<1> DEFINE a == SubSeq(s, 1, i - 1)
           b == SubSeq(s, i + 1, Len(s))
           t == a \o b
<1>1. Len(s) \in Nat /\ DOMAIN s = 1..Len(s) /\ i \in 1..Len(s)
  OBVIOUS
<1>2. /\ a \in Seq(T) /\ Len(a) = i - 1
      /\ \A j \in 1..(i - 1) : a[j] = s[j]
  BY <1>1
<1>3. /\ b \in Seq(T) /\ Len(b) = Len(s) - i
      /\ \A j \in 1..(Len(s) - i) : b[j] = s[i + j]
  BY <1>1
<1> HIDE DEF a, b
<1>4. /\ t \in Seq(T) /\ Len(t) = Len(s) - 1 /\ DOMAIN t = 1..(Len(s) - 1)
      /\ \A j \in 1..(i - 1) : t[j] = a[j]
      /\ \A j \in i..(Len(s) - 1) : t[j] = b[j - (i - 1)]
  <2>1. /\ t \in Seq(T) /\ Len(t) = Len(a) + Len(b)
        /\ \A j \in 1..(Len(a) + Len(b)) : t[j] = IF j <= Len(a) THEN a[j] ELSE b[j - Len(a)]
    BY <1>2, <1>3, ConcatElements
  <2>2. Len(a) + Len(b) = Len(s) - 1 /\ DOMAIN t = 1..Len(t)
    BY <1>1, <1>2, <1>3, <2>1
  <2> HIDE DEF t
  <2>3. \A j \in 1..(i - 1) : t[j] = a[j]
    BY <1>1, <1>2, <2>1, <2>2
  <2>4. \A j \in i..(Len(s) - 1) : t[j] = b[j - (i - 1)]
    BY <1>1, <1>2, <2>1, <2>2
  <2>5. QED
    BY <2>1, <2>2, <2>3, <2>4
<1> HIDE DEF t
<1>5. \A j \in 1..(i - 1) : j \in DOMAIN t /\ t[j] = s[j]
  BY <1>1, <1>2, <1>4
<1>6. \A j \in i..(Len(s) - 1) : j \in DOMAIN t /\ t[j] = s[j + 1]
  <2> SUFFICES ASSUME NEW j \in i..(Len(s) - 1) PROVE j \in DOMAIN t /\ t[j] = s[j + 1]
    OBVIOUS
  <2>1. j \in 1..(Len(s) - 1) /\ j - (i - 1) \in 1..(Len(s) - i)
    BY <1>1
  <2>2. t[j] = b[j - (i - 1)] /\ b[j - (i - 1)] = s[i + (j - (i - 1))]
    BY <1>3, <1>4, <2>1
  <2>3. i + (j - (i - 1)) = j + 1
    BY <1>1
  <2>4. QED
    BY <1>4, <2>1, <2>2, <2>3
<1>7. \A j \in DOMAIN s : j \in 1..(i - 1) \/ j = i \/ (j - 1 \in i..(Len(s) - 1) /\ (j - 1) + 1 = j)
  BY <1>1
<1>8. \A j \in DOMAIN t : j \in 1..(i - 1) \/ j \in i..(Len(s) - 1)
  BY <1>1, <1>4
<1>9. \A j \in DOMAIN s : j # i => \E l \in DOMAIN t : t[l] = s[j]
  BY <1>5, <1>6, <1>7
<1>10. \A l \in DOMAIN t : \E j \in DOMAIN s : s[j] = t[l]
  <2> SUFFICES ASSUME NEW l \in DOMAIN t PROVE \E j \in DOMAIN s : s[j] = t[l]
    OBVIOUS
  <2>1. CASE l \in 1..(i - 1)
    BY <1>1, <1>5, <2>1
  <2>2. CASE l \in i..(Len(s) - 1)
    <3>1. l + 1 \in DOMAIN s
      BY <1>1, <2>2
    <3>2. QED
      BY <1>6, <2>2, <3>1
  <2>3. QED
    BY <1>8, <2>1, <2>2
<1>11. ToSet(s) = ToSet(t) \union {s[i]}
  BY <1>9, <1>10 DEF ToSet
<1>12. Without(s, i) = t
  BY DEF Without, t, a, b
<1>13. QED
  BY <1>4, <1>11, <1>12

(* Putting one before the others adds it. *)
LEMMA PrependSet ==
  ASSUME NEW T, NEW s \in Seq(T), NEW w \in T
  PROVE  /\ <<w>> \o s \in Seq(T) /\ <<w>> \o s # <<>>
         /\ ToSet(<<w>> \o s) = ToSet(s) \union {w}
<1> DEFINE t == <<w>> \o s
<1>1. /\ t \in Seq(T) /\ Len(t) = Len(s) + 1 /\ Len(s) \in Nat
      /\ DOMAIN s = 1..Len(s) /\ DOMAIN t = 1..(Len(s) + 1)
      /\ t[1] = w
      /\ \A i \in 2..(Len(s) + 1) : t[i] = s[i - 1]
  OBVIOUS
<1> HIDE DEF t
<1>2. t # <<>>
  <2>1. Len(<<>>) = 0
    OBVIOUS
  <2>2. QED
    BY <1>1, <2>1
<1>3. \A i \in DOMAIN t : i = 1 \/ (i \in 2..(Len(s) + 1) /\ i - 1 \in DOMAIN s)
  BY <1>1
<1>4. \A i \in DOMAIN s : i + 1 \in 2..(Len(s) + 1) /\ i + 1 \in DOMAIN t /\ t[i + 1] = s[i]
  <2> SUFFICES ASSUME NEW i \in DOMAIN s
      PROVE i + 1 \in 2..(Len(s) + 1) /\ i + 1 \in DOMAIN t /\ t[i + 1] = s[i]
    OBVIOUS
  <2>1. i \in 1..Len(s) /\ (i + 1) - 1 = i
    BY <1>1
  <2>2. i + 1 \in 2..(Len(s) + 1) /\ i + 1 \in 1..(Len(s) + 1)
    BY <1>1, <2>1
  <2>3. QED
    BY <1>1, <2>1, <2>2
<1>5. 1 \in DOMAIN t
  BY <1>1
<1>6. ToSet(t) \subseteq ToSet(s) \union {w}
  BY <1>1, <1>3 DEF ToSet
<1>7. ToSet(s) \union {w} \subseteq ToSet(t)
  BY <1>1, <1>4, <1>5 DEF ToSet
<1>8. QED
  BY <1>1, <1>2, <1>6, <1>7 DEF t

(* Nothing is in the empty sequence, and in no other. *)
LEMMA EmptySet ==
  ASSUME NEW T, NEW s \in Seq(T)
  PROVE  (ToSet(s) = {} <=> s = <<>>) /\ ToSet(s) \subseteq T
<1>1. s = <<>> => DOMAIN s = {}
  OBVIOUS
<1>2. s # <<>> => 1 \in DOMAIN s
  OBVIOUS
<1>3. \A i \in DOMAIN s : s[i] \in T
  OBVIOUS
<1>4. QED
  BY <1>1, <1>2, <1>3 DEF ToSet

(* A sequence that is not empty ends with an element. *)
LEMMA LastElement ==
  ASSUME NEW T, NEW s \in Seq(T), s # <<>>
  PROVE  s[Len(s)] \in ToSet(s)
<1>1. Len(s) \in DOMAIN s
  OBVIOUS
<1>2. QED
  BY <1>1 DEF ToSet

(* A request put into the queue takes the place of an earlier one. *)
LEMMA EnqueuedSet ==
  ASSUME NEW q \in Seq(Wire), NEW w \in Wire
  PROVE  /\ Enqueued(q, w) \in Seq(Wire) /\ Enqueued(q, w) # <<>>
         /\ ToSet(Enqueued(q, w)) = ToSet(q) \union {w}
         /\ Enqueued(q, w)[Len(Enqueued(q, w))] = w
<1>1. CASE IsRequest(w)
  <2> DEFINE k == Kept(q, Wire \ {Request})
  <2>1. /\ k \in Seq(Wire)
        /\ \A i \in DOMAIN k : k[i] \in Wire \ {Request} /\ \E j \in DOMAIN q : k[i] = q[j]
        /\ \A j \in DOMAIN q : q[j] \in Wire \ {Request} => \E i \in DOMAIN k : k[i] = q[j]
    <3> DEFINE S == Wire \ {Request}
    <3> HIDE DEF S
    <3>1. /\ Kept(q, S) \in Seq(Wire)
          /\ \A i \in DOMAIN Kept(q, S) :
               Kept(q, S)[i] \in S /\ \E j \in DOMAIN q : Kept(q, S)[i] = q[j]
          /\ \A j \in DOMAIN q :
               q[j] \in S => \E i \in DOMAIN Kept(q, S) : Kept(q, S)[i] = q[j]
      BY KeptElements
    <3>2. QED
      BY <3>1 DEF S
  <2>2. \A j \in DOMAIN q : q[j] \in Wire
    OBVIOUS
  <2>3. w = Request
    BY <1>1 DEF IsRequest, Wire, Request
  <2>4. Enqueued(q, w) = Append(k, w)
    BY <1>1 DEF Enqueued
  <2> HIDE DEF k
  <2>5. ToSet(k) \union {w} = ToSet(q) \union {w}
    BY <2>1, <2>2, <2>3 DEF ToSet
  <2>6. QED
    BY <2>1, <2>4, <2>5, AppendSet
<1>2. CASE ~IsRequest(w)
  <2>1. Enqueued(q, w) = Append(q, w)
    BY <1>2 DEF Enqueued
  <2>2. QED
    BY <2>1, AppendSet
<1>3. QED
  BY <1>1, <1>2

-----------------------------------------------------------------------------
(* Publishing *)

PubType ==
  /\ queue \in [Peer -> Seq(Wire)]
  /\ publishing \in [Peer -> BOOLEAN]
  /\ sending \in [Peer -> Seq(Wire)]

(* What a step of p leaves behind: the others' packets are left alone. *)
Drains(p) ==
  /\ PubType' /\ DrainHolds'
  /\ \A x \in Peer \ {p} :
       queue'[x] = queue[x] /\ publishing'[x] = publishing[x] /\ sending'[x] = sending[x]

(* A packet that waits with the transport open has one in hand before it. *)
Served(p) == queue'[p] # <<>> /\ conn[p] = "ready" => sending'[p] # <<>>

(* One drain at most, and it is known to run. *)
OneDrain(p) == Len(sending[p]) <= 1 /\ (sending[p] # <<>> => publishing[p])

(* The last packet that is still with p. *)
Newest(p) ==
  IF queue[p] # <<>> THEN queue[p][Len(queue[p])] ELSE sending[p][Len(sending[p])]

(* A drain moves packets into hands, and loses none. *)
LEMMA DrainWithSays ==
  ASSUME PubType, DrainHolds, NEW p \in Peer, NEW q \in Seq(Wire), DrainWith(p, q)
  PROVE  /\ Drains(p) /\ Served(p)
         /\ Unsent(p)' = ToSet(q) \union ToSet(sending[p])
         /\ OneDrain(p) => OneDrain(p)'
         /\ q # <<>> => Newest(p)' = q[Len(q)]
<1> USE DEF PubType
<1> DEFINE s == sending[p]
<1>0. s \in Seq(Wire) /\ ToSet(<<>>) = {} /\ Len(s) \in Nat
  BY DEF ToSet
<1>1. CASE q # <<>> /\ ~publishing[p] /\ conn[p] = "ready"
  <2> DEFINE h == Head(q)
             t == Tail(q)
             u == Append(s, h)
  <2>1. /\ h \in Wire /\ t \in Seq(Wire) /\ ToSet(q) = ToSet(t) \union {h}
        /\ t # <<>> => t[Len(t)] = q[Len(q)]
        /\ t = <<>> => q[Len(q)] = h
    BY <1>1, HeadTailSet
  <2> HIDE DEF h, t
  <2>2. /\ u \in Seq(Wire) /\ u # <<>> /\ ToSet(u) = ToSet(s) \union {h}
        /\ Len(u) = Len(s) + 1 /\ u[Len(u)] = h
    BY <1>0, <2>1, AppendSet
  <2> HIDE DEF u
  <2>3. /\ publishing' = [publishing EXCEPT ![p] = TRUE]
        /\ sending' = [sending EXCEPT ![p] = u]
        /\ queue' = [queue EXCEPT ![p] = t]
    BY <1>1 DEF DrainWith, u, h, t
  <2>4. queue'[p] = t /\ sending'[p] = u /\ publishing'[p] = TRUE
    BY <2>3
  <2>5. PubType' /\ \A x \in Peer \ {p} :
          queue'[x] = queue[x] /\ publishing'[x] = publishing[x] /\ sending'[x] = sending[x]
    BY <2>1, <2>2, <2>3
  <2>6. DrainHolds'
    BY <2>2, <2>4, <2>5 DEF DrainHolds
  <2>7. Unsent(p)' = ToSet(q) \union ToSet(s)
    BY <2>1, <2>2, <2>4 DEF Unsent
  <2>8. OneDrain(p) => OneDrain(p)'
    <3> HAVE OneDrain(p)
    <3>1. s = <<>>
      BY <1>1 DEF OneDrain
    <3>2. Len(u) = 1
      BY <2>2, <3>1
    <3>3. Len(sending'[p]) <= 1 /\ publishing'[p]
      BY <2>4, <3>2
    <3>4. QED
      BY <3>3 DEF OneDrain
  <2>9. Newest(p)' = q[Len(q)]
    BY <2>1, <2>2, <2>4 DEF Newest
  <2>10. QED
    BY <2>2, <2>4, <2>5, <2>6, <2>7, <2>8, <2>9 DEF Drains, Served
<1>2. CASE ~(q # <<>> /\ ~publishing[p] /\ conn[p] = "ready")
  <2>1. queue' = [queue EXCEPT ![p] = q] /\ publishing' = publishing /\ sending' = sending
    BY <1>2 DEF DrainWith
  <2>2. Drains(p)
    BY <2>1 DEF DrainHolds, Drains
  <2>3. Served(p)
    BY <1>2, <2>1 DEF DrainHolds, Served
  <2>4. Unsent(p)' = ToSet(q) \union ToSet(s)
    BY <2>1 DEF Unsent
  <2>5. OneDrain(p) => OneDrain(p)'
    BY <2>1 DEF OneDrain
  <2>6. q # <<>> => Newest(p)' = q[Len(q)]
    BY <2>1 DEF Newest
  <2>7. QED
    BY <2>2, <2>3, <2>4, <2>5, <2>6
<1>3. QED
  BY <1>1, <1>2

(* Publishing adds one packet, the last. *)
LEMMA PublishSays ==
  ASSUME PubType, DrainHolds, NEW p \in Peer, NEW w \in Wire, Publish(p, w)
  PROVE  /\ Drains(p) /\ Served(p) /\ retry' = retry
         /\ Unsent(p)' = Unsent(p) \union {w}
         /\ OneDrain(p) => OneDrain(p)'
         /\ Newest(p)' = w
<1> DEFINE q == Enqueued(queue[p], w)
<1>1. queue[p] \in Seq(Wire)
  BY DEF PubType
<1>2. q \in Seq(Wire) /\ q # <<>> /\ ToSet(q) = ToSet(queue[p]) \union {w} /\ q[Len(q)] = w
  BY <1>1, EnqueuedSet
<1>3. DrainWith(p, q) /\ retry' = retry
  BY DEF Publish
<1> HIDE DEF q
<1>4. /\ Drains(p) /\ Served(p)
      /\ Unsent(p)' = ToSet(q) \union ToSet(sending[p])
      /\ OneDrain(p) => OneDrain(p)'
      /\ Newest(p)' = q[Len(q)]
  BY <1>2, <1>3, DrainWithSays
<1>5. QED
  BY <1>2, <1>3, <1>4 DEF Unsent

(* A request is published, or nothing is. *)
LEMMA RequestSays ==
  ASSUME PubType, DrainHolds, NEW p \in Peer, PublishRequest(p)
  PROVE  /\ Drains(p) /\ retry' = retry
         /\ Served(p) \/ UNCHANGED <<queue, sending>>
         /\ Unsent(p)' \in {Unsent(p), Unsent(p) \union {Request}}
<1>1. CASE conn[p] = "ready"
  <2>1. Request \in Wire /\ Publish(p, Request)
    BY <1>1 DEF PublishRequest, Request, Wire
  <2>2. QED
    BY <2>1, PublishSays
<1>2. CASE conn[p] # "ready"
  <2>1. UNCHANGED publisher
    BY <1>2 DEF PublishRequest
  <2>2. QED
    BY <2>1 DEF publisher, Drains, PubType, DrainHolds, Unsent
<1>3. QED
  BY <1>1, <1>2

(* A packet leaves the hands of its drain, which takes the next one. *)
LEMMA DrainOnSays ==
  ASSUME PubType, DrainHolds, NEW p \in Peer, NEW i \in DOMAIN sending[p],
         DrainOn(p, i, queue[p])
  PROVE  /\ Drains(p) /\ Served(p)
         /\ sending[p][i] \in Wire
         /\ Unsent(p) = Unsent(p)' \union {sending[p][i]}
         /\ OneDrain(p) => /\ OneDrain(p)'
                           /\ Unsent(p)' # {} => Newest(p)' = Newest(p)
                           /\ Unsent(p)' = {} => Newest(p) = sending[p][i]
<1> USE DEF PubType
<1> DEFINE q == queue[p]
           s == sending[p]
           v == Without(s, i)
           w == s[i]
<1>0. q \in Seq(Wire) /\ s \in Seq(Wire) /\ i \in DOMAIN s /\ ToSet(<<>>) = {}
  BY DEF ToSet
<1>1. v \in Seq(Wire) /\ Len(v) = Len(s) - 1 /\ ToSet(s) = ToSet(v) \union {w}
  BY <1>0, WithoutSet
<1>2. w \in Wire /\ Len(s) \in Nat /\ i \in 1..Len(s) /\ Len(s) # 0 /\ s # <<>>
  BY <1>0
<1>3. OneDrain(p) => /\ Len(s) = 1 /\ i = 1 /\ publishing[p] /\ w = s[Len(s)]
                     /\ v = <<>>
  BY <1>1, <1>2 DEF OneDrain
<1> HIDE DEF v, w
<1>4. CASE q # <<>> /\ conn[p] = "ready"
  <2> DEFINE h == Head(q)
             t == Tail(q)
             u == Append(v, h)
  <2>1. /\ h \in Wire /\ t \in Seq(Wire) /\ ToSet(q) = ToSet(t) \union {h}
        /\ t # <<>> => t[Len(t)] = q[Len(q)]
        /\ t = <<>> => q[Len(q)] = h
    BY <1>0, <1>4, HeadTailSet
  <2> HIDE DEF h, t
  <2>2. /\ u \in Seq(Wire) /\ u # <<>> /\ ToSet(u) = ToSet(v) \union {h}
        /\ Len(u) = Len(v) + 1 /\ u[Len(u)] = h
    BY <1>1, <2>1, AppendSet
  <2> HIDE DEF u
  <2>3. /\ publishing' = publishing
        /\ sending' = [sending EXCEPT ![p] = u]
        /\ queue' = [queue EXCEPT ![p] = t]
    BY <1>4 DEF DrainOn, u, h, t, v
  <2>4. queue'[p] = t /\ sending'[p] = u
    BY <2>3
  <2>5. Drains(p)
    BY <2>1, <2>2, <2>3 DEF Drains, DrainHolds
  <2>6. Unsent(p) = Unsent(p)' \union {w}
    BY <1>1, <2>1, <2>2, <2>4 DEF Unsent
  <2>7. OneDrain(p) => OneDrain(p)'
    BY <1>1, <1>3, <2>2, <2>3, <2>4 DEF OneDrain
  <2>8. Newest(p)' = Newest(p) /\ Unsent(p)' # {}
    BY <1>4, <2>1, <2>2, <2>4 DEF Newest, Unsent
  <2>9. QED
    BY <1>2, <2>2, <2>4, <2>5, <2>6, <2>7, <2>8 DEF Served, w
<1>5. CASE ~(q # <<>> /\ conn[p] = "ready")
  <2>1. /\ sending' = [sending EXCEPT ![p] = v]
        /\ queue' = [queue EXCEPT ![p] = q]
        /\ publishing' = [publishing EXCEPT ![p] = FALSE]
    BY <1>5 DEF DrainOn, v
  <2>2. queue'[p] = q /\ sending'[p] = v /\ publishing'[p] = FALSE
    BY <2>1
  <2>3. Drains(p)
    BY <1>1, <2>1 DEF Drains, DrainHolds
  <2>4. Unsent(p) = Unsent(p)' \union {w}
    BY <1>1, <2>2 DEF Unsent
  <2>5. OneDrain(p) => OneDrain(p)'
    BY <1>1, <1>3, <2>2 DEF OneDrain
  <2>6. OneDrain(p) => /\ Unsent(p)' # {} => Newest(p)' = Newest(p)
                       /\ Unsent(p)' = {} => Newest(p) = w
    <3> HAVE OneDrain(p)
    <3>1. Unsent(p)' = ToSet(q)
      BY <1>0, <1>3, <2>2 DEF Unsent
    <3>2. ToSet(q) = {} <=> q = <<>>
      BY <1>0, EmptySet
    <3>3. QED
      BY <1>3, <2>2, <3>1, <3>2 DEF Newest
  <2>7. QED
    BY <1>2, <1>5, <2>2, <2>3, <2>4, <2>5, <2>6 DEF Served, w
<1>6. QED
  BY <1>4, <1>5

-----------------------------------------------------------------------------
(* Stages, packets and who speaks *)

(* The type invariant but for queues and drains. *)
RoomType ==
  /\ stage \in [Peer -> Stage \union {NoStage}]
  /\ conn \in [Peer -> {"out", "closed", "ready"}]
  /\ retry \in [Peer -> BOOLEAN]
  /\ chan \in [Peer -> [Peer -> Seq(Wire)]]
  /\ notice \in [Peer -> Seq(Event)]
  /\ pushing \in [Peer -> BOOLEAN]
  /\ share \in [Peer -> Tracks]
  /\ now \in 0..MaxStamps
  /\ latest \in Peer \union {NoPeer}
  /\ syncs \in 0..MaxSyncs
  /\ trouble \subseteq Trouble

(* The type invariant is its parts. *)
LEMMA TypeParts == TypeOK <=> PubType /\ RoomType
BY DEF TypeOK, PubType, RoomType

(* After a step as well. *)
LEMMA NextTypeParts == TypeOK' <=> PubType' /\ RoomType'
BY DEF TypeOK, PubType, RoomType

(* What is said about stages is a packet. *)
LEMMA WireFacts ==
  /\ \A s \in Stage : SetMsg(s) \in Wire /\ SetMsg(s).type = "set" /\ SetMsg(s).stage = s
  /\ \A p \in Peer : /\ ClearMsg(p) \in Wire /\ ClearMsg(p).type = "clear" /\ ClearMsg(p).owner = p
                     /\ SyncMsg(p) \in Wire /\ SyncMsg(p).type = "sync" /\ SyncMsg(p).owner = p
  /\ Request \in Wire /\ Request.type = "request"
  /\ \A w \in Wire : /\ w.type \in {"set", "clear", "sync", "request"}
                     /\ w.type = "set" => w.stage \in Stage /\ w = SetMsg(w.stage)
                     /\ w.type \in {"clear", "sync"} => w.owner \in Peer
                     /\ w.type = "request" => w = Request
BY DEF Wire, SetMsg, ClearMsg, SyncMsg, Request

(* A stage with another stamp. *)
LEMMA StageFacts ==
  ASSUME NEW s \in Stage
  PROVE  /\ s.owner \in Peer /\ s.kind \in Kind /\ s.at \in 1..MaxStamps
         /\ \A n \in 1..MaxStamps : LET t == [s EXCEPT !.at = n]
                                    IN t \in Stage /\ t.owner = s.owner /\ t.kind = s.kind /\ t.at = n
BY DEF Stage

(* Packets under way are packets. *)
LEMMA TrafficType ==
  ASSUME TypeOK, NEW p \in Peer, NEW q \in Peer
  PROVE  Unsent(p) \subseteq Wire /\ OnTheWay(p, q) \subseteq Wire
<1>1. queue[p] \in Seq(Wire) /\ sending[p] \in Seq(Wire) /\ chan[p][q] \in Seq(Wire)
  BY DEF TypeOK
<1>2. ToSet(queue[p]) \subseteq Wire /\ ToSet(sending[p]) \subseteq Wire /\ ToSet(chan[p][q]) \subseteq Wire
  BY <1>1, EmptySet
<1>3. QED
  BY <1>2 DEF Unsent, OnTheWay

(* After a step as well. *)
LEMMA NextTrafficType ==
  ASSUME TypeOK', NEW p \in Peer, NEW q \in Peer
  PROVE  OnTheWay(p, q)' \subseteq Wire
<1>1. queue'[p] \in Seq(Wire) /\ sending'[p] \in Seq(Wire) /\ chan'[p][q] \in Seq(Wire)
  BY DEF TypeOK
<1>2. ToSet(queue'[p]) \subseteq Wire /\ ToSet(sending'[p]) \subseteq Wire /\ ToSet(chan'[p][q]) \subseteq Wire
  BY <1>1, EmptySet
<1>3. QED
  BY <1>2 DEF Unsent, OnTheWay

(* Sets are packets that carry a stage. *)
LEMMA SetFacts ==
  ASSUME NEW W, W \subseteq Wire, NEW w \in Sets(W)
  PROVE  w \in W /\ w \in Wire /\ w.type = "set" /\ w.stage \in Stage /\ w = SetMsg(w.stage)
         /\ w.stage.at \in 1..MaxStamps /\ w.stage.owner \in Peer /\ w.stage.kind \in Kind
BY WireFacts, StageFacts DEF Sets

(* Only p says something, and what it says is N. *)
Speech(p, N) ==
  /\ \A x, y \in Peer : x # p => OnTheWay(x, y)' = OnTheWay(x, y)
  /\ \A y \in Peer : OnTheWay(p, y)' = OnTheWay(p, y) \union N

(* Publishing is speech: nothing is lost and nobody else says anything. *)
LEMMA SpeechTraffic ==
  ASSUME NEW p \in Peer, NEW N, Drains(p), Unsent(p)' = Unsent(p) \union N, chan' = chan
  PROVE  Speech(p, N)
<1>1. \A y \in Peer : OnTheWay(p, y)' = OnTheWay(p, y) \union N
  BY DEF OnTheWay
<1>2. ASSUME NEW x \in Peer, NEW y \in Peer, x # p PROVE OnTheWay(x, y)' = OnTheWay(x, y)
  <2>1. queue'[x] = queue[x] /\ sending'[x] = sending[x]
    BY <1>2 DEF Drains
  <2>2. QED
    BY <2>1 DEF OnTheWay, Unsent
<1>3. QED
  BY <1>1, <1>2 DEF Speech

(* Nobody says anything. *)
Silence == \A x, y \in Peer : OnTheWay(x, y)' = OnTheWay(x, y)

(* With queues, hands and channels as they were, nobody says anything. *)
LEMMA SilentTraffic ==
  ASSUME queue' = queue, sending' = sending, chan' = chan
  PROVE  Silence
BY DEF Silence, OnTheWay, Unsent

-----------------------------------------------------------------------------
(* What keeps the parts of the invariant *)

(* Packets keep waiting for a drain only. *)
LEMMA NotStuckKept ==
  ASSUME NotStuck, NEW p \in Peer, Drains(p), Served(p), retry' = retry, conn' = conn
  PROVE  NotStuck'
BY DEF NotStuck, Drains, Served

(* Everybody keeps speaking for itself. *)
LEMMA PacketsKept ==
  ASSUME TypeOK, TypeOK', PacketInv, now <= now', syncs <= syncs',
         \A x, y \in Peer : \A w \in OnTheWay(x, y)' : w \in OnTheWay(x, y) \/ Speaks(x, w)'
  PROVE  PacketInv'
<1> SUFFICES ASSUME NEW x \in Peer, NEW y \in Peer, NEW w \in OnTheWay(x, y)'
    PROVE Speaks(x, w)'
  BY DEF PacketInv
<1>1. CASE w \in OnTheWay(x, y)
  <2>1. Speaks(x, w)
    BY <1>1 DEF PacketInv
  <2>2. w \in Wire
    BY <1>1, TrafficType
  <2>3. w.type = "set" => w.stage.at \in Nat
    BY <2>2, WireFacts, StageFacts
  <2>4. now \in Nat /\ now' \in Nat /\ syncs \in Nat /\ syncs' \in Nat
    BY StageAssumption DEF TypeOK
  <2>5. QED
    BY <2>1, <2>3, <2>4 DEF Speaks
<1>2. QED
  BY <1>1

(* Stamps stay apart when only p's stage changes, to none, to a fresh one  *)
(* of its own, or to somebody else's.                                      *)
LEMMA StampsKept ==
  ASSUME TypeOK, TypeOK', StampInv, NEW p \in Peer, now <= now',
         \A x \in Peer \ {p} : stage'[x] = stage[x],
         stage'[p] \notin {NoStage, stage[p]} =>
           stage'[p].at <= now' /\ (stage'[p].owner = p => stage'[p].at > now)
  PROVE  StampInv'
<1>1. now \in Nat /\ now' \in Nat
  BY StageAssumption DEF TypeOK
<1>2. \A x \in Peer : /\ stage[x] # NoStage => stage[x].at \in Nat
                      /\ stage'[x] # NoStage => stage'[x].at \in Nat
  <2>1. \A x \in Peer : stage[x] \in Stage \union {NoStage} /\ stage'[x] \in Stage \union {NoStage}
    BY DEF TypeOK
  <2>2. \A s \in Stage : s.at \in Nat
    BY StageFacts
  <2>3. QED
    BY <2>1, <2>2
<1>3. ASSUME NEW x \in Peer, stage'[x] # NoStage
      PROVE  stage'[x].at <= now'
  <2>1. CASE stage'[x] = stage[x]
    BY <1>1, <1>2, <1>3, <2>1 DEF StampInv
  <2>2. CASE stage'[x] # stage[x]
    BY <1>3, <2>2
  <2>3. QED
    BY <2>1, <2>2
<1>4. ASSUME NEW x \in Peer, NEW y \in Peer, Owns(x)', Owns(y)', stage'[x].at = stage'[y].at
      PROVE  x = y
  <2>1. stage'[x] # NoStage /\ stage'[x].owner = x /\ stage'[y] # NoStage /\ stage'[y].owner = y
    BY <1>4 DEF Owns, Holds
  <2>2. CASE stage'[x] = stage[x] /\ stage'[y] = stage[y]
    BY <1>4, <2>1, <2>2 DEF StampInv, Owns, Holds
  <2>3. CASE stage'[x] # stage[x] /\ stage'[y] = stage[y]
    <3>1. x = p /\ stage'[x].at > now
      BY <2>1, <2>3
    <3>2. stage[y].at <= now
      BY <2>1, <2>3 DEF StampInv
    <3>3. QED
      BY <1>1, <1>2, <1>4, <2>1, <2>3, <3>1, <3>2
  <2>4. CASE stage'[x] = stage[x] /\ stage'[y] # stage[y]
    <3>1. y = p /\ stage'[y].at > now
      BY <2>1, <2>4
    <3>2. stage[x].at <= now
      BY <2>1, <2>4 DEF StampInv
    <3>3. QED
      BY <1>1, <1>2, <1>4, <2>1, <2>4, <3>1, <3>2
  <2>5. CASE stage'[x] # stage[x] /\ stage'[y] # stage[y]
    BY <2>5
  <2>6. QED
    BY <2>2, <2>3, <2>4, <2>5
<1>5. QED
  BY <1>3, <1>4 DEF StampInv

(* Who will learn of a later stage still will, unless what it waits for    *)
(* arrives.                                                                *)
LEMMA LearnsKept ==
  ASSUME NEW p \in Peer, NEW q \in Peer, Learns(p, q),
         stage'[p] = stage[p],
         conn[p] = "closed" => conn'[p] = "closed",
         conn[q] = "closed" => conn'[q] = "closed",
         \A w \in Sets(OnTheWay(q, p)) :
           w.stage.at >= stage[p].at => w \in Sets(OnTheWay(q, p)'),
         Request \in OnTheWay(p, q) => Request \in OnTheWay(p, q)'
  PROVE  Learns(p, q)'
BY DEF Learns, Sets

(* It stays calm while nobody asks and no second drain starts. *)
LEMMA CalmKept ==
  ASSUME CalmInv,
         trouble' = {} => /\ trouble = {}
                          /\ UNCHANGED <<conn, retry, pushing, notice>>
                          /\ \A x \in Peer : OneDrain(x) => OneDrain(x)'
                          /\ \A x, y \in Peer : Request \in OnTheWay(x, y)' => Request \in OnTheWay(x, y)
  PROVE  CalmInv'
BY DEF CalmInv, Calm, OneDrain

-----------------------------------------------------------------------------
(* Without trouble: what keeps AgreeInv *)

(* What is the last packet under way. *)
LEMMA FinalNewest ==
  ASSUME TypeOK, NEW p \in Peer, NEW q \in Peer
  PROVE  /\ Unsent(p) # {} => Final(p, q) = Newest(p)
         /\ Unsent(p) = {} => Final(p, q) = chan[p][q][Len(chan[p][q])]
<1>1. queue[p] \in Seq(Wire) /\ sending[p] \in Seq(Wire)
  BY DEF TypeOK
<1>2. Unsent(p) = {} <=> queue[p] = <<>> /\ sending[p] = <<>>
  BY <1>1, EmptySet DEF Unsent
<1>3. QED
  BY <1>2 DEF Final, Newest

(* After a step as well. *)
LEMMA NextFinalNewest ==
  ASSUME TypeOK', NEW p \in Peer, NEW q \in Peer
  PROVE  /\ Unsent(p)' # {} => Final(p, q)' = Newest(p)'
         /\ Unsent(p)' = {} => Final(p, q)' = chan'[p][q][Len(chan'[p][q])]
<1>1. queue'[p] \in Seq(Wire) /\ sending'[p] \in Seq(Wire)
  BY DEF TypeOK
<1>2. Unsent(p)' = {} <=> queue'[p] = <<>> /\ sending'[p] = <<>>
  BY <1>1, EmptySet DEF Unsent
<1>3. QED
  BY <1>2 DEF Final, Newest

(* The last packet under way is a matter of one queue and one channel. *)
LEMMA FinalSame ==
  ASSUME NEW x, NEW y,
         queue'[x] = queue[x], sending'[x] = sending[x], chan'[x][y] = chan[x][y]
  PROVE  Final(x, y)' = Final(x, y)
BY DEF Final

(* The stamps of what is shown and of what is under way are in the past. *)
LEMMA Past ==
  ASSUME TypeOK, PacketInv, StampInv
  PROVE  /\ now \in Nat
         /\ \A x \in Peer : stage[x] # NoStage => /\ stage[x] \in Stage /\ stage[x].at \in Nat
                                                  /\ stage[x].at <= now
         /\ \A x, y \in Peer : \A w \in Sets(OnTheWay(x, y)) :
              /\ w.stage \in Stage /\ w.stage.at \in Nat /\ w.stage.at <= now
              /\ w.stage.owner = x /\ w = SetMsg(w.stage)
<1>1. now \in Nat
  BY StageAssumption DEF TypeOK
<1>2. \A s \in Stage : s.at \in Nat
  BY StageFacts
<1>3. \A x \in Peer : stage[x] # NoStage => stage[x] \in Stage /\ stage[x].at <= now
  BY DEF TypeOK, StampInv
<1>4. ASSUME NEW x \in Peer, NEW y \in Peer, NEW w \in Sets(OnTheWay(x, y))
      PROVE  /\ w.stage \in Stage /\ w.stage.at <= now
             /\ w.stage.owner = x /\ w = SetMsg(w.stage)
  <2>1. OnTheWay(x, y) \subseteq Wire
    BY TrafficType
  <2>2. w \in OnTheWay(x, y) /\ w.type = "set" /\ w.stage \in Stage /\ w = SetMsg(w.stage)
    BY <2>1, SetFacts
  <2>3. QED
    BY <2>2 DEF PacketInv, Speaks
<1>5. QED
  BY <1>1, <1>2, <1>3, <1>4

(* Owning is showing one's own. *)
LEMMA OwnerFacts ==
  ASSUME NEW p \in Peer
  PROVE  /\ Owns(p) <=> stage[p] # NoStage /\ stage[p].owner = p
         /\ Owns(p)' <=> stage'[p] # NoStage /\ stage'[p].owner = p
BY DEF Owns, Holds

(* The owner of s says t, which is newer than anything, and means s. *)
LEMMA AgreeSaid ==
  ASSUME StageInv, TypeOK', NEW c \in Peer, NEW s \in Stage, NEW t \in Stage,
         s.owner = c, t.owner = c, t.kind = s.kind, t.at = now + 1, s = t \/ s = stage[c],
         stage' = [stage EXCEPT ![c] = s],
         Speech(c, {SetMsg(t)}), Newest(c)' = SetMsg(t), SetMsg(t) \in Unsent(c)',
         trouble' = trouble, syncs' = syncs
  PROVE  AgreeInv'
<1> USE DEF StageInv
<1> DEFINE f == SetMsg(t)
<1> SUFFICES ASSUME trouble = {}, syncs = 0, NEW p \in Peer, Owns(p)'
    PROVE  HeardInv(p)' /\ \A q \in Peer \ {p} : Overtaken(p)' \/ Reaches(p, q)'
  BY DEF AgreeInv
<1>1. f.type = "set" /\ f.stage = t /\ t.at \in Nat /\ s.at \in Nat
  BY WireFacts, StageFacts
<1>2. /\ now \in Nat
      /\ \A x \in Peer : stage[x] # NoStage => stage[x] \in Stage /\ stage[x].at \in Nat /\ stage[x].at <= now
      /\ \A x, y \in Peer : \A w \in Sets(OnTheWay(x, y)) :
            w.stage \in Stage /\ w.stage.at \in Nat /\ w.stage.at <= now
  BY Past
<1>3. \A x, y \in Peer : x # c => OnTheWay(x, y)' = OnTheWay(x, y)
  BY DEF Speech
<1>4. \A y \in Peer : OnTheWay(c, y)' = OnTheWay(c, y) \union {f}
  BY DEF Speech
<1>5. \A y \in Peer : f \in Sets(OnTheWay(c, y)')
  BY <1>1, <1>4 DEF Sets
<1> HIDE DEF f
<1>6. CASE p # c
  <2>1. stage'[p] = stage[p] /\ stage[p] # NoStage
    BY <1>6 DEF Owns, Holds, TypeOK
  <2>2. f.stage.at >= stage'[p].at
    BY <1>1, <1>2, <2>1
  <2>3. Overtaken(p)'
    BY <1>5, <1>6, <2>2 DEF Overtaken, Sets
  <2>4. QED
    BY <2>3 DEF HeardInv
<1>7. CASE p = c
  <2>1. stage'[c] = s
    BY DEF TypeOK
  <2>2. s = t \/ (s = stage[c] /\ Owns(c))
    <3>1. s # NoStage
      BY StageAssumption
    <3>2. QED
      BY <3>1 DEF Owns, Holds
  <2>3. Owns(c) => HeardInv(c)
    BY DEF AgreeInv
  <2>4. s = stage[c] /\ Overtaken(c) => Overtaken(c)'
    BY <1>3, <2>1 DEF Overtaken
  <2>5. HeardInv(c)'
    <3>1. ASSUME NEW q \in Peer, stage'[q] # NoStage, stage'[q].owner # c, stage'[q].at >= stage'[c].at
          PROVE  Overtaken(c)'
      <4>1. q # c /\ stage'[q] = stage[q]
        BY <2>1, <3>1 DEF TypeOK
      <4>2. s # t
        BY <1>2, <2>1, <3>1, <4>1
      <4>3. QED
        BY <2>1, <2>2, <2>3, <2>4, <3>1, <4>1, <4>2 DEF HeardInv
    <3>2. ASSUME NEW r \in Peer \ {c}, NEW q \in Peer, NEW w \in Sets(OnTheWay(r, q)'),
                 w.stage.at >= stage'[c].at
          PROVE  Overtaken(c)'
      <4>1. w \in Sets(OnTheWay(r, q))
        BY <1>3
      <4>2. s # t
        BY <1>2, <2>1, <3>2, <4>1
      <4>3. QED
        BY <2>1, <2>2, <2>3, <2>4, <3>2, <4>1, <4>2 DEF HeardInv
    <3>3. QED
      BY <3>1, <3>2 DEF HeardInv, Sets
  <2>6. ASSUME NEW q \in Peer \ {c} PROVE Reaches(c, q)'
    <3>1. Final(c, q)' = f
      <4>1. Unsent(c)' # {}
        OBVIOUS
      <4>2. QED
        BY <4>1, NextFinalNewest DEF f
    <3>2. OnTheWay(c, q)' # {}
      BY <1>4
    <3>3. f.stage.kind = stage'[c].kind /\ f.stage.at >= stage'[c].at
      <4>1. s = stage[c] => s.at <= now
        BY <1>2, StageAssumption
      <4>2. t.at >= s.at
        BY <1>1, <1>2, <4>1
      <4>3. QED
        BY <1>1, <2>1, <4>2
    <3>4. \A w \in Sets(OnTheWay(c, q)') : w.stage.at <= f.stage.at
      <4>1. \A w \in Sets(OnTheWay(c, q)') : w = f \/ w \in Sets(OnTheWay(c, q))
        BY <1>4 DEF Sets
      <4>2. QED
        BY <1>1, <1>2, <4>1
    <3>5. Holds(stage'[q], c) => stage'[q].at <= f.stage.at
      <4>1. stage'[q] = stage[q]
        OBVIOUS
      <4>2. QED
        BY <1>1, <1>2, <4>1 DEF Holds
    <3>6. QED
      BY <1>1, <3>1, <3>2, <3>3, <3>4, <3>5 DEF Reaches, Sets
  <2>7. QED
    BY <1>7, <2>5, <2>6
<1>8. QED
  BY <1>6, <1>7

(* The owner clears its stage and says so. *)
LEMMA AgreeCleared ==
  ASSUME StageInv, TypeOK', NEW c \in Peer, Owns(c),
         stage' = [stage EXCEPT ![c] = NoStage],
         Speech(c, {ClearMsg(c)}), Drains(c), chan' = chan,
         trouble' = trouble, syncs' = syncs
  PROVE  AgreeInv'
<1> USE DEF StageInv
<1> SUFFICES ASSUME trouble = {}, syncs = 0, NEW p \in Peer, Owns(p)'
    PROVE  HeardInv(p)' /\ \A q \in Peer \ {p} : Overtaken(p)' \/ Reaches(p, q)'
  BY DEF AgreeInv
<1>1. p # c /\ stage'[p] = stage[p] /\ Owns(p)
  BY DEF Owns, Holds, TypeOK
<1>2. /\ HeardInv(p)
      /\ \A q \in Peer \ {p} : Overtaken(p) \/ Reaches(p, q)
  BY <1>1 DEF AgreeInv
<1>3. \A x, y \in Peer : Sets(OnTheWay(x, y)') = Sets(OnTheWay(x, y))
  <2>1. ClearMsg(c).type # "set"
    BY WireFacts
  <2>2. QED
    BY <2>1 DEF Speech, Sets
<1>4. Overtaken(p)' <=> Overtaken(p)
  BY <1>1, <1>3 DEF Overtaken, Sets
<1>5. \A q \in Peer : stage'[q] # NoStage => stage'[q] = stage[q]
  BY DEF TypeOK
<1>6. HeardInv(p)'
  <2>1. ASSUME NEW q \in Peer, stage'[q] # NoStage, stage'[q].owner # p, stage'[q].at >= stage'[p].at
        PROVE  Overtaken(p)'
    BY <1>1, <1>2, <1>4, <1>5, <2>1 DEF HeardInv
  <2>2. ASSUME NEW r \in Peer \ {p}, NEW q \in Peer, NEW w \in Sets(OnTheWay(r, q)'),
               w.stage.at >= stage'[p].at
        PROVE  Overtaken(p)'
    BY <1>1, <1>2, <1>3, <1>4, <2>2 DEF HeardInv
  <2>3. QED
    BY <2>1, <2>2 DEF HeardInv, Sets
<1>7. ASSUME NEW q \in Peer \ {p}, ~Overtaken(p) PROVE Reaches(p, q)'
  <2>1. Reaches(p, q)
    BY <1>2, <1>7
  <2>2. OnTheWay(p, q)' = OnTheWay(p, q)
    BY <1>1 DEF Speech
  <2>3. Final(p, q)' = Final(p, q)
    BY <1>1 DEF Final, Drains
  <2>4. CASE q = c
    <3>1. ~Holds(stage[c], p) /\ ~Holds(stage'[c], p)
      BY <1>1 DEF Owns, Holds, TypeOK
    <3>2. OnTheWay(p, q) # {}
      BY <2>1, <2>4, <3>1 DEF Reaches
    <3>3. QED
      BY <1>1, <2>1, <2>2, <2>3, <2>4, <3>1, <3>2 DEF Reaches
  <2>5. CASE q # c
    <3>1. stage'[q] = stage[q]
      BY <2>5
    <3>2. QED
      BY <1>1, <2>1, <2>2, <2>3, <3>1 DEF Reaches
  <2>6. QED
    BY <2>4, <2>5
<1>8. QED
  BY <1>4, <1>6, <1>7

(* Nothing that the agreement is about changes. *)
LEMMA AgreeSame ==
  ASSUME AgreeInv, stage' = stage, queue' = queue, sending' = sending, chan' = chan,
         trouble' = trouble, syncs' = syncs
  PROVE  AgreeInv'
<1>1. \A x, y \in Peer : OnTheWay(x, y)' = OnTheWay(x, y) /\ Final(x, y)' = Final(x, y)
  BY DEF OnTheWay, Unsent, Final
<1>2. \A x, y \in Peer : Sets(OnTheWay(x, y)') = Sets(OnTheWay(x, y))
  BY <1>1 DEF Sets
<1>3. \A p \in Peer : Overtaken(p)' <=> Overtaken(p)
  BY <1>2 DEF Overtaken, Sets
<1>4. \A p \in Peer : HeardInv(p)' <=> HeardInv(p)
  BY <1>2, <1>3 DEF HeardInv, Sets
<1>5. \A p, q \in Peer : Reaches(p, q)' <=> Reaches(p, q)
  BY <1>1 DEF Reaches, Sets
<1>6. QED
  BY <1>3, <1>4, <1>5 DEF AgreeInv, Owns

(* A packet of c goes out to everybody. *)
LEMMA AgreeSent ==
  ASSUME StageInv, TypeOK', NEW c \in Peer, NEW w \in Wire,
         stage' = stage, trouble' = trouble, syncs' = syncs,
         chan' = Reached(c, w), Drains(c),
         Unsent(c) = Unsent(c)' \union {w},
         OneDrain(c) => /\ Unsent(c)' # {} => Newest(c)' = Newest(c)
                        /\ Unsent(c)' = {} => Newest(c) = w
  PROVE  AgreeInv'
<1> USE DEF StageInv
<1> SUFFICES ASSUME trouble = {}, syncs = 0, NEW p \in Peer, Owns(p)
    PROVE  HeardInv(p)' /\ \A q \in Peer \ {p} : Overtaken(p)' \/ Reaches(p, q)'
  BY DEF AgreeInv, Owns
<1>1. \A x \in Peer : conn[x] = "ready" /\ OneDrain(x)
  BY DEF CalmInv, Calm, OneDrain
<1>2. \A x, y \in Peer : x # c => chan'[x][y] = chan[x][y] /\ OnTheWay(x, y)' = OnTheWay(x, y)
  <2>1. \A x, y \in Peer : x # c => chan'[x][y] = chan[x][y]
    BY DEF Reached, TypeOK
  <2>2. \A x \in Peer : x # c => Unsent(x)' = Unsent(x)
    BY DEF Unsent, Drains
  <2>3. QED
    BY <2>1, <2>2 DEF OnTheWay
<1>3. \A y \in Peer : y # c => chan'[c][y] = Append(chan[c][y], w)
  BY <1>1 DEF Reached, TypeOK, Present
<1>4. chan'[c][c] = chan[c][c]
  BY DEF Reached, TypeOK
<1>5. ASSUME NEW y \in Peer, y # c
      PROVE  /\ OnTheWay(c, y)' = OnTheWay(c, y) /\ OnTheWay(c, y) # {}
             /\ Final(c, y)' = Final(c, y)
  <2> DEFINE s == chan[c][y]
             t == Append(s, w)
  <2>1. s \in Seq(Wire)
    BY DEF TypeOK
  <2>2. ToSet(t) = ToSet(s) \union {w} /\ t[Len(t)] = w
    BY <2>1, AppendSet
  <2>3. chan'[c][y] = t
    BY <1>3, <1>5
  <2> HIDE DEF t
  <2>4. OnTheWay(c, y)' = OnTheWay(c, y) /\ OnTheWay(c, y) # {}
    BY <2>2, <2>3 DEF OnTheWay
  <2>5. Final(c, y) = Newest(c)
    BY FinalNewest
  <2>6. CASE Unsent(c)' # {}
    <3>1. Final(c, y)' = Newest(c)'
      BY <2>6, NextFinalNewest
    <3>2. Newest(c)' = Newest(c)
      BY <1>1, <2>6
    <3>3. QED
      BY <2>4, <2>5, <3>1, <3>2
  <2>7. CASE Unsent(c)' = {}
    <3>1. Final(c, y)' = t[Len(t)]
      BY <2>3, <2>7, NextFinalNewest
    <3>2. Newest(c) = w
      BY <1>1, <2>7
    <3>3. QED
      BY <2>2, <2>4, <2>5, <3>1, <3>2
  <2>8. QED
    BY <2>4, <2>6, <2>7
<1>6. OnTheWay(c, c)' \subseteq OnTheWay(c, c)
  BY <1>4 DEF OnTheWay
<1>7. \A x, y \in Peer : x # y => OnTheWay(x, y)' = OnTheWay(x, y)
  BY <1>2, <1>5
<1>8. \A x, y \in Peer : Sets(OnTheWay(x, y)') \subseteq Sets(OnTheWay(x, y))
  BY <1>2, <1>6, <1>7 DEF Sets
<1>9. Overtaken(p)' <=> Overtaken(p)
  BY <1>7 DEF Overtaken, Sets
<1>10. /\ HeardInv(p)
       /\ \A q \in Peer \ {p} : Overtaken(p) \/ Reaches(p, q)
  BY DEF AgreeInv
<1>11. HeardInv(p)'
  BY <1>8, <1>9, <1>10 DEF HeardInv, Sets
<1>12. ASSUME NEW q \in Peer \ {p}, Reaches(p, q) PROVE Reaches(p, q)'
  <2>1. Final(p, q)' = Final(p, q)
    <3>1. CASE p = c
      BY <1>5, <3>1
    <3>2. CASE p # c
      <4>1. queue'[p] = queue[p] /\ sending'[p] = sending[p] /\ chan'[p][q] = chan[p][q]
        BY <1>2, <3>2 DEF Drains
      <4>2. QED
        BY <4>1 DEF Final
    <3>3. QED
      BY <3>1, <3>2
  <2>2. OnTheWay(p, q)' = OnTheWay(p, q)
    BY <1>7
  <2>3. QED
    BY <1>12, <2>1, <2>2 DEF Reaches, Sets
<1>13. QED
  BY <1>9, <1>10, <1>11, <1>12

(* A packet of c arrives at d: what is left of the traffic. *)
LEMMA ArrivalTraffic ==
  ASSUME TypeOK, NEW c \in Peer, NEW d \in Peer, chan[c][d] # <<>>,
         chan' = [chan EXCEPT ![c][d] = Tail(@)], Drains(d)
  PROVE  LET w == Head(chan[c][d])
         IN /\ w \in OnTheWay(c, d) /\ w \in Wire
            /\ c # d => OnTheWay(c, d) = OnTheWay(c, d)' \union {w}
            /\ \A x, y \in Peer :
                 x # d /\ ~(x = c /\ y = d) => OnTheWay(x, y)' = OnTheWay(x, y)
            /\ \A y \in Peer : Unsent(d)' = Unsent(d) /\ c # d => OnTheWay(d, y)' = OnTheWay(d, y)
            /\ c # d => IF OnTheWay(c, d)' = {} THEN Final(c, d) = w
                                                ELSE Final(c, d)' = Final(c, d)
            /\ \A x, y \in Peer :
                 x # d /\ ~(x = c /\ y = d) => Final(x, y)' = Final(x, y)
            /\ \A x, y \in Peer : ~(x = c /\ y = d) => chan'[x][y] = chan[x][y]
<1> DEFINE s == chan[c][d]
           w == Head(s)
           t == Tail(s)
<1>1. s \in Seq(Wire)
  BY DEF TypeOK
<1>2. /\ w \in Wire /\ t \in Seq(Wire) /\ ToSet(s) = ToSet(t) \union {w}
      /\ t # <<>> => t[Len(t)] = s[Len(s)]
      /\ t = <<>> => s[Len(s)] = w
  BY <1>1, HeadTailSet
<1>3. chan'[c][d] = t
  BY DEF TypeOK
<1>4. \A x, y \in Peer : ~(x = c /\ y = d) => chan'[x][y] = chan[x][y]
  BY DEF TypeOK
<1>5. ToSet(t) = {} <=> t = <<>>
  BY <1>2, EmptySet
<1> HIDE DEF w, t
<1>6. \A x \in Peer : x # d => queue'[x] = queue[x] /\ sending'[x] = sending[x] /\ Unsent(x)' = Unsent(x)
  BY DEF Drains, Unsent
<1>7. w \in OnTheWay(c, d)
  BY <1>2 DEF OnTheWay
<1>8. c # d => OnTheWay(c, d) = OnTheWay(c, d)' \union {w}
  BY <1>2, <1>3, <1>6 DEF OnTheWay
<1>9. \A x, y \in Peer : x # d /\ ~(x = c /\ y = d) =>
        OnTheWay(x, y)' = OnTheWay(x, y) /\ Final(x, y)' = Final(x, y)
  BY <1>4, <1>6 DEF OnTheWay, Final
<1>10. \A y \in Peer : Unsent(d)' = Unsent(d) /\ c # d => OnTheWay(d, y)' = OnTheWay(d, y)
  BY <1>4 DEF OnTheWay
<1>11. ASSUME c # d
       PROVE  IF OnTheWay(c, d)' = {} THEN Final(c, d) = w ELSE Final(c, d)' = Final(c, d)
  <2>1. queue'[c] = queue[c] /\ sending'[c] = sending[c] /\ Unsent(c)' = Unsent(c)
    BY <1>6, <1>11
  <2>2. queue[c] \in Seq(Wire) /\ sending[c] \in Seq(Wire)
    BY DEF TypeOK
  <2>3. Unsent(c) = {} <=> queue[c] = <<>> /\ sending[c] = <<>>
    BY <2>2, EmptySet DEF Unsent
  <2>4. CASE Unsent(c) # {}
    <3>1. OnTheWay(c, d)' # {}
      BY <2>1, <2>4 DEF OnTheWay
    <3>2. Final(c, d)' = Final(c, d)
      BY <2>1, <2>3, <2>4 DEF Final
    <3>3. QED
      BY <3>1, <3>2
  <2>5. CASE Unsent(c) = {}
    <3>1. Final(c, d) = s[Len(s)] /\ Final(c, d)' = t[Len(t)]
      BY <1>3, <2>1, <2>3, <2>5 DEF Final
    <3>2. OnTheWay(c, d)' = {} <=> t = <<>>
      BY <1>3, <1>5, <2>1, <2>5 DEF OnTheWay
    <3>3. QED
      BY <1>2, <3>1, <3>2
  <2>6. QED
    BY <2>4, <2>5
<1>12. QED
  BY <1>2, <1>4, <1>7, <1>8, <1>9, <1>10, <1>11 DEF w

(* A packet w of c arrives at d, who says nothing to it. *)
Arrives(c, d, w) ==
  /\ c # d /\ w \in OnTheWay(c, d) /\ w \in Wire
  /\ OnTheWay(c, d) = OnTheWay(c, d)' \union {w}
  /\ \A x, y \in Peer : ~(x = c /\ y = d) =>
       OnTheWay(x, y)' = OnTheWay(x, y) /\ Final(x, y)' = Final(x, y)
  /\ IF OnTheWay(c, d)' = {} THEN Final(c, d) = w ELSE Final(c, d)' = Final(c, d)

(* An arrival that is not answered is nothing but an arrival. *)
LEMMA ArrivalSilent ==
  ASSUME TypeOK, DrainHolds, OutInv, NEW c \in Peer, NEW d \in Peer, chan[c][d] # <<>>,
         chan' = [chan EXCEPT ![c][d] = Tail(@)],
         queue' = queue, sending' = sending, publishing' = publishing
  PROVE  Arrives(c, d, Head(chan[c][d]))
<1> DEFINE w == Head(chan[c][d])
<1>1. c # d
  BY DEF OutInv
<1>2. Drains(d) /\ Unsent(d)' = Unsent(d)
  BY DEF Drains, DrainHolds, PubType, TypeOK, Unsent
<1>3. /\ w \in OnTheWay(c, d) /\ w \in Wire
      /\ OnTheWay(c, d) = OnTheWay(c, d)' \union {w}
      /\ \A x, y \in Peer : x # d /\ ~(x = c /\ y = d) => OnTheWay(x, y)' = OnTheWay(x, y)
      /\ \A y \in Peer : OnTheWay(d, y)' = OnTheWay(d, y)
      /\ IF OnTheWay(c, d)' = {} THEN Final(c, d) = w ELSE Final(c, d)' = Final(c, d)
      /\ \A x, y \in Peer : x # d /\ ~(x = c /\ y = d) => Final(x, y)' = Final(x, y)
      /\ \A x, y \in Peer : ~(x = c /\ y = d) => chan'[x][y] = chan[x][y]
  <2>1. LET v == Head(chan[c][d])
        IN /\ v \in OnTheWay(c, d) /\ v \in Wire
           /\ c # d => OnTheWay(c, d) = OnTheWay(c, d)' \union {v}
           /\ \A x, y \in Peer :
                x # d /\ ~(x = c /\ y = d) => OnTheWay(x, y)' = OnTheWay(x, y)
           /\ \A y \in Peer : Unsent(d)' = Unsent(d) /\ c # d => OnTheWay(d, y)' = OnTheWay(d, y)
           /\ c # d => IF OnTheWay(c, d)' = {} THEN Final(c, d) = v
                                               ELSE Final(c, d)' = Final(c, d)
           /\ \A x, y \in Peer :
                x # d /\ ~(x = c /\ y = d) => Final(x, y)' = Final(x, y)
           /\ \A x, y \in Peer : ~(x = c /\ y = d) => chan'[x][y] = chan[x][y]
    BY <1>2, ArrivalTraffic
  <2>2. QED
    BY <1>1, <1>2, <2>1
<1>4. \A y \in Peer : Final(d, y)' = Final(d, y)
  <2>1. \A y \in Peer : chan'[d][y] = chan[d][y]
    BY <1>1, <1>3
  <2>2. queue'[d] = queue[d] /\ sending'[d] = sending[d]
    OBVIOUS
  <2>3. QED
    BY <2>1, <2>2, FinalSame
<1> HIDE DEF w
<1>5. Arrives(c, d, w)
  BY <1>1, <1>3, <1>4 DEF Arrives
<1>6. QED
  BY <1>5 DEF w

(* A stage arrives: it is taken, unless what is shown is newer. *)
LEMMA AgreeSetArrives ==
  ASSUME StageInv, NEW c \in Peer, NEW d \in Peer, NEW w, Arrives(c, d, w), w.type = "set",
         stage' = [stage EXCEPT ![d] = IF Takes(d, w.stage) THEN w.stage ELSE @],
         trouble' = trouble, syncs' = syncs
  PROVE  AgreeInv'
<1> USE DEF StageInv
<1> DEFINE s == w.stage
<1> SUFFICES ASSUME trouble = {}, syncs = 0, NEW p \in Peer, Owns(p)'
    PROVE  HeardInv(p)' /\ \A q \in Peer \ {p} : Overtaken(p)' \/ Reaches(p, q)'
  BY DEF AgreeInv
<1>1. /\ now \in Nat
      /\ \A x \in Peer : stage[x] # NoStage => stage[x] \in Stage /\ stage[x].at \in Nat /\ stage[x].at <= now
      /\ \A x, y \in Peer : \A v \in Sets(OnTheWay(x, y)) :
            v.stage \in Stage /\ v.stage.at \in Nat /\ v.stage.at <= now /\ v.stage.owner = x
  BY Past
<1>2. w \in Sets(OnTheWay(c, d)) /\ s \in Stage /\ s.owner = c /\ s.at \in Nat /\ s # NoStage
  <2>1. w \in Sets(OnTheWay(c, d))
    BY DEF Arrives, Sets
  <2>2. QED
    BY <1>1, <2>1, StageAssumption
<1> HIDE DEF s
<1>3. /\ stage'[d] = IF Takes(d, s) THEN s ELSE stage[d]
      /\ \A x \in Peer \ {d} : stage'[x] = stage[x]
  BY DEF TypeOK, s
<1>4. stage'[p] = stage[p] /\ Owns(p) /\ stage[p] # NoStage /\ stage[p].owner = p
  <2>1. stage'[p] = stage[p]
    <3>1. CASE p = d
      BY <1>2, <1>3, <3>1 DEF Arrives, Owns, Holds
    <3>2. CASE p # d
      BY <1>3, <3>2
    <3>3. QED
      BY <3>1, <3>2
  <2>2. QED
    BY <2>1 DEF Owns, Holds
<1>5. stage[p].at \in Nat
  BY <1>1, <1>4
<1>6. p = d => s.at < stage[p].at
  <2> HAVE p = d
  <2>1. ~Takes(d, s)
    <3>1. c # d
      BY DEF Arrives
    <3>2. QED
      BY <1>2, <1>3, <1>4, <3>1
  <2>2. QED
    BY <1>2, <1>4, <1>5, <2>1 DEF Takes
<1>7. \A x, y \in Peer : Sets(OnTheWay(x, y)') \subseteq Sets(OnTheWay(x, y))
  BY DEF Arrives, Sets
<1>8. Overtaken(p) => Overtaken(p)'
  <2> HAVE Overtaken(p)
  <2>0. PICK r \in Peer \ {p} : \E v \in Sets(OnTheWay(r, p)) : v.stage.at >= stage[p].at
    BY DEF Overtaken
  <2>1. PICK v \in Sets(OnTheWay(r, p)) : v.stage.at >= stage[p].at
    BY <2>0
  <2>2. v.stage.at \in Nat
    BY <1>1, <2>1
  <2>3. v \in Sets(OnTheWay(r, p)')
    <3>1. CASE r = c /\ p = d
      <4>1. v # w
        BY <1>2, <1>5, <1>6, <2>1, <2>2, <3>1 DEF s
      <4>2. QED
        BY <3>1, <4>1 DEF Arrives, Sets
    <3>2. CASE ~(r = c /\ p = d)
      BY <3>2 DEF Arrives
    <3>3. QED
      BY <3>1, <3>2
  <2>4. QED
    BY <1>4, <2>1, <2>3 DEF Overtaken, Sets
<1>9. /\ HeardInv(p)
      /\ \A q \in Peer \ {p} : Overtaken(p) \/ Reaches(p, q)
  BY <1>4 DEF AgreeInv
<1>10. p # c /\ s.at >= stage[p].at => Overtaken(p)
  BY <1>2, <1>9 DEF HeardInv, s
<1>11. HeardInv(p)'
  <2>1. ASSUME NEW q \in Peer, stage'[q] # NoStage, stage'[q].owner # p, stage'[q].at >= stage'[p].at
        PROVE  Overtaken(p)'
    <3>1. CASE stage'[q] = stage[q]
      BY <1>4, <1>8, <1>9, <2>1, <3>1 DEF HeardInv
    <3>2. CASE stage'[q] # stage[q]
      <4>1. stage'[q] = s
        BY <1>3, <3>2
      <4>2. QED
        BY <1>2, <1>4, <1>8, <1>10, <2>1, <4>1
    <3>3. QED
      BY <3>1, <3>2
  <2>2. ASSUME NEW r \in Peer \ {p}, NEW q \in Peer, NEW v \in Sets(OnTheWay(r, q)'),
               v.stage.at >= stage'[p].at
        PROVE  Overtaken(p)'
    <3>1. v \in Sets(OnTheWay(r, q))
      BY <1>7
    <3>2. QED
      BY <1>4, <1>8, <1>9, <2>2, <3>1 DEF HeardInv
  <2>3. QED
    BY <2>1, <2>2 DEF HeardInv, Sets
<1>12. ASSUME NEW q \in Peer \ {p}, ~Overtaken(p) PROVE Reaches(p, q)'
  <2>1. Reaches(p, q)
    BY <1>9, <1>12
  <2>2. CASE q # d
    <3>1. stage'[q] = stage[q] /\ OnTheWay(p, q)' = OnTheWay(p, q) /\ Final(p, q)' = Final(p, q)
      BY <1>3, <2>2 DEF Arrives
    <3>2. QED
      BY <1>4, <2>1, <3>1 DEF Reaches, Sets
  <2>3. CASE q = d /\ p # c
    <3>1. OnTheWay(p, q)' = OnTheWay(p, q) /\ Final(p, q)' = Final(p, q)
      BY <2>3 DEF Arrives
    <3>2. CASE ~Takes(d, s)
      <4>1. stage'[q] = stage[q]
        BY <1>3, <2>3, <3>2
      <4>2. QED
        BY <1>4, <2>1, <3>1, <4>1 DEF Reaches, Sets
    <3>3. CASE Takes(d, s)
      <4>1. ~Holds(stage'[q], p)
        BY <1>2, <1>3, <2>3, <3>3 DEF Holds
      <4>2. OnTheWay(p, q) # {}
        <5> SUFFICES ASSUME OnTheWay(p, q) = {} PROVE FALSE
          OBVIOUS
        <5>1. stage[q] # NoStage /\ stage[q].at >= stage[p].at
          BY <2>1 DEF Reaches, Holds
        <5>2. s.at >= stage[q].at /\ stage[q].at \in Nat
          BY <1>1, <2>3, <3>3, <5>1 DEF Takes
        <5>3. s.at >= stage[p].at
          BY <1>2, <1>5, <5>1, <5>2
        <5>4. QED
          BY <1>10, <1>12, <2>3, <5>3
      <4>3. QED
        BY <1>4, <2>1, <3>1, <4>1, <4>2 DEF Reaches, Sets
    <3>4. QED
      BY <3>2, <3>3
  <2>4. CASE q = d /\ p = c
    <3> DEFINE f == Final(p, q)
    <3>1. OnTheWay(p, q) # {}
      BY <1>2, <2>4 DEF Sets
    <3>2. /\ f.type = "set" /\ f.stage.kind = stage[p].kind /\ f.stage.at >= stage[p].at
          /\ \A v \in Sets(OnTheWay(p, q)) : v.stage.at <= f.stage.at
          /\ Holds(stage[q], p) => stage[q].at <= f.stage.at
      BY <2>1, <3>1 DEF Reaches
    <3> HIDE DEF f
    <3>3. s.at <= f.stage.at
      BY <1>2, <2>4, <3>2 DEF s
    <3>4. CASE OnTheWay(p, q)' # {}
      <4>1. Final(p, q)' = f
        BY <2>4, <3>4 DEF Arrives, f
      <4>2. Holds(stage'[q], p) => stage'[q].at <= f.stage.at
        BY <1>3, <2>4, <3>2, <3>3
      <4>3. \A v \in Sets(OnTheWay(p, q)') : v.stage.at <= f.stage.at
        BY <1>7, <3>2
      <4>4. QED
        BY <1>4, <3>2, <3>4, <4>1, <4>2, <4>3 DEF Reaches, Sets
    <3>5. CASE OnTheWay(p, q)' = {}
      <4>1. f = w
        BY <2>4, <3>5 DEF Arrives, f
      <4>2. s.kind = stage[p].kind /\ s.at >= stage[p].at
        BY <3>2, <4>1 DEF s
      <4>3. CASE Takes(d, s)
        <5>1. stage'[q] = s
          BY <1>3, <2>4, <4>3
        <5>2. QED
          BY <1>2, <1>4, <2>4, <3>5, <4>2, <5>1 DEF Reaches, Holds
      <4>4. CASE ~Takes(d, s)
        <5>1. stage'[q] = stage[q] /\ stage[q] # NoStage /\ stage[q].at \in Nat /\ s.at < stage[q].at
          BY <1>1, <1>2, <1>3, <2>4, <4>4 DEF Takes
        <5>2. ~Holds(stage[q], p)
          BY <1>2, <3>2, <4>1, <5>1 DEF s
        <5>3. stage[q].owner # p /\ stage[q].at >= stage[p].at
          BY <1>2, <1>5, <4>2, <5>1, <5>2 DEF Holds
        <5>4. QED
          BY <1>9, <1>12, <5>1, <5>3 DEF HeardInv
      <4>5. QED
        BY <4>3, <4>4
    <3>6. QED
      BY <3>4, <3>5
  <2>5. QED
    BY <2>2, <2>3, <2>4
<1>13. QED
  BY <1>8, <1>11, <1>12

(* A release arrives: the stage of the one who sends it is gone. *)
LEMMA AgreeClearArrives ==
  ASSUME StageInv, NEW c \in Peer, NEW d \in Peer, NEW w, Arrives(c, d, w), w.type = "clear",
         stage' = IF Holds(stage[d], c) THEN [stage EXCEPT ![d] = NoStage] ELSE stage,
         trouble' = trouble, syncs' = syncs
  PROVE  AgreeInv'
<1> USE DEF StageInv
<1> SUFFICES ASSUME trouble = {}, syncs = 0, NEW p \in Peer, Owns(p)'
    PROVE  HeardInv(p)' /\ \A q \in Peer \ {p} : Overtaken(p)' \/ Reaches(p, q)'
  BY DEF AgreeInv
<1>1. \A x \in Peer : stage'[x] = stage[x] \/ (x = d /\ Holds(stage[d], c) /\ stage'[x] = NoStage)
  BY DEF TypeOK
<1>2. stage'[p] = stage[p] /\ Owns(p)
  BY <1>1 DEF Owns, Holds
<1>3. \A x, y \in Peer : Sets(OnTheWay(x, y)') = Sets(OnTheWay(x, y))
  <2> SUFFICES ASSUME NEW x \in Peer, NEW y \in Peer
      PROVE Sets(OnTheWay(x, y)') = Sets(OnTheWay(x, y))
    OBVIOUS
  <2>1. OnTheWay(x, y)' = OnTheWay(x, y) \/ OnTheWay(x, y) = OnTheWay(x, y)' \union {w}
    BY DEF Arrives
  <2>2. QED
    BY <2>1 DEF Sets
<1>4. Overtaken(p)' <=> Overtaken(p)
  BY <1>2, <1>3 DEF Overtaken, Sets
<1>5. /\ HeardInv(p)
      /\ \A q \in Peer \ {p} : Overtaken(p) \/ Reaches(p, q)
  BY <1>2 DEF AgreeInv
<1>6. HeardInv(p)'
  <2>1. ASSUME NEW q \in Peer, stage'[q] # NoStage, stage'[q].owner # p, stage'[q].at >= stage'[p].at
        PROVE  Overtaken(p)'
    BY <1>1, <1>2, <1>4, <1>5, <2>1 DEF HeardInv
  <2>2. ASSUME NEW r \in Peer \ {p}, NEW q \in Peer, NEW v \in Sets(OnTheWay(r, q)'),
               v.stage.at >= stage'[p].at
        PROVE  Overtaken(p)'
    BY <1>2, <1>3, <1>4, <1>5, <2>2 DEF HeardInv
  <2>3. QED
    BY <2>1, <2>2 DEF HeardInv, Sets
<1>7. ASSUME NEW q \in Peer \ {p}, ~Overtaken(p) PROVE Reaches(p, q)'
  <2>1. Reaches(p, q)
    BY <1>5, <1>7
  <2>2. CASE ~(p = c /\ q = d)
    <3>1. OnTheWay(p, q)' = OnTheWay(p, q) /\ Final(p, q)' = Final(p, q)
      BY <2>2 DEF Arrives
    <3>2. stage'[q] = stage[q] \/ (~Holds(stage[q], p) /\ ~Holds(stage'[q], p))
      BY <1>1, <2>2 DEF Holds
    <3>3. QED
      BY <1>2, <2>1, <3>1, <3>2 DEF Reaches, Sets
  <2>3. CASE p = c /\ q = d
    <3> DEFINE f == Final(p, q)
    <3>1. OnTheWay(p, q) # {}
      BY <2>3 DEF Arrives
    <3>2. /\ f.type = "set" /\ f.stage.kind = stage[p].kind /\ f.stage.at >= stage[p].at
          /\ \A v \in Sets(OnTheWay(p, q)) : v.stage.at <= f.stage.at
          /\ Holds(stage[q], p) => stage[q].at <= f.stage.at
      BY <2>1, <3>1 DEF Reaches
    <3> HIDE DEF f
    <3>3. OnTheWay(p, q)' # {} /\ Final(p, q)' = f
      BY <2>3, <3>2 DEF Arrives, f
    <3>4. Holds(stage'[q], p) => stage'[q] = stage[q]
      BY <1>1 DEF Holds
    <3>5. \A v \in Sets(OnTheWay(p, q)') : v.stage.at <= f.stage.at
      BY <1>3, <3>2
    <3>6. QED
      BY <1>2, <3>2, <3>3, <3>4, <3>5 DEF Reaches, Sets
  <2>4. QED
    BY <2>2, <2>3
<1>8. QED
  BY <1>4, <1>6, <1>7

-----------------------------------------------------------------------------
(* The local user *)

(* The invariant but for the screen track. *)
Core ==
  /\ TypeOK /\ DrainHolds /\ OutInv /\ PacketInv /\ StampInv
  /\ NotStuck /\ LearnInv /\ CalmInv /\ AgreeInv

(* The invariant is the core and the screen track. *)
LEMMA CoreParts == StageInv <=> Core /\ ShareInv
BY DEF StageInv, Core

(* After a step as well. *)
LEMMA NextCoreParts == StageInv' <=> Core' /\ ShareInv'
BY DEF StageInv, Core

(* Who speaks is heard: an owner with an older stage still learns of the   *)
(* later one, a fresh stage included.                                      *)
LEMMA TalkLearns ==
  ASSUME StageInv, NEW c \in Peer, NEW N, Speech(c, N),
         conn' = conn, syncs' = syncs, trouble \subseteq trouble',
         \A x \in Peer \ {c} : stage'[x] = stage[x],
         Owns(c)' => \/ stage'[c] = stage[c]
                     \/ stage'[c] \in Stage /\ stage'[c].at = now + 1 /\ SetMsg(stage'[c]) \in N
  PROVE  LearnInv'
<1> USE DEF StageInv
<1> SUFFICES ASSUME syncs = 0, "drop" \notin trouble,
                    NEW p \in Peer, NEW q \in Peer, Owns(p)', Owns(q)', stage'[p].at < stage'[q].at
    PROVE  Learns(p, q)'
  BY DEF LearnInv
<1>1. /\ now \in Nat
      /\ \A x \in Peer : stage[x] # NoStage => stage[x] \in Stage /\ stage[x].at \in Nat /\ stage[x].at <= now
  BY Past
<1>2. stage'[p] # NoStage /\ stage'[q] # NoStage
  BY DEF Owns, Holds
<1>3. CASE p = c /\ stage'[p] # stage[p]
  <2>1. stage'[p].at = now + 1
    BY <1>3
  <2>2. q # c
    BY <1>1, <1>3, <2>1
  <2>3. stage'[q] = stage[q] /\ stage[q].at \in Nat /\ stage[q].at <= now
    BY <1>1, <1>2, <2>2
  <2>4. QED
    BY <1>1, <2>1, <2>3
<1>4. CASE q = c /\ stage'[q] # stage[q]
  <2> DEFINE w == SetMsg(stage'[c])
  <2>1. /\ stage'[c] \in Stage /\ stage'[c].at = now + 1 /\ w \in N
        /\ w.type = "set" /\ w.stage = stage'[c]
    BY <1>4, WireFacts
  <2> HIDE DEF w
  <2>2. p # c
    BY <1>1, <1>4, <2>1
  <2>3. stage'[p] = stage[p] /\ stage[p].at \in Nat /\ stage[p].at <= now
    BY <1>1, <1>2, <2>2
  <2>4. w \in Sets(OnTheWay(c, p)')
    BY <2>1 DEF Speech, Sets
  <2>5. w.stage.at >= stage'[p].at
    BY <1>1, <2>1, <2>3
  <2>6. QED
    BY <1>4, <2>4, <2>5 DEF Learns, Sets
<1>5. CASE stage'[p] = stage[p] /\ stage'[q] = stage[q]
  <2>1. Learns(p, q)
    BY <1>5 DEF LearnInv, Owns
  <2>2. \A x, y \in Peer : OnTheWay(x, y) \subseteq OnTheWay(x, y)'
    BY DEF Speech
  <2>3. QED
    BY <1>5, <2>1, <2>2, LearnsKept DEF Sets
<1>6. QED
  BY <1>3, <1>4, <1>5

(* c puts s on stage, or says anew what it has there, with a fresh stamp. *)
LEMMA SaidInv ==
  ASSUME StageInv, RoomType', NEW c \in Peer, NEW s \in Stage, NEW t \in Stage,
         s.owner = c, t.owner = c, t.kind = s.kind, t.at = now + 1, s = t \/ s = stage[c],
         conn[c] # "out", now' = now + 1,
         stage' = [stage EXCEPT ![c] = s], Publish(c, SetMsg(t)),
         UNCHANGED <<conn, chan, notice, pushing, bounds>>
  PROVE  Core'
<1> USE DEF StageInv, bounds
<1> DEFINE w == SetMsg(t)
<1>1. w \in Wire /\ w.type = "set" /\ w.stage = t
  BY WireFacts
<1>2. PubType
  BY TypeParts
<1>3. /\ Drains(c) /\ Served(c) /\ retry' = retry
      /\ Unsent(c)' = Unsent(c) \union {w}
      /\ OneDrain(c) => OneDrain(c)'
      /\ Newest(c)' = w
  BY <1>1, <1>2, PublishSays
<1>4. TypeOK'
  BY <1>3, NextTypeParts DEF Drains
<1>5. Speech(c, {w})
  BY <1>3, SpeechTraffic
<1> HIDE DEF w
<1>6. /\ now \in Nat
      /\ \A x \in Peer : stage[x] # NoStage => stage[x] \in Stage /\ stage[x].at \in Nat /\ stage[x].at <= now
  BY Past
<1>7. /\ \A x \in Peer \ {c} : stage'[x] = stage[x]
      /\ stage'[c] = s
  BY DEF TypeOK
<1>8. s.at \in Nat /\ t.at \in Nat /\ s.at <= now + 1 /\ s # NoStage
  BY <1>6, StageFacts, StageAssumption
<1>9. DrainHolds' /\ OutInv'
  BY <1>3, <1>7 DEF OutInv, Drains
<1>10. NotStuck'
  BY <1>3, NotStuckKept
<1>11. PacketInv'
  <2>1. Speaks(c, w)'
    BY <1>1, <1>6, <1>8 DEF Speaks
  <2>2. now <= now' /\ syncs <= syncs'
    BY <1>6, StageAssumption DEF TypeOK
  <2>3. \A x, y \in Peer : \A v \in OnTheWay(x, y)' : v \in OnTheWay(x, y) \/ Speaks(x, v)'
    BY <1>5, <2>1 DEF Speech
  <2>4. QED
    BY <1>4, <2>2, <2>3, PacketsKept
<1>12. StampInv'
  <2>1. now <= now'
    BY <1>6
  <2>2. stage'[c] \notin {NoStage, stage[c]} => stage'[c].at <= now' /\ stage'[c].at > now
    BY <1>6, <1>7, <1>8
  <2>3. QED
    BY <1>4, <1>7, <2>1, <2>2, StampsKept
<1>13. LearnInv'
  <2>1. stage'[c] = stage[c] \/ (stage'[c] \in Stage /\ stage'[c].at = now + 1 /\ SetMsg(stage'[c]) \in {w})
    BY <1>7 DEF w
  <2>2. QED
    BY <1>5, <1>7, <2>1, TalkLearns
<1>14. CalmInv'
  <2>1. w # Request
    BY <1>1, WireFacts
  <2>2. \A x, y \in Peer : Request \in OnTheWay(x, y)' => Request \in OnTheWay(x, y)
    BY <1>5, <2>1 DEF Speech
  <2>3. \A x \in Peer : OneDrain(x) => OneDrain(x)'
    BY <1>3 DEF OneDrain, Drains
  <2>4. QED
    BY <1>3, <2>2, <2>3, CalmKept
<1>15. AgreeInv'
  <2>1. w \in Unsent(c)'
    BY <1>3
  <2>2. QED
    BY <1>3, <1>4, <1>5, <2>1, AgreeSaid DEF w
<1>16. QED
  BY <1>4, <1>9, <1>10, <1>11, <1>12, <1>13, <1>14, <1>15 DEF Core

(* Only the screen track changes. *)
LEMMA IdleInv ==
  ASSUME StageInv, share' \in [Peer -> Tracks], latest' \in Peer \union {NoPeer},
         UNCHANGED <<stage, conn, publisher, chan, notice, pushing, now, bounds>>
  PROVE  Core'
<1> USE DEF StageInv, bounds, publisher
<1>1. TypeOK'
  BY DEF TypeOK
<1>2. DrainHolds' /\ OutInv' /\ NotStuck'
  BY DEF DrainHolds, OutInv, NotStuck
<1>3. Silence
  BY SilentTraffic
<1>4. PacketInv'
  BY <1>3 DEF PacketInv, Silence, Speaks
<1>5. StampInv'
  BY DEF StampInv, Owns
<1>6. LearnInv'
  BY <1>3 DEF LearnInv, Learns, Silence, Owns, Sets
<1>7. CalmInv'
  BY <1>3 DEF CalmInv, Calm, Silence
<1>8. AgreeInv'
  BY AgreeSame
<1>9. QED
  BY <1>1, <1>2, <1>4, <1>5, <1>6, <1>7, <1>8 DEF Core

(* An owner's stage is cleared. *)
LEMMA ClearedInv ==
  ASSUME StageInv, RoomType', NEW c \in Peer, Cleared(c),
         UNCHANGED <<conn, chan, notice, pushing, now, bounds>>
  PROVE  Core'
<1> USE DEF StageInv, bounds
<1>1. CASE Owns(c)
  <2> DEFINE w == ClearMsg(c)
  <2>1. w \in Wire /\ w.type = "clear" /\ w.owner = c
    BY WireFacts
  <2>2. stage' = [stage EXCEPT ![c] = NoStage] /\ Publish(c, w) /\ PubType
    BY <1>1, TypeParts DEF Cleared
  <2>3. /\ Drains(c) /\ Served(c) /\ retry' = retry
        /\ Unsent(c)' = Unsent(c) \union {w}
        /\ OneDrain(c) => OneDrain(c)'
    BY <2>1, <2>2, PublishSays
  <2>4. TypeOK'
    BY <2>3, NextTypeParts DEF Drains
  <2>5. Speech(c, {w})
    BY <2>3, SpeechTraffic
  <2> HIDE DEF w
  <2>6. /\ \A x \in Peer \ {c} : stage'[x] = stage[x]
        /\ stage'[c] = NoStage
    BY <2>2 DEF TypeOK
  <2>7. DrainHolds' /\ OutInv'
    BY <2>3, <2>6 DEF OutInv, Drains
  <2>8. NotStuck'
    BY <2>3, NotStuckKept
  <2>9. now <= now' /\ syncs <= syncs'
    BY StageAssumption DEF TypeOK
  <2>10. PacketInv'
    <3>1. Speaks(c, w)'
      BY <2>1 DEF Speaks
    <3>2. \A x, y \in Peer : \A v \in OnTheWay(x, y)' : v \in OnTheWay(x, y) \/ Speaks(x, v)'
      BY <2>5, <3>1 DEF Speech
    <3>3. QED
      BY <2>4, <2>9, <3>2, PacketsKept
  <2>11. StampInv'
    BY <2>4, <2>6, <2>9, StampsKept
  <2>12. LearnInv'
    <3>1. ~Owns(c)'
      BY <2>6 DEF Owns, Holds
    <3>2. QED
      BY <2>5, <2>6, <3>1, TalkLearns
  <2>13. CalmInv'
    <3>1. w # Request
      BY <2>1, WireFacts
    <3>2. \A x, y \in Peer : Request \in OnTheWay(x, y)' => Request \in OnTheWay(x, y)
      BY <2>5, <3>1 DEF Speech
    <3>3. \A x \in Peer : OneDrain(x) => OneDrain(x)'
      BY <2>3 DEF OneDrain, Drains
    <3>4. QED
      BY <2>3, <3>2, <3>3, CalmKept
  <2>14. AgreeInv'
    BY <1>1, <2>2, <2>3, <2>4, <2>5, AgreeCleared DEF w
  <2>15. QED
    BY <2>4, <2>7, <2>8, <2>10, <2>11, <2>12, <2>13, <2>14 DEF Core
<1>2. CASE ~Owns(c)
  <2>1. UNCHANGED <<stage, publisher>>
    BY <1>2 DEF Cleared
  <2>2. QED
    BY <2>1, IdleInv DEF RoomType
<1>3. QED
  BY <1>1, <1>2

(* A stopped track is still a track. *)
LEMMA StoppedType ==
  ASSUME TypeOK, NEW p \in Peer
  PROVE  /\ Stopped(p) \in Tracks /\ Stopped(p) # "on"
         /\ share[p] \in Tracks
BY DEF TypeOK, Stopped, Sharing, Tracks

(* A stage of p's own with the next stamp. *)
LEMMA FreshStage ==
  ASSUME TypeOK, NEW p \in Peer, NEW k \in Kind, Stamp
  PROVE  LET s == [owner |-> p, kind |-> k, at |-> now + 1]
         IN s \in Stage /\ s.owner = p /\ s.kind = k /\ s.at = now + 1 /\ now' = now + 1
            /\ now' \in 0..MaxStamps /\ now + 1 \in 1..MaxStamps
BY StageAssumption DEF TypeOK, Stamp, Stage

(* Who claims shows a stage of that kind from then on. *)
LEMMA ClaimedInv ==
  ASSUME StageInv, NEW p \in Peer, NEW k \in Kind, Claimed(p, k), Present(p),
         share' \in [Peer -> Tracks],
         UNCHANGED <<conn, chan, notice, pushing, bounds>>
  PROVE  /\ Core'
         /\ stage'[p].kind = k /\ \A x \in Peer \ {p} : stage'[x] = stage[x]
<1> USE DEF StageInv, bounds
<1> DEFINE s == [owner |-> p, kind |-> k, at |-> now + 1]
<1>1. s \in Stage /\ s.owner = p /\ s.kind = k /\ s.at = now + 1 /\ now' = now + 1 /\ now' \in 0..MaxStamps
  BY FreshStage DEF Claimed
<1>2. stage' = [stage EXCEPT ![p] = s] /\ Publish(p, SetMsg(s))
  BY <1>1 DEF Claimed
<1> HIDE DEF s
<1>3. \A x \in Peer \ {p} : stage'[x] = stage[x]
  BY <1>2 DEF TypeOK
<1>4. stage'[p] = s
  BY <1>2 DEF TypeOK
<1>5. RoomType'
  <2>1. retry' = retry /\ latest' = p
    BY <1>2 DEF Publish, Claimed
  <2>2. QED
    BY <1>1, <1>2, <2>1 DEF TypeOK, RoomType
<1>6. Core'
  BY <1>1, <1>2, <1>5, SaidInv DEF Present
<1>7. QED
  BY <1>1, <1>3, <1>4, <1>6

(* A claim keeps the invariant. *)
LEMMA ClaimInv ==
  ASSUME StageInv, NEW p \in Peer, NEW k \in Kind, Claim(p, k)
  PROVE  StageInv'
<1>1. share' = [share EXCEPT ![p] = Stopped(p)]
  BY DEF Claim
<1>2. share' \in [Peer -> Tracks]
  BY <1>1, StoppedType DEF StageInv, TypeOK
<1>3. /\ Core'
      /\ stage'[p].kind = k /\ \A x \in Peer \ {p} : stage'[x] = stage[x]
  BY <1>2, ClaimedInv DEF Claim
<1>4. ASSUME NEW x \in Peer, share'[x] = "on"
      PROVE  stage'[x] = NoStage \/ Shows(x, "screenshare")'
  <2>1. x # p
    BY <1>1, <1>4, StoppedType DEF StageInv, TypeOK
  <2>2. QED
    BY <1>1, <1>3, <1>4, <2>1 DEF StageInv, ShareInv, Shows, TypeOK
<1>5. QED
  BY <1>3, <1>4, NextCoreParts DEF ShareInv

(* So does the claim that precedes a screen track. *)
LEMMA StartShareInv ==
  ASSUME StageInv, NEW p \in Peer, StartShare(p)
  PROVE  StageInv'
<1>1. share' = [share EXCEPT ![p] = "starting"]
  BY DEF StartShare
<1>2. share' \in [Peer -> Tracks]
  BY <1>1 DEF StageInv, TypeOK, Tracks
<1>3. /\ Core'
      /\ \A x \in Peer \ {p} : stage'[x] = stage[x]
  BY <1>2, ClaimedInv DEF StartShare
<1>4. ASSUME NEW x \in Peer, share'[x] = "on"
      PROVE  stage'[x] = NoStage \/ Shows(x, "screenshare")'
  BY <1>1, <1>3, <1>4 DEF StageInv, ShareInv, Shows, TypeOK
<1>5. QED
  BY <1>3, <1>4, NextCoreParts DEF ShareInv

(* The screen track starts. *)
LEMMA ShareStartsInv ==
  ASSUME StageInv, NEW p \in Peer, ShareStarts(p)
  PROVE  StageInv'
<1> USE DEF StageInv
<1>1. /\ share' = [share EXCEPT ![p] =
           IF stage[p] # NoStage /\ ~Shows(p, "screenshare") THEN "late" ELSE "on"]
      /\ UNCHANGED <<stage, conn, chan, notice, pushing, bounds>>
      /\ latest' \in Peer \union {NoPeer}
  BY DEF ShareStarts, TypeOK
<1>2. share' \in [Peer -> Tracks]
  BY <1>1 DEF TypeOK, Tracks
<1>3. Core'
  <2>1. CASE Owns(p) /\ Shows(p, "screenshare")
    <3> DEFINE s == stage[p]
               t == Restamped(s)
    <3>1. Stamp /\ Publish(p, SetMsg(t))
      BY <2>1 DEF ShareStarts
    <3>2. s \in Stage /\ s.owner = p /\ s # NoStage
      BY <2>1 DEF Owns, Holds, TypeOK
    <3>3. now' = now + 1 /\ now' \in 0..MaxStamps /\ now + 1 \in 1..MaxStamps
      BY <3>1, StageAssumption DEF TypeOK, Stamp
    <3>4. t \in Stage /\ t.owner = p /\ t.kind = s.kind /\ t.at = now + 1
      <4>1. t = [s EXCEPT !.at = now + 1]
        BY DEF Restamped
      <4>2. QED
        BY <3>2, <3>3, <4>1, StageFacts
    <3>5. RoomType'
      <4>1. retry' = retry
        BY <3>1 DEF Publish
      <4>2. QED
        BY <1>1, <1>2, <3>3, <4>1 DEF TypeOK, RoomType, bounds
    <3>6. stage' = [stage EXCEPT ![p] = s] /\ conn[p] # "out"
      BY <1>1, <3>2 DEF TypeOK, OutInv
    <3> HIDE DEF s, t
    <3>7. s = stage[p]
      BY DEF s
    <3>8. QED
      BY <1>1, <3>1, <3>2, <3>3, <3>4, <3>5, <3>6, <3>7, SaidInv
  <2>2. CASE ~(Owns(p) /\ Shows(p, "screenshare"))
    <3>1. UNCHANGED <<now, publisher>>
      BY <2>2 DEF ShareStarts
    <3>2. QED
      BY <1>1, <1>2, <3>1, IdleInv
  <2>3. QED
    BY <2>1, <2>2
<1>4. ShareInv'
  BY <1>1 DEF ShareInv, Shows, TypeOK
<1>5. QED
  BY <1>3, <1>4, NextCoreParts

(* A track that is being stopped was not needed. *)
LEMMA StopShareInv ==
  ASSUME StageInv, NEW p \in Peer, StopShare(p)
  PROVE  StageInv'
<1>1. \E s \in {"stopping", "ending"} : share' = [share EXCEPT ![p] = s]
  BY DEF StopShare
<1>2. UNCHANGED <<stage, conn, publisher, chan, notice, pushing, now, latest, bounds>>
  BY DEF StopShare
<1>3. share' \in [Peer -> Tracks]
  BY <1>1 DEF StageInv, TypeOK, Tracks
<1>4. Core'
  BY <1>2, <1>3, IdleInv DEF StageInv, TypeOK
<1>5. ShareInv'
  BY <1>1, <1>2 DEF StageInv, ShareInv, Shows, TypeOK
<1>6. QED
  BY <1>4, <1>5, NextCoreParts

(* What clearing does to the stage: p's may go, the others' stay. *)
LEMMA ClearedKeeps ==
  ASSUME StageInv, NEW p \in Peer, Cleared(p),
         share' \in [Peer -> Tracks],
         \A x \in Peer : share'[x] = "on" => share[x] = "on",
         UNCHANGED <<conn, chan, notice, pushing, now, bounds>>
  PROVE  StageInv'
<1> USE DEF StageInv, bounds
<1>1. retry' = retry
  BY DEF Cleared, Publish, publisher
<1>2. \A x \in Peer : stage'[x] \in {stage[x], NoStage}
  BY DEF Cleared, TypeOK
<1>3. stage' \in [Peer -> Stage \union {NoStage}] /\ latest' \in Peer \union {NoPeer}
  BY DEF Cleared, Disowned, TypeOK
<1>4. RoomType'
  BY <1>1, <1>3 DEF TypeOK, RoomType
<1>5. Core'
  BY <1>4, ClearedInv
<1>6. ShareInv'
  BY <1>2 DEF ShareInv, Shows
<1>7. QED
  BY <1>5, <1>6, NextCoreParts

(* A release keeps the invariant. *)
LEMMA ClearInv ==
  ASSUME StageInv, NEW p \in Peer, Clear(p)
  PROVE  StageInv'
<1>1. share' = [share EXCEPT ![p] = Stopped(p)]
  BY DEF Clear
<1>2. /\ share' \in [Peer -> Tracks]
      /\ \A x \in Peer : share'[x] = "on" => share[x] = "on"
  BY <1>1, StoppedType DEF StageInv, TypeOK
<1>3. QED
  BY <1>2, ClearedKeeps DEF Clear

(* So does a release for want of a screen. *)
LEMMA ShareFailsInv ==
  ASSUME StageInv, NEW p \in Peer, ShareFails(p)
  PROVE  StageInv'
<1>1. share' = [share EXCEPT ![p] = "off"]
  BY DEF ShareFails
<1>2. /\ share' \in [Peer -> Tracks]
      /\ \A x \in Peer : share'[x] = "on" => share[x] = "on"
  BY <1>1 DEF StageInv, TypeOK, Tracks
<1>3. QED
  BY <1>2, ClearedKeeps DEF ShareFails

(* The end of a screen track takes an own stage along, or nothing. *)
LEMMA TrackEndsInv ==
  ASSUME StageInv, NEW p \in Peer, TrackEnds(p)
  PROVE  StageInv'
<1>1. share' = [share EXCEPT ![p] = "off"]
  BY DEF TrackEnds
<1>2. /\ share' \in [Peer -> Tracks]
      /\ \A x \in Peer : share'[x] = "on" => share[x] = "on"
  BY <1>1 DEF StageInv, TypeOK, Tracks
<1>3. CASE Cleared(p)
  BY <1>2, <1>3, ClearedKeeps DEF TrackEnds
<1>4. CASE ~Cleared(p)
  <2>1. UNCHANGED <<stage, conn, publisher, chan, notice, pushing, now, latest, bounds>>
    BY <1>4 DEF TrackEnds
  <2>2. Core'
    BY <1>2, <2>1, IdleInv DEF StageInv, TypeOK
  <2>3. ShareInv'
    BY <1>2, <2>1 DEF StageInv, ShareInv, Shows
  <2>4. QED
    BY <2>2, <2>3, NextCoreParts
<1>5. QED
  BY <1>3, <1>4

-----------------------------------------------------------------------------
(* Steps in a room where something has gone wrong *)

(* Whoever says no more than its own stage or a request keeps the          *)
(* invariant, once there has been trouble.                                 *)
LEMMA TalkInv ==
  ASSUME StageInv, RoomType', NotStuck', NEW c \in Peer, Drains(c),
         Unsent(c) \subseteq Unsent(c)',
         \A w \in Unsent(c)' : w \in Unsent(c) \/ w = Request \/ (Owns(c) /\ w = SetMsg(stage[c])),
         \A x \in Peer \ {c} : stage'[x] = stage[x],
         stage'[c] \in {stage[c], NoStage},
         UNCHANGED <<conn, chan, now, syncs>>,
         trouble \subseteq trouble', trouble' # {}
  PROVE  Core'
<1> USE DEF StageInv
<1>1. TypeOK' /\ DrainHolds'
  BY NextTypeParts DEF Drains
<1>2. OutInv'
  BY DEF OutInv
<1>3. Speech(c, Unsent(c)')
  <2>1. Unsent(c)' = Unsent(c) \union Unsent(c)'
    OBVIOUS
  <2>2. QED
    BY <2>1, SpeechTraffic
<1>4. now \in Nat /\ now <= now' /\ syncs <= syncs'
  BY StageAssumption DEF TypeOK
<1>5. PacketInv'
  <2>1. ASSUME NEW w \in Unsent(c)', w \notin Unsent(c) PROVE Speaks(c, w)'
    <3>1. CASE w = Request
      BY <3>1, WireFacts DEF Speaks
    <3>2. CASE Owns(c) /\ w = SetMsg(stage[c])
      <4>1. stage[c] \in Stage /\ stage[c].owner = c /\ stage[c].at <= now
        BY <3>2 DEF Owns, Holds, TypeOK, StampInv
      <4>2. w.type = "set" /\ w.stage = stage[c]
        BY <3>2, <4>1, WireFacts
      <4>3. QED
        BY <4>1, <4>2 DEF Speaks
    <3>3. QED
      BY <2>1, <3>1, <3>2
  <2>2. \A y \in Peer : Unsent(c) \subseteq OnTheWay(c, y)
    BY DEF OnTheWay
  <2>3. \A x, y \in Peer : \A v \in OnTheWay(x, y)' : v \in OnTheWay(x, y) \/ Speaks(x, v)'
    BY <1>3, <2>1, <2>2 DEF Speech
  <2>4. QED
    BY <1>1, <1>4, <2>3, PacketsKept
<1>6. StampInv'
  BY <1>1, <1>4, StampsKept
<1>7. LearnInv'
  <2>1. Owns(c)' => stage'[c] = stage[c]
    BY DEF Owns, Holds
  <2>2. QED
    BY <1>3, <2>1, TalkLearns
<1>8. CalmInv' /\ AgreeInv'
  BY DEF CalmInv, AgreeInv
<1>9. QED
  BY <1>1, <1>2, <1>5, <1>6, <1>7, <1>8 DEF Core

(* In calm nothing of this is due. *)
LEMMA Troubled ==
  ASSUME StageInv, NEW p \in Peer,
         retry[p] \/ pushing[p] \/ notice[p] # <<>> \/ conn[p] # "ready"
  PROVE  trouble # {}
BY DEF StageInv, CalmInv, Calm

(* A drain that is due moves packets into hands. *)
LEMMA DrainRetryInv ==
  ASSUME StageInv, NEW p \in Peer, DrainRetry(p)
  PROVE  StageInv'
<1> USE DEF StageInv
<1>1. PubType /\ queue[p] \in Seq(Wire) /\ trouble # {}
  BY TypeParts, Troubled DEF PubType, DrainRetry
<1>2. Drains(p) /\ Served(p) /\ Unsent(p)' = Unsent(p)
  <2>1. DrainWith(p, queue[p])
    BY DEF DrainRetry
  <2>2. QED
    BY <1>1, <2>1, DrainWithSays DEF Unsent
<1>3. RoomType'
  BY DEF DrainRetry, TypeOK, RoomType, bounds
<1>4. NotStuck'
  <2>1. \A x \in Peer \ {p} : queue'[x] = queue[x] /\ sending'[x] = sending[x] /\ retry'[x] = retry[x]
    BY <1>2 DEF Drains, DrainRetry, TypeOK
  <2>2. conn' = conn /\ (queue'[p] # <<>> /\ conn[p] = "ready" => sending'[p] # <<>>)
    BY <1>2 DEF Served, DrainRetry
  <2>3. QED
    BY <2>1, <2>2 DEF NotStuck
<1>5. Core'
  <2>1. /\ \A x \in Peer : stage'[x] = stage[x]
        /\ UNCHANGED <<conn, chan, now, syncs, trouble>>
    BY DEF DrainRetry, bounds
  <2>2. QED
    BY <1>1, <1>2, <1>3, <1>4, <2>1, TalkInv
<1>6. ShareInv'
  BY DEF ShareInv, Shows, DrainRetry
<1>7. QED
  BY <1>5, <1>6, NextCoreParts

(* The delayed push of one's own stage. *)
LEMMA PushDueInv ==
  ASSUME StageInv, NEW p \in Peer, PushDue(p)
  PROVE  StageInv'
<1> USE DEF StageInv
<1>1. PubType /\ trouble # {}
  BY TypeParts, Troubled DEF PushDue
<1>2. /\ Drains(p) /\ Unsent(p) \subseteq Unsent(p)' /\ NotStuck' /\ retry' = retry
      /\ \A w \in Unsent(p)' : w \in Unsent(p) \/ (Owns(p) /\ w = SetMsg(stage[p]))
  <2>1. CASE Owns(p) /\ conn[p] = "ready"
    <3> DEFINE w == SetMsg(stage[p])
    <3>1. w \in Wire
      BY <2>1, WireFacts DEF Owns, Holds, TypeOK
    <3>2. Publish(p, w)
      BY <2>1 DEF PushDue
    <3> HIDE DEF w
    <3>3. Drains(p) /\ Served(p) /\ retry' = retry /\ Unsent(p)' = Unsent(p) \union {w}
      BY <1>1, <3>1, <3>2, PublishSays
    <3>4. NotStuck'
      BY <3>3, NotStuckKept DEF PushDue
    <3>5. QED
      BY <2>1, <3>3, <3>4 DEF w
  <2>2. CASE ~(Owns(p) /\ conn[p] = "ready")
    <3>1. UNCHANGED publisher
      BY <2>2 DEF PushDue
    <3>2. Drains(p) /\ Unsent(p)' = Unsent(p) /\ NotStuck' /\ retry' = retry
      BY <1>1, <3>1 DEF publisher, Drains, PubType, DrainHolds, Unsent, NotStuck, PushDue
    <3>3. QED
      BY <3>2
  <2>3. QED
    BY <2>1, <2>2
<1>3. RoomType'
  BY <1>2 DEF PushDue, TypeOK, RoomType, bounds
<1>4. Core'
  <2>1. /\ \A x \in Peer : stage'[x] = stage[x]
        /\ UNCHANGED <<conn, chan, now, syncs, trouble>>
    BY DEF PushDue, bounds
  <2>2. QED
    BY <1>1, <1>2, <1>3, <2>1, TalkInv
<1>5. ShareInv'
  BY DEF ShareInv, Shows, PushDue
<1>6. QED
  BY <1>4, <1>5, NextCoreParts

(* Somebody has come or gone. *)
LEMMA NoticeInv ==
  ASSUME StageInv, NEW p \in Peer, Notice(p)
  PROVE  StageInv'
<1> USE DEF StageInv
<1> DEFINE e == Head(notice[p])
<1>1. /\ PubType /\ trouble # {} /\ notice' = [notice EXCEPT ![p] = Tail(@)]
      /\ UNCHANGED <<conn, chan, now, latest, bounds>>
  BY TypeParts, Troubled DEF Notice
<1>2. notice' \in [Peer -> Seq(Event)]
  <2>1. Tail(notice[p]) \in Seq(Event)
    <3>1. notice[p] \in Seq(Event) /\ notice[p] # <<>>
      BY DEF Notice, TypeOK
    <3>2. QED
      BY <3>1, HeadTailSet
  <2>2. QED
    BY <1>1, <2>1 DEF TypeOK
<1>3. CASE /\ PublishRequest(p)
           /\ pushing' = [pushing EXCEPT ![p] = @ \/ Owns(p)]
           /\ UNCHANGED <<stage, share>>
  <2>1. /\ Drains(p) /\ retry' = retry
        /\ Served(p) \/ UNCHANGED <<queue, sending>>
        /\ Unsent(p)' \in {Unsent(p), Unsent(p) \union {Request}}
    BY <1>1, <1>3, RequestSays
  <2>2. NotStuck'
    <3>1. CASE Served(p)
      BY <1>1, <2>1, <3>1, NotStuckKept
    <3>2. CASE UNCHANGED <<queue, sending>>
      BY <1>1, <2>1, <3>2 DEF NotStuck
    <3>3. QED
      BY <2>1, <3>1, <3>2
  <2>3. pushing' \in [Peer -> BOOLEAN]
    BY <1>3 DEF TypeOK, Owns, Holds
  <2>4. RoomType'
    BY <1>1, <1>2, <1>3, <2>1, <2>3 DEF TypeOK, RoomType, bounds
  <2>5. /\ Unsent(p) \subseteq Unsent(p)'
        /\ \A w \in Unsent(p)' : w \in Unsent(p) \/ w = Request
    BY <2>1
  <2>6. Core'
    <3>1. /\ \A x \in Peer : stage'[x] = stage[x]
          /\ UNCHANGED <<conn, chan, now, syncs, trouble>>
      BY <1>1, <1>3 DEF bounds
    <3>2. QED
      BY <1>1, <2>1, <2>2, <2>4, <2>5, <3>1, TalkInv
  <2>7. ShareInv'
    BY <1>3 DEF ShareInv, Shows
  <2>8. QED
    BY <2>6, <2>7, NextCoreParts
<1>4. CASE /\ IF Holds(stage[p], e.who)
              THEN /\ stage' = [stage EXCEPT ![p] = NoStage]
                   /\ share' = [share EXCEPT ![p] = Stopped(p)]
              ELSE UNCHANGED <<stage, share>>
           /\ UNCHANGED <<publisher, pushing>>
  <2>1. /\ stage' \in [Peer -> Stage \union {NoStage}]
        /\ share' \in [Peer -> Tracks]
        /\ \A x \in Peer : stage'[x] \in {stage[x], NoStage} /\ (share'[x] = "on" => share[x] = "on")
        /\ \A x \in Peer \ {p} : stage'[x] = stage[x]
    BY <1>4, StoppedType DEF TypeOK
  <2>2. Drains(p) /\ Unsent(p)' = Unsent(p) /\ NotStuck'
    BY <1>1, <1>4 DEF publisher, Drains, PubType, DrainHolds, Unsent, NotStuck
  <2>3. RoomType'
    BY <1>1, <1>2, <1>4, <2>1 DEF TypeOK, RoomType, bounds, publisher
  <2>4. Core'
    <3>1. UNCHANGED <<conn, chan, now, syncs, trouble>>
      BY <1>1 DEF bounds
    <3>2. QED
      BY <1>1, <2>1, <2>2, <2>3, <3>1, TalkInv
  <2>5. ShareInv'
    BY <2>1 DEF ShareInv, Shows
  <2>6. QED
    BY <2>4, <2>5, NextCoreParts
<1>5. QED
  BY <1>3, <1>4 DEF Notice

(* A publishData fails for the moment. *)
LEMMA SendUnavailableInv ==
  ASSUME StageInv, NEW p \in Peer, SendUnavailable(p)
  PROVE  StageInv'
<1> USE DEF StageInv
<1>1. PICK i \in DOMAIN sending[p] :
        /\ IF "interrupt" \in trouble THEN UNCHANGED trouble ELSE Goes("unavailable")
        /\ queue' = [queue EXCEPT ![p] = <<sending[p][i]>> \o @]
        /\ sending' = [sending EXCEPT ![p] = Without(@, i)]
        /\ publishing' = [publishing EXCEPT ![p] = FALSE]
        /\ retry' = [retry EXCEPT ![p] = RetryDue(p)]
        /\ UNCHANGED <<stage, conn, chan, notice, pushing, share, now, latest, syncs>>
  BY DEF SendUnavailable
<1>2. trouble \subseteq trouble' /\ trouble' # {} /\ trouble' \subseteq Trouble
  BY <1>1 DEF Goes, TypeOK
<1> DEFINE s == sending[p]
           w == s[i]
           v == Without(s, i)
           q == <<w>> \o queue[p]
<1>3. s \in Seq(Wire) /\ queue[p] \in Seq(Wire) /\ w \in Wire
  BY DEF TypeOK
<1>4. v \in Seq(Wire) /\ ToSet(s) = ToSet(v) \union {w}
  BY <1>3, WithoutSet
<1> HIDE DEF w
<1>5. q \in Seq(Wire) /\ ToSet(q) = ToSet(queue[p]) \union {w}
  BY <1>3, PrependSet
<1> HIDE DEF q, v
<1>6. /\ queue' = [queue EXCEPT ![p] = q] /\ sending' = [sending EXCEPT ![p] = v]
      /\ queue'[p] = q /\ sending'[p] = v
  BY <1>1 DEF TypeOK, q, v, w
<1>7. Drains(p)
  BY <1>1, <1>4, <1>5, <1>6 DEF Drains, PubType, DrainHolds, TypeOK
<1>8. Unsent(p)' = Unsent(p)
  BY <1>4, <1>5, <1>6 DEF Unsent
<1>9. NotStuck'
  BY <1>1, <1>6 DEF NotStuck, RetryDue, TypeOK
<1>10. RoomType'
  BY <1>1, <1>2 DEF RoomType, TypeOK, RetryDue
<1>11. Core'
  BY <1>1, <1>2, <1>7, <1>8, <1>9, <1>10, TalkInv
<1>12. ShareInv'
  BY <1>1 DEF ShareInv, Shows
<1>13. QED
  BY <1>11, <1>12, NextCoreParts

(* A publishData fails for good. *)
LEMMA SendDroppedInv ==
  ASSUME StageInv, NEW p \in Peer, SendDropped(p)
  PROVE  StageInv'
<1> USE DEF StageInv
<1>1. PICK i \in DOMAIN sending[p] :
        /\ Goes("drop")
        /\ \/ DrainOn(p, i, queue[p])
           \/ /\ queue' = [queue EXCEPT ![p] = <<>>]
              /\ sending' = [sending EXCEPT ![p] = Without(@, i)]
              /\ publishing' = [publishing EXCEPT ![p] = FALSE]
        /\ UNCHANGED <<retry, stage, conn, chan, notice, pushing, share, now, latest, syncs>>
  BY DEF SendDropped
<1>2. PubType
  BY TypeParts
<1>3. Drains(p) /\ Served(p) /\ Unsent(p)' \subseteq Unsent(p)
  <2>1. CASE DrainOn(p, i, queue[p])
    BY <1>2, <2>1, DrainOnSays
  <2>2. CASE /\ queue' = [queue EXCEPT ![p] = <<>>]
             /\ sending' = [sending EXCEPT ![p] = Without(@, i)]
             /\ publishing' = [publishing EXCEPT ![p] = FALSE]
    <3> DEFINE v == Without(sending[p], i)
    <3>1. v \in Seq(Wire) /\ ToSet(sending[p]) = ToSet(v) \union {sending[p][i]}
      <4>1. sending[p] \in Seq(Wire)
        BY DEF TypeOK
      <4>2. QED
        BY <4>1, WithoutSet
    <3> HIDE DEF v
    <3>2. sending' = [sending EXCEPT ![p] = v] /\ sending'[p] = v /\ queue'[p] = <<>>
      BY <2>2 DEF v, TypeOK
    <3>3. Drains(p)
      BY <2>2, <3>1, <3>2 DEF Drains, PubType, DrainHolds, TypeOK
    <3>4. ToSet(<<>>) = {}
      BY DEF ToSet
    <3>5. QED
      BY <3>1, <3>2, <3>3, <3>4 DEF Unsent, Served
  <2>3. QED
    BY <1>1, <2>1, <2>2
<1>4. RoomType'
  BY <1>1 DEF RoomType, TypeOK, Goes
<1>5. TypeOK' /\ DrainHolds'
  BY <1>3, <1>4, NextTypeParts DEF Drains
<1>6. OutInv'
  BY <1>1 DEF OutInv
<1>7. NotStuck'
  BY <1>1, <1>3, NotStuckKept
<1>8. now <= now' /\ syncs <= syncs'
  BY <1>1, StageAssumption DEF TypeOK
<1>9. PacketInv'
  <2>1. \A x, y \in Peer : OnTheWay(x, y)' \subseteq OnTheWay(x, y)
    <3>1. \A x \in Peer : Unsent(x)' \subseteq Unsent(x)
      BY <1>3 DEF Drains, Unsent
    <3>2. QED
      BY <1>1, <3>1 DEF OnTheWay
  <2>2. QED
    BY <1>5, <1>8, <2>1, PacketsKept
<1>10. StampInv'
  BY <1>1, <1>5, <1>8, StampsKept
<1>11. LearnInv' /\ CalmInv' /\ AgreeInv'
  BY <1>1 DEF LearnInv, CalmInv, AgreeInv, Goes
<1>12. Core'
  BY <1>5, <1>6, <1>7, <1>9, <1>10, <1>11 DEF Core
<1>13. ShareInv'
  BY <1>1 DEF ShareInv, Shows
<1>14. QED
  BY <1>12, <1>13, NextCoreParts

(* A playhead update moves the owner's stamp, and counts. *)
LEMMA SyncPlayheadInv ==
  ASSUME StageInv, NEW p \in Peer, SyncPlayhead(p)
  PROVE  StageInv'
<1> USE DEF StageInv
<1> DEFINE w == SyncMsg(p)
           s == stage[p]
           t == [s EXCEPT !.at = now + 1]
<1>1. /\ Publish(p, w) /\ PubType /\ w \in Wire /\ w.type = "sync" /\ w.owner = p
      /\ syncs' = syncs + 1 /\ syncs < MaxSyncs /\ now < MaxStamps /\ now' = now + 1
      /\ stage' = [stage EXCEPT ![p] = t]
      /\ share' = [share EXCEPT ![p] = Stopped(p)]
      /\ UNCHANGED <<conn, chan, notice, pushing, latest, trouble>>
  BY WireFacts, TypeParts DEF SyncPlayhead, Stamp
<1>2. s \in Stage /\ s.owner = p
  BY DEF SyncPlayhead, Owns, Holds, Shows, TypeOK
<1>3. /\ now \in Nat /\ now' \in 0..MaxStamps /\ now + 1 \in 1..MaxStamps
      /\ syncs \in Nat /\ syncs' \in 0..MaxSyncs /\ syncs' > 0 /\ now <= now' /\ syncs <= syncs'
  <2>1. /\ now \in 0..MaxStamps /\ syncs \in 0..MaxSyncs /\ MaxStamps \in Nat /\ MaxSyncs \in Nat
        /\ syncs' = syncs + 1 /\ syncs < MaxSyncs /\ now < MaxStamps /\ now' = now + 1
    BY <1>1, StageAssumption DEF TypeOK
  <2>2. QED
    BY <2>1
<1>4. t \in Stage /\ t.owner = p /\ t.at = now + 1 /\ t.kind = s.kind
  BY <1>2, <1>3, StageFacts
<1>5. Drains(p) /\ Served(p) /\ retry' = retry /\ Unsent(p)' = Unsent(p) \union {w}
      /\ (OneDrain(p) => OneDrain(p)')
  BY <1>1, PublishSays
<1> HIDE DEF w, s, t
<1>6. /\ \A x \in Peer \ {p} : stage'[x] = stage[x]
      /\ stage'[p] = t
  BY <1>1 DEF TypeOK
<1>7. RoomType'
  <2>1. share' \in [Peer -> Tracks]
    BY <1>1, StoppedType DEF TypeOK
  <2>2. stage' \in [Peer -> Stage \union {NoStage}]
    BY <1>1, <1>4 DEF TypeOK
  <2>3. QED
    BY <1>1, <1>3, <1>5, <2>1, <2>2 DEF TypeOK, RoomType
<1>8. TypeOK' /\ DrainHolds'
  BY <1>5, <1>7, NextTypeParts DEF Drains
<1>9. OutInv'
  BY <1>1, <1>2, <1>6, StageAssumption DEF OutInv, s
<1>10. Speech(p, {w})
  BY <1>1, <1>5, SpeechTraffic
<1>11. PacketInv'
  <2>1. Speaks(p, w)'
    BY <1>1, <1>3 DEF Speaks
  <2>2. \A x, y \in Peer : \A v \in OnTheWay(x, y)' : v \in OnTheWay(x, y) \/ Speaks(x, v)'
    BY <1>10, <2>1 DEF Speech
  <2>3. QED
    BY <1>3, <1>8, <2>2, PacketsKept
<1>12. StampInv'
  <2>1. stage'[p] \notin {NoStage, stage[p]} => stage'[p].at <= now' /\ stage'[p].at > now
    BY <1>1, <1>3, <1>4, <1>6
  <2>2. QED
    BY <1>3, <1>6, <1>8, <2>1, StampsKept
<1>13. NotStuck'
  BY <1>1, <1>5, NotStuckKept
<1>14. LearnInv' /\ AgreeInv'
  BY <1>3 DEF LearnInv, AgreeInv
<1>15. CalmInv'
  <2>1. w # Request
    BY <1>1, WireFacts
  <2>2. \A x, y \in Peer : Request \in OnTheWay(x, y)' => Request \in OnTheWay(x, y)
    BY <1>10, <2>1 DEF Speech
  <2>3. \A x \in Peer : OneDrain(x) => OneDrain(x)'
    BY <1>5 DEF OneDrain, Drains
  <2>4. QED
    BY <1>1, <1>5, <2>2, <2>3, CalmKept
<1>16. Core'
  BY <1>8, <1>9, <1>11, <1>12, <1>13, <1>14, <1>15 DEF Core
<1>17. ShareInv'
  <2>1. ASSUME NEW x \in Peer, share'[x] = "on", x # p PROVE stage'[x] = NoStage \/ Shows(x, "screenshare")'
    BY <1>1, <1>6, <2>1 DEF ShareInv, Shows
  <2>2. share'[p] # "on"
    BY <1>1, StoppedType DEF TypeOK
  <2>3. QED
    BY <2>1, <2>2 DEF ShareInv
<1>18. QED
  BY <1>16, <1>17, NextCoreParts

(* What goes out was under way, and is still where somebody receives it. *)
LEMMA SentTraffic ==
  ASSUME StageInv, NEW p \in Peer, Sent(p)
  PROVE  /\ \A x, y \in Peer : x # p => OnTheWay(x, y)' = OnTheWay(x, y)
         /\ \A y \in Peer : /\ OnTheWay(p, y)' \subseteq OnTheWay(p, y)
                            /\ y # p /\ Present(y) => OnTheWay(p, y)' = OnTheWay(p, y)
<1> USE DEF StageInv
<1>1. PICK i \in DOMAIN sending[p] : chan' = Reached(p, sending[p][i]) /\ DrainOn(p, i, queue[p])
  BY DEF Sent
<1> DEFINE w == sending[p][i]
<1>2. Drains(p) /\ w \in Wire /\ Unsent(p) = Unsent(p)' \union {w}
  BY <1>1, TypeParts, DrainOnSays
<1>3. chan' = Reached(p, w)
  BY <1>1
<1> HIDE DEF w
<1>4. /\ \A x, y \in Peer : x # p => chan'[x][y] = chan[x][y]
      /\ \A y \in Peer : chan'[p][y] = IF y # p /\ Present(y) THEN Append(chan[p][y], w) ELSE chan[p][y]
  BY <1>3 DEF Reached, TypeOK
<1>5. \A x, y \in Peer : x # p => OnTheWay(x, y)' = OnTheWay(x, y)
  BY <1>2, <1>4 DEF OnTheWay, Unsent, Drains
<1>6. ASSUME NEW y \in Peer
      PROVE  /\ OnTheWay(p, y)' \subseteq OnTheWay(p, y)
             /\ y # p /\ Present(y) => OnTheWay(p, y)' = OnTheWay(p, y)
  <2>1. CASE y # p /\ Present(y)
    <3> DEFINE s == chan[p][y]
               t == Append(s, w)
    <3>1. s \in Seq(Wire)
      BY DEF TypeOK
    <3>2. ToSet(t) = ToSet(s) \union {w}
      BY <1>2, <3>1, AppendSet
    <3>3. chan'[p][y] = t
      BY <1>4, <2>1
    <3> HIDE DEF t
    <3>4. QED
      BY <1>2, <3>2, <3>3 DEF OnTheWay
  <2>2. CASE ~(y # p /\ Present(y))
    <3>1. chan'[p][y] = chan[p][y]
      BY <1>4, <2>2
    <3>2. QED
      BY <1>2, <2>2, <3>1 DEF OnTheWay
  <2>3. QED
    BY <2>1, <2>2
<1>7. QED
  BY <1>5, <1>6

(* A packet goes out. *)
LEMMA SentInv ==
  ASSUME StageInv, NEW p \in Peer, Sent(p)
  PROVE  StageInv'
<1> USE DEF StageInv, bounds
<1>1. PICK i \in DOMAIN sending[p] :
        /\ conn[p] = "ready"
        /\ chan' = Reached(p, sending[p][i])
        /\ DrainOn(p, i, queue[p])
        /\ UNCHANGED <<retry, stage, conn, notice, pushing, share, now, latest, bounds>>
  BY DEF Sent
<1> DEFINE w == sending[p][i]
<1>2. PubType
  BY TypeParts
<1>3. /\ Drains(p) /\ Served(p) /\ w \in Wire
      /\ Unsent(p) = Unsent(p)' \union {w}
      /\ OneDrain(p) => /\ OneDrain(p)'
                        /\ Unsent(p)' # {} => Newest(p)' = Newest(p)
                        /\ Unsent(p)' = {} => Newest(p) = w
  BY <1>1, <1>2, DrainOnSays
<1>4. chan' = Reached(p, w)
  BY <1>1
<1> HIDE DEF w
<1>5. /\ \A x, y \in Peer : x # p => chan'[x][y] = chan[x][y]
      /\ \A y \in Peer : chan'[p][y] = IF y # p /\ Present(y) THEN Append(chan[p][y], w) ELSE chan[p][y]
  BY <1>4 DEF Reached, TypeOK
<1>6. chan' \in [Peer -> [Peer -> Seq(Wire)]]
  <2> DEFINE row == [y \in Peer |-> IF y # p /\ Present(y) THEN Append(chan[p][y], w) ELSE chan[p][y]]
  <2>1. \A y \in Peer : chan[p][y] \in Seq(Wire)
    BY DEF TypeOK
  <2>2. \A y \in Peer : Append(chan[p][y], w) \in Seq(Wire)
    BY <1>3, <2>1, AppendSet
  <2>3. row \in [Peer -> Seq(Wire)]
    BY <2>1, <2>2
  <2>4. chan' = [chan EXCEPT ![p] = row]
    BY <1>4 DEF Reached
  <2> HIDE DEF row
  <2>5. QED
    BY <2>3, <2>4 DEF TypeOK
<1>7. RoomType'
  BY <1>1, <1>6 DEF RoomType, TypeOK
<1>8. TypeOK' /\ DrainHolds'
  BY <1>3, <1>7, NextTypeParts DEF Drains
<1>9. OutInv'
  BY <1>1, <1>5 DEF OutInv
<1>10. \A x, y \in Peer : x # p => OnTheWay(x, y)' = OnTheWay(x, y)
  BY SentTraffic
<1>11. ASSUME NEW y \in Peer
       PROVE  /\ OnTheWay(p, y)' \subseteq OnTheWay(p, y)
              /\ y # p /\ Present(y) => OnTheWay(p, y)' = OnTheWay(p, y)
  BY SentTraffic
<1>12. now <= now' /\ syncs <= syncs'
  BY <1>1, StageAssumption DEF TypeOK
<1>13. PacketInv'
  BY <1>8, <1>10, <1>11, <1>12, PacketsKept
<1>14. StampInv'
  BY <1>1 DEF StampInv, Owns
<1>15. NotStuck'
  BY <1>1, <1>3, NotStuckKept
<1>16. LearnInv'
  <2> SUFFICES ASSUME syncs = 0, "drop" \notin trouble,
                      NEW x \in Peer, NEW y \in Peer, Owns(x), Owns(y), stage[x].at < stage[y].at
      PROVE Learns(x, y)'
    BY <1>1 DEF LearnInv, Owns
  <2>1. Learns(x, y)
    BY DEF LearnInv
  <2>2. Present(x) /\ Present(y)
    BY DEF OutInv, Owns, Holds, Present
  <2>3. x # y
    BY StageFacts DEF TypeOK, Owns, Holds
  <2>4. OnTheWay(x, y)' = OnTheWay(x, y) /\ OnTheWay(y, x)' = OnTheWay(y, x)
    BY <1>10, <1>11, <2>2, <2>3
  <2>5. QED
    BY <1>1, <2>1, <2>4, LearnsKept DEF Sets
<1>17. CalmInv'
  <2>1. \A x, y \in Peer : Request \in OnTheWay(x, y)' => Request \in OnTheWay(x, y)
    BY <1>10, <1>11
  <2>2. \A x \in Peer : OneDrain(x) => OneDrain(x)'
    BY <1>3 DEF OneDrain, Drains
  <2>3. QED
    BY <1>1, <2>1, <2>2, CalmKept
<1>18. AgreeInv'
  BY <1>1, <1>3, <1>4, <1>8, AgreeSent
<1>19. Core'
  BY <1>8, <1>9, <1>13, <1>14, <1>15, <1>16, <1>17, <1>18 DEF Core
<1>20. ShareInv'
  BY <1>1 DEF ShareInv, Shows
<1>21. QED
  BY <1>19, <1>20, NextCoreParts

-----------------------------------------------------------------------------
(* Coming, going and interruptions *)

(* Every notice is an event. *)
LEMMA ToldType ==
  ASSUME TypeOK, NEW p \in Peer, NEW q \in Peer, NEW t \in {"joined", "left"}
  PROVE  Append(notice[q], [who |-> p, type |-> t]) \in Seq(Event)
<1>1. notice[q] \in Seq(Event)
  BY DEF TypeOK
<1>2. [who |-> p, type |-> t] \in Event
  BY DEF Event
<1>3. QED
  BY <1>1, <1>2, AppendSet

(* A participant joins; its transport is still closed. *)
LEMMA JoinInv ==
  ASSUME StageInv, NEW p \in Peer, Join(p)
  PROVE  StageInv'
<1> USE DEF StageInv, bounds, publisher
<1>1. /\ conn[p] = "out" /\ conn' = [conn EXCEPT ![p] = "closed"] /\ Tell(p, "joined")
      /\ UNCHANGED <<stage, publisher, chan, pushing, share, now, latest, bounds>>
  BY DEF Join
<1>2. trouble # {} /\ trouble' = trouble
  BY <1>1, Troubled
<1>3. notice' \in [Peer -> Seq(Event)]
  BY <1>1, ToldType DEF Tell, TypeOK
<1>4. TypeOK'
  BY <1>1, <1>3 DEF TypeOK
<1>5. DrainHolds'
  BY <1>1 DEF DrainHolds
<1>6. OutInv'
  BY <1>1 DEF OutInv, TypeOK
<1>7. NotStuck'
  BY <1>1 DEF NotStuck, TypeOK
<1>8. Silence
  BY <1>1, SilentTraffic
<1>9. PacketInv'
  BY <1>1, <1>8 DEF PacketInv, Speaks, Silence
<1>10. StampInv'
  BY <1>1 DEF StampInv, Owns
<1>11. LearnInv'
  <2> SUFFICES ASSUME syncs = 0, "drop" \notin trouble,
                      NEW x \in Peer, NEW y \in Peer, Owns(x), Owns(y), stage[x].at < stage[y].at
      PROVE Learns(x, y)'
    BY <1>1 DEF LearnInv, Owns
  <2>1. Learns(x, y)
    BY DEF LearnInv
  <2>2. OnTheWay(x, y)' = OnTheWay(x, y) /\ OnTheWay(y, x)' = OnTheWay(y, x)
    BY <1>8 DEF Silence
  <2>3. \A z \in Peer : conn[z] = "closed" => conn'[z] = "closed"
    BY <1>1 DEF TypeOK
  <2>4. QED
    BY <1>1, <2>1, <2>2, <2>3, LearnsKept DEF Sets
<1>12. CalmInv' /\ AgreeInv'
  BY <1>2 DEF CalmInv, AgreeInv
<1>13. ShareInv'
  BY <1>1 DEF ShareInv, Shows
<1>14. QED
  BY <1>4, <1>5, <1>6, <1>7, <1>9, <1>10, <1>11, <1>12, <1>13

(* Who leaves owns nothing any more, and what was meant for it is gone. *)
LEMMA LeaveInv ==
  ASSUME StageInv, NEW p \in Peer, Leave(p)
  PROVE  StageInv'
<1> USE DEF StageInv
<1>1. /\ conn' = [conn EXCEPT ![p] = "out"]
      /\ stage' = [stage EXCEPT ![p] = NoStage]
      /\ queue' = [queue EXCEPT ![p] = <<>>]
      /\ publishing' = [publishing EXCEPT ![p] = FALSE]
      /\ sending' = [sending EXCEPT ![p] = <<>>]
      /\ retry' = [retry EXCEPT ![p] = FALSE]
      /\ pushing' = [pushing EXCEPT ![p] = FALSE]
      /\ share' = [share EXCEPT ![p] = "off"]
      /\ chan' = [q \in Peer |-> [chan[q] EXCEPT ![p] = <<>>]]
      /\ latest' \in Peer \union {NoPeer}
      /\ UNCHANGED <<now, syncs>>
  BY DEF Leave, Disowned, TypeOK
<1>2. trouble' # {} /\ trouble \subseteq trouble' /\ trouble' \subseteq Trouble
  BY DEF Leave, Goes, TypeOK
<1>3. notice' \in [Peer -> Seq(Event)]
  <2>1. notice' = [q \in Peer |->
          IF q = p THEN <<>>
          ELSE IF Present(q) THEN Append(notice[q], [who |-> p, type |-> "left"])
          ELSE notice[q]]
    BY DEF Leave
  <2>2. \A q \in Peer : Append(notice[q], [who |-> p, type |-> "left"]) \in Seq(Event)
    BY ToldType
  <2>3. QED
    BY <2>1, <2>2 DEF TypeOK
<1>4. chan' \in [Peer -> [Peer -> Seq(Wire)]]
  BY <1>1 DEF TypeOK
<1>5. TypeOK'
  <2>1. PubType'
    BY <1>1 DEF TypeOK, PubType
  <2>2. RoomType'
    BY <1>1, <1>2, <1>3, <1>4 DEF TypeOK, RoomType, Tracks
  <2>3. QED
    BY <2>1, <2>2, NextTypeParts
<1>6. /\ \A x \in Peer \ {p} : /\ queue'[x] = queue[x] /\ sending'[x] = sending[x] /\ stage'[x] = stage[x]
                               /\ conn'[x] = conn[x] /\ retry'[x] = retry[x] /\ share'[x] = share[x]
                               /\ publishing'[x] = publishing[x]
      /\ queue'[p] = <<>> /\ sending'[p] = <<>> /\ stage'[p] = NoStage /\ share'[p] = "off"
      /\ publishing'[p] = FALSE
  BY <1>1 DEF TypeOK
<1>7. /\ \A x, y \in Peer : y # p => chan'[x][y] = chan[x][y]
      /\ \A x \in Peer : chan'[x][p] = <<>>
  BY <1>1 DEF TypeOK
<1>8. DrainHolds'
  BY <1>6 DEF DrainHolds
<1>9. OutInv'
  <2>1. ASSUME NEW x \in Peer PROVE conn'[x] = "out" => stage'[x] = NoStage
    BY <1>6 DEF OutInv
  <2>2. ASSUME NEW x \in Peer PROVE chan'[x][x] = <<>>
    BY <1>7 DEF OutInv
  <2>3. QED
    BY <2>1, <2>2 DEF OutInv
<1>10. NotStuck'
  BY <1>6 DEF NotStuck
<1>11. ToSet(<<>>) = {}
  BY DEF ToSet
<1>12. \A x, y \in Peer : x # p /\ y # p => OnTheWay(x, y)' = OnTheWay(x, y)
  BY <1>6, <1>7 DEF OnTheWay, Unsent
<1>13. \A x, y \in Peer : OnTheWay(x, y)' \subseteq OnTheWay(x, y)
  <2>1. \A x \in Peer : Unsent(x)' \subseteq Unsent(x)
    BY <1>6, <1>11 DEF Unsent
  <2>2. \A x, y \in Peer : ToSet(chan'[x][y]) \subseteq ToSet(chan[x][y])
    BY <1>7, <1>11
  <2>3. QED
    BY <2>1, <2>2 DEF OnTheWay
<1>14. now <= now' /\ syncs <= syncs'
  BY <1>1, StageAssumption DEF TypeOK
<1>15. PacketInv'
  BY <1>5, <1>13, <1>14, PacketsKept
<1>16. StampInv'
  BY <1>5, <1>6, <1>14, StampsKept
<1>17. LearnInv'
  <2> SUFFICES ASSUME syncs = 0, "drop" \notin trouble,
                      NEW x \in Peer, NEW y \in Peer, Owns(x)', Owns(y)', stage'[x].at < stage'[y].at
      PROVE Learns(x, y)'
    BY <1>1, <1>2 DEF LearnInv
  <2>1. x # p /\ y # p
    BY <1>6 DEF Owns, Holds
  <2>2. /\ stage'[x] = stage[x] /\ stage'[y] = stage[y] /\ conn'[x] = conn[x] /\ conn'[y] = conn[y]
        /\ Owns(x) /\ Owns(y)
    BY <1>6, <2>1 DEF Owns
  <2>3. Learns(x, y)
    BY <2>2 DEF LearnInv
  <2>4. OnTheWay(x, y)' = OnTheWay(x, y) /\ OnTheWay(y, x)' = OnTheWay(y, x)
    BY <1>12, <2>1
  <2>5. QED
    BY <2>2, <2>3, <2>4, LearnsKept DEF Sets
<1>18. CalmInv' /\ AgreeInv'
  BY <1>2 DEF CalmInv, AgreeInv
<1>19. ShareInv'
  BY <1>6 DEF ShareInv, Shows
<1>20. QED
  BY <1>5, <1>8, <1>9, <1>10, <1>15, <1>16, <1>17, <1>18, <1>19

(* An interruption empties a queue, and promises that both will speak. *)
LEMMA InterruptInv ==
  ASSUME StageInv, NEW p \in Peer, Interrupt(p)
  PROVE  StageInv'
<1> USE DEF StageInv
<1>1. /\ conn' = [conn EXCEPT ![p] = "closed"]
      /\ queue' = [queue EXCEPT ![p] = <<>>]
      /\ publishing' = [publishing EXCEPT ![p] = FALSE]
      /\ retry' = [retry EXCEPT ![p] = FALSE]
      /\ conn[p] = "ready"
      /\ UNCHANGED <<stage, sending, chan, notice, pushing, share, now, latest, syncs>>
  BY DEF Interrupt
<1>2. trouble' # {} /\ trouble \subseteq trouble' /\ trouble' \subseteq Trouble
  BY DEF Interrupt, Goes, TypeOK
<1>3. TypeOK'
  <2>1. PubType'
    BY <1>1 DEF TypeOK, PubType
  <2>2. RoomType'
    BY <1>1, <1>2 DEF TypeOK, RoomType
  <2>3. QED
    BY <2>1, <2>2, NextTypeParts
<1>4. /\ \A x \in Peer \ {p} : /\ queue'[x] = queue[x] /\ publishing'[x] = publishing[x]
                               /\ conn'[x] = conn[x] /\ retry'[x] = retry[x]
      /\ queue'[p] = <<>> /\ publishing'[p] = FALSE /\ conn'[p] = "closed"
  BY <1>1 DEF TypeOK
<1>5. DrainHolds' /\ NotStuck'
  BY <1>1, <1>4 DEF DrainHolds, NotStuck
<1>6. OutInv'
  BY <1>1, <1>4 DEF OutInv
<1>7. /\ \A x, y \in Peer : x # p => OnTheWay(x, y)' = OnTheWay(x, y)
      /\ \A x, y \in Peer : OnTheWay(x, y)' \subseteq OnTheWay(x, y)
  <2>1. ToSet(<<>>) = {}
    BY DEF ToSet
  <2>2. \A x \in Peer : x # p => Unsent(x)' = Unsent(x)
    BY <1>1, <1>4 DEF Unsent
  <2>3. Unsent(p)' \subseteq Unsent(p)
    BY <1>1, <1>4, <2>1 DEF Unsent
  <2>4. QED
    BY <1>1, <2>2, <2>3 DEF OnTheWay
<1>8. now <= now' /\ syncs <= syncs'
  BY <1>1, StageAssumption DEF TypeOK
<1>9. PacketInv'
  BY <1>3, <1>7, <1>8, PacketsKept
<1>10. StampInv'
  BY <1>1 DEF StampInv, Owns
<1>11. LearnInv'
  <2> SUFFICES ASSUME syncs = 0, "drop" \notin trouble,
                      NEW x \in Peer, NEW y \in Peer, Owns(x), Owns(y), stage[x].at < stage[y].at
      PROVE Learns(x, y)'
    BY <1>1, <1>2 DEF LearnInv, Owns
  <2>1. CASE x = p \/ y = p
    BY <1>4, <2>1 DEF Learns
  <2>2. CASE x # p /\ y # p
    <3>1. Learns(x, y)
      BY DEF LearnInv
    <3>2. OnTheWay(x, y)' = OnTheWay(x, y) /\ OnTheWay(y, x)' = OnTheWay(y, x)
      BY <1>7, <2>2
    <3>3. conn'[x] = conn[x] /\ conn'[y] = conn[y]
      BY <1>4, <2>2
    <3>4. QED
      BY <1>1, <3>1, <3>2, <3>3, LearnsKept DEF Sets
  <2>3. QED
    BY <2>1, <2>2
<1>12. CalmInv' /\ AgreeInv'
  BY <1>2 DEF CalmInv, AgreeInv
<1>13. ShareInv'
  BY <1>1 DEF ShareInv, Shows
<1>14. QED
  BY <1>3, <1>5, <1>6, <1>9, <1>10, <1>11, <1>12, <1>13

(* The transport is open again: a request goes out, and an owner's stage. *)
LEMMA ReadyInv ==
  ASSUME StageInv, NEW p \in Peer, Ready(p)
  PROVE  StageInv'
<1> USE DEF StageInv
<1> DEFINE q == Enqueued(queue[p], Request)
           w == SetMsg(stage[p])
           r == IF Owns(p) THEN Append(q, w) ELSE q
           said == IF Owns(p) THEN {Request, w} ELSE {Request}
<1>1. /\ conn[p] = "closed" /\ conn' = [conn EXCEPT ![p] = "ready"]
      /\ chan' \in {chan, [x \in Peer |-> [chan[x] EXCEPT ![p] = <<>>]]}
      /\ IF publishing[p]
         THEN queue' = [queue EXCEPT ![p] = r] /\ UNCHANGED <<publishing, sending>>
         ELSE /\ queue' = [queue EXCEPT ![p] = Tail(r)]
              /\ sending' = [sending EXCEPT ![p] = Append(@, Head(r))]
              /\ publishing' = [publishing EXCEPT ![p] = TRUE]
      /\ UNCHANGED <<retry, stage, notice, pushing, share, now, latest, syncs, trouble>>
  BY DEF Ready, bounds
<1>2. trouble # {}
  BY <1>1, Troubled
<1>3. q \in Seq(Wire) /\ q # <<>> /\ ToSet(q) = ToSet(queue[p]) \union {Request}
  <2>1. queue[p] \in Seq(Wire) /\ Request \in Wire
    BY WireFacts DEF TypeOK
  <2>2. QED
    BY <2>1, EnqueuedSet
<1>4. Owns(p) => stage[p] \in Stage /\ w \in Wire /\ w.type = "set" /\ w.stage = stage[p]
  BY WireFacts DEF Owns, Holds, TypeOK
<1> HIDE DEF q, w
<1>5. r \in Seq(Wire) /\ r # <<>> /\ ToSet(r) = ToSet(queue[p]) \union said
  <2>1. CASE Owns(p)
    <3>1. Append(q, w) \in Seq(Wire) /\ Append(q, w) # <<>> /\ ToSet(Append(q, w)) = ToSet(q) \union {w}
      BY <1>3, <1>4, <2>1, AppendSet
    <3>2. QED
      BY <1>3, <2>1, <3>1
  <2>2. CASE ~Owns(p)
    BY <1>3, <2>2
  <2>3. QED
    BY <2>1, <2>2
<1> HIDE DEF r
<1>6. Drains(p) /\ Unsent(p)' = Unsent(p) \union said /\ sending'[p] # <<>>
  <2>1. CASE publishing[p]
    <3>1. queue' = [queue EXCEPT ![p] = r] /\ UNCHANGED <<publishing, sending>> /\ queue'[p] = r
      BY <1>1, <2>1 DEF TypeOK
    <3>2. Drains(p)
      BY <1>5, <3>1 DEF Drains, PubType, DrainHolds, TypeOK
    <3>3. Unsent(p)' = Unsent(p) \union said
      BY <1>5, <3>1 DEF Unsent
    <3>4. QED
      BY <2>1, <3>1, <3>2, <3>3 DEF DrainHolds
  <2>2. CASE ~publishing[p]
    <3> DEFINE h == Head(r)
               t == Tail(r)
               s == sending[p]
               u == Append(s, h)
    <3>1. h \in Wire /\ t \in Seq(Wire) /\ ToSet(r) = ToSet(t) \union {h}
      BY <1>5, HeadTailSet
    <3> HIDE DEF h, t
    <3>2. u \in Seq(Wire) /\ u # <<>> /\ ToSet(u) = ToSet(s) \union {h}
      <4>1. s \in Seq(Wire)
        BY DEF TypeOK
      <4>2. QED
        BY <3>1, <4>1, AppendSet
    <3> HIDE DEF u
    <3>3. /\ queue' = [queue EXCEPT ![p] = t] /\ sending' = [sending EXCEPT ![p] = u]
          /\ publishing' = [publishing EXCEPT ![p] = TRUE]
          /\ queue'[p] = t /\ sending'[p] = u
      BY <1>1, <2>2 DEF TypeOK, h, t, u
    <3>4. Drains(p)
      BY <3>1, <3>2, <3>3 DEF Drains, PubType, DrainHolds, TypeOK
    <3>5. Unsent(p)' = Unsent(p) \union said
      BY <1>5, <3>1, <3>2, <3>3 DEF Unsent
    <3>6. QED
      BY <3>2, <3>3, <3>4, <3>5
  <2>3. QED
    BY <2>1, <2>2
<1>7. /\ chan' \in [Peer -> [Peer -> Seq(Wire)]]
      /\ \A x, y \in Peer : y # p => chan'[x][y] = chan[x][y]
      /\ \A x \in Peer : chan'[x][p] \in {chan[x][p], <<>>}
  <2>1. CASE chan' = chan
    BY <2>1 DEF TypeOK
  <2>2. CASE chan' = [x \in Peer |-> [chan[x] EXCEPT ![p] = <<>>]]
    <3>1. chan' \in [Peer -> [Peer -> Seq(Wire)]]
      BY <2>2 DEF TypeOK
    <3>2. /\ \A x, y \in Peer : y # p => chan'[x][y] = chan[x][y]
          /\ \A x \in Peer : chan'[x][p] = <<>>
      BY <2>2 DEF TypeOK
    <3>3. QED
      BY <3>1, <3>2
  <2>3. QED
    BY <1>1, <2>1, <2>2
<1>8. RoomType'
  BY <1>1, <1>7 DEF TypeOK, RoomType
<1>9. TypeOK' /\ DrainHolds'
  BY <1>6, <1>8, NextTypeParts DEF Drains
<1>10. /\ \A x \in Peer \ {p} : conn'[x] = conn[x]
       /\ conn'[p] = "ready"
  BY <1>1 DEF TypeOK
<1>11. /\ \A x, y \in Peer : y # p => chan'[x][y] = chan[x][y]
       /\ \A x \in Peer : chan'[x][p] \in {chan[x][p], <<>>}
  BY <1>7
<1>12. OutInv'
  <2>1. ASSUME NEW x \in Peer PROVE conn'[x] = "out" => stage'[x] = NoStage
    BY <1>1, <1>10 DEF OutInv
  <2>2. ASSUME NEW x \in Peer PROVE chan'[x][x] = <<>>
    BY <1>11 DEF OutInv
  <2>3. QED
    BY <2>1, <2>2 DEF OutInv
<1>13. NotStuck'
  <2>1. \A x \in Peer \ {p} : queue'[x] = queue[x] /\ sending'[x] = sending[x]
    BY <1>6 DEF Drains
  <2>2. QED
    BY <1>1, <1>6, <1>10, <2>1 DEF NotStuck
<1>14. /\ \A x, y \in Peer : x # p => OnTheWay(x, y)' \subseteq OnTheWay(x, y)
       /\ \A x, y \in Peer : x # p /\ y # p => OnTheWay(x, y)' = OnTheWay(x, y)
       /\ \A y \in Peer : OnTheWay(p, y)' \subseteq OnTheWay(p, y) \union said
       /\ \A y \in Peer : said \subseteq OnTheWay(p, y)'
  <2>1. ToSet(<<>>) = {}
    BY DEF ToSet
  <2>2. \A x, y \in Peer : ToSet(chan'[x][y]) \subseteq ToSet(chan[x][y])
    BY <1>11, <2>1
  <2>3. \A x \in Peer : x # p => Unsent(x)' = Unsent(x)
    BY <1>6 DEF Drains, Unsent
  <2>4. QED
    BY <1>6, <1>11, <2>2, <2>3 DEF OnTheWay
<1>15. now <= now' /\ syncs <= syncs'
  BY <1>1, StageAssumption DEF TypeOK
<1>16. PacketInv'
  <2>1. ASSUME NEW v \in said PROVE Speaks(p, v)'
    <3>1. CASE v = Request
      BY <3>1, WireFacts DEF Speaks
    <3>2. CASE Owns(p) /\ v = w
      BY <1>1, <1>4, <3>2 DEF Speaks, StampInv, Owns, Holds
    <3>3. QED
      BY <3>1, <3>2
  <2>2. QED
    BY <1>9, <1>14, <1>15, <2>1, PacketsKept
<1>17. StampInv'
  BY <1>1 DEF StampInv, Owns
<1>18. LearnInv'
  <2> SUFFICES ASSUME syncs = 0, "drop" \notin trouble,
                      NEW x \in Peer, NEW y \in Peer, Owns(x), Owns(y), stage[x].at < stage[y].at
      PROVE Learns(x, y)'
    BY <1>1 DEF LearnInv, Owns
  <2>1. CASE x = p
    <3>1. Request \in OnTheWay(p, y)'
      BY <1>14
    <3>2. QED
      BY <2>1, <3>1 DEF Learns
  <2>2. CASE x # p /\ y = p
    <3>1. w \in OnTheWay(p, x)' /\ w.type = "set" /\ w.stage = stage[p]
      BY <1>4, <1>14, <2>2
    <3>2. stage[p].at >= stage[x].at
      <4>1. stage[x].at \in Nat /\ stage[y].at \in Nat
        BY Past DEF Owns, Holds
      <4>2. QED
        BY <2>2, <4>1
    <3>3. QED
      BY <1>1, <2>2, <3>1, <3>2 DEF Learns, Sets
  <2>3. CASE x # p /\ y # p
    <3>1. Learns(x, y)
      BY DEF LearnInv
    <3>2. OnTheWay(x, y)' = OnTheWay(x, y) /\ OnTheWay(y, x)' = OnTheWay(y, x)
      BY <1>14, <2>3
    <3>3. conn'[x] = conn[x] /\ conn'[y] = conn[y]
      BY <1>10, <2>3
    <3>4. QED
      BY <1>1, <3>1, <3>2, <3>3, LearnsKept DEF Sets
  <2>4. QED
    BY <2>1, <2>2, <2>3
<1>19. CalmInv' /\ AgreeInv'
  BY <1>1, <1>2 DEF CalmInv, AgreeInv
<1>20. ShareInv'
  BY <1>1 DEF ShareInv, Shows
<1>21. QED
  BY <1>9, <1>12, <1>13, <1>16, <1>17, <1>18, <1>19, <1>20

-----------------------------------------------------------------------------
(* Arrivals *)

(* Taking a packet off a channel leaves channels. *)
LEMMA ArrivalType ==
  ASSUME TypeOK, NEW c \in Peer, NEW d \in Peer, chan[c][d] # <<>>,
         chan' = [chan EXCEPT ![c][d] = Tail(@)]
  PROVE  /\ chan' \in [Peer -> [Peer -> Seq(Wire)]]
         /\ \A x, y \in Peer : ~(x = c /\ y = d) => chan'[x][y] = chan[x][y]
<1>1. chan[c][d] \in Seq(Wire)
  BY DEF TypeOK
<1>2. Tail(chan[c][d]) \in Seq(Wire)
  BY <1>1, HeadTailSet
<1>3. QED
  BY <1>2 DEF TypeOK

(* What every arrival keeps that is not answered. *)
LEMMA ArrivesInv ==
  ASSUME StageInv, TypeOK', NEW c \in Peer, NEW d \in Peer, NEW w, Arrives(c, d, w),
         chan[c][d] # <<>>, chan' = [chan EXCEPT ![c][d] = Tail(@)],
         conn[d] = "ready", now <= now',
         UNCHANGED <<conn, publisher, notice, pushing, bounds>>
  PROVE  DrainHolds' /\ NotStuck' /\ PacketInv' /\ CalmInv'
         /\ ((\A x \in Peer \ {d} : stage'[x] = stage[x]) => OutInv')
<1> USE DEF StageInv, bounds, publisher
<1>1. DrainHolds' /\ NotStuck'
  BY DEF DrainHolds, NotStuck
<1>2. \A x, y \in Peer : OnTheWay(x, y)' \subseteq OnTheWay(x, y)
  BY DEF Arrives
<1>3. PacketInv'
  <2>1. syncs <= syncs'
    BY StageAssumption DEF TypeOK
  <2>2. QED
    BY <1>2, <2>1, PacketsKept
<1>4. CalmInv'
  <2>1. \A x \in Peer : OneDrain(x) => OneDrain(x)'
    BY DEF OneDrain
  <2>2. QED
    BY <1>2, <2>1, CalmKept
<1>5. ASSUME \A x \in Peer \ {d} : stage'[x] = stage[x] PROVE OutInv'
  <2>1. \A x \in Peer : chan'[x][x] = <<>>
    BY ArrivalType DEF Arrives, OutInv
  <2>2. \A x \in Peer : conn'[x] = "out" => stage'[x] = NoStage
    BY <1>5 DEF OutInv
  <2>3. QED
    BY <2>1, <2>2 DEF OutInv
<1>6. QED
  BY <1>1, <1>3, <1>4, <1>5

(* A stage arrives. *)
LEMMA SetArrivesInv ==
  ASSUME StageInv, NEW c \in Peer, NEW d \in Peer, NEW w, Arrives(c, d, w), w.type = "set",
         chan[c][d] # <<>>, chan' = [chan EXCEPT ![c][d] = Tail(@)],
         conn[d] = "ready", ReceiveSet(d, w.stage),
         UNCHANGED <<conn, notice, pushing, latest, bounds>>
  PROVE  StageInv'
<1> USE DEF StageInv, bounds, publisher
<1> DEFINE s == w.stage
<1>1. w \in Sets(OnTheWay(c, d)) /\ s \in Stage /\ s.owner = c /\ s.at \in Nat /\ s.at <= now /\ s # NoStage
  <2>1. w \in Sets(OnTheWay(c, d))
    BY DEF Arrives, Sets
  <2>2. QED
    BY <2>1, Past, StageAssumption
<1>2. /\ stage' = [stage EXCEPT ![d] = IF Takes(d, s) THEN s ELSE @]
      /\ share' = [share EXCEPT ![d] =
           IF s.kind = "screenshare" /\ ~(Takes(d, s) /\ Owns(d) /\ ~Shows(d, "screenshare"))
           THEN @ ELSE Stopped(d)]
      /\ UNCHANGED <<publisher, now>>
  BY DEF ReceiveSet
<1> HIDE DEF s
<1>3. TypeOK'
  <2>1. chan' \in [Peer -> [Peer -> Seq(Wire)]]
    BY ArrivalType
  <2>2. stage' \in [Peer -> Stage \union {NoStage}]
    BY <1>1, <1>2 DEF TypeOK
  <2>3. share' \in [Peer -> Tracks]
    BY <1>2, StoppedType DEF TypeOK
  <2>4. QED
    BY <1>2, <2>1, <2>2, <2>3 DEF TypeOK
<1>4. /\ stage'[d] = IF Takes(d, s) THEN s ELSE stage[d]
      /\ \A x \in Peer \ {d} : stage'[x] = stage[x]
  BY <1>2 DEF TypeOK
<1>5. now <= now' /\ now \in Nat
  BY <1>2, StageAssumption DEF TypeOK
<1>6. DrainHolds' /\ NotStuck' /\ PacketInv' /\ CalmInv' /\ OutInv'
  BY <1>2, <1>3, <1>4, <1>5, ArrivesInv
<1>7. StampInv'
  <2>1. stage'[d] \notin {NoStage, stage[d]} => stage'[d].at <= now' /\ stage'[d].owner # d
    BY <1>1, <1>2, <1>4 DEF Arrives
  <2>2. QED
    BY <1>3, <1>4, <1>5, <2>1, StampsKept
<1>8. LearnInv'
  <2> SUFFICES ASSUME syncs = 0, "drop" \notin trouble,
                      NEW x \in Peer, NEW y \in Peer, Owns(x)', Owns(y)', stage'[x].at < stage'[y].at
      PROVE Learns(x, y)'
    BY DEF LearnInv
  <2>1. \A z \in Peer : Owns(z)' => stage'[z] = stage[z] /\ Owns(z) /\ (z = d => ~Takes(d, s))
    BY <1>1, <1>4 DEF Owns, Holds, Arrives
  <2>2. Learns(x, y)
    BY <2>1 DEF LearnInv
  <2>3. Request \in OnTheWay(x, y) => Request \in OnTheWay(x, y)'
    <3>1. Request # w
      BY WireFacts
    <3>2. QED
      BY <3>1 DEF Arrives
  <2>4. ASSUME NEW v \in Sets(OnTheWay(y, x)), v.stage.at >= stage[x].at
        PROVE  v \in Sets(OnTheWay(y, x)')
    <3>1. CASE y = c /\ x = d
      <4>1. stage[d] # NoStage /\ ~Takes(d, s)
        BY <2>1, <3>1 DEF Owns, Holds
      <4>2. s.at < stage[d].at
        <5>1. stage[d].at \in Nat
          BY <4>1, Past
        <5>2. QED
          BY <1>1, <4>1, <5>1 DEF Takes
      <4>3. v # w
        <5>1. stage[d].at \in Nat
          BY <4>1, Past
        <5>2. QED
          BY <1>1, <2>4, <3>1, <4>2, <5>1 DEF s
      <4>4. QED
        BY <3>1, <4>3 DEF Arrives, Sets
    <3>2. CASE ~(y = c /\ x = d)
      BY <3>2 DEF Arrives
    <3>3. QED
      BY <3>1, <3>2
  <2>5. QED
    BY <2>1, <2>2, <2>3, <2>4, LearnsKept
<1>9. AgreeInv'
  BY <1>2, AgreeSetArrives DEF s
<1>10. ShareInv'
  <2>1. ASSUME NEW x \in Peer, x # d, share'[x] = "on" PROVE stage'[x] = NoStage \/ Shows(x, "screenshare")'
    BY <1>2, <1>4, <2>1 DEF ShareInv, Shows, TypeOK
  <2>2. ASSUME share'[d] = "on" PROVE stage'[d] = NoStage \/ Shows(d, "screenshare")'
    <3>1. s.kind = "screenshare" /\ share[d] = "on"
      BY <1>2, <2>2, StoppedType DEF TypeOK
    <3>2. QED
      BY <1>4, <3>1 DEF ShareInv, Shows
  <2>3. QED
    BY <2>1, <2>2 DEF ShareInv
<1>11. QED
  BY <1>3, <1>6, <1>7, <1>8, <1>9, <1>10

(* A release arrives. *)
LEMMA ClearArrivesInv ==
  ASSUME StageInv, NEW c \in Peer, NEW d \in Peer, NEW w, Arrives(c, d, w), w.type = "clear",
         chan[c][d] # <<>>, chan' = [chan EXCEPT ![c][d] = Tail(@)],
         conn[d] = "ready", ReceiveClear(d, w.owner),
         UNCHANGED <<conn, notice, pushing, latest, bounds>>
  PROVE  StageInv'
<1> USE DEF StageInv, bounds, publisher
<1>1. w.owner = c
  BY DEF Arrives, PacketInv, Speaks
<1>2. /\ IF Holds(stage[d], c)
         THEN /\ stage' = [stage EXCEPT ![d] = NoStage]
              /\ share' = [share EXCEPT ![d] = Stopped(d)]
         ELSE UNCHANGED <<stage, share>>
      /\ UNCHANGED <<publisher, now>>
  BY <1>1 DEF ReceiveClear
<1>3. /\ stage' \in [Peer -> Stage \union {NoStage}]
      /\ share' \in [Peer -> Tracks]
      /\ \A x \in Peer : stage'[x] \in {stage[x], NoStage} /\ (share'[x] = "on" => share[x] = "on")
      /\ \A x \in Peer \ {d} : stage'[x] = stage[x]
  BY <1>2, StoppedType DEF TypeOK
<1>4. TypeOK'
  <2>1. chan' \in [Peer -> [Peer -> Seq(Wire)]]
    BY ArrivalType
  <2>2. QED
    BY <1>2, <1>3, <2>1 DEF TypeOK
<1>5. now <= now' /\ now \in Nat
  BY <1>2, StageAssumption DEF TypeOK
<1>6. DrainHolds' /\ NotStuck' /\ PacketInv' /\ CalmInv' /\ OutInv'
  BY <1>2, <1>3, <1>4, <1>5, ArrivesInv
<1>7. StampInv'
  BY <1>3, <1>4, <1>5, StampsKept
<1>8. LearnInv'
  <2> SUFFICES ASSUME syncs = 0, "drop" \notin trouble,
                      NEW x \in Peer, NEW y \in Peer, Owns(x)', Owns(y)', stage'[x].at < stage'[y].at
      PROVE Learns(x, y)'
    BY DEF LearnInv
  <2>1. \A z \in Peer : Owns(z)' => stage'[z] = stage[z] /\ Owns(z)
    BY <1>3 DEF Owns, Holds
  <2>2. Learns(x, y)
    BY <2>1 DEF LearnInv
  <2>3. Request # w
    BY WireFacts
  <2>4. Request \in OnTheWay(x, y) => Request \in OnTheWay(x, y)'
    BY <2>3 DEF Arrives
  <2>5. Sets(OnTheWay(y, x)) \subseteq Sets(OnTheWay(y, x)')
    <3>1. CASE y = c /\ x = d
      BY <3>1 DEF Arrives, Sets
    <3>2. CASE ~(y = c /\ x = d)
      BY <3>2 DEF Arrives
    <3>3. QED
      BY <3>1, <3>2
  <2>6. QED
    BY <2>1, <2>2, <2>4, <2>5, LearnsKept
<1>9. AgreeInv'
  <2>1. stage' = IF Holds(stage[d], c) THEN [stage EXCEPT ![d] = NoStage] ELSE stage
    BY <1>2
  <2>2. QED
    BY <2>1, AgreeClearArrives
<1>10. ShareInv'
  BY <1>3 DEF ShareInv, Shows
<1>11. QED
  BY <1>4, <1>6, <1>7, <1>8, <1>9, <1>10

(* A playhead arrives: whoever's video is shown is stamped anew. *)
LEMMA SyncArrivesInv ==
  ASSUME StageInv, NEW c \in Peer, NEW d \in Peer, NEW w, Arrives(c, d, w), w.type = "sync",
         chan[c][d] # <<>>, chan' = [chan EXCEPT ![c][d] = Tail(@)],
         conn[d] = "ready", ReceiveSync(d),
         UNCHANGED <<conn, notice, pushing, latest, bounds>>
  PROVE  StageInv'
<1> USE DEF StageInv, bounds, publisher
<1>1. syncs > 0
  BY DEF Arrives, PacketInv, Speaks
<1>2. now \in Nat /\ now' \in 0..MaxStamps /\ now <= now'
  <2>1. now \in 0..MaxStamps /\ MaxStamps \in Nat
    BY StageAssumption DEF TypeOK
  <2>2. now' = now \/ (now < MaxStamps /\ now' = now + 1)
    BY DEF ReceiveSync, Stamp
  <2>3. QED
    BY <2>1, <2>2
<1>3. /\ stage' \in [Peer -> Stage \union {NoStage}]
      /\ \A x \in Peer \ {d} : stage'[x] = stage[x]
      /\ stage'[d] = NoStage <=> stage[d] = NoStage
      /\ stage'[d] # NoStage => stage'[d].kind = stage[d].kind
      /\ stage'[d] # stage[d] => stage'[d].at <= now' /\ stage'[d].at > now
  <2>1. CASE Shows(d, "youtube")
    <3> DEFINE s == stage[d]
               t == [s EXCEPT !.at = now + 1]
    <3>1. now < MaxStamps /\ now' = now + 1 /\ now + 1 \in 1..MaxStamps
      BY <1>2, <2>1, StageAssumption DEF ReceiveSync, Stamp
    <3>2. stage' = [stage EXCEPT ![d] = t]
      BY <2>1, <3>1 DEF ReceiveSync
    <3>3. s \in Stage /\ s # NoStage
      BY <2>1 DEF Shows, TypeOK
    <3>4. t \in Stage /\ t.kind = s.kind /\ t.at = now + 1
      BY <3>1, <3>3, StageFacts
    <3> HIDE DEF t
    <3>5. stage'[d] = t
      BY <3>2 DEF TypeOK
    <3>6. t # NoStage /\ t.at <= now' /\ t.at > now
      BY <1>2, <3>1, <3>4, StageAssumption
    <3>7. QED
      BY <3>2, <3>3, <3>4, <3>5, <3>6 DEF TypeOK
  <2>2. CASE ~Shows(d, "youtube")
    BY <2>2 DEF ReceiveSync, TypeOK
  <2>3. QED
    BY <2>1, <2>2
<1>4. /\ UNCHANGED publisher /\ share' \in [Peer -> Tracks]
      /\ \A x \in Peer : share'[x] = "on" => share[x] = "on"
  BY StoppedType DEF ReceiveSync, TypeOK
<1>5. TypeOK'
  <2>1. chan' \in [Peer -> [Peer -> Seq(Wire)]]
    BY ArrivalType
  <2>2. QED
    BY <1>2, <1>3, <1>4, <2>1 DEF TypeOK
<1>6. DrainHolds' /\ NotStuck' /\ PacketInv' /\ CalmInv' /\ OutInv'
  BY <1>2, <1>3, <1>4, <1>5, ArrivesInv
<1>7. StampInv'
  BY <1>2, <1>3, <1>5, StampsKept
<1>8. LearnInv' /\ AgreeInv'
  BY <1>1 DEF LearnInv, AgreeInv
<1>9. ShareInv'
  BY <1>3, <1>4 DEF ShareInv, Shows
<1>10. QED
  BY <1>5, <1>6, <1>7, <1>8, <1>9

(* A request arrives: an owner answers with its stage. *)
LEMMA RequestArrivesInv ==
  ASSUME StageInv, NEW c \in Peer, NEW d \in Peer,
         chan[c][d] # <<>>, chan' = [chan EXCEPT ![c][d] = Tail(@)],
         Head(chan[c][d]).type = "request",
         conn[d] = "ready", ReceiveRequest(d),
         UNCHANGED <<conn, notice, pushing, latest, bounds>>
  PROVE  StageInv'
<1> USE DEF StageInv, bounds
<1> DEFINE w == Head(chan[c][d])
           v == SetMsg(stage[d])
<1>1. PubType /\ c # d /\ UNCHANGED <<stage, share, now, latest>>
  BY TypeParts DEF OutInv, ReceiveRequest
<1>2. Owns(d) => stage[d] \in Stage /\ v \in Wire /\ v.type = "set" /\ v.stage = stage[d]
  BY WireFacts DEF Owns, Holds, TypeOK
<1>3. IF Owns(d) THEN Publish(d, v) ELSE UNCHANGED publisher
  BY DEF ReceiveRequest
<1> HIDE DEF v
<1>4. /\ Drains(d) /\ NotStuck' /\ retry' = retry
      /\ Unsent(d)' = IF Owns(d) THEN Unsent(d) \union {v} ELSE Unsent(d)
  <2>1. CASE Owns(d)
    <3>1. Drains(d) /\ Served(d) /\ retry' = retry /\ Unsent(d)' = Unsent(d) \union {v}
      BY <1>1, <1>2, <1>3, <2>1, PublishSays
    <3>2. QED
      BY <2>1, <3>1, NotStuckKept
  <2>2. CASE ~Owns(d)
    <3>1. UNCHANGED publisher
      BY <1>3, <2>2
    <3>2. QED
      BY <1>1, <2>2, <3>1 DEF publisher, Drains, PubType, DrainHolds, Unsent, NotStuck
  <2>3. QED
    BY <2>1, <2>2
<1>5. /\ w \in OnTheWay(c, d) /\ w = Request
      /\ OnTheWay(c, d) = OnTheWay(c, d)' \union {w}
      /\ \A x, y \in Peer : x # d /\ ~(x = c /\ y = d) => OnTheWay(x, y)' = OnTheWay(x, y)
      /\ \A x, y \in Peer : ~(x = c /\ y = d) => chan'[x][y] = chan[x][y]
  <2>1. LET u == Head(chan[c][d])
        IN /\ u \in OnTheWay(c, d) /\ u \in Wire
           /\ c # d => OnTheWay(c, d) = OnTheWay(c, d)' \union {u}
           /\ \A x, y \in Peer :
                x # d /\ ~(x = c /\ y = d) => OnTheWay(x, y)' = OnTheWay(x, y)
           /\ \A y \in Peer : Unsent(d)' = Unsent(d) /\ c # d => OnTheWay(d, y)' = OnTheWay(d, y)
           /\ c # d => IF OnTheWay(c, d)' = {} THEN Final(c, d) = u
                                               ELSE Final(c, d)' = Final(c, d)
           /\ \A x, y \in Peer :
                x # d /\ ~(x = c /\ y = d) => Final(x, y)' = Final(x, y)
           /\ \A x, y \in Peer : ~(x = c /\ y = d) => chan'[x][y] = chan[x][y]
    BY <1>4, ArrivalTraffic
  <2>2. QED
    BY <1>1, <2>1, WireFacts
<1> HIDE DEF w
<1>6. \A y \in Peer : OnTheWay(d, y)' = IF Owns(d) THEN OnTheWay(d, y) \union {v} ELSE OnTheWay(d, y)
  BY <1>1, <1>4, <1>5 DEF OnTheWay
<1>7. trouble # {}
  BY <1>5 DEF CalmInv, Calm
<1>8. TypeOK' /\ DrainHolds'
  <2>1. chan' \in [Peer -> [Peer -> Seq(Wire)]]
    BY ArrivalType
  <2>2. RoomType'
    BY <1>1, <1>4, <2>1 DEF RoomType, TypeOK
  <2>3. QED
    BY <1>4, <2>2, NextTypeParts DEF Drains
<1>9. OutInv'
  <2>1. \A x \in Peer : chan'[x][x] = <<>>
    BY <1>1, <1>5 DEF OutInv
  <2>2. QED
    BY <1>1, <2>1 DEF OutInv
<1>10. PacketInv'
  <2>1. ASSUME NEW u, Owns(d), u = v PROVE Speaks(d, u)'
    <3>1. stage[d].owner = d /\ stage[d].at <= now'
      BY <1>1, <2>1 DEF StampInv, Owns, Holds
    <3>2. u.type = "set" /\ u.stage = stage[d]
      BY <1>2, <2>1
    <3>3. QED
      BY <3>1, <3>2 DEF Speaks
  <2>2. now <= now' /\ syncs <= syncs'
    BY <1>1, StageAssumption DEF TypeOK
  <2>3. \A x, y \in Peer : \A u \in OnTheWay(x, y)' : u \in OnTheWay(x, y) \/ Speaks(x, u)'
    <3> SUFFICES ASSUME NEW x \in Peer, NEW y \in Peer, NEW u \in OnTheWay(x, y)'
        PROVE u \in OnTheWay(x, y) \/ Speaks(x, u)'
      OBVIOUS
    <3>1. CASE x = d
      <4>1. u \in OnTheWay(d, y) \/ (Owns(d) /\ u = v)
        BY <1>6, <3>1
      <4>2. QED
        BY <2>1, <3>1, <4>1
    <3>2. CASE x # d
      BY <1>5, <3>2
    <3>3. QED
      BY <3>1, <3>2
  <2>4. QED
    BY <1>8, <2>2, <2>3, PacketsKept
<1>11. StampInv'
  BY <1>1 DEF StampInv, Owns
<1>12. LearnInv'
  <2> SUFFICES ASSUME syncs = 0, "drop" \notin trouble,
                      NEW x \in Peer, NEW y \in Peer, Owns(x), Owns(y), stage[x].at < stage[y].at
      PROVE Learns(x, y)'
    BY <1>1 DEF LearnInv, Owns
  <2>1. CASE x = c /\ y = d
    <3>1. v \in OnTheWay(d, c)' /\ v.type = "set" /\ v.stage = stage[d]
      BY <1>2, <1>6, <2>1
    <3>2. stage[d].at >= stage[c].at
      <4>1. stage[x].at \in Nat /\ stage[y].at \in Nat
        BY Past DEF Owns, Holds
      <4>2. QED
        BY <2>1, <4>1
    <3>3. QED
      BY <1>1, <2>1, <3>1, <3>2 DEF Learns, Sets
  <2>2. CASE ~(x = c /\ y = d)
    <3>1. Learns(x, y)
      BY DEF LearnInv
    <3>2. OnTheWay(x, y) \subseteq OnTheWay(x, y)'
      BY <1>5, <1>6, <2>2
    <3>3. w.type = "request" /\ \A z \in Peer, u \in Peer : OnTheWay(z, u) \subseteq OnTheWay(z, u)' \union {w}
      BY <1>5, <1>6, WireFacts
    <3>4. Sets(OnTheWay(y, x)) \subseteq Sets(OnTheWay(y, x)')
      BY <3>3 DEF Sets
    <3>5. QED
      BY <1>1, <3>1, <3>2, <3>4, LearnsKept
  <2>3. QED
    BY <2>1, <2>2
<1>13. CalmInv' /\ AgreeInv'
  BY <1>7 DEF CalmInv, AgreeInv
<1>14. ShareInv'
  BY <1>1 DEF ShareInv, Shows
<1>15. QED
  BY <1>4, <1>8, <1>9, <1>10, <1>11, <1>12, <1>13, <1>14

(* Each kind of packet keeps the invariant. *)
LEMMA ReceiveInv ==
  ASSUME StageInv, NEW c \in Peer, NEW d \in Peer, Receive(c, d)
  PROVE  StageInv'
<1> DEFINE w == Head(chan[c][d])
<1>1. /\ chan[c][d] # <<>> /\ conn[d] = "ready"
      /\ chan' = [chan EXCEPT ![c][d] = Tail(@)]
      /\ UNCHANGED <<conn, notice, pushing, latest, bounds>>
  BY DEF Receive
<1>2. UNCHANGED publisher => Arrives(c, d, w)
  BY <1>1, ArrivalSilent DEF StageInv, publisher
<1>3. CASE w.type = "set" /\ ReceiveSet(d, w.stage)
  <2>1. Arrives(c, d, w)
    BY <1>2, <1>3 DEF ReceiveSet
  <2> HIDE DEF w
  <2>2. QED
    BY <1>1, <1>3, <2>1, SetArrivesInv
<1>4. CASE w.type = "clear" /\ ReceiveClear(d, w.owner)
  <2>1. Arrives(c, d, w)
    BY <1>2, <1>4 DEF ReceiveClear
  <2> HIDE DEF w
  <2>2. QED
    BY <1>1, <1>4, <2>1, ClearArrivesInv
<1>5. CASE w.type = "sync" /\ ReceiveSync(d)
  <2>1. Arrives(c, d, w)
    BY <1>2, <1>5 DEF ReceiveSync
  <2> HIDE DEF w
  <2>2. QED
    BY <1>1, <1>5, <2>1, SyncArrivesInv
<1>6. CASE w.type = "request" /\ ReceiveRequest(d)
  BY <1>1, <1>6, RequestArrivesInv
<1>7. QED
  BY <1>3, <1>4, <1>5, <1>6 DEF Receive

-----------------------------------------------------------------------------
(* The theorems *)

(* Nothing is on stage and nothing under way to begin with. *)
LEMMA InitInv == Init => StageInv
<1> SUFFICES ASSUME Init PROVE StageInv
  OBVIOUS
<1> USE DEF Init
<1>1. TypeOK
  BY StageAssumption DEF TypeOK, Tracks
<1>2. DrainHolds /\ NotStuck
  BY DEF DrainHolds, NotStuck
<1>3. OutInv
  BY DEF OutInv
<1>4. \A p, q \in Peer : OnTheWay(p, q) = {}
  BY DEF OnTheWay, Unsent, ToSet
<1>5. PacketInv
  BY <1>4 DEF PacketInv
<1>6. \A p \in Peer : ~Owns(p) /\ stage[p] = NoStage
  BY DEF Owns, Holds
<1>7. StampInv /\ LearnInv /\ AgreeInv
  BY <1>6 DEF StampInv, LearnInv, AgreeInv
<1>8. ShareInv
  BY <1>6 DEF ShareInv
<1>9. CalmInv
  <2>1. Len(<<>>) = 0
    OBVIOUS
  <2>2. QED
    BY <1>4, <2>1 DEF CalmInv, Calm
<1>10. QED
  BY <1>1, <1>2, <1>3, <1>5, <1>7, <1>8, <1>9 DEF StageInv

(* The invariant behind the properties of the stage (MeetingStageContext,  *)
(* every handler): claims keep apart, an owner with an older stage learns  *)
(* of the later one, and without trouble the last word of an owner is on   *)
(* its way to everybody or has reached them.                               *)
THEOREM StageInvariance == Spec => []StageInv
<1>1. Init => StageInv
  BY InitInv
<1>2. StageInv /\ [Next]_vars => StageInv'
  <2> SUFFICES ASSUME StageInv, [Next]_vars PROVE StageInv'
    OBVIOUS
  <2>1. ASSUME NEW p \in Peer, NEW k \in Kind, Claim(p, k) PROVE StageInv'
    BY <2>1, ClaimInv
  <2>2. ASSUME NEW p \in Peer, Clear(p) PROVE StageInv'
    BY <2>2, ClearInv
  <2>3. ASSUME NEW p \in Peer, StartShare(p) PROVE StageInv'
    BY <2>3, StartShareInv
  <2>4. ASSUME NEW p \in Peer, ShareStarts(p) PROVE StageInv'
    BY <2>4, ShareStartsInv
  <2>5. ASSUME NEW p \in Peer, ShareFails(p) PROVE StageInv'
    BY <2>5, ShareFailsInv
  <2>6. ASSUME NEW p \in Peer, StopShare(p) PROVE StageInv'
    BY <2>6, StopShareInv
  <2>7. ASSUME NEW p \in Peer, SyncPlayhead(p) PROVE StageInv'
    BY <2>7, SyncPlayheadInv
  <2>8. ASSUME NEW p \in Peer, Sent(p) PROVE StageInv'
    BY <2>8, SentInv
  <2>9. ASSUME NEW p \in Peer, SendUnavailable(p) PROVE StageInv'
    BY <2>9, SendUnavailableInv
  <2>10. ASSUME NEW p \in Peer, SendDropped(p) PROVE StageInv'
    BY <2>10, SendDroppedInv
  <2>11. ASSUME NEW p \in Peer, DrainRetry(p) PROVE StageInv'
    BY <2>11, DrainRetryInv
  <2>12. ASSUME NEW p \in Peer, PushDue(p) PROVE StageInv'
    BY <2>12, PushDueInv
  <2>13. ASSUME NEW p \in Peer, TrackEnds(p) PROVE StageInv'
    BY <2>13, TrackEndsInv
  <2>14. ASSUME NEW p \in Peer, Notice(p) PROVE StageInv'
    BY <2>14, NoticeInv
  <2>15. ASSUME NEW p \in Peer, Join(p) PROVE StageInv'
    BY <2>15, JoinInv
  <2>16. ASSUME NEW p \in Peer, Leave(p) PROVE StageInv'
    BY <2>16, LeaveInv
  <2>17. ASSUME NEW p \in Peer, Interrupt(p) PROVE StageInv'
    BY <2>17, InterruptInv
  <2>18. ASSUME NEW p \in Peer, Ready(p) PROVE StageInv'
    BY <2>18, ReadyInv
  <2>19. ASSUME NEW p \in Peer, NEW q \in Peer, Receive(p, q) PROVE StageInv'
    BY <2>19, ReceiveInv
  <2>20. CASE UNCHANGED vars
    <3>1. UNCHANGED <<stage, conn, publisher, chan, notice, pushing, now, bounds>> /\ share' = share
          /\ latest' = latest
      BY <2>20 DEF vars
    <3>2. share' \in [Peer -> Tracks] /\ latest' \in Peer \union {NoPeer}
      BY <3>1 DEF StageInv, TypeOK
    <3>3. Core'
      BY <3>1, <3>2, IdleInv
    <3>4. ShareInv'
      BY <3>1 DEF StageInv, ShareInv, Shows
    <3>5. QED
      BY <3>3, <3>4, NextCoreParts
  <2>21. QED
    BY <2>1, <2>2, <2>3, <2>4, <2>5, <2>6, <2>7, <2>8, <2>9, <2>10, <2>11, <2>12, <2>13,
       <2>14, <2>15, <2>16, <2>17, <2>18, <2>19, <2>20 DEF Next
<1>3. QED
  BY <1>1, <1>2, PTL DEF Spec

-----------------------------------------------------------------------------
(* The newest claim *)

(* Nothing else is said, and nothing newer is shown. *)
LEMMA LatestKept ==
  ASSUME LatestInv, latest' \in {latest, NoPeer},
         trouble' = {} => trouble = {}, syncs' = 0 => syncs = 0,
         latest' # NoPeer => stage'[latest] = stage[latest],
         \A x \in Peer : stage'[x] \in {stage[x], NoStage},
         \A x \in Peer \ {latest}, y \in Peer : Sets(OnTheWay(x, y)') \subseteq Sets(OnTheWay(x, y))
  PROVE  LatestInv'
BY DEF LatestInv, Owns

(* Nothing is said about a stage. *)
LEMMA LatestSilent ==
  ASSUME LatestInv, Silence, UNCHANGED <<stage, latest, bounds>>
  PROVE  LatestInv'
<1>1. \A x, y \in Peer : Sets(OnTheWay(x, y)') = Sets(OnTheWay(x, y))
  BY DEF Silence
<1>2. QED
  BY <1>1, LatestKept DEF bounds

(* A claim is newer than all that is shown and under way. *)
LEMMA LatestClaimed ==
  ASSUME StageInv, LatestInv, NEW p \in Peer, NEW k \in Kind, Claimed(p, k),
         UNCHANGED <<conn, chan, notice, pushing, bounds>>
  PROVE  LatestInv'
<1> USE DEF StageInv
<1> DEFINE s == [owner |-> p, kind |-> k, at |-> now + 1]
<1>1. s \in Stage /\ s.owner = p /\ s.at = now + 1 /\ now' = now + 1 /\ s # NoStage
  BY FreshStage, StageAssumption DEF Claimed
<1>2. stage' = [stage EXCEPT ![p] = s] /\ Publish(p, SetMsg(s)) /\ latest' = p
  BY <1>1 DEF Claimed
<1> HIDE DEF s
<1>3. stage'[p] = s /\ \A x \in Peer \ {p} : stage'[x] = stage[x]
  BY <1>2 DEF TypeOK
<1>4. SetMsg(s) \in Wire
  BY <1>1, WireFacts
<1>5. Drains(p)
  BY <1>2, <1>4, TypeParts, PublishSays
<1>6. \A x, y \in Peer : x # p => OnTheWay(x, y)' = OnTheWay(x, y)
  BY <1>5 DEF Drains, OnTheWay, Unsent
<1>7. \A x \in Peer : stage[x] # NoStage => stage[x].at < now + 1
  BY Past
<1>8. \A x, y \in Peer : \A w \in Sets(OnTheWay(x, y)) : w.stage.at < now + 1
  BY Past
<1>9. Owns(p)'
  BY <1>1, <1>3 DEF Owns, Holds
<1>10. \A x \in Peer : stage'[x] # NoStage /\ stage'[x].owner # p => stage'[x].at < now + 1
  BY <1>1, <1>3, <1>7
<1>11. \A x \in Peer \ {p}, y \in Peer : \A w \in Sets(OnTheWay(x, y)') : w.stage.at < now + 1
  BY <1>6, <1>8
<1>12. QED
  BY <1>1, <1>2, <1>3, <1>9, <1>10, <1>11 DEF LatestInv

(* A release gives the own claim up, and no other. *)
LEMMA LatestCleared ==
  ASSUME StageInv, LatestInv, NEW p \in Peer, Cleared(p), UNCHANGED <<chan, bounds>>
  PROVE  LatestInv'
<1> USE DEF StageInv
<1>1. CASE Owns(p)
  <2>1. /\ stage' = [stage EXCEPT ![p] = NoStage] /\ latest' = Disowned(p)
        /\ Publish(p, ClearMsg(p))
    BY <1>1 DEF Cleared
  <2>2. ClearMsg(p) \in Wire /\ ClearMsg(p).type = "clear"
    BY WireFacts
  <2>3. Drains(p) /\ Unsent(p)' = Unsent(p) \union {ClearMsg(p)}
    BY <2>1, <2>2, TypeParts, PublishSays
  <2>4. Speech(p, {ClearMsg(p)})
    BY <2>3, SpeechTraffic
  <2>5. \A x, y \in Peer : Sets(OnTheWay(x, y)') \subseteq Sets(OnTheWay(x, y))
    BY <2>2, <2>4 DEF Speech, Sets
  <2>6. /\ \A x \in Peer : stage'[x] \in {stage[x], NoStage}
        /\ latest' # NoPeer => latest' = latest /\ latest # p /\ stage'[latest] = stage[latest]
    BY <2>1 DEF TypeOK, Disowned
  <2>7. latest' \in {latest, NoPeer}
    BY <2>1 DEF Disowned
  <2>8. QED
    BY <2>5, <2>6, <2>7, LatestKept DEF bounds
<1>2. CASE ~Owns(p)
  <2>1. UNCHANGED <<stage, publisher, latest>>
    BY <1>2 DEF Cleared
  <2>2. Silence
    BY <2>1, SilentTraffic DEF publisher
  <2>3. QED
    BY <2>1, <2>2, LatestSilent
<1>3. QED
  BY <1>1, <1>2

(* The owner's new stamp is its own, or there is no newest claim any more. *)
LEMMA LatestShareStarts ==
  ASSUME StageInv, LatestInv, NEW p \in Peer, ShareStarts(p)
  PROVE  LatestInv'
<1> USE DEF StageInv
<1>1. CASE Owns(p) /\ Shows(p, "screenshare")
  <2>1. /\ now < MaxStamps /\ UNCHANGED <<stage, chan, bounds>>
        /\ latest' = IF latest = p THEN p ELSE NoPeer
        /\ Publish(p, SetMsg(Restamped(stage[p])))
    BY <1>1 DEF ShareStarts, Stamp
  <2>2. stage[p] \in Stage /\ now \in Nat /\ now + 1 \in 1..MaxStamps
    BY <1>1, <2>1, StageAssumption DEF TypeOK, Shows
  <2>3. Restamped(stage[p]) \in Stage
    BY <2>2, StageFacts DEF Restamped
  <2>4. SetMsg(Restamped(stage[p])) \in Wire
    BY <2>3, WireFacts
  <2>5. Drains(p)
    BY <2>1, <2>4, TypeParts, PublishSays
  <2>6. \A x, y \in Peer : x # p => OnTheWay(x, y)' = OnTheWay(x, y)
    BY <2>1, <2>5 DEF Drains, OnTheWay, Unsent
  <2>7. CASE latest = p
    BY <2>1, <2>6, <2>7, LatestKept DEF bounds
  <2>8. CASE latest # p
    BY <2>1, <2>8 DEF LatestInv
  <2>9. QED
    BY <2>7, <2>8
<1>2. CASE ~(Owns(p) /\ Shows(p, "screenshare"))
  <2>1. UNCHANGED <<stage, publisher, chan, latest, bounds>>
    BY <1>2 DEF ShareStarts
  <2>2. Silence
    BY <2>1, SilentTraffic DEF publisher
  <2>3. QED
    BY <2>1, <2>2, LatestSilent
<1>3. QED
  BY <1>1, <1>2

(* A stage that arrives is the newest claim's, or an older one. *)
LEMMA LatestSetArrives ==
  ASSUME StageInv, LatestInv, NEW c \in Peer, NEW d \in Peer, NEW w, Arrives(c, d, w),
         w.type = "set", ReceiveSet(d, w.stage), UNCHANGED <<latest, bounds>>
  PROVE  LatestInv'
<1> USE DEF StageInv
<1> DEFINE s == w.stage
<1> SUFFICES ASSUME latest # NoPeer, trouble = {}, syncs = 0
    PROVE LatestInv'
  BY DEF LatestInv, bounds
<1>1. /\ Owns(latest) /\ latest \in Peer /\ stage[latest] # NoStage
      /\ \A x \in Peer : stage[x] # NoStage /\ stage[x].owner # latest => stage[x].at < stage[latest].at
      /\ \A x \in Peer \ {latest}, y \in Peer : \A v \in Sets(OnTheWay(x, y)) :
           v.stage.at < stage[latest].at
  BY DEF LatestInv, Owns, Holds, TypeOK
<1>2. w \in Sets(OnTheWay(c, d)) /\ c # d
  BY DEF Arrives, Sets
<1>3. s.owner = c /\ s.at \in Nat /\ stage[latest].at \in Nat
  BY <1>1, <1>2, Past
<1>4. /\ stage'[d] = IF Takes(d, s) THEN s ELSE stage[d]
      /\ \A x \in Peer \ {d} : stage'[x] = stage[x]
  BY DEF ReceiveSet, TypeOK
<1>5. c # latest => s.at < stage[latest].at
  BY <1>1, <1>2
<1> HIDE DEF s
<1>6. stage'[latest] = stage[latest]
  <2>1. CASE d = latest
    BY <1>1, <1>2, <1>3, <1>4, <1>5, <2>1 DEF Takes
  <2>2. CASE d # latest
    BY <1>1, <1>4, <2>2
  <2>3. QED
    BY <2>1, <2>2
<1>7. \A x \in Peer : stage'[x] # NoStage /\ stage'[x].owner # latest => stage'[x].at < stage[latest].at
  BY <1>1, <1>3, <1>4, <1>5
<1>8. \A x, y \in Peer : Sets(OnTheWay(x, y)') \subseteq Sets(OnTheWay(x, y))
  BY DEF Arrives, Sets
<1>9. QED
  BY <1>1, <1>6, <1>7, <1>8 DEF LatestInv, Owns

(* A release that arrives is of somebody else's stage. *)
LEMMA LatestClearArrives ==
  ASSUME StageInv, LatestInv, NEW c \in Peer, NEW d \in Peer, NEW w, Arrives(c, d, w),
         w.type = "clear", ReceiveClear(d, w.owner), UNCHANGED <<latest, bounds>>
  PROVE  LatestInv'
<1> USE DEF StageInv
<1> SUFFICES ASSUME latest # NoPeer, trouble = {}, syncs = 0
    PROVE LatestInv'
  BY DEF LatestInv, bounds
<1>1. Owns(latest) /\ latest \in Peer
  BY DEF LatestInv, TypeOK
<1>2. w.owner = c /\ c # d
  BY DEF Arrives, PacketInv, Speaks
<1>3. \A x \in Peer : /\ stage'[x] \in {stage[x], NoStage}
                      /\ Holds(stage[x], x) => stage'[x] = stage[x]
  BY <1>2 DEF ReceiveClear, TypeOK, Holds
<1>4. stage'[latest] = stage[latest]
  BY <1>1, <1>3 DEF Owns
<1>5. \A x, y \in Peer : Sets(OnTheWay(x, y)') \subseteq Sets(OnTheWay(x, y))
  BY DEF Arrives, Sets
<1>6. QED
  BY <1>3, <1>4, <1>5, LatestKept DEF bounds

(* What arrives keeps the newest claim. *)
LEMMA LatestReceive ==
  ASSUME StageInv, LatestInv, NEW c \in Peer, NEW d \in Peer, Receive(c, d)
  PROVE  LatestInv'
<1> DEFINE w == Head(chan[c][d])
<1>1. /\ chan[c][d] # <<>>
      /\ chan' = [chan EXCEPT ![c][d] = Tail(@)]
      /\ UNCHANGED <<latest, bounds>>
  BY DEF Receive
<1>2. UNCHANGED publisher => Arrives(c, d, w)
  BY <1>1, ArrivalSilent DEF StageInv, publisher
<1>3. w \in Sets(OnTheWay(c, d)) \/ w \in OnTheWay(c, d)
  <2>1. chan[c][d] \in Seq(Wire)
    BY DEF StageInv, TypeOK
  <2>2. w \in ToSet(chan[c][d])
    BY <1>1, <2>1, HeadTailSet
  <2>3. QED
    BY <2>2 DEF OnTheWay
<1>4. CASE w.type = "set" /\ ReceiveSet(d, w.stage)
  <2>1. Arrives(c, d, w)
    BY <1>2, <1>4 DEF ReceiveSet
  <2> HIDE DEF w
  <2>2. QED
    BY <1>1, <1>4, <2>1, LatestSetArrives
<1>5. CASE w.type = "clear" /\ ReceiveClear(d, w.owner)
  <2>1. Arrives(c, d, w)
    BY <1>2, <1>5 DEF ReceiveClear
  <2> HIDE DEF w
  <2>2. QED
    BY <1>1, <1>5, <2>1, LatestClearArrives
<1>6. CASE w.type = "sync"
  <2>1. syncs > 0
    BY <1>3, <1>6 DEF StageInv, PacketInv, Speaks, Sets
  <2>2. QED
    BY <1>1, <2>1 DEF LatestInv, bounds
<1>7. CASE w.type = "request"
  <2>1. w \in Wire
    BY <1>3, TrafficType DEF StageInv, Sets
  <2>2. w = Request
    BY <1>7, <2>1, WireFacts
  <2>3. trouble # {}
    BY <1>3, <2>2 DEF StageInv, CalmInv, Calm, Sets
  <2>4. QED
    BY <1>1, <2>3 DEF LatestInv, bounds
<1>8. QED
  BY <1>4, <1>5, <1>6, <1>7 DEF Receive

(* As long as nothing goes wrong and no playhead moves, who made the       *)
(* newest claim owns the stage, and whatever of others' is shown or under  *)
(* way is older: no claim is lost in the queue, and none comes back        *)
(* (claimStage, applyRemoteStage).  A screen published anew ends this, if  *)
(* it is not the newest claimant's own.                                    *)
THEOREM NewestClaimStands == Spec => []LatestInv
<1>1. Init => LatestInv
  BY DEF Init, LatestInv
<1>2. StageInv /\ LatestInv /\ [Next]_vars => LatestInv'
  <2> SUFFICES ASSUME StageInv, LatestInv, [Next]_vars PROVE LatestInv'
    OBVIOUS
  <2>1. ASSUME NEW p \in Peer, NEW k \in Kind, Claim(p, k) PROVE LatestInv'
    BY <2>1, LatestClaimed DEF Claim
  <2>2. ASSUME NEW p \in Peer, Clear(p) PROVE LatestInv'
    BY <2>2, LatestCleared DEF Clear
  <2>3. ASSUME NEW p \in Peer, StartShare(p) PROVE LatestInv'
    BY <2>3, LatestClaimed DEF StartShare
  <2>4. ASSUME NEW p \in Peer, ShareStarts(p) PROVE LatestInv'
    BY <2>4, LatestShareStarts
  <2>5. ASSUME NEW p \in Peer, ShareFails(p) PROVE LatestInv'
    BY <2>5, LatestCleared DEF ShareFails
  <2>6. ASSUME NEW p \in Peer, StopShare(p) PROVE LatestInv'
    <3>1. UNCHANGED <<stage, publisher, chan, latest, bounds>>
      BY <2>6 DEF StopShare
    <3>2. QED
      BY <3>1, SilentTraffic, LatestSilent DEF publisher
  <2>7. ASSUME NEW p \in Peer, SyncPlayhead(p) PROVE LatestInv'
    <3>1. syncs' # 0
      BY <2>7, StageAssumption DEF SyncPlayhead, StageInv, TypeOK
    <3>2. QED
      BY <3>1 DEF LatestInv
  <2>8. ASSUME NEW p \in Peer, Sent(p) PROVE LatestInv'
    <3>1. ASSUME NEW x \in Peer, NEW y \in Peer PROVE OnTheWay(x, y)' \subseteq OnTheWay(x, y)
      BY <2>8, SentTraffic
    <3>2. \A x, y \in Peer : Sets(OnTheWay(x, y)') \subseteq Sets(OnTheWay(x, y))
      BY <3>1 DEF Sets
    <3>3. UNCHANGED <<stage, latest, bounds>>
      BY <2>8 DEF Sent
    <3>4. QED
      BY <3>2, <3>3, LatestKept DEF bounds
  <2>9. ASSUME NEW p \in Peer, SendUnavailable(p) \/ SendDropped(p) PROVE LatestInv'
    <3>1. trouble' # {}
      BY <2>9 DEF SendUnavailable, SendDropped, Goes
    <3>2. QED
      BY <3>1 DEF LatestInv
  <2>10. ASSUME NEW p \in Peer, Leave(p) \/ Interrupt(p) PROVE LatestInv'
    <3>1. trouble' # {}
      BY <2>10 DEF Leave, Interrupt, Goes
    <3>2. QED
      BY <3>1 DEF LatestInv
  <2>11. ASSUME NEW p \in Peer, DrainRetry(p) \/ PushDue(p) \/ Notice(p) \/ Join(p) \/ Ready(p)
         PROVE  LatestInv'
    <3>1. trouble # {}
      BY <2>11, Troubled DEF DrainRetry, PushDue, Notice, Join, Ready
    <3>2. trouble' = trouble
      BY <2>11 DEF DrainRetry, PushDue, Notice, Join, Ready, bounds
    <3>3. QED
      BY <3>1, <3>2 DEF LatestInv
  <2>12. ASSUME NEW p \in Peer, TrackEnds(p) PROVE LatestInv'
    <3>1. CASE Cleared(p)
      BY <2>12, <3>1, LatestCleared DEF TrackEnds
    <3>2. CASE ~Cleared(p)
      <4>1. UNCHANGED <<stage, publisher, chan, latest, bounds>>
        BY <2>12, <3>2 DEF TrackEnds
      <4>2. QED
        BY <4>1, SilentTraffic, LatestSilent DEF publisher
    <3>3. QED
      BY <3>1, <3>2
  <2>13. ASSUME NEW p \in Peer, NEW q \in Peer, Receive(p, q) PROVE LatestInv'
    BY <2>13, LatestReceive
  <2>14. CASE UNCHANGED vars
    <3>1. UNCHANGED <<stage, publisher, chan, latest, bounds>>
      BY <2>14 DEF vars
    <3>2. QED
      BY <3>1, SilentTraffic, LatestSilent DEF publisher
  <2>15. QED
    BY <2>1, <2>2, <2>3, <2>4, <2>5, <2>6, <2>7, <2>8, <2>9, <2>10, <2>11, <2>12, <2>13, <2>14
       DEF Next
<1>3. QED
  BY <1>1, <1>2, StageInvariance, PTL DEF Spec

-----------------------------------------------------------------------------
(* The properties *)

(* The stage of every participant is a stage, every packet a packet, and   *)
(* what is counted stays within its bounds.                                *)
THEOREM StageTypeCorrect == Spec => []TypeOK
<1>1. StageInv => TypeOK
  BY DEF StageInv
<1>2. QED
  BY <1>1, StageInvariance, PTL

(* A packet that waits with an open transport has a drain or a timer that  *)
(* sends it, through interruptions and failures (drainPublishQueue).       *)
THEOREM StagePacketsAreServed == Spec => []NotStuck
<1>1. StageInv => NotStuck
  BY DEF StageInv
<1>2. QED
  BY <1>1, StageInvariance, PTL

(* A screen that started under a screen stage or none is shared under such *)
(* a stage only: whatever shows another kind stops the track               *)
(* (stopLocalScreenShare).  One that starts late is not covered.           *)
THEOREM ScreensAreOnStage == Spec => []ScreenOnStage
<1>1. StageInv => ScreenOnStage
  BY DEF StageInv, ShareInv, ScreenOnStage
<1>2. QED
  BY <1>1, StageInvariance, PTL

(* When everything has arrived, nothing is under way. *)
LEMMA QuietTraffic ==
  ASSUME Quiet, NEW p \in Peer, NEW q \in Peer
  PROVE  OnTheWay(p, q) = {} /\ conn[p] # "closed"
<1>1. queue[p] = <<>> /\ sending[p] = <<>> /\ chan[p][q] = <<>> /\ conn[p] # "closed"
  BY DEF Quiet
<1>2. ToSet(<<>>) = {}
  BY DEF ToSet
<1>3. QED
  BY <1>1, <1>2 DEF OnTheWay, Unsent

(* When everything has arrived at most one participant takes itself for    *)
(* the owner: of two, the one with the older stage would still have to     *)
(* learn of the other's (claimStage, applyRemoteStage).                    *)
THEOREM OwnersAreOne == Spec => []OneOwner
<1>1. StageInv => OneOwner
  <2> SUFFICES ASSUME StageInv, Quiet, syncs = 0, "drop" \notin trouble
      PROVE Cardinality(Owners) <= 1
    BY DEF OneOwner
  <2>1. ASSUME NEW p \in Peer, NEW q \in Peer, Owns(p), Owns(q), stage[p].at < stage[q].at
        PROVE  FALSE
    <3>1. Learns(p, q)
      BY <2>1 DEF StageInv, LearnInv
    <3>2. OnTheWay(p, q) = {} /\ OnTheWay(q, p) = {} /\ conn[p] # "closed" /\ conn[q] # "closed"
      BY QuietTraffic
    <3>3. QED
      BY <3>1, <3>2 DEF Learns, Sets
  <2>2. ASSUME NEW p \in Owners, NEW q \in Owners
        PROVE  p = q
    <3>1. p \in Peer /\ q \in Peer /\ Owns(p) /\ Owns(q)
      BY DEF Owners
    <3>2. stage[p].at \in Nat /\ stage[q].at \in Nat
      BY <3>1, Past DEF Owns, Holds, StageInv
    <3>3. stage[p].at = stage[q].at
      BY <2>1, <3>1, <3>2
    <3>4. QED
      BY <3>1, <3>3 DEF StageInv, StampInv
  <2>3. CASE Owners = {}
    BY <2>3, FS_EmptySet
  <2>4. CASE Owners # {}
    <3>1. PICK p \in Owners : TRUE
      BY <2>4
    <3>2. Owners = {p}
      BY <2>2, <3>1
    <3>3. Cardinality({p}) = 1
      BY FS_Singleton
    <3>4. QED
      BY <3>2, <3>3
  <2>5. QED
    BY <2>3, <2>4
<1>2. QED
  BY <1>1, StageInvariance, PTL

(* Without trouble, when everything has arrived, the newest claim stands   *)
(* and everybody shows what the owner put on stage: its last word has      *)
(* reached them, and nothing that would take its place is under way.       *)
THEOREM OwnersAreShown == Spec => []Agreed
<1>1. ASSUME StageInv, Quiet, syncs = 0, trouble = {}, NEW p \in Owners, NEW q \in Peer
      PROVE  Holds(stage[q], p) /\ stage[q].kind = stage[p].kind
  <2>1. p \in Peer /\ Owns(p)
    BY DEF Owners
  <2>2. CASE q = p
    BY <2>1, <2>2 DEF Owns
  <2>3. CASE q # p
    <3>1. ~Overtaken(p)
      BY <1>1, <2>1, QuietTraffic DEF Overtaken, Sets
    <3>2. Reaches(p, q)
      BY <1>1, <2>1, <2>3, <3>1 DEF StageInv, AgreeInv
    <3>3. QED
      BY <1>1, <2>1, <3>2, QuietTraffic DEF Reaches
  <2>4. QED
    BY <2>2, <2>3
<1>2. StageInv /\ LatestInv => Agreed
  BY <1>1 DEF Agreed, LatestInv
<1>3. QED
  BY <1>2, StageInvariance, NewestClaimStands, PTL
=============================================================================
