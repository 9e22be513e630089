-------------------------- MODULE MeetingChatProofs --------------------------
(***************************************************************************)
(* Proofs about MeetingChat, for any participants, messages and numbers of *)
(* chunks: however publishes overlap, fail, start over and are repeated    *)
(* after an interruption, and wherever the page is loaded anew, nobody is  *)
(* shown a message twice, a message that is shown is whole, one that its   *)
(* author sees as sent is shown by everybody who missed nothing, and       *)
(* without trouble the votes settle.                                       *)
(*                                                                         *)
(* The first needs that an author's own packets never come back to it (its *)
(* local echo is the only way it shows the message), the second that the   *)
(* chunks counted in a buffer are different chunks of that message.        *)
(* Neither depends on what the retry loop has selected.  The rest is       *)
(* proved on top of them: the types of the retry loop, what somebody who   *)
(* missed nothing holds of a message in the channel and the buffer, and    *)
(* how a vote on its way relates to the voter's last one.                  *)
(***************************************************************************)
EXTENDS MeetingChat, FilterProofs, TLAPS, FiniteSetTheorems

-----------------------------------------------------------------------------
(* Types *)

Statuses == {"unsent", "sending", "sent", "failed", "none"}

PublishType ==
  /\ status \in [Msg -> Statuses]
  /\ pub \in [Msg \X Way -> Run]
  /\ snap \in [Msg -> Voters]

LogType ==
  /\ log \in [Peer -> Seq(Msg)]
  /\ pieces \in [Peer -> [Msg -> SUBSET Nat]]

BufferType == buffers \in [Peer -> [Msg -> Pending \union {None}]]

VoteType == votes \in [Peer -> [Msg -> Voters]]

ChanType == chan \in [Peer -> [Peer -> Seq(Wire)]]

ChatType == PublishType /\ LogType /\ BufferType /\ VoteType /\ ChanType

ProofInv == ChatType /\ ChatInv

-----------------------------------------------------------------------------
(* Sequences *)

(* What is appended to a log is shown, and nothing else is new. *)
LEMMA AppendShows ==
  ASSUME NEW s \in Seq(Msg), NEW m \in Msg
  PROVE  /\ Append(s, m) \in Seq(Msg)
         /\ ToSet(Append(s, m)) = ToSet(s) \union {m}
         /\ IsInjective(s) /\ m \notin ToSet(s) => IsInjective(Append(s, m))
<1> DEFINE t == Append(s, m)
<1>1. /\ t \in Seq(Msg) /\ Len(s) \in Nat /\ Len(t) = Len(s) + 1
      /\ DOMAIN s = 1..Len(s) /\ DOMAIN t = 1..Len(t)
      /\ \A i \in 1..Len(s) : t[i] = s[i]
      /\ t[Len(t)] = m
  OBVIOUS
<1> HIDE DEF t
<1>2. ToSet(t) = ToSet(s) \union {m}
  BY <1>1 DEF ToSet
<1>3. ASSUME IsInjective(s), m \notin ToSet(s) PROVE IsInjective(t)
  BY <1>1, <1>3 DEF ToSet, IsInjective
<1>4. QED
  BY <1>1, <1>2, <1>3 DEF t
-----------------------------------------------------------------------------
(* Publishing *)

(* Publishes stay within their messages, and no message is unsent again. *)
PublishKeeps ==
  /\ status' \in [Msg -> Statuses] /\ pub' \in [Msg \X Way -> Run]
  /\ PublishInv'
  /\ \A m \in Msg : status[m] # "unsent" => status'[m] # "unsent"

(* A publish begins with the first packet. *)
LEMMA RunTypes ==
  /\ Idle \in Run /\ Idle.part = 0
  /\ \A n \in 0..1 : Trying(n) \in Run /\ Trying(n).part = 0
  /\ \A p \in Peer : Started(p) \in Run /\ Started(p).part = 0
BY DEF Idle, Trying, Started, Run

(* So does the next one of the retry loop, whatever it has selected. *)
LEMMA RetryFromKeeps ==
  ASSUME NEW p \in Peer, NEW rest,
         NEW st \in [Msg -> Statuses], NEW runs \in [Msg \X Way -> Run],
         \A r \in Msg \X Way : runs[r].part <= Chunks[r[1]],
         \A m \in Msg : status[m] # "unsent" => st[m] # "unsent",
         RetryFrom(p, rest, st, runs)
  PROVE  PublishKeeps
<1>1. CASE rest = <<>> \/ conn[p] = "dead"
  <2>1. /\ status' = [m \in Msg |-> IF m \in ToSet(rest) THEN "failed" ELSE st[m]]
        /\ pub' = runs
    BY <1>1 DEF RetryFrom
  <2>2. QED
    BY <2>1 DEF PublishKeeps, PublishInv, Statuses
<1>2. CASE ~(rest = <<>> \/ conn[p] = "dead")
  <2> DEFINE h == Head(rest)
             k == <<h, "retry">>
  <2>1. /\ status' = [st EXCEPT ![h] = "sending"]
        /\ pub' = [runs EXCEPT ![k] = Started(p)]
    BY <1>2 DEF RetryFrom
  <2> HIDE DEF h, k
  <2>2. \A r \in Msg \X Way : Chunks[r[1]] \in Nat
    BY ChatAssumption
  <2>3. pub' \in [Msg \X Way -> Run]
    BY <2>1, RunTypes
  <2>4. ASSUME NEW r \in Msg \X Way PROVE pub'[r].part <= Chunks[r[1]]
    <3>1. pub'[r] = runs[r] \/ pub'[r] = Started(p)
      BY <2>1
    <3>2. Started(p).part = 0
      BY RunTypes
    <3>3. QED
      BY <2>2, <3>1, <3>2
  <2>5. QED
    BY <2>1, <2>3, <2>4 DEF PublishKeeps, PublishInv, Statuses
<1>3. QED
  BY <1>1, <1>2

(* The end of a publish. *)
LEMMA EndsKeeps ==
  ASSUME PublishType, PublishInv, NEW m \in Msg, NEW w \in Way,
         NEW s \in Statuses \ {"unsent"}, Ends(m, w, s)
  PROVE  PublishKeeps
<1> DEFINE st == [status EXCEPT ![m] = s]
           k == <<m, w>>
           runs == [pub EXCEPT ![k] = Idle]
<1>1. st \in [Msg -> Statuses] /\ \A x \in Msg : status[x] # "unsent" => st[x] # "unsent"
  BY DEF PublishType
<1>2. runs \in [Msg \X Way -> Run]
  BY RunTypes DEF PublishType
<1>3. \A r \in Msg \X Way : Chunks[r[1]] \in Nat
  BY ChatAssumption
<1>4. \A r \in Msg \X Way : runs[r].part <= Chunks[r[1]]
  BY <1>3, RunTypes DEF PublishType, PublishInv
<1>5. Author[m] \in Peer
  BY ChatAssumption
<1>6. \/ RetryFrom(Author[m], Tail(retrying[Author[m]]), st, runs)
      \/ status' = st /\ pub' = runs
  BY DEF Ends
<1> HIDE DEF st, runs, k
<1>7. CASE RetryFrom(Author[m], Tail(retrying[Author[m]]), st, runs)
  BY <1>1, <1>2, <1>4, <1>5, <1>7, RetryFromKeeps
<1>8. CASE status' = st /\ pub' = runs
  BY <1>1, <1>2, <1>4, <1>8 DEF PublishKeeps, PublishInv
<1>9. QED
  BY <1>6, <1>7, <1>8

(* The progress of a publish. *)
LEMMA ProceedsKeeps ==
  ASSUME PublishType, PublishInv, NEW m \in Msg, NEW w \in Way,
         NEW run \in Run, run.part <= Chunks[m], Proceeds(m, w, run)
  PROVE  PublishKeeps
<1> DEFINE k == <<m, w>>
<1>1. k \in Msg \X Way /\ k[1] = m
  OBVIOUS
<1>2. pub' = [pub EXCEPT ![k] = run] /\ status' = status
  BY DEF Proceeds
<1> HIDE DEF k
<1>3. QED
  BY <1>1, <1>2 DEF PublishType, PublishInv, PublishKeeps

(* A step that publishes and shows nothing keeps the invariant. *)
LEMMA PublishStep ==
  ASSUME ProofInv, PublishKeeps, snap' \in [Msg -> Voters],
         UNCHANGED <<log, pieces, buffers>>, VoteType', ChanType', PacketInv'
  PROVE  ProofInv'
<1> USE DEF ProofInv, ChatType, ChatInv
<1>1. PublishType' /\ PublishInv'
  BY DEF PublishKeeps, PublishType
<1>2. LogType' /\ BufferType'
  BY DEF LogType, BufferType
<1>3. EchoInv'
  BY ChatAssumption DEF EchoInv, Shown, PublishKeeps
<1>4. BufferInv' /\ ShownOnce' /\ ShownWhole'
  BY DEF BufferInv, ShownOnce, ShownWhole, Shown
<1>5. QED
  BY <1>1, <1>2, <1>3, <1>4

(* With nothing on the way but what was before. *)
LEMMA QuietStep ==
  ASSUME ProofInv, PublishKeeps, snap' \in [Msg -> Voters],
         UNCHANGED <<log, pieces, buffers, votes, chan>>
  PROVE  ProofInv'
<1>1. VoteType' /\ ChanType' /\ PacketInv'
  BY DEF ProofInv, ChatType, ChatInv, VoteType, ChanType, PacketInv
<1>2. QED
  BY <1>1, PublishStep

(* Nothing of it changes. *)
LEMMA SamePublishes ==
  ASSUME PublishType, PublishInv, UNCHANGED <<status, pub>>
  PROVE  PublishKeeps
BY DEF PublishKeeps, PublishType, PublishInv

(* A packet of p is on its way to the others. *)
LEMMA ReachedKeeps ==
  ASSUME ChanType, PacketInv, NEW p \in Peer, NEW w \in Wire, Reached(p, w),
         w.type = "part" => Author[w.msg] = p /\ w.part <= Chunks[w.msg]
  PROVE  ChanType' /\ PacketInv'
<1> DEFINE row == [q \in Peer |->
             IF q # p /\ conn[q] # "dead" THEN Append(chan[p][q], w) ELSE chan[p][q]]
<1>1. chan' = [chan EXCEPT ![p] = row]
  BY DEF Reached, ChanType
<1>2. ASSUME NEW q \in Peer
      PROVE  /\ row[q] \in Seq(Wire)
             /\ \A n \in DOMAIN row[q] :
                  \/ n \in DOMAIN chan[p][q] /\ row[q][n] = chan[p][q][n]
                  \/ p # q /\ row[q][n] = w
  <2>1. chan[p][q] \in Seq(Wire)
    BY DEF ChanType
  <2>2. CASE q # p /\ conn[q] # "dead"
    <3>1. row[q] = Append(chan[p][q], w)
      BY <2>2
    <3>2. QED
      BY <2>1, <2>2, <3>1
  <2>3. CASE ~(q # p /\ conn[q] # "dead")
    BY <2>1, <2>3
  <2>4. QED
    BY <2>2, <2>3
<1> HIDE DEF row
<1>3. row = [q \in Peer |-> row[q]]
  BY DEF row
<1>4. row \in [Peer -> Seq(Wire)]
  BY <1>2, <1>3
<1>5. ChanType'
  BY <1>1, <1>4 DEF ChanType
<1>6. ASSUME NEW a \in Peer, NEW q \in Peer, NEW n \in DOMAIN chan'[a][q],
             chan'[a][q][n].type = "part"
      PROVE  /\ Author[chan'[a][q][n].msg] = a /\ a # q
             /\ chan'[a][q][n].part <= Chunks[chan'[a][q][n].msg]
  <2>1. CASE a = p
    <3>1. chan'[a][q] = row[q]
      BY <1>1, <2>1 DEF ChanType
    <3>2. CASE n \in DOMAIN chan[p][q] /\ row[q][n] = chan[p][q][n]
      BY <1>6, <2>1, <3>1, <3>2 DEF PacketInv
    <3>3. CASE p # q /\ row[q][n] = w
      BY <1>6, <2>1, <3>1, <3>3
    <3>4. QED
      BY <1>2, <1>6, <3>1, <3>2, <3>3
  <2>2. CASE a # p
    <3>1. chan'[a][q] = chan[a][q]
      BY <1>1, <2>2 DEF ChanType
    <3>2. QED
      BY <1>6, <3>1 DEF PacketInv
  <2>3. QED
    BY <2>1, <2>2
<1>7. PacketInv'
  BY <1>6 DEF PacketInv
<1>8. QED
  BY <1>5, <1>7

(* What was on its way to q is lost. *)
LEMMA LosesKeeps ==
  ASSUME ChanType, PacketInv, NEW q \in Peer, Loses(q)
  PROVE  ChanType' /\ PacketInv'
<1>1. chan' = [p \in Peer |-> [chan[p] EXCEPT ![q] = <<>>]]
  BY DEF Loses
<1>2. ASSUME NEW p \in Peer, NEW r \in Peer
      PROVE  chan'[p][r] \in {<<>>, chan[p][r]}
  BY <1>1 DEF ChanType
<1>3. ChanType'
  BY <1>1 DEF ChanType
<1>4. ASSUME NEW p \in Peer, NEW r \in Peer, NEW n \in DOMAIN chan'[p][r]
      PROVE  n \in DOMAIN chan[p][r] /\ chan'[p][r][n] = chan[p][r][n]
  BY <1>2, <1>4
<1>5. PacketInv'
  BY <1>4 DEF PacketInv
<1>6. QED
  BY <1>3, <1>5
-----------------------------------------------------------------------------
(* The author's actions *)

(* The local echo, which is new, and the first publish. *)
LEMMA SendChatInv ==
  ASSUME ProofInv, NEW m \in Msg, SendChat(m)
  PROVE  ProofInv'
<1> USE DEF ProofInv, ChatType, ChatInv
<1> DEFINE p == Author[m]
           s == IF conn[p] = "dead" THEN "failed" ELSE "sending"
           k == <<m, "send">>
<1>1. p \in Peer /\ Chunks[m] \in Nat /\ k \in Msg \X Way
  BY ChatAssumption DEF Way
<1>2. /\ status[m] = "unsent"
      /\ log' = [log EXCEPT ![p] = Append(log[p], m)]
      /\ pieces' = [pieces EXCEPT ![p][m] = 1..Chunks[m]]
      /\ status' = [status EXCEPT ![m] = s]
      /\ pub' = [pub EXCEPT ![k] = Started(p)]
      /\ UNCHANGED <<snap, chan, buffers, votes>>
  BY DEF SendChat, history
<1>3. s \in Statuses \ {"unsent"}
  BY DEF Statuses
<1>4. log[p] \in Seq(Msg) /\ m \notin ToSet(log[p])
  BY <1>1, <1>2 DEF LogType, EchoInv, Shown
<1>5. /\ Append(log[p], m) \in Seq(Msg)
      /\ ToSet(Append(log[p], m)) = ToSet(log[p]) \union {m}
      /\ IsInjective(log[p]) => IsInjective(Append(log[p], m))
  BY <1>4, AppendShows
<1>6. Started(p) \in Run /\ Started(p).part = 0
  BY <1>1, RunTypes
<1> HIDE DEF p, s, k
<1>7. PublishType'
  BY <1>1, <1>2, <1>3, <1>6 DEF PublishType
<1>8. PublishInv'
  <2>1. \A r \in Msg \X Way : Chunks[r[1]] \in Nat
    BY ChatAssumption
  <2>2. ASSUME NEW r \in Msg \X Way PROVE pub'[r] = pub[r] \/ pub'[r] = Started(p)
    BY <1>2 DEF PublishType
  <2>3. QED
    BY <1>6, <2>1, <2>2 DEF PublishInv
<1>9. LogType'
  <2>1. 1..Chunks[m] \in SUBSET Nat
    BY <1>1
  <2>2. QED
    BY <1>1, <1>2, <1>5, <2>1 DEF LogType
<1>10. BufferType' /\ VoteType' /\ ChanType' /\ PacketInv' /\ BufferInv'
  BY <1>2 DEF BufferType, VoteType, ChanType, PacketInv, BufferInv
<1>11. \A q \in Peer, x \in Msg :
         Shown(q, x)' => Shown(q, x) \/ (q = p /\ x = m)
  BY <1>1, <1>2, <1>5 DEF Shown, LogType
<1>12. EchoInv'
  <2>1. ASSUME NEW x \in Msg, Shown(Author[x], x)' PROVE status'[x] # "unsent"
    <3>1. CASE x = m
      BY <1>2, <1>3, <3>1 DEF PublishType
    <3>2. CASE x # m
      BY <1>2, <1>11, <2>1, <3>2, ChatAssumption DEF PublishType, EchoInv
    <3>3. QED
      BY <3>1, <3>2
  <2>2. QED
    BY <2>1 DEF EchoInv
<1>13. ShownOnce'
  BY <1>1, <1>2, <1>5 DEF ShownOnce, LogType
<1>14. ShownWhole'
  <2>1. ASSUME NEW q \in Peer, NEW x \in Msg, Shown(q, x)'
        PROVE  pieces'[q][x] = 1..Chunks[x]
    <3>1. CASE q = p /\ x = m
      BY <1>1, <1>2, <3>1 DEF LogType
    <3>2. CASE ~(q = p /\ x = m)
      <4>1. pieces'[q][x] = pieces[q][x]
        BY <1>1, <1>2, <3>2 DEF LogType
      <4>2. QED
        BY <1>11, <2>1, <3>2, <4>1 DEF ShownWhole
    <3>3. QED
      BY <3>1, <3>2
  <2>2. QED
    BY <2>1 DEF ShownWhole
<1>15. QED
  BY <1>7, <1>8, <1>9, <1>10, <1>12, <1>13, <1>14

(* Every end of a wait, a pause or a publishData. *)
LEMMA PublishingInv ==
  ASSUME ProofInv, Publishing
  PROVE  ProofInv'
<1> USE DEF ProofInv, ChatType, ChatInv
<1>1. PICK m \in Msg, w \in Way :
        WaitEnds(m, w) \/ PacketSent(m, w) \/ PacketFails(m, w) \/ PauseEnds(m, w)
  BY DEF Publishing
<1> DEFINE run == pub[<<m, w>>]
<1>2. /\ run \in Run /\ run.part \in Nat /\ run.part <= Chunks[m] /\ Chunks[m] \in Nat
      /\ Author[m] \in Peer /\ 0 <= Chunks[m]
  <2>1. <<m, w>> \in Msg \X Way /\ <<m, w>>[1] = m
    OBVIOUS
  <2>2. run \in Run
    BY <2>1 DEF PublishType
  <2>3. QED
    BY <2>1, <2>2, ChatAssumption DEF PublishInv, Run
<1> HIDE DEF run
<1>3. "failed" \in Statuses \ {"unsent"} /\ "sent" \in Statuses \ {"unsent"}
  BY DEF Statuses
<1>4. \A n \in 0..1 : Trying(n) \in Run /\ Trying(n).part <= Chunks[m]
  BY <1>2, RunTypes
<1>5. snap' = snap /\ snap' \in [Msg -> Voters] /\ UNCHANGED <<log, pieces, buffers, votes>>
  BY <1>1 DEF WaitEnds, PacketSent, PacketFails, PauseEnds, showing, PublishType
<1>6. CASE WaitEnds(m, w)
  <2>1. PublishKeeps
    BY <1>3, <1>4, <1>6, EndsKeeps, ProceedsKeeps DEF WaitEnds
  <2>2. QED
    BY <1>5, <1>6, <2>1, QuietStep DEF WaitEnds
<1>7. CASE PauseEnds(m, w)
  <2>1. PublishKeeps
    BY <1>3, <1>4, <1>7, EndsKeeps, ProceedsKeeps DEF PauseEnds, SecondTry
  <2>2. QED
    BY <1>5, <1>7, <2>1, QuietStep DEF PauseEnds
<1>8. CASE PacketFails(m, w)
  <2>1. [run EXCEPT !.step = "pause"] \in Run /\ [run EXCEPT !.step = "pause"].part = run.part
    BY <1>2 DEF Run
  <2>2. Proceeds(m, w, [run EXCEPT !.step = "pause"]) \/ Ends(m, w, "failed")
    BY <1>8 DEF PacketFails, run
  <2>3. PublishKeeps
    BY <1>2, <1>3, <2>1, <2>2, EndsKeeps, ProceedsKeeps
  <2>4. QED
    BY <1>5, <1>8, <2>3, QuietStep DEF PacketFails
<1>9. CASE PacketSent(m, w)
  <2> DEFINE packet == [type |-> "part", msg |-> m, part |-> run.part, votes |-> Carried(m, w)]
  <2>1. Carried(m, w) \in Voters
    BY DEF Carried, PublishType, NoVotes, Voters
  <2>2. packet \in Wire /\ packet.type = "part" /\ packet.msg = m /\ packet.part = run.part
    BY <1>2, <2>1 DEF Wire
  <2>3. Reached(Author[m], packet)
    BY <1>9 DEF PacketSent, run
  <2> HIDE DEF packet
  <2>4. ChanType' /\ PacketInv'
    BY <1>2, <2>2, <2>3, ReachedKeeps
  <2>5. run.part < Chunks[m] =>
          [run EXCEPT !.part = run.part + 1] \in Run
          /\ [run EXCEPT !.part = run.part + 1].part <= Chunks[m]
    BY <1>2 DEF Run
  <2>6. \/ run.part < Chunks[m] /\ Proceeds(m, w, [run EXCEPT !.part = run.part + 1])
        \/ Ends(m, w, "sent")
    BY <1>9 DEF PacketSent, run
  <2>7. PublishKeeps
    BY <1>3, <2>5, <2>6, EndsKeeps, ProceedsKeeps
  <2>8. VoteType'
    BY <1>5 DEF VoteType
  <2>9. QED
    BY <1>5, <2>4, <2>7, <2>8, PublishStep
<1>10. QED
  BY <1>1, <1>6, <1>7, <1>8, <1>9

(* The retry loop begins. *)
LEMMA RetryPendingInv ==
  ASSUME ProofInv, NEW p \in Peer, RetryPending(p)
  PROVE  ProofInv'
<1> USE DEF ProofInv, ChatType, ChatInv
<1>1. UNCHANGED <<log, pieces, buffers, votes, chan>>
  BY DEF RetryPending, showing
<1>2. CASE RetryFrom(p, Unsent(p), status, pub)
           /\ snap' = [m \in Msg |-> IF m \in ToSet(Unsent(p)) THEN votes[p][m] ELSE snap[m]]
  <2>1. PublishKeeps
    BY <1>2, RetryFromKeeps DEF PublishType, PublishInv
  <2>2. snap' \in [Msg -> Voters]
    BY <1>2 DEF PublishType, VoteType
  <2>3. QED
    BY <1>1, <2>1, <2>2, QuietStep
<1>3. CASE UNCHANGED <<status, pub, retrying, snap>>
  <2>1. PublishKeeps /\ snap' \in [Msg -> Voters]
    BY <1>3, SamePublishes DEF PublishType
  <2>2. QED
    BY <1>1, <2>1, QuietStep
<1>4. QED
  BY <1>2, <1>3 DEF RetryPending

(* A reaction or a vote. *)
LEMMA MarkInv ==
  ASSUME ProofInv, NEW p \in Peer, NEW m \in Msg,
         \/ \E e \in Emoji : React(p, m, e)
         \/ \E o \in Option : Vote(p, m, o)
  PROVE  ProofInv'
<1> USE DEF ProofInv, ChatType, ChatInv
<1>1. UNCHANGED <<log, pieces, buffers, status, pub, snap>>
  BY DEF React, Vote, showing, sending
<1>2. PublishKeeps /\ snap' \in [Msg -> Voters]
  BY <1>1, SamePublishes DEF PublishType
<1>3. ASSUME NEW w \in Wire, w.type # "part", Published(p, w)
      PROVE  ChanType' /\ PacketInv'
  <2>1. CASE Reached(p, w)
    BY <1>3, <2>1, ReachedKeeps
  <2>2. CASE UNCHANGED <<chan, gap>>
    BY <2>2 DEF ChanType, PacketInv
  <2>3. QED
    BY <1>3, <2>1, <2>2 DEF Published
<1>4. ASSUME NEW e \in Emoji, React(p, m, e) PROVE ProofInv'
  <2>1. [type |-> "react", msg |-> m, by |-> p, what |-> e] \in Wire
    BY DEF Wire
  <2>2. ChanType' /\ PacketInv' /\ VoteType'
    BY <1>3, <1>4, <2>1 DEF React, VoteType
  <2>3. QED
    BY <1>1, <1>2, <2>2, PublishStep
<1>5. ASSUME NEW o \in Option, Vote(p, m, o) PROVE ProofInv'
  <2>1. [type |-> "vote", msg |-> m, by |-> p, what |-> o] \in Wire
    BY DEF Wire
  <2>2. ChanType' /\ PacketInv'
    BY <1>3, <1>5, <2>1 DEF Vote
  <2>3. VoteType'
    BY <1>5 DEF Vote, VoteType, Voters
  <2>4. QED
    BY <1>1, <1>2, <2>2, <2>3, PublishStep
<1>6. QED
  BY <1>4, <1>5

(* The connection goes and comes. *)
LEMMA ConnectionInv ==
  ASSUME ProofInv, NEW p \in Peer, Interrupt(p) \/ Close(p) \/ Ready(p)
  PROVE  ProofInv'
<1> USE DEF ProofInv, ChatType, ChatInv
<1>1. UNCHANGED <<log, pieces, buffers, votes, status, pub, snap>>
  BY DEF Interrupt, Close, Ready, showing, sending
<1>2. PublishKeeps /\ snap' \in [Msg -> Voters] /\ VoteType'
  BY <1>1, SamePublishes DEF PublishType, VoteType
<1>3. UNCHANGED chan \/ Loses(p)
  BY DEF Interrupt, Close, Ready
<1>4. ChanType' /\ PacketInv'
  <2>1. CASE UNCHANGED chan
    BY <2>1 DEF ChanType, PacketInv
  <2>2. CASE Loses(p)
    BY <2>2, LosesKeeps
  <2>3. QED
    BY <1>3, <2>1, <2>2
<1>5. QED
  BY <1>1, <1>2, <1>4, PublishStep

(* A page that is loaded anew keeps what it shows and drops the rest. *)
LEMMA ReloadInv ==
  ASSUME ProofInv, NEW p \in Peer, Reload(p)
  PROVE  ProofInv'
<1> USE DEF ProofInv, ChatType, ChatInv
<1>1. /\ UNCHANGED <<log, pieces, votes, snap>>
      /\ status' = [m \in Msg |->
           IF Author[m] = p /\ Shown(p, m) THEN "none" ELSE status[m]]
      /\ pub' = [r \in Msg \X Way |-> IF Author[r[1]] = p THEN Idle ELSE pub[r]]
      /\ buffers' = [buffers EXCEPT ![p] = [m \in Msg |-> None]]
      /\ Loses(p)
  BY DEF Reload
<1>2. PublishType'
  BY <1>1, RunTypes DEF PublishType, Statuses
<1>3. PublishInv'
  <2>1. \A r \in Msg \X Way : Chunks[r[1]] \in Nat
    BY ChatAssumption
  <2>2. \A r \in Msg \X Way : pub'[r] = Idle \/ pub'[r] = pub[r]
    BY <1>1
  <2>3. QED
    BY <2>1, <2>2, RunTypes DEF PublishInv
<1>4. LogType' /\ VoteType' /\ ShownOnce' /\ ShownWhole'
  BY <1>1 DEF LogType, VoteType, ShownOnce, ShownWhole, Shown
<1>5. BufferType' /\ BufferInv'
  BY <1>1 DEF BufferType, BufferInv
<1>6. EchoInv'
  BY <1>1 DEF EchoInv, Shown, PublishType
<1>7. ChanType' /\ PacketInv'
  BY <1>1, LosesKeeps
<1>8. QED
  BY <1>2, <1>3, <1>4, <1>5, <1>6, <1>7
-----------------------------------------------------------------------------
(* The receiver *)

(* Buffers, logs and polls keep their types, buffers count different       *)
(* chunks, and whatever is new in a log is whole and was not shown before. *)
ShowsWell(q, m) ==
  /\ LogType' /\ VoteType'
  /\ ShownOnce' /\ ShownWhole'
  /\ \A x \in Peer, y \in Msg : Shown(x, y)' => Shown(x, y) \/ (x = q /\ y = m)

(* A log that stays as it is. *)
LEMMA SameLog ==
  ASSUME ProofInv, NEW q, NEW m, UNCHANGED <<log, pieces>>, VoteType'
  PROVE  ShowsWell(q, m)
BY DEF ProofInv, ChatType, ChatInv, ShowsWell, LogType, ShownOnce, ShownWhole, Shown

(* A message is added once, and with all its chunks. *)
LEMMA AppendedShows ==
  ASSUME ProofInv, NEW q \in Peer, NEW m \in Msg, NEW vs \in Voters,
         Appended(q, m, 1..Chunks[m], vs)
  PROVE  ShowsWell(q, m)
<1> USE DEF ProofInv, ChatType, ChatInv
<1>1. CASE Known(q, m)
  BY <1>1, SameLog DEF Appended, VoteType
<1>2. CASE ~Known(q, m)
  <2>1. /\ log' = [log EXCEPT ![q] = Append(log[q], m)]
        /\ pieces' = [pieces EXCEPT ![q][m] = 1..Chunks[m]]
        /\ votes' = [votes EXCEPT ![q][m] = IF m \in Poll THEN vs ELSE votes[q][m]]
    BY <1>2 DEF Appended
  <2>2. log[q] \in Seq(Msg) /\ m \notin ToSet(log[q])
    BY <1>2 DEF LogType, Known, Shown
  <2>3. /\ Append(log[q], m) \in Seq(Msg)
        /\ ToSet(Append(log[q], m)) = ToSet(log[q]) \union {m}
        /\ IsInjective(log[q]) => IsInjective(Append(log[q], m))
    BY <2>2, AppendShows
  <2>4. 1..Chunks[m] \in SUBSET Nat
    BY ChatAssumption
  <2>5. LogType' /\ VoteType'
    BY <2>1, <2>3, <2>4 DEF LogType, VoteType
  <2>6. \A x \in Peer, y \in Msg : Shown(x, y)' => Shown(x, y) \/ (x = q /\ y = m)
    BY <2>1, <2>3 DEF Shown, LogType
  <2>7. ShownOnce'
    BY <2>1, <2>3 DEF ShownOnce, LogType
  <2>8. ASSUME NEW x \in Peer, NEW y \in Msg, Shown(x, y)' PROVE pieces'[x][y] = 1..Chunks[y]
    <3>1. CASE x = q /\ y = m
      BY <2>1, <3>1 DEF LogType
    <3>2. CASE ~(x = q /\ y = m)
      <4>1. pieces'[x][y] = pieces[x][y]
        BY <2>1, <3>2 DEF LogType
      <4>2. QED
        BY <2>6, <2>8, <3>2, <4>1 DEF ShownWhole
    <3>3. QED
      BY <3>1, <3>2
  <2>9. ShownWhole'
    BY <2>8 DEF ShownWhole
  <2>10. QED
    BY <2>5, <2>6, <2>7, <2>9 DEF ShowsWell
<1>3. QED
  BY <1>1, <1>2

(* A chunk counts once, and the counts of all chunks make the message. *)
LEMMA AppliedCounts ==
  ASSUME NEW m \in Msg, NEW e \in Pending, NEW i \in 1..Chunks[m], NEW vs \in Voters,
         e.have \subseteq 1..Chunks[m], e.received = Cardinality(e.have)
  PROVE  LET f == Applied(e, i, vs)
         IN /\ f \in Pending /\ f.votes \in Voters
            /\ f.have \subseteq 1..Chunks[m] /\ f.received = Cardinality(f.have)
            /\ ~(f.received < Chunks[m]) => f.have = 1..Chunks[m]
<1> DEFINE f == Applied(e, i, vs)
<1>1. Chunks[m] \in Nat
  BY ChatAssumption
<1>2. IsFiniteSet(1..Chunks[m]) /\ Cardinality(1..Chunks[m]) = Chunks[m]
  <2> DEFINE n == Chunks[m]
  <2>1. 1 \in Int /\ n \in Int /\ n \in Nat
    BY <1>1
  <2> HIDE DEF n
  <2>2. /\ IsFiniteSet(1..n)
        /\ Cardinality(1..n) = IF 1 > n THEN 0 ELSE n - 1 + 1
    BY <2>1, FS_Interval
  <2>3. Cardinality(1..n) = n
    BY <2>1, <2>2
  <2>4. QED
    BY <2>2, <2>3 DEF n
<1>3. IsFiniteSet(e.have)
  BY <1>2, FS_Subset
<1>4. f \in Pending /\ f.votes \in Voters /\ f.have \subseteq 1..Chunks[m]
      /\ f.received = Cardinality(f.have)
  <2>1. CASE i \in e.have
    BY <2>1 DEF Applied, Pending
  <2>2. CASE i \notin e.have
    <3>1. f = [have |-> e.have \union {i}, received |-> e.received + 1, votes |-> vs]
      BY <2>2 DEF Applied
    <3>2. Cardinality(e.have \union {i}) = Cardinality(e.have) + 1
      BY <1>3, <2>2, FS_AddElement
    <3>3. e.received + 1 \in Nat /\ e.have \union {i} \in SUBSET Nat
      BY <1>1 DEF Pending
    <3> HIDE DEF f
    <3>4. QED
      BY <3>1, <3>2, <3>3 DEF Pending
  <2>3. QED
    BY <2>1, <2>2
<1> HIDE DEF f
<1>5. ASSUME ~(f.received < Chunks[m]) PROVE f.have = 1..Chunks[m]
  <2>1. f.have \in SUBSET (1..Chunks[m])
    BY <1>4
  <2>2. IsFiniteSet(f.have) /\ Cardinality(f.have) <= Chunks[m]
    <3>1. IsFiniteSet(f.have) /\ Cardinality(f.have) <= Cardinality(1..Chunks[m])
      BY <1>2, <2>1, FS_Subset
    <3>2. QED
      BY <1>2, <3>1
  <2>3. Cardinality(f.have) \in Nat
    BY <2>2, FS_CardinalityType
  <2>4. Cardinality(f.have) = Cardinality(1..Chunks[m])
    BY <1>1, <1>2, <1>4, <1>5, <2>2, <2>3
  <2>5. QED
    BY <1>2, <2>1, <2>4, FS_Subset
<1>6. QED
  BY <1>4, <1>5 DEF f

(* A packet of a message: the message itself, its meta or a chunk. *)
LEMMA PartShows ==
  ASSUME ProofInv, NEW q \in Peer, NEW w \in Wire, w.type = "part",
         w.msg \in Msg, w.part \in Nat, w.votes \in Voters, w.part <= Chunks[w.msg],
         ReceivePart(q, w)
  PROVE  ShowsWell(q, w.msg) /\ BufferType' /\ BufferInv'
<1> USE DEF ProofInv, ChatType, ChatInv
<1> DEFINE m == w.msg
           old == buffers[q][m]
<1>1. Chunks[m] \in Nat
  BY ChatAssumption
<1>2. old \in Pending \union {None}
  BY DEF BufferType
<1>3. CASE Chunks[m] = 0
  <2>1. Appended(q, m, {}, w.votes) /\ UNCHANGED buffers
    BY <1>3 DEF ReceivePart
  <2>2. {} = 1..Chunks[m]
    BY <1>3
  <2>3. ShowsWell(q, m)
    BY <2>1, <2>2, AppendedShows
  <2>4. QED
    BY <2>1, <2>3 DEF BufferType, BufferInv
<1>4. CASE Chunks[m] # 0 /\ w.part = 0
  <2>1. /\ buffers' = [buffers EXCEPT ![q][m] = Ingested(old)]
        /\ UNCHANGED <<log, pieces, votes>>
    BY <1>4 DEF ReceivePart, ReceiveMeta
  <2>2. /\ NoPending \in Pending /\ NoPending.have = {}
        /\ NoPending.received = Cardinality({})
    BY FS_EmptySet DEF NoPending, Pending, NoVotes, Voters
  <2>3. Ingested(old) \in {old, NoPending} /\ Ingested(old) \in Pending \union {None}
    BY <1>2, <2>2 DEF Ingested
  <2>4. BufferType'
    BY <2>1, <2>3 DEF BufferType
  <2>5. BufferInv'
    <3>1. ASSUME NEW x \in Peer, NEW y \in Msg
          PROVE  buffers'[x][y] = buffers[x][y] \/ buffers'[x][y] = NoPending
      BY <2>1, <2>3 DEF BufferType
    <3>2. QED
      BY <2>2, <3>1 DEF BufferInv
  <2>6. VoteType'
    BY <2>1 DEF VoteType
  <2>7. QED
    BY <2>1, <2>4, <2>5, <2>6, SameLog
<1>5. CASE Chunks[m] # 0 /\ w.part # 0
  <2>1. ReceiveChunk(q, m, w.part, w.votes)
    BY <1>5 DEF ReceivePart
  <2>2. w.part \in 1..Chunks[m]
    BY <1>1, <1>5
  <2>3. CASE old = None
    <3>1. UNCHANGED <<log, pieces, buffers, votes>>
      BY <2>1, <2>3 DEF ReceiveChunk, showing
    <3>2. QED
      BY <3>1, SameLog DEF VoteType, BufferType, BufferInv
  <2>4. CASE old # None
    <3> DEFINE vs == IF w.part = Chunks[m] THEN w.votes ELSE old.votes
               e == Applied(old, w.part, vs)
    <3>1. /\ old \in Pending /\ old.have \subseteq 1..Chunks[m]
          /\ old.received = Cardinality(old.have) /\ vs \in Voters
      BY <1>2, <2>4 DEF BufferInv, Pending
    <3> HIDE DEF vs
    <3>2. /\ e \in Pending /\ e.votes \in Voters
          /\ e.have \subseteq 1..Chunks[m] /\ e.received = Cardinality(e.have)
          /\ ~(e.received < Chunks[m]) => e.have = 1..Chunks[m]
      BY <2>2, <3>1, AppliedCounts
    <3> HIDE DEF e, old
    <3>3. CASE e.received < Chunks[m]
      <4>1. /\ buffers' = [buffers EXCEPT ![q][m] = e]
            /\ UNCHANGED <<log, pieces, votes>>
        BY <2>1, <2>4, <3>3 DEF ReceiveChunk, e, vs, old
      <4>2. BufferType' /\ VoteType'
        BY <3>2, <4>1 DEF BufferType, VoteType
      <4>3. ASSUME NEW x \in Peer, NEW y \in Msg
            PROVE  buffers'[x][y] = buffers[x][y] \/ (y = m /\ buffers'[x][y] = e)
        BY <4>1 DEF BufferType
      <4>4. BufferInv'
        BY <3>2, <4>3 DEF BufferInv
      <4>5. QED
        BY <4>1, <4>2, <4>4, SameLog
    <3>4. CASE ~(e.received < Chunks[m])
      <4>1. /\ buffers' = [buffers EXCEPT ![q][m] = None]
            /\ Appended(q, m, e.have, e.votes)
        BY <2>1, <2>4, <3>4 DEF ReceiveChunk, e, vs, old
      <4>2. BufferType' /\ BufferInv'
        <5>1. ASSUME NEW x \in Peer, NEW y \in Msg
              PROVE  buffers'[x][y] = buffers[x][y] \/ buffers'[x][y] = None
          BY <4>1 DEF BufferType
        <5>2. QED
          BY <4>1, <5>1 DEF BufferType, BufferInv
      <4>3. ShowsWell(q, m)
        BY <3>2, <3>4, <4>1, AppendedShows
      <4>4. QED
        BY <4>2, <4>3
    <3>5. QED
      BY <3>3, <3>4
  <2>5. QED
    BY <2>3, <2>4
<1>6. QED
  BY <1>3, <1>4, <1>5

(* A packet arrives. *)
LEMMA ReceiveInv ==
  ASSUME ProofInv, NEW p \in Peer, NEW q \in Peer, Receive(p, q)
  PROVE  ProofInv'
<1> USE DEF ProofInv, ChatType, ChatInv
<1> DEFINE w == Head(chan[p][q])
<1>1. chan[p][q] \in Seq(Wire) /\ chan[p][q] # <<>>
  BY DEF Receive, ChanType
<1>2. w \in Wire /\ Tail(chan[p][q]) \in Seq(Wire) /\ 1 \in DOMAIN chan[p][q] /\ w = chan[p][q][1]
  BY <1>1
<1>3. /\ chan' = [chan EXCEPT ![p][q] = Tail(chan[p][q])]
      /\ UNCHANGED <<status, pub, snap>>
  BY DEF Receive, sending
<1>4. PublishType' /\ PublishInv'
  BY <1>3 DEF PublishType, PublishInv
<1>5. ChanType'
  BY <1>2, <1>3 DEF ChanType
<1>6. PacketInv'
  <2>1. ASSUME NEW n \in DOMAIN Tail(chan[p][q])
        PROVE  n + 1 \in DOMAIN chan[p][q] /\ Tail(chan[p][q])[n] = chan[p][q][n + 1]
    BY <1>1, <2>1
  <2>2. ASSUME NEW a \in Peer, NEW b \in Peer, NEW n \in DOMAIN chan'[a][b]
        PROVE  \E k \in DOMAIN chan[a][b] : chan'[a][b][n] = chan[a][b][k]
    <3>1. CASE a = p /\ b = q
      <4>1. chan'[a][b] = Tail(chan[p][q])
        BY <1>3, <3>1 DEF ChanType
      <4>2. QED
        BY <2>1, <2>2, <3>1, <4>1
    <3>2. CASE ~(a = p /\ b = q)
      <4>1. chan'[a][b] = chan[a][b]
        BY <1>3, <3>2 DEF ChanType
      <4>2. QED
        BY <2>2, <4>1
    <3>3. QED
      BY <3>1, <3>2
  <2>3. QED
    BY <2>2 DEF PacketInv
<1> HIDE DEF w
<1>7. ASSUME NEW m \in Msg, ShowsWell(q, m), Author[m] # q, BufferType', BufferInv'
      PROVE  ProofInv'
  <2>1. EchoInv'
    BY <1>3, <1>7, ChatAssumption DEF EchoInv, ShowsWell
  <2>2. QED
    BY <1>4, <1>5, <1>6, <1>7, <2>1 DEF ShowsWell
<1>8. CASE w.type = "part" /\ ReceivePart(q, w)
  <2>1. w.msg \in Msg /\ w.part \in Nat /\ w.votes \in Voters
    BY <1>2, <1>8 DEF Wire
  <2>2. Author[w.msg] = p /\ p # q /\ w.part <= Chunks[w.msg]
    BY <1>2, <1>8 DEF PacketInv
  <2>3. QED
    BY <1>2, <1>7, <1>8, <2>1, <2>2, PartShows
<1>9. ASSUME UNCHANGED <<log, pieces, buffers>>, VoteType' PROVE ProofInv'
  <2>1. LogType' /\ BufferType' /\ BufferInv' /\ EchoInv' /\ ShownOnce' /\ ShownWhole'
    BY <1>3, <1>9
       DEF LogType, BufferType, BufferInv, EchoInv, ShownOnce, ShownWhole, Shown
  <2>2. QED
    BY <1>4, <1>5, <1>6, <1>9, <2>1
<1>10. CASE w.type = "react" /\ ReceiveReact(q, w)
  BY <1>9, <1>10 DEF ReceiveReact, showing, VoteType
<1>11. CASE w.type = "vote" /\ ReceiveVote(q, w)
  <2>1. w.msg \in Msg /\ w.by \in Peer /\ w.what \in Option
    BY <1>2, <1>11 DEF Wire
  <2>2. VoteType'
    BY <1>11, <2>1 DEF ReceiveVote, VoteType, Voters, Ballot
  <2>3. QED
    BY <1>9, <1>11, <2>2 DEF ReceiveVote, showing
<1>12. QED
  BY <1>8, <1>10, <1>11 DEF Receive, w

-----------------------------------------------------------------------------
(* Theorems *)

(* The inductive invariant, with the types it needs, always holds. *)
THEOREM ChatInvariance == Spec => [](ChatType /\ ChatInv)
<1>1. Init => ProofInv
  <2> SUFFICES ASSUME Init PROVE ProofInv
    OBVIOUS
  <2> USE DEF Init, Shown
  <2>1. ChatType
    BY RunTypes
       DEF ChatType, PublishType, LogType, BufferType, VoteType, ChanType, Statuses, Voters,
           NoVotes
  <2>2. ToSet(<<>>) = {} /\ IsInjective(<<>>)
    BY DEF ToSet, IsInjective
  <2>3. \A r \in Msg \X Way : Chunks[r[1]] \in Nat
    BY ChatAssumption
  <2>4. PublishInv
    BY <2>3, RunTypes DEF PublishInv
  <2>5. PacketInv /\ BufferInv
    BY DEF PacketInv, BufferInv
  <2>6. EchoInv /\ ShownOnce /\ ShownWhole
    BY <2>2, ChatAssumption DEF EchoInv, ShownOnce, ShownWhole
  <2>7. QED
    BY <2>1, <2>4, <2>5, <2>6 DEF ProofInv, ChatInv
<1>2. ProofInv /\ [Next]_vars => ProofInv'
  <2> SUFFICES ASSUME ProofInv, [Next]_vars PROVE ProofInv'
    OBVIOUS
  <2>1. ASSUME NEW m \in Msg, SendChat(m) PROVE ProofInv'
    BY <2>1, SendChatInv
  <2>2. CASE Publishing
    BY <2>2, PublishingInv
  <2>3. ASSUME NEW p \in Peer, RetryPending(p) PROVE ProofInv'
    BY <2>3, RetryPendingInv
  <2>4. ASSUME NEW p \in Peer, Interrupt(p) \/ Close(p) \/ Ready(p) PROVE ProofInv'
    BY <2>4, ConnectionInv
  <2>5. ASSUME NEW p \in Peer, Reload(p) PROVE ProofInv'
    BY <2>5, ReloadInv
  <2>6. ASSUME NEW p \in Peer, NEW m \in Msg,
               \/ \E e \in Emoji : React(p, m, e)
               \/ \E o \in Option : Vote(p, m, o)
        PROVE  ProofInv'
    BY <2>6, MarkInv
  <2>7. ASSUME NEW p \in Peer, NEW q \in Peer, Receive(p, q) PROVE ProofInv'
    BY <2>7, ReceiveInv
  <2>8. CASE UNCHANGED vars
    <3>1. PublishKeeps /\ snap' \in [Msg -> Voters]
      BY <2>8, SamePublishes DEF vars, ProofInv, ChatType, ChatInv, PublishType
    <3>2. QED
      BY <2>8, <3>1, QuietStep DEF vars
  <2>9. QED
    BY <2>1, <2>2, <2>3, <2>4, <2>5, <2>6, <2>7, <2>8 DEF Next
<1>3. QED
  BY <1>1, <1>2, PTL DEF Spec, ProofInv

(* Nobody is shown a message twice, however its publishes overlap. *)
THEOREM MessagesShownOnce == Spec => []ShownOnce
BY ChatInvariance, PTL DEF ChatInv

(* A message that is shown is whole, however its chunks were mixed. *)
THEOREM MessagesShownWhole == Spec => []ShownWhole
BY ChatInvariance, PTL DEF ChatInv

-----------------------------------------------------------------------------
(* The rest of the types *)

(* The rest of the state. *)
LineType ==
  /\ due \in [Peer -> BOOLEAN]
  /\ conn \in [Peer -> {"ready", "closed", "dead"}]
  /\ reacts \in [Peer -> [Msg -> [Peer -> Emoji \union {None}]]]
  /\ marks \in 0..MaxEvents
  /\ trouble \subseteq Trouble /\ gap \subseteq Peer

LoopType == retrying \in [Peer -> Seq(Msg)]

(* What goes wrong does so within the bound, and a mark is within it too. *)
LEMMA EventTypes ==
  ASSUME LineType
  PROVE  /\ \A t : Goes(t) => trouble' \subseteq Trouble
         /\ Marks => marks' \in 0..MaxEvents
<1>1. IsFiniteSet({"interrupt", "close", "fail", "reload"})
  <2>1. IsFiniteSet({"interrupt"})
    BY FS_Singleton
  <2>2. IsFiniteSet({"interrupt"} \union {"close"})
    BY <2>1, FS_AddElement
  <2>3. IsFiniteSet({"interrupt"} \union {"close"} \union {"fail"})
    BY <2>2, FS_AddElement
  <2>4. IsFiniteSet({"interrupt"} \union {"close"} \union {"fail"} \union {"reload"})
    BY <2>3, FS_AddElement
  <2>5. {"interrupt"} \union {"close"} \union {"fail"} \union {"reload"}
          = {"interrupt", "close", "fail", "reload"}
    OBVIOUS
  <2>6. QED
    BY <2>4, <2>5
<1>2. IsFiniteSet(trouble)
  BY <1>1, FS_Subset, ChatAssumption DEF LineType
<1>3. Cardinality(trouble) \in Nat
  BY <1>2, FS_CardinalityType
<1>4. Marks => marks' \in 0..MaxEvents
  BY <1>3, ChatAssumption DEF Marks, Over, LineType
<1>5. QED
  BY <1>4 DEF LineType, Goes

(* The connection, the reactions and what has happened keep their types. *)
LEMMA LineTypes ==
  ASSUME ProofInv, LineType, [Next]_vars
  PROVE  LineType'
<1> USE DEF LineType
<1>1. /\ \A t : Goes(t) => trouble' \subseteq Trouble
      /\ Marks => marks' \in 0..MaxEvents
  BY EventTypes
<1>2. ASSUME NEW p \in Peer, NEW w, Reached(p, w) PROVE gap' \subseteq Peer
  BY <1>2 DEF Reached
<1>3. ASSUME NEW p \in Peer, Loses(p) PROVE gap' \subseteq Peer
  BY <1>3 DEF Loses
<1>4. ASSUME NEW m \in Msg, SendChat(m) PROVE LineType'
  BY <1>4 DEF SendChat, history
<1>5. ASSUME NEW m \in Msg, NEW w \in Way,
             WaitEnds(m, w) \/ PacketSent(m, w) \/ PacketFails(m, w) \/ PauseEnds(m, w)
      PROVE  LineType'
  <2>1. Author[m] \in Peer
    BY ChatAssumption
  <2>2. CASE WaitEnds(m, w) \/ PauseEnds(m, w)
    BY <2>2 DEF WaitEnds, PauseEnds, history
  <2>3. CASE PacketSent(m, w)
    BY <1>2, <2>1, <2>3 DEF PacketSent
  <2>4. CASE PacketFails(m, w)
    <3>1. trouble' \subseteq Trouble
      BY <1>1, <2>4 DEF PacketFails
    <3>2. QED
      BY <2>4, <3>1 DEF PacketFails
  <2>5. QED
    BY <1>5, <2>2, <2>3, <2>4
<1>6. ASSUME NEW p \in Peer, RetryPending(p) PROVE LineType'
  BY <1>6 DEF RetryPending, history
<1>7. ASSUME NEW p \in Peer, Interrupt(p) \/ Close(p) \/ Ready(p) PROVE LineType'
  <2>1. CASE Interrupt(p)
    BY <1>1, <2>1 DEF Interrupt, sending
  <2>2. CASE Close(p)
    BY <1>1, <1>3, <2>2 DEF Close, sending
  <2>3. CASE Ready(p)
    BY <1>3, <2>3 DEF Ready
  <2>4. QED
    BY <1>7, <2>1, <2>2, <2>3
<1>8. ASSUME NEW p \in Peer, Reload(p) PROVE LineType'
  BY <1>1, <1>3, <1>8 DEF Reload
<1>9. ASSUME NEW p \in Peer, NEW m \in Msg, NEW e \in Emoji, React(p, m, e) PROVE LineType'
  <2>1. \A x : Toggled(x, e) \in Emoji \union {None}
    BY DEF Toggled
  <2>2. reacts' \in [Peer -> [Msg -> [Peer -> Emoji \union {None}]]]
    BY <1>9, <2>1 DEF React
  <2>3. gap' \subseteq Peer
    BY <1>2, <1>9 DEF React, Published
  <2>4. QED
    BY <1>1, <1>9, <2>2, <2>3 DEF React, sending
<1>10. ASSUME NEW p \in Peer, NEW m \in Msg, NEW o \in Option, Vote(p, m, o) PROVE LineType'
  <2>1. gap' \subseteq Peer
    BY <1>2, <1>10 DEF Vote, Published
  <2>2. QED
    BY <1>1, <1>10, <2>1 DEF Vote, sending
<1>11. ASSUME NEW p \in Peer, NEW q \in Peer, Receive(p, q) PROVE LineType'
  <2> DEFINE w == Head(chan[p][q])
  <2>1. w \in Wire
    BY <1>11 DEF Receive, ProofInv, ChatType, ChanType
  <2>2. reacts' \in [Peer -> [Msg -> [Peer -> Emoji \union {None}]]]
    <3>1. CASE UNCHANGED reacts
      BY <3>1
    <3>2. CASE w.type = "react" /\ ReceiveReact(q, w)
      <4>1. w.msg \in Msg /\ w.by \in Peer /\ w.what \in Emoji
        BY <2>1, <3>2 DEF Wire
      <4>2. \A x : Toggled(x, w.what) \in Emoji \union {None}
        BY <4>1 DEF Toggled
      <4>3. QED
        BY <3>2, <4>1, <4>2 DEF ReceiveReact
    <3>3. QED
      BY <1>11, <3>1, <3>2 DEF Receive, ReceivePart, ReceiveVote, w
  <2>3. QED
    BY <1>11, <2>2 DEF Receive, sending, history
<1>12. CASE UNCHANGED vars
  BY <1>12 DEF vars, history
<1>13. QED
  BY <1>4, <1>5, <1>6, <1>7, <1>8, <1>9, <1>10, <1>11, <1>12 DEF Next, Publishing

-----------------------------------------------------------------------------
(* The retry loop *)

(* A log only grows, by one message at a time. *)
LEMMA LogGrows ==
  ASSUME ProofInv, ProofInv', [Next]_vars
  PROVE  \A q \in Peer, m \in Msg : Shown(q, m) => Shown(q, m)'
<1>1. ASSUME NEW q \in Peer, NEW m \in Msg, NEW a \in Peer, NEW x \in Msg,
             log' = [log EXCEPT ![a] = Append(log[a], x)], Shown(q, m)
      PROVE  Shown(q, m)'
  <2>1. log[a] \in Seq(Msg)
    BY DEF ProofInv, ChatType, LogType
  <2>2. ToSet(Append(log[a], x)) = ToSet(log[a]) \union {x}
    BY <2>1, AppendShows
  <2>3. QED
    BY <1>1, <2>2 DEF ProofInv, ChatType, LogType, Shown
<1>2. ASSUME NEW m \in Msg, SendChat(m)
      PROVE  \A q \in Peer, y \in Msg : Shown(q, y) => Shown(q, y)'
  <2>1. Author[m] \in Peer /\ log' = [log EXCEPT ![Author[m]] = Append(log[Author[m]], m)]
    BY <1>2, ChatAssumption DEF SendChat
  <2>2. QED
    BY <1>1, <2>1
<1>3. CASE UNCHANGED log
  BY <1>3 DEF Shown
<1>4. ASSUME NEW p \in Peer, NEW q \in Peer, Receive(p, q)
      PROVE  \A x \in Peer, y \in Msg : Shown(x, y) => Shown(x, y)'
  <2> DEFINE w == Head(chan[p][q])
  <2>1. w \in Wire
    BY <1>4 DEF Receive, ProofInv, ChatType, ChanType
  <2>2. CASE w.type = "part" /\ ReceivePart(q, w)
    <3>1. w.msg \in Msg
      BY <2>1, <2>2 DEF Wire
    <3> HIDE DEF w
    <3>2. log' = log \/ log' = [log EXCEPT ![q] = Append(log[q], w.msg)]
      BY <2>2 DEF ReceivePart, ReceiveMeta, ReceiveChunk, Appended, showing
    <3>3. QED
      BY <1>1, <1>3, <3>1, <3>2
  <2>3. CASE ~(w.type = "part" /\ ReceivePart(q, w))
    <3>1. UNCHANGED log
      BY <1>4, <2>3 DEF Receive, ReceiveReact, ReceiveVote, showing, w
    <3>2. QED
      BY <1>3, <3>1
  <2>4. QED
    BY <2>2, <2>3
<1>5. ASSUME NEW m \in Msg, NEW w \in Way,
             WaitEnds(m, w) \/ PacketSent(m, w) \/ PacketFails(m, w) \/ PauseEnds(m, w)
      PROVE  UNCHANGED log
  BY <1>5 DEF WaitEnds, PacketSent, PacketFails, PauseEnds, showing
<1>6. ASSUME NEW p \in Peer,
             RetryPending(p) \/ Interrupt(p) \/ Close(p) \/ Ready(p) \/ Reload(p)
      PROVE  UNCHANGED log
  BY <1>6 DEF RetryPending, Interrupt, Close, Ready, Reload, showing
<1>7. ASSUME NEW p \in Peer, NEW m \in Msg,
             (\E e \in Emoji : React(p, m, e)) \/ (\E o \in Option : Vote(p, m, o))
      PROVE  UNCHANGED log
  BY <1>7 DEF React, Vote, showing
<1>8. CASE UNCHANGED vars
  BY <1>3, <1>8 DEF vars
<1>9. QED
  BY <1>2, <1>3, <1>4, <1>5, <1>6, <1>7, <1>8 DEF Next, Publishing

(* A part of a log of p, all of p's own messages. *)
Own(s, p) == s \in Seq(Msg) /\ \A n \in DOMAIN s : Author[s[n]] = p /\ Shown(p, s[n])

LoopInv == LoopType /\ RetryInv

(* What the retry loop selects. *)
LEMMA UnsentIsOwn ==
  ASSUME ProofInv, NEW p \in Peer
  PROVE  Own(Unsent(p), p)
<1> DEFINE S == {m \in Msg : Author[m] = p /\ status[m] \in {"sending", "failed"}}
           u == Kept(log[p], S)
<1>1. log[p] \in Seq(Msg)
  BY DEF ProofInv, ChatType, LogType
<1>2. /\ u \in Seq(Msg)
      /\ \A i \in DOMAIN u : u[i] \in S /\ \E k \in DOMAIN log[p] : u[i] = log[p][k]
  <2> HIDE DEF S
  <2>1. QED
    BY <1>1, KeptElements
<1>3. Unsent(p) = u
  BY DEF Unsent
<1> HIDE DEF u
<1>4. \A i \in DOMAIN u : Author[u[i]] = p /\ u[i] \in ToSet(log[p])
  BY <1>2 DEF ToSet
<1>5. QED
  BY <1>2, <1>3, <1>4 DEF Own, Shown

(* What is left of a sequence of own messages. *)
LEMMA TailIsOwn ==
  ASSUME NEW p, NEW s, Own(s, p), s # <<>>
  PROVE  /\ Own(Tail(s), p)
         /\ Head(s) \in Msg /\ Author[Head(s)] = p /\ Shown(p, Head(s))
<1>1. s \in Seq(Msg) /\ s # <<>>
  BY DEF Own
<1>2. /\ Tail(s) \in Seq(Msg) /\ 1 \in DOMAIN s /\ Head(s) = s[1] /\ Head(s) \in Msg
      /\ \A n \in DOMAIN Tail(s) : n + 1 \in DOMAIN s /\ Tail(s)[n] = s[n + 1]
  BY <1>1
<1>3. QED
  BY <1>2 DEF Own

(* What the loop goes on with: messages of p, none of which it publishes.  *)
Continues(p, rest, st, runs) ==
  /\ Own(rest, p)
  /\ st \in [Msg -> Statuses] /\ runs \in [Msg \X Way -> Run]
  /\ \A m \in Msg : Author[m] = p => runs[<<m, "retry">>] = Idle
  /\ \A m \in Msg : Author[m] # p => runs[<<m, "retry">>] = pub[<<m, "retry">>]
  /\ \A m \in Msg : ~Shown(Author[m], m) =>
       st[m] = "unsent" /\ \A w \in Way : runs[<<m, w>>] = Idle

(* The loop goes on. *)
LEMMA RetryFromLoop ==
  ASSUME ProofInv, LoopInv, NEW p \in Peer, NEW rest, NEW st, NEW runs,
         Continues(p, rest, st, runs), UNCHANGED log, RetryFrom(p, rest, st, runs)
  PROVE  LoopInv'
<1> USE DEF LoopInv, LoopType, Continues
<1>0. rest \in Seq(Msg)
  BY DEF Own
<1>1. CASE rest = <<>> \/ conn[p] = "dead"
  <2>1. /\ retrying' = [retrying EXCEPT ![p] = <<>>]
        /\ status' = [m \in Msg |-> IF m \in ToSet(rest) THEN "failed" ELSE st[m]]
        /\ pub' = runs
    BY <1>1 DEF RetryFrom
  <2>2. \A q \in Peer : retrying'[q] = IF q = p THEN <<>> ELSE retrying[q]
    BY <2>1
  <2>3. LoopType'
    BY <2>1
  <2>4. ASSUME NEW q \in Peer, NEW n \in DOMAIN retrying'[q]
        PROVE  Author[retrying'[q][n]] = q /\ Shown(q, retrying[q][n]) /\ q # p
    BY <2>2, <2>4 DEF RetryInv
  <2>5. ASSUME NEW q \in Peer, NEW n \in DOMAIN retrying'[q]
        PROVE  Author[retrying'[q][n]] = q /\ retrying'[q][n] \in ToSet(log'[q])
    BY <2>2, <2>4, <2>5 DEF Shown
  <2>6. ASSUME NEW m \in Msg, pub'[<<m, "retry">>] # Idle
        PROVE  retrying'[Author[m]] # <<>> /\ Head(retrying'[Author[m]]) = m
    <3>1. Author[m] # p /\ pub[<<m, "retry">>] # Idle /\ Author[m] \in Peer
      BY <2>1, <2>6, ChatAssumption
    <3>2. QED
      BY <2>2, <3>1 DEF RetryInv
  <2>7. ASSUME NEW m \in Msg,
               status'[m] # "unsent" \/ (\E w \in Way : pub'[<<m, w>>] # Idle)
        PROVE  m \in ToSet(log'[Author[m]])
    <3>1. CASE m \in ToSet(rest)
      <4>1. PICK n \in DOMAIN rest : m = rest[n]
        BY <3>1 DEF ToSet
      <4>2. QED
        BY <4>1 DEF Own, Shown
    <3>2. CASE m \notin ToSet(rest)
      BY <2>1, <2>7, <3>2 DEF Shown
    <3>3. QED
      BY <3>1, <3>2
  <2>8. RetryInv'
    BY <2>5, <2>6, <2>7 DEF RetryInv, Shown
  <2>9. QED
    BY <2>3, <2>8
<1>2. CASE ~(rest = <<>> \/ conn[p] = "dead")
  <2> DEFINE h == Head(rest)
             k == <<h, "retry">>
  <2>1. /\ retrying' = [retrying EXCEPT ![p] = rest]
        /\ status' = [st EXCEPT ![h] = "sending"]
        /\ pub' = [runs EXCEPT ![k] = Started(p)]
    BY <1>2 DEF RetryFrom
  <2>2. h \in Msg /\ Author[h] = p /\ Shown(p, h)
    BY <1>2, TailIsOwn
  <2>3. k \in Msg \X Way
    BY <2>2 DEF Way
  <2>4. \A q \in Peer : retrying'[q] = IF q = p THEN rest ELSE retrying[q]
    BY <2>1
  <2>5. LoopType'
    BY <1>0, <2>1
  <2>6. ASSUME NEW q \in Peer, NEW n \in DOMAIN retrying'[q]
        PROVE  Author[retrying'[q][n]] = q /\ retrying'[q][n] \in ToSet(log'[q])
    <3>1. CASE q = p
      BY <2>4, <2>6, <3>1 DEF Own, Shown
    <3>2. CASE q # p
      BY <2>4, <2>6, <3>2 DEF RetryInv, Shown
    <3>3. QED
      BY <3>1, <3>2
  <2>7. ASSUME NEW m \in Msg, pub'[<<m, "retry">>] # Idle
        PROVE  retrying'[Author[m]] # <<>> /\ Head(retrying'[Author[m]]) = m
    <3>1. CASE m = h
      BY <1>2, <2>2, <2>4, <3>1
    <3>2. CASE m # h
      <4>1. <<m, "retry">> # k /\ <<m, "retry">> \in Msg \X Way
        BY <3>2 DEF Way
      <4>2. pub'[<<m, "retry">>] = runs[<<m, "retry">>]
        <5> HIDE DEF k
        <5>1. QED
          BY <2>1, <4>1
      <4>3. Author[m] # p /\ pub[<<m, "retry">>] # Idle /\ Author[m] \in Peer
        BY <2>7, <4>2, ChatAssumption
      <4>4. QED
        BY <2>4, <4>3 DEF RetryInv
    <3>3. QED
      BY <3>1, <3>2
  <2>8. ASSUME NEW m \in Msg,
               status'[m] # "unsent" \/ (\E w \in Way : pub'[<<m, w>>] # Idle)
        PROVE  m \in ToSet(log'[Author[m]])
    <3>1. CASE m = h
      BY <2>2, <3>1 DEF Shown
    <3>2. CASE m # h
      <4>1. \A w \in Way : <<m, w>> # k /\ <<m, w>> \in Msg \X Way
        BY <3>2
      <4>2. \A w \in Way : pub'[<<m, w>>] = runs[<<m, w>>]
        <5> HIDE DEF k
        <5>1. QED
          BY <2>1, <4>1
      <4>3. status'[m] = st[m]
        BY <2>1, <3>2
      <4>4. QED
        BY <2>8, <4>2, <4>3 DEF Shown
    <3>3. QED
      BY <3>1, <3>2
  <2>9. RetryInv'
    BY <2>6, <2>7, <2>8 DEF RetryInv, Shown
  <2>10. QED
    BY <2>5, <2>9
<1>3. QED
  BY <1>1, <1>2

(* The end of a publish. *)
LEMMA EndsLoop ==
  ASSUME ProofInv, LoopInv, NEW m \in Msg, NEW w \in Way,
         pub[<<m, w>>] # Idle, NEW s \in Statuses, UNCHANGED log, Ends(m, w, s)
  PROVE  LoopInv'
<1> DEFINE p == Author[m]
           k == <<m, w>>
           st == [status EXCEPT ![m] = s]
           runs == [pub EXCEPT ![k] = Idle]
<1>1. k \in Msg \X Way /\ p \in Peer /\ Shown(p, m)
  BY ChatAssumption DEF LoopInv, RetryInv
<1>2. \A y \in Msg, x \in Way : <<y, x>> \in Msg \X Way /\ (<<y, x>> = k => y = m /\ x = w)
  OBVIOUS
<1>3. pub \in [Msg \X Way -> Run] /\ status \in [Msg -> Statuses]
  BY DEF ProofInv, ChatType, PublishType
<1>4. st \in [Msg -> Statuses] /\ runs \in [Msg \X Way -> Run]
  BY <1>3, RunTypes
<1>5. \A y \in Msg, x \in Way : runs[<<y, x>>] = IF y = m /\ x = w THEN Idle ELSE pub[<<y, x>>]
  BY <1>1, <1>2, <1>3
<1>6. ASSUME NEW y \in Msg, ~Shown(Author[y], y)
      PROVE  st[y] = "unsent" /\ \A x \in Way : runs[<<y, x>>] = Idle
  <2>1. y # m
    BY <1>1, <1>6
  <2>2. status[y] = "unsent" /\ \A x \in Way : pub[<<y, x>>] = Idle
    BY <1>6 DEF LoopInv, RetryInv
  <2>3. QED
    BY <1>3, <1>5, <2>1, <2>2
<1>7. Ends(m, w, s) =>
        IF w = "retry" THEN RetryFrom(p, Tail(retrying[p]), st, runs)
        ELSE status' = st /\ pub' = runs /\ UNCHANGED retrying
  BY DEF Ends
<1> HIDE DEF st, runs, k
<1>8. CASE w = "retry"
  <2>1. pub[<<m, "retry">>] # Idle
    BY <1>8
  <2>2. retrying[p] # <<>> /\ Head(retrying[p]) = m
    BY <2>1 DEF LoopInv, RetryInv
  <2>3. Own(retrying[p], p)
    BY <1>1 DEF LoopInv, LoopType, RetryInv, Own
  <2>4. Own(Tail(retrying[p]), p)
    BY <2>2, <2>3, TailIsOwn
  <2>5. ASSUME NEW y \in Msg, Author[y] = p PROVE runs[<<y, "retry">>] = Idle
    <3>1. CASE y = m
      BY <1>5, <1>8, <3>1
    <3>2. CASE y # m
      <4>1. pub[<<y, "retry">>] = Idle
        BY <2>2, <2>5, <3>2 DEF LoopInv, RetryInv
      <4>2. QED
        BY <1>5, <3>2, <4>1 DEF Way
    <3>3. QED
      BY <3>1, <3>2
  <2>6. \A y \in Msg : Author[y] # p => runs[<<y, "retry">>] = pub[<<y, "retry">>]
    BY <1>5 DEF Way
  <2>7. RetryFrom(p, Tail(retrying[p]), st, runs)
    BY <1>7, <1>8
  <2>8. Continues(p, Tail(retrying[p]), st, runs)
    BY <1>4, <1>6, <2>4, <2>5, <2>6 DEF Continues
  <2>9. QED
    BY <1>1, <2>7, <2>8, RetryFromLoop
<1>9. CASE w # "retry"
  <2>1. status' = st /\ pub' = runs /\ UNCHANGED retrying
    BY <1>7, <1>9
  <2>2. \A y \in Msg : pub'[<<y, "retry">>] = pub[<<y, "retry">>]
    BY <1>5, <1>9, <2>1 DEF Way
  <2>3. \A y \in Msg : status'[y] # "unsent" \/ (\E x \in Way : pub'[<<y, x>>] # Idle) => y \in ToSet(log'[Author[y]])
    BY <1>6, <2>1 DEF Shown
  <2>4. RetryInv'
    BY <2>1, <2>2, <2>3 DEF LoopInv, RetryInv, Shown
  <2>5. QED
    BY <2>1, <2>4 DEF LoopInv, LoopType
<1>10. QED
  BY <1>8, <1>9

(* The progress of one. *)
LEMMA ProceedsLoop ==
  ASSUME ProofInv, LoopInv, NEW m \in Msg, NEW w \in Way,
         pub[<<m, w>>] # Idle, NEW run, UNCHANGED log, Proceeds(m, w, run)
  PROVE  LoopInv'
<1> DEFINE k == <<m, w>>
<1>1. k \in Msg \X Way /\ \A y \in Msg, x \in Way : <<y, x>> \in Msg \X Way
  OBVIOUS
<1>2. pub \in [Msg \X Way -> Run]
  BY DEF ProofInv, ChatType, PublishType
<1>3. pub' = [pub EXCEPT ![k] = run] /\ status' = status /\ retrying' = retrying
  BY DEF Proceeds
<1>4. pub[k] # Idle
  OBVIOUS
<1> HIDE DEF k
<1>5. \A y \in Msg, x \in Way : pub'[<<y, x>>] # Idle => pub[<<y, x>>] # Idle
  BY <1>1, <1>2, <1>3, <1>4
<1>6. \A y \in Msg : pub'[<<y, "retry">>] # Idle => pub[<<y, "retry">>] # Idle
  BY <1>5 DEF Way
<1>7. RetryInv'
  BY <1>3, <1>5, <1>6 DEF LoopInv, RetryInv, Shown
<1>8. QED
  BY <1>3, <1>7 DEF LoopInv, LoopType

(* Whatever else leaves the publishes alone. *)
LEMMA SameLoop ==
  ASSUME LoopInv, \A q \in Peer, m \in Msg : Shown(q, m) => Shown(q, m)',
         UNCHANGED <<status, pub, retrying>>
  PROVE  LoopInv'
<1> USE DEF LoopInv, LoopType
<1>1. ASSUME NEW q \in Peer, NEW n \in DOMAIN retrying[q]
      PROVE  Author[retrying[q][n]] = q /\ retrying[q][n] \in ToSet(log'[q])
  <2>1. retrying[q][n] \in Msg
    OBVIOUS
  <2>2. QED
    BY <2>1 DEF RetryInv, Shown
<1>2. \A m \in Msg : Shown(Author[m], m) => m \in ToSet(log'[Author[m]])
  BY ChatAssumption DEF Shown
<1>3. RetryInv'
  BY <1>1, <1>2 DEF RetryInv, Shown
<1>4. QED
  BY <1>3

(* Every step keeps what the retry loop is doing. *)
LEMMA LoopStep ==
  ASSUME ProofInv, ProofInv', LoopInv, [Next]_vars
  PROVE  LoopInv'
<1>0. \A q \in Peer, m \in Msg : Shown(q, m) => Shown(q, m)'
  BY LogGrows
<1>1. ASSUME NEW m \in Msg, SendChat(m) PROVE LoopInv'
  <2> DEFINE k == <<m, "send">>
             p == Author[m]
  <2>1. /\ status[m] = "unsent" /\ p \in Peer
        /\ log' = [log EXCEPT ![p] = Append(log[p], m)]
        /\ \E s : status' = [status EXCEPT ![m] = s]
        /\ \E r : pub' = [pub EXCEPT ![k] = r]
        /\ retrying' = retrying
    BY <1>1, ChatAssumption DEF SendChat
  <2>2. k \in Msg \X Way /\ \A y \in Msg, x \in Way : <<y, x>> \in Msg \X Way
    BY DEF Way
  <2>3. \A y \in Msg, x \in Way : y # m => <<y, x>> # k
    OBVIOUS
  <2>4. \A y \in Msg : <<y, "retry">> # k
    OBVIOUS
  <2>5. pub \in [Msg \X Way -> Run] /\ status \in [Msg -> Statuses] /\ log[p] \in Seq(Msg)
    BY <2>1 DEF ProofInv, ChatType, PublishType, LogType
  <2> HIDE DEF k
  <2>6. \A y \in Msg : pub'[<<y, "retry">>] = pub[<<y, "retry">>]
    BY <2>1, <2>2, <2>4, <2>5 DEF Way
  <2>7. m \in ToSet(log'[p])
    <3>1. ToSet(Append(log[p], m)) = ToSet(log[p]) \union {m}
      BY <2>5, AppendShows
    <3>2. QED
      BY <2>1, <3>1 DEF ProofInv, ChatType, LogType
  <2>8. ASSUME NEW y \in Msg, status'[y] # "unsent" \/ (\E x \in Way : pub'[<<y, x>>] # Idle)
        PROVE  y \in ToSet(log'[Author[y]])
    <3>1. CASE y = m
      BY <2>7, <3>1
    <3>2. CASE y # m
      <4>1. status'[y] = status[y] /\ \A x \in Way : pub'[<<y, x>>] = pub[<<y, x>>]
        BY <2>1, <2>2, <2>3, <2>5, <3>2
      <4>2. Shown(Author[y], y)
        BY <2>8, <4>1 DEF LoopInv, RetryInv
      <4>3. QED
        BY <1>0, <4>2, ChatAssumption DEF Shown
    <3>3. QED
      BY <3>1, <3>2
  <2>9. ASSUME NEW q \in Peer, NEW n \in DOMAIN retrying[q]
        PROVE  Author[retrying[q][n]] = q /\ retrying[q][n] \in ToSet(log'[q])
    <3>1. retrying[q][n] \in Msg
      BY DEF LoopInv, LoopType
    <3>2. QED
      BY <1>0, <3>1 DEF LoopInv, RetryInv, Shown
  <2>10. RetryInv'
    BY <2>1, <2>6, <2>8, <2>9 DEF LoopInv, RetryInv, Shown
  <2>11. QED
    BY <2>1, <2>10 DEF LoopInv, LoopType
<1>2. ASSUME NEW m \in Msg, NEW w \in Way,
             WaitEnds(m, w) \/ PacketSent(m, w) \/ PacketFails(m, w) \/ PauseEnds(m, w)
      PROVE  LoopInv'
  <2>1. pub[<<m, w>>] # Idle /\ UNCHANGED log
    BY <1>2 DEF WaitEnds, PacketSent, PacketFails, PauseEnds, Idle, showing
  <2>2. (\E run : Proceeds(m, w, run)) \/ (\E s \in Statuses : Ends(m, w, s))
    <3>1. "failed" \in Statuses /\ "sent" \in Statuses
      BY DEF Statuses
    <3>2. QED
      BY <1>2, <3>1 DEF WaitEnds, PacketSent, PacketFails, PauseEnds
  <2>3. QED
    BY <2>1, <2>2, ProceedsLoop, EndsLoop
<1>3. ASSUME NEW p \in Peer, RetryPending(p) PROVE LoopInv'
  <2>1. UNCHANGED log
    BY <1>3 DEF RetryPending, showing
  <2>2. CASE RetryFrom(p, Unsent(p), status, pub) /\ ~InFlight(p)
    <3>1. Own(Unsent(p), p)
      BY UnsentIsOwn
    <3>2. \A m \in Msg : Author[m] = p => pub[<<m, "retry">>] = Idle
      BY <2>2 DEF InFlight, LoopInv, RetryInv
    <3>3. \A m \in Msg : ~Shown(Author[m], m) =>
            status[m] = "unsent" /\ \A w \in Way : pub[<<m, w>>] = Idle
      BY DEF LoopInv, RetryInv
    <3>4. status \in [Msg -> Statuses] /\ pub \in [Msg \X Way -> Run]
      BY DEF ProofInv, ChatType, PublishType
    <3>5. Continues(p, Unsent(p), status, pub)
      BY <3>1, <3>2, <3>3, <3>4 DEF Continues
    <3>6. QED
      BY <2>1, <2>2, <3>5, RetryFromLoop
  <2>3. CASE UNCHANGED <<status, pub, retrying>>
    BY <1>0, <2>3, SameLoop
  <2>4. QED
    BY <1>3, <2>2, <2>3 DEF RetryPending
<1>4. ASSUME NEW p \in Peer, Interrupt(p) \/ Close(p) \/ Ready(p) PROVE LoopInv'
  BY <1>0, <1>4, SameLoop DEF Interrupt, Close, Ready, sending
<1>5. ASSUME NEW p \in Peer, Reload(p) PROVE LoopInv'
  <2>1. /\ UNCHANGED log
        /\ status' = [m \in Msg |->
             IF Author[m] = p /\ Shown(p, m) THEN "none" ELSE status[m]]
        /\ pub' = [r \in Msg \X Way |-> IF Author[r[1]] = p THEN Idle ELSE pub[r]]
        /\ retrying' = [retrying EXCEPT ![p] = <<>>]
    BY <1>5 DEF Reload
  <2>2. LoopType'
    BY <2>1 DEF LoopInv, LoopType
  <2>3. \A q \in Peer : retrying'[q] = IF q = p THEN <<>> ELSE retrying[q]
    BY <2>1 DEF LoopInv, LoopType
  <2>4. ASSUME NEW m \in Msg, NEW w \in Way
        PROVE  pub'[<<m, w>>] = IF Author[m] = p THEN Idle ELSE pub[<<m, w>>]
    <3>1. <<m, w>> \in Msg \X Way /\ <<m, w>>[1] = m
      OBVIOUS
    <3>2. QED
      BY <2>1, <3>1
  <2>5. \A q \in Peer : \A n \in DOMAIN retrying'[q] :
          Author[retrying'[q][n]] = q /\ retrying'[q][n] \in ToSet(log'[q])
    BY <2>1, <2>3 DEF LoopInv, RetryInv, Shown
  <2>6. ASSUME NEW m \in Msg, pub'[<<m, "retry">>] # Idle
        PROVE  retrying'[Author[m]] # <<>> /\ Head(retrying'[Author[m]]) = m
    <3>1. Author[m] # p /\ pub[<<m, "retry">>] # Idle /\ Author[m] \in Peer
      BY <2>4, <2>6, ChatAssumption DEF Way
    <3>2. QED
      BY <2>3, <3>1 DEF LoopInv, RetryInv
  <2>7. ASSUME NEW m \in Msg, status'[m] # "unsent" \/ (\E w \in Way : pub'[<<m, w>>] # Idle)
        PROVE  m \in ToSet(log'[Author[m]])
    <3>1. CASE Author[m] = p /\ Shown(p, m)
      BY <2>1, <3>1 DEF Shown
    <3>2. CASE ~(Author[m] = p /\ Shown(p, m))
      <4>1. status[m] # "unsent" \/ (\E w \in Way : pub[<<m, w>>] # Idle)
        BY <2>1, <2>4, <2>7, <3>2
      <4>2. QED
        BY <2>1, <4>1 DEF LoopInv, RetryInv, Shown
    <3>3. QED
      BY <3>1, <3>2
  <2>8. RetryInv'
    BY <2>5, <2>6, <2>7 DEF RetryInv, Shown
  <2>9. QED
    BY <2>2, <2>8 DEF LoopInv
<1>6. ASSUME NEW p \in Peer, NEW m \in Msg,
             (\E e \in Emoji : React(p, m, e)) \/ (\E o \in Option : Vote(p, m, o))
      PROVE  LoopInv'
  BY <1>0, <1>6, SameLoop DEF React, Vote, sending
<1>7. ASSUME NEW p \in Peer, NEW q \in Peer, Receive(p, q) PROVE LoopInv'
  BY <1>0, <1>7, SameLoop DEF Receive, sending
<1>8. CASE UNCHANGED vars
  BY <1>0, <1>8, SameLoop DEF vars
<1>9. QED
  BY <1>1, <1>2, <1>3, <1>4, <1>5, <1>6, <1>7, <1>8 DEF Next, Publishing

(* The types of the rest and the retry loop. *)
LEMMA LoopInvariance == Spec => [](LineType /\ LoopInv)
<1>1. Init => LineType /\ LoopInv
  <2> SUFFICES ASSUME Init PROVE LineType /\ LoopInv
    OBVIOUS
  <2>1. LineType
    BY ChatAssumption DEF Init, LineType
  <2>2. LoopType
    BY DEF Init, LoopType
  <2>3. \A m \in Msg, w \in Way : <<m, w>> \in Msg \X Way /\ pub[<<m, w>>] = Idle
    BY DEF Init
  <2>4. RetryInv
    BY <2>3 DEF Init, RetryInv, Way
  <2>5. QED
    BY <2>1, <2>2, <2>4 DEF LoopInv
<1>2. ProofInv /\ ProofInv' /\ LineType /\ LoopInv /\ [Next]_vars => (LineType /\ LoopInv)'
  BY LineTypes, LoopStep
<1>3. Spec => []ProofInv
  BY ChatInvariance, PTL DEF ProofInv
<1>4. QED
  BY <1>1, <1>2, <1>3, PTL DEF Spec

(* All variables keep their types, and a running retry has a message. *)
THEOREM ChatTypeCorrect == Spec => []TypeOK
<1>1. ProofInv /\ LineType /\ LoopInv => TypeOK
  BY DEF ProofInv, ChatType, PublishType, LogType, BufferType, VoteType, ChanType, LineType,
         LoopInv, LoopType, RetryInv, TypeOK, Statuses
<1>2. Spec => []ProofInv
  BY ChatInvariance, PTL DEF ProofInv
<1>3. QED
  BY <1>1, <1>2, LoopInvariance, PTL

-----------------------------------------------------------------------------
(* What is held of a message that is not shown *)

(* Part i of m is out, as far as a publish or the status of m tells. *)
Claims(m, i) == status[m] = "sent" \/ \E w \in Way : i < pub[<<m, w>>].part

(* What a message without new claims is like. *)
LEMMA NoClaims ==
  ASSUME NEW y \in Msg, NEW i \in Nat, Claims(y, i)',
         status'[y] = "sent" => status[y] = "sent",
         \A w \in Way : pub'[<<y, w>>] = pub[<<y, w>>] \/ pub'[<<y, w>>].part = 0
  PROVE  Claims(y, i)
<1>1. CASE status'[y] = "sent"
  BY <1>1 DEF Claims
<1>2. CASE \E w \in Way : i < pub'[<<y, w>>].part
  <2>1. PICK w \in Way : i < pub'[<<y, w>>].part
    BY <1>2
  <2>2. pub'[<<y, w>>].part # 0
    BY <2>1
  <2>3. pub'[<<y, w>>] = pub[<<y, w>>]
    BY <2>2
  <2>4. i < pub[<<y, w>>].part
    BY <2>1, <2>3
  <2>5. QED
    BY <2>4 DEF Claims
<1>3. QED
  BY <1>1, <1>2 DEF Claims

(* The loop begins with a first packet and says nothing is sent. *)
LEMMA RetryFromClaims ==
  ASSUME NEW p \in Peer, NEW rest, NEW st \in [Msg -> Statuses],
         NEW runs \in [Msg \X Way -> Run], RetryFrom(p, rest, st, runs)
  PROVE  /\ \A y \in Msg : status'[y] = "sent" => st[y] = "sent"
         /\ \A y \in Msg, w \in Way :
              pub'[<<y, w>>] = runs[<<y, w>>] \/ pub'[<<y, w>>].part = 0
<1>1. CASE rest = <<>> \/ conn[p] = "dead"
  <2>1. /\ status' = [m \in Msg |-> IF m \in ToSet(rest) THEN "failed" ELSE st[m]]
        /\ pub' = runs
    BY <1>1 DEF RetryFrom
  <2>2. QED
    BY <2>1
<1>2. CASE ~(rest = <<>> \/ conn[p] = "dead")
  <2> DEFINE h == Head(rest)
             k == <<h, "retry">>
             r == Started(p)
  <2>1. status' = [st EXCEPT ![h] = "sending"] /\ pub' = [runs EXCEPT ![k] = r]
    BY <1>2 DEF RetryFrom
  <2>2. r.part = 0
    BY RunTypes
  <2> HIDE DEF h, k, r
  <2>3. \A x \in Msg \X Way : pub'[x] = runs[x] \/ pub'[x] = r
    BY <2>1
  <2>4. \A y \in Msg : status'[y] = "sent" => st[y] = "sent"
    BY <2>1
  <2>5. \A y \in Msg, w \in Way : <<y, w>> \in Msg \X Way
    OBVIOUS
  <2>6. QED
    BY <2>2, <2>3, <2>4, <2>5
<1>3. QED
  BY <1>1, <1>2

(* A publish of m that ends says at most that m is sent. *)
LEMMA EndsClaims ==
  ASSUME PublishType, NEW m \in Msg, NEW w \in Way, NEW s \in Statuses, Ends(m, w, s),
         NEW y \in Msg, NEW i \in Nat, Claims(y, i)'
  PROVE  Claims(y, i) \/ (y = m /\ s = "sent")
<1> DEFINE p == Author[m]
           k == <<m, w>>
           st == [status EXCEPT ![m] = s]
           runs == [pub EXCEPT ![k] = Idle]
<1>1. st \in [Msg -> Statuses] /\ runs \in [Msg \X Way -> Run] /\ p \in Peer
  BY RunTypes, ChatAssumption DEF PublishType
<1>2. \A x \in Msg \X Way : runs[x] = pub[x] \/ runs[x].part = 0
  BY RunTypes DEF PublishType
<1>3. st[y] = "sent" => status[y] = "sent" \/ (y = m /\ s = "sent")
  BY DEF PublishType
<1>4. RetryFrom(p, Tail(retrying[p]), st, runs) \/ (status' = st /\ pub' = runs)
  BY DEF Ends
<1> HIDE DEF st, runs, k
<1>5. /\ status'[y] = "sent" => st[y] = "sent"
      /\ \A x \in Way : pub'[<<y, x>>] = runs[<<y, x>>] \/ pub'[<<y, x>>].part = 0
  <2>1. CASE RetryFrom(p, Tail(retrying[p]), st, runs)
    BY <1>1, <2>1, RetryFromClaims
  <2>2. CASE status' = st /\ pub' = runs
    BY <2>2
  <2>3. QED
    BY <1>4, <2>1, <2>2
<1>6. \A x \in Way : pub'[<<y, x>>] = pub[<<y, x>>] \/ pub'[<<y, x>>].part = 0
  <2>1. \A x \in Way : <<y, x>> \in Msg \X Way
    OBVIOUS
  <2>2. QED
    BY <1>2, <1>5, <2>1
<1>7. CASE y = m /\ s = "sent"
  BY <1>7
<1>8. CASE ~(y = m /\ s = "sent")
  <2>1. status'[y] = "sent" => status[y] = "sent"
    BY <1>3, <1>5, <1>8
  <2>2. QED
    BY <1>6, <2>1, NoClaims
<1>9. QED
  BY <1>7, <1>8

(* One that proceeds says what is behind it. *)
LEMMA ProceedsClaims ==
  ASSUME PublishType, NEW m \in Msg, NEW w \in Way, NEW run, Proceeds(m, w, run),
         NEW y \in Msg, NEW i \in Nat, Claims(y, i)'
  PROVE  Claims(y, i) \/ (y = m /\ i < run.part)
<1> DEFINE k == <<m, w>>
<1>1. status' = status /\ pub' = [pub EXCEPT ![k] = run]
  BY DEF Proceeds
<1>2. \A x \in Way : <<y, x>> \in Msg \X Way /\ (<<y, x>> = k => y = m)
  OBVIOUS
<1> HIDE DEF k
<1>3. \A x \in Way : pub'[<<y, x>>] = pub[<<y, x>>] \/ (pub'[<<y, x>>] = run /\ y = m)
  BY <1>1, <1>2 DEF PublishType
<1>4. QED
  BY <1>1, <1>3 DEF Claims

(* A step that says more of a message has sent a packet of it. *)
LEMMA ClaimsStep ==
  ASSUME ProofInv, [Next]_vars, NEW y \in Msg, NEW i \in 0..Chunks[y], Claims(y, i)'
  PROVE  \/ Claims(y, i)
         \/ \E w \in Way : PacketSent(y, w) /\ pub[<<y, w>>].part = i
<1> USE DEF ProofInv, ChatType, ChatInv
<1>0. Chunks[y] \in Nat /\ i \in Nat
  BY ChatAssumption
<1>1. CASE UNCHANGED <<status, pub>>
  BY <1>1 DEF Claims
<1>2. ASSUME NEW m \in Msg, SendChat(m) PROVE Claims(y, i)
  <2> DEFINE k == <<m, "send">>
             r == Started(Author[m])
             s == IF conn[Author[m]] = "dead" THEN "failed" ELSE "sending"
  <2>1. status' = [status EXCEPT ![m] = s] /\ pub' = [pub EXCEPT ![k] = r]
    BY <1>2 DEF SendChat
  <2>2. r.part = 0 /\ s # "sent"
    BY ChatAssumption, RunTypes
  <2> HIDE DEF k, r, s
  <2>3. \A x \in Msg \X Way : pub'[x] = pub[x] \/ pub'[x] = r
    BY <2>1 DEF PublishType
  <2>4. \A x \in Way : <<y, x>> \in Msg \X Way
    OBVIOUS
  <2>5. status'[y] = "sent" => status[y] = "sent"
    BY <2>1, <2>2 DEF PublishType
  <2>6. QED
    BY <1>0, <2>2, <2>3, <2>4, <2>5 DEF Claims
<1>3. ASSUME NEW m \in Msg, NEW w \in Way,
             WaitEnds(m, w) \/ PacketFails(m, w) \/ PauseEnds(m, w)
      PROVE  Claims(y, i)
  <2>1. "failed" \in Statuses /\ <<m, w>> \in Msg \X Way
    BY DEF Statuses
  <2>2. CASE Ends(m, w, "failed")
    BY <1>0, <2>1, <2>2, EndsClaims
  <2>3. ASSUME NEW n \in 0..1, Proceeds(m, w, Trying(n)) PROVE Claims(y, i)
    BY <1>0, <2>3, RunTypes, ProceedsClaims
  <2>4. CASE Proceeds(m, w, [pub[<<m, w>>] EXCEPT !.step = "pause"])
    <3> DEFINE run == [pub[<<m, w>>] EXCEPT !.step = "pause"]
    <3>1. run.part = pub[<<m, w>>].part
      BY <2>1 DEF PublishType, Run
    <3> HIDE DEF run
    <3>2. Claims(y, i) \/ (y = m /\ i < run.part)
      BY <1>0, <2>4, ProceedsClaims DEF run
    <3>3. QED
      BY <3>1, <3>2 DEF Claims
  <2>5. QED
    BY <1>3, <2>2, <2>3, <2>4 DEF WaitEnds, PacketFails, PauseEnds, SecondTry
<1>4. ASSUME NEW m \in Msg, NEW w \in Way, PacketSent(m, w)
      PROVE  Claims(y, i) \/ (PacketSent(y, w) /\ pub[<<y, w>>].part = i)
  <2> DEFINE run == pub[<<m, w>>]
  <2>1. "sent" \in Statuses /\ <<m, w>> \in Msg \X Way /\ <<m, w>>[1] = m /\ Chunks[m] \in Nat
    BY ChatAssumption DEF Statuses
  <2>2. run \in Run /\ run.part \in Nat /\ run.part <= Chunks[m]
    BY <2>1 DEF PublishType, PublishInv, Run
  <2>3. \/ run.part < Chunks[m] /\ Proceeds(m, w, [run EXCEPT !.part = run.part + 1])
        \/ ~(run.part < Chunks[m]) /\ Ends(m, w, "sent")
    BY <1>4 DEF PacketSent
  <2>4. [run EXCEPT !.part = run.part + 1].part = run.part + 1
    BY <2>2 DEF Run
  <2>5. Claims(y, i) \/ (y = m /\ i <= run.part)
    <3>1. CASE run.part < Chunks[m] /\ Proceeds(m, w, [run EXCEPT !.part = run.part + 1])
      <4>1. Claims(y, i) \/ (y = m /\ i < run.part + 1)
        BY <1>0, <2>4, <3>1, ProceedsClaims
      <4>2. QED
        BY <1>0, <2>2, <4>1
    <3>2. CASE ~(run.part < Chunks[m]) /\ Ends(m, w, "sent")
      <4>1. Claims(y, i) \/ y = m
        BY <1>0, <2>1, <3>2, EndsClaims
      <4>2. QED
        BY <1>0, <2>1, <2>2, <3>2, <4>1
    <3>3. QED
      BY <2>3, <3>1, <3>2
  <2>6. y = m /\ i < run.part => Claims(y, i)
    BY DEF Claims
  <2>7. QED
    BY <1>0, <1>4, <2>2, <2>5, <2>6
<1>5. ASSUME NEW p \in Peer, RetryPending(p) PROVE Claims(y, i)
  <2>1. CASE RetryFrom(p, Unsent(p), status, pub)
    <3>1. /\ status'[y] = "sent" => status[y] = "sent"
          /\ \A w \in Way : pub'[<<y, w>>] = pub[<<y, w>>] \/ pub'[<<y, w>>].part = 0
      BY <2>1, RetryFromClaims DEF PublishType
    <3>2. QED
      BY <1>0, <3>1, NoClaims
  <2>2. QED
    BY <1>1, <1>5, <2>1 DEF RetryPending, Claims
<1>6. ASSUME NEW p \in Peer, Interrupt(p) \/ Close(p) \/ Ready(p) PROVE Claims(y, i)
  BY <1>6 DEF Interrupt, Close, Ready, sending, Claims
<1>7. ASSUME NEW p \in Peer, Reload(p) PROVE Claims(y, i)
  <2>1. /\ status' = [m \in Msg |->
             IF Author[m] = p /\ Shown(p, m) THEN "none" ELSE status[m]]
        /\ pub' = [r \in Msg \X Way |-> IF Author[r[1]] = p THEN Idle ELSE pub[r]]
    BY <1>7 DEF Reload
  <2>2. \A w \in Way : pub'[<<y, w>>] = Idle \/ pub'[<<y, w>>] = pub[<<y, w>>]
    BY <2>1
  <2>3. status'[y] = "sent" => status[y] = "sent"
    BY <2>1
  <2>4. \A w \in Way : pub'[<<y, w>>] = pub[<<y, w>>] \/ pub'[<<y, w>>].part = 0
    BY <2>2, RunTypes
  <2>5. QED
    BY <1>0, <2>3, <2>4, NoClaims
<1>8. ASSUME NEW p \in Peer, NEW m \in Msg,
             (\E e \in Emoji : React(p, m, e)) \/ (\E o \in Option : Vote(p, m, o))
      PROVE  Claims(y, i)
  BY <1>8 DEF React, Vote, sending, Claims
<1>9. ASSUME NEW p \in Peer, NEW q \in Peer, Receive(p, q) PROVE Claims(y, i)
  BY <1>9 DEF Receive, sending, Claims
<1>10. CASE UNCHANGED vars
  BY <1>1, <1>10 DEF vars
<1>11. QED
  BY <1>2, <1>3, <1>4, <1>5, <1>6, <1>7, <1>8, <1>9, <1>10 DEF Next, Publishing

(* A packet more on its way. *)
LEMMA HeldAppend ==
  ASSUME NEW c \in Seq(Wire), NEW b, NEW m, NEW i, NEW w \in Wire, HeldIn(c, b, m, i)
  PROVE  HeldIn(Append(c, w), b, m, i)
<1> DEFINE d == Append(c, w)
<1>1. \A n \in DOMAIN c : n \in DOMAIN d /\ d[n] = c[n] /\ \A k \in 1..(n - 1) : k \in DOMAIN c /\ d[k] = c[k]
  OBVIOUS
<1> HIDE DEF d
<1>2. CASE b # None /\ (i = 0 \/ i \in b.have)
  BY <1>2 DEF HeldIn
<1>3. CASE ~(b # None /\ (i = 0 \/ i \in b.have))
  <2>1. PICK n \in DOMAIN c :
          IsPart(c[n], m, i) /\ (i = 0 \/ b # None \/ \E k \in 1..(n - 1) : IsPart(c[k], m, 0))
    BY <1>3 DEF HeldIn
  <2>2. n \in DOMAIN d /\ IsPart(d[n], m, i)
    BY <1>1, <2>1
  <2>3. i = 0 \/ b # None \/ \E k \in 1..(n - 1) : IsPart(d[k], m, 0)
    BY <1>1, <2>1
  <2>4. HeldIn(d, b, m, i)
    BY <2>2, <2>3 DEF HeldIn
  <2>5. QED
    BY <2>4 DEF d
<1>4. QED
  BY <1>2, <1>3

(* The packet of part i, sent behind the meta. *)
LEMMA HeldSent ==
  ASSUME NEW c \in Seq(Wire), NEW b, NEW m, NEW i, NEW w \in Wire,
         IsPart(w, m, i), i = 0 \/ HeldIn(c, b, m, 0)
  PROVE  HeldIn(Append(c, w), b, m, i)
<1> DEFINE d == Append(c, w)
           l == Len(c) + 1
<1>1. /\ l \in DOMAIN d /\ d[l] = w
      /\ \A n \in DOMAIN c : n \in 1..(l - 1) /\ d[n] = c[n]
  OBVIOUS
<1> HIDE DEF d, l
<1>2. i = 0 \/ b # None \/ \E k \in 1..(l - 1) : IsPart(d[k], m, 0)
  <2>1. CASE i = 0 \/ b # None
    BY <2>1
  <2>2. CASE ~(i = 0 \/ b # None)
    <3>1. PICK n \in DOMAIN c : IsPart(c[n], m, 0)
      BY <2>2 DEF HeldIn
    <3>2. QED
      BY <1>1, <3>1
  <2>3. QED
    BY <2>1, <2>2
<1>3. HeldIn(d, b, m, i)
  BY <1>1, <1>2 DEF HeldIn
<1>4. QED
  BY <1>3 DEF d

(* The first packet arrives: what is behind it is still on its way, and    *)
(* the part in it is in the buffer if there is one.                        *)
LEMMA HeldTail ==
  ASSUME NEW c \in Seq(Wire), c # <<>>, NEW b, NEW e, NEW m, NEW i, HeldIn(c, b, m, i),
         b # None => e # None /\ b.have \subseteq e.have,
         IsPart(Head(c), m, 0) => e # None,
         IsPart(Head(c), m, i) /\ i # 0 /\ b # None => i \in e.have
  PROVE  HeldIn(Tail(c), e, m, i)
<1> DEFINE d == Tail(c)
<1>1. /\ Head(c) = c[1]
      /\ \A n \in DOMAIN c : n # 1 => n - 1 \in DOMAIN d /\ d[n - 1] = c[n]
      /\ \A n \in DOMAIN c : n \in Int
  <2>1. /\ Len(c) \in Nat /\ Len(c) # 0 /\ DOMAIN c = 1..Len(c) /\ Head(c) = c[1]
        /\ DOMAIN d = 1..(Len(c) - 1)
        /\ \A n \in 1..(Len(c) - 1) : d[n] = c[n + 1]
    OBVIOUS
  <2> HIDE DEF d
  <2>2. ASSUME NEW n \in DOMAIN c, n # 1
        PROVE  n - 1 \in 1..(Len(c) - 1) /\ n - 1 + 1 = n
    BY <2>1, <2>2
  <2>3. ASSUME NEW n \in DOMAIN c, n # 1
        PROVE  n - 1 \in DOMAIN d /\ d[n - 1] = c[n]
    BY <2>1, <2>2, <2>3
  <2>4. QED
    BY <2>1, <2>3
<1> HIDE DEF d
<1>2. CASE b # None /\ (i = 0 \/ i \in b.have)
  BY <1>2 DEF HeldIn
<1>3. CASE ~(b # None /\ (i = 0 \/ i \in b.have))
  <2>1. PICK n \in DOMAIN c :
          IsPart(c[n], m, i) /\ (i = 0 \/ b # None \/ \E k \in 1..(n - 1) : IsPart(c[k], m, 0))
    BY <1>3 DEF HeldIn
  <2>2. CASE n = 1
    <3>1. i = 0 \/ b # None
      BY <2>1, <2>2
    <3>2. e # None /\ (i = 0 \/ i \in e.have)
      BY <1>1, <2>1, <2>2, <3>1
    <3>3. QED
      BY <3>2 DEF HeldIn
  <2>3. CASE n # 1
    <3>1. n - 1 \in DOMAIN d /\ IsPart(d[n - 1], m, i)
      BY <1>1, <2>1, <2>3
    <3>2. i = 0 \/ e # None \/ \E k \in 1..(n - 1 - 1) : IsPart(d[k], m, 0)
      <4>1. CASE i = 0 \/ b # None
        BY <4>1
      <4>2. CASE ~(i = 0 \/ b # None)
        <5>1. PICK k \in 1..(n - 1) : IsPart(c[k], m, 0)
          BY <2>1, <4>2
        <5>2. CASE k = 1
          BY <1>1, <5>1, <5>2
        <5>3. CASE k # 1
          <6>1. k \in DOMAIN c /\ n \in Nat
            BY <2>1
          <6>2. d[k - 1] = c[k] /\ k - 1 \in 1..(n - 1 - 1)
            BY <1>1, <5>3, <6>1
          <6>3. QED
            BY <5>1, <6>2
        <5>4. QED
          BY <5>2, <5>3
      <4>3. QED
        BY <4>1, <4>2
    <3>3. HeldIn(d, e, m, i)
      BY <3>1, <3>2 DEF HeldIn
    <3>4. QED
      BY <3>3 DEF d
  <2>4. QED
    BY <2>2, <2>3
<1>4. QED
  BY <1>2, <1>3

(* Whoever misses a packet is in the gap for good. *)
LEMMA GapGrows ==
  ASSUME [Next]_vars
  PROVE  gap \subseteq gap'
<1>1. ASSUME NEW m \in Msg, NEW w \in Way,
             WaitEnds(m, w) \/ PacketSent(m, w) \/ PacketFails(m, w) \/ PauseEnds(m, w)
      PROVE  gap \subseteq gap'
  BY <1>1 DEF WaitEnds, PacketSent, PacketFails, PauseEnds, Reached, history
<1>2. ASSUME NEW p \in Peer,
             \/ RetryPending(p) \/ Interrupt(p) \/ Close(p) \/ Ready(p) \/ Reload(p)
             \/ \E m \in Msg, e \in Emoji : React(p, m, e)
             \/ \E m \in Msg, o \in Option : Vote(p, m, o)
      PROVE  gap \subseteq gap'
  <2>1. CASE Close(p) \/ Ready(p) \/ Reload(p)
    BY <2>1 DEF Close, Ready, Reload, Loses
  <2>2. CASE RetryPending(p) \/ Interrupt(p)
    BY <2>2 DEF RetryPending, Interrupt, history
  <2>3. CASE \/ \E m \in Msg, e \in Emoji : React(p, m, e)
             \/ \E m \in Msg, o \in Option : Vote(p, m, o)
    BY <2>3 DEF React, Vote, Published, Reached
  <2>4. QED
    BY <1>2, <2>1, <2>2, <2>3
<1>3. ASSUME NEW m \in Msg, SendChat(m) PROVE gap \subseteq gap'
  BY <1>3 DEF SendChat, history
<1>4. ASSUME NEW p \in Peer, NEW q \in Peer, Receive(p, q) PROVE gap \subseteq gap'
  BY <1>4 DEF Receive, history
<1>5. CASE UNCHANGED vars
  BY <1>5 DEF vars, history
<1>6. QED
  BY <1>1, <1>2, <1>3, <1>4, <1>5 DEF Next, Publishing

(* A packet that is published is behind the others. *)
LEMMA ReachedAppends ==
  ASSUME ProofInv, NEW p \in Peer, NEW w, Reached(p, w), NEW a \in Peer,
         NEW q \in Peer, conn[q] # "dead" \/ q = p
  PROVE  chan'[a][q] = IF a = p /\ q # p THEN Append(chan[a][q], w) ELSE chan[a][q]
<1>2. chan \in [Peer -> [Peer -> Seq(Wire)]]
  BY DEF ProofInv, ChatType, ChanType
<1>3. chan' = [chan EXCEPT ![p] = [x \in Peer |->
        IF x # p /\ conn[x] # "dead" THEN Append(chan[p][x], w) ELSE chan[p][x]]]
  BY <1>2 DEF Reached
<1>4. CASE a = p
  <2>1. chan'[p][q] = IF q # p /\ conn[q] # "dead" THEN Append(chan[p][q], w) ELSE chan[p][q]
    BY <1>2, <1>3
  <2>2. QED
    BY <1>4, <2>1
<1>5. CASE a # p
  BY <1>2, <1>3, <1>5
<1>6. QED
  BY <1>4, <1>5

(* What those who miss nothing had on their way is still on its way. *)
LineKept ==
  \A q \in Peer \ gap' :
    /\ buffers'[q] = buffers[q]
    /\ \A a \in Peer : chan'[a][q] = chan[a][q]
                       \/ \E w \in Wire : chan'[a][q] = Append(chan[a][q], w)

(* Only arrivals take packets from those who miss nothing. *)
LEMMA LineStep ==
  ASSUME ProofInv, [Next]_vars
  PROVE  LineKept \/ \E p, q \in Peer : Receive(p, q)
<1> USE DEF LineKept
<1>1. CASE UNCHANGED <<chan, buffers>>
  BY <1>1
<1>2. ASSUME NEW p \in Peer, NEW w \in Wire, Reached(p, w), UNCHANGED buffers PROVE LineKept
  <2>1. ASSUME NEW q \in Peer, q \notin gap', NEW a \in Peer
        PROVE  chan'[a][q] = chan[a][q] \/ chan'[a][q] = Append(chan[a][q], w)
    <3>1. chan'[a][q] = IF a = p /\ q # p THEN Append(chan[a][q], w) ELSE chan[a][q]
      <4>1. conn[q] # "dead" \/ q = p
        BY <1>2, <2>1 DEF Reached
      <4>2. QED
        BY <1>2, <4>1, ReachedAppends
    <3>2. QED
      BY <3>1
  <2>2. QED
    BY <1>2, <2>1
<1>3. ASSUME NEW p \in Peer, Loses(p), \A q \in Peer : q # p => buffers'[q] = buffers[q]
      PROVE  LineKept
  <2>1. p \in gap' /\ chan' = [a \in Peer |-> [chan[a] EXCEPT ![p] = <<>>]]
    BY <1>3 DEF Loses
  <2>2. \A a \in Peer, q \in Peer : q # p => chan'[a][q] = chan[a][q]
    BY <2>1 DEF ProofInv, ChatType, ChanType
  <2>3. QED
    BY <1>3, <2>1, <2>2
<1>4. ASSUME NEW m \in Msg, NEW w \in Way,
             WaitEnds(m, w) \/ PacketSent(m, w) \/ PacketFails(m, w) \/ PauseEnds(m, w)
      PROVE  LineKept
  <2>1. CASE PacketSent(m, w)
    <3> DEFINE packet == [type |-> "part", msg |-> m, part |-> pub[<<m, w>>].part,
                          votes |-> Carried(m, w)]
    <3>1. pub[<<m, w>>].part \in Nat /\ Carried(m, w) \in Voters /\ Author[m] \in Peer
      BY ChatAssumption
         DEF ProofInv, ChatType, PublishType, Run, Carried, NoVotes, Voters
    <3>2. packet \in Wire
      BY <3>1 DEF Wire
    <3>3. Reached(Author[m], packet) /\ UNCHANGED buffers
      BY <2>1 DEF PacketSent, showing
    <3>4. QED
      BY <1>2, <3>1, <3>2, <3>3
  <2>2. CASE WaitEnds(m, w) \/ PacketFails(m, w) \/ PauseEnds(m, w)
    BY <1>1, <2>2 DEF WaitEnds, PacketFails, PauseEnds, showing
  <2>3. QED
    BY <1>4, <2>1, <2>2
<1>5. ASSUME NEW p \in Peer, RetryPending(p) \/ Interrupt(p) PROVE LineKept
  BY <1>1, <1>5 DEF RetryPending, Interrupt, showing
<1>6. ASSUME NEW p \in Peer, Close(p) \/ Ready(p) \/ Reload(p) PROVE LineKept
  <2>1. CASE Close(p) \/ Ready(p)
    BY <1>1, <1>3, <2>1 DEF Close, Ready, showing
  <2>2. CASE Reload(p)
    <3>1. Loses(p) /\ \A q \in Peer : q # p => buffers'[q] = buffers[q]
      BY <2>2 DEF Reload, ProofInv, ChatType, BufferType
    <3>2. QED
      BY <1>3, <3>1
  <2>3. QED
    BY <1>6, <2>1, <2>2
<1>7. ASSUME NEW p \in Peer, NEW m \in Msg, NEW e \in Emoji, React(p, m, e) PROVE LineKept
  <2>1. [type |-> "react", msg |-> m, by |-> p, what |-> e] \in Wire
    BY DEF Wire
  <2>2. QED
    BY <1>1, <1>2, <1>7, <2>1 DEF React, Published, showing
<1>8. ASSUME NEW p \in Peer, NEW m \in Msg, NEW o \in Option, Vote(p, m, o) PROVE LineKept
  <2>1. [type |-> "vote", msg |-> m, by |-> p, what |-> o] \in Wire
    BY DEF Wire
  <2>2. QED
    BY <1>1, <1>2, <1>8, <2>1 DEF Vote, Published, showing
<1>9. ASSUME NEW m \in Msg, SendChat(m) PROVE LineKept
  BY <1>1, <1>9 DEF SendChat
<1>10. CASE UNCHANGED vars
  BY <1>1, <1>10 DEF vars
<1>11. QED
  BY <1>4, <1>5, <1>6, <1>7, <1>8, <1>9, <1>10 DEF Next, Publishing

(* What arrives for a message that stays unshown goes to its buffer. *)
Buffered(b, e, m, i) ==
  /\ i = 0 => e # None /\ (b # None => e.have = b.have)
  /\ i # 0 /\ b = None => e = None
  /\ i # 0 /\ b # None => e # None /\ e.have = b.have \union {i}
  /\ e # None /\ e # b => e.received < Chunks[m]

(* What is added is shown. *)
LEMMA AppendedIsShown ==
  ASSUME ProofInv, NEW q \in Peer, NEW m \in Msg, NEW have, NEW vs, Appended(q, m, have, vs)
  PROVE  Shown(q, m)'
<1>1. CASE Known(q, m)
  BY <1>1 DEF Appended, Known, Shown
<1>2. CASE ~Known(q, m)
  <2>1. log[q] \in Seq(Msg) /\ log' = [log EXCEPT ![q] = Append(log[q], m)]
    BY <1>2 DEF Appended, ProofInv, ChatType, LogType
  <2>2. ToSet(Append(log[q], m)) = ToSet(log[q]) \union {m}
    BY <2>1, AppendShows
  <2>3. QED
    BY <2>1, <2>2 DEF Shown, ProofInv, ChatType, LogType
<1>3. QED
  BY <1>1, <1>2

(* The buffer of a message is touched only by its own parts. *)
LEMMA PartBuffers ==
  ASSUME ProofInv, NEW q \in Peer, NEW w \in Wire, w.type = "part", ReceivePart(q, w)
  PROVE  /\ \A x \in Peer, y \in Msg :
              buffers'[x][y] = buffers[x][y] \/ (x = q /\ y = w.msg)
         /\ \/ Shown(q, w.msg)' /\ buffers'[q][w.msg] \in {buffers[q][w.msg], None}
            \/ Buffered(buffers[q][w.msg], buffers'[q][w.msg], w.msg, w.part)
<1> DEFINE m == w.msg
           b == buffers[q][m]
<1>1. m \in Msg /\ w.part \in Nat /\ Chunks[m] \in Nat
  BY ChatAssumption DEF Wire
<1>2. buffers \in [Peer -> [Msg -> Pending \union {None}]] /\ b \in Pending \union {None}
  BY <1>1 DEF ProofInv, ChatType, BufferType
<1>3. NoPending # None /\ NoPending.have = {} /\ NoPending.received = 0
  <2>1. NoPending \in Pending
    BY DEF NoPending, Pending, NoVotes, Voters
  <2>2. QED
    BY <2>1, NoBuffer DEF NoPending
<1>4. CASE Chunks[m] = 0
  <2>1. Appended(q, m, {}, w.votes) /\ UNCHANGED buffers
    BY <1>4 DEF ReceivePart
  <2>2. QED
    BY <1>1, <2>1, AppendedIsShown
<1>5. CASE Chunks[m] # 0 /\ w.part = 0
  <2> DEFINE e == Ingested(b)
  <2>1. buffers' = [buffers EXCEPT ![q][m] = e]
    BY <1>5 DEF ReceivePart, ReceiveMeta
  <2>2. e = IF b = None THEN NoPending ELSE b
    BY DEF Ingested
  <2> HIDE DEF e
  <2>3. buffers'[q][m] = e /\ \A x \in Peer, y \in Msg :
          buffers'[x][y] = buffers[x][y] \/ (x = q /\ y = m)
    BY <1>1, <1>2, <2>1
  <2>4. Buffered(b, e, m, w.part)
    BY <1>1, <1>3, <1>5, <2>2 DEF Buffered
  <2>5. QED
    BY <2>3, <2>4
<1>6. CASE Chunks[m] # 0 /\ w.part # 0
  <2>1. ReceiveChunk(q, m, w.part, w.votes)
    BY <1>6 DEF ReceivePart
  <2>2. CASE b = None
    <3>1. UNCHANGED buffers
      BY <2>1, <2>2 DEF ReceiveChunk, showing
    <3>2. Buffered(b, b, m, w.part)
      BY <1>6, <2>2 DEF Buffered
    <3>3. QED
      BY <3>1, <3>2
  <2>3. CASE b # None
    <3> DEFINE vs == IF w.part = Chunks[m] THEN w.votes ELSE b.votes
               e == Applied(b, w.part, vs)
    <3>1. b \in Pending
      BY <1>2, <2>3
    <3>2. e # None /\ e.have = b.have \union {w.part}
      <4>1. CASE w.part \in b.have
        BY <2>3, <4>1 DEF Applied
      <4>2. CASE w.part \notin b.have
        <5>1. e = [have |-> b.have \union {w.part}, received |-> b.received + 1, votes |-> vs]
          BY <4>2 DEF Applied
        <5>2. e \in Pending
          <6>1. b.have \union {w.part} \in SUBSET Nat /\ b.received + 1 \in Nat /\ vs \in Voters
            BY <1>1, <3>1 DEF Pending, Wire
          <6> HIDE DEF e, vs
          <6>2. QED
            BY <5>1, <6>1 DEF Pending
        <5>3. QED
          BY <5>1, <5>2, NoBuffer
      <4>3. QED
        BY <4>1, <4>2
    <3>3. CASE e.received < Chunks[m]
      <4>1. buffers' = [buffers EXCEPT ![q][m] = e]
        BY <2>1, <2>3, <3>3 DEF ReceiveChunk
      <4> HIDE DEF e
      <4>2. buffers'[q][m] = e /\ \A x \in Peer, y \in Msg :
              buffers'[x][y] = buffers[x][y] \/ (x = q /\ y = m)
        BY <1>1, <1>2, <4>1
      <4>3. Buffered(b, e, m, w.part)
        BY <1>6, <2>3, <3>2, <3>3 DEF Buffered
      <4>4. QED
        BY <4>2, <4>3
    <3>4. CASE ~(e.received < Chunks[m])
      <4>1. buffers' = [buffers EXCEPT ![q][m] = None] /\ Appended(q, m, e.have, e.votes)
        BY <2>1, <2>3, <3>4 DEF ReceiveChunk
      <4>2. buffers'[q][m] = None /\ \A x \in Peer, y \in Msg :
              buffers'[x][y] = buffers[x][y] \/ (x = q /\ y = m)
        BY <1>1, <1>2, <4>1
      <4>3. QED
        BY <1>1, <4>1, <4>2, AppendedIsShown
    <3>5. QED
      BY <3>3, <3>4
  <2>4. QED
    BY <2>2, <2>3
<1>7. QED
  BY <1>4, <1>5, <1>6

(* How an arrival changes the line from p to q and the buffers. *)
LEMMA ReceiveLine ==
  ASSUME ProofInv, NEW p \in Peer, NEW q \in Peer, Receive(p, q)
  PROVE  /\ chan[p][q] \in Seq(Wire) /\ chan[p][q] # <<>> /\ Head(chan[p][q]) \in Wire
         /\ \A a \in Peer, x \in Peer :
              chan'[a][x] = IF a = p /\ x = q THEN Tail(chan[p][q]) ELSE chan[a][x]
         /\ \A x \in Peer, y \in Msg : Author[y] # p \/ x # q =>
              buffers'[x][y] = buffers[x][y]
<1> DEFINE w == Head(chan[p][q])
<1>1. chan \in [Peer -> [Peer -> Seq(Wire)]]
  BY DEF ProofInv, ChatType, ChanType
<1>2. chan[p][q] # <<>> /\ chan' = [chan EXCEPT ![p][q] = Tail(chan[p][q])]
  BY DEF Receive
<1>3. w \in Wire /\ w = chan[p][q][1] /\ 1 \in DOMAIN chan[p][q]
  BY <1>1, <1>2
<1>4. CASE w.type = "part" /\ ReceivePart(q, w)
  <2>1. Author[w.msg] = p
    BY <1>3, <1>4 DEF ProofInv, ChatInv, PacketInv
  <2>2. \A x \in Peer, y \in Msg : buffers'[x][y] = buffers[x][y] \/ (x = q /\ y = w.msg)
    BY <1>3, <1>4, PartBuffers
  <2>3. QED
    BY <1>1, <1>2, <1>3, <2>1, <2>2
<1>5. CASE ~(w.type = "part" /\ ReceivePart(q, w))
  <2>1. UNCHANGED buffers
    BY <1>5 DEF Receive, ReceiveReact, ReceiveVote, showing
  <2>2. QED
    BY <1>1, <1>2, <1>3, <2>1
<1>6. QED
  BY <1>4, <1>5

(* A buffer with everything is gone, after every step. *)
LEMMA OpenStep ==
  ASSUME ProofInv, OpenInv, [Next]_vars
  PROVE  OpenInv'
<1>1. CASE \A q \in Peer, m \in Msg : buffers'[q][m] \in {buffers[q][m], None}
  BY <1>1 DEF OpenInv
<1>2. ASSUME NEW p \in Peer, Reload(p)
      PROVE  \A q \in Peer, m \in Msg : buffers'[q][m] \in {buffers[q][m], None}
  BY <1>2 DEF Reload, ProofInv, ChatType, BufferType
<1>3. ASSUME NEW p \in Peer, NEW q \in Peer, Receive(p, q) PROVE OpenInv'
  <2>1. PICK w \in Wire : w = Head(chan[p][q])
    BY <1>3, ReceiveLine
  <2>2. CASE w.type = "part" /\ ReceivePart(q, w)
    <3>1. /\ \A x \in Peer, y \in Msg :
               buffers'[x][y] = buffers[x][y] \/ (x = q /\ y = w.msg)
          /\ \/ Shown(q, w.msg)' /\ buffers'[q][w.msg] \in {buffers[q][w.msg], None}
             \/ Buffered(buffers[q][w.msg], buffers'[q][w.msg], w.msg, w.part)
      BY <2>1, <2>2, PartBuffers
    <3>2. ASSUME NEW x \in Peer, NEW y \in Msg, buffers'[x][y] # None
          PROVE  buffers'[x][y].received < Chunks[y]
      <4>1. CASE buffers'[x][y] = buffers[x][y]
        BY <3>2, <4>1 DEF OpenInv
      <4>2. CASE x = q /\ y = w.msg /\ buffers'[x][y] # buffers[x][y]
        BY <3>1, <3>2, <4>2 DEF Buffered
      <4>3. QED
        BY <3>1, <4>1, <4>2
    <3>3. QED
      BY <3>2 DEF OpenInv
  <2>3. CASE ~(w.type = "part" /\ ReceivePart(q, w))
    <3>1. UNCHANGED buffers
      BY <1>3, <2>1, <2>3 DEF Receive, ReceiveReact, ReceiveVote, showing
    <3>2. QED
      BY <1>1, <3>1
  <2>4. QED
    BY <2>2, <2>3
<1>4. ASSUME NEW m \in Msg, NEW w \in Way,
             WaitEnds(m, w) \/ PacketSent(m, w) \/ PacketFails(m, w) \/ PauseEnds(m, w)
      PROVE  UNCHANGED buffers
  BY <1>4 DEF WaitEnds, PacketSent, PacketFails, PauseEnds, showing
<1>5. ASSUME NEW p \in Peer, RetryPending(p) \/ Interrupt(p) \/ Close(p) \/ Ready(p)
      PROVE  UNCHANGED buffers
  BY <1>5 DEF RetryPending, Interrupt, Close, Ready, showing
<1>6. ASSUME NEW p \in Peer, NEW m \in Msg,
             (\E e \in Emoji : React(p, m, e)) \/ (\E o \in Option : Vote(p, m, o))
      PROVE  UNCHANGED buffers
  BY <1>6 DEF React, Vote, showing
<1>7. ASSUME NEW m \in Msg, SendChat(m) PROVE UNCHANGED buffers
  BY <1>7 DEF SendChat
<1>8. CASE UNCHANGED vars
  BY <1>1, <1>8 DEF vars
<1>9. QED
  BY <1>1, <1>2, <1>3, <1>4, <1>5, <1>6, <1>7, <1>8 DEF Next, Publishing

(* What somebody who misses nothing holds of a message stays held until    *)
(* the message is shown.                                                   *)
LEMMA HeldStep ==
  ASSUME ProofInv, ProofInv', [Next]_vars, NEW m \in Msg, NEW i \in 0..Chunks[m],
         NEW q \in Peer, q \notin gap', q # Author[m], ~Shown(q, m)', Held(q, m, i)
  PROVE  Held(q, m, i)'
<1> DEFINE p == Author[m]
           c == chan[p][q]
           b == buffers[q][m]
           e == buffers'[q][m]
<1>1. p \in Peer /\ HeldIn(c, b, m, i)
  BY ChatAssumption DEF Held
<1>2. c \in Seq(Wire)
  BY <1>1 DEF ProofInv, ChatType, ChanType
<1> SUFFICES HeldIn(chan'[p][q], e, m, i)
  BY DEF Held
<1>3. CASE LineKept
  <2>1. e = b /\ (chan'[p][q] = c \/ \E w \in Wire : chan'[p][q] = Append(c, w))
    BY <1>1, <1>3 DEF LineKept
  <2> HIDE DEF c, b, e, p
  <2>2. ASSUME NEW w \in Wire, chan'[p][q] = Append(c, w) PROVE HeldIn(chan'[p][q], e, m, i)
    <3>1. HeldIn(Append(c, w), b, m, i)
      BY <1>1, <1>2, HeldAppend
    <3>2. QED
      BY <2>1, <2>2, <3>1
  <2>3. QED
    BY <1>1, <2>1, <2>2
<1>4. ASSUME NEW a \in Peer, NEW x \in Peer, Receive(a, x)
      PROVE  HeldIn(chan'[p][q], e, m, i)
  <2>1. /\ chan[a][x] # <<>> /\ Head(chan[a][x]) \in Wire
        /\ \A r \in Peer, y \in Peer :
             chan'[r][y] = IF r = a /\ y = x THEN Tail(chan[a][x]) ELSE chan[r][y]
        /\ \A r \in Peer, y \in Msg : Author[y] # a \/ r # x =>
             buffers'[r][y] = buffers[r][y]
    BY <1>4, ReceiveLine
  <2>2. CASE ~(a = p /\ x = q)
    <3>1. chan'[p][q] = c /\ e = b
      BY <1>1, <2>1, <2>2
    <3>2. QED
      BY <1>1, <3>1
  <2>3. CASE a = p /\ x = q
    <3> DEFINE w == Head(c)
    <3>1. c # <<>> /\ w \in Wire /\ chan'[p][q] = Tail(c)
      BY <1>1, <2>1, <2>3
    <3>2. /\ b # None => e # None /\ b.have \subseteq e.have
          /\ IsPart(w, m, 0) => e # None
          /\ IsPart(w, m, i) /\ i # 0 /\ b # None => i \in e.have
      <4>1. CASE w.type = "part" /\ w.msg = m
        <5>1. ReceivePart(q, w)
          BY <1>4, <2>3, <4>1 DEF Receive
        <5>2. \/ Shown(q, m)'
              \/ Buffered(b, e, m, w.part)
          BY <3>1, <4>1, <5>1, PartBuffers
        <5>3. Buffered(b, e, m, w.part)
          BY <5>2
        <5> HIDE DEF b, e, w
        <5>4. QED
          BY <5>3, <4>1 DEF Buffered, IsPart
      <4>2. CASE ~(w.type = "part" /\ w.msg = m)
        <5>1. e = b
          <6>1. CASE w.type = "part" /\ ReceivePart(q, w)
            <7>1. \A r \in Peer, y \in Msg :
                    buffers'[r][y] = buffers[r][y] \/ (r = q /\ y = w.msg)
              BY <3>1, <6>1, PartBuffers
            <7>2. QED
              BY <4>2, <6>1, <7>1
          <6>2. CASE ~(w.type = "part" /\ ReceivePart(q, w))
            BY <1>4, <2>3, <6>2 DEF Receive, ReceiveReact, ReceiveVote, showing
          <6>3. QED
            BY <6>1, <6>2
        <5>2. QED
          BY <4>2, <5>1 DEF IsPart
      <4>3. QED
        BY <4>1, <4>2
    <3> HIDE DEF b, e, c, p
    <3>3. HeldIn(Tail(c), e, m, i)
      BY <1>1, <1>2, <3>1, <3>2, HeldTail DEF w
    <3>4. QED
      BY <3>1, <3>3
  <2>4. QED
    BY <2>2, <2>3
<1>5. QED
  BY <1>3, <1>4, LineStep

(* A packet that is sent is held by those who miss nothing. *)
LEMMA SentIsHeld ==
  ASSUME ProofInv, HeldInv, NEW m \in Msg, NEW w \in Way, PacketSent(m, w),
         NEW q \in Peer, q \notin gap', q \notin gap, q # Author[m], ~Shown(q, m),
         NEW i, i = pub[<<m, w>>].part
  PROVE  Held(q, m, i)'
<1> DEFINE p == Author[m]
           c == chan[p][q]
           b == buffers[q][m]
           packet == [type |-> "part", msg |-> m, part |-> i, votes |-> Carried(m, w)]
<1>1. p \in Peer /\ i \in Nat /\ Chunks[m] \in Nat
  BY ChatAssumption DEF ProofInv, ChatType, PublishType, Run
<1>2. packet \in Wire /\ IsPart(packet, m, i)
  <2>1. Carried(m, w) \in Voters
    BY DEF ProofInv, ChatType, PublishType, Carried, NoVotes, Voters
  <2>2. QED
    BY <1>1, <2>1 DEF Wire, IsPart
<1>3. Reached(p, packet) /\ UNCHANGED buffers
  BY DEF PacketSent, showing
<1> HIDE DEF packet
<1>4. chan'[p][q] = Append(c, packet)
  <2>1. chan'[p][q] = IF p = p /\ q # p THEN Append(chan[p][q], packet) ELSE chan[p][q]
    <3> HIDE DEF p
    <3>1. conn[q] # "dead"
      BY <1>3 DEF Reached, p
    <3>2. QED
      BY <1>1, <1>3, <3>1, ReachedAppends
  <2>2. QED
    BY <2>1
<1>5. i = 0 \/ HeldIn(c, b, m, 0)
  <2>1. CASE i # 0
    <3>1. 0 \in 0..Chunks[m] /\ 0 < pub[<<m, w>>].part
      BY <1>1, <2>1
    <3>2. Held(q, m, 0)
      BY <3>1 DEF HeldInv
    <3>3. QED
      BY <3>2 DEF Held
  <2>2. QED
    BY <2>1
<1>6. c \in Seq(Wire)
  BY <1>1 DEF ProofInv, ChatType, ChanType
<1> HIDE DEF c
<1>7. HeldIn(Append(c, packet), b, m, i)
  BY <1>2, <1>5, <1>6, HeldSent
<1>8. HeldIn(chan'[p][q], buffers'[q][m], m, i)
  BY <1>3, <1>4, <1>7
<1>9. QED
  BY <1>8 DEF Held

(* Every step keeps what is held. *)
LEMMA HeldInvStep ==
  ASSUME ProofInv, ProofInv', HeldInv, [Next]_vars
  PROVE  HeldInv'
<1> SUFFICES ASSUME NEW m \in Msg, NEW q \in Peer, q \notin gap', q # Author[m],
                    ~Shown(q, m)', NEW i \in 0..Chunks[m],
                    status'[m] = "sent" \/ (\E w \in Way : i < pub'[<<m, w>>].part)
             PROVE  Held(q, m, i)'
  BY DEF HeldInv
<1>1. q \notin gap /\ ~Shown(q, m)
  BY GapGrows, LogGrows
<1>2. Claims(m, i)'
  BY DEF Claims
<1>3. CASE Claims(m, i)
  <2>1. Held(q, m, i)
    BY <1>1, <1>3 DEF HeldInv, Claims
  <2>2. QED
    BY <2>1, HeldStep
<1>4. ASSUME NEW w \in Way, PacketSent(m, w), pub[<<m, w>>].part = i
      PROVE  Held(q, m, i)'
  BY <1>1, <1>4, SentIsHeld
<1>5. QED
  BY <1>2, <1>3, <1>4, ClaimsStep

(* Everything held of a message that is not shown is not everything. *)
LEMMA HeldIsShown ==
  ASSUME ProofInv, LoopInv, OpenInv, HeldInv
  PROVE  SentIsShown
<1> SUFFICES ASSUME Quiet, NEW m \in Msg, status[m] = "sent", NEW q \in Peer, q \notin gap,
                    ~Shown(q, m)
             PROVE  FALSE
  BY DEF SentIsShown
<1> DEFINE b == buffers[q][m]
           n == Chunks[m]
<1>1. q # Author[m] /\ Author[m] \in Peer /\ n \in Nat
  BY ChatAssumption DEF LoopInv, RetryInv
<1>2. \A i \in 0..n : HeldIn(<<>>, b, m, i)
  BY <1>1 DEF HeldInv, Held, Quiet
<1>3. \A i \in 0..n : b # None /\ (i = 0 \/ i \in b.have)
  BY <1>2 DEF HeldIn
<1>4. b # None /\ 1..n \subseteq b.have
  BY <1>1, <1>3
<1>5. b.have = 1..n /\ b.received = Cardinality(1..n) /\ b.received < n
  BY <1>4 DEF OpenInv, ProofInv, ChatInv, BufferInv
<1> HIDE DEF n, b
<1>6. Cardinality(1..n) = n
  <2>1. 1 \in Int /\ n \in Int
    BY <1>1
  <2>2. Cardinality(1..n) = IF 1 > n THEN 0 ELSE n - 1 + 1
    BY <2>1, FS_Interval
  <2>3. QED
    BY <1>1, <2>2
<1>7. QED
  BY <1>1, <1>5, <1>6

(* The invariant of delivery always holds. *)
THEOREM DeliveryInvariance == Spec => []DeliveryInv
<1>1. Init => OpenInv /\ HeldInv
  <2> SUFFICES ASSUME Init PROVE OpenInv /\ HeldInv
    OBVIOUS
  <2>1. \A m \in Msg : status[m] = "unsent" /\ \A w \in Way : pub[<<m, w>>] = Idle
    BY DEF Init
  <2>2. \A m \in Msg : Chunks[m] \in Nat
    BY ChatAssumption
  <2>3. HeldInv
    <3>1. ASSUME NEW m \in Msg, NEW i \in 0..Chunks[m], NEW w \in Way
          PROVE  ~(i < pub[<<m, w>>].part)
      BY <2>1, <2>2, RunTypes
    <3>2. QED
      BY <2>1, <3>1 DEF HeldInv
  <2>4. OpenInv
    BY DEF Init, OpenInv
  <2>5. QED
    BY <2>3, <2>4
<1>2. ProofInv /\ ProofInv' /\ OpenInv /\ HeldInv /\ [Next]_vars => (OpenInv /\ HeldInv)'
  BY OpenStep, HeldInvStep
<1>3. Spec => []ProofInv
  BY ChatInvariance, PTL DEF ProofInv
<1>4. Spec => []RetryInv
  BY LoopInvariance, PTL DEF LoopInv
<1>5. QED
  BY <1>1, <1>2, <1>3, <1>4, PTL DEF Spec, DeliveryInv

(* What its author sees as sent is shown by everybody who missed nothing. *)
THEOREM ChatSentIsShown == Spec => []SentIsShown
<1>1. ProofInv /\ LoopInv /\ DeliveryInv => SentIsShown
  BY HeldIsShown DEF DeliveryInv
<1>2. Spec => []ProofInv
  BY ChatInvariance, PTL DEF ProofInv
<1>3. QED
  BY <1>1, <1>2, LoopInvariance, DeliveryInvariance, PTL

-----------------------------------------------------------------------------
(* Votes *)

(* A packet more on its way, which is no vote on m. *)
LEMMA SettlingAppend ==
  ASSUME NEW c \in Seq(Wire), NEW x, NEW y, NEW m, NEW w \in Wire, ~IsVote(w, m),
         Settling(c, x, y, m)
  PROVE  Settling(Append(c, w), x, y, m)
<1> DEFINE d == Append(c, w)
<1>1. /\ Len(c) \in Nat /\ DOMAIN c = 1..Len(c) /\ DOMAIN d = 1..(Len(c) + 1)
      /\ d[Len(c) + 1] = w
      /\ \A n \in DOMAIN c : n \in DOMAIN d /\ d[n] = c[n]
  OBVIOUS
<1> HIDE DEF d
<1>2. ASSUME NEW n \in DOMAIN d, IsVote(d[n], m) PROVE n \in DOMAIN c /\ d[n] = c[n]
  BY <1>1, <1>2
<1>3. x \in {y, None} \/ \E n \in DOMAIN d : IsVote(d[n], m)
  BY <1>1 DEF Settling
<1>4. ASSUME NEW n \in DOMAIN d, IsVote(d[n], m)
      PROVE  d[n].what = y \/ \E k \in DOMAIN d : k > n /\ IsVote(d[k], m)
  <2>1. n \in DOMAIN c /\ d[n] = c[n]
    BY <1>2, <1>4
  <2>2. c[n].what = y \/ \E k \in DOMAIN c : k > n /\ IsVote(c[k], m)
    BY <1>4, <2>1 DEF Settling
  <2>3. QED
    BY <1>1, <2>1, <2>2
<1>5. Settling(d, x, y, m)
  BY <1>3, <1>4 DEF Settling
<1>6. QED
  BY <1>5 DEF d

(* The voter votes again. *)
LEMMA SettlingVote ==
  ASSUME NEW c \in Seq(Wire), NEW x, NEW y, NEW z, NEW m, NEW w \in Wire, IsVote(w, m),
         w.what = z, Settling(c, x, y, m)
  PROVE  Settling(Append(c, w), x, z, m)
<1> DEFINE d == Append(c, w)
           l == Len(c) + 1
<1>1. /\ l \in DOMAIN d /\ d[l] = w
      /\ \A n \in DOMAIN d : n # l => l > n
  OBVIOUS
<1> HIDE DEF d, l
<1>2. Settling(d, x, z, m)
  BY <1>1 DEF Settling
<1>3. QED
  BY <1>2 DEF d

(* The first packet arrives: a vote on m, which counts, or something else. *)
LEMMA SettlingTail ==
  ASSUME NEW c \in Seq(Wire), c # <<>>, NEW x, NEW y, NEW z, NEW m, Settling(c, x, y, m),
         IF IsVote(Head(c), m) THEN z \in {Head(c).what, None} ELSE z = x
  PROVE  Settling(Tail(c), z, y, m)
<1> DEFINE d == Tail(c)
<1>1. /\ Len(c) \in Nat /\ Len(c) # 0 /\ DOMAIN c = 1..Len(c) /\ Head(c) = c[1]
      /\ DOMAIN d = 1..(Len(c) - 1)
      /\ \A n \in 1..(Len(c) - 1) : d[n] = c[n + 1]
  OBVIOUS
<1> HIDE DEF d
<1>2. ASSUME NEW n \in DOMAIN c, n # 1 PROVE n - 1 \in DOMAIN d /\ d[n - 1] = c[n]
  <2>1. n - 1 \in 1..(Len(c) - 1) /\ n - 1 + 1 = n
    BY <1>1, <1>2
  <2>2. QED
    BY <1>1, <2>1
<1>3. ASSUME NEW n \in DOMAIN d PROVE n + 1 \in DOMAIN c /\ d[n] = c[n + 1] /\ n \in Nat
  BY <1>1, <1>3
<1>4. z \in {y, None} \/ \E n \in DOMAIN d : IsVote(d[n], m)
  <2>1. CASE IsVote(Head(c), m)
    <3>1. 1 \in DOMAIN c /\ IsVote(c[1], m)
      BY <1>1, <2>1
    <3>2. CASE c[1].what = y
      BY <1>1, <2>1, <3>2
    <3>3. CASE c[1].what # y
      <4>1. PICK k \in DOMAIN c : k > 1 /\ IsVote(c[k], m)
        BY <3>1, <3>3 DEF Settling
      <4>2. k - 1 \in DOMAIN d /\ d[k - 1] = c[k]
        BY <1>2, <4>1
      <4>3. QED
        BY <4>1, <4>2
    <3>4. QED
      BY <3>2, <3>3
  <2>2. CASE ~IsVote(Head(c), m)
    <3>1. CASE x \in {y, None}
      BY <2>2, <3>1
    <3>2. CASE \E n \in DOMAIN c : IsVote(c[n], m)
      <4>1. PICK n \in DOMAIN c : IsVote(c[n], m)
        BY <3>2
      <4>2. n # 1
        BY <1>1, <2>2, <4>1
      <4>3. n - 1 \in DOMAIN d /\ d[n - 1] = c[n]
        BY <1>2, <4>2
      <4>4. QED
        BY <4>1, <4>3
    <3>3. QED
      BY <3>1, <3>2 DEF Settling
  <2>3. QED
    BY <2>1, <2>2
<1>5. ASSUME NEW n \in DOMAIN d, IsVote(d[n], m)
      PROVE  d[n].what = y \/ \E k \in DOMAIN d : k > n /\ IsVote(d[k], m)
  <2>1. n + 1 \in DOMAIN c /\ d[n] = c[n + 1] /\ n \in Nat
    BY <1>3
  <2>2. CASE c[n + 1].what = y
    BY <2>1, <2>2
  <2>3. CASE \E k \in DOMAIN c : k > n + 1 /\ IsVote(c[k], m)
    <3>1. PICK k \in DOMAIN c : k > n + 1 /\ IsVote(c[k], m)
      BY <2>3
    <3>2. k # 1 /\ k \in Nat
      BY <1>1, <2>1, <3>1
    <3>3. k - 1 \in DOMAIN d /\ d[k - 1] = c[k] /\ k - 1 > n
      BY <1>2, <2>1, <3>1, <3>2
    <3>4. QED
      BY <3>1, <3>3
  <2>4. QED
    BY <1>5, <2>1, <2>2, <2>3 DEF Settling
<1>6. Settling(d, z, y, m)
  BY <1>4, <1>5 DEF Settling
<1>7. QED
  BY <1>6 DEF d

Calm == CalmInv /\ CarryInv /\ VoteInv

(* Everybody is sent a packet. *)
LEMMA CalmReaches ==
  ASSUME ProofInv, CalmInv, NEW p \in Peer, NEW w \in Wire, Reached(p, w)
  PROVE  \A a \in Peer, q \in Peer :
           chan'[a][q] = IF a = p /\ q # p THEN Append(chan[a][q], w) ELSE chan[a][q]
<1> SUFFICES ASSUME NEW a \in Peer, NEW q \in Peer
             PROVE  chan'[a][q] = IF a = p /\ q # p THEN Append(chan[a][q], w) ELSE chan[a][q]
  OBVIOUS
<1>1. conn[q] # "dead"
  BY DEF CalmInv
<1>2. QED
  BY <1>1, ReachedAppends

(* A packet that is sent is behind the others, and carries no votes; it is *)
(* a vote of its sender.                                                   *)
LEMMA CarryReached ==
  ASSUME ProofInv, CalmInv, CarryInv, NEW p \in Peer, NEW w \in Wire, Reached(p, w),
         w.type = "part" => w.votes = NoVotes, w.type = "vote" => w.by = p,
         UNCHANGED <<buffers, log>>,
         \A q \in Peer, m \in Msg : ~Shown(q, m) => votes'[q][m] = votes[q][m]
  PROVE  CarryInv'
<1>1. \A a \in Peer, q \in Peer :
        chan'[a][q] = IF a = p /\ q # p THEN Append(chan[a][q], w) ELSE chan[a][q]
  BY CalmReaches
<1>2. ASSUME NEW a \in Peer, NEW q \in Peer, NEW n \in DOMAIN chan'[a][q]
      PROVE  \/ n \in DOMAIN chan[a][q] /\ chan'[a][q][n] = chan[a][q][n]
             \/ a = p /\ q # p /\ chan'[a][q][n] = w
  <2>1. chan[a][q] \in Seq(Wire)
    BY DEF ProofInv, ChatType, ChanType
  <2>2. CASE a = p /\ q # p
    <3>1. chan'[a][q] = Append(chan[a][q], w)
      BY <1>1, <2>2
    <3>2. QED
      BY <1>2, <2>1, <2>2, <3>1
  <2>3. CASE ~(a = p /\ q # p)
    BY <1>1, <1>2, <2>3
  <2>4. QED
    BY <2>2, <2>3
<1>3. ASSUME NEW a \in Peer, NEW q \in Peer, NEW n \in DOMAIN chan'[a][q]
      PROVE  /\ chan'[a][q][n].type = "part" => chan'[a][q][n].votes = NoVotes
             /\ chan'[a][q][n].type = "vote" => chan'[a][q][n].by = a /\ a # q
  BY <1>2, <1>3 DEF CarryInv
<1>4. \A q \in Peer, m \in Msg : buffers'[q][m] # None => buffers'[q][m].votes = NoVotes
  BY DEF CarryInv
<1>5. \A q \in Peer, m \in Msg : ~Shown(q, m)' => votes'[q][m] = NoVotes
  BY DEF CarryInv, Shown
<1>6. QED
  BY <1>3, <1>4, <1>5 DEF CarryInv

(* Sending no vote leaves the votes as they are. *)
LEMMA VoteReached ==
  ASSUME ProofInv, CalmInv, VoteInv, NEW p \in Peer, NEW w \in Wire, Reached(p, w),
         w.type # "vote", UNCHANGED votes
  PROVE  VoteInv'
<1>1. \A a \in Peer, q \in Peer :
        chan'[a][q] = IF a = p /\ q # p THEN Append(chan[a][q], w) ELSE chan[a][q]
  BY CalmReaches
<1>2. ASSUME NEW q \in Peer, NEW v \in Peer, NEW m \in Msg, q # v
      PROVE  Settling(chan'[v][q], votes'[q][m][v], votes'[v][m][v], m)
  <2>1. Settling(chan[v][q], votes[q][m][v], votes[v][m][v], m)
    BY <1>2 DEF VoteInv
  <2>2. chan[v][q] \in Seq(Wire) /\ ~IsVote(w, m)
    BY DEF ProofInv, ChatType, ChanType, IsVote
  <2>3. Settling(Append(chan[v][q], w), votes[q][m][v], votes[v][m][v], m)
    BY <2>1, <2>2, SettlingAppend
  <2>4. QED
    BY <1>1, <2>1, <2>3
<1>3. QED
  BY <1>2 DEF VoteInv

(* Nothing of it changes. *)
LEMMA SameCalm ==
  ASSUME ProofInv, Calm, UNCHANGED <<conn, due, retrying, snap, chan, buffers, votes>>,
         \A q \in Peer, m \in Msg : Shown(q, m) => Shown(q, m)'
  PROVE  Calm'
<1>1. CalmInv'
  BY DEF Calm, CalmInv
<1>2. CarryInv'
  BY DEF Calm, CarryInv
<1>3. VoteInv'
  BY DEF Calm, VoteInv
<1>4. QED
  BY <1>1, <1>2, <1>3 DEF Calm

(* A vote is behind the voter's earlier ones. *)
LEMMA CalmVote ==
  ASSUME ProofInv, Calm, NEW p \in Peer, NEW m \in Msg, NEW o \in Option, Vote(p, m, o)
  PROVE  Calm'
<1> USE DEF Calm
<1> DEFINE w == [type |-> "vote", msg |-> m, by |-> p, what |-> o]
<1>1. w \in Wire /\ w.type = "vote" /\ w.by = p /\ w.msg = m /\ w.what = o
  BY DEF Wire
<1>2. /\ Shown(p, m) /\ votes' = [votes EXCEPT ![p][m][p] = o]
      /\ UNCHANGED <<log, buffers, conn, due, retrying, snap>>
  BY DEF Vote, showing, sending
<1>3. Reached(p, w)
  BY DEF Vote, Published, CalmInv
<1> HIDE DEF w
<1>4. votes \in [Peer -> [Msg -> Voters]]
  BY DEF ProofInv, ChatType, VoteType
<1>5. \A q \in Peer, x \in Msg, v \in Peer :
        votes'[q][x][v] = IF q = p /\ x = m /\ v = p THEN o ELSE votes[q][x][v]
  BY <1>2, <1>4 DEF Voters
<1>6. CalmInv'
  BY <1>2 DEF CalmInv
<1>7. \A q \in Peer, x \in Msg : ~Shown(q, x) => votes'[q][x] = votes[q][x]
  BY <1>2, <1>4
<1>8. CarryInv'
  BY <1>1, <1>2, <1>3, <1>7, CarryReached
<1>9. \A a \in Peer, q \in Peer :
        chan'[a][q] = IF a = p /\ q # p THEN Append(chan[a][q], w) ELSE chan[a][q]
  BY <1>1, <1>3, CalmReaches
<1>10. ASSUME NEW q \in Peer, NEW v \in Peer, NEW x \in Msg, q # v
       PROVE  Settling(chan'[v][q], votes'[q][x][v], votes'[v][x][v], x)
  <2>1. Settling(chan[v][q], votes[q][x][v], votes[v][x][v], x) /\ chan[v][q] \in Seq(Wire)
    BY <1>10 DEF VoteInv, ProofInv, ChatType, ChanType
  <2>2. votes'[q][x][v] = votes[q][x][v]
    BY <1>5, <1>10
  <2>3. CASE v = p /\ x = m
    <3>1. votes'[v][x][v] = o /\ chan'[v][q] = Append(chan[v][q], w)
      BY <1>5, <1>9, <1>10, <2>3
    <3>2. IsVote(w, x)
      BY <1>1, <2>3 DEF IsVote
    <3>3. Settling(Append(chan[v][q], w), votes[q][x][v], o, x)
      BY <1>1, <2>1, <3>2, SettlingVote
    <3>4. QED
      BY <2>2, <3>1, <3>3
  <2>4. CASE v = p /\ x # m
    <3>1. votes'[v][x][v] = votes[v][x][v] /\ chan'[v][q] = Append(chan[v][q], w)
      BY <1>5, <1>9, <1>10, <2>4
    <3>2. ~IsVote(w, x)
      BY <1>1, <2>4 DEF IsVote
    <3>3. Settling(Append(chan[v][q], w), votes[q][x][v], votes[v][x][v], x)
      BY <1>1, <2>1, <3>2, SettlingAppend
    <3>4. QED
      BY <2>2, <3>1, <3>3
  <2>5. CASE v # p
    <3>1. votes'[v][x][v] = votes[v][x][v] /\ chan'[v][q] = chan[v][q]
      BY <1>5, <1>9, <2>5
    <3>2. QED
      BY <2>1, <2>2, <3>1
  <2>6. QED
    BY <2>3, <2>4, <2>5
<1>11. VoteInv'
  BY <1>10 DEF VoteInv
<1>12. QED
  BY <1>6, <1>8, <1>11

(* A part that arrives brings no votes. *)
LEMMA CalmPart ==
  ASSUME ProofInv, Calm, NEW q \in Peer, NEW w \in Wire, w.type = "part",
         w.votes = NoVotes, ReceivePart(q, w)
  PROVE  /\ votes' = votes
         /\ \A x \in Peer, m \in Msg : buffers'[x][m] # None => buffers'[x][m].votes = NoVotes
<1> DEFINE m == w.msg
           b == buffers[q][m]
<1>1. m \in Msg
  BY DEF Wire
<1>2. /\ votes \in [Peer -> [Msg -> Voters]]
      /\ buffers \in [Peer -> [Msg -> Pending \union {None}]]
  BY DEF ProofInv, ChatType, VoteType, BufferType
<1>3. \A x \in Peer, y \in Msg : buffers[x][y] # None => buffers[x][y].votes = NoVotes
  BY DEF Calm, CarryInv
<1>4. ASSUME NEW have, Appended(q, m, have, NoVotes) PROVE votes' = votes
  <2>1. CASE Known(q, m)
    BY <1>4, <2>1 DEF Appended
  <2>2. CASE ~Known(q, m)
    <3>1. votes[q][m] = NoVotes
      BY <1>1, <2>2 DEF Known, Calm, CarryInv
    <3>2. votes' = [votes EXCEPT ![q][m] = votes[q][m]]
      BY <1>4, <2>2, <3>1 DEF Appended
    <3>3. [votes EXCEPT ![q][m] = votes[q][m]] = votes
      BY <1>1, <1>2
    <3>4. QED
      BY <3>2, <3>3
  <2>3. QED
    BY <2>1, <2>2
<1>5. ASSUME NEW e, buffers' = [buffers EXCEPT ![q][m] = e], e # None => e.votes = NoVotes
      PROVE  \A x \in Peer, y \in Msg : buffers'[x][y] # None => buffers'[x][y].votes = NoVotes
  <2>1. \A x \in Peer, y \in Msg : buffers'[x][y] = buffers[x][y] \/ buffers'[x][y] = e
    BY <1>1, <1>2, <1>5
  <2>2. QED
    BY <1>3, <1>5, <2>1
<1> HIDE DEF m
<1>6. CASE Chunks[m] = 0
  <2>1. Appended(q, m, {}, NoVotes) /\ UNCHANGED buffers
    BY <1>6 DEF ReceivePart, m
  <2>2. QED
    BY <1>3, <1>4, <2>1
<1>7. CASE Chunks[m] # 0 /\ w.part = 0
  <2>1. buffers' = [buffers EXCEPT ![q][m] = Ingested(b)] /\ votes' = votes
    BY <1>7 DEF ReceivePart, ReceiveMeta, m
  <2>2. Ingested(b) # None => Ingested(b).votes = NoVotes
    BY <1>1, <1>3 DEF Ingested, NoPending
  <2> HIDE DEF b
  <2>3. QED
    BY <1>5, <2>1, <2>2
<1>8. CASE Chunks[m] # 0 /\ w.part # 0
  <2>1. ReceiveChunk(q, m, w.part, NoVotes)
    BY <1>8 DEF ReceivePart, m
  <2>2. CASE b = None
    BY <1>3, <2>1, <2>2 DEF ReceiveChunk, showing
  <2>3. CASE b # None
    <3> DEFINE vs == IF w.part = Chunks[m] THEN NoVotes ELSE b.votes
               e == Applied(b, w.part, vs)
    <3>1. e.votes = NoVotes
      BY <1>1, <1>3, <2>3 DEF Applied
    <3>2. CASE e.received < Chunks[m]
      <4>1. buffers' = [buffers EXCEPT ![q][m] = e] /\ votes' = votes
        BY <2>1, <2>3, <3>2 DEF ReceiveChunk
      <4> HIDE DEF e
      <4>2. QED
        BY <1>5, <3>1, <4>1
    <3>3. CASE ~(e.received < Chunks[m])
      <4>1. buffers' = [buffers EXCEPT ![q][m] = None] /\ Appended(q, m, e.have, e.votes)
        BY <2>1, <2>3, <3>3 DEF ReceiveChunk
      <4> HIDE DEF e
      <4>2. votes' = votes
        BY <1>4, <3>1, <4>1
      <4>3. QED
        BY <1>5, <4>1, <4>2
    <3>4. QED
      BY <3>2, <3>3
  <2>4. QED
    BY <2>2, <2>3
<1>9. QED
  BY <1>6, <1>7, <1>8

(* An arrival: the vote in it, if it is one, is shown if its message is. *)
LEMMA CalmReceive ==
  ASSUME ProofInv, Calm, NEW p \in Peer, NEW q \in Peer, Receive(p, q),
         \A x \in Peer, m \in Msg : Shown(x, m) => Shown(x, m)'
  PROVE  Calm'
<1> USE DEF Calm
<1>1. /\ chan[p][q] \in Seq(Wire) /\ chan[p][q] # <<>> /\ Head(chan[p][q]) \in Wire
      /\ \A a \in Peer, x \in Peer :
           chan'[a][x] = IF a = p /\ x = q THEN Tail(chan[p][q]) ELSE chan[a][x]
  BY ReceiveLine
<1>2. PICK w \in Wire : w = Head(chan[p][q])
  BY <1>1
<1>3. /\ w.type = "part" => w.votes = NoVotes
      /\ w.type = "vote" => w.by = p /\ p # q
  <2>1. 1 \in DOMAIN chan[p][q] /\ w = chan[p][q][1]
    BY <1>1, <1>2
  <2>2. QED
    BY <2>1 DEF CarryInv
<1>4. \/ w.type = "part" /\ ReceivePart(q, w)
      \/ w.type = "react" /\ ReceiveReact(q, w)
      \/ w.type = "vote" /\ ReceiveVote(q, w)
  BY <1>2 DEF Receive
<1>5. votes \in [Peer -> [Msg -> Voters]]
  BY DEF ProofInv, ChatType, VoteType
<1>6. /\ \A x \in Peer, m \in Msg : buffers'[x][m] # None => buffers'[x][m].votes = NoVotes
      /\ \A x \in Peer, m \in Msg, v \in Peer :
           IF x = q /\ v = p /\ IsVote(w, m) /\ Shown(q, m)
           THEN votes'[x][m][v] = w.what ELSE votes'[x][m][v] = votes[x][m][v]
      /\ \A x \in Peer, m \in Msg : ~Shown(x, m) => votes'[x][m] = votes[x][m]
  <2>1. CASE w.type = "part" /\ ReceivePart(q, w)
    BY <1>3, <2>1, CalmPart DEF IsVote
  <2>2. CASE w.type = "react" /\ ReceiveReact(q, w)
    BY <2>2 DEF ReceiveReact, showing, CarryInv, IsVote
  <2>3. CASE w.type = "vote" /\ ReceiveVote(q, w)
    <3>1. UNCHANGED buffers /\ w.by = p /\ w.msg \in Msg
      BY <1>3, <2>3 DEF ReceiveVote, showing, Wire
    <3>2. votes' = IF Shown(q, w.msg) THEN [votes EXCEPT ![q][w.msg][p] = w.what] ELSE votes
      BY <2>3, <3>1 DEF ReceiveVote, Ballot
    <3>3. \A x \in Peer, m \in Msg, v \in Peer :
            votes'[x][m][v] = IF x = q /\ v = p /\ m = w.msg /\ Shown(q, w.msg)
                              THEN w.what ELSE votes[x][m][v]
      BY <1>5, <3>1, <3>2 DEF Voters
    <3>4. \A x \in Peer, m \in Msg : ~Shown(x, m) => votes'[x][m] = votes[x][m]
      BY <1>5, <3>1, <3>2
    <3>5. QED
      BY <2>3, <3>1, <3>3, <3>4 DEF CarryInv, IsVote
  <2>4. QED
    BY <1>4, <2>1, <2>2, <2>3
<1>7. CalmInv'
  BY DEF CalmInv, Receive, sending
<1>8. CarryInv'
  <2>1. \A n \in DOMAIN Tail(chan[p][q]) :
          n + 1 \in DOMAIN chan[p][q] /\ Tail(chan[p][q])[n] = chan[p][q][n + 1]
    BY <1>1
  <2>2. ASSUME NEW a \in Peer, NEW x \in Peer, NEW n \in DOMAIN chan'[a][x]
        PROVE  \E k \in DOMAIN chan[a][x] : chan'[a][x][n] = chan[a][x][k]
    <3>1. CASE a = p /\ x = q
      <4>1. chan'[a][x] = Tail(chan[p][q])
        BY <1>1, <3>1
      <4>2. n + 1 \in DOMAIN chan[a][x] /\ chan'[a][x][n] = chan[a][x][n + 1]
        BY <2>1, <2>2, <3>1, <4>1
      <4>3. QED
        BY <4>2
    <3>2. CASE ~(a = p /\ x = q)
      BY <1>1, <2>2, <3>2
    <3>3. QED
      BY <3>1, <3>2
  <2>3. ASSUME NEW a \in Peer, NEW x \in Peer, NEW n \in DOMAIN chan'[a][x]
        PROVE  /\ chan'[a][x][n].type = "part" => chan'[a][x][n].votes = NoVotes
               /\ chan'[a][x][n].type = "vote" => chan'[a][x][n].by = a /\ a # x
    BY <2>2, <2>3 DEF CarryInv
  <2>4. \A x \in Peer, m \in Msg : ~Shown(x, m)' => votes'[x][m] = NoVotes
    BY <1>6 DEF CarryInv
  <2>5. QED
    BY <1>6, <2>3, <2>4 DEF CarryInv
<1>9. ASSUME NEW x \in Peer, NEW v \in Peer, NEW m \in Msg, x # v
      PROVE  Settling(chan'[v][x], votes'[x][m][v], votes'[v][m][v], m)
  <2>1. Settling(chan[v][x], votes[x][m][v], votes[v][m][v], m)
    BY <1>9 DEF VoteInv
  <2>2. votes'[v][m][v] = votes[v][m][v]
    BY <1>3, <1>6 DEF IsVote
  <2>3. CASE x = q /\ v = p
    <3> DEFINE c == chan[p][q]
               z == votes'[x][m][v]
    <3>1. c \in Seq(Wire) /\ c # <<>> /\ Head(c) = w /\ chan'[v][x] = Tail(c)
      BY <1>1, <1>2, <2>3
    <3>2. IF IsVote(w, m) THEN z \in {w.what, None} ELSE z = votes[x][m][v]
      <4>1. CASE IsVote(w, m) /\ ~Shown(q, m)
        <5>1. votes[x][m][v] = None
          BY <2>3, <4>1 DEF CarryInv, NoVotes
        <5>2. QED
          BY <1>6, <4>1, <5>1
      <4>2. CASE ~(IsVote(w, m) /\ ~Shown(q, m))
        BY <1>6, <2>3, <4>2
      <4>3. QED
        BY <4>1, <4>2
    <3> HIDE DEF c, z
    <3>3. Settling(c, votes[x][m][v], votes[v][m][v], m)
      BY <2>1, <2>3 DEF c
    <3>4. Settling(Tail(c), z, votes[v][m][v], m)
      BY <3>1, <3>2, <3>3, SettlingTail
    <3>5. QED
      BY <2>2, <3>1, <3>4 DEF z
  <2>4. CASE ~(x = q /\ v = p)
    <3>1. chan'[v][x] = chan[v][x] /\ votes'[x][m][v] = votes[x][m][v]
      BY <1>1, <1>6, <2>4
    <3>2. QED
      BY <2>1, <2>2, <3>1
  <2>5. QED
    BY <2>3, <2>4
<1>10. VoteInv'
  BY <1>9 DEF VoteInv
<1>11. QED
  BY <1>7, <1>8, <1>10

(* Without trouble nothing is lost, and every step keeps the votes right. *)
LEMMA CalmStep ==
  ASSUME ProofInv, ProofInv', LoopInv, Calm, [Next]_vars, trouble = {}, trouble' = {}
  PROVE  Calm'
<1>0. /\ \A q \in Peer, m \in Msg : Shown(q, m) => Shown(q, m)'
      /\ \A t : ~Goes(t)
  BY LogGrows DEF Goes
<1>1. \A p \in Peer : conn[p] = "ready" /\ ~due[p] /\ retrying[p] = <<>>
  BY DEF Calm, CalmInv
<1>2. ASSUME NEW m \in Msg, NEW w \in Way, NEW s, pub[<<m, w>>] # Idle, Ends(m, w, s)
      PROVE  UNCHANGED retrying
  <2>1. w # "retry"
    BY <1>1, <1>2, ChatAssumption DEF LoopInv, RetryInv
  <2>2. QED
    BY <1>2, <2>1 DEF Ends
<1>3. ASSUME NEW m \in Msg, NEW w \in Way,
             WaitEnds(m, w) \/ PacketFails(m, w) \/ PauseEnds(m, w)
      PROVE  Calm'
  <2>1. pub[<<m, w>>] # Idle /\ Author[m] \in Peer
    BY <1>3, ChatAssumption DEF WaitEnds, PacketFails, PauseEnds, Idle
  <2>2. ~PacketFails(m, w)
    BY <1>0, <1>1, <2>1 DEF PacketFails
  <2>3. UNCHANGED <<conn, due, retrying, snap, chan, buffers, votes>>
    BY <1>2, <1>3, <2>1, <2>2 DEF WaitEnds, PauseEnds, Proceeds, showing
  <2>4. QED
    BY <1>0, <2>3, SameCalm
<1>4. ASSUME NEW m \in Msg, NEW w \in Way, PacketSent(m, w) PROVE Calm'
  <2>1. pub[<<m, w>>] # Idle /\ Author[m] \in Peer
    BY <1>4, ChatAssumption DEF PacketSent, Idle
  <2>2. UNCHANGED <<conn, due, retrying, snap, buffers, votes, log>>
    BY <1>2, <1>4, <2>1 DEF PacketSent, Proceeds, showing
  <2> DEFINE i == pub[<<m, w>>].part
  <2>3. PICK packet \in Wire :
          /\ packet.type = "part" /\ packet.votes = NoVotes
          /\ Reached(Author[m], packet)
    <3>1. Carried(m, w) = NoVotes
      BY DEF Carried, Calm, CalmInv
    <3>2. i \in Nat /\ NoVotes \in Voters
      BY DEF ProofInv, ChatType, PublishType, Run, NoVotes, Voters
    <3>3. Reached(Author[m], [type |-> "part", msg |-> m, part |-> i, votes |-> NoVotes])
      BY <1>4, <3>1 DEF PacketSent
    <3> HIDE DEF i
    <3>4. [type |-> "part", msg |-> m, part |-> i, votes |-> NoVotes] \in Wire
      BY <3>2 DEF Wire
    <3>5. QED
      BY <3>3, <3>4
  <2>4. CalmInv'
    BY <2>2 DEF Calm, CalmInv
  <2>5. CarryInv'
    BY <2>1, <2>2, <2>3, CarryReached DEF Calm
  <2>6. VoteInv'
    BY <2>1, <2>2, <2>3, VoteReached DEF Calm
  <2>7. QED
    BY <2>4, <2>5, <2>6 DEF Calm
<1>5. ASSUME NEW p \in Peer, NEW m \in Msg, NEW e \in Emoji, React(p, m, e) PROVE Calm'
  <2>1. UNCHANGED <<conn, due, retrying, snap, buffers, votes, log>>
    BY <1>5 DEF React, showing, sending
  <2>2. PICK packet \in Wire : packet.type = "react" /\ Reached(p, packet)
    <3>1. [type |-> "react", msg |-> m, by |-> p, what |-> e] \in Wire
      BY DEF Wire
    <3>2. QED
      BY <1>1, <1>5, <3>1 DEF React, Published
  <2>3. CalmInv'
    BY <2>1 DEF Calm, CalmInv
  <2>4. CarryInv'
    BY <2>1, <2>2, CarryReached DEF Calm
  <2>5. VoteInv'
    BY <2>1, <2>2, VoteReached DEF Calm
  <2>6. QED
    BY <2>3, <2>4, <2>5 DEF Calm
<1>6. ASSUME NEW p \in Peer, NEW m \in Msg, NEW o \in Option, Vote(p, m, o) PROVE Calm'
  BY <1>6, CalmVote
<1>7. ASSUME NEW p \in Peer, NEW q \in Peer, Receive(p, q) PROVE Calm'
  BY <1>0, <1>7, CalmReceive
<1>8. ASSUME NEW m \in Msg, SendChat(m) PROVE Calm'
  BY <1>0, <1>8, SameCalm DEF SendChat
<1>9. ASSUME NEW p \in Peer,
             RetryPending(p) \/ Interrupt(p) \/ Close(p) \/ Ready(p) \/ Reload(p)
      PROVE  FALSE
  BY <1>0, <1>1, <1>9 DEF RetryPending, Interrupt, Close, Ready, Reload
<1>10. CASE UNCHANGED vars
  BY <1>0, <1>10, SameCalm DEF vars
<1>11. QED
  BY <1>3, <1>4, <1>5, <1>6, <1>7, <1>8, <1>9, <1>10 DEF Next, Publishing

(* Trouble stays. *)
LEMMA TroubleGrows ==
  ASSUME [Next]_vars
  PROVE  trouble \subseteq trouble'
<1>1. ASSUME NEW m \in Msg, NEW w \in Way,
             WaitEnds(m, w) \/ PacketSent(m, w) \/ PacketFails(m, w) \/ PauseEnds(m, w)
      PROVE  trouble \subseteq trouble'
  BY <1>1 DEF WaitEnds, PacketSent, PacketFails, PauseEnds, Goes, history
<1>2. ASSUME NEW p \in Peer,
             RetryPending(p) \/ Interrupt(p) \/ Close(p) \/ Ready(p) \/ Reload(p)
      PROVE  trouble \subseteq trouble'
  BY <1>2 DEF RetryPending, Interrupt, Close, Ready, Reload, Goes, history
<1>3. ASSUME NEW p \in Peer, NEW m \in Msg,
             (\E e \in Emoji : React(p, m, e)) \/ (\E o \in Option : Vote(p, m, o))
      PROVE  trouble \subseteq trouble'
  BY <1>3 DEF React, Vote
<1>4. ASSUME NEW m \in Msg, SendChat(m) PROVE trouble \subseteq trouble'
  BY <1>4 DEF SendChat, history
<1>5. ASSUME NEW p \in Peer, NEW q \in Peer, Receive(p, q) PROVE trouble \subseteq trouble'
  BY <1>5 DEF Receive, history
<1>6. CASE UNCHANGED vars
  BY <1>6 DEF vars, history
<1>7. QED
  BY <1>1, <1>2, <1>3, <1>4, <1>5, <1>6 DEF Next, Publishing

(* The invariant of the votes always holds. *)
THEOREM BallotInvariance == Spec => []BallotInv
<1>1. Init => BallotInv
  <2> SUFFICES ASSUME Init PROVE BallotInv
    OBVIOUS
  <2>1. CalmInv
    BY DEF Init, CalmInv
  <2>2. CarryInv
    BY DEF Init, CarryInv, NoVotes
  <2>3. VoteInv
    BY DEF Init, VoteInv, Settling, NoVotes
  <2>4. QED
    BY <2>1, <2>2, <2>3 DEF BallotInv
<1>2. ProofInv /\ ProofInv' /\ LineType /\ LoopInv /\ BallotInv /\ [Next]_vars => BallotInv'
  <2> SUFFICES ASSUME ProofInv, ProofInv', LoopInv, BallotInv, [Next]_vars, trouble' = {}
               PROVE  (CalmInv /\ CarryInv /\ VoteInv)'
    BY DEF BallotInv
  <2>1. trouble = {}
    BY TroubleGrows
  <2>2. Calm
    BY <2>1 DEF BallotInv, Calm
  <2>3. Calm'
    BY <2>1, <2>2, CalmStep
  <2>4. QED
    BY <2>3 DEF Calm
<1>3. Spec => []ProofInv
  BY ChatInvariance, PTL DEF ProofInv
<1>4. QED
  BY <1>1, <1>2, <1>3, LoopInvariance, PTL DEF Spec

(* Without trouble, votes settle. *)
THEOREM ChatVotesSettle == Spec => []VotesSettle
<1>1. BallotInv => VotesSettle
  <2> SUFFICES ASSUME BallotInv, Quiet, trouble = {},
                      NEW q \in Peer, NEW v \in Peer, NEW m \in Msg
               PROVE  votes[q][m][v] \in {votes[v][m][v], None}
    BY DEF VotesSettle
  <2>1. CASE q = v
    BY <2>1
  <2>2. CASE q # v
    <3>1. Settling(chan[v][q], votes[q][m][v], votes[v][m][v], m) /\ chan[v][q] = <<>>
      BY <2>2 DEF BallotInv, VoteInv, Quiet
    <3>2. QED
      BY <3>1 DEF Settling
  <2>3. QED
    BY <2>1, <2>2
<1>2. QED
  BY <1>1, BallotInvariance, PTL
=============================================================================
