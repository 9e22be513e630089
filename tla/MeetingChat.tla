----------------------------- MODULE MeetingChat -----------------------------
(***************************************************************************)
(* The chat of a meeting (components/meeting/MeetingContext.tsx and        *)
(* chat/): messages, reactions and poll votes on LiveKit's reliable data   *)
(* channel.  The server keeps nothing.  A large message travels as a meta  *)
(* packet and chunks; a publish tries twice, and when the connection       *)
(* returns the author publishes once more what is not known to be sent,    *)
(* even what another publish is still busy with.                           *)
(*                                                                         *)
(* A message is a model value; part 0 of it is its only packet or the      *)
(* meta.  A poll fits one chunk, the last.  One step is one callback up to *)
(* its next await.  A channel is FIFO from one sender to one receiver.     *)
(* The caps of 400 and 200 messages, the age limits and the 120 seconds a  *)
(* half assembled message is kept are out of reach.                        *)
(***************************************************************************)
EXTENDS Integers, Sequences, SequencesExt, FiniteSets, Filter

CONSTANTS
  Peer, Msg,
  Author,     \* who writes a message
  Chunks,     \* its chunks, 0 if it fits a packet
  Poll,       \* the messages with a poll
  Emoji, Option, None,
  Trouble,    \* what may go wrong, each once
  MaxEvents   \* bound on reactions, votes and troubles together

ASSUME ChatAssumption ==
  /\ Author \in [Msg -> Peer] /\ Chunks \in [Msg -> Nat] /\ Poll \subseteq Msg
  /\ None \notin Emoji \union Option
  /\ MaxEvents \in Nat
  /\ Trouble \subseteq {"interrupt", "close", "fail", "reload"}

VARIABLES
  log,      \* chatMessages of each participant, in order
  pieces,   \* pieces[q][m]: the chunks of m that q put together when it showed it
  status,   \* the author's status of a message
  pub,      \* the running publishes: by sendChat and by the retry loop
  retrying, \* what the retry loop still has to publish; empty: not in flight
  snap,     \* the votes in the loop's copy of a poll
  due,      \* waitForRoomPublishReady before the retry loop
  conn,     \* "ready", "closed" (interrupted, opening) or "dead" transport
  chan,     \* chan[p][q]: packets of p on their way to q
  buffers,  \* chatChunkBuffersRef
  reacts, votes,  \* by participant, message and voter
  marks,
  trouble,  \* what has gone wrong
  gap       \* participants that have missed a packet

sending == <<status, pub, retrying, snap, due>>
showing == <<log, pieces, buffers>>
history == <<marks, trouble, gap>>
vars == <<log, pieces, status, pub, retrying, snap, due, conn, chan, buffers,
          reacts, votes, history>>

Way == {"send", "retry"}
Run == [step : {"idle", "wait", "pause", "send"}, part : Nat, try : 0..1]
Idle == [step |-> "idle", part |-> 0, try |-> 0]
Trying(n) == [step |-> "send", part |-> 0, try |-> n]

Voters == [Peer -> Option \union {None}]
NoVotes == [v \in Peer |-> None]

Wire == [type : {"part"}, msg : Msg, part : Nat, votes : Voters]
        \union [type : {"react"}, msg : Msg, by : Peer, what : Emoji]
        \union [type : {"vote"}, msg : Msg, by : Peer, what : Option]

(* PendingChatChunks: the chunks that came, and how many were counted. *)
Pending == [have : SUBSET Nat, received : Nat, votes : Voters]
NoPending == [have |-> {}, received |-> 0, votes |-> NoVotes]

ASSUME NoBuffer == None \notin Pending

TypeOK ==
  /\ log \in [Peer -> Seq(Msg)]
  /\ pieces \in [Peer -> [Msg -> SUBSET Nat]]
  /\ status \in [Msg -> {"unsent", "sending", "sent", "failed", "none"}]
  /\ pub \in [Msg \X Way -> Run]
  /\ retrying \in [Peer -> Seq(Msg)]
  /\ \A m \in Msg : pub[<<m, "retry">>] # Idle => retrying[Author[m]] # <<>>
  /\ snap \in [Msg -> Voters]
  /\ due \in [Peer -> BOOLEAN]
  /\ conn \in [Peer -> {"ready", "closed", "dead"}]
  /\ chan \in [Peer -> [Peer -> Seq(Wire)]]
  /\ buffers \in [Peer -> [Msg -> Pending \union {None}]]
  /\ reacts \in [Peer -> [Msg -> [Peer -> Emoji \union {None}]]]
  /\ votes \in [Peer -> [Msg -> Voters]]
  /\ marks \in 0..MaxEvents
  /\ trouble \subseteq Trouble /\ gap \subseteq Peer

Init ==
  /\ log = [p \in Peer |-> <<>>]
  /\ pieces = [p \in Peer |-> [m \in Msg |-> {}]]
  /\ status = [m \in Msg |-> "unsent"]
  /\ pub = [r \in Msg \X Way |-> Idle]
  /\ retrying = [p \in Peer |-> <<>>]
  /\ snap = [m \in Msg |-> NoVotes]
  /\ due = [p \in Peer |-> FALSE]
  /\ conn = [p \in Peer |-> "ready"]
  /\ chan = [p \in Peer |-> [q \in Peer |-> <<>>]]
  /\ buffers = [p \in Peer |-> [m \in Msg |-> None]]
  /\ reacts = [p \in Peer |-> [m \in Msg |-> [v \in Peer |-> None]]]
  /\ votes = [p \in Peer |-> [m \in Msg |-> NoVotes]]
  /\ marks = 0 /\ trouble = {} /\ gap = {}

-----------------------------------------------------------------------------
(* Publishing a message *)

Shown(q, m) == m \in ToSet(log[q])

Over == marks + Cardinality(trouble) >= MaxEvents

(* Something goes wrong, for the first time. *)
Goes(t) ==
  /\ t \in Trouble \ trouble /\ ~Over
  /\ trouble' = trouble \union {t}

(* publishChatPackets up to its first await: a dead transport fails the    *)
(* message, one that is opening is waited for.                             *)
Started(p) ==
  IF conn[p] = "ready" THEN Trying(0)
  ELSE IF conn[p] = "closed" THEN [Idle EXCEPT !.step = "wait"] ELSE Idle

(* The retry loop goes on with the rest of its copy; all of it fails at    *)
(* once on a dead transport.                                               *)
RetryFrom(p, rest, st, runs) ==
  IF rest = <<>> \/ conn[p] = "dead"
  THEN /\ retrying' = [retrying EXCEPT ![p] = <<>>]
       /\ status' = [m \in Msg |-> IF m \in ToSet(rest) THEN "failed" ELSE st[m]]
       /\ pub' = runs
  ELSE /\ retrying' = [retrying EXCEPT ![p] = rest]
       /\ status' = [st EXCEPT ![Head(rest)] = "sending"]
       /\ pub' = [runs EXCEPT ![<<Head(rest), "retry">>] = Started(p)]

(* A publish of m ends and leaves its status. *)
Ends(m, w, s) ==
  LET st == [status EXCEPT ![m] = s]
      runs == [pub EXCEPT ![<<m, w>>] = Idle]
  IN IF w = "retry" THEN RetryFrom(Author[m], Tail(retrying[Author[m]]), st, runs)
     ELSE status' = st /\ pub' = runs /\ UNCHANGED retrying

Proceeds(m, w, run) ==
  /\ pub' = [pub EXCEPT ![<<m, w>>] = run]
  /\ UNCHANGED <<status, retrying>>

(* sendChat: the local echo first. *)
SendChat(m) ==
  LET p == Author[m] IN
  /\ status[m] = "unsent"
  /\ log' = [log EXCEPT ![p] = Append(@, m)]
  /\ pieces' = [pieces EXCEPT ![p][m] = 1..Chunks[m]]
  /\ status' = [status EXCEPT ![m] = IF conn[p] = "dead" THEN "failed" ELSE "sending"]
  /\ pub' = [pub EXCEPT ![<<m, "send">>] = Started(p)]
  /\ UNCHANGED <<retrying, snap, due, conn, chan, buffers, reacts, votes, history>>

(* The wait of two seconds ends: ready, dead or too late. *)
WaitEnds(m, w) ==
  /\ pub[<<m, w>>].step = "wait"
  /\ IF conn[Author[m]] = "ready" THEN Proceeds(m, w, Trying(0)) ELSE Ends(m, w, "failed")
  /\ UNCHANGED <<showing, snap, due, conn, chan, reacts, votes, history>>

(* A packet of p is out: whoever is connected will have it. *)
Reached(p, w) ==
  /\ chan' = [chan EXCEPT ![p] = [q \in Peer |->
       IF q # p /\ conn[q] # "dead" THEN Append(@[q], w) ELSE @[q]]]
  /\ gap' = gap \union {q \in Peer \ {p} : conn[q] = "dead"}

(* The votes of a poll as the publish has them. *)
Carried(m, w) == IF w = "retry" THEN snap[m] ELSE NoVotes

(* One packet is published; after the last the message is sent. *)
PacketSent(m, w) ==
  LET run == pub[<<m, w>>] IN
  /\ run.step = "send" /\ conn[Author[m]] = "ready"
  /\ Reached(Author[m], [type |-> "part", msg |-> m, part |-> run.part,
                         votes |-> Carried(m, w)])
  /\ IF run.part < Chunks[m] THEN Proceeds(m, w, [run EXCEPT !.part = @ + 1])
                             ELSE Ends(m, w, "sent")
  /\ UNCHANGED <<showing, snap, due, conn, reacts, votes, marks, trouble>>

(* publishData fails, with an error that is worth another try or not.  A   *)
(* fatal one is worth it only with an open transport.                      *)
PacketFails(m, w) ==
  LET p == Author[m] IN
  /\ pub[<<m, w>>].step = "send"
  /\ IF conn[p] = "ready" THEN Goes("fail") ELSE UNCHANGED trouble
  /\ \/ /\ pub[<<m, w>>].try = 0 /\ conn[p] # "dead"
        /\ Proceeds(m, w, [pub[<<m, w>>] EXCEPT !.step = "pause"])
     \/ Ends(m, w, "failed")
  /\ UNCHANGED <<showing, snap, due, conn, chan, reacts, votes, marks, gap>>

(* Mutant: the second try goes on behind the packet that failed. *)
SecondTryBehind(run) == [run EXCEPT !.step = "send", !.part = @ + 1, !.try = 1]

(* The second try starts over with the first packet. *)
SecondTry(run) == Trying(1)

(* The pause of 300 ms ends: start over, if the transport is open. *)
PauseEnds(m, w) ==
  /\ pub[<<m, w>>].step = "pause"
  /\ IF conn[Author[m]] = "ready" THEN Proceeds(m, w, SecondTry(pub[<<m, w>>]))
                                  ELSE Ends(m, w, "failed")
  /\ UNCHANGED <<showing, snap, due, conn, chan, reacts, votes, history>>

(* Mutant: what has failed is given up. *)
UnsentSending(p) ==
  Kept(log[p], {m \in Msg : Author[m] = p /\ status[m] = "sending"})

(* What p wrote and does not know to be sent, in order. *)
Unsent(p) ==
  Kept(log[p], {m \in Msg : Author[m] = p /\ status[m] \in {"sending", "failed"}})

(* Mutant: the flag is never set. *)
InFlightNever(p) == FALSE

(* chatPublishInFlightRef *)
InFlight(p) == retrying[p] # <<>>

(* retryPendingChatPublishes, unless it is in flight. *)
RetryPending(p) ==
  /\ due[p] /\ conn[p] # "closed"
  /\ due' = [due EXCEPT ![p] = FALSE]
  /\ IF conn[p] = "ready" /\ ~InFlight(p)
     THEN /\ RetryFrom(p, Unsent(p), status, pub)
          /\ snap' = [m \in Msg |-> IF m \in ToSet(Unsent(p)) THEN votes[p][m] ELSE snap[m]]
     ELSE UNCHANGED <<status, pub, retrying, snap>>
  /\ UNCHANGED <<showing, conn, chan, reacts, votes, history>>

-----------------------------------------------------------------------------
(* Reactions and votes *)

(* applyReactionToggle *)
Toggled(old, e) == IF old = e THEN None ELSE e

Marks == ~Over /\ marks' = marks + 1

(* publishData of a reaction or vote: with an open transport it is out at  *)
(* once, otherwise it fails unheeded.                                      *)
Published(p, w) ==
  IF conn[p] = "ready" THEN Reached(p, w) ELSE UNCHANGED <<chan, gap>>

(* reactToMessage and votePoll: shown locally and published. *)
React(p, m, e) ==
  /\ Shown(p, m) /\ Marks
  /\ reacts' = [reacts EXCEPT ![p][m][p] = Toggled(@, e)]
  /\ Published(p, [type |-> "react", msg |-> m, by |-> p, what |-> e])
  /\ UNCHANGED <<showing, sending, conn, votes, trouble>>

Vote(p, m, o) ==
  /\ Shown(p, m) /\ m \in Poll /\ Marks
  /\ votes' = [votes EXCEPT ![p][m][p] = o]
  /\ Published(p, [type |-> "vote", msg |-> m, by |-> p, what |-> o])
  /\ UNCHANGED <<showing, sending, conn, reacts, trouble>>

-----------------------------------------------------------------------------
(* The receiver *)

(* Mutant: what is shown already is shown again. *)
KnownNever(q, m) == FALSE

(* A message with the id of one that is shown is not shown again. *)
Known(q, m) == Shown(q, m)

(* appendRemoteChat *)
Appended(q, m, have, vs) ==
  IF Known(q, m) THEN UNCHANGED <<log, pieces, votes>>
  ELSE /\ log' = [log EXCEPT ![q] = Append(@, m)]
       /\ pieces' = [pieces EXCEPT ![q][m] = have]
       /\ votes' = [votes EXCEPT ![q][m] = IF m \in Poll THEN vs ELSE @]

(* Mutant: a meta always begins anew. *)
IngestedAnew(pending) == NoPending

(* ingestChatChunk: the meta of another publish of the message changes     *)
(* nothing.                                                                *)
Ingested(pending) == IF pending = None THEN NoPending ELSE pending

(* Mutant: a chunk counts every time it comes. *)
AppliedTwice(e, i, vs) ==
  [have |-> e.have \union {i}, received |-> e.received + 1, votes |-> vs]

(* applyChatChunkPart: a chunk counts the first time it comes. *)
Applied(e, i, vs) ==
  IF i \in e.have THEN e
  ELSE [have |-> e.have \union {i}, received |-> e.received + 1, votes |-> vs]

ReceiveMeta(q, m) ==
  /\ buffers' = [buffers EXCEPT ![q][m] = Ingested(@)]
  /\ UNCHANGED <<log, pieces, votes>>

(* A chunk without its meta is ignored; the last missing one completes the *)
(* message.  The poll is the last chunk.                                   *)
ReceiveChunk(q, m, i, vs) ==
  IF buffers[q][m] = None THEN UNCHANGED <<showing, votes>>
  ELSE LET old == buffers[q][m]
           e == Applied(old, i, IF i = Chunks[m] THEN vs ELSE old.votes)
       IN IF e.received < Chunks[m]
          THEN /\ buffers' = [buffers EXCEPT ![q][m] = e]
               /\ UNCHANGED <<log, pieces, votes>>
          ELSE /\ buffers' = [buffers EXCEPT ![q][m] = None]
               /\ Appended(q, m, e.have, e.votes)

ReceivePart(q, w) ==
  /\ IF Chunks[w.msg] = 0
     THEN Appended(q, w.msg, {}, w.votes) /\ UNCHANGED buffers
     ELSE IF w.part = 0 THEN ReceiveMeta(q, w.msg)
     ELSE ReceiveChunk(q, w.msg, w.part, w.votes)
  /\ UNCHANGED reacts

(* A reaction to or vote on a message that is not shown is lost. *)
ReceiveReact(q, w) ==
  /\ reacts' = IF Shown(q, w.msg)
               THEN [reacts EXCEPT ![q][w.msg][w.by] = Toggled(@, w.what)] ELSE reacts
  /\ UNCHANGED <<showing, votes>>

(* Mutant: the first vote counts. *)
BallotFirst(old, o) == IF old = None THEN o ELSE old

(* The last vote counts. *)
Ballot(old, o) == o

ReceiveVote(q, w) ==
  /\ votes' = IF Shown(q, w.msg)
              THEN [votes EXCEPT ![q][w.msg][w.by] = Ballot(@, w.what)] ELSE votes
  /\ UNCHANGED <<showing, reacts>>

Receive(p, q) ==
  /\ chan[p][q] # <<>> /\ conn[q] = "ready"
  /\ chan' = [chan EXCEPT ![p][q] = Tail(@)]
  /\ LET w == Head(chan[p][q])
     IN \/ w.type = "part" /\ ReceivePart(q, w)
        \/ w.type = "react" /\ ReceiveReact(q, w)
        \/ w.type = "vote" /\ ReceiveVote(q, w)
  /\ UNCHANGED <<sending, conn, history>>

-----------------------------------------------------------------------------
(* The connection *)

Loses(q) ==
  /\ chan' = [p \in Peer |-> [chan[p] EXCEPT ![q] = <<>>]]
  /\ gap' = gap \union {q}

(* Reconnecting: the transport is being opened again. *)
Interrupt(p) ==
  /\ conn[p] = "ready" /\ Goes("interrupt")
  /\ conn' = [conn EXCEPT ![p] = "closed"]
  /\ UNCHANGED <<showing, sending, chan, reacts, votes, marks, gap>>

(* Disconnected: the peer connection is gone. *)
Close(p) ==
  /\ conn[p] # "dead" /\ Goes("close")
  /\ conn' = [conn EXCEPT ![p] = "dead"]
  /\ Loses(p)
  /\ UNCHANGED <<showing, sending, reacts, votes, marks>>

(* Connected or Reconnected, and open.  What was sent meanwhile arrives    *)
(* after a resume and is lost after a restart.                             *)
Ready(p) ==
  /\ conn[p] # "ready"
  /\ conn' = [conn EXCEPT ![p] = "ready"]
  /\ due' = [due EXCEPT ![p] = TRUE]
  /\ (UNCHANGED <<chan, gap>> \/ Loses(p))
  /\ UNCHANGED <<showing, status, pub, retrying, snap, reacts, votes, marks, trouble>>

(* The page is loaded anew.  What is shown comes back from sessionStorage, *)
(* without the status of the messages.                                     *)
Reload(p) ==
  /\ Goes("reload")
  /\ conn' = [conn EXCEPT ![p] = "closed"]
  /\ status' = [m \in Msg |->
       IF Author[m] = p /\ Shown(p, m) THEN "none" ELSE status[m]]
  /\ pub' = [r \in Msg \X Way |-> IF Author[r[1]] = p THEN Idle ELSE pub[r]]
  /\ retrying' = [retrying EXCEPT ![p] = <<>>]
  /\ due' = [due EXCEPT ![p] = FALSE]
  /\ buffers' = [buffers EXCEPT ![p] = [m \in Msg |-> None]]
  /\ Loses(p)
  /\ UNCHANGED <<log, pieces, snap, reacts, votes, marks>>

Publishing == \E m \in Msg, w \in Way :
  WaitEnds(m, w) \/ PacketSent(m, w) \/ PacketFails(m, w) \/ PauseEnds(m, w)

Next ==
  \/ \E m \in Msg : SendChat(m)
  \/ Publishing
  \/ \E p \in Peer :
       \/ RetryPending(p)
       \/ Interrupt(p) \/ Close(p) \/ Ready(p) \/ Reload(p)
       \/ \E m \in Msg, e \in Emoji : React(p, m, e)
       \/ \E m \in Msg, o \in Option : Vote(p, m, o)
  \/ \E p, q \in Peer : Receive(p, q)

Spec == Init /\ [][Next]_vars

(* publishData settles, timers fire, the connection returns, and the       *)
(* channel delivers.                                                       *)
Fairness ==
  /\ \A m \in Msg, w \in Way :
       WF_vars(WaitEnds(m, w) \/ PacketSent(m, w) \/ PacketFails(m, w) \/ PauseEnds(m, w))
  /\ \A p \in Peer : WF_vars(RetryPending(p)) /\ WF_vars(Ready(p))
  /\ \A p, q \in Peer : WF_vars(Receive(p, q))

LiveSpec == Spec /\ Fairness

-----------------------------------------------------------------------------
(* Properties *)

(* Nothing is on its way. *)
Quiet ==
  /\ \A r \in Msg \X Way : pub[r] = Idle
  /\ \A p \in Peer : conn[p] = "ready" /\ ~due[p]
  /\ \A p, q \in Peer : chan[p][q] = <<>>

(* However often the publishes of a message overlap and repeat its         *)
(* packets, nobody is shown it twice (appendRemoteChat).                   *)
ShownOnce == \A q \in Peer : IsInjective(log[q])

(* A message is shown when all of it has come, even if the chunks of two   *)
(* publishes arrive mixed (ingestChatChunk, applyChatChunkPart).           *)
ShownWhole == \A q \in Peer, m \in Msg : Shown(q, m) => pieces[q][m] = 1..Chunks[m]

(* A message that its author sees as sent is shown by everybody who missed *)
(* nothing, although one publish may fail while the other goes on and      *)
(* chunks without a meta are ignored (publishChatPackets).                 *)
SentIsShown ==
  Quiet => \A m \in Msg : status[m] = "sent" => \A q \in Peer \ gap : Shown(q, m)

(* Without trouble, votes settle: whoever shows a poll shows of each voter *)
(* the last vote, or none where the poll came too late for it.             *)
VotesSettle ==
  Quiet /\ trouble = {} =>
    \A q, v \in Peer, m \in Msg : votes[q][m][v] \in {votes[v][m][v], None}

Awaited(m) ==
  /\ status[m] \in {"sending", "failed"}
  /\ due[Author[m]] /\ ~InFlight(Author[m])
  /\ conn[Author[m]] = "ready" /\ Over

(* When the connection has returned and holds, and no earlier retry is     *)
(* still in flight, everything its author does not know to be sent reaches *)
(* everybody who misses nothing (retryPendingChatPublishes).               *)
RetryDelivers == \A m \in Msg, q \in Peer :
  Awaited(m) ~> (Shown(q, m) \/ q \in gap)

-----------------------------------------------------------------------------
(* The inductive invariant behind ShownOnce and ShownWhole *)

(* A publish never gets past the last chunk of its message. *)
PublishInv == \A r \in Msg \X Way : pub[r].part <= Chunks[r[1]]

(* The packets of a message are its author's, for somebody else. *)
PacketInv == \A p, q \in Peer : \A n \in DOMAIN chan[p][q] :
  LET w == chan[p][q][n]
  IN w.type = "part" => Author[w.msg] = p /\ p # q /\ w.part <= Chunks[w.msg]

(* An author shows its own message only by the local echo. *)
EchoInv == \A m \in Msg : Shown(Author[m], m) => status[m] # "unsent"

(* The count of a buffer is that of different chunks of the message. *)
BufferInv == \A q \in Peer, m \in Msg :
  LET e == buffers[q][m]
  IN e # None => e.have \subseteq 1..Chunks[m] /\ e.received = Cardinality(e.have)

ChatInv == PublishInv /\ PacketInv /\ EchoInv /\ BufferInv /\ ShownOnce /\ ShownWhole

(* What the invariants of delivery need besides.  The retry loop publishes *)
(* its author's messages, one at a time, and only what is shown is         *)
(* published or has a status.                                              *)
RetryInv ==
  /\ \A p \in Peer : \A n \in DOMAIN retrying[p] :
       Author[retrying[p][n]] = p /\ Shown(p, retrying[p][n])
  /\ \A m \in Msg : pub[<<m, "retry">>] # Idle =>
       retrying[Author[m]] # <<>> /\ Head(retrying[Author[m]]) = m
  /\ \A m \in Msg :
       status[m] # "unsent" \/ (\E w \in Way : pub[<<m, w>>] # Idle) => Shown(Author[m], m)

IsPart(w, m, i) == w.type = "part" /\ w.msg = m /\ w.part = i

(* With the packets c on their way and the buffer b, part i of m is in b   *)
(* or on its way to it, and a chunk is preceded by the meta.               *)
HeldIn(c, b, m, i) ==
  \/ b # None /\ (i = 0 \/ i \in b.have)
  \/ \E n \in DOMAIN c :
       /\ IsPart(c[n], m, i)
       /\ i = 0 \/ b # None \/ \E k \in 1..(n - 1) : IsPart(c[k], m, 0)

Held(q, m, i) == HeldIn(chan[Author[m]][q], buffers[q][m], m, i)

(* Whoever missed nothing and does not show a message holds every part     *)
(* that a running publish has sent, and all of a message that is sent.     *)
HeldInv == \A m \in Msg : \A q \in Peer \ (gap \union {Author[m]}) :
  ~Shown(q, m) => \A i \in 0..Chunks[m] :
    status[m] = "sent" \/ (\E w \in Way : i < pub[<<m, w>>].part) => Held(q, m, i)

(* A buffer that has everything is gone. *)
OpenInv == \A q \in Peer, m \in Msg :
  buffers[q][m] # None => buffers[q][m].received < Chunks[m]

(* Without trouble nothing is ever published twice. *)
CalmInv ==
  /\ \A p \in Peer : conn[p] = "ready" /\ ~due[p] /\ retrying[p] = <<>>
  /\ snap = [m \in Msg |-> NoVotes]

(* No part and no buffer carries votes, a vote is its sender's, and        *)
(* nobody has votes on what it does not show.                              *)
CarryInv ==
  /\ \A p, q \in Peer : \A n \in DOMAIN chan[p][q] :
       LET w == chan[p][q][n]
       IN /\ w.type = "part" => w.votes = NoVotes
          /\ w.type = "vote" => w.by = p /\ p # q
  /\ \A q \in Peer, m \in Msg : buffers[q][m] # None => buffers[q][m].votes = NoVotes
  /\ \A q \in Peer, m \in Msg : ~Shown(q, m) => votes[q][m] = NoVotes

IsVote(w, m) == w.type = "vote" /\ w.msg = m

(* With the packets c on their way from a voter who has voted y, and x     *)
(* shown of it: a vote on its way is the last one or another follows it,   *)
(* and if x is neither the last vote nor none, one is on its way.          *)
Settling(c, x, y, m) ==
  /\ x \in {y, None} \/ \E n \in DOMAIN c : IsVote(c[n], m)
  /\ \A n \in DOMAIN c : IsVote(c[n], m) =>
       c[n].what = y \/ \E k \in DOMAIN c : k > n /\ IsVote(c[k], m)

VoteInv == \A q, v \in Peer, m \in Msg :
  q # v => Settling(chan[v][q], votes[q][m][v], votes[v][m][v], m)

DeliveryInv == RetryInv /\ HeldInv /\ OpenInv
BallotInv == trouble = {} => CalmInv /\ CarryInv /\ VoteInv
=============================================================================
