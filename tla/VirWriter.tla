------------------------------ MODULE VirWriter ------------------------------
(***************************************************************************)
(* protocol/rtmp/rtmp.go: the RTMP player's writer.  The stream's          *)
(* TransStart goroutine (the producer) calls Write, the writer's own       *)
(* SendPacket goroutine (the sender) empties the queue into the            *)
(* connection, and Close is called by the writer's Check goroutine, by the *)
(* stream's CheckAlive and by TransStart's closeInter.  Only the queue is  *)
(* synchronised (it is a Go channel); the flag closed is not.  A step is   *)
(* one access to the channel or to the flag.                               *)
(***************************************************************************)
EXTENDS Naturals, Sequences, FiniteSets

CONSTANTS
  MaxQueueNum,  \* capacity of packetQueue (1024)
  HighWater,    \* Write drops from this length on (maxQueueNum - 24)
  DropRounds,   \* iterations of DropPacket (maxQueueNum - 84)
  VideoMark,    \* DropPacket drops one more above it (maxQueueNum - 10)
  AudioMark,    \* the same for audio (maxQueueNum - 2)
  Input,        \* kinds of packets offered
  MaxPackets,   \* bound on the packets published
  Closers       \* the callers of Close: "check", "alive", "inter"

\* What DropPacket tells apart: key stands for key frames and sequence headers,
\* inter for every other video packet.
Kinds == {"audio", "key", "inter", "metadata"}

ASSUME QueueAssumption ==
  /\ MaxQueueNum \in Nat /\ HighWater \in Nat /\ DropRounds \in Nat
  /\ VideoMark \in Nat /\ AudioMark \in Nat /\ MaxPackets \in Nat
  /\ 0 < DropRounds /\ DropRounds < HighWater /\ HighWater < VideoMark
  /\ VideoMark < AudioMark /\ AudioMark < MaxQueueNum
  /\ Input \subseteq Kinds
  /\ Closers \subseteq {"check", "alive", "inter"} /\ "alive" \in Closers

VARIABLES
  queue, chanClosed,      \* packetQueue and whether close() was called on it
  closed,                 \* VirWriter.closed
  connClosed,             \* conn.Close was called
  prod, offered,          \* the producer: location, the packet given to Write
  tmpPkt, round,          \* DropPacket's tmpPkt and i
  sender, inHand,         \* the sender: location, the packet being written
  closer,                 \* location of each caller of Close
  crashed,                \* a panic nobody recovers
  published, accepted, sent   \* history: numbers offered, enqueued, taken by conn.Write

queueVars == <<queue, chanClosed>>
prodVars == <<prod, offered, tmpPkt, round, published, accepted>>
senderVars == <<sender, inHand, sent>>
vars == <<queueVars, closed, connClosed, prodVars, senderVars, closer, crashed>>

Packet == [kind : Kinds, n : Nat]
Kept(k) == k \in {"audio", "key"}

\* The type of the state.  tmpPkt and inHand hold a packet from the first receive on.
TypeOK ==
  /\ queue \in Seq(Packet)
  /\ chanClosed \in BOOLEAN /\ closed \in BOOLEAN /\ connClosed \in BOOLEAN
  /\ crashed \in BOOLEAN
  /\ prod \in {"idle", "checkLen", "push", "receive", "requeue", "trim", "removed", "stopped"}
  /\ offered \in Packet /\ tmpPkt \in Packet /\ inHand \in Packet
  /\ round \in 0 .. DropRounds
  /\ sender \in {"receive", "write", "done"}
  /\ closer \in [Closers -> {"idle", "closeQueue", "setClosed", "done"}]
  /\ published \in Nat
  /\ accepted \subseteq Packet /\ sent \subseteq Packet

NoPacket == [kind |-> "metadata", n |-> 0]

Init ==
  /\ queue = <<>> /\ chanClosed = FALSE /\ closed = FALSE /\ connClosed = FALSE
  /\ prod = "idle" /\ offered = NoPacket /\ tmpPkt = NoPacket /\ round = 0
  /\ sender = "receive" /\ inHand = NoPacket
  /\ closer = [c \in Closers |-> "idle"]
  /\ crashed = FALSE
  /\ published = 0 /\ accepted = {} /\ sent = {}

-----------------------------------------------------------------------------
\* Write: the test of closed.  An error makes TransStart delete the writer.
WriteCheckClosed ==
  /\ ~crashed
  /\ prod = "idle"
  /\ published < MaxPackets
  /\ published' = published + 1
  /\ \E k \in Input : offered' = [kind |-> k, n |-> published + 1]
  /\ prod' = IF closed THEN "removed" ELSE "checkLen"
  /\ UNCHANGED <<queueVars, closed, connClosed, tmpPkt, round, accepted, senderVars, closer, crashed>>

\* Mutant: the queue may grow one past the mark.
LateWriteCheckLen ==
  /\ ~crashed
  /\ prod = "checkLen"
  /\ prod' = IF Len(queue) > HighWater THEN "receive" ELSE "push"
  /\ round' = 0
  /\ UNCHANGED <<queueVars, closed, connClosed, offered, tmpPkt, published, accepted,
                 senderVars, closer, crashed>>

\* Write: enqueue, or call DropPacket, which leaves the new packet out.
WriteCheckLen ==
  /\ ~crashed
  /\ prod = "checkLen"
  /\ prod' = IF Len(queue) >= HighWater THEN "receive" ELSE "push"
  /\ round' = 0
  /\ UNCHANGED <<queueVars, closed, connClosed, offered, tmpPkt, published, accepted,
                 senderVars, closer, crashed>>

\* A send on the channel: it waits while the channel is full, and panics when it
\* is closed; Write recovers the panic and returns it as an error.
Push(p, next) ==
  \/ /\ chanClosed
     /\ prod' = "removed"
     /\ UNCHANGED queue
  \/ /\ ~chanClosed
     /\ Len(queue) < MaxQueueNum
     /\ queue' = Append(queue, p)
     /\ prod' = next

WritePush ==
  /\ ~crashed
  /\ prod = "push"
  /\ Push(offered, "idle")
  /\ accepted' = IF chanClosed THEN accepted ELSE accepted \cup {offered}
  /\ UNCHANGED <<chanClosed, closed, connClosed, offered, tmpPkt, round, published,
                 senderVars, closer, crashed>>

\* DropPacket: the end of an iteration.
NextRound ==
  /\ round' = (round + 1) % DropRounds
  /\ prod' = IF round + 1 < DropRounds THEN "receive" ELSE "idle"

\* Mutant: the head is read but stays in the queue.
PeekDropReceive ==
  /\ ~crashed
  /\ prod = "receive"
  /\ queue # <<>>
  /\ tmpPkt' = Head(queue)
  /\ prod' = IF Kept(Head(queue).kind) THEN "requeue" ELSE "trim"
  /\ UNCHANGED <<queueVars, closed, connClosed, offered, round, published, accepted,
                 senderVars, closer, crashed>>

\* DropPacket: the receive at the top of the loop.  It waits while the channel is
\* empty and open; on a closed and empty channel ok is false and the round is void.
\* An inter frame and metadata are dropped here, the others go on to be re-queued.
DropReceive ==
  /\ ~crashed
  /\ prod = "receive"
  /\ \/ /\ queue # <<>>
        /\ tmpPkt' = Head(queue)
        /\ queue' = Tail(queue)
        /\ \/ Kept(Head(queue).kind) /\ prod' = "requeue" /\ UNCHANGED round
           \/ Head(queue).kind = "inter" /\ prod' = "trim" /\ UNCHANGED round
           \/ Head(queue).kind = "metadata" /\ NextRound
     \/ queue = <<>> /\ chanClosed /\ NextRound /\ UNCHANGED <<tmpPkt, queue>>
  /\ UNCHANGED <<chanClosed, closed, connClosed, offered, published, accepted, senderVars,
                 closer, crashed>>

\* Mutant: a key frame is not put back.
LossyDropRequeue ==
  /\ ~crashed
  /\ prod = "requeue"
  /\ \/ /\ tmpPkt.kind = "audio"
        /\ Push(tmpPkt, IF round + 1 < DropRounds THEN "receive" ELSE "idle")
        /\ round' = (round + 1) % DropRounds
     \/ tmpPkt.kind = "key" /\ NextRound /\ UNCHANGED queue
  /\ UNCHANGED <<chanClosed, closed, connClosed, offered, tmpPkt, published, accepted,
                 senderVars, closer, crashed>>

\* DropPacket: audio is put back unless the queue is above AudioMark (then it and
\* the next packet are lost); a key frame or sequence header is put back always.
DropRequeue ==
  /\ ~crashed
  /\ prod = "requeue"
  /\ \/ /\ tmpPkt.kind = "audio"
        /\ IF Len(queue) > AudioMark
           THEN queue' = Tail(queue) /\ NextRound
           ELSE Push(tmpPkt, IF round + 1 < DropRounds THEN "receive" ELSE "idle")
                /\ round' = (round + 1) % DropRounds
     \/ tmpPkt.kind = "key" /\ Push(tmpPkt, "trim") /\ UNCHANGED round
  /\ UNCHANGED <<chanClosed, closed, connClosed, offered, tmpPkt, published, accepted,
                 senderVars, closer, crashed>>

\* DropPacket: after a video packet, one more is dropped above VideoMark.
DropTrim ==
  /\ ~crashed
  /\ prod = "trim"
  /\ queue' = IF Len(queue) > VideoMark THEN Tail(queue) ELSE queue
  /\ NextRound
  /\ UNCHANGED <<chanClosed, closed, connClosed, offered, tmpPkt, published, accepted,
                 senderVars, closer, crashed>>

Producer ==
  \/ WriteCheckClosed \/ WriteCheckLen \/ WritePush
  \/ DropReceive \/ DropRequeue \/ DropTrim

-----------------------------------------------------------------------------
\* SendPacket: take the next packet; a closed and empty channel ends the goroutine.
SendReceive ==
  /\ ~crashed
  /\ sender = "receive"
  /\ \/ queue # <<>> /\ inHand' = Head(queue) /\ queue' = Tail(queue) /\ sender' = "write"
     \/ queue = <<>> /\ chanClosed /\ sender' = "done" /\ UNCHANGED <<inHand, queue>>
  /\ UNCHANGED <<chanClosed, closed, connClosed, prodVars, sent, closer, crashed>>

\* SendPacket: conn.Write takes the packet into the connection's buffer, which it may
\* do once more after the connection was closed.
SendTaken ==
  /\ ~crashed
  /\ sender = "write"
  /\ sent' = sent \cup {inHand}
  /\ sender' = "receive"
  /\ UNCHANGED <<queueVars, closed, connClosed, prodVars, inHand, closer, crashed>>

\* SendPacket: conn.Write fails, the connection being closed or the peer gone.  closed
\* is set, the channel left open, and the goroutine ends.
SendFails ==
  /\ ~crashed
  /\ sender = "write"
  /\ closed' = TRUE
  /\ sender' = "done"
  /\ UNCHANGED <<queueVars, connClosed, prodVars, inHand, sent, closer, crashed>>

Sender == SendReceive \/ SendTaken \/ SendFails

-----------------------------------------------------------------------------
\* Close(c), c being the Check goroutine (a read failed), the stream's CheckAlive (no
\* packet was written for writeTimeout) or closeInter (the producer, which then
\* returns); they may overlap.  First the test of closed ...
CloseTest(c) ==
  /\ ~crashed
  /\ closer[c] = "idle"
  /\ closer' = [closer EXCEPT ![c] = IF closed THEN "setClosed" ELSE "closeQueue"]
  /\ \/ c # "inter" /\ UNCHANGED prod
     \/ c = "inter" /\ prod = "idle" /\ prod' = "stopped"
  /\ UNCHANGED <<queueVars, closed, connClosed, offered, tmpPkt, round, published,
                 accepted, senderVars, crashed>>

\* Mutant: the channel is never closed.
OpenCloseQueue(c) ==
  /\ ~crashed
  /\ closer[c] = "closeQueue"
  /\ closer' = [closer EXCEPT ![c] = "setClosed"]
  /\ UNCHANGED <<queueVars, crashed, closed, connClosed, prodVars, senderVars>>

\* ... then close(packetQueue), which panics on a channel that is closed already ...
CloseQueue(c) ==
  /\ ~crashed
  /\ closer[c] = "closeQueue"
  /\ chanClosed' = TRUE
  /\ crashed' = chanClosed
  /\ closer' = [closer EXCEPT ![c] = "setClosed"]
  /\ UNCHANGED <<queue, closed, connClosed, prodVars, senderVars>>

\* ... then closed = true and conn.Close.
CloseConn(c) ==
  /\ ~crashed
  /\ closer[c] = "setClosed"
  /\ closed' = TRUE
  /\ connClosed' = TRUE
  /\ closer' = [closer EXCEPT ![c] = "done"]
  /\ UNCHANGED <<queueVars, prodVars, senderVars, crashed>>

Close(c) == CloseTest(c) \/ CloseQueue(c) \/ CloseConn(c)

Next == Producer \/ Sender \/ \E c \in Closers : Close(c)

\* Goroutines run.  conn.Write has no deadline once the handshake is over: on an open
\* connection it may wait for the player for ever, on a closed one it returns.  The
\* CheckAlive scan comes round every 5 s and closes a writer that has taken no packet
\* from the queue for writeTimeout: as the packets are finitely many, every writer in
\* the end, one whose sender is blocked in conn.Write or gone included.  Nothing
\* obliges TransStart to offer another packet or a player to disconnect.
Fairness ==
  /\ WF_vars(WriteCheckLen \/ WritePush)
  /\ WF_vars(DropReceive \/ DropRequeue \/ DropTrim)
  /\ WF_vars(SendReceive)
  /\ WF_vars(connClosed /\ (SendTaken \/ SendFails))
  /\ WF_vars(Close("alive"))
  /\ \A c \in Closers : WF_vars(CloseQueue(c) \/ CloseConn(c))

Spec == Init /\ [][Next]_vars /\ Fairness

-----------------------------------------------------------------------------
\* The queue never grows past HighWater, whatever the sender and the closers do:
\* Write never waits on a full channel, DropPacket never waits to put a packet back
\* (so a slow player does not stop its stream), and the branches of DropPacket that
\* throw away an extra packet are never taken.
QueueBelowMark ==
  /\ Len(queue) <= HighWater
  /\ prod \in {"push", "requeue"} => Len(queue) < HighWater

\* While the writer is open, an audio packet, key frame or sequence header that was
\* enqueued is in the queue, in DropPacket's or the sender's hand, or delivered:
\* DropPacket loses none of them.
KeptNotLost ==
  ~closed /\ ~chanClosed =>
    \A p \in accepted :
      Kept(p.kind) =>
        \/ p \in sent
        \/ \E i \in DOMAIN queue : queue[i] = p
        \/ prod = "requeue" /\ tmpPkt = p
        \/ sender = "write" /\ inHand = p

\* No packet reaches the player twice: DropPacket's rotation and the sender never
\* hold the same packet, and it is queued once.
NoDuplicate ==
  /\ \A i, j \in DOMAIN queue : queue[i] = queue[j] => i = j
  /\ \A i \in DOMAIN queue :
       /\ queue[i] \notin sent
       /\ sender = "write" => queue[i] # inHand
       /\ prod = "push" => queue[i] # offered
       /\ prod = "requeue" => queue[i] # tmpPkt
  /\ sender = "write" => inHand \notin sent

\* A sender that died of a failed conn.Write left the queue open: Close, finding
\* closed set, does not close it either, and nobody receives from it any more.
Abandoned == sender = "done" /\ ~chanClosed

\* What a Close that has returned leaves behind, however the calls of Close and the
\* sender's own failure overlap: the connection is closed, and so is the queue, unless
\* the sender abandoned it; a sender blocked in conn.Write or waiting for a packet ends.
CloseCompletes ==
  \A c \in Closers :
    closer[c] = "done" => closed /\ connClosed /\ (chanClosed \/ Abandoned)

\* A call of Write returns, so that TransStart, which serves every player of the
\* stream, is not stuck in one player's DropPacket: with a player that stops reading,
\* with every overlap of Close and a failed conn.Write, the one way to be stuck is an
\* abandoned queue.  And the other side of the queue ends once the connection is closed.
Writing == prod \in {"checkLen", "push", "receive", "requeue", "trim"}
WriteReturns ==
  /\ Writing ~> (~Writing \/ crashed \/ Abandoned)
  /\ connClosed ~> (sender = "done" \/ crashed)
=============================================================================
