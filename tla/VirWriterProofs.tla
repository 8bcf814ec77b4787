--------------------------- MODULE VirWriterProofs ---------------------------
(***************************************************************************)
(* Proofs about VirWriter, for every queue size, mark, number of rounds    *)
(* and number of packets, with conn.Write failing or blocking at any time  *)
(* and every overlap of the calls of Close.                                *)
(***************************************************************************)
EXTENDS VirWriter, TLAPS

-----------------------------------------------------------------------------
\* What a receive leaves of a channel.
LEMMA TailFacts ==
  ASSUME NEW q \in Seq(Packet), q # <<>>
  PROVE  /\ Head(q) \in Packet /\ Tail(q) \in Seq(Packet)
         /\ Len(Tail(q)) = Len(q) - 1 /\ Len(q) \in Nat
         /\ q[1] = Head(q) /\ 1 \in DOMAIN q
         /\ \A i \in DOMAIN Tail(q) : i + 1 \in DOMAIN q /\ Tail(q)[i] = q[i + 1]
         /\ \A i \in DOMAIN q : i # 1 => i - 1 \in DOMAIN Tail(q) /\ Tail(q)[i - 1] = q[i]
  OBVIOUS

\* What a send makes of a channel.
LEMMA AppendFacts ==
  ASSUME NEW q \in Seq(Packet), NEW p \in Packet
  PROVE  /\ Append(q, p) \in Seq(Packet)
         /\ Len(Append(q, p)) = Len(q) + 1 /\ Len(q) \in Nat
         /\ Len(q) + 1 \in DOMAIN Append(q, p) /\ Append(q, p)[Len(q) + 1] = p
         /\ \A i \in DOMAIN q : i \in DOMAIN Append(q, p) /\ Append(q, p)[i] = q[i]
         /\ \A i \in DOMAIN Append(q, p) : i = Len(q) + 1 \/ i \in DOMAIN q
  OBVIOUS

\* The counter of DropPacket's loop stays in range.
LEMMA RoundInRange ==
  ASSUME NEW i \in 0 .. DropRounds
  PROVE  (i + 1) % DropRounds \in 0 .. DropRounds
  BY QueueAssumption

\* A receive in DropPacket and a send keep their variables' types.
LEMMA NextRoundType ==
  ASSUME round \in 0 .. DropRounds, NextRound
  PROVE  round' \in 0 .. DropRounds /\ prod' \in {"receive", "idle"}
  BY RoundInRange DEF NextRound

LEMMA PushType ==
  ASSUME NEW p \in Packet, NEW next, queue \in Seq(Packet), Push(p, next)
  PROVE  queue' \in Seq(Packet) /\ prod' \in {"removed", next}
  BY AppendFacts DEF Push

\* TypeOK is preserved by every step.
LEMMA TypeStep == TypeOK /\ [Next]_vars => TypeOK'
<1> SUFFICES ASSUME TypeOK, [Next]_vars PROVE TypeOK'
  OBVIOUS
<1> USE DEF TypeOK
<1>1. CASE WriteCheckClosed
  <2>1. PICK k \in Input : offered' = [kind |-> k, n |-> published + 1]
    BY <1>1 DEF WriteCheckClosed
  <2>2. offered' \in Packet
    BY <2>1, QueueAssumption DEF Packet
  <2> QED
    BY <1>1, <2>2 DEF WriteCheckClosed, queueVars, senderVars
<1>2. CASE WriteCheckLen
  <2>1. 0 \in 0 .. DropRounds
    BY QueueAssumption
  <2> QED
    BY <1>2, <2>1 DEF WriteCheckLen, queueVars, senderVars
<1>3. CASE WritePush
  <2>1. queue' \in Seq(Packet) /\ prod' \in {"removed", "idle"}
    BY <1>3, PushType DEF WritePush
  <2> QED
    BY <1>3, <2>1 DEF WritePush, senderVars
<1>4. CASE DropReceive
  <2>1. CASE queue # <<>>
    <3>1. tmpPkt' \in Packet /\ queue' \in Seq(Packet)
      BY <1>4, <2>1, TailFacts DEF DropReceive
    <3>2. round' \in 0 .. DropRounds /\ prod' \in {"requeue", "trim", "receive", "idle"}
      BY <1>4, <2>1, NextRoundType DEF DropReceive
    <3> QED
      BY <1>4, <3>1, <3>2 DEF DropReceive, senderVars
  <2>2. CASE queue = <<>>
    <3>1. round' \in 0 .. DropRounds /\ prod' \in {"receive", "idle"}
      BY <1>4, <2>2, NextRoundType DEF DropReceive
    <3> QED
      BY <1>4, <2>2, <3>1 DEF DropReceive, senderVars
  <2> QED
    BY <2>1, <2>2
<1>5. CASE DropRequeue
  <2>1. CASE tmpPkt.kind = "audio" /\ Len(queue) > AudioMark
    <3>1. queue # <<>>
      BY <2>1, QueueAssumption
    <3>2. queue' \in Seq(Packet)
      BY <1>5, <2>1, <3>1, TailFacts DEF DropRequeue
    <3>3. round' \in 0 .. DropRounds /\ prod' \in {"receive", "idle"}
      BY <1>5, <2>1, NextRoundType DEF DropRequeue
    <3> QED
      BY <1>5, <3>2, <3>3 DEF DropRequeue, senderVars
  <2>2. CASE tmpPkt.kind = "audio" /\ ~(Len(queue) > AudioMark)
    <3>1. /\ queue' \in Seq(Packet)
          /\ prod' \in {"removed", IF round + 1 < DropRounds THEN "receive" ELSE "idle"}
      BY <1>5, <2>2, PushType DEF DropRequeue
    <3>2. round' \in 0 .. DropRounds
      BY <1>5, <2>2, RoundInRange DEF DropRequeue
    <3> QED
      BY <1>5, <3>1, <3>2 DEF DropRequeue, senderVars
  <2>3. CASE tmpPkt.kind = "key"
    <3>1. queue' \in Seq(Packet) /\ prod' \in {"removed", "trim"} /\ UNCHANGED round
      BY <1>5, <2>3, PushType DEF DropRequeue
    <3> QED
      BY <1>5, <3>1 DEF DropRequeue, senderVars
  <2> QED
    BY <1>5, <2>1, <2>2, <2>3 DEF DropRequeue
<1>6. CASE DropTrim
  <2>1. queue' \in Seq(Packet)
    <3>1. CASE Len(queue) > VideoMark
      <4>1. queue # <<>>
        BY <3>1, QueueAssumption
      <4> QED
        BY <1>6, <3>1, <4>1, TailFacts DEF DropTrim
    <3>2. CASE ~(Len(queue) > VideoMark)
      BY <1>6, <3>2 DEF DropTrim
    <3> QED
      BY <3>1, <3>2
  <2>2. round' \in 0 .. DropRounds /\ prod' \in {"receive", "idle"}
    BY <1>6, NextRoundType DEF DropTrim
  <2> QED
    BY <1>6, <2>1, <2>2 DEF DropTrim, senderVars
<1>7. CASE SendReceive
  <2>1. queue' \in Seq(Packet) /\ inHand' \in Packet
    BY <1>7, TailFacts DEF SendReceive
  <2> QED
    BY <1>7, <2>1 DEF SendReceive, prodVars
<1>8. CASE SendTaken \/ SendFails
  BY <1>8 DEF SendTaken, SendFails, queueVars, prodVars
<1>9. ASSUME NEW c \in Closers, CloseTest(c) PROVE TypeOK'
  BY <1>9 DEF CloseTest, queueVars, senderVars
<1>10. ASSUME NEW c \in Closers, CloseQueue(c) PROVE TypeOK'
  BY <1>10 DEF CloseQueue, prodVars, senderVars
<1>11. ASSUME NEW c \in Closers, CloseConn(c) PROVE TypeOK'
  BY <1>11 DEF CloseConn, queueVars, prodVars, senderVars
<1>12. CASE UNCHANGED vars
  BY <1>12 DEF vars, queueVars, prodVars, senderVars
<1> QED
  BY <1>1, <1>2, <1>3, <1>4, <1>5, <1>6, <1>7, <1>8, <1>9, <1>10, <1>11, <1>12
     DEF Next, Producer, Sender, Close

\* The writer's state is well typed: DropPacket's loop index stays within its rounds,
\* and every packet in the queue or in a goroutine's hand is a packet.
THEOREM TypeCorrect == Spec => []TypeOK
<1>1. Init => TypeOK
  <2> SUFFICES ASSUME Init PROVE TypeOK
    OBVIOUS
  <2>1. NoPacket \in Packet
    BY DEF NoPacket, Packet, Kinds
  <2>2. queue \in Seq(Packet) /\ round \in 0 .. DropRounds
    BY QueueAssumption DEF Init
  <2>3. closer \in [Closers -> {"idle", "closeQueue", "setClosed", "done"}]
    BY DEF Init
  <2>4. offered \in Packet /\ tmpPkt \in Packet /\ inHand \in Packet
    BY <2>1 DEF Init
  <2>5. accepted \subseteq Packet /\ sent \subseteq Packet /\ published \in Nat
    BY DEF Init
  <2>6. /\ chanClosed \in BOOLEAN /\ closed \in BOOLEAN /\ connClosed \in BOOLEAN
        /\ crashed \in BOOLEAN
    BY DEF Init
  <2>7. prod = "idle" /\ sender = "receive"
    BY DEF Init
  <2> QED
    BY <2>2, <2>3, <2>4, <2>5, <2>6, <2>7 DEF TypeOK
<1> QED
  BY <1>1, TypeStep, PTL DEF Spec

-----------------------------------------------------------------------------
\* QueueBelowMark is preserved by every step: only the producer sends, and before it
\* does it has seen, or made, room below the mark.
LEMMA MarkStep == TypeOK /\ QueueBelowMark /\ [Next]_vars => QueueBelowMark'
<1> SUFFICES ASSUME TypeOK, QueueBelowMark, [Next]_vars PROVE QueueBelowMark'
  OBVIOUS
<1>t. queue \in Seq(Packet) /\ Len(queue) \in Nat /\ offered \in Packet /\ tmpPkt \in Packet
  BY DEF TypeOK
<1> USE <1>t, QueueAssumption DEF QueueBelowMark
<1>1. CASE WriteCheckClosed
  BY <1>1 DEF WriteCheckClosed, queueVars
<1>2. CASE WriteCheckLen
  BY <1>2 DEF WriteCheckLen, queueVars
<1>3. CASE WritePush
  BY <1>3, AppendFacts DEF WritePush, Push
<1>4. CASE DropReceive
  <2>1. CASE queue # <<>>
    BY <1>4, <2>1, TailFacts DEF DropReceive, NextRound
  <2>2. CASE queue = <<>>
    BY <1>4, <2>2 DEF DropReceive, NextRound
  <2> QED
    BY <2>1, <2>2
<1>5. CASE DropRequeue
  <2>1. ~(Len(queue) > AudioMark)
    OBVIOUS
  <2>2. \E next \in {"receive", "idle", "trim"} : Push(tmpPkt, next)
    BY <1>5, <2>1 DEF DropRequeue
  <2> QED
    BY <1>5, <2>2, AppendFacts DEF DropRequeue, Push
<1>6. CASE DropTrim
  BY <1>6 DEF DropTrim, NextRound
<1>7. CASE SendReceive
  BY <1>7, TailFacts DEF SendReceive, prodVars
<1>8. CASE SendTaken \/ SendFails
  BY <1>8 DEF SendTaken, SendFails, queueVars, prodVars
<1>9. ASSUME NEW c \in Closers, CloseTest(c) PROVE QueueBelowMark'
  BY <1>9 DEF CloseTest, queueVars
<1>10. ASSUME NEW c \in Closers, CloseQueue(c) PROVE QueueBelowMark'
  BY <1>10 DEF CloseQueue, prodVars
<1>11. ASSUME NEW c \in Closers, CloseConn(c) PROVE QueueBelowMark'
  BY <1>11 DEF CloseConn, queueVars, prodVars
<1>12. CASE UNCHANGED vars
  BY <1>12 DEF vars, queueVars, prodVars
<1> QED
  BY <1>1, <1>2, <1>3, <1>4, <1>5, <1>6, <1>7, <1>8, <1>9, <1>10, <1>11, <1>12
     DEF Next, Producer, Sender, Close

\* Write and DropPacket never wait on a full channel: with any marks ordered as the
\* code's are, the queue stays at or below the mark from which Write drops, and below
\* it whenever the producer is about to send.
THEOREM QueueStaysBelowMark == Spec => []QueueBelowMark
<1>1. Init => QueueBelowMark
  BY QueueAssumption DEF Init, QueueBelowMark
<1> QED
  BY <1>1, TypeCorrect, MarkStep, PTL DEF Spec

-----------------------------------------------------------------------------
InQueue(p, q) == \E i \in DOMAIN q : q[i] = p
Distinct(q) == \A i, j \in DOMAIN q : q[i] = q[j] => i = j

\* Membership in the channel after a receive and after a send.
LEMMA TailMembers ==
  ASSUME NEW q \in Seq(Packet), q # <<>>, NEW p
  PROVE  /\ InQueue(p, q) <=> (p = Head(q) \/ InQueue(p, Tail(q)))
         /\ Distinct(q) => Distinct(Tail(q)) /\ ~InQueue(Head(q), Tail(q))
<1>1. InQueue(p, Tail(q)) => InQueue(p, q)
  BY TailFacts DEF InQueue
<1>2. InQueue(p, q) => (p = Head(q) \/ InQueue(p, Tail(q)))
  <2>1. /\ q[1] = Head(q)
        /\ \A i \in DOMAIN q : i # 1 => i - 1 \in DOMAIN Tail(q) /\ Tail(q)[i - 1] = q[i]
    BY TailFacts
  <2>2. ASSUME NEW i \in DOMAIN q, q[i] = p PROVE p = Head(q) \/ InQueue(p, Tail(q))
    <3>1. CASE i = 1
      BY <2>1, <2>2, <3>1
    <3>2. CASE i # 1
      <4>1. i - 1 \in DOMAIN Tail(q) /\ Tail(q)[i - 1] = p
        BY <2>1, <2>2, <3>2
      <4> QED
        BY <4>1 DEF InQueue
    <3> QED
      BY <3>1, <3>2
  <2> QED
    BY <2>2 DEF InQueue
<1>3. InQueue(Head(q), q)
  BY TailFacts DEF InQueue
<1>4. ASSUME Distinct(q) PROVE Distinct(Tail(q)) /\ ~InQueue(Head(q), Tail(q))
  <2>1. ASSUME NEW i \in DOMAIN Tail(q), NEW j \in DOMAIN Tail(q), Tail(q)[i] = Tail(q)[j]
        PROVE  i = j
    <3>1. i + 1 = j + 1 /\ i \in Nat /\ j \in Nat
      BY <1>4, <2>1, TailFacts DEF Distinct
    <3> QED
      BY <3>1
  <2>2. ASSUME NEW i \in DOMAIN Tail(q), Tail(q)[i] = Head(q) PROVE FALSE
    <3>1. i + 1 = 1 /\ i \in Nat \ {0}
      BY <1>4, <2>2, TailFacts DEF Distinct
    <3> QED
      BY <3>1
  <2> QED
    BY <2>1, <2>2 DEF Distinct, InQueue
<1> QED
  BY <1>1, <1>2, <1>3, <1>4

LEMMA AppendMembers ==
  ASSUME NEW q \in Seq(Packet), NEW x \in Packet, NEW p
  PROVE  /\ InQueue(p, Append(q, x)) <=> (p = x \/ InQueue(p, q))
         /\ Distinct(q) /\ ~InQueue(x, q) => Distinct(Append(q, x))
<1>1. InQueue(p, q) => InQueue(p, Append(q, x))
  BY AppendFacts DEF InQueue
<1>2. InQueue(x, Append(q, x))
  BY AppendFacts DEF InQueue
<1>3. InQueue(p, Append(q, x)) => (p = x \/ InQueue(p, q))
  BY AppendFacts DEF InQueue
<1>4. Distinct(q) /\ ~InQueue(x, q) => Distinct(Append(q, x))
  BY AppendFacts DEF InQueue, Distinct
<1> QED
  BY <1>1, <1>2, <1>3, <1>4

\* closed and the close of the channel are never undone.
LEMMA ClosedForGood == [Next]_vars => (closed => closed') /\ (chanClosed => chanClosed')
  BY DEF Next, Producer, Sender, Close, WriteCheckClosed, WriteCheckLen, WritePush, DropReceive,
         DropRequeue, DropTrim, SendReceive, SendTaken, SendFails, CloseTest, CloseQueue, CloseConn,
         vars, queueVars

\* Where an enqueued packet may be.
Somewhere(p) ==
  \/ p \in sent
  \/ InQueue(p, queue)
  \/ prod = "requeue" /\ tmpPkt = p
  \/ sender = "write" /\ inHand = p

LEMMA KeptStep == TypeOK /\ QueueBelowMark /\ KeptNotLost /\ [Next]_vars => KeptNotLost'
<1> SUFFICES ASSUME TypeOK, QueueBelowMark, KeptNotLost, [Next]_vars, ~closed', ~chanClosed',
                    NEW p \in accepted', Kept(p.kind)
             PROVE  Somewhere(p)'
  BY DEF KeptNotLost, Somewhere, InQueue
<1>t. queue \in Seq(Packet) /\ Len(queue) \in Nat /\ offered \in Packet /\ tmpPkt \in Packet
  BY DEF TypeOK
<1>o. ~closed /\ ~chanClosed
  BY ClosedForGood
<1>k. p \in accepted => Somewhere(p)
  BY <1>o DEF KeptNotLost, Somewhere, InQueue
<1> USE <1>t, <1>o, <1>k DEF Somewhere
<1>1. CASE WriteCheckClosed
  BY <1>1 DEF WriteCheckClosed, queueVars, senderVars
<1>2. CASE WriteCheckLen
  BY <1>2 DEF WriteCheckLen, queueVars, senderVars
<1>3. CASE WritePush
  <2>1. queue' = Append(queue, offered)
    BY <1>3 DEF WritePush, Push
  <2>2. InQueue(p, queue') <=> (p = offered \/ InQueue(p, queue))
    BY <2>1, AppendMembers
  <2>3. p \in accepted \/ p = offered
    BY <1>3 DEF WritePush
  <2> QED
    BY <1>3, <2>2, <2>3 DEF WritePush, senderVars
<1>4. CASE DropReceive
  <2>1. queue # <<>>
    BY <1>4 DEF DropReceive
  <2>2. /\ queue' = Tail(queue) /\ tmpPkt' = Head(queue)
        /\ Kept(Head(queue).kind) => prod' = "requeue"
    BY <1>4, <2>1 DEF DropReceive, Kept
  <2>3. InQueue(p, queue) => p = Head(queue) \/ InQueue(p, queue')
    BY <2>1, <2>2, TailMembers
  <2> QED
    BY <1>4, <2>2, <2>3 DEF DropReceive, senderVars
<1>5. CASE DropRequeue
  <2>1. ~(Len(queue) > AudioMark)
    BY QueueAssumption DEF QueueBelowMark
  <2>2. queue' = Append(queue, tmpPkt)
    BY <1>5, <2>1 DEF DropRequeue, Push
  <2>3. InQueue(p, queue') <=> (p = tmpPkt \/ InQueue(p, queue))
    BY <2>2, AppendMembers
  <2> QED
    BY <1>5, <2>3 DEF DropRequeue, senderVars
<1>6. CASE DropTrim
  <2>1. queue' = queue
    BY <1>6, QueueAssumption DEF DropTrim, QueueBelowMark
  <2> QED
    BY <1>6, <2>1 DEF DropTrim, senderVars
<1>7. CASE SendReceive
  <2>1. queue # <<>> /\ queue' = Tail(queue) /\ inHand' = Head(queue) /\ sender' = "write"
    BY <1>7 DEF SendReceive
  <2>2. InQueue(p, queue) => p = Head(queue) \/ InQueue(p, queue')
    BY <2>1, TailMembers
  <2> QED
    BY <1>7, <2>1, <2>2 DEF SendReceive, prodVars
<1>8. CASE SendTaken \/ SendFails
  BY <1>8 DEF SendTaken, SendFails, queueVars, prodVars
<1>9. ASSUME NEW c \in Closers, CloseTest(c) PROVE Somewhere(p)'
  BY <1>9 DEF CloseTest, queueVars, senderVars
<1>10. ASSUME NEW c \in Closers, CloseQueue(c) PROVE Somewhere(p)'
  BY <1>10 DEF CloseQueue
<1>11. ASSUME NEW c \in Closers, CloseConn(c) PROVE Somewhere(p)'
  BY <1>11 DEF CloseConn
<1>12. CASE UNCHANGED vars
  BY <1>12 DEF vars, queueVars, prodVars, senderVars
<1> QED
  BY <1>1, <1>2, <1>3, <1>4, <1>5, <1>6, <1>7, <1>8, <1>9, <1>10, <1>11, <1>12
     DEF Next, Producer, Sender, Close

\* DropPacket loses no audio packet, key frame or sequence header that was enqueued:
\* because the queue stays below its mark, the branches that would are never taken.
THEOREM KeptNeverLost == Spec => []KeptNotLost
<1>1. Init => KeptNotLost
  BY DEF Init, KeptNotLost
<1> QED
  BY <1>1, TypeCorrect, QueueStaysBelowMark, KeptStep, PTL DEF Spec

-----------------------------------------------------------------------------
\* What makes CloseCompletes inductive: closed is only set by a call of Close that has
\* closed the queue, or found closed set, and by the sender that fails.
QueueEnds == chanClosed \/ Abandoned

CloseInv ==
  /\ closed => QueueEnds
  /\ \A c \in Closers : closer[c] \in {"setClosed", "done"} => QueueEnds
  /\ \A c \in Closers : closer[c] = "done" => closed /\ connClosed

LEMMA CloseStep == TypeOK /\ CloseInv /\ [Next]_vars => CloseInv'
<1> SUFFICES ASSUME TypeOK, CloseInv, [Next]_vars PROVE CloseInv'
  OBVIOUS
<1>t. closer \in [Closers -> {"idle", "closeQueue", "setClosed", "done"}]
  BY DEF TypeOK
<1> USE <1>t DEF CloseInv, QueueEnds, Abandoned
<1>1. ASSUME NEW c \in Closers, CloseTest(c) PROVE CloseInv'
  BY <1>1 DEF CloseTest, queueVars, senderVars
<1>2. ASSUME NEW c \in Closers, CloseQueue(c) PROVE CloseInv'
  BY <1>2 DEF CloseQueue, senderVars
<1>3. ASSUME NEW c \in Closers, CloseConn(c) PROVE CloseInv'
  BY <1>3 DEF CloseConn, queueVars, senderVars
<1>4. CASE SendFails
  BY <1>4 DEF SendFails, queueVars
<1>5. CASE SendReceive \/ SendTaken
  BY <1>5 DEF SendReceive, SendTaken, queueVars
<1>6. CASE Producer \/ UNCHANGED vars
  <2>1. UNCHANGED <<closer, chanClosed, closed, connClosed, sender>>
    BY <1>6 DEF Producer, WriteCheckClosed, WriteCheckLen, WritePush, DropReceive,
           DropRequeue, DropTrim, vars, queueVars, senderVars
  <2> QED
    BY <2>1
<1> QED
  BY <1>1, <1>2, <1>3, <1>4, <1>5, <1>6 DEF Next, Sender, Close

\* However calls of Close, a failing conn.Write and the producer overlap, a Close that
\* returns leaves the connection closed and the queue closed too, unless the sender had
\* already died of a failed conn.Write: no sender waits for ever behind a closed writer.
THEOREM CloseAlwaysCompletes == Spec => []CloseCompletes
<1>1. Init => CloseInv
  BY DEF Init, CloseInv
<1>2. CloseInv => CloseCompletes
  BY DEF CloseInv, QueueEnds, CloseCompletes
<1> QED
  BY <1>1, <1>2, TypeCorrect, CloseStep, PTL DEF Spec

-----------------------------------------------------------------------------
\* What makes NoDuplicate inductive: at any moment the packet given to Write (until it
\* is enqueued), DropPacket's, the sender's and those queued and delivered are all
\* different, and none is newer than the last one published.
Offering == prod \in {"checkLen", "push"}
Rotating == prod = "requeue"
Sending == sender = "write"

Apart ==
  /\ Distinct(queue)
  /\ \A p \in Packet :
       InQueue(p, queue) =>
         /\ p \notin sent
         /\ Sending => p # inHand
         /\ Offering => p # offered
         /\ Rotating => p # tmpPkt
  /\ Sending => inHand \notin sent
  /\ Offering => offered \notin sent /\ (Sending => offered # inHand)
  /\ Rotating => tmpPkt \notin sent /\ (Sending => tmpPkt # inHand)

Known ==
  /\ \A p \in Packet : InQueue(p, queue) \/ p \in sent => p.n <= published
  /\ inHand.n <= published /\ tmpPkt.n <= published /\ offered.n <= published

LEMMA PacketNumber == ASSUME NEW p \in Packet PROVE p.n \in Nat
  BY DEF Packet

LEMMA ApartStep == TypeOK /\ QueueBelowMark /\ Apart /\ Known /\ [Next]_vars => Apart' /\ Known'
<1> SUFFICES ASSUME TypeOK, QueueBelowMark, Apart, Known, [Next]_vars PROVE Apart' /\ Known'
  OBVIOUS
<1>t. /\ queue \in Seq(Packet) /\ offered \in Packet /\ tmpPkt \in Packet /\ inHand \in Packet
      /\ published \in Nat /\ sent \subseteq Packet
  BY DEF TypeOK
<1> USE <1>t DEF Offering, Rotating, Sending
<1>1. CASE WriteCheckClosed
  <2>1. PICK k \in Input : offered' = [kind |-> k, n |-> published + 1]
    BY <1>1 DEF WriteCheckClosed
  <2>2. offered'.n = published + 1 /\ published' = published + 1
    BY <1>1, <2>1 DEF WriteCheckClosed
  <2>3. UNCHANGED <<queue, sent, inHand, tmpPkt, sender>>
    BY <1>1 DEF WriteCheckClosed, queueVars, senderVars
  <2>4. \A p \in Packet : p.n <= published => p # offered' /\ p.n <= published'
    BY <2>2, PacketNumber
  <2>5. Known'
    BY <2>2, <2>3, <2>4 DEF Known
  <2>6. prod' # "requeue"
    BY <1>1 DEF WriteCheckClosed
  <2>7. Apart'
    BY <2>3, <2>4, <2>6 DEF Apart, Known
  <2> QED
    BY <2>5, <2>7
<1>2. CASE WriteCheckLen
  BY <1>2 DEF WriteCheckLen, queueVars, senderVars, Apart, Known
<1>3. CASE WritePush
  <2>1. CASE chanClosed
    BY <1>3, <2>1 DEF WritePush, Push, senderVars, Apart, Known
  <2>2. CASE ~chanClosed
    <3>1. queue' = Append(queue, offered) /\ prod' = "idle"
      BY <1>3, <2>2 DEF WritePush, Push
    <3>2. UNCHANGED <<sent, inHand, tmpPkt, offered, sender, published>> /\ prod = "push"
      BY <1>3 DEF WritePush, senderVars
    <3>3. \A p \in Packet : InQueue(p, queue') <=> (p = offered \/ InQueue(p, queue))
      BY <3>1, AppendMembers
    <3>4. Distinct(queue')
      BY <3>1, <3>2, AppendMembers DEF Apart
    <3> QED
      BY <3>1, <3>2, <3>3, <3>4 DEF Apart, Known
  <2> QED
    BY <2>1, <2>2
<1>4. CASE DropReceive
  <2>1. UNCHANGED <<sent, inHand, offered, sender, published>> /\ prod' \notin {"checkLen", "push"}
    BY <1>4 DEF DropReceive, senderVars, NextRound
  <2>2. CASE queue = <<>>
    <3>1. UNCHANGED <<queue, tmpPkt>> /\ prod' # "requeue"
      BY <1>4, <2>2 DEF DropReceive, NextRound
    <3> QED
      BY <2>1, <3>1 DEF Apart, Known
  <2>3. CASE queue # <<>>
    <3>1. queue' = Tail(queue) /\ tmpPkt' = Head(queue)
      BY <1>4, <2>3 DEF DropReceive
    <3>2. /\ \A p \in Packet : InQueue(p, queue) <=> (p = Head(queue) \/ InQueue(p, queue'))
          /\ Distinct(queue') /\ ~InQueue(Head(queue), queue')
      BY <2>3, <3>1, TailMembers DEF Apart
    <3>3. Head(queue) \in Packet
      BY <2>3, TailFacts
    <3> QED
      BY <2>1, <3>1, <3>2, <3>3 DEF Apart, Known
  <2> QED
    BY <2>2, <2>3
<1>5. CASE DropRequeue
  <2>1. ~(Len(queue) > AudioMark)
    BY QueueAssumption DEF QueueBelowMark
  <2>2. /\ UNCHANGED <<sent, inHand, offered, sender, published, tmpPkt>>
        /\ prod = "requeue" /\ prod' \in {"removed", "receive", "idle", "trim"}
    BY <1>5, <2>1 DEF DropRequeue, senderVars, Push
  <2>3. CASE chanClosed
    <3>1. queue' = queue
      BY <1>5, <2>1, <2>3 DEF DropRequeue, Push
    <3> QED
      BY <2>2, <3>1 DEF Apart, Known
  <2>4. CASE ~chanClosed
    <3>1. queue' = Append(queue, tmpPkt)
      BY <1>5, <2>1, <2>4 DEF DropRequeue, Push
    <3>2. \A p \in Packet : InQueue(p, queue') <=> (p = tmpPkt \/ InQueue(p, queue))
      BY <3>1, AppendMembers
    <3>3. Distinct(queue')
      BY <2>2, <3>1, AppendMembers DEF Apart
    <3> QED
      BY <2>2, <3>2, <3>3 DEF Apart, Known
  <2> QED
    BY <2>3, <2>4
<1>6. CASE DropTrim
  <2>1. queue' = queue
    BY <1>6, QueueAssumption DEF DropTrim, QueueBelowMark
  <2> QED
    BY <1>6, <2>1 DEF DropTrim, NextRound, senderVars, Apart, Known
<1>7. CASE SendReceive
  <2>1. UNCHANGED <<sent, offered, tmpPkt, prod, published>>
    BY <1>7 DEF SendReceive, prodVars
  <2>2. CASE queue = <<>>
    BY <1>7, <2>1, <2>2 DEF SendReceive, Apart, Known
  <2>3. CASE queue # <<>>
    <3>1. queue' = Tail(queue) /\ inHand' = Head(queue)
      BY <1>7, <2>3 DEF SendReceive
    <3>2. /\ \A p \in Packet : InQueue(p, queue) <=> (p = Head(queue) \/ InQueue(p, queue'))
          /\ Distinct(queue') /\ ~InQueue(Head(queue), queue')
      BY <2>3, <3>1, TailMembers DEF Apart
    <3>3. Head(queue) \in Packet
      BY <2>3, TailFacts
    <3> QED
      BY <2>1, <3>1, <3>2, <3>3 DEF Apart, Known
  <2> QED
    BY <2>2, <2>3
<1>8. CASE SendTaken \/ SendFails
  BY <1>8 DEF SendTaken, SendFails, queueVars, prodVars, Apart, Known
<1>9. ASSUME NEW c \in Closers, CloseTest(c) PROVE Apart' /\ Known'
  BY <1>9 DEF CloseTest, queueVars, senderVars, Apart, Known
<1>10. ASSUME NEW c \in Closers, CloseQueue(c) PROVE Apart' /\ Known'
  BY <1>10 DEF CloseQueue, prodVars, senderVars, Apart, Known
<1>11. ASSUME NEW c \in Closers, CloseConn(c) PROVE Apart' /\ Known'
  BY <1>11 DEF CloseConn, queueVars, prodVars, senderVars, Apart, Known
<1>12. CASE UNCHANGED vars
  BY <1>12 DEF vars, queueVars, prodVars, senderVars, Apart, Known
<1> QED
  BY <1>1, <1>2, <1>3, <1>4, <1>5, <1>6, <1>7, <1>8, <1>9, <1>10, <1>11, <1>12
     DEF Next, Producer, Sender, Close

\* No packet reaches the player twice, although DropPacket and the sender receive from
\* the same channel and DropPacket puts packets back into it.
THEOREM NeverDuplicated == Spec => []NoDuplicate
<1>1. Init => Apart /\ Known
  <2> SUFFICES ASSUME Init PROVE Apart /\ Known
    OBVIOUS
  <2>1. NoPacket.n = 0
    BY DEF NoPacket
  <2>2. queue = <<>> /\ DOMAIN <<>> = {}
    BY DEF Init
  <2>3. Distinct(queue) /\ \A p : ~InQueue(p, queue)
    BY <2>2 DEF Distinct, InQueue
  <2> QED
    BY <2>1, <2>3 DEF Init, Apart, Known, Offering, Rotating, Sending
<1>2. TypeOK /\ Apart => NoDuplicate
  <2> SUFFICES ASSUME TypeOK, Apart PROVE NoDuplicate
    OBVIOUS
  <2>1. \A i \in DOMAIN queue : queue[i] \in Packet /\ InQueue(queue[i], queue)
    BY DEF TypeOK, InQueue
  <2> QED
    BY <2>1 DEF Apart, Distinct, NoDuplicate, Offering, Rotating, Sending
<1> QED
  BY <1>1, <1>2, TypeCorrect, QueueStaysBelowMark, ApartStep, PTL DEF Spec
=============================================================================
