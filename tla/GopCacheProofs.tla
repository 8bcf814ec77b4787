--------------------------- MODULE GopCacheProofs ---------------------------
(***************************************************************************)
(* Proofs about GopCache, for every gop_num, group capacity and number of  *)
(* packets.                                                                *)
(***************************************************************************)
EXTENDS GopCache, TLAPS

\* The index after i in the ring.
LEMMA RingNext ==
  ASSUME NEW i \in Slots
  PROVE  (i + 1) % Count = IF i = Count - 1 THEN 0 ELSE i + 1
<1>1. Count \in Nat \ {0} /\ i \in 0 .. Count - 1
  BY GopAssumption DEF Slots
<1>2. CASE i = Count - 1
  BY <1>1, <1>2
<1>3. CASE i # Count - 1
  BY <1>1, <1>3
<1> QED
  BY <1>2, <1>3

\* What makes the bounds of TypeOK inductive: the slots fill up in order, and only a
\* full ring is reused.
RingFilled ==
  /\ \A i \in Slots : gops[i] # <<>> <=> i < num
  /\ num < Count => nextindex = num
  /\ start = (num # 0)

RingInv == TypeOK /\ RingFilled

\* A new group holds exactly the packet that starts it.
LEMMA FirstWrite == ASSUME NEW p PROVE ArrayWrite(<<>>, p) = <<p>>
  BY GopAssumption DEF ArrayWrite

\* A group only grows, and only while there is room.
LEMMA GroupWrite ==
  ASSUME NEW a \in Seq(Packet), NEW p \in Packet
  PROVE  /\ ArrayWrite(a, p) \in Seq(Packet)
         /\ ArrayWrite(a, p) # <<>>
         /\ ArrayWrite(a, p) \in {a, Append(a, p)}
  BY GopAssumption DEF ArrayWrite

\* Starting a group keeps the ring well formed.
LEMMA StartGroupRing ==
  ASSUME RingInv, NEW p \in Packet, StartGroup(p)
  PROVE  /\ gops' \in [Slots -> Seq(Packet)]
         /\ num' \in 1 .. Count
         /\ nextindex' \in Slots
         /\ \A i \in Slots : gops'[i] # <<>> <=> i < num'
         /\ num' < Count => nextindex' = num'
<1> USE GopAssumption DEF RingInv, RingFilled, TypeOK
<1>1. nextindex' = IF nextindex = Count - 1 THEN 0 ELSE nextindex + 1
  BY RingNext DEF StartGroup
<1>2. gops' = [gops EXCEPT ![nextindex] = <<p>>]
  BY FirstWrite DEF StartGroup
<1>3. <<p>> \in Seq(Packet) /\ <<p>> # <<>>
  OBVIOUS
<1>4. CASE num < Count
  <2>1. num' = num + 1
    BY <1>4 DEF StartGroup, Slots
  <2>2. gops' \in [Slots -> Seq(Packet)]
    BY <1>2, <1>3
  <2>3. nextindex = num /\ num \in Nat
    BY <1>4
  <2>4. ASSUME NEW i \in Slots PROVE gops'[i] # <<>> <=> i < num'
    <3>1. i \in Int
      BY DEF Slots
    <3>2. CASE i = num
      BY <1>2, <1>3, <2>1, <2>3, <3>2
    <3>3. CASE i # num
      <4>1. gops'[i] = gops[i]
        BY <1>2, <2>3, <3>3
      <4>2. i < num' <=> i < num
        BY <2>1, <2>3, <3>1, <3>3
      <4> QED
        BY <4>1, <4>2
    <3> QED
      BY <3>2, <3>3
  <2> QED
    <3>1. nextindex \in 0 .. Count - 1 /\ num \in 0 .. Count
      BY DEF Slots
    <3>2. nextindex' \in Slots
      BY <1>1, <3>1 DEF Slots
    <3>3. num' \in 1 .. Count
      BY <1>4, <2>1, <2>3
    <3>4. num' < Count => nextindex' = num'
      BY <1>1, <2>1, <2>3
    <3> QED
      BY <2>2, <2>4, <3>2, <3>3, <3>4
<1>5. CASE num = Count
  <2>1. num' = num
    BY <1>5 DEF StartGroup, Slots
  <2> QED
    BY <1>1, <1>2, <1>3, <1>5, <2>1 DEF Slots
<1> QED
  BY <1>4, <1>5

\* Writing without a new group allocates nothing.
LEMMA ExtendGroupRing ==
  ASSUME RingInv, NEW p \in Packet, ExtendGroup(p)
  PROVE  /\ gops' \in [Slots -> Seq(Packet)]
         /\ crashed' \in BOOLEAN
         /\ UNCHANGED <<num, nextindex>>
         /\ \A i \in Slots : gops'[i] # <<>> <=> gops[i] # <<>>
<1> USE DEF RingInv, TypeOK
<1>1. Current \in Slots
  BY GopAssumption, RingNext DEF Current, Slots
<1>2. ArrayWrite(gops[Current], p) \in Seq(Packet) /\ ArrayWrite(gops[Current], p) # <<>>
  BY <1>1, GroupWrite
<1> QED
  BY <1>1, <1>2 DEF ExtendGroup

\* One packet handed to the ring.
LEMMA GopWriteRing ==
  ASSUME RingInv, NEW p \in Packet, NEW h, GopWrite(p, h)
  PROVE  /\ RingFilled'
         /\ gops' \in [Slots -> Seq(Packet)] /\ num' \in 0 .. Count /\ nextindex' \in Slots
         /\ start' \in BOOLEAN /\ crashed' \in BOOLEAN
         /\ stored' \in Nat /\ starts' \in Seq(Nat)
<1> DEFINE isKey == IsVideo(p.kind) /\ h = "key"
<1> USE DEF RingInv, TypeOK
<1>1. CASE isKey
  <2>1. /\ StartGroup(p) /\ start' = TRUE /\ stored' = stored + 1
        /\ starts' = Append(starts, p.n)
    BY <1>1 DEF GopWrite
  <2>2. crashed' = crashed
    BY <2>1 DEF StartGroup
  <2>3. /\ gops' \in [Slots -> Seq(Packet)]
        /\ num' \in 1 .. Count
        /\ nextindex' \in Slots
        /\ \A i \in Slots : gops'[i] # <<>> <=> i < num'
        /\ num' < Count => nextindex' = num'
    BY <2>1, StartGroupRing
  <2>4. num' \in 0 .. Count /\ (num' # 0) = TRUE
    BY <2>3, GopAssumption
  <2>5. RingFilled'
    BY <2>1, <2>3, <2>4 DEF RingFilled
  <2>6. starts' \in Seq(Nat) /\ stored' \in Nat
    BY <2>1 DEF Packet
  <2> QED
    BY <2>1, <2>2, <2>3, <2>4, <2>5, <2>6
<1>2. CASE ~isKey /\ start
  <2>1. ExtendGroup(p) /\ start' = TRUE /\ stored' = stored + 1 /\ starts' = starts
    BY <1>2 DEF GopWrite
  <2>2. /\ gops' \in [Slots -> Seq(Packet)]
        /\ crashed' \in BOOLEAN
        /\ UNCHANGED <<num, nextindex>>
        /\ \A i \in Slots : gops'[i] # <<>> <=> gops[i] # <<>>
    BY <2>1, ExtendGroupRing
  <2>3. start = TRUE
    BY <1>2
  <2>4. RingFilled'
    BY <2>1, <2>2, <2>3 DEF RingFilled
  <2> QED
    BY <2>1, <2>2, <2>4
<1>3. CASE ~isKey /\ ~start
  <2>1. UNCHANGED gopVars
    BY <1>3 DEF GopWrite
  <2> QED
    BY <2>1 DEF gopVars, RingFilled
<1> QED
  BY <1>1, <1>2, <1>3

\* The packet that Write publishes.
Published(k) == [kind |-> k, n |-> published + 1, g |-> stored + 1]

\* Write, with its packet and the place it goes to named.
LEMMA WriteKind ==
  ASSUME RingInv, Write
  PROVE  \E k \in Input :
           /\ k \in Kinds
           /\ Published(k) \in Packet
           /\ header' = DemuxH(k)
           /\ header' \in Kinds \cup {"nil"}
           /\ published' = published + 1
           /\ metadata' = IF Route(k, DemuxH(k)) = "metadata" THEN <<Published(k)>> ELSE metadata
           /\ videoSeq' = IF Route(k, DemuxH(k)) = "videoSeq" THEN <<Published(k)>> ELSE videoSeq
           /\ audioSeq' = IF Route(k, DemuxH(k)) = "audioSeq" THEN <<Published(k)>> ELSE audioSeq
           /\ IF Route(k, DemuxH(k)) = "gop"
                THEN GopWrite(Published(k), DemuxH(k)) ELSE UNCHANGED gopVars
           /\ UNCHANGED <<shared, demuxed>>
<1>1. PICK k \in Input :
        /\ header' = DemuxH(k)
        /\ published' = published + 1
        /\ metadata' = IF Route(k, DemuxH(k)) = "metadata" THEN <<Published(k)>> ELSE metadata
        /\ videoSeq' = IF Route(k, DemuxH(k)) = "videoSeq" THEN <<Published(k)>> ELSE videoSeq
        /\ audioSeq' = IF Route(k, DemuxH(k)) = "audioSeq" THEN <<Published(k)>> ELSE audioSeq
        /\ IF Route(k, DemuxH(k)) = "gop"
             THEN GopWrite(Published(k), DemuxH(k)) ELSE UNCHANGED gopVars
        /\ UNCHANGED <<shared, demuxed>>
  BY DEF Write, Published
<1>2. k \in Kinds
  BY GopAssumption
<1>3. Published(k) \in Packet
  BY <1>2 DEF Published, Packet, RingInv, TypeOK
<1>4. DemuxH(k) \in Kinds \cup {"nil"}
  BY <1>2 DEF DemuxH, RingInv, TypeOK
<1> QED
  BY <1>1, <1>2, <1>3, <1>4

\* Every step of the publisher's goroutine and of the HLS sender keeps the ring.
LEMMA RingStep == RingInv /\ [Next]_vars => RingInv'
<1> SUFFICES ASSUME RingInv, [Next]_vars PROVE RingInv'
  OBVIOUS
<1>1. CASE Write
  <2>1. PICK k \in Input :
           /\ k \in Kinds
           /\ Published(k) \in Packet
           /\ header' \in Kinds \cup {"nil"}
           /\ published' = published + 1
           /\ metadata' = IF Route(k, DemuxH(k)) = "metadata" THEN <<Published(k)>> ELSE metadata
           /\ videoSeq' = IF Route(k, DemuxH(k)) = "videoSeq" THEN <<Published(k)>> ELSE videoSeq
           /\ audioSeq' = IF Route(k, DemuxH(k)) = "audioSeq" THEN <<Published(k)>> ELSE audioSeq
           /\ IF Route(k, DemuxH(k)) = "gop"
                THEN GopWrite(Published(k), DemuxH(k)) ELSE UNCHANGED gopVars
           /\ UNCHANGED <<shared, demuxed>>
    BY <1>1, WriteKind
  <2>2. IsSpecial(<<Published(k)>>)
    BY <2>1 DEF IsSpecial
  <2>3. IsSpecial(metadata)' /\ IsSpecial(videoSeq)' /\ IsSpecial(audioSeq)'
    BY <2>1, <2>2 DEF RingInv, TypeOK, IsSpecial
  <2>4. published' \in Nat /\ shared' \subseteq Packet /\ demuxed' \subseteq Nat
    BY <2>1 DEF RingInv, TypeOK
  <2>5. CASE Route(k, DemuxH(k)) = "gop"
    BY <2>1, <2>3, <2>4, <2>5, GopWriteRing DEF RingInv, TypeOK
  <2>6. CASE Route(k, DemuxH(k)) # "gop"
    <3>1. UNCHANGED gopVars
      BY <2>1, <2>6
    <3> QED
      BY <2>1, <2>3, <2>4, <3>1 DEF RingInv, TypeOK, RingFilled, gopVars
  <2> QED
    BY <2>5, <2>6
<1>2. CASE SendToHls
  <2>1. \A i \in Slots : SharedByArray(gops[i]) \subseteq Packet
    BY DEF RingInv, TypeOK, SharedByArray
  <2>2. shared' \subseteq Packet
    BY <1>2, <2>1 DEF SendToHls, SharedBySpecial, RingInv, TypeOK
  <2> QED
    BY <1>2, <2>2 DEF SendToHls, RingInv, TypeOK, RingFilled, IsSpecial, gopVars, specialVars
<1>3. CASE HlsDemux
  <2>1. shared' \subseteq Packet /\ demuxed' \subseteq Nat
    BY <1>3 DEF HlsDemux, RingInv, TypeOK, Packet
  <2> QED
    BY <1>3, <2>1 DEF HlsDemux, RingInv, TypeOK, RingFilled, IsSpecial, gopVars, specialVars
<1>4. CASE UNCHANGED vars
  BY <1>4 DEF RingInv, TypeOK, RingFilled, IsSpecial, vars, gopVars, specialVars
<1> QED
  BY <1>1, <1>2, <1>3, <1>4 DEF Next

\* The ring starts empty.
LEMMA RingInit == Init => RingInv
<1> SUFFICES ASSUME Init PROVE RingInv
  OBVIOUS
<1>1. <<>> \in Seq(Packet) /\ Len(<<>>) <= 1 /\ <<>> \in Seq(Nat)
  OBVIOUS
<1>2. TypeOK
  <2>1. start \in BOOLEAN /\ crashed \in BOOLEAN /\ header \in Kinds \cup {"nil"}
    BY Zenon DEF Init
  <2>2. num \in 0 .. Count /\ nextindex \in Slots /\ gops \in [Slots -> Seq(Packet)]
    BY <1>1, GopAssumption DEF Init, Slots
  <2>3. IsSpecial(metadata) /\ IsSpecial(videoSeq) /\ IsSpecial(audioSeq)
    BY <1>1 DEF Init, IsSpecial
  <2>4. published \in Nat /\ stored \in Nat /\ starts \in Seq(Nat)
        /\ shared \subseteq Packet /\ demuxed \subseteq Nat
    BY <1>1 DEF Init
  <2> QED
    BY <2>1, <2>2, <2>3, <2>4 DEF TypeOK
<1>3. /\ \A i \in Slots : gops[i] # <<>> <=> i < num
      /\ num < Count => nextindex = num
  BY GopAssumption DEF Init, Slots
<1>4. start = (num # 0)
  <2>1. start = FALSE /\ num = 0
    BY DEF Init
  <2>2. (num # 0) = FALSE
    BY <2>1
  <2> QED
    BY <2>1, <2>2
<1>5. RingFilled
  BY <1>3, <1>4, Zenon DEF RingFilled
<1> QED
  BY <1>2, <1>5 DEF RingInv

\* For every gop_num: nextindex stays inside the ring, num never passes gop_num, and
\* every slot, special slot and shared packet keeps its type.
THEOREM TypeCorrect == Spec => []TypeOK
<1>1. RingInv => TypeOK
  BY DEF RingInv
<1> QED
  BY <1>1, RingInit, RingStep, PTL DEF Spec

-----------------------------------------------------------------------------
(***************************************************************************)
(* gop_num 1 and 2.  There the slot at nextindex + 1 is the slot started   *)
(* last, so an extending packet meets an allocated group, and while that   *)
(* group has room it ends with the packet stored last.                     *)
(***************************************************************************)
OpenGroup ==
  start /\ Len(gops[Current]) < MaxGOPCap
    => gops[Current][1].g + Len(gops[Current]) - 1 = stored

SmallInv == RingInv /\ NoCrash /\ GroupsContiguous /\ OpenGroup

\* A slot's packets are consecutive and start where a group was started.
GroupOK(a, ss) ==
  a # <<>> =>
    /\ \E j \in DOMAIN ss : ss[j] = a[1].n
    /\ \A j \in DOMAIN a : a[j].g = a[1].g + j - 1

\* In a ring of one or two slots, the slot written without startNew is allocated.
LEMMA CurrentAllocated ==
  ASSUME RingInv, Count \in {1, 2}, start
  PROVE  Current \in Slots /\ gops[Current] # <<>>
<1> USE GopAssumption DEF RingInv, RingFilled, TypeOK
<1>1. num # 0
  OBVIOUS
<1>2. Current = IF nextindex = Count - 1 THEN 0 ELSE nextindex + 1
  BY RingNext DEF Current
<1>3. Current \in Slots /\ Current < num
  BY <1>1, <1>2 DEF Slots
<1> QED
  BY <1>3

\* In a ring of one or two slots, a group just started is the one written next.
LEMMA CurrentIsNewest ==
  ASSUME RingInv, Count \in {1, 2}, nextindex' = (nextindex + 1) % Count
  PROVE  Current' = nextindex
<1>1. nextindex \in Slots
  BY DEF RingInv, TypeOK
<1>2. nextindex' = IF nextindex = Count - 1 THEN 0 ELSE nextindex + 1
  BY <1>1, RingNext
<1>3. nextindex' \in Slots
  BY <1>1, <1>2 DEF Slots
<1>4. (nextindex' + 1) % Count = IF nextindex' = Count - 1 THEN 0 ELSE nextindex' + 1
  BY <1>3, RingNext
<1> QED
  BY <1>1, <1>2, <1>4 DEF Current, Slots

\* The number of the packet after a group of n packets that starts at f.
LEMMA NextOfGroup ==
  ASSUME NEW f \in Nat, NEW n \in Nat, NEW s \in Nat, f + n - 1 = s
  PROVE  s + 1 = f + (n + 1) - 1
  OBVIOUS

\* A packet handed to the ring starts a group or extends the newest one.
LEMMA SmallGopWrite ==
  ASSUME SmallInv, Count \in {1, 2}, NEW p \in Packet, NEW h, GopWrite(p, h),
         p.g = stored + 1
  PROVE  NoCrash' /\ GroupsContiguous' /\ OpenGroup'
<1> DEFINE isKey == IsVideo(p.kind) /\ h = "key"
<1> USE GopAssumption DEF SmallInv, RingInv, TypeOK
<1>1. \A i \in Slots : GroupOK(gops[i], starts)
  BY DEF GroupsContiguous, GroupOK
<1>2. SUFFICES NoCrash' /\ (\A i \in Slots : GroupOK(gops'[i], starts')) /\ OpenGroup'
  BY DEF GroupsContiguous, GroupOK
<1>3. CASE isKey
  <2>1. /\ StartGroup(p) /\ stored' = stored + 1
        /\ starts' = Append(starts, p.n)
    BY <1>3 DEF GopWrite
  <2>2. gops' = [gops EXCEPT ![nextindex] = <<p>>]
    BY <2>1, FirstWrite DEF StartGroup
  <2>3. \A i \in Slots : GroupOK(gops[i], starts')
    <3>1. p.n \in Nat
      BY DEF Packet
    <3>2. \A j \in DOMAIN starts : j \in DOMAIN starts' /\ starts'[j] = starts[j]
      BY <2>1, <3>1
    <3> QED
      BY <1>1, <3>2 DEF GroupOK
  <2>4. GroupOK(<<p>>, starts')
    <3>1. p.n \in Nat /\ p.g \in Nat
      BY DEF Packet
    <3>2. Len(starts') \in DOMAIN starts' /\ starts'[Len(starts')] = p.n
      BY <2>1, <3>1
    <3>3. DOMAIN <<p>> = {1} /\ <<p>>[1] = p
      OBVIOUS
    <3> QED
      BY <3>1, <3>2, <3>3 DEF GroupOK
  <2>5. \A i \in Slots : GroupOK(gops'[i], starts')
    BY <2>2, <2>3, <2>4
  <2>6. Current' = nextindex
    BY <2>1, CurrentIsNewest DEF StartGroup
  <2>7. gops'[Current'] = <<p>> /\ p.g \in Nat
    BY <2>2, <2>6 DEF Packet
  <2>8. OpenGroup'
    <3>1. Len(<<p>>) = 1 /\ <<p>>[1] = p
      OBVIOUS
    <3> QED
      BY <2>1, <2>7, <3>1 DEF OpenGroup
  <2>9. NoCrash'
    BY <2>1 DEF StartGroup, NoCrash
  <2> QED
    BY <2>5, <2>8, <2>9
<1>4. CASE ~isKey /\ start
  <2>1. ExtendGroup(p) /\ stored' = stored + 1 /\ starts' = starts
    BY <1>4 DEF GopWrite
  <2>2. Current \in Slots /\ gops[Current] # <<>>
    BY <1>4, CurrentAllocated
  <2> DEFINE a == gops[Current]
  <2>3. /\ gops' = [gops EXCEPT ![Current] = ArrayWrite(a, p)]
        /\ crashed' = (gops[Current] = <<>>)
        /\ nextindex' = nextindex
    BY <2>1, <2>2 DEF ExtendGroup
  <2>4. Current' = Current
    BY <2>3 DEF Current
  <2>5. NoCrash'
    BY <2>2, <2>3 DEF NoCrash
  <2>6. a \in Seq(Packet) /\ a # <<>> /\ GroupOK(a, starts)
    BY <1>1, <2>2
  <2>7. p.g \in Nat /\ a[1].g \in Nat /\ stored \in Nat /\ Len(a) \in Nat
    <3>1. 1 \in DOMAIN a /\ Len(a) \in Nat
      BY <2>6
    <3>2. a[1] \in Packet
      BY <2>6, <3>1
    <3> QED
      BY <3>1, <3>2 DEF Packet
  <2>8. CASE Len(a) >= MaxGOPCap
    <3>1. gops' = gops
      BY <2>3, <2>8 DEF ArrayWrite
    <3>2. \A i \in Slots : GroupOK(gops'[i], starts')
      BY <1>1, <2>1, <3>1
    <3>3. gops'[Current'] = a
      BY <2>4, <3>1
    <3>4. OpenGroup'
      BY <2>7, <2>8, <3>3 DEF OpenGroup
    <3> QED
      BY <2>5, <3>2, <3>4
  <2>9. CASE Len(a) < MaxGOPCap
    <3> DEFINE b == Append(a, p)
    <3>1. gops' = [gops EXCEPT ![Current] = b]
      <4>1. ArrayWrite(a, p) = b
        BY <2>7, <2>9 DEF ArrayWrite
      <4> QED
        BY <2>3, <4>1
    <3>2. a[1].g + Len(a) - 1 = stored
      BY <1>4, <2>9 DEF OpenGroup
    <3>3. /\ Len(b) = Len(a) + 1 /\ DOMAIN b = 1 .. Len(a) + 1
          /\ b[1] = a[1] /\ b[Len(a) + 1] = p
          /\ \A j \in DOMAIN a : b[j] = a[j]
          /\ DOMAIN a = 1 .. Len(a)
      BY <2>6, <2>7
    <3> HIDE DEF a, b
    <3>4. \A j \in DOMAIN b : b[j].g = b[1].g + j - 1
      <4>1. ASSUME NEW j \in DOMAIN b PROVE b[j].g = b[1].g + j - 1
        <5>1. CASE j = Len(a) + 1
          <6>1. b[j].g = stored + 1 /\ b[1].g = a[1].g
            BY <3>3, <5>1
          <6>2. stored + 1 = a[1].g + (Len(a) + 1) - 1
            BY <2>7, <3>2, NextOfGroup
          <6> QED
            BY <5>1, <6>1, <6>2, Zenon
        <5>2. CASE j # Len(a) + 1
          <6>1. j \in DOMAIN a
            BY <2>7, <3>3, <5>2
          <6> QED
            BY <2>6, <3>3, <6>1 DEF GroupOK
        <5> QED
          BY <5>1, <5>2
      <4> QED
        BY <4>1
    <3>5. GroupOK(b, starts')
      BY <2>1, <2>6, <3>3, <3>4 DEF GroupOK
    <3>6. \A i \in Slots : GroupOK(gops'[i], starts')
      BY <1>1, <2>1, <3>1, <3>5
    <3>7. gops'[Current'] = b
      BY <2>2, <2>4, <3>1
    <3>8. OpenGroup'
      BY <2>1, <2>7, <3>2, <3>3, <3>7 DEF OpenGroup
    <3> QED
      BY <2>5, <3>6, <3>8
  <2> QED
    BY <2>7, <2>8, <2>9
<1>5. CASE ~isKey /\ ~start
  <2>1. UNCHANGED gopVars
    BY <1>5 DEF GopWrite
  <2> QED
    BY <1>1, <2>1 DEF gopVars, NoCrash, OpenGroup, Current
<1> QED
  BY <1>3, <1>4, <1>5

\* Every step keeps the groups of a small ring.
LEMMA SmallStep == Count \in {1, 2} /\ SmallInv /\ [Next]_vars => SmallInv'
<1> SUFFICES ASSUME Count \in {1, 2}, SmallInv, [Next]_vars PROVE SmallInv'
  OBVIOUS
<1>1. RingInv'
  BY RingStep DEF SmallInv
<1>2. ASSUME UNCHANGED gopVars PROVE NoCrash' /\ GroupsContiguous' /\ OpenGroup'
  BY <1>2 DEF SmallInv, gopVars, NoCrash, GroupsContiguous, OpenGroup, Current
<1>3. CASE Write
  <2>1. PICK k \in Input :
           /\ Published(k) \in Packet
           /\ IF Route(k, DemuxH(k)) = "gop"
                THEN GopWrite(Published(k), DemuxH(k)) ELSE UNCHANGED gopVars
    BY <1>3, WriteKind DEF SmallInv
  <2>2. Published(k).g = stored + 1
    BY DEF Published
  <2>3. CASE Route(k, DemuxH(k)) = "gop"
    <3>1. GopWrite(Published(k), DemuxH(k))
      BY <2>1, <2>3
    <3>2. NoCrash' /\ GroupsContiguous' /\ OpenGroup'
      BY <2>1, <2>2, <3>1, SmallGopWrite
    <3> QED
      BY <1>1, <3>2 DEF SmallInv
  <2>4. CASE Route(k, DemuxH(k)) # "gop"
    BY <1>1, <1>2, <2>1, <2>4 DEF SmallInv
  <2> QED
    BY <2>3, <2>4
<1>4. CASE SendToHls \/ HlsDemux \/ UNCHANGED vars
  <2>1. UNCHANGED gopVars
    BY <1>4 DEF SendToHls, HlsDemux, vars
  <2> QED
    BY <1>1, <1>2, <2>1 DEF SmallInv
<1> QED
  BY <1>3, <1>4 DEF Next

\* With gop_num 1 or 2 (the configurations that are not the finding of MCGopCount3)
\* no write meets an unallocated slot, for any capacity and any publisher.
THEOREM SmallRingSafe ==
  Count \in {1, 2} => (Spec => [](NoCrash /\ GroupsContiguous))
<1> SUFFICES ASSUME Count \in {1, 2} PROVE Spec => [](NoCrash /\ GroupsContiguous)
  OBVIOUS
<1>1. Init => SmallInv
  <2> SUFFICES ASSUME Init PROVE SmallInv
    OBVIOUS
  <2>1. RingInv
    BY RingInit
  <2>2. NoCrash /\ start = FALSE
    BY DEF Init, NoCrash
  <2>3. GroupsContiguous
    BY DEF Init, GroupsContiguous
  <2> QED
    BY <2>1, <2>2, <2>3 DEF SmallInv, OpenGroup
<1>2. SmallInv /\ [Next]_vars => SmallInv'
  BY SmallStep
<1>3. SmallInv => NoCrash /\ GroupsContiguous
  BY DEF SmallInv
<1> QED
  BY <1>1, <1>2, <1>3, PTL DEF Spec

-----------------------------------------------------------------------------
(***************************************************************************)
(* The replay with gop_num 1 and 2: at most two groups, the one at         *)
(* nextindex (the older) and the one at Current.                           *)
(***************************************************************************)

\* The slots of a small ring in the order sendTo visits them.
LEMMA SendOrder ==
  ASSUME RingInv, Count \in {1, 2}
  PROVE  /\ num \in {0, 1, 2}
         /\ num = 1 => SendIndex(0) = Current /\ Current \in Slots
         /\ num = 2 => /\ SendIndex(0) = nextindex /\ SendIndex(1) = Current
                       /\ Current \in Slots /\ nextindex # Current
<1>1. num \in 0 .. Count /\ nextindex \in 0 .. Count - 1 /\ (num < Count => nextindex = num)
  BY DEF RingInv, RingFilled, TypeOK, Slots
<1>2. Current = IF nextindex = Count - 1 THEN 0 ELSE nextindex + 1
  BY <1>1, RingNext DEF Current, Slots
<1>3. CASE Count = 1
  BY <1>1, <1>2, <1>3 DEF SendIndex, Slots
<1>4. CASE Count = 2
  BY <1>1, <1>2, <1>4 DEF SendIndex, Slots
<1> QED
  BY <1>3, <1>4

\* What a concatenation with nothing is.
LEMMA NothingBefore == ASSUME NEW a \in Seq(Packet) PROVE <<>> \o a = a
  OBVIOUS

\* What sendTo sends, unrolled.
LEMMA ReplayIs ==
  ASSUME RingInv, Count \in {1, 2}
  PROVE  /\ num = 0 => Replay = <<>>
         /\ num = 1 => Replay = gops[Current]
         /\ num = 2 => Replay = gops[nextindex] \o gops[Current]
<1> DEFINE U(f) == f = [i \in 0 .. num |-> IF i = 0 THEN <<>> ELSE f[i - 1] \o gops[SendIndex(i - 1)]]
           one == <<>> \o gops[SendIndex(0)]
           w == [i \in 0 .. num |-> IF i = 0 THEN <<>> ELSE IF i = 1 THEN one ELSE one \o gops[SendIndex(1)]]
<1>1. num \in {0, 1, 2}
  BY SendOrder
<1>2. U(w)
  <2> HIDE DEF one
  <2>1. \A i \in 0 .. num : w[i] = IF i = 0 THEN <<>> ELSE IF i = 1 THEN one ELSE one \o gops[SendIndex(1)]
    OBVIOUS
  <2>2. \A i \in 0 .. num : i # 0 => i - 1 \in 0 .. num /\ (i = 1 \/ i = 2) /\ 1 - 1 = 0 /\ 2 - 1 = 1
    BY <1>1
  <2> DEFINE R(i) == IF i = 0 THEN <<>> ELSE w[i - 1] \o gops[SendIndex(i - 1)]
  <2>3. ASSUME NEW i \in 0 .. num PROVE w[i] = R(i)
    <3>1. CASE i = 0
      BY <2>1, <3>1
    <3>2. CASE i = 1
      <4>1. w[1] = one /\ w[0] = <<>>
        BY <2>1, <2>2, <3>2
      <4>2. R(1) = w[0] \o gops[SendIndex(0)]
        BY <2>2
      <4> QED BY <3>2, <4>1, <4>2 DEF one
    <3>3. CASE i = 2
      <4>1. w[2] = one \o gops[SendIndex(1)] /\ w[1] = one
        BY <2>1, <2>2, <3>3
      <4>2. R(2) = w[1] \o gops[SendIndex(1)]
        BY <2>2
      <4> QED BY <3>3, <4>1, <4>2
    <3> QED BY <2>2, <3>1, <3>2, <3>3
  <2>4. w = [i \in 0 .. num |-> R(i)]
    BY <2>3
  <2> QED BY <2>4
<1>3. U(CHOOSE f : U(f))
  <2> HIDE DEF U, w
  <2> QED BY <1>2
<1> DEFINE u == CHOOSE f : U(f)
<1>4. Replay = u[num]
  BY DEF Replay
<1>5. \A i \in 0 .. num : u[i] = IF i = 0 THEN <<>> ELSE u[i - 1] \o gops[SendIndex(i - 1)]
  BY <1>3
<1> HIDE DEF u
<1>6. u[0] = <<>> /\ (num >= 1 => u[1] = u[0] \o gops[SendIndex(0)]) /\ (num = 2 => u[2] = u[1] \o gops[SendIndex(1)])
  <2>1. 0 \in 0 .. num /\ (num >= 1 => 1 \in 0 .. num) /\ (num = 2 => 2 \in 0 .. num)
    BY <1>1
  <2>2. 1 - 1 = 0 /\ 2 - 1 = 1 /\ 1 # 0 /\ 2 # 0
    OBVIOUS
  <2>3. u[0] = <<>>
    BY <1>5, <2>1
  <2>4. num >= 1 => u[1] = u[1 - 1] \o gops[SendIndex(1 - 1)]
    BY <1>5, <2>1, <2>2
  <2>5. num = 2 => u[2] = u[2 - 1] \o gops[SendIndex(2 - 1)]
    BY <1>5, <2>1, <2>2
  <2> QED BY <2>2, <2>3, <2>4, <2>5
<1>7. num \in {1, 2} => gops[SendIndex(0)] \in Seq(Packet) /\ <<>> \o gops[SendIndex(0)] = gops[SendIndex(0)]
  <2>1. num \in {1, 2} => SendIndex(0) \in Slots
    BY SendOrder DEF RingInv, TypeOK
  <2>2. num \in {1, 2} => gops[SendIndex(0)] \in Seq(Packet)
    BY <2>1 DEF RingInv, TypeOK
  <2> QED BY <2>2, NothingBefore
<1>8. CASE num = 0
  BY <1>4, <1>6, <1>8
<1>9. CASE num = 1
  BY <1>4, <1>6, <1>7, <1>9, SendOrder
<1>10. CASE num = 2
  <2>1. /\ SendIndex(0) = nextindex /\ SendIndex(1) = Current
        /\ Replay = u[2] /\ u[0] = <<>> /\ num >= 1
    BY <1>4, <1>6, <1>10, SendOrder
  <2>2. u[2] = u[1] \o gops[Current]
    BY <1>6, <1>10, <2>1
  <2>3. u[1] = gops[nextindex]
    BY <1>6, <1>7, <1>10, <2>1
  <2>4. Replay = gops[nextindex] \o gops[Current]
    BY <2>1, <2>2, <2>3
  <2> QED BY <1>10, <2>4
<1> QED
  BY <1>1, <1>8, <1>9, <1>10

\* The number of the last packet of a group without holes.
LastG(a) == a[1].g + Len(a) - 1

\* Group b follows group a; only the tail of a full a is missing between them.
Adjacent(a, b) ==
  /\ LastG(a) < b[1].g
  /\ b[1].g = LastG(a) + 1 \/ Len(a) = MaxGOPCap

\* The ring holds the last groups in their order.
InOrder ==
  /\ num = IF Len(starts) < Count THEN Len(starts) ELSE Count
  /\ \A i \in Slots : Len(gops[i]) <= MaxGOPCap
  /\ start => gops[Current][1].n = starts[Len(starts)] /\ LastG(gops[Current]) <= stored
  /\ num = 2 => /\ gops[nextindex][1].n = starts[Len(starts) - 1]
                /\ Adjacent(gops[nextindex], gops[Current])

ReplayInv == SmallInv /\ InOrder

\* The numbers a group is described by.
LEMMA GroupTypes ==
  ASSUME RingInv, NEW i \in Slots, gops[i] # <<>>
  PROVE  /\ gops[i] \in Seq(Packet) /\ Len(gops[i]) \in Nat \ {0}
         /\ gops[i][1] \in Packet /\ gops[i][1].g \in Nat /\ gops[i][1].n \in Nat
         /\ LastG(gops[i]) \in Int /\ MaxGOPCap \in Nat \ {0}
<1> DEFINE a == gops[i]
<1>1. a \in Seq(Packet) /\ a # <<>>
  BY DEF RingInv, TypeOK
<1>2. Len(a) \in Nat \ {0} /\ a[1] \in Packet
  BY <1>1
<1>3. a[1].g \in Nat /\ a[1].n \in Nat
  BY <1>2 DEF Packet
<1> QED
  BY <1>1, <1>2, <1>3, GopAssumption DEF LastG

\* A key frame takes the slot of the oldest group; the newest becomes the older one.
LEMMA StartKeepsOrder ==
  ASSUME ReplayInv, Count \in {1, 2}, NEW p \in Packet, StartGroup(p), p.g = stored + 1,
         start' = TRUE, stored' = stored + 1, starts' = Append(starts, p.n)
  PROVE  InOrder'
<1>0. /\ RingInv /\ OpenGroup /\ InOrder /\ gops \in [Slots -> Seq(Packet)]
      /\ num \in 0 .. Count /\ nextindex \in Slots /\ stored \in Nat /\ start = (num # 0)
      /\ MaxGOPCap \in Nat \ {0}
  BY GopAssumption DEF ReplayInv, SmallInv, RingInv, RingFilled, TypeOK
<1>1. gops' = [gops EXCEPT ![nextindex] = <<p>>]
  BY FirstWrite DEF StartGroup
<1>2. Current' = nextindex /\ nextindex' = Current
  BY <1>0, CurrentIsNewest DEF StartGroup, Current
<1>3. gops'[Current'] = <<p>> /\ <<p>>[1] = p /\ Len(<<p>>) = 1
  BY <1>0, <1>1, <1>2
<1>4. /\ Len(starts) \in Nat /\ Len(starts') = Len(starts) + 1 /\ starts'[Len(starts) + 1] = p.n
      /\ \A j \in 1 .. Len(starts) : starts'[j] = starts[j]
  <2>1. starts \in Seq(Nat) /\ p.n \in Nat
    BY DEF ReplayInv, SmallInv, RingInv, TypeOK, Packet
  <2> QED BY <2>1
<1>5. num' = IF num < Count THEN num + 1 ELSE num
  <2>1. gops[nextindex] # <<>> <=> nextindex < num
    BY <1>0 DEF RingInv, RingFilled
  <2>2. num < Count => nextindex = num
    BY <1>0 DEF RingInv, RingFilled
  <2>3. nextindex \in 0 .. Count - 1
    BY <1>0 DEF Slots
  <2>4. gops[nextindex] = <<>> <=> num < Count
    BY <1>0, <2>1, <2>2, <2>3
  <2> QED BY <2>4 DEF StartGroup
<1>6. num = IF Len(starts) < Count THEN Len(starts) ELSE Count
  BY <1>0 DEF InOrder
<1>7. num' = IF Len(starts') < Count THEN Len(starts') ELSE Count
  BY <1>4, <1>5, <1>6
<1>8. ASSUME NEW i \in Slots PROVE Len(gops'[i]) <= MaxGOPCap
  <2>1. gops'[i] = IF i = nextindex THEN <<p>> ELSE gops[i]
    BY <1>0, <1>1
  <2>2. Len(gops[i]) <= MaxGOPCap
    BY <1>0 DEF InOrder
  <2> QED BY <1>0, <1>3, <2>1, <2>2
<1>9. gops'[Current'][1].n = starts'[Len(starts')] /\ LastG(gops'[Current']) <= stored'
  <2>1. LastG(<<p>>) = stored + 1
    BY <1>0, <1>3 DEF LastG
  <2> QED BY <1>0, <1>3, <1>4, <2>1
<1>10. ASSUME num' = 2
       PROVE  /\ gops'[nextindex'][1].n = starts'[Len(starts') - 1]
              /\ Adjacent(gops'[nextindex'], gops'[Current'])
  <2>1. Count = 2 /\ num \in {1, 2} /\ start
    <3>1. num \in 0 .. Count
      BY <1>0
    <3>2. Count = 2 /\ num \in {1, 2} /\ num # 0
      BY <1>5, <1>10, <3>1
    <3> QED BY <1>0, <3>2
  <2>2. Current \in Slots /\ gops[Current] # <<>>
    BY <1>0, <2>1, CurrentAllocated
  <2>3. Current # nextindex
    <3>1. nextindex \in {0, 1}
      BY <1>0, <2>1 DEF Slots
    <3>2. Current = IF nextindex = Count - 1 THEN 0 ELSE nextindex + 1
      BY <1>0, RingNext DEF Current
    <3> QED BY <2>1, <3>1, <3>2
  <2> DEFINE a == gops[Current]
  <2>4. gops'[nextindex'] = a
    BY <1>0, <1>1, <1>2, <2>2, <2>3
  <2>5. Len(starts) >= 1
    <3>1. Len(starts) \in Nat
      BY <1>4
    <3>2. Count = 2 /\ num \in {1, 2}
      BY <2>1
    <3> QED BY <1>6, <3>1, <3>2, SMTT(30)
  <2>6. a[1].n = starts'[Len(starts') - 1]
    <3>1. a[1].n = starts[Len(starts)]
      BY <1>0, <2>1 DEF InOrder
    <3>2. Len(starts) \in 1 .. Len(starts) /\ Len(starts') - 1 = Len(starts)
      BY <1>4, <2>5
    <3> QED BY <1>4, <3>1, <3>2
  <2>7. Adjacent(a, <<p>>)
    <3>1. LastG(a) <= stored /\ Len(a) <= MaxGOPCap
      BY <1>0, <2>1, <2>2 DEF InOrder
    <3>2. LastG(a) \in Int /\ Len(a) \in Nat
      BY <1>0, <2>2, GroupTypes
    <3>3. Len(a) < MaxGOPCap => LastG(a) = stored
      BY <1>0, <2>1 DEF OpenGroup, LastG
    <3>4. <<p>>[1].g = stored + 1
      BY <1>3
    <3> HIDE DEF a
    <3>5. LastG(a) < stored + 1 /\ (stored + 1 = LastG(a) + 1 \/ Len(a) = MaxGOPCap)
      BY <1>0, <3>1, <3>2, <3>3
    <3> QED BY <3>4, <3>5 DEF Adjacent
  <2> QED BY <1>3, <2>4, <2>6, <2>7
<1> QED
  BY <1>7, <1>8, <1>9, <1>10 DEF InOrder

\* Another packet makes the newest group longer, or is refused.
LEMMA ExtendKeepsOrder ==
  ASSUME ReplayInv, Count \in {1, 2}, NEW p \in Packet, ExtendGroup(p), p.g = stored + 1,
         start, start' = TRUE, stored' = stored + 1, starts' = starts
  PROVE  InOrder'
<1>0. /\ RingInv /\ InOrder /\ gops \in [Slots -> Seq(Packet)]
      /\ nextindex \in Slots /\ stored \in Nat /\ MaxGOPCap \in Nat \ {0}
  BY GopAssumption DEF ReplayInv, SmallInv, RingInv, TypeOK
<1>1. Current \in Slots /\ gops[Current] # <<>>
  BY <1>0, CurrentAllocated
<1> DEFINE a == gops[Current]
           b == ArrayWrite(a, p)
<1>2. /\ gops' = [gops EXCEPT ![Current] = b]
      /\ num' = num /\ nextindex' = nextindex /\ Current' = Current
  BY <1>1 DEF ExtendGroup, Current
<1>3. /\ a \in Seq(Packet) /\ Len(a) \in Nat \ {0} /\ a[1].g \in Nat /\ LastG(a) \in Int
  BY <1>0, <1>1, GroupTypes
<1>4. b[1] = a[1] /\ Len(b) = IF Len(a) >= MaxGOPCap THEN Len(a) ELSE Len(a) + 1
  BY <1>3 DEF ArrayWrite
<1>5. Len(a) <= MaxGOPCap /\ LastG(a) <= stored /\ a[1].n = starts[Len(starts)]
  BY <1>0, <1>1 DEF InOrder
<1> HIDE DEF a, b
<1>6. Len(b) <= MaxGOPCap
  BY <1>0, <1>3, <1>4, <1>5
<1>7. LastG(b) <= stored + 1
  <2>1. Len(b) <= Len(a) + 1 /\ Len(b) \in Nat
    BY <1>0, <1>3, <1>4
  <2>2. LastG(b) = a[1].g + Len(b) - 1 /\ a[1].g + Len(a) - 1 <= stored
    BY <1>4, <1>5 DEF LastG
  <2> QED BY <1>0, <1>3, <2>1, <2>2
<1>8. gops'[Current'] = b
  BY <1>0, <1>1, <1>2
<1>9. \A i \in Slots : i # Current => gops'[i] = gops[i]
  BY <1>0, <1>2
<1>10. \A i \in Slots : Len(gops'[i]) <= MaxGOPCap
  BY <1>0, <1>2, <1>6, <1>8, <1>9 DEF InOrder
<1>11. ASSUME num' = 2
       PROVE  /\ gops'[nextindex'][1].n = starts'[Len(starts') - 1]
              /\ Adjacent(gops'[nextindex'], gops'[Current'])
  <2>1. nextindex # Current
    BY <1>0, <1>2, <1>11, SendOrder
  <2>2. gops'[nextindex'] = gops[nextindex]
    BY <1>0, <1>2, <1>9, <2>1
  <2>3. gops[nextindex][1].n = starts[Len(starts) - 1] /\ Adjacent(gops[nextindex], a)
    BY <1>0, <1>2, <1>11 DEF InOrder, a
  <2> QED BY <1>4, <1>8, <2>2, <2>3 DEF Adjacent
<1>12. num' = IF Len(starts') < Count THEN Len(starts') ELSE Count
  BY <1>0, <1>2 DEF InOrder
<1> QED
  BY <1>4, <1>5, <1>7, <1>8, <1>10, <1>11, <1>12 DEF InOrder

\* Every step keeps the groups of a small ring in order.
LEMMA OrderStep ==
  ASSUME Count \in {1, 2}, ReplayInv, [Next]_vars
  PROVE  ReplayInv'
<1>1. SmallInv'
  BY SmallStep DEF ReplayInv
<1>2. ASSUME UNCHANGED gopVars PROVE InOrder'
  BY <1>2 DEF ReplayInv, InOrder, gopVars, Current
<1>3. CASE Write
  <2>1. PICK k \in Input :
           /\ Published(k) \in Packet
           /\ IF Route(k, DemuxH(k)) = "gop"
                THEN GopWrite(Published(k), DemuxH(k)) ELSE UNCHANGED gopVars
    BY <1>3, WriteKind DEF ReplayInv, SmallInv
  <2> DEFINE p == Published(k)
  <2>2. p.g = stored + 1
    BY DEF Published
  <2>3. \/ UNCHANGED gopVars
        \/ /\ start' = TRUE /\ stored' = stored + 1
           /\ \/ StartGroup(p) /\ starts' = Append(starts, p.n)
              \/ ExtendGroup(p) /\ starts' = starts /\ start
    BY <2>1 DEF GopWrite
  <2> HIDE DEF p
  <2>4. p \in Packet
    BY <2>1 DEF p
  <2>5. InOrder'
    BY <1>2, <2>2, <2>3, <2>4, StartKeepsOrder, ExtendKeepsOrder
  <2> QED BY <1>1, <2>5 DEF ReplayInv
<1>4. CASE SendToHls \/ HlsDemux \/ UNCHANGED vars
  <2>1. UNCHANGED gopVars
    BY <1>4 DEF SendToHls, HlsDemux, vars
  <2> QED BY <1>1, <1>2, <2>1 DEF ReplayInv
<1> QED
  BY <1>3, <1>4 DEF Next

\* The packets of two groups sent one after the other.
LEMMA TwoGroups ==
  ASSUME NEW a \in Seq(Packet), NEW b \in Seq(Packet)
  PROVE  /\ a \o b \in Seq(Packet) /\ Len(a \o b) = Len(a) + Len(b)
         /\ \A i \in 1 .. Len(a) : (a \o b)[i] = a[i]
         /\ \A i \in 1 .. Len(b) : (a \o b)[Len(a) + i] = b[i]
  OBVIOUS

\* The numbers inside a group of GroupsContiguous.
LEMMA InGroup ==
  ASSUME RingInv, GroupsContiguous, NEW s \in Slots, gops[s] # <<>>
  PROVE  /\ \A j \in 1 .. Len(gops[s]) : gops[s][j].g = gops[s][1].g + j - 1
         /\ \A j \in 1 .. Len(gops[s]) - 1 : /\ gops[s][j].g < gops[s][j + 1].g
                                             /\ gops[s][j + 1].g = gops[s][j].g + 1
         /\ gops[s][Len(gops[s])].g = LastG(gops[s])
<1> DEFINE a == gops[s]
<1>1. a \in Seq(Packet) /\ Len(a) \in Nat \ {0} /\ a[1].g \in Nat
  BY GroupTypes
<1>2. DOMAIN a = 1 .. Len(a)
  BY <1>1
<1>3. \A j \in DOMAIN a : a[j].g = a[1].g + j - 1
  BY DEF GroupsContiguous
<1> HIDE DEF a
<1>4. \A j \in 1 .. Len(a) : a[j].g = a[1].g + j - 1
  BY <1>2, <1>3
<1>5. ASSUME NEW j \in 1 .. Len(a) - 1 PROVE a[j].g < a[j + 1].g /\ a[j + 1].g = a[j].g + 1
  <2>1. Len(a) \in Nat /\ a[1].g \in Nat
    BY <1>1
  <2>2. j \in 1 .. Len(a) /\ j + 1 \in 1 .. Len(a) /\ j \in Nat
    BY <2>1
  <2>3. a[j].g = a[1].g + j - 1 /\ a[j + 1].g = a[1].g + (j + 1) - 1
    BY <1>4, <2>2
  <2> QED BY <2>1, <2>2, <2>3
<1>6. a[Len(a)].g = LastG(a)
  <2>1. Len(a) \in 1 .. Len(a)
    BY <1>1
  <2> QED BY <1>4, <2>1 DEF LastG
<1> QED
  BY <1>4, <1>5, <1>6 DEF a

\* Where the replay starts.
LEMMA StartsAtLast ==
  ASSUME Count \in {1, 2}, ReplayInv
  PROVE  StartsAtLastGroups
<1>0. RingInv /\ InOrder /\ start = (num # 0) /\ starts \in Seq(Nat) /\ Len(starts) \in Nat
  BY DEF ReplayInv, SmallInv, RingInv, RingFilled, TypeOK
<1>1. num = IF Len(starts) < Count THEN Len(starts) ELSE Count
  BY <1>0 DEF InOrder
<1>2. SUFFICES ASSUME starts # <<>>
               PROVE  Replay # <<>> /\ Replay[1].n = starts[Len(starts) - num + 1]
  BY <1>1 DEF StartsAtLastGroups
<1>3. Len(starts) \in Nat \ {0}
  BY <1>0, <1>2
<1>4. num \in {1, 2} /\ num <= Len(starts)
  <2>1. CASE Count = 1
    BY <1>1, <1>3, <2>1
  <2>2. CASE Count = 2
    <3>1. CASE Len(starts) < 2
      <4>1. num = Len(starts) /\ Len(starts) = 1
        BY <1>1, <1>3, <2>2, <3>1
      <4> QED BY <4>1
    <3>2. CASE ~(Len(starts) < 2)
      <4>1. num = 2 /\ 2 <= Len(starts)
        BY <1>1, <1>3, <2>2, <3>2
      <4> QED BY <4>1
    <3> QED BY <3>1, <3>2
  <2> QED BY <2>1, <2>2
<1>5. start /\ Current \in Slots /\ gops[Current] # <<>>
  <2>1. num # 0
    BY <1>4
  <2>2. start
    BY <1>0, <2>1
  <2> QED BY <1>0, <2>2, CurrentAllocated
<1>6. CASE num = 1
  <2>1. Replay = gops[Current]
    BY <1>0, <1>6, ReplayIs
  <2>2. gops[Current][1].n = starts[Len(starts)]
    BY <1>0, <1>5 DEF InOrder
  <2>3. Len(starts) - num + 1 = Len(starts)
    BY <1>3, <1>6
  <2> QED BY <1>5, <2>1, <2>2, <2>3
<1>7. CASE num = 2
  <2> DEFINE a == gops[nextindex]
  <2>1. Replay = a \o gops[Current]
    BY <1>0, <1>7, ReplayIs
  <2>2. a[1].n = starts[Len(starts) - 1]
    BY <1>0, <1>7 DEF InOrder
  <2>3. a # <<>> /\ a \in Seq(Packet) /\ gops[Current] \in Seq(Packet)
    <3>1. nextindex \in Slots /\ nextindex < num
      BY <1>0, <1>7 DEF RingInv, TypeOK, Slots
    <3> QED BY <1>0, <1>5, <3>1 DEF RingInv, RingFilled, TypeOK
  <2>4. Len(starts) - num + 1 = Len(starts) - 1
    BY <1>3, <1>7
  <2> HIDE DEF a
  <2>5. Len(a) \in Nat \ {0} /\ 1 \in 1 .. Len(a)
    BY <2>3
  <2>6. Replay[1] = a[1] /\ Replay # <<>>
    <3>1. (a \o gops[Current])[1] = a[1] /\ Len(a \o gops[Current]) = Len(a) + Len(gops[Current])
      BY <2>3, <2>5, TwoGroups
    <3>2. Len(a \o gops[Current]) # 0
      BY <2>3, <2>5, <3>1
    <3> QED BY <2>1, <3>1, <3>2
  <2> QED BY <2>2, <2>4, <2>6
<1> QED
  BY <1>4, <1>6, <1>7

\* The order of the replay.
LEMMA ReplayOrdered ==
  ASSUME Count \in {1, 2}, ReplayInv
  PROVE  ReplayInOrder
<1>0. RingInv /\ InOrder /\ OpenGroup /\ GroupsContiguous /\ start = (num # 0) /\ nextindex \in Slots
  BY DEF ReplayInv, SmallInv, RingInv, RingFilled, TypeOK
<1> DEFINE Follows(x, y) ==
             /\ x.g < y.g
             /\ y.g = x.g + 1 \/ \E s \in Slots : Len(gops[s]) = MaxGOPCap /\ gops[s][MaxGOPCap] = x
<1>1. SUFFICES /\ \A i \in 1 .. Len(Replay) - 1 : Follows(Replay[i], Replay[i + 1])
               /\ Replay # <<>> => Replay[Len(Replay)].g = stored \/ Len(gops[Current]) = MaxGOPCap
  BY DEF ReplayInOrder
<1>2. CASE num = 0
  <2>1. Replay = <<>> /\ Len(<<>>) = 0
    BY <1>0, <1>2, ReplayIs
  <2> QED BY <2>1
<1>3. ASSUME num # 0
      PROVE  /\ Current \in Slots /\ gops[Current] # <<>>
             /\ LastG(gops[Current]) = stored \/ Len(gops[Current]) = MaxGOPCap
  <2>1. start /\ Current \in Slots /\ gops[Current] # <<>>
    BY <1>0, <1>3, CurrentAllocated
  <2>2. Len(gops[Current]) <= MaxGOPCap /\ (Len(gops[Current]) < MaxGOPCap => LastG(gops[Current]) = stored)
    BY <1>0, <2>1 DEF InOrder, OpenGroup, LastG
  <2>3. Len(gops[Current]) \in Nat /\ MaxGOPCap \in Nat
    BY <1>0, <2>1, GroupTypes
  <2> QED BY <2>1, <2>2, <2>3
<1>4. CASE num = 1
  <2>1. Replay = gops[Current]
    BY <1>0, <1>4, ReplayIs
  <2>2. Current \in Slots /\ gops[Current] # <<>>
    BY <1>3, <1>4
  <2> QED BY <1>0, <1>3, <1>4, <2>1, <2>2, InGroup, SMTT(30)
<1>5. CASE num = 2
  <2> DEFINE a == gops[nextindex]
             b == gops[Current]
             r == a \o b
  <2>1. Replay = r
    BY <1>0, <1>5, ReplayIs
  <2>2. Current \in Slots /\ b # <<>> /\ (LastG(b) = stored \/ Len(b) = MaxGOPCap)
    BY <1>3, <1>5
  <2>3. a # <<>>
    <3>1. nextindex < num
      BY <1>0, <1>5 DEF Slots
    <3> QED BY <1>0, <3>1 DEF RingInv, RingFilled
  <2>4. /\ a \in Seq(Packet) /\ Len(a) \in Nat \ {0} /\ LastG(a) \in Int
        /\ b \in Seq(Packet) /\ Len(b) \in Nat \ {0} /\ MaxGOPCap \in Nat
    BY <1>0, <2>2, <2>3, GroupTypes
  <2>5. Adjacent(a, b)
    BY <1>0, <1>5 DEF InOrder
  <2>6. /\ \A j \in 1 .. Len(a) - 1 : a[j].g < a[j + 1].g /\ a[j + 1].g = a[j].g + 1
        /\ a[Len(a)].g = LastG(a)
    BY <1>0, <2>3, InGroup
  <2>7. /\ \A j \in 1 .. Len(b) - 1 : b[j].g < b[j + 1].g /\ b[j + 1].g = b[j].g + 1
        /\ b[Len(b)].g = LastG(b)
    BY <1>0, <2>2, InGroup
  <2>8. /\ Len(r) = Len(a) + Len(b)
        /\ \A i \in 1 .. Len(a) : r[i] = a[i]
        /\ \A i \in 1 .. Len(b) : r[Len(a) + i] = b[i]
    BY <2>4, TwoGroups
  <2>9. Follows(a[Len(a)], b[1])
    <3>1. CASE b[1].g = LastG(a) + 1
      BY <2>5, <2>6, <3>1 DEF Adjacent
    <3>2. CASE Len(a) = MaxGOPCap
      <4>1. \E s \in Slots : Len(gops[s]) = MaxGOPCap /\ gops[s][MaxGOPCap] = a[Len(a)]
        BY <1>0, <3>2
      <4>2. a[Len(a)].g < b[1].g
        BY <2>5, <2>6 DEF Adjacent
      <4> QED BY <4>1, <4>2
    <3> QED BY <2>5, <3>1, <3>2 DEF Adjacent
  <2> DEFINE m == Len(a)
             n == Len(b)
  <2>10. m \in Nat \ {0} /\ n \in Nat \ {0} /\ Len(r) = m + n
    BY <2>4, <2>8
  <2> HIDE DEF a, b, r, m, n
  <2>11. ASSUME NEW i \in 1 .. Len(r) - 1 PROVE Follows(r[i], r[i + 1])
    <3>0. i \in Nat /\ 1 <= i /\ i < m + n
      BY <2>10
    <3>1. CASE i < m
      <4>1. i \in 1 .. m /\ i + 1 \in 1 .. m /\ i \in 1 .. m - 1
        BY <2>10, <3>0, <3>1
      <4>2. r[i] = a[i] /\ r[i + 1] = a[i + 1]
        BY <2>8, <4>1 DEF m
      <4>3. a[i].g < a[i + 1].g /\ a[i + 1].g = a[i].g + 1
        BY <2>6, <4>1 DEF m
      <4> QED BY <4>2, <4>3
    <3>2. CASE i = m
      <4>1. m \in 1 .. m /\ 1 \in 1 .. n
        BY <2>10
      <4>2. r[m] = a[m] /\ r[m + 1] = b[1]
        BY <2>8, <4>1 DEF m, n
      <4> QED BY <2>9, <3>2, <4>2 DEF m
    <3>3. CASE i > m
      <4> DEFINE j == i - m
      <4>1. j \in 1 .. n - 1 /\ j \in 1 .. n /\ j + 1 \in 1 .. n /\ i = m + j /\ i + 1 = m + (j + 1)
        BY <2>10, <3>0, <3>3
      <4> HIDE DEF j
      <4>2. r[m + j] = b[j] /\ r[m + (j + 1)] = b[j + 1]
        BY <2>8, <4>1 DEF m, n
      <4>3. b[j].g < b[j + 1].g /\ b[j + 1].g = b[j].g + 1
        BY <2>7, <4>1 DEF n
      <4>4. r[i] = b[j] /\ r[i + 1] = b[j + 1]
        BY <4>1, <4>2
      <4> QED BY <4>3, <4>4
    <3> QED BY <2>10, <3>0, <3>1, <3>2, <3>3
  <2>12. r[Len(r)].g = LastG(b)
    <3>1. n \in 1 .. n
      BY <2>10
    <3>2. r[m + n] = b[n]
      BY <2>8, <3>1 DEF m, n
    <3> QED BY <2>7, <2>10, <3>2 DEF n
  <2> QED BY <2>1, <2>2, <2>11, <2>12 DEF b
<1> QED
  BY <1>0, <1>2, <1>4, <1>5, SendOrder

\* With gop_num 1 or 2, for any group capacity and any publisher, GopCache.sendTo
\* replays to a late player the last groups that were started, as many as the ring
\* holds, in publication order, missing packets only where a group was full.
THEOREM LastGroupsReplayed == Count \in {1, 2} => (Spec => []ReplaysLastGroups)
<1> SUFFICES ASSUME Count \in {1, 2} PROVE Spec => []ReplaysLastGroups
  OBVIOUS
<1>1. Init => ReplayInv
  <2> SUFFICES ASSUME Init PROVE ReplayInv
    OBVIOUS
  <2>1. RingInv /\ start = FALSE /\ num = 0 /\ starts = <<>> /\ Len(<<>>) = 0
    BY RingInit DEF Init
  <2>2. NoCrash /\ GroupsContiguous
    BY DEF Init, NoCrash, GroupsContiguous
  <2>3. \A i \in Slots : Len(gops[i]) <= MaxGOPCap
    <3>1. \A i \in Slots : Len(gops[i]) = 0
      BY DEF Init
    <3> QED BY <3>1, GopAssumption
  <2>4. num = IF Len(starts) < Count THEN Len(starts) ELSE Count
    BY <2>1
  <2> QED BY <2>1, <2>2, <2>3, <2>4 DEF ReplayInv, SmallInv, OpenGroup, InOrder
<1>2. ReplayInv /\ [Next]_vars => ReplayInv'
  BY OrderStep
<1>3. ReplayInv => ReplaysLastGroups
  BY StartsAtLast, ReplayOrdered DEF ReplaysLastGroups, ReplayInv, SmallInv
<1> QED
  BY <1>1, <1>2, <1>3, PTL DEF Spec

-----------------------------------------------------------------------------
(***************************************************************************)
(* What the ring holds, for every gop_num.                                 *)
(***************************************************************************)

\* A write leaves in every slot packets of that slot, and the packet written.
LEMMA GopWriteContents ==
  ASSUME RingInv, NEW p \in Packet, NEW h, GopWrite(p, h)
  PROVE  \A i \in Slots : \A j \in DOMAIN gops'[i] :
           \/ gops'[i][j] = p
           \/ j \in DOMAIN gops[i] /\ gops'[i][j] = gops[i][j]
<1> USE DEF RingInv, TypeOK
<1>1. CASE UNCHANGED gopVars
  BY <1>1 DEF gopVars
<1>2. CASE StartGroup(p)
  <2>1. gops' = [gops EXCEPT ![nextindex] = <<p>>]
    BY <1>2, FirstWrite DEF StartGroup
  <2>2. \A j \in DOMAIN <<p>> : <<p>>[j] = p
    OBVIOUS
  <2> QED
    BY <2>1, <2>2
<1>3. CASE ExtendGroup(p)
  <2>1. Current \in Slots
    BY GopAssumption, RingNext DEF Current, Slots
  <2> DEFINE a == gops[Current]
  <2>2. a \in Seq(Packet)
    BY <2>1
  <2>3. \A j \in DOMAIN Append(a, p) :
          \/ Append(a, p)[j] = p
          \/ j \in DOMAIN a /\ Append(a, p)[j] = a[j]
    BY <2>2
  <2>4. PICK b \in {a, Append(a, p)} : gops' = [gops EXCEPT ![Current] = b]
    BY <1>3, <2>1, <2>2, GroupWrite DEF ExtendGroup
  <2>5. \A i \in Slots : gops'[i] = IF i = Current THEN b ELSE gops[i]
    BY <2>1, <2>4
  <2> QED
    BY <2>1, <2>3, <2>4, <2>5
<1> QED
  BY <1>1, <1>2, <1>3 DEF GopWrite

\* Once a key frame has been seen, some header has been parsed.
HeaderKnown == start => header # "nil"

VideoInv == RingInv /\ RingHoldsVideo /\ HeaderKnown

\* An audio packet handed to the ring comes before the first key frame and is refused.
LEMMA VideoStep == VideoInv /\ [Next]_vars => VideoInv'
<1> SUFFICES ASSUME VideoInv, [Next]_vars PROVE VideoInv'
  OBVIOUS
<1>1. RingInv'
  BY RingStep DEF VideoInv
<1>2. ASSUME UNCHANGED gopVars PROVE RingHoldsVideo'
  BY <1>2 DEF VideoInv, RingHoldsVideo, gopVars
<1>3. CASE Write
  <2>1. PICK k \in Input :
           /\ k \in Kinds
           /\ Published(k) \in Packet
           /\ header' = DemuxH(k)
           /\ IF Route(k, DemuxH(k)) = "gop"
                THEN GopWrite(Published(k), DemuxH(k)) ELSE UNCHANGED gopVars
    BY <1>3, WriteKind DEF VideoInv
  <2>2. k # "nil" /\ Published(k).kind = k
    BY <2>1 DEF Kinds, Published
  <2>3. header # "nil" => header' # "nil"
    BY <2>1, <2>2 DEF DemuxH
  <2>4. CASE UNCHANGED gopVars
    BY <1>1, <1>2, <2>3, <2>4 DEF VideoInv, HeaderKnown, gopVars
  <2>5. CASE ~UNCHANGED gopVars
    <3>1. Route(k, DemuxH(k)) = "gop" /\ GopWrite(Published(k), DemuxH(k))
      BY <2>1, <2>5
    <3>2. (IsVideo(k) /\ DemuxH(k) = "key") \/ start
      BY <2>2, <2>5, <3>1 DEF GopWrite
    <3>3. header' # "nil"
      BY <2>1, <2>3, <3>2 DEF VideoInv, HeaderKnown
    <3>4. IsVideo(k)
      BY <2>1, <3>1, <3>3 DEF Route, Kinds
    <3>5. RingHoldsVideo'
      BY <2>1, <2>2, <3>1, <3>4, GopWriteContents DEF VideoInv, RingHoldsVideo
    <3> QED
      BY <1>1, <3>3, <3>5 DEF VideoInv, HeaderKnown
  <2> QED
    BY <2>4, <2>5
<1>4. CASE SendToHls \/ HlsDemux \/ UNCHANGED vars
  <2>1. UNCHANGED gopVars /\ header' = header
    BY <1>4 DEF SendToHls, HlsDemux, vars
  <2> QED
    BY <1>1, <1>2, <2>1 DEF VideoInv, HeaderKnown, gopVars
<1> QED
  BY <1>3, <1>4 DEF Next

\* For every gop_num, audio never enters the ring, whatever packets are too short to
\* parse and whichever header they inherit.
THEOREM OnlyVideoCached == Spec => []RingHoldsVideo
<1>1. Init => VideoInv
  <2> SUFFICES ASSUME Init PROVE VideoInv
    OBVIOUS
  <2>1. HeaderKnown
    BY DEF Init, HeaderKnown
  <2>2. RingHoldsVideo
    BY DEF Init, RingHoldsVideo
  <2> QED
    BY <2>1, <2>2, RingInit DEF VideoInv
<1>2. VideoInv => RingHoldsVideo
  BY DEF VideoInv
<1> QED
  BY <1>1, <1>2, VideoStep, PTL DEF Spec

-----------------------------------------------------------------------------
(***************************************************************************)
(* The special slots.  A packet is exposed when the HLS sender has         *)
(* rewritten it, holds it, or may be handed it from the ring; a packet in  *)
(* a special slot is never exposed, because Write files each packet in one *)
(* place only and SpecialCache.Send sends a copy.                          *)
(***************************************************************************)
Exposed ==
  demuxed \cup {q.n : q \in shared}
          \cup {gops[ij[1]][ij[2]].n : ij \in {x \in Slots \X Nat : x[2] \in DOMAIN gops[x[1]]}}

Unexposed(s) == \A i \in DOMAIN s : s[i].n <= published /\ s[i].n \notin Exposed

SpecialInv ==
  /\ RingInv
  /\ \A n \in Exposed : n <= published
  /\ Unexposed(metadata) /\ Unexposed(videoSeq) /\ Unexposed(audioSeq)

\* The numbers in the ring are exposed.
LEMMA RingExposed ==
  ASSUME RingInv, NEW i \in Slots, NEW j \in DOMAIN gops[i]
  PROVE  gops[i][j].n \in Exposed
<1>1. gops[i] \in Seq(Packet)
  BY DEF RingInv, TypeOK
<1>2. j \in Nat
  BY <1>1
<1>3. <<i, j>> \in {x \in Slots \X Nat : x[2] \in DOMAIN gops[x[1]]}
  BY <1>2
<1> QED
  BY <1>3 DEF Exposed

\* A write exposes at most the packet it publishes.
LEMMA WriteExposes ==
  ASSUME RingInv, NEW p \in Packet, NEW h, GopWrite(p, h), UNCHANGED <<shared, demuxed>>
  PROVE  Exposed' \subseteq Exposed \cup {p.n}
<1> SUFFICES ASSUME NEW n \in Exposed', n # p.n PROVE n \in Exposed
  OBVIOUS
<1>1. CASE n \in demuxed' \cup {q.n : q \in shared'}
  BY <1>1 DEF Exposed
<1>2. CASE n \notin demuxed' \cup {q.n : q \in shared'}
  <2>1. PICK i \in Slots, j \in Nat : j \in DOMAIN gops'[i] /\ n = gops'[i][j].n
    BY <1>2 DEF Exposed
  <2>2. j \in DOMAIN gops[i] /\ gops'[i][j] = gops[i][j]
    BY <2>1, GopWriteContents
  <2> QED
    BY <2>1, <2>2, RingExposed
<1> QED
  BY <1>1, <1>2

\* Handing the ring to the HLS sender and rewriting what it holds expose no packet
\* that was not exposed before.
LEMMA HlsExposes ==
  ASSUME RingInv, SendToHls \/ HlsDemux
  PROVE  Exposed' \subseteq Exposed
<1> SUFFICES ASSUME NEW n \in Exposed' PROVE n \in Exposed
  OBVIOUS
<1>1. gops' = gops
  BY DEF SendToHls, HlsDemux, gopVars
<1>2. CASE SendToHls
  <2>1. CASE \E q \in shared' : n = q.n /\ q \notin shared
    <3>1. PICK q \in shared' : n = q.n /\ q \notin shared
      BY <2>1
    <3>2. PICK i \in Slots : q \in SharedByArray(gops[i])
      BY <1>2, <3>1 DEF SendToHls, SharedBySpecial
    <3>3. PICK j \in DOMAIN gops[i] : q = gops[i][j]
      BY <3>2 DEF SharedByArray
    <3> QED
      BY <3>1, <3>3, RingExposed
  <2>2. CASE ~\E q \in shared' : n = q.n /\ q \notin shared
    <3>1. demuxed' = demuxed
      BY <1>2 DEF SendToHls
    <3> QED
      BY <1>1, <2>2, <3>1 DEF Exposed
  <2> QED
    BY <2>1, <2>2
<1>3. CASE HlsDemux
  <2>1. PICK p \in shared : demuxed' = demuxed \cup {p.n} /\ shared' = shared \ {p}
    BY <1>3 DEF HlsDemux
  <2> QED
    BY <1>1, <2>1 DEF Exposed
<1> QED
  BY <1>2, <1>3

\* Every step leaves the special slots unexposed.
LEMMA SpecialStep == SpecialInv /\ [Next]_vars => SpecialInv'
<1> SUFFICES ASSUME SpecialInv, [Next]_vars PROVE SpecialInv'
  OBVIOUS
<1>1. RingInv'
  BY RingStep DEF SpecialInv
<1>2. published \in Nat /\ Exposed \subseteq Nat
  <2>1. published \in Nat /\ demuxed \subseteq Nat /\ \A q \in shared : q.n \in Nat
    BY DEF SpecialInv, RingInv, TypeOK, Packet
  <2>2. ASSUME NEW i \in Slots, NEW j \in DOMAIN gops[i] PROVE gops[i][j].n \in Nat
    <3>1. gops[i] \in Seq(Packet)
      BY DEF SpecialInv, RingInv, TypeOK
    <3>2. gops[i][j] \in Packet
      BY <3>1
    <3> QED
      BY <3>2 DEF Packet
  <2> QED
    BY <2>1, <2>2 DEF Exposed
<1>3. \A s \in {metadata, videoSeq, audioSeq} : \A i \in DOMAIN s : s[i].n \in Nat
  <2>1. \A s \in {metadata, videoSeq, audioSeq} : s \in Seq(Packet)
    BY DEF SpecialInv, RingInv, TypeOK, IsSpecial
  <2>2. \A s \in {metadata, videoSeq, audioSeq} : \A i \in DOMAIN s : s[i] \in Packet
    BY <2>1
  <2> QED
    BY <2>2 DEF Packet
<1>4. CASE Write
  <2>1. PICK k \in Input :
           /\ Published(k) \in Packet
           /\ published' = published + 1
           /\ metadata' = IF Route(k, DemuxH(k)) = "metadata" THEN <<Published(k)>> ELSE metadata
           /\ videoSeq' = IF Route(k, DemuxH(k)) = "videoSeq" THEN <<Published(k)>> ELSE videoSeq
           /\ audioSeq' = IF Route(k, DemuxH(k)) = "audioSeq" THEN <<Published(k)>> ELSE audioSeq
           /\ IF Route(k, DemuxH(k)) = "gop"
                THEN GopWrite(Published(k), DemuxH(k)) ELSE UNCHANGED gopVars
           /\ UNCHANGED <<shared, demuxed>>
    BY <1>4, WriteKind DEF SpecialInv
  <2>2. Published(k).n = published + 1
    BY DEF Published
  <2>3. CASE Route(k, DemuxH(k)) = "gop"
    <3>1. Exposed' \subseteq Exposed \cup {published + 1}
      BY <2>1, <2>2, <2>3, WriteExposes DEF SpecialInv
    <3>2. UNCHANGED <<metadata, videoSeq, audioSeq>>
      BY <2>1, <2>3
    <3>3. \A n \in Exposed' : n <= published'
      BY <1>2, <2>1, <3>1 DEF SpecialInv
    <3>4. Unexposed(metadata)' /\ Unexposed(videoSeq)' /\ Unexposed(audioSeq)'
      BY <1>2, <1>3, <2>1, <3>1, <3>2 DEF SpecialInv, Unexposed
    <3> QED
      BY <1>1, <3>3, <3>4 DEF SpecialInv
  <2>4. CASE Route(k, DemuxH(k)) # "gop"
    <3>1. Exposed' = Exposed
      BY <2>1, <2>4 DEF Exposed, gopVars
    <3>2. \A n \in Exposed' : n <= published' /\ n # published + 1
      BY <1>2, <2>1, <3>1 DEF SpecialInv
    <3>3. DOMAIN <<Published(k)>> = {1} /\ <<Published(k)>>[1].n = published + 1
      BY <2>2
    <3>4. Unexposed(metadata)'
      BY <1>2, <1>3, <2>1, <3>1, <3>2, <3>3 DEF SpecialInv, Unexposed
    <3>5. Unexposed(videoSeq)'
      BY <1>2, <1>3, <2>1, <3>1, <3>2, <3>3 DEF SpecialInv, Unexposed
    <3>6. Unexposed(audioSeq)'
      BY <1>2, <1>3, <2>1, <3>1, <3>2, <3>3 DEF SpecialInv, Unexposed
    <3> QED
      BY <1>1, <3>2, <3>4, <3>5, <3>6 DEF SpecialInv
  <2> QED
    BY <2>3, <2>4
<1>5. CASE SendToHls \/ HlsDemux \/ UNCHANGED vars
  <2>1. UNCHANGED <<metadata, videoSeq, audioSeq, published>>
    BY <1>5 DEF SendToHls, HlsDemux, vars, specialVars
  <2>2. UNCHANGED vars => Exposed' = Exposed
    BY DEF vars, gopVars, Exposed
  <2>3. Exposed' \subseteq Exposed
    BY <1>5, <2>2, HlsExposes DEF SpecialInv
  <2> QED
    BY <1>1, <2>1, <2>3 DEF SpecialInv, Unexposed
<1> QED
  BY <1>4, <1>5 DEF Next

\* For every gop_num, the metadata and the sequence headers a late player is sent are
\* the published ones: the HLS sender never rewrites a packet of a special slot.
THEOREM SpecialNeverRewritten == Spec => []SpecialIntact
<1>1. Init => SpecialInv
  <2> SUFFICES ASSUME Init PROVE SpecialInv
    OBVIOUS
  <2>1. Exposed = {}
    BY DEF Init, Exposed
  <2>2. Unexposed(metadata) /\ Unexposed(videoSeq) /\ Unexposed(audioSeq)
    BY DEF Init, Unexposed
  <2> QED
    BY <2>1, <2>2, RingInit DEF SpecialInv
<1>2. SpecialInv => SpecialIntact
  BY DEF SpecialInv, SpecialIntact, Unexposed, Exposed
<1> QED
  BY <1>1, <1>2, SpecialStep, PTL DEF Spec
=============================================================================
