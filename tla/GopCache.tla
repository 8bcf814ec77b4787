------------------------------ MODULE GopCache ------------------------------
(***************************************************************************)
(* protocol/rtmp/cache: what a stream keeps for players that join late.    *)
(* Cache.Write files each published packet in the metadata, videoSeq or    *)
(* audioSeq slot or in the ring of the last Count groups of pictures;      *)
(* Cache.Send replays metadata, videoSeq, audioSeq and the ring, oldest    *)
(* group first.  One goroutine (Stream.TransStart) does both, so Write and *)
(* Send never overlap; the HLS sender, a goroutine of its own, rewrites    *)
(* the packets it was sent.                                                *)
(***************************************************************************)
EXTENDS Integers, Sequences

CONSTANTS
  Count,        \* configuration gop_num
  MaxGOPCap,    \* packets per group (1024 in the code)
  Input,        \* kinds of packets the publisher sends
  MaxPackets    \* bound on the packets published, for TLC

Kinds == {"metadata", "vseq", "key", "inter", "shortVideo", "aseq", "audio", "emptyAudio"}

ASSUME GopAssumption ==
  /\ Count \in Nat \ {0}
  /\ MaxGOPCap \in Nat \ {0}
  /\ MaxPackets \in Nat
  /\ Input \subseteq Kinds

VARIABLES
  \* GopCache; an unallocated (nil) slot is <<>>, an allocated one never is:
  \* the packet that allocates it is stored in the same call
  start, num, nextindex, gops,
  \* SpecialCache slots, <<>> while not full
  metadata, videoSeq, audioSeq,
  header,       \* p.Header of TransStart's packet variable, kept between reads
  crashed,      \* a nil slot was dereferenced: the process is gone
  \* history: packets published, packets handed to writeToArray, first packet
  \* of every group
  published, stored, starts,
  shared,       \* cached packets whose *Packet the HLS sender holds too
  demuxed       \* packets whose Data the HLS sender has rewritten in place

gopVars == <<start, num, nextindex, gops, crashed, stored, starts>>
specialVars == <<metadata, videoSeq, audioSeq>>
vars == <<gopVars, specialVars, header, published, shared, demuxed>>

Slots == 0 .. Count - 1
\* A packet: its kind, its place among all published and among all stored packets.
Packet == [kind : Kinds, n : Nat, g : Nat]
IsSpecial(s) == s \in Seq(Packet) /\ Len(s) <= 1

\* The type of the state.  nextindex always indexes the ring and num never
\* passes Count.
TypeOK ==
  /\ start \in BOOLEAN /\ crashed \in BOOLEAN
  /\ num \in 0 .. Count
  /\ nextindex \in Slots
  /\ gops \in [Slots -> Seq(Packet)]
  /\ IsSpecial(metadata) /\ IsSpecial(videoSeq) /\ IsSpecial(audioSeq)
  /\ header \in Kinds \cup {"nil"}
  /\ published \in Nat /\ stored \in Nat
  /\ starts \in Seq(Nat)
  /\ shared \subseteq Packet /\ demuxed \subseteq Nat

Init ==
  /\ start = FALSE /\ num = 0 /\ nextindex = 0
  /\ gops = [i \in Slots |-> <<>>]
  /\ metadata = <<>> /\ videoSeq = <<>> /\ audioSeq = <<>>
  /\ header = "nil"
  /\ crashed = FALSE
  /\ published = 0 /\ stored = 0 /\ starts = <<>>
  /\ shared = {} /\ demuxed = {}

IsVideo(k) == k \in {"vseq", "key", "inter", "shortVideo"}

-----------------------------------------------------------------------------
\* array.write: a full group refuses the packet; nobody looks at the error.
ArrayWrite(a, p) == IF Len(a) >= MaxGOPCap THEN a ELSE Append(a, p)

\* writeToArray with startNew: take the slot at nextindex, allocated or reset.
StartGroup(p) ==
  /\ gops' = [gops EXCEPT ![nextindex] = ArrayWrite(<<>>, p)]
  /\ num' = IF gops[nextindex] = <<>> THEN num + 1 ELSE num
  /\ nextindex' = (nextindex + 1) % Count
  /\ UNCHANGED crashed

\* Mutant: the slot that the next group will take.
OffByOneCurrent == nextindex

\* writeToArray without startNew: the slot at nextindex + 1.
Current == (nextindex + 1) % Count

ExtendGroup(p) ==
  /\ gops' = [gops EXCEPT ![Current] =
                IF @ = <<>> THEN @ ELSE ArrayWrite(@, p)]
  /\ crashed' = (gops[Current] = <<>>)
  /\ UNCHANGED <<num, nextindex>>

\* GopCache.Write: nothing is kept before the first key frame.
GopWrite(p, h) ==
  LET isKey == IsVideo(p.kind) /\ h = "key"
  IN  IF isKey \/ start
      THEN /\ start' = TRUE
           /\ stored' = stored + 1
           /\ starts' = IF isKey THEN Append(starts, p.n) ELSE starts
           /\ IF isKey THEN StartGroup(p) ELSE ExtendGroup(p)
      ELSE UNCHANGED gopVars

-----------------------------------------------------------------------------
\* VirReader.Read: DemuxH sets p.Header; a packet too short to parse keeps the
\* header of the packet before it (TransStart reuses one variable).
TooShort(k) == k \in {"shortVideo", "emptyAudio"}

DemuxH(k) == IF TooShort(k) THEN header ELSE k

\* Cache.Write: where a packet with header h goes.
Route(k, h) ==
  CASE k = "metadata" -> "metadata"
    [] k # "metadata" /\ ~IsVideo(k) ->
         IF h = "nil" THEN "gop" ELSE IF h = "aseq" THEN "audioSeq" ELSE "none"
    [] IsVideo(k) -> IF h = "vseq" THEN "videoSeq" ELSE IF h = "nil" THEN "none" ELSE "gop"

Write ==
  /\ ~crashed
  /\ published < MaxPackets
  /\ \E k \in Input :
       LET h == DemuxH(k)
           p == [kind |-> k, n |-> published + 1, g |-> stored + 1]
           to == Route(k, h)
       IN  /\ header' = h
           /\ published' = published + 1
           /\ metadata' = IF to = "metadata" THEN <<p>> ELSE metadata
           /\ videoSeq' = IF to = "videoSeq" THEN <<p>> ELSE videoSeq
           /\ audioSeq' = IF to = "audioSeq" THEN <<p>> ELSE audioSeq
           /\ IF to = "gop" THEN GopWrite(p, h) ELSE UNCHANGED gopVars
  /\ UNCHANGED <<shared, demuxed>>

-----------------------------------------------------------------------------
\* Mutant: the newest group first.
NewestFirstSendIndex(i) == (Current + i) % Count

\* sendTo: the slots in the order they are replayed.
SendIndex(i) ==
  LET index == (Current - num + 1) + i
  IN  IF index < 0 THEN index + Count ELSE index

\* What a player that joins now is sent from the ring.
Replay ==
  LET upTo[i \in 0 .. num] ==
        IF i = 0 THEN <<>> ELSE upTo[i - 1] \o gops[SendIndex(i - 1)]
  IN  upTo[num]

\* Mutant: the cached packet itself is handed over.
AliasedBySpecial(s) == {s[i] : i \in DOMAIN s}

\* SpecialCache.Send hands over a copy; array.send hands over the cached packet.
SharedBySpecial(s) == {}

SharedByArray(a) == {a[i] : i \in DOMAIN a}

\* Cache.Send to the HLS writer when it is first reached by TransStart.
SendToHls ==
  /\ ~crashed
  /\ shared' = shared \cup SharedBySpecial(metadata) \cup SharedBySpecial(videoSeq)
                      \cup SharedBySpecial(audioSeq)
                      \cup UNION {SharedByArray(gops[i]) : i \in Slots}
  /\ UNCHANGED <<gopVars, specialVars, header, published, demuxed>>

\* The HLS sender: it skips metadata, gives up on a packet it cannot parse, and
\* otherwise Demux strips the tag header and parse replaces Data.
HlsDemux ==
  /\ \E p \in shared :
       /\ ~TooShort(p.kind)
       /\ p.kind # "metadata"
       /\ demuxed' = demuxed \cup {p.n}
       /\ shared' = shared \ {p}
  /\ UNCHANGED <<gopVars, specialVars, header, published>>

Next == Write \/ SendToHls \/ HlsDemux

Spec == Init /\ [][Next]_vars

-----------------------------------------------------------------------------
\* No write dereferences a slot that was never allocated (the panic would end
\* the process: TransStart does not recover).
NoCrash == ~crashed

\* Every group in the ring begins with the packet that was taken for a key frame
\* and holds consecutive packets: a refused packet (group full) is only ever the
\* tail of its group, never a hole inside it.
GroupsContiguous ==
  \A i \in Slots :
    gops[i] # <<>> =>
      /\ \E j \in DOMAIN starts : starts[j] = gops[i][1].n
      /\ \A j \in DOMAIN gops[i] : gops[i][j].g = gops[i][1].g + j - 1

\* The replay begins at the Count-th newest group start, or at the first.
StartsAtLastGroups ==
  starts # <<>> =>
    LET kept == IF Len(starts) < Count THEN Len(starts) ELSE Count
    IN  Replay # <<>> /\ Replay[1].n = starts[Len(starts) - kept + 1]

\* The replay is in publication order and misses a packet only where a group
\* reached MaxGOPCap; it ends with the newest stored packet unless the newest
\* group is full.
ReplayInOrder ==
  /\ \A i \in 1 .. Len(Replay) - 1 :
       /\ Replay[i].g < Replay[i + 1].g
       /\ Replay[i + 1].g = Replay[i].g + 1
            \/ \E s \in Slots : Len(gops[s]) = MaxGOPCap /\ gops[s][MaxGOPCap] = Replay[i]
  /\ Replay # <<>> =>
       Replay[Len(Replay)].g = stored \/ Len(gops[Current]) = MaxGOPCap

\* A late player is replayed the last groups, as many as the ring holds, each
\* without holes and all in publication order.
ReplaysLastGroups == StartsAtLastGroups /\ ReplayInOrder /\ GroupsContiguous

\* Audio never enters the ring, not even a packet with an unparsable header: the
\* only audio Cache.Write lets through comes before the first parsed header,
\* hence before the first key frame.
RingHoldsVideo == \A i \in Slots : \A j \in DOMAIN gops[i] : IsVideo(gops[i][j].kind)

\* Metadata and sequence headers reach every later player as published, although
\* the HLS sender rewrites what it is sent (SpecialCache.Send sends a copy).
SpecialIntact ==
  \A s \in {metadata, videoSeq, audioSeq} : \A i \in DOMAIN s : s[i].n \notin demuxed
=============================================================================
