----------------------------- MODULE HlsSegments -----------------------------
(***************************************************************************)
(* protocol/hls: how one Source cuts its stream into segments and lists    *)
(* them.  The sender goroutine (Source.SendPacket) turns packets into      *)
(* transport stream segments, collects audio in the audioCache, cuts at    *)
(* key frames and stores each segment with TSCacheItem.SetItem; an HTTP    *)
(* handler builds the playlist from the same list and map at the same      *)
(* time, without the lock the type has.  A step of either is one access to *)
(* the list or to the map.                                                 *)
(***************************************************************************)
EXTENDS Integers, Sequences, FiniteSets

CONSTANTS
  Duration,        \* a segment is cut from this length on (3000 ms)
  MaxTSCacheNum,   \* segments kept (3)
  CacheMaxFrames,  \* audio frames collected before they are written (6)
  TsMod,           \* time stamps wrap here (uint32: 2^32)
  FirstTs,         \* time stamps a stream may start from
  Steps,           \* by how much the time stamp may grow from packet to packet
  MaxPackets,      \* bound on the media packets taken, for TLC
  MaxClock,        \* bound on the wall clock, in seconds
  None             \* no item, no list element

ASSUME HlsAssumption ==
  /\ Duration \in Nat /\ MaxPackets \in Nat /\ MaxClock \in Nat
  /\ MaxTSCacheNum \in Nat \ {0} /\ CacheMaxFrames \in Nat \ {0}
  /\ TsMod \in Nat \ {0} /\ FirstTs \subseteq 0 .. TsMod - 1 /\ Steps \subseteq Nat

VARIABLES
  sender,            \* the sender goroutine's location
  gettedSpecific,    \* an AAC sequence header was parsed
  published, lastTs, \* media packets taken so far, and the last one's time stamp
  opened, btswriter, \* the segment being written (opened: not nil)
  frames,            \* audioCache
  hasSetFirstTs, firstTimestamp, lastTimestamp,   \* status
  seq,               \* Source.seq
  clock,             \* time.Now().Unix()
  item, keyPkt,      \* cut: the segment to store, and the key frame that ended it
  evicted,           \* SetItem: the element removed from the list
  ll, lm,            \* TSCacheItem: the list of names, and the map from names
  http, playlist,    \* GenM3U8PlayList: its list element; the segments written so far
  reused             \* history: two segments were cut in the same second

segVars == <<opened, btswriter, frames>>
statVars == <<hasSetFirstTs, firstTimestamp, lastTimestamp>>
inVars == <<gettedSpecific, published, lastTs>>
cutVars == <<seq, clock, item, keyPkt, evicted, reused>>
httpVars == <<http, playlist>>
vars == <<sender, inVars, segVars, statVars, cutVars, ll, lm, httpVars>>

\* A packet: its kind, its number among the media packets, its time stamp.
Packet == [kind : {"key", "inter", "audio"}, n : Nat, ts : Nat]

\* A segment: SeqNum, the second in its name, Duration, and the packets in Data.
TSItem == [seqNum : Nat, name : Nat, duration : Int, data : Seq(Packet)]
ASSUME NilAssumption == None \notin TSItem

Seconds == 0 .. MaxClock

\* An element of ll is the segment it was pushed for; its value is the name.
Element == [seqNum : Nat, name : Seconds]

\* The type of the state; the audio cache is never full between two packets.
TypeOK ==
  /\ sender \in {"loop", "remove", "delete", "store", "push", "mux", "ended", "crashed"}
  /\ gettedSpecific \in BOOLEAN /\ opened \in BOOLEAN /\ hasSetFirstTs \in BOOLEAN
  /\ reused \in BOOLEAN
  /\ published \in Nat /\ lastTs \in Nat /\ seq \in Nat /\ clock \in Seconds
  /\ firstTimestamp \in Nat /\ lastTimestamp \in Nat
  /\ btswriter \in Seq(Packet) /\ frames \in Seq(Packet)
  /\ Len(frames) < CacheMaxFrames
  /\ item \in TSItem \cup {None} /\ keyPkt \in Packet \cup {None}
  /\ evicted \in Element \cup {None}
  /\ ll \in Seq(Element)
  /\ lm \in [Seconds -> TSItem \cup {None}]
  /\ http \in [at : {"idle", "visit", "next", "crashed"}, e : Element \cup {None}]
  /\ playlist \in Seq(Nat)

Init ==
  /\ sender = "loop" /\ gettedSpecific = FALSE /\ published = 0 /\ lastTs \in FirstTs
  /\ opened = FALSE /\ btswriter = <<>> /\ frames = <<>>
  /\ hasSetFirstTs = FALSE /\ firstTimestamp = 0 /\ lastTimestamp = 0
  /\ seq = 0 /\ clock = 0 /\ item = None /\ keyPkt = None /\ evicted = None /\ reused = FALSE
  /\ ll = <<>> /\ lm = [s \in Seconds |-> None]
  /\ http = [at |-> "idle", e |-> None] /\ playlist = <<>>

-----------------------------------------------------------------------------
\* SendPacket: a packet that leaves no trace: metadata, the end of a sequence, a codec
\* that is not supported or a body that does not parse, a video sequence header.
Skip ==
  /\ sender = "loop"
  /\ UNCHANGED vars

\* SendPacket: a tag too short to demux ends the goroutine.
DemuxError ==
  /\ sender = "loop"
  /\ sender' = "ended"
  /\ UNCHANGED <<inVars, segVars, statVars, cutVars, ll, lm, httpVars>>

\* parse: the AAC sequence header, without which no audio frame parses.
AacSeqHeader ==
  /\ sender = "loop"
  /\ gettedSpecific' = TRUE
  /\ UNCHANGED <<sender, published, lastTs, segVars, statVars, cutVars, ll, lm, httpVars>>

\* The next media packet is taken from the queue.
Take ==
  /\ sender = "loop"
  /\ published < MaxPackets
  /\ published' = published + 1
  /\ \E d \in Steps : lastTs' = (lastTs + d) % TsMod
  /\ UNCHANGED gettedSpecific

Incoming(k) == [kind |-> k, n |-> published + 1, ts |-> lastTs']

\* status.update.
Update ==
  /\ hasSetFirstTs' = TRUE
  /\ firstTimestamp' = IF hasSetFirstTs THEN firstTimestamp ELSE lastTs'
  /\ lastTimestamp' = lastTs'

DurationMs == lastTimestamp - firstTimestamp

\* audioCache.Cache: one more frame is collected.
Cache(p) == Append(frames, p)

\* tsMux of an audio frame: collected, and written when the cache is full.
MuxAudio(p) ==
  IF Len(Cache(p)) >= CacheMaxFrames
  THEN btswriter' = btswriter \o Cache(p) /\ frames' = <<>>
  ELSE frames' = Cache(p) /\ UNCHANGED btswriter

\* Audio: lost until a key frame has opened the first segment.
SendAudio ==
  /\ Take
  /\ gettedSpecific /\ opened
  /\ Update /\ MuxAudio(Incoming("audio"))
  /\ UNCHANGED <<sender, opened, cutVars, ll, lm, httpVars>>

\* A video frame that is no key frame: written at once.
SendInter ==
  /\ Take
  /\ opened
  /\ Update /\ btswriter' = Append(btswriter, Incoming("inter"))
  /\ UNCHANGED <<sender, opened, frames, cutVars, ll, lm, httpVars>>

\* A key frame that cuts nothing: it opens the first segment, or comes too early.
SendKey ==
  /\ Take
  /\ opened => DurationMs < Duration
  /\ opened' = TRUE
  /\ Update /\ btswriter' = Append(btswriter, Incoming("key"))
  /\ UNCHANGED <<sender, frames, cutVars, ll, lm, httpVars>>

\* Mutant: the collected audio stays in the cache.
NoFlushCut ==
  /\ Take
  /\ opened /\ DurationMs >= Duration
  /\ keyPkt' = Incoming("key")
  /\ seq' = seq + 1
  /\ clock' \in {clock, clock + 1} \cap Seconds
  /\ reused' = (reused \/ (seq # 0 /\ clock' = clock))
  /\ item' = [seqNum |-> seq + 1, name |-> clock', duration |-> DurationMs, data |-> btswriter]
  /\ sender' = IF Len(ll) = MaxTSCacheNum THEN "remove" ELSE "store"
  /\ UNCHANGED <<evicted, segVars, statVars, ll, lm, httpVars>>

\* cut: the collected audio is written, and the segment copied, under the name of the
\* current second.
Cut ==
  /\ Take
  /\ opened /\ DurationMs >= Duration
  /\ keyPkt' = Incoming("key")
  /\ frames' = <<>>
  /\ seq' = seq + 1
  /\ clock' \in {clock, clock + 1} \cap Seconds
  /\ reused' = (reused \/ (seq # 0 /\ clock' = clock))
  /\ item' = [seqNum |-> seq + 1, name |-> clock', duration |-> DurationMs,
              data |-> btswriter \o frames]
  /\ sender' = IF Len(ll) = MaxTSCacheNum THEN "remove" ELSE "store"
  /\ UNCHANGED <<evicted, opened, btswriter, statVars, ll, lm, httpVars>>

\* Mutant: the front's item is deleted from the map before its name leaves the list.
MapFirstSetItemRemove ==
  /\ sender = "remove"
  /\ \/ lm[Head(ll).name] # None /\ lm' = [lm EXCEPT ![Head(ll).name] = None]
        /\ UNCHANGED <<ll, evicted, sender>>
     \/ lm[Head(ll).name] = None /\ ll' = Tail(ll) /\ evicted' = Head(ll) /\ sender' = "delete"
        /\ UNCHANGED lm
  /\ UNCHANGED <<inVars, segVars, statVars, seq, clock, item, keyPkt, reused, httpVars>>

\* SetItem on a full list: its front is removed from the list ...
SetItemRemove ==
  /\ sender = "remove"
  /\ evicted' = Head(ll)
  /\ ll' = Tail(ll)
  /\ sender' = "delete"
  /\ UNCHANGED <<inVars, segVars, statVars, seq, clock, item, keyPkt, reused, lm, httpVars>>

\* ... and its name from the map.
SetItemDelete ==
  /\ sender = "delete"
  /\ lm' = [lm EXCEPT ![evicted.name] = None]
  /\ evicted' = None
  /\ sender' = "store"
  /\ UNCHANGED <<inVars, segVars, statVars, seq, clock, item, keyPkt, reused, ll, httpVars>>

\* SetItem: the item is stored under its name ...
SetItemStore ==
  /\ sender = "store"
  /\ lm' = [lm EXCEPT ![item.name] = item]
  /\ sender' = "push"
  /\ UNCHANGED <<inVars, segVars, statVars, cutVars, ll, httpVars>>

\* ... and the name is appended to the list.
SetItemPush ==
  /\ sender = "push"
  /\ ll' = Append(ll, [seqNum |-> item.seqNum, name |-> item.name])
  /\ sender' = "mux"
  /\ UNCHANGED <<inVars, segVars, statVars, cutVars, lm, httpVars>>

\* Mutant: the first time stamp is not forgotten.
StaleResetAndNew == UNCHANGED firstTimestamp /\ lastTimestamp' = keyPkt.ts

\* status.resetAndNew, then the update for the key frame.
ResetAndNew == firstTimestamp' = keyPkt.ts /\ lastTimestamp' = keyPkt.ts

\* The rest of cut and of the iteration: the key frame begins the next segment.
MuxKey ==
  /\ sender = "mux"
  /\ btswriter' = <<keyPkt>>
  /\ ResetAndNew
  /\ hasSetFirstTs' = TRUE
  /\ item' = None /\ keyPkt' = None
  /\ sender' = "loop"
  /\ UNCHANGED <<inVars, opened, frames, seq, clock, evicted, reused, ll, lm, httpVars>>

Sender ==
  \/ Skip \/ DemuxError \/ AacSeqHeader \/ SendAudio \/ SendInter \/ SendKey \/ Cut
  \/ SetItemRemove \/ SetItemDelete \/ SetItemStore \/ SetItemPush \/ MuxKey

-----------------------------------------------------------------------------
\* GenM3U8PlayList, called by the HTTP handler: the first element ...
PlaylistFront ==
  /\ http.at = "idle"
  /\ \/ ll # <<>> /\ http' = [at |-> "visit", e |-> Head(ll)]
     \/ ll = <<>> /\ UNCHANGED http
  /\ playlist' = <<>>
  /\ UNCHANGED <<sender, inVars, segVars, statVars, cutVars, ll, lm>>

\* ... its item, which is listed unless the map no longer has it ...
PlaylistVisit ==
  /\ http.at = "visit"
  /\ http' = [http EXCEPT !.at = "next"]
  /\ playlist' = IF lm[http.e.name] = None THEN playlist
                 ELSE Append(playlist, lm[http.e.name].seqNum)
  /\ UNCHANGED <<sender, inVars, segVars, statVars, cutVars, ll, lm>>

\* ... and the next element: none after the last, and none after an element that was
\* removed meanwhile, which container/list unlinks from its list.
PlaylistNext ==
  /\ http.at = "next"
  /\ \/ \E i \in 1 .. Len(ll) - 1 :
          ll[i] = http.e /\ http' = [at |-> "visit", e |-> ll[i + 1]]
     \/ /\ \A i \in 1 .. Len(ll) - 1 : ll[i] # http.e
        /\ http' = [at |-> "idle", e |-> None]
  /\ UNCHANGED <<sender, inVars, segVars, statVars, cutVars, ll, lm, playlist>>

GenM3U8PlayList == PlaylistFront \/ PlaylistVisit \/ PlaylistNext

\* The map is read and written without a lock: when a lookup meets a write, the Go
\* runtime may abort the process ("concurrent map read and map write").
MapRace ==
  /\ sender \in {"delete", "store"} /\ http.at = "visit"
  /\ sender' = "crashed" /\ http' = [http EXCEPT !.at = "crashed"]
  /\ UNCHANGED <<inVars, segVars, statVars, cutVars, ll, lm, playlist>>

Next == Sender \/ GenM3U8PlayList \/ MapRace

Spec == Init /\ [][Next]_vars

-----------------------------------------------------------------------------
\* SetItem keeps the list and the map in step: between two packets the list names the
\* newest segments, oldest first, as many as are kept, and the map has these and no
\* others, so that every name a playlist lists can be fetched.  (If two segments were
\* cut in one second they share a name; nothing is claimed of that history.)
ListMapAgree ==
  ~reused /\ sender = "loop" =>
    /\ Len(ll) = IF seq < MaxTSCacheNum THEN seq ELSE MaxTSCacheNum
    /\ \A i \in DOMAIN ll :
         /\ ll[i].seqNum = seq - Len(ll) + i
         /\ lm[ll[i].name] # None /\ lm[ll[i].name].seqNum = ll[i].seqNum
    /\ Cardinality({s \in Seconds : lm[s] # None}) = Len(ll)

\* A playlist built while SetItem runs may be short but has no gap: it is announced by
\* the sequence number of its first segment, and a player counts on from there.  It is
\* built from a list and a map that agree.
PlaylistContiguous ==
  /\ ListMapAgree
  /\ ~reused => \A i \in 1 .. Len(playlist) - 1 : playlist[i + 1] = playlist[i] + 1

\* The segments that exist: stored, about to be stored, and being written.
Stored == {lm[s] : s \in {t \in Seconds : lm[t] # None}}
Finished == Stored \cup ({item} \ {None})
Numbers(d) == {d[i].n : i \in DOMAIN d}
FirstN(d) == CHOOSE n \in Numbers(d) : \A m \in Numbers(d) : n <= m
LastN(d) == CHOOSE n \in Numbers(d) : \A m \in Numbers(d) : m <= n
Of(d, n) == CHOOSE p \in {d[i] : i \in DOMAIN d} : p.n = n

\* The media packets are partitioned into segments: each holds every packet from its
\* key frame up to the next segment's, the collected audio included, once, and audio
\* and video each in their order.
SegmentsAdjoin ==
  /\ \A a \in Finished :
       /\ a.data # <<>> /\ a.data[1].kind = "key" /\ a.data[1].n = FirstN(a.data)
       /\ Numbers(a.data) = FirstN(a.data) .. LastN(a.data)
       /\ \A i, j \in DOMAIN a.data :
            i < j /\ (a.data[i].kind = "audio" <=> a.data[j].kind = "audio")
              => a.data[i].n < a.data[j].n
  /\ \A a, b \in Finished : b.seqNum = a.seqNum + 1 => FirstN(b.data) = LastN(a.data) + 1
  /\ sender = "loop" /\ btswriter # <<>> =>
       \A a \in Finished : a.seqNum = seq => FirstN(btswriter) = LastN(a.data) + 1

\* The length a playlist gives for a segment is the time between the first and the
\* last packet that are in it.
DurationCovers ==
  \A a \in Finished :
    a.duration = Of(a.data, LastN(a.data)).ts - Of(a.data, FirstN(a.data)).ts
=============================================================================
