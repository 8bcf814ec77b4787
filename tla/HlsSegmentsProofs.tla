-------------------------- MODULE HlsSegmentsProofs --------------------------
(* Proofs about the HLS segmenter, for every duration, list size, audio      *)
(* cache, time stamp width and number of packets: the segments partition the *)
(* packets and cover their time, and a playlist built while SetItem runs has *)
(* no gap.                                                                   *)
EXTENDS HlsSegments, FiniteSetTheorems, TLAPS

-----------------------------------------------------------------------------
(* Part 1: what is in a segment                                              *)

InOrder(d) ==
  \A i, j \in DOMAIN d :
    i < j /\ (d[i].kind = "audio" <=> d[j].kind = "audio") => d[i].n < d[j].n

Once(d) == \A i, j \in DOMAIN d : d[i].n = d[j].n => i = j

(* What was written (b) and the audio still collected (f) are together the   *)
(* packets from the key frame up to hi, each once.                           *)
Parts(b, f, hi) ==
  /\ b \in Seq(Packet) /\ f \in Seq(Packet) /\ hi \in Nat
  /\ b # <<>> /\ b[1].kind = "key"
  /\ \A i \in DOMAIN b : b[1].n <= b[i].n /\ b[i].n <= hi
  /\ \A j \in DOMAIN f : b[1].n <= f[j].n /\ f[j].n <= hi /\ f[j].kind = "audio"
  /\ \A m \in b[1].n .. hi : m \in Numbers(b) \cup Numbers(f)
  /\ InOrder(b) /\ InOrder(f) /\ Once(b) /\ Once(f)
  /\ \A i \in DOMAIN b, j \in DOMAIN f :
       b[i].n # f[j].n /\ (b[i].kind = "audio" => b[i].n < f[j].n)

(* The packet numbered hi, if it is there, has time stamp t.                 *)
Stamped(d, hi, t) == \A i \in DOMAIN d : d[i].n = hi => d[i].ts = t

(* A finished segment: nothing collected is missing, and its length is the   *)
(* time from its first to its last packet.                                   *)
Spans(a, hi) ==
  /\ Parts(a.data, <<>>, hi)
  /\ \E t \in Nat : Stamped(a.data, hi, t) /\ a.duration = t - a.data[1].ts

Sound(a) == a \in TSItem /\ a.seqNum <= seq /\ \E hi \in Nat : Spans(a, hi)

Idle == sender \in {"loop", "ended"}
Cutting == sender \in {"remove", "delete", "store", "push", "mux"}

(* The segment being written.                                                *)
OpenPart ==
  /\ ~opened => btswriter = <<>> /\ frames = <<>> /\ Finished = {} /\ seq = 0
  /\ opened => hasSetFirstTs
  /\ hasSetFirstTs => opened
  /\ Idle => item = None
  /\ Idle /\ opened =>
       /\ Parts(btswriter, frames, published)
       /\ firstTimestamp = btswriter[1].ts
       /\ Stamped(btswriter, published, lastTimestamp) /\ Stamped(frames, published, lastTimestamp)
       /\ \A a \in Finished : a.seqNum = seq => Spans(a, btswriter[1].n - 1)
  /\ Cutting =>
       /\ opened /\ frames = <<>>
       /\ item \in TSItem /\ item.seqNum = seq /\ item.name \in Seconds
       /\ keyPkt \in Packet /\ keyPkt.kind = "key" /\ keyPkt.n = published
       /\ \A a \in Finished : a.seqNum = seq => Spans(a, published - 1)

(* Consecutive segments adjoin.                                              *)
Adjoin ==
  \A a, b \in Finished : b.seqNum = a.seqNum + 1 => Spans(a, b.data[1].n - 1)

(* What a step of SetItem or of the handler has in its hands exists.         *)
AtHand ==
  /\ sender = "delete" => evicted \in Element
  /\ sender = "remove" => ll # <<>>
  /\ http.at \in {"visit", "next"} => http.e \in Element
  /\ sender = "crashed" => http.at = "crashed"

AllSound == \A a \in Finished : Sound(a)

SegInv == TypeOK /\ AtHand /\ OpenPart /\ Adjoin /\ AllSound

-----------------------------------------------------------------------------
(* Part 2: the list, the map and the playlist                                *)

Pending == sender \in {"remove", "delete", "store", "push"}
Pushed == IF Pending THEN seq - 1 ELSE seq
Least(m, n) == IF m < n THEN m ELSE n
Mapped == {s \in Seconds : lm[s] # None}

(* SetItem keeps the list at its length.                                     *)
Length ==
  /\ sender \in {"loop", "ended", "mux"} => Len(ll) = Least(seq, MaxTSCacheNum)
  /\ sender = "remove" => Len(ll) = MaxTSCacheNum /\ seq - 1 >= MaxTSCacheNum
  /\ sender \in {"delete", "store", "push"} => Len(ll) = Least(seq - 1, MaxTSCacheNum - 1)
  /\ Pending => seq >= 1

(* The segment to store has the newest name and number.                      *)
Newest ==
  /\ Cutting => item.name = clock
  /\ \A s \in Mapped : lm[s].name = s /\ s <= clock
  /\ sender \in {"remove", "delete", "store"} => clock \notin Mapped

(* The list names consecutive segments, whose names grow.                    *)
Listed ==
  /\ \A i \in DOMAIN ll :
       /\ ll[i].seqNum = Pushed - Len(ll) + i
       /\ ll[i].name <= clock /\ (Pending => ll[i].name < clock)
  /\ \A i, j \in DOMAIN ll : i < j => ll[i].name < ll[j].name
  /\ sender = "delete" =>
       /\ evicted.seqNum = Pushed - Len(ll)
       /\ evicted.name \in Mapped
       /\ \A i \in DOMAIN ll : evicted.name < ll[i].name

(* The map has what the list names.                                          *)
MapHas ==
  /\ \A i \in DOMAIN ll : ll[i].name \in Mapped /\ lm[ll[i].name].seqNum = ll[i].seqNum
  /\ sender = "push" => lm[clock] = item
  /\ Cardinality(Mapped) = Len(ll) + (IF sender \in {"delete", "push"} THEN 1 ELSE 0)

(* The element the handler is at, and what it has written.                   *)
AtElement ==
  http.at \in {"visit", "next"} =>
    /\ 1 <= http.e.seqNum /\ http.e.seqNum <= Pushed
    /\ http.e.name <= clock /\ (Pending => http.e.name < clock)
    /\ http.e.name \in Mapped => lm[http.e.name].seqNum = http.e.seqNum

Written ==
  /\ \A i \in 1 .. Len(playlist) - 1 : playlist[i + 1] = playlist[i] + 1
  /\ http.at = "visit" /\ playlist # <<>> => playlist[Len(playlist)] = http.e.seqNum - 1
  /\ http.at = "next" /\ playlist # <<>> =>
       playlist[Len(playlist)] = http.e.seqNum \/ \A i \in DOMAIN ll : ll[i] # http.e

InStep == Length /\ Newest /\ Listed /\ MapHas /\ AtElement /\ Written

ListInv ==
  ~reused => /\ \A i \in 1 .. Len(playlist) - 1 : playlist[i + 1] = playlist[i] + 1
             /\ sender # "crashed" => InStep

-----------------------------------------------------------------------------
(* Sequences                                                                 *)

LEMMA AppendIs ==
  ASSUME NEW S, NEW s \in Seq(S), NEW e \in S
  PROVE  /\ Append(s, e) \in Seq(S) /\ Append(s, e) # <<>>
         /\ Len(s) \in Nat /\ Len(Append(s, e)) = Len(s) + 1
         /\ DOMAIN s = 1 .. Len(s) /\ DOMAIN Append(s, e) = 1 .. Len(s) + 1
         /\ \A i \in 1 .. Len(s) : Append(s, e)[i] = s[i]
         /\ Append(s, e)[Len(s) + 1] = e
OBVIOUS

LEMMA JoinIs ==
  ASSUME NEW S, NEW s \in Seq(S), NEW t \in Seq(S)
  PROVE  /\ s \o t \in Seq(S)
         /\ Len(s) \in Nat /\ Len(t) \in Nat /\ Len(s \o t) = Len(s) + Len(t)
         /\ DOMAIN s = 1 .. Len(s) /\ DOMAIN t = 1 .. Len(t) /\ DOMAIN (s \o t) = 1 .. Len(s) + Len(t)
         /\ \A i \in 1 .. Len(s) : (s \o t)[i] = s[i]
         /\ \A i \in Len(s) + 1 .. Len(s) + Len(t) : (s \o t)[i] = t[i - Len(s)]
OBVIOUS

LEMMA TailIs ==
  ASSUME NEW S, NEW s \in Seq(S), s # <<>>
  PROVE  /\ Tail(s) \in Seq(S) /\ Head(s) = s[1] /\ s[1] \in S
         /\ Len(s) \in Nat /\ Len(s) >= 1 /\ Len(Tail(s)) = Len(s) - 1
         /\ DOMAIN s = 1 .. Len(s) /\ DOMAIN Tail(s) = 1 .. Len(s) - 1
         /\ \A i \in 1 .. Len(s) - 1 : Tail(s)[i] = s[i + 1]
OBVIOUS

LEMMA SeqIs ==
  ASSUME NEW S, NEW s \in Seq(S)
  PROVE  /\ Len(s) \in Nat /\ DOMAIN s = 1 .. Len(s)
         /\ \A i \in 1 .. Len(s) : s[i] \in S
         /\ s # <<>> => Len(s) >= 1
OBVIOUS

LEMMA EmptyIs ==
  ASSUME NEW S
  PROVE  <<>> \in Seq(S) /\ Len(<<>>) = 0 /\ DOMAIN <<>> = {}
OBVIOUS

LEMMA SingleIs ==
  ASSUME NEW S, NEW e \in S
  PROVE  <<e>> \in Seq(S) /\ Len(<<e>>) = 1 /\ DOMAIN <<e>> = {1} /\ <<e>>[1] = e /\ <<e>> # <<>>
OBVIOUS

-----------------------------------------------------------------------------
(* The segment being written grows by one packet                             *)

LEMMA WriteVideo ==
  ASSUME NEW b, NEW f, NEW hi, Parts(b, f, hi), NEW p \in Packet, p.n = hi + 1, p.kind # "audio"
  PROVE  Parts(Append(b, p), f, hi + 1) /\ Append(b, p)[1] = b[1]
<1> DEFINE c == Append(b, p)
           L == Len(b)
<1>1. /\ b \in Seq(Packet) /\ f \in Seq(Packet) /\ hi \in Nat /\ hi + 1 \in Nat
      /\ b # <<>> /\ b[1].kind = "key"
  BY DEF Parts
<1>2. /\ c \in Seq(Packet) /\ c # <<>> /\ L \in Nat /\ L >= 1
      /\ DOMAIN b = 1 .. L /\ DOMAIN c = 1 .. L + 1
      /\ \A i \in 1 .. L : c[i] = b[i]
      /\ c[L + 1] = p
      /\ \A i \in 1 .. L : b[i] \in Packet
      /\ DOMAIN f = 1 .. Len(f) /\ \A j \in DOMAIN f : f[j] \in Packet
  BY <1>1, AppendIs, SeqIs
<1>3. \A i \in DOMAIN b : b[i].n \in Nat /\ b[1].n <= b[i].n /\ b[i].n <= hi
  BY <1>2 DEF Parts, Packet
<1>4. \A j \in DOMAIN f : f[j].n \in Nat /\ b[1].n <= f[j].n /\ f[j].n <= hi /\ f[j].kind = "audio"
  BY <1>2 DEF Parts, Packet
<1>5. c[1] = b[1] /\ b[1].n \in Nat /\ b[1].n <= hi
  BY <1>2, <1>3
<1> HIDE DEF c, L
<1>6. \A i \in DOMAIN c : c[1].n <= c[i].n /\ c[i].n <= hi + 1
  BY <1>1, <1>2, <1>3, <1>5
<1>7. \A j \in DOMAIN f : c[1].n <= f[j].n /\ f[j].n <= hi + 1 /\ f[j].kind = "audio"
  BY <1>1, <1>4, <1>5
<1>8. \A m \in c[1].n .. hi + 1 : m \in Numbers(c) \cup Numbers(f)
  <2>1. \A m \in b[1].n .. hi : m \in Numbers(b) \cup Numbers(f)
    BY DEF Parts
  <2>2. Numbers(b) \subseteq Numbers(c)
    BY <1>2 DEF Numbers
  <2>3. hi + 1 \in Numbers(c)
    BY <1>2 DEF Numbers
  <2>4. \A m \in b[1].n .. hi + 1 : m = hi + 1 \/ m \in b[1].n .. hi
    BY <1>1, <1>5
  <2> QED BY <1>5, <2>1, <2>2, <2>3, <2>4
<1>9. InOrder(c)
  <2> SUFFICES ASSUME NEW i \in 1 .. L + 1, NEW j \in 1 .. L + 1, i < j,
                      c[i].kind = "audio" <=> c[j].kind = "audio"
               PROVE  c[i].n < c[j].n
    BY <1>2 DEF InOrder
  <2>1. CASE j = L + 1
    BY <1>1, <1>2, <1>3, <2>1
  <2>2. CASE j # L + 1
    <3>1. i \in DOMAIN b /\ j \in DOMAIN b /\ c[i] = b[i] /\ c[j] = b[j]
      BY <1>2, <2>2
    <3> QED BY <3>1 DEF Parts, InOrder
  <2> QED BY <2>1, <2>2
<1>10. Once(c)
  <2> SUFFICES ASSUME NEW i \in 1 .. L + 1, NEW j \in 1 .. L + 1, c[i].n = c[j].n
               PROVE  i = j
    BY <1>2 DEF Once
  <2>1. CASE i # L + 1 /\ j # L + 1
    <3>1. i \in DOMAIN b /\ j \in DOMAIN b /\ c[i] = b[i] /\ c[j] = b[j]
      BY <1>2, <2>1
    <3> QED BY <3>1 DEF Parts, Once
  <2>2. CASE i = L + 1 \/ j = L + 1
    BY <1>1, <1>2, <1>3, <2>2
  <2> QED BY <2>1, <2>2
<1>11. \A i \in DOMAIN c, j \in DOMAIN f :
         c[i].n # f[j].n /\ (c[i].kind = "audio" => c[i].n < f[j].n)
  <2> SUFFICES ASSUME NEW i \in 1 .. L + 1, NEW j \in DOMAIN f
               PROVE  c[i].n # f[j].n /\ (c[i].kind = "audio" => c[i].n < f[j].n)
    BY <1>2
  <2>1. CASE i = L + 1
    BY <1>1, <1>2, <1>4, <2>1
  <2>2. CASE i # L + 1
    <3>1. i \in DOMAIN b /\ c[i] = b[i]
      BY <1>2, <2>2
    <3> QED BY <3>1 DEF Parts
  <2> QED BY <2>1, <2>2
<1>12. InOrder(f) /\ Once(f) /\ c[1].kind = "key"
  BY <1>1, <1>5 DEF Parts
<1>13. Parts(c, f, hi + 1)
  BY <1>1, <1>2, <1>6, <1>7, <1>8, <1>9, <1>10, <1>11, <1>12 DEF Parts
<1> QED BY <1>5, <1>13 DEF c

LEMMA CollectAudio ==
  ASSUME NEW b, NEW f, NEW hi, Parts(b, f, hi), NEW p \in Packet, p.n = hi + 1, p.kind = "audio"
  PROVE  Parts(b, Append(f, p), hi + 1)
<1> DEFINE g == Append(f, p)
           L == Len(f)
<1>1. /\ b \in Seq(Packet) /\ f \in Seq(Packet) /\ hi \in Nat /\ hi + 1 \in Nat
      /\ b # <<>> /\ b[1].kind = "key" /\ InOrder(b) /\ Once(b)
  BY DEF Parts
<1>2. /\ g \in Seq(Packet) /\ L \in Nat
      /\ DOMAIN f = 1 .. L /\ DOMAIN g = 1 .. L + 1
      /\ \A i \in 1 .. L : g[i] = f[i]
      /\ g[L + 1] = p
      /\ \A i \in 1 .. L : f[i] \in Packet
      /\ Len(b) \in Nat /\ Len(b) >= 1 /\ DOMAIN b = 1 .. Len(b) /\ \A j \in DOMAIN b : b[j] \in Packet
  BY <1>1, AppendIs, SeqIs
<1>3. \A i \in DOMAIN b : b[i].n \in Nat /\ b[1].n <= b[i].n /\ b[i].n <= hi
  BY <1>2 DEF Parts, Packet
<1>4. \A j \in DOMAIN f : f[j].n \in Nat /\ b[1].n <= f[j].n /\ f[j].n <= hi /\ f[j].kind = "audio"
  BY <1>2 DEF Parts, Packet
<1>5. b[1].n \in Nat /\ b[1].n <= hi
  BY <1>2, <1>3
<1> HIDE DEF g, L
<1>6. \A i \in DOMAIN b : b[1].n <= b[i].n /\ b[i].n <= hi + 1
  BY <1>1, <1>3
<1>7. \A j \in DOMAIN g : b[1].n <= g[j].n /\ g[j].n <= hi + 1 /\ g[j].kind = "audio"
  BY <1>1, <1>2, <1>4, <1>5
<1>8. \A m \in b[1].n .. hi + 1 : m \in Numbers(b) \cup Numbers(g)
  <2>1. \A m \in b[1].n .. hi : m \in Numbers(b) \cup Numbers(f)
    BY DEF Parts
  <2>2. Numbers(f) \subseteq Numbers(g)
    BY <1>2 DEF Numbers
  <2>3. hi + 1 \in Numbers(g)
    BY <1>2 DEF Numbers
  <2>4. \A m \in b[1].n .. hi + 1 : m = hi + 1 \/ m \in b[1].n .. hi
    BY <1>1, <1>5
  <2> QED BY <2>1, <2>2, <2>3, <2>4
<1>9. InOrder(g)
  <2> SUFFICES ASSUME NEW i \in 1 .. L + 1, NEW j \in 1 .. L + 1, i < j
               PROVE  g[i].n < g[j].n
    BY <1>2 DEF InOrder
  <2>1. CASE j = L + 1
    <3>1. g[j] = p /\ i \in 1 .. L
      <4>1. L \in Nat
        BY <1>2
      <4>2. i \in 1 .. L
        BY <2>1, <4>1
      <4> QED BY <1>2, <2>1, <4>2
    <3>2. g[i] = f[i] /\ i \in DOMAIN f
      BY <1>2, <3>1
    <3>3. f[i].n \in Nat /\ f[i].n <= hi /\ p.n = hi + 1 /\ hi \in Nat
      BY <1>1, <1>4, <3>2
    <3>4. f[i].n < p.n
      BY <3>3
    <3> QED BY <3>1, <3>2, <3>4
  <2>2. CASE j # L + 1
    <3>1. i \in DOMAIN f /\ j \in DOMAIN f /\ g[i] = f[i] /\ g[j] = f[j]
      BY <1>2, <2>2
    <3> QED BY <1>4, <3>1 DEF Parts, InOrder
  <2> QED BY <2>1, <2>2
<1>10. Once(g)
  <2> SUFFICES ASSUME NEW i \in 1 .. L + 1, NEW j \in 1 .. L + 1, g[i].n = g[j].n
               PROVE  i = j
    BY <1>2 DEF Once
  <2>1. CASE i # L + 1 /\ j # L + 1
    <3>1. i \in DOMAIN f /\ j \in DOMAIN f /\ g[i] = f[i] /\ g[j] = f[j]
      BY <1>2, <2>1
    <3> QED BY <3>1 DEF Parts, Once
  <2>2. CASE i = L + 1 \/ j = L + 1
    <3>1. \A k \in 1 .. L + 1 : k = L + 1 \/ k \in 1 .. L
      <4>1. L \in Nat
        BY <1>2
      <4> QED BY <4>1
    <3>2. g[L + 1].n = hi + 1 /\ hi \in Nat
      BY <1>1, <1>2
    <3>3. \A k \in 1 .. L : g[k].n \in Nat /\ g[k].n <= hi
      BY <1>2, <1>4
    <3>4. \A k \in 1 .. L : g[k].n # hi + 1
      BY <3>2, <3>3
    <3> QED BY <2>2, <3>1, <3>2, <3>4
  <2> QED BY <2>1, <2>2
<1>11. \A i \in DOMAIN b, j \in DOMAIN g :
         b[i].n # g[j].n /\ (b[i].kind = "audio" => b[i].n < g[j].n)
  <2> SUFFICES ASSUME NEW i \in DOMAIN b, NEW j \in 1 .. L + 1
               PROVE  b[i].n # g[j].n /\ (b[i].kind = "audio" => b[i].n < g[j].n)
    BY <1>2
  <2>1. CASE j = L + 1
    BY <1>1, <1>2, <1>3, <2>1
  <2>2. CASE j # L + 1
    <3>1. j \in DOMAIN f /\ g[j] = f[j]
      BY <1>2, <2>2
    <3> QED BY <3>1 DEF Parts
  <2> QED BY <2>1, <2>2
<1>12. Parts(b, g, hi + 1)
  BY <1>1, <1>2, <1>6, <1>7, <1>8, <1>9, <1>10, <1>11 DEF Parts
<1> QED BY <1>12 DEF g

(* The collected audio is written: after the video, in its own order.        *)
LEMMA WriteCollected ==
  ASSUME NEW b \in Seq(Packet), NEW f \in Seq(Packet), NEW hi, Parts(b, f, hi)
  PROVE  Parts(b \o f, <<>>, hi) /\ (b \o f)[1] = b[1]
<1> DEFINE c == b \o f
           L == Len(b)
           M == Len(f)
<1>1. /\ b \in Seq(Packet) /\ f \in Seq(Packet) /\ hi \in Nat
      /\ b # <<>> /\ b[1].kind = "key"
  BY DEF Parts
<1>2. /\ c \in Seq(Packet) /\ L \in Nat /\ L >= 1 /\ M \in Nat
      /\ DOMAIN b = 1 .. L /\ DOMAIN f = 1 .. M /\ DOMAIN c = 1 .. L + M
      /\ \A i \in 1 .. L : c[i] = b[i]
      /\ \A i \in L + 1 .. L + M : c[i] = f[i - L]
      /\ \A i \in 1 .. L : b[i] \in Packet
      /\ \A j \in 1 .. M : f[j] \in Packet
  BY <1>1, JoinIs, SeqIs
<1> HIDE DEF c, L, M
<1>3. \A i \in 1 .. L + M : \/ i \in 1 .. L /\ c[i] = b[i]
                            \/ i \in L + 1 .. L + M /\ i - L \in 1 .. M /\ c[i] = f[i - L]
  BY <1>2
<1>4. \A i \in 1 .. L : b[i].n \in Nat /\ b[1].n <= b[i].n /\ b[i].n <= hi
  BY <1>2 DEF Parts, Packet
<1>5. \A j \in 1 .. M : f[j].n \in Nat /\ b[1].n <= f[j].n /\ f[j].n <= hi /\ f[j].kind = "audio"
  BY <1>2 DEF Parts, Packet
<1>6. c[1] = b[1] /\ c # <<>>
  BY <1>2
<1>7. \A i \in DOMAIN c : c[1].n <= c[i].n /\ c[i].n <= hi
  BY <1>2, <1>3, <1>4, <1>5, <1>6
<1>8. \A m \in c[1].n .. hi : m \in Numbers(c) \cup Numbers(<<>>)
  <2>1. \A m \in b[1].n .. hi : m \in Numbers(b) \cup Numbers(f)
    BY DEF Parts
  <2>2. Numbers(b) \subseteq Numbers(c)
    BY <1>2 DEF Numbers
  <2>3. Numbers(f) \subseteq Numbers(c)
    <3> SUFFICES ASSUME NEW j \in 1 .. M PROVE f[j].n \in Numbers(c)
      BY <1>2 DEF Numbers
    <3>1. L + j \in DOMAIN c /\ c[L + j] = f[j]
      BY <1>2
    <3> QED BY <3>1 DEF Numbers
  <2> QED BY <1>6, <2>1, <2>2, <2>3
<1>9. \A i \in 1 .. L, j \in 1 .. M : b[i].n # f[j].n /\ (b[i].kind = "audio" => b[i].n < f[j].n)
  BY <1>2 DEF Parts
<1>10. InOrder(c)
  <2> SUFFICES ASSUME NEW i \in 1 .. L + M, NEW j \in 1 .. L + M, i < j,
                      c[i].kind = "audio" <=> c[j].kind = "audio"
               PROVE  c[i].n < c[j].n
    BY <1>2 DEF InOrder
  <2>1. CASE i \in 1 .. L /\ j \in 1 .. L
    <3>1. c[i] = b[i] /\ c[j] = b[j] /\ i \in DOMAIN b /\ j \in DOMAIN b
      BY <1>2, <2>1
    <3> QED BY <3>1 DEF Parts, InOrder
  <2>2. CASE i \in 1 .. L /\ j \in L + 1 .. L + M
    <3>1. c[i] = b[i] /\ c[j] = f[j - L] /\ j - L \in 1 .. M
      BY <1>2, <2>2
    <3> QED BY <1>5, <1>9, <2>2, <3>1
  <2>3. CASE i \in L + 1 .. L + M /\ j \in L + 1 .. L + M
    <3>1. c[i] = f[i - L] /\ c[j] = f[j - L] /\ i - L \in DOMAIN f /\ j - L \in DOMAIN f /\ i - L < j - L
      BY <1>2, <2>3
    <3> QED BY <3>1 DEF Parts, InOrder
  <2> QED BY <1>2, <2>1, <2>2, <2>3
<1>11. Once(c)
  <2> SUFFICES ASSUME NEW i \in 1 .. L + M, NEW j \in 1 .. L + M, c[i].n = c[j].n
               PROVE  i = j
    BY <1>2 DEF Once
  <2>1. CASE i \in 1 .. L /\ j \in 1 .. L
    <3>1. c[i] = b[i] /\ c[j] = b[j] /\ i \in DOMAIN b /\ j \in DOMAIN b
      BY <1>2, <2>1
    <3> QED BY <3>1 DEF Parts, Once
  <2>2. CASE i \in 1 .. L /\ j \in L + 1 .. L + M
    <3>1. c[i] = b[i] /\ c[j] = f[j - L] /\ j - L \in 1 .. M
      BY <1>2, <2>2
    <3> QED BY <1>9, <2>2, <3>1
  <2>3. CASE i \in L + 1 .. L + M /\ j \in 1 .. L
    <3>1. c[j] = b[j] /\ c[i] = f[i - L] /\ i - L \in 1 .. M
      BY <1>2, <2>3
    <3> QED BY <1>9, <2>3, <3>1
  <2>4. CASE i \in L + 1 .. L + M /\ j \in L + 1 .. L + M
    <3>1. c[i] = f[i - L] /\ c[j] = f[j - L] /\ i - L \in DOMAIN f /\ j - L \in DOMAIN f
      BY <1>2, <2>4
    <3>2. i - L = j - L
      BY <3>1 DEF Parts, Once
    <3> QED BY <1>2, <3>2
  <2> QED BY <1>2, <2>1, <2>2, <2>3, <2>4
<1>12. InOrder(<<>>) /\ Once(<<>>) /\ <<>> \in Seq(Packet) /\ DOMAIN <<>> = {}
  BY EmptyIs DEF InOrder, Once
<1>13. Parts(c, <<>>, hi)
  BY <1>1, <1>2, <1>6, <1>7, <1>8, <1>10, <1>11, <1>12 DEF Parts
<1> QED BY <1>6, <1>13 DEF c

(* A segment begins with its key frame.                                      *)
LEMMA BeginSegment ==
  ASSUME NEW p \in Packet, p.kind = "key"
  PROVE  Parts(<<p>>, <<>>, p.n) /\ <<p>>[1] = p
<1>1. <<p>> \in Seq(Packet) /\ DOMAIN <<p>> = {1} /\ <<p>>[1] = p /\ <<p>> # <<>>
  BY SingleIs
<1>2. <<>> \in Seq(Packet) /\ DOMAIN <<>> = {}
  BY EmptyIs
<1>3. p.n \in Nat
  BY DEF Packet
<1>4. Numbers(<<p>>) = {p.n}
  BY <1>1 DEF Numbers
<1>5. InOrder(<<p>>) /\ InOrder(<<>>) /\ Once(<<p>>) /\ Once(<<>>)
  BY <1>1, <1>2 DEF InOrder, Once
<1>6. \A m \in p.n .. p.n : m = p.n
  BY <1>3
<1> QED BY <1>1, <1>2, <1>3, <1>4, <1>5, <1>6 DEF Parts

(* What the properties say of a segment, in terms of Parts.                  *)
LEMMA FirstIs ==
  ASSUME NEW b, NEW f, NEW hi, Parts(b, f, hi)
  PROVE  FirstN(b) = b[1].n /\ b[1].n \in Nat /\ b[1].n <= hi
<1>1. b \in Seq(Packet) /\ b # <<>>
  BY DEF Parts
<1>2. DOMAIN b = 1 .. Len(b) /\ Len(b) \in Nat /\ Len(b) >= 1 /\ \A i \in DOMAIN b : b[i] \in Packet
  BY <1>1, SeqIs
<1>3. \A m \in Numbers(b) : m \in Nat /\ b[1].n <= m
  BY <1>2 DEF Numbers, Packet, Parts
<1>4. 1 \in DOMAIN b /\ b[1].n \in Numbers(b) /\ b[1].n \in Nat
  BY <1>2, <1>3 DEF Numbers
<1>5. \A m \in Numbers(b) : (\A k \in Numbers(b) : m <= k) => m = b[1].n
  BY <1>3, <1>4
<1> QED BY <1>3, <1>4, <1>5 DEF FirstN, Parts

LEMMA LastIs ==
  ASSUME NEW d, NEW hi, Parts(d, <<>>, hi)
  PROVE  LastN(d) = hi /\ Numbers(d) = FirstN(d) .. hi /\ hi \in Numbers(d)
<1>1. FirstN(d) = d[1].n /\ d[1].n \in Nat /\ d[1].n <= hi /\ hi \in Nat
  BY FirstIs DEF Parts
<1>2. d \in Seq(Packet)
  BY DEF Parts
<1>3. \A i \in DOMAIN d : d[i] \in Packet
  BY <1>2
<1>4. \A m \in Numbers(d) : m \in Nat /\ d[1].n <= m /\ m <= hi
  BY <1>3 DEF Numbers, Packet, Parts
<1>5. Numbers(<<>>) = {}
  BY DEF Numbers
<1>6. \A m \in d[1].n .. hi : m \in Numbers(d)
  BY <1>5 DEF Parts
<1>7. hi \in Numbers(d)
  BY <1>1, <1>6
<1>8. \A m \in Numbers(d) : (\A k \in Numbers(d) : k <= m) => m = hi
  BY <1>1, <1>4, <1>7
<1>9. LastN(d) = hi
  BY <1>4, <1>7, <1>8 DEF LastN
<1>10. Numbers(d) = d[1].n .. hi
  <2>1. \A m \in Numbers(d) : m \in d[1].n .. hi
    BY <1>1, <1>4
  <2> QED BY <1>6, <2>1
<1> QED BY <1>1, <1>7, <1>9, <1>10

LEMMA OfIs ==
  ASSUME NEW d, NEW hi, Parts(d, <<>>, hi), NEW i \in DOMAIN d
  PROVE  Of(d, d[i].n) = d[i]
<1>1. \A j \in DOMAIN d : d[j].n = d[i].n => j = i
  BY DEF Parts, Once
<1>2. \A p \in {d[j] : j \in DOMAIN d} : p.n = d[i].n => p = d[i]
  BY <1>1
<1> QED BY <1>2 DEF Of

-----------------------------------------------------------------------------
(* Part 1: the steps preserve SegInv                                         *)

LEMMA SegInitially == Init => SegInv
<1> SUFFICES ASSUME Init PROVE SegInv
  OBVIOUS
<1>0. Finished = {}
  BY DEF Init, Finished, Stored
<1>1. TypeOK
  <2>1. lastTs \in Nat /\ clock \in Seconds
    BY HlsAssumption DEF Init, Seconds
  <2>2. http \in [at : {"idle", "visit", "next", "crashed"}, e : Element \cup {None}]
    BY DEF Init
  <2>3. Len(frames) < CacheMaxFrames
    BY HlsAssumption DEF Init
  <2>4. btswriter \in Seq(Packet) /\ frames \in Seq(Packet) /\ ll \in Seq(Element) /\ playlist \in Seq(Nat)
    BY EmptyIs DEF Init
  <2> QED BY <2>1, <2>2, <2>3, <2>4 DEF Init, TypeOK
<1>2. AtHand
  BY DEF Init, AtHand
<1>3. OpenPart
  BY <1>0 DEF Init, OpenPart, Idle, Cutting
<1>4. Adjoin /\ AllSound
  BY <1>0 DEF Adjoin, AllSound
<1> QED BY <1>1, <1>2, <1>3, <1>4 DEF SegInv

(* Steps that leave the segment being written alone and finish none.         *)
LEMMA SegmentsStay ==
  ASSUME SegInv, TypeOK', AtHand',
         UNCHANGED <<opened, btswriter, frames, published, seq, item, keyPkt>>,
         UNCHANGED <<hasSetFirstTs, firstTimestamp, lastTimestamp>>,
         Finished' \subseteq Finished, Idle' => Idle, Cutting' => Cutting
  PROVE  SegInv'
<1>1. OpenPart'
  BY DEF SegInv, OpenPart
<1>2. Adjoin'
  BY DEF SegInv, Adjoin
<1>3. AllSound'
  BY DEF SegInv, AllSound, Sound
<1> QED BY <1>1, <1>2, <1>3 DEF SegInv

(* SetItem stores nothing but the item.                                      *)
LEMMA FinishedShrinks ==
  ASSUME item' = item \/ item' = None,
         \A s \in Seconds : lm'[s] = lm[s] \/ lm'[s] = None \/ lm'[s] = item
  PROVE  Finished' \subseteq Finished
BY DEF Finished, Stored

LEMMA QuietKeepsSeg ==
  ASSUME SegInv, Skip \/ DemuxError \/ AacSeqHeader
  PROVE  SegInv'
<1>1. TypeOK'
  BY DEF SegInv, TypeOK, Skip, DemuxError, AacSeqHeader, vars, inVars, segVars, statVars, cutVars, httpVars
<1>2. AtHand'
  BY DEF SegInv, AtHand, Skip, DemuxError, AacSeqHeader, vars, inVars, segVars, statVars, cutVars, httpVars
<1>3. UNCHANGED <<opened, btswriter, frames, published, seq, item, keyPkt, lm>> /\ UNCHANGED <<hasSetFirstTs, firstTimestamp, lastTimestamp>>
  BY DEF Skip, DemuxError, AacSeqHeader, vars, inVars, segVars, statVars, cutVars, httpVars
<1>4. Finished' \subseteq Finished
  BY <1>3 DEF Finished, Stored
<1>5. (Idle' => Idle) /\ (Cutting' => Cutting)
  BY DEF Skip, DemuxError, AacSeqHeader, Idle, Cutting, vars
<1> QED BY <1>1, <1>2, <1>3, <1>4, <1>5, SegmentsStay

LEMMA RemoveKeepsSeg ==
  ASSUME SegInv, SetItemRemove
  PROVE  SegInv'
<1>0. ll \in Seq(Element) /\ ll # <<>>
  BY DEF SegInv, TypeOK, AtHand, SetItemRemove
<1>1. ll' \in Seq(Element) /\ evicted' \in Element
  BY <1>0, TailIs DEF SetItemRemove
<1>2. TypeOK'
  BY <1>1 DEF SegInv, TypeOK, SetItemRemove, inVars, segVars, statVars, httpVars
<1>3. AtHand'
  BY <1>1 DEF SegInv, AtHand, SetItemRemove, httpVars
<1>4. UNCHANGED <<opened, btswriter, frames, published, seq, item, keyPkt, lm>> /\ UNCHANGED <<hasSetFirstTs, firstTimestamp, lastTimestamp>>
  BY DEF SetItemRemove, inVars, segVars, statVars
<1>5. Finished' \subseteq Finished
  BY <1>4 DEF Finished, Stored
<1>6. (Idle' => Idle) /\ (Cutting' => Cutting)
  BY DEF SetItemRemove, Idle, Cutting
<1> QED BY <1>2, <1>3, <1>4, <1>5, <1>6, SegmentsStay

LEMMA DeleteKeepsSeg ==
  ASSUME SegInv, SetItemDelete
  PROVE  SegInv'
<1>1. lm' \in [Seconds -> TSItem \cup {None}] /\ \A s \in Seconds : lm'[s] = lm[s] \/ lm'[s] = None
  BY DEF SegInv, TypeOK, SetItemDelete
<1>2. TypeOK'
  BY <1>1 DEF SegInv, TypeOK, SetItemDelete, inVars, segVars, statVars, httpVars
<1>3. AtHand'
  BY DEF SegInv, AtHand, SetItemDelete, httpVars
<1>4. UNCHANGED <<opened, btswriter, frames, published, seq, item, keyPkt>> /\ UNCHANGED <<hasSetFirstTs, firstTimestamp, lastTimestamp>>
  BY DEF SetItemDelete, inVars, segVars, statVars
<1>5. Finished' \subseteq Finished
  BY <1>1, <1>4, FinishedShrinks
<1>6. (Idle' => Idle) /\ (Cutting' => Cutting)
  BY DEF SetItemDelete, Idle, Cutting
<1> QED BY <1>2, <1>3, <1>4, <1>5, <1>6, SegmentsStay

LEMMA StoreKeepsSeg ==
  ASSUME SegInv, SetItemStore
  PROVE  SegInv'
<1>0. item \in TSItem
  BY DEF SegInv, OpenPart, Cutting, SetItemStore
<1>1. lm' \in [Seconds -> TSItem \cup {None}] /\ \A s \in Seconds : lm'[s] = lm[s] \/ lm'[s] = item
  BY <1>0 DEF SegInv, TypeOK, SetItemStore
<1>2. TypeOK'
  BY <1>1 DEF SegInv, TypeOK, SetItemStore, inVars, segVars, statVars, cutVars, httpVars
<1>3. AtHand'
  BY DEF SegInv, AtHand, SetItemStore, httpVars
<1>4. UNCHANGED <<opened, btswriter, frames, published, seq, item, keyPkt>> /\ UNCHANGED <<hasSetFirstTs, firstTimestamp, lastTimestamp>>
  BY DEF SetItemStore, inVars, segVars, statVars, cutVars
<1>5. Finished' \subseteq Finished
  BY <1>1, <1>4, FinishedShrinks
<1>6. (Idle' => Idle) /\ (Cutting' => Cutting)
  BY DEF SetItemStore, Idle, Cutting
<1> QED BY <1>2, <1>3, <1>4, <1>5, <1>6, SegmentsStay

LEMMA PushKeepsSeg ==
  ASSUME SegInv, SetItemPush
  PROVE  SegInv'
<1>0. item \in TSItem /\ item.name \in Seconds
  BY DEF SegInv, OpenPart, Cutting, SetItemPush
<1>1. [seqNum |-> item.seqNum, name |-> item.name] \in Element
  BY <1>0 DEF TSItem, Element
<1>2. ll' \in Seq(Element)
  BY <1>1, AppendIs DEF SegInv, TypeOK, SetItemPush
<1>3. TypeOK'
  BY <1>2 DEF SegInv, TypeOK, SetItemPush, inVars, segVars, statVars, cutVars, httpVars
<1>4. AtHand'
  BY DEF SegInv, AtHand, SetItemPush, httpVars
<1>5. UNCHANGED <<opened, btswriter, frames, published, seq, item, keyPkt, lm>> /\ UNCHANGED <<hasSetFirstTs, firstTimestamp, lastTimestamp>>
  BY DEF SetItemPush, inVars, segVars, statVars, cutVars
<1>6. Finished' \subseteq Finished
  BY <1>5 DEF Finished, Stored
<1>7. (Idle' => Idle) /\ (Cutting' => Cutting)
  BY DEF SetItemPush, Idle, Cutting
<1> QED BY <1>3, <1>4, <1>5, <1>6, <1>7, SegmentsStay

LEMMA PlaylistKeepsSeg ==
  ASSUME SegInv, GenM3U8PlayList \/ MapRace
  PROVE  SegInv'
<1>0. /\ ll \in Seq(Element) /\ playlist \in Seq(Nat) /\ lm \in [Seconds -> TSItem \cup {None}]
      /\ http \in [at : {"idle", "visit", "next", "crashed"}, e : Element \cup {None}]
  BY DEF SegInv, TypeOK
<1>1. /\ http' \in [at : {"idle", "visit", "next", "crashed"}, e : Element \cup {None}]
      /\ http'.at \in {"visit", "next"} => http'.e \in Element
  <2>1. CASE PlaylistFront
    <3>1. ll # <<>> => Head(ll) \in Element
      BY <1>0, TailIs
    <3> QED BY <1>0, <2>1, <3>1 DEF PlaylistFront
  <2>2. CASE PlaylistVisit
    BY <1>0, <2>2 DEF PlaylistVisit, SegInv, AtHand
  <2>3. CASE PlaylistNext
    <3>1. \A i \in 1 .. Len(ll) - 1 : ll[i + 1] \in Element
      BY <1>0
    <3>2. \/ \E e \in Element : http' = [at |-> "visit", e |-> e]
          \/ http' = [at |-> "idle", e |-> None]
      BY <2>3, <3>1 DEF PlaylistNext
    <3> QED BY <3>2
  <2>4. CASE MapRace
    BY <1>0, <2>4 DEF MapRace
  <2> QED BY <2>1, <2>2, <2>3, <2>4 DEF GenM3U8PlayList
<1>2. playlist' \in Seq(Nat)
  <2>1. CASE PlaylistVisit
    <3>1. lm[http.e.name] # None => lm[http.e.name] \in TSItem
      BY <1>0, <2>1 DEF PlaylistVisit, SegInv, AtHand, Element
    <3>2. lm[http.e.name] # None => lm[http.e.name].seqNum \in Nat
      BY <3>1 DEF TSItem
    <3>3. lm[http.e.name] # None => Append(playlist, lm[http.e.name].seqNum) \in Seq(Nat)
      BY <1>0, <3>2, AppendIs
    <3> QED BY <1>0, <2>1, <3>3 DEF PlaylistVisit
  <2>2. CASE playlist' = playlist \/ playlist' = <<>>
    BY <1>0, <2>2, EmptyIs
  <2> QED BY <2>1, <2>2 DEF GenM3U8PlayList, PlaylistFront, PlaylistNext, MapRace
<1>3. /\ UNCHANGED <<ll, lm, inVars, segVars, statVars, cutVars>>
      /\ UNCHANGED sender \/ sender' = "crashed"
  BY DEF GenM3U8PlayList, PlaylistFront, PlaylistVisit, PlaylistNext, MapRace
<1>4. TypeOK'
  BY <1>1, <1>2, <1>3 DEF SegInv, TypeOK, inVars, segVars, statVars, cutVars
<1>5. AtHand'
  <2>1. sender' = "crashed" => http'.at = "crashed"
    <3>1. CASE MapRace
      BY <1>0, <3>1 DEF MapRace
    <3>2. CASE GenM3U8PlayList
      <4>1. http.at # "crashed" /\ sender' = sender
        BY <3>2 DEF GenM3U8PlayList, PlaylistFront, PlaylistVisit, PlaylistNext, cutVars
      <4> QED BY <4>1 DEF SegInv, AtHand
    <3> QED BY <3>1, <3>2
  <2>2. (sender' = "delete" => evicted' \in Element) /\ (sender' = "remove" => ll' # <<>>)
    BY <1>3 DEF SegInv, AtHand, cutVars
  <2> QED BY <1>1, <2>1, <2>2 DEF AtHand
<1>6. UNCHANGED <<opened, btswriter, frames, published, seq, item, keyPkt>> /\ UNCHANGED <<hasSetFirstTs, firstTimestamp, lastTimestamp>>
  BY <1>3 DEF inVars, segVars, statVars, cutVars
<1>7. Finished' \subseteq Finished
  BY <1>3, <1>6 DEF Finished, Stored
<1>8. (Idle' => Idle) /\ (Cutting' => Cutting)
  BY <1>3 DEF Idle, Cutting
<1> QED BY <1>4, <1>5, <1>6, <1>7, <1>8, SegmentsStay

LEMMA MuxKeyKeepsSeg ==
  ASSUME SegInv, MuxKey
  PROVE  SegInv'
<1>0. /\ keyPkt \in Packet /\ keyPkt.kind = "key" /\ keyPkt.n = published /\ opened /\ frames = <<>>
      /\ \A a \in Finished : a.seqNum = seq => Spans(a, published - 1)
  BY DEF SegInv, OpenPart, Cutting, MuxKey
<1>1. <<keyPkt>> \in Seq(Packet) /\ DOMAIN <<keyPkt>> = {1} /\ <<keyPkt>>[1] = keyPkt /\ keyPkt.ts \in Nat
  BY <1>0, SingleIs DEF Packet
<1>2. TypeOK'
  BY <1>1 DEF SegInv, TypeOK, MuxKey, ResetAndNew, inVars, httpVars
<1>3. AtHand'
  BY DEF SegInv, AtHand, MuxKey, httpVars
<1>4. Finished' \subseteq Finished
  BY FinishedShrinks DEF MuxKey
<1>5. UNCHANGED <<opened, frames, seq, published>> /\ item' = None /\ hasSetFirstTs' /\ sender' = "loop"
  BY DEF MuxKey, inVars
<1>6. /\ btswriter' = <<keyPkt>> /\ firstTimestamp' = keyPkt.ts /\ lastTimestamp' = keyPkt.ts
  BY DEF MuxKey, ResetAndNew
<1>7. OpenPart'
  <2>1. Parts(btswriter', frames', published') /\ btswriter'[1] = keyPkt
    BY <1>0, <1>5, <1>6, BeginSegment
  <2>2. Stamped(btswriter', published', lastTimestamp') /\ Stamped(frames', published', lastTimestamp')
    BY <1>0, <1>1, <1>5, <1>6, EmptyIs DEF Stamped
  <2>3. \A a \in Finished' : a.seqNum = seq' => Spans(a, btswriter'[1].n - 1)
    BY <1>0, <1>4, <1>5, <2>1
  <2>4. firstTimestamp' = btswriter'[1].ts
    BY <1>6, <2>1
  <2> QED BY <1>0, <1>5, <2>1, <2>2, <2>3, <2>4 DEF OpenPart, Idle, Cutting
<1>8. Adjoin'
  BY <1>4 DEF SegInv, Adjoin
<1>9. AllSound'
  BY <1>4, <1>5 DEF SegInv, AllSound, Sound
<1> QED BY <1>2, <1>3, <1>7, <1>8, <1>9 DEF SegInv

(* The packet that is taken.                                                 *)
LEMMA TakeIs ==
  ASSUME SegInv, Take, NEW k \in {"key", "inter", "audio"}
  PROVE  /\ sender = "loop" /\ published' = published + 1 /\ published' \in Nat /\ lastTs' \in Nat
         /\ Incoming(k) \in Packet /\ Incoming(k).kind = k
         /\ Incoming(k).n = published + 1 /\ Incoming(k).ts = lastTs'
<1>1. published \in Nat /\ lastTs \in Nat
  BY DEF SegInv, TypeOK
<1>2. PICK d \in Steps : lastTs' = (lastTs + d) % TsMod
  BY DEF Take
<1>3. d \in Nat /\ TsMod \in Nat \ {0}
  BY HlsAssumption
<1>4. lastTs + d \in Nat
  BY <1>1, <1>3
<1>5. (lastTs + d) % TsMod \in Nat
  BY <1>3, <1>4
<1> QED BY <1>1, <1>2, <1>5 DEF Take, Incoming, Packet

(* A packet that goes into the open segment: what is left to show of it.     *)
LEMMA GrowKeepsSeg ==
  ASSUME SegInv, TypeOK', AtHand', sender = "loop", published' = published + 1,
         sender' = sender, UNCHANGED <<seq, item, lm>>,
         opened', hasSetFirstTs',
         Parts(btswriter', frames', published'),
         firstTimestamp' = btswriter'[1].ts,
         Stamped(btswriter', published', lastTimestamp'), Stamped(frames', published', lastTimestamp'),
         opened => btswriter'[1].n = btswriter[1].n
  PROVE  SegInv'
<1>1. Finished' = Finished /\ item = None
  BY DEF Finished, Stored, SegInv, OpenPart, Idle
<1>2. \A a \in Finished' : a.seqNum = seq' => Spans(a, btswriter'[1].n - 1)
  <2>1. CASE ~opened
    BY <1>1, <2>1 DEF SegInv, OpenPart
  <2>2. CASE opened
    BY <1>1, <2>2 DEF SegInv, OpenPart, Idle
  <2> QED BY <2>1, <2>2
<1>3. OpenPart'
  BY <1>1, <1>2 DEF OpenPart, Idle, Cutting
<1>4. Adjoin'
  BY <1>1 DEF SegInv, Adjoin
<1>5. AllSound'
  BY <1>1 DEF SegInv, AllSound, Sound
<1> QED BY <1>3, <1>4, <1>5 DEF SegInv

(* Time stamps when a packet is added.                                       *)
LEMMA StampedAppend ==
  ASSUME NEW d \in Seq(Packet), NEW p \in Packet, NEW hi \in Nat, p.n = hi + 1,
         \A i \in DOMAIN d : d[i].n <= hi
  PROVE  Stamped(Append(d, p), hi + 1, p.ts) /\ Stamped(d, hi + 1, p.ts)
<1>1. /\ Len(d) \in Nat /\ DOMAIN d = 1 .. Len(d) /\ DOMAIN Append(d, p) = 1 .. Len(d) + 1
      /\ \A i \in 1 .. Len(d) : Append(d, p)[i] = d[i]
      /\ Append(d, p)[Len(d) + 1] = p
  BY AppendIs
<1>2. \A i \in DOMAIN d : d[i].n # hi + 1
  <2>1. \A i \in DOMAIN d : d[i] \in Packet
    BY SeqIs
  <2>2. \A i \in DOMAIN d : d[i].n \in Nat
    BY <2>1 DEF Packet
  <2> QED BY <2>2
<1>3. \A i \in 1 .. Len(d) + 1 : i = Len(d) + 1 \/ i \in 1 .. Len(d)
  BY <1>1
<1> QED BY <1>1, <1>2, <1>3 DEF Stamped

LEMMA StampedJoin ==
  ASSUME NEW b \in Seq(Packet), NEW f \in Seq(Packet), NEW hi, NEW t,
         Stamped(b, hi, t), Stamped(f, hi, t)
  PROVE  Stamped(b \o f, hi, t)
<1>1. /\ Len(b) \in Nat /\ Len(f) \in Nat
      /\ DOMAIN b = 1 .. Len(b) /\ DOMAIN f = 1 .. Len(f) /\ DOMAIN (b \o f) = 1 .. Len(b) + Len(f)
      /\ \A i \in 1 .. Len(b) : (b \o f)[i] = b[i]
      /\ \A i \in Len(b) + 1 .. Len(b) + Len(f) : (b \o f)[i] = f[i - Len(b)]
  BY JoinIs
<1>2. \A i \in 1 .. Len(b) + Len(f) : \/ i \in 1 .. Len(b)
                                      \/ i \in Len(b) + 1 .. Len(b) + Len(f) /\ i - Len(b) \in 1 .. Len(f)
  BY <1>1
<1> QED BY <1>1, <1>2 DEF Stamped

LEMMA InterKeepsSeg ==
  ASSUME SegInv, SendInter
  PROVE  SegInv'
<1> DEFINE p == Incoming("inter")
<1>1. /\ sender = "loop" /\ published' = published + 1 /\ published' \in Nat /\ lastTs' \in Nat
      /\ p \in Packet /\ p.kind = "inter" /\ p.n = published + 1 /\ p.ts = lastTs'
  BY TakeIs DEF SendInter
<1>2. /\ opened /\ hasSetFirstTs /\ Parts(btswriter, frames, published)
      /\ firstTimestamp = btswriter[1].ts
  BY <1>1 DEF SegInv, OpenPart, Idle, SendInter
<1>3. /\ btswriter' = Append(btswriter, p) /\ UNCHANGED <<sender, opened, frames, seq, item, lm>>
      /\ hasSetFirstTs' = TRUE /\ firstTimestamp' = firstTimestamp /\ lastTimestamp' = lastTs'
      /\ UNCHANGED <<gettedSpecific, ll, cutVars, httpVars>>
  BY <1>2 DEF SendInter, Update, Take, cutVars
<1>4. btswriter \in Seq(Packet) /\ frames \in Seq(Packet) /\ published \in Nat /\ firstTimestamp \in Nat
  BY DEF SegInv, TypeOK
<1>5. btswriter' \in Seq(Packet)
  BY <1>1, <1>3, <1>4, AppendIs
<1> HIDE DEF p
<1>6. TypeOK'
  BY <1>1, <1>3, <1>4, <1>5 DEF SegInv, TypeOK, cutVars, httpVars
<1>7. AtHand'
  BY <1>3 DEF SegInv, AtHand, cutVars, httpVars
<1>8. Parts(btswriter', frames', published') /\ btswriter'[1] = btswriter[1]
  BY <1>1, <1>2, <1>3, WriteVideo
<1>9. Stamped(btswriter', published', lastTimestamp') /\ Stamped(frames', published', lastTimestamp')
  BY <1>1, <1>2, <1>3, <1>4, StampedAppend DEF Parts
<1> QED BY <1>1, <1>2, <1>3, <1>6, <1>7, <1>8, <1>9, GrowKeepsSeg

LEMMA KeyKeepsSeg ==
  ASSUME SegInv, SendKey
  PROVE  SegInv'
<1> DEFINE p == Incoming("key")
<1>1. /\ sender = "loop" /\ published' = published + 1 /\ published' \in Nat /\ lastTs' \in Nat
      /\ p \in Packet /\ p.kind = "key" /\ p.n = published + 1 /\ p.ts = lastTs'
  BY TakeIs DEF SendKey
<1>2. /\ btswriter' = Append(btswriter, p) /\ UNCHANGED <<sender, frames, seq, item, lm>>
      /\ hasSetFirstTs' = TRUE /\ lastTimestamp' = lastTs' /\ opened' = TRUE
      /\ firstTimestamp' = IF hasSetFirstTs THEN firstTimestamp ELSE lastTs'
      /\ UNCHANGED <<gettedSpecific, ll, cutVars, httpVars>>
  BY DEF SendKey, Update, Take, cutVars
<1>3. btswriter \in Seq(Packet) /\ frames \in Seq(Packet) /\ published \in Nat /\ firstTimestamp \in Nat
  BY DEF SegInv, TypeOK
<1>4. btswriter' \in Seq(Packet)
  BY <1>1, <1>2, <1>3, AppendIs
<1> HIDE DEF p
<1>5. TypeOK'
  BY <1>1, <1>2, <1>3, <1>4 DEF SegInv, TypeOK, cutVars, httpVars
<1>6. AtHand'
  BY <1>2 DEF SegInv, AtHand, cutVars, httpVars
<1>7. CASE opened
  <2>1. hasSetFirstTs /\ Parts(btswriter, frames, published) /\ firstTimestamp = btswriter[1].ts
    BY <1>1, <1>7 DEF SegInv, OpenPart, Idle
  <2>2. Parts(btswriter', frames', published') /\ btswriter'[1] = btswriter[1]
    BY <1>1, <1>2, <2>1, WriteVideo
  <2>3. Stamped(btswriter', published', lastTimestamp') /\ Stamped(frames', published', lastTimestamp')
    BY <1>1, <1>2, <1>3, <2>1, StampedAppend DEF Parts
  <2> QED BY <1>1, <1>2, <1>5, <1>6, <2>1, <2>2, <2>3, GrowKeepsSeg
<1>8. CASE ~opened
  <2>1. btswriter = <<>> /\ frames = <<>> /\ ~hasSetFirstTs
    BY <1>8 DEF SegInv, OpenPart
  <2>2. btswriter' = <<p>>
    BY <1>2, <2>1
  <2>3. Parts(btswriter', frames', published') /\ btswriter'[1] = p
    BY <1>1, <1>2, <2>1, <2>2, BeginSegment
  <2>4. Stamped(btswriter', published', lastTimestamp') /\ Stamped(frames', published', lastTimestamp')
    BY <1>1, <1>2, <2>1, <2>2, SingleIs, EmptyIs DEF Stamped
  <2> QED BY <1>1, <1>2, <1>5, <1>6, <1>8, <2>1, <2>3, <2>4, GrowKeepsSeg
<1> QED BY <1>7, <1>8

LEMMA AudioKeepsSeg ==
  ASSUME SegInv, SendAudio
  PROVE  SegInv'
<1> DEFINE p == Incoming("audio")
           g == Append(frames, p)
<1>1. /\ sender = "loop" /\ published' = published + 1 /\ published' \in Nat /\ lastTs' \in Nat
      /\ p \in Packet /\ p.kind = "audio" /\ p.n = published + 1 /\ p.ts = lastTs'
  BY TakeIs DEF SendAudio
<1>2. /\ opened /\ hasSetFirstTs /\ Parts(btswriter, frames, published)
      /\ firstTimestamp = btswriter[1].ts
  BY <1>1 DEF SegInv, OpenPart, Idle, SendAudio
<1>3. /\ UNCHANGED <<sender, opened, seq, item, lm>>
      /\ hasSetFirstTs' = TRUE /\ firstTimestamp' = firstTimestamp /\ lastTimestamp' = lastTs'
      /\ UNCHANGED <<gettedSpecific, ll, cutVars, httpVars>>
  BY <1>2 DEF SendAudio, Update, Take, cutVars
<1>4. /\ btswriter \in Seq(Packet) /\ frames \in Seq(Packet) /\ published \in Nat /\ firstTimestamp \in Nat
      /\ Len(frames) < CacheMaxFrames
  BY DEF SegInv, TypeOK
<1>5. \/ Len(g) >= CacheMaxFrames /\ btswriter' = btswriter \o g /\ frames' = <<>>
      \/ ~(Len(g) >= CacheMaxFrames) /\ frames' = g /\ btswriter' = btswriter
  BY DEF SendAudio, MuxAudio, Cache
<1>6. g \in Seq(Packet) /\ Len(g) \in Nat
  BY <1>1, <1>4, AppendIs
<1>7. Parts(btswriter, g, published + 1)
  BY <1>1, <1>2, CollectAudio
<1>8. Stamped(g, published + 1, lastTs') /\ Stamped(btswriter, published + 1, lastTs')
  BY <1>1, <1>2, <1>4, StampedAppend DEF Parts
<1> HIDE DEF p, g
<1>9. CacheMaxFrames \in Nat /\ CacheMaxFrames > 0
  BY HlsAssumption
<1>10. btswriter' \in Seq(Packet) /\ frames' \in Seq(Packet) /\ Len(frames') < CacheMaxFrames
  <2>1. btswriter \o g \in Seq(Packet)
    BY <1>4, <1>6, JoinIs
  <2>2. <<>> \in Seq(Packet) /\ Len(<<>>) < CacheMaxFrames
    BY <1>9, EmptyIs
  <2>3. CASE btswriter' = btswriter \o g /\ frames' = <<>>
    BY <2>1, <2>2, <2>3
  <2>4. CASE ~(Len(g) >= CacheMaxFrames) /\ frames' = g /\ btswriter' = btswriter
    BY <1>4, <1>6, <1>9, <2>4
  <2> QED BY <1>5, <2>3, <2>4
<1>11. TypeOK'
  BY <1>1, <1>3, <1>4, <1>10 DEF SegInv, TypeOK, cutVars, httpVars
<1>12. AtHand'
  BY <1>3 DEF SegInv, AtHand, cutVars, httpVars
<1>13. Parts(btswriter', frames', published') /\ btswriter'[1] = btswriter[1]
  <2>1. Parts(btswriter \o g, <<>>, published + 1) /\ (btswriter \o g)[1] = btswriter[1]
    BY <1>4, <1>6, <1>7, WriteCollected
  <2> QED BY <1>1, <1>5, <1>7, <2>1
<1>14. Stamped(btswriter', published', lastTimestamp') /\ Stamped(frames', published', lastTimestamp')
  <2>1. Stamped(<<>>, published', lastTimestamp')
    BY EmptyIs DEF Stamped
  <2>2. Stamped(btswriter \o g, published + 1, lastTs')
    BY <1>4, <1>6, <1>8, StampedJoin
  <2> QED BY <1>1, <1>3, <1>5, <1>8, <2>1, <2>2
<1> QED BY <1>1, <1>2, <1>3, <1>11, <1>12, <1>13, <1>14, GrowKeepsSeg

(* A cut finishes the open segment.                                          *)
LEMMA CutKeepsSeg ==
  ASSUME SegInv, Cut
  PROVE  SegInv'
<1>1. /\ sender = "loop" /\ published' = published + 1 /\ published' \in Nat /\ lastTs' \in Nat
      /\ keyPkt' \in Packet /\ keyPkt'.kind = "key" /\ keyPkt'.n = published + 1
  BY TakeIs DEF Cut
<1>2. /\ opened /\ hasSetFirstTs /\ Parts(btswriter, frames, published) /\ item = None
      /\ firstTimestamp = btswriter[1].ts
      /\ Stamped(btswriter, published, lastTimestamp) /\ Stamped(frames, published, lastTimestamp)
      /\ \A a \in Finished : a.seqNum = seq => Spans(a, btswriter[1].n - 1)
  BY <1>1 DEF SegInv, OpenPart, Idle, Cut
<1>3. /\ btswriter \in Seq(Packet) /\ frames \in Seq(Packet) /\ published \in Nat /\ seq \in Nat
      /\ firstTimestamp \in Nat /\ lastTimestamp \in Nat
  BY DEF SegInv, TypeOK
<1>4. /\ frames' = <<>> /\ seq' = seq + 1 /\ clock' \in Seconds
      /\ item' = [seqNum |-> seq + 1, name |-> clock', duration |-> lastTimestamp - firstTimestamp,
                  data |-> btswriter \o frames]
      /\ sender' = IF Len(ll) = MaxTSCacheNum THEN "remove" ELSE "store"
      /\ UNCHANGED <<evicted, opened, btswriter, hasSetFirstTs, firstTimestamp, lastTimestamp, ll, lm, gettedSpecific>>
      /\ UNCHANGED httpVars /\ reused' \in BOOLEAN
  BY DEF Cut, DurationMs, statVars, Take, SegInv, TypeOK
<1>5. Parts(btswriter \o frames, <<>>, published) /\ (btswriter \o frames)[1] = btswriter[1]
  BY <1>2, <1>3, WriteCollected
<1>6. Spans(item', published)
  <2>1. Stamped(btswriter \o frames, published, lastTimestamp)
    BY <1>2, <1>3, StampedJoin
  <2> QED BY <1>2, <1>3, <1>4, <1>5, <2>1 DEF Spans
<1>7. clock' \in Nat
  BY <1>4, HlsAssumption DEF Seconds
<1>8. item' \in TSItem
  BY <1>3, <1>4, <1>7, JoinIs DEF TSItem
<1>9. item' # None => Finished' = Finished \cup {item'}
  BY <1>2, <1>4 DEF Finished, Stored
<1>10. Finished' \subseteq Finished \cup {item'}
  BY <1>2, <1>4 DEF Finished, Stored
<1>11. TypeOK'
  <2>1. Len(frames') < CacheMaxFrames /\ frames' \in Seq(Packet)
    BY <1>4, HlsAssumption, EmptyIs
  <2> QED BY <1>1, <1>3, <1>4, <1>8, <2>1 DEF SegInv, TypeOK, httpVars
<1>12. AtHand'
  <2>1. Len(ll) = MaxTSCacheNum => ll # <<>>
    BY HlsAssumption, EmptyIs
  <2> QED BY <1>4, <2>1 DEF SegInv, AtHand, httpVars
<1>13. \A a \in Finished : a.seqNum \in Nat /\ a.seqNum <= seq
  BY DEF SegInv, AllSound, Sound, TSItem
<1>14. OpenPart'
  <2>1. \A a \in Finished' : a.seqNum = seq' => Spans(a, published' - 1)
    <3>1. published' - 1 = published
      BY <1>1, <1>3
    <3>2. \A a \in Finished : a.seqNum # seq'
      BY <1>3, <1>4, <1>13
    <3> QED BY <1>6, <1>10, <3>1, <3>2
  <2>2. item'.seqNum = seq' /\ item'.name \in Seconds
    BY <1>4
  <2> QED BY <1>1, <1>2, <1>4, <1>8, <2>1, <2>2 DEF OpenPart, Idle, Cutting
<1>15. Adjoin'
  <2> SUFFICES ASSUME NEW a \in Finished', NEW b \in Finished', b.seqNum = a.seqNum + 1
               PROVE  Spans(a, b.data[1].n - 1)
    BY DEF Adjoin
  <2>1. CASE a \in Finished /\ b \in Finished
    BY <2>1 DEF SegInv, Adjoin
  <2>2. CASE a \in Finished /\ b = item'
    <3>1. a.seqNum = seq
      BY <1>3, <1>4, <1>13, <2>2
    <3>2. b.data[1] = btswriter[1]
      BY <1>4, <1>5, <2>2
    <3> QED BY <1>2, <2>2, <3>1, <3>2
  <2>3. CASE a = item'
    <3>1. a.seqNum = seq + 1
      BY <1>4, <2>3
    <3>2. b.seqNum <= seq + 1 /\ b.seqNum \in Nat
      BY <1>3, <1>4, <1>10, <1>13
    <3> QED BY <1>3, <3>1, <3>2
  <2> QED BY <1>10, <2>1, <2>2, <2>3
<1>16. AllSound'
  <2>1. \A a \in Finished : a \in TSItem /\ a.seqNum <= seq' /\ \E hi \in Nat : Spans(a, hi)
    BY <1>3, <1>4, <1>13 DEF SegInv, AllSound, Sound
  <2>2. item' \in TSItem /\ item'.seqNum <= seq' /\ \E hi \in Nat : Spans(item', hi)
    <3>1. item'.seqNum <= seq'
      BY <1>3, <1>4
    <3> QED BY <1>3, <1>6, <1>8, <3>1
  <2> QED BY <1>10, <2>1, <2>2 DEF AllSound, Sound
<1> QED BY <1>11, <1>12, <1>14, <1>15, <1>16 DEF SegInv

LEMMA SegStep == SegInv /\ [Next]_vars => SegInv'
<1> SUFFICES ASSUME SegInv, [Next]_vars PROVE SegInv'
  OBVIOUS
<1>1. CASE Sender
  BY <1>1, QuietKeepsSeg, AudioKeepsSeg, InterKeepsSeg, KeyKeepsSeg, CutKeepsSeg, RemoveKeepsSeg,
     DeleteKeepsSeg, StoreKeepsSeg, PushKeepsSeg, MuxKeyKeepsSeg DEF Sender
<1>2. CASE GenM3U8PlayList \/ MapRace
  BY <1>2, PlaylistKeepsSeg
<1>3. CASE UNCHANGED vars
  <2>1. TypeOK'
    BY <1>3 DEF SegInv, TypeOK, vars, inVars, segVars, statVars, cutVars, httpVars
  <2>2. AtHand'
    BY <1>3 DEF SegInv, AtHand, vars, cutVars, httpVars
  <2>3. /\ UNCHANGED <<opened, btswriter, frames, published, seq, item, keyPkt>>
        /\ UNCHANGED <<hasSetFirstTs, firstTimestamp, lastTimestamp>> /\ UNCHANGED <<lm, sender>>
    BY <1>3 DEF vars, inVars, segVars, statVars, cutVars
  <2>4. Finished' \subseteq Finished /\ (Idle' => Idle) /\ (Cutting' => Cutting)
    BY <2>3 DEF Finished, Stored, Idle, Cutting
  <2> QED BY <2>1, <2>2, <2>3, <2>4, SegmentsStay
<1> QED BY <1>1, <1>2, <1>3 DEF Next

(* For every sequence of packets: each segment begins with its key frame and *)
(* holds every packet up to the next segment's, the audio still collected in *)
(* the audioCache when it was cut included, once, audio and video each in    *)
(* order; consecutive segments adjoin.                                       *)
THEOREM SegmentsAlwaysAdjoin == Spec => []SegmentsAdjoin
<1>1. SegInv => SegmentsAdjoin
  <2> SUFFICES ASSUME SegInv PROVE SegmentsAdjoin
    OBVIOUS
  <2>1. ASSUME NEW a \in Finished
        PROVE  /\ a.data # <<>> /\ a.data[1].kind = "key" /\ a.data[1].n = FirstN(a.data)
               /\ Numbers(a.data) = FirstN(a.data) .. LastN(a.data)
               /\ InOrder(a.data)
    <3>1. PICK hi \in Nat : Parts(a.data, <<>>, hi)
      BY DEF SegInv, AllSound, Sound, Spans
    <3> QED BY <3>1, FirstIs, LastIs DEF Parts
  <2>2. ASSUME NEW a \in Finished, NEW m, m \in Nat, Spans(a, m - 1)
        PROVE  m = LastN(a.data) + 1
    <3>1. Parts(a.data, <<>>, m - 1)
      BY <2>2 DEF Spans
    <3> QED BY <2>2, <3>1, LastIs
  <2>3. ASSUME NEW a \in Finished, NEW b \in Finished, b.seqNum = a.seqNum + 1
        PROVE  FirstN(b.data) = LastN(a.data) + 1
    <3>1. Spans(a, b.data[1].n - 1)
      BY <2>3 DEF SegInv, Adjoin
    <3>2. PICK hi \in Nat : Parts(b.data, <<>>, hi)
      BY DEF SegInv, AllSound, Sound, Spans
    <3>3. FirstN(b.data) = b.data[1].n /\ b.data[1].n \in Nat
      BY <3>2, FirstIs
    <3> QED BY <2>2, <3>1, <3>3
  <2>4. ASSUME sender = "loop", btswriter # <<>>, NEW a \in Finished, a.seqNum = seq
        PROVE  FirstN(btswriter) = LastN(a.data) + 1
    <3>1. opened
      BY <2>4 DEF SegInv, OpenPart
    <3>2. Parts(btswriter, frames, published) /\ Spans(a, btswriter[1].n - 1)
      BY <2>4, <3>1 DEF SegInv, OpenPart, Idle
    <3>3. FirstN(btswriter) = btswriter[1].n /\ btswriter[1].n \in Nat
      BY <3>2, FirstIs
    <3> QED BY <2>2, <3>2, <3>3
  <2> QED BY <2>1, <2>3, <2>4 DEF SegmentsAdjoin, InOrder
<1> QED BY <1>1, SegInitially, SegStep, PTL DEF Spec

(* For every duration and time stamp width: the length a playlist gives for  *)
(* a segment, taken from the status that resetAndNew and update keep, is the *)
(* time between the first and the last packet in it.                         *)
THEOREM DurationsAlwaysCover == Spec => []DurationCovers
<1>1. SegInv => DurationCovers
  <2> SUFFICES ASSUME SegInv, NEW a \in Finished
               PROVE  a.duration = Of(a.data, LastN(a.data)).ts - Of(a.data, FirstN(a.data)).ts
    BY DEF DurationCovers
  <2>1. PICK hi \in Nat : Spans(a, hi)
    BY DEF SegInv, AllSound, Sound
  <2>2. PICK t \in Nat : Stamped(a.data, hi, t) /\ a.duration = t - a.data[1].ts
    BY <2>1 DEF Spans
  <2>3. Parts(a.data, <<>>, hi)
    BY <2>1 DEF Spans
  <2>4. FirstN(a.data) = a.data[1].n /\ LastN(a.data) = hi /\ hi \in Numbers(a.data)
    BY <2>3, FirstIs, LastIs
  <2>5. PICK i \in DOMAIN a.data : a.data[i].n = hi
    BY <2>4 DEF Numbers
  <2>6. 1 \in DOMAIN a.data
    BY <2>3, SeqIs DEF Parts
  <2>7. Of(a.data, hi) = a.data[i] /\ Of(a.data, a.data[1].n) = a.data[1]
    BY <2>3, <2>5, <2>6, OfIs
  <2> QED BY <2>2, <2>4, <2>5, <2>7 DEF Stamped
<1> QED BY <1>1, SegInitially, SegStep, PTL DEF Spec

-----------------------------------------------------------------------------
(* Part 2: the steps preserve ListInv                                        *)

(* The state the list and the map are in, as numbers.                        *)
LEMMA ListTypes ==
  ASSUME SegInv
  PROVE  /\ seq \in Nat /\ clock \in Nat /\ MaxTSCacheNum \in Nat /\ MaxTSCacheNum >= 1
         /\ Seconds \subseteq Nat /\ clock \in Seconds
         /\ ll \in Seq(Element) /\ Len(ll) \in Nat /\ DOMAIN ll = 1 .. Len(ll)
         /\ \A i \in DOMAIN ll : ll[i] \in Element
         /\ \A x \in Element : x.seqNum \in Nat /\ x.name \in Seconds /\ x.name \in Nat
         /\ playlist \in Seq(Nat) /\ Len(playlist) \in Nat
         /\ lm \in [Seconds -> TSItem \cup {None}]
<1>1. clock \in Seconds /\ Seconds \subseteq Nat
  BY HlsAssumption DEF SegInv, TypeOK, Seconds
<1>2. ll \in Seq(Element) /\ playlist \in Seq(Nat)
  BY DEF SegInv, TypeOK
<1>3. \A x \in Element : x.seqNum \in Nat /\ x.name \in Seconds /\ x.name \in Nat
  BY <1>1 DEF Element
<1> QED BY <1>1, <1>2, <1>3, HlsAssumption, SeqIs DEF SegInv, TypeOK

LEMMA MappedFinite == IsFiniteSet(Mapped) /\ Cardinality(Mapped) \in Nat
<1>1. IsFiniteSet(Seconds)
  BY HlsAssumption, FS_Interval DEF Seconds
<1>2. Mapped \subseteq Seconds
  BY DEF Mapped
<1> QED BY <1>1, <1>2, FS_Subset, FS_CardinalityType

LEMMA ListInitially == Init => ListInv
<1> SUFFICES ASSUME Init PROVE ListInv
  OBVIOUS
<1>1. Mapped = {}
  BY DEF Init, Mapped
<1>2. Len(ll) = 0 /\ DOMAIN ll = {} /\ Len(playlist) = 0 /\ ~Pending
  BY EmptyIs DEF Init, Pending
<1>3. Length
  BY <1>2, HlsAssumption DEF Init, Length, Least, Pending
<1>4. Newest /\ Listed
  BY <1>1, <1>2 DEF Init, Newest, Listed, Cutting
<1>5. MapHas
  BY <1>1, <1>2, FS_EmptySet DEF Init, MapHas
<1>6. AtElement /\ Written
  BY <1>2 DEF Init, AtElement, Written
<1> QED BY <1>2, <1>3, <1>4, <1>5, <1>6 DEF ListInv, InStep

(* Steps of the sender that leave the list, the map and the numbers alone.   *)
LEMMA OtherKeepsList ==
  ASSUME SegInv, ListInv,
         Skip \/ DemuxError \/ AacSeqHeader \/ SendAudio \/ SendInter \/ SendKey \/ MuxKey \/ MapRace
  PROVE  ListInv'
<1> SUFFICES ASSUME ~reused'
             PROVE  /\ \A i \in 1 .. Len(playlist') - 1 : playlist'[i + 1] = playlist'[i] + 1
                    /\ sender' # "crashed" => InStep'
  BY DEF ListInv
<1>1. UNCHANGED <<ll, lm, seq, clock, reused, playlist>>
  BY DEF Skip, DemuxError, AacSeqHeader, SendAudio, SendInter, SendKey, MuxKey, MapRace,
         vars, cutVars, httpVars, segVars, statVars, inVars
<1>2. \A i \in 1 .. Len(playlist') - 1 : playlist'[i + 1] = playlist'[i] + 1
  BY <1>1 DEF ListInv
<1>3. CASE MapRace
  BY <1>2, <1>3 DEF MapRace
<1>4. CASE ~MapRace
  <2>1. /\ UNCHANGED http /\ sender \in {"loop", "mux"} /\ sender' \in {"loop", "ended"}
    BY <1>4 DEF Skip, DemuxError, AacSeqHeader, SendAudio, SendInter, SendKey, MuxKey, Take,
         vars, httpVars
  <2>2. InStep
    BY <1>1, <2>1 DEF ListInv
  <2>3. Mapped' = Mapped /\ ~Pending /\ ~Pending' /\ Pushed' = Pushed
    BY <1>1, <2>1 DEF Mapped, Pending, Pushed
  <2>4. Length' /\ Newest' /\ Listed' /\ MapHas'
    BY <1>1, <2>1, <2>2, <2>3 DEF InStep, Length, Newest, Listed, MapHas, Cutting
  <2>5. AtElement' /\ Written'
    BY <1>1, <2>1, <2>2, <2>3 DEF InStep, AtElement, Written
  <2> QED BY <1>2, <2>4, <2>5 DEF InStep
<1> QED BY <1>3, <1>4

(* A cut whose second is new.                                                *)
LEMMA CutKeepsList ==
  ASSUME SegInv, SegInv', ListInv, Cut
  PROVE  ListInv'
<1> SUFFICES ASSUME ~reused'
             PROVE  /\ \A i \in 1 .. Len(playlist') - 1 : playlist'[i + 1] = playlist'[i] + 1
                    /\ sender' # "crashed" => InStep'
  BY DEF ListInv
<1>1. /\ UNCHANGED <<ll, lm, http, playlist, evicted>> /\ seq' = seq + 1 /\ sender = "loop"
      /\ sender' = IF Len(ll) = MaxTSCacheNum THEN "remove" ELSE "store"
      /\ item'.name = clock' /\ clock' \in {clock, clock + 1}
      /\ ~reused /\ (seq = 0 \/ clock' # clock)
  BY DEF Cut, Take, httpVars
<1>2. InStep /\ \A i \in 1 .. Len(playlist) - 1 : playlist[i + 1] = playlist[i] + 1
  BY <1>1 DEF ListInv
<1>3. /\ seq \in Nat /\ clock \in Nat /\ clock' \in Nat /\ MaxTSCacheNum \in Nat /\ MaxTSCacheNum >= 1
      /\ Len(ll) \in Nat /\ DOMAIN ll = 1 .. Len(ll)
      /\ \A i \in DOMAIN ll : ll[i] \in Element
      /\ \A x \in Element : x.seqNum \in Nat /\ x.name \in Nat
      /\ Mapped \subseteq Nat
  BY <1>1, ListTypes DEF Mapped
<1>b. seq \in Nat /\ seq' = seq + 1 /\ clock \in Nat /\ clock' \in {clock, clock + 1} /\ (seq = 0 \/ clock' # clock)
  BY <1>1, <1>3
<1>4. Mapped' = Mapped /\ ~Pending /\ Pending' /\ Pushed = seq /\ Pushed' = seq
  <2>1. Mapped' = Mapped
    BY <1>1 DEF Mapped
  <2>2. ~Pending /\ Pending'
    BY <1>1 DEF Pending
  <2>3. Pushed = seq /\ Pushed' = seq' - 1
    BY <2>2 DEF Pushed
  <2>4. seq' - 1 = seq
    BY <1>b
  <2> QED BY <2>1, <2>2, <2>3, <2>4
<1>a. \A m \in Nat : seq # 0 /\ m <= clock => m <= clock' /\ m < clock'
  BY <1>b
<1>5. Len(ll) = Least(seq, MaxTSCacheNum)
  BY <1>1, <1>2 DEF InStep, Length
<1>6. Length'
  <2>1. CASE Len(ll) = MaxTSCacheNum
    BY <1>1, <1>3, <1>5, <2>1 DEF Length, Least, Pending
  <2>2. CASE Len(ll) # MaxTSCacheNum
    <3>1. Len(ll) = seq /\ seq < MaxTSCacheNum
      BY <1>3, <1>5, <2>2 DEF Least
    <3>2. Least(seq' - 1, MaxTSCacheNum - 1) = seq
      BY <1>1, <1>3, <3>1 DEF Least
    <3> QED BY <1>1, <1>3, <2>2, <3>1, <3>2 DEF Length, Pending
  <2> QED BY <2>1, <2>2
<1>7. seq = 0 => Mapped = {} /\ DOMAIN ll = {}
  <2>1. ASSUME seq = 0 PROVE Len(ll) = 0
    BY <1>3, <1>5, <2>1 DEF Least
  <2>2. Cardinality(Mapped) = Len(ll)
    BY <1>1, <1>2, <1>3 DEF InStep, MapHas
  <2> QED BY <1>3, <2>1, <2>2, MappedFinite, FS_EmptySet
<1>8. seq = 0 => http.at \notin {"visit", "next"}
  BY <1>2, <1>3, <1>4 DEF InStep, AtElement, SegInv, AtHand
<1>9. \A s \in Mapped : s <= clock' /\ s < clock'
  <2>1. \A s \in Mapped : s <= clock
    BY <1>2 DEF InStep, Newest
  <2> QED BY <1>3, <1>7, <1>a, <2>1
<1>10. Newest'
  <2>1. clock' \notin Mapped
    BY <1>3, <1>9
  <2>2. \A s \in Mapped : lm[s].name = s
    BY <1>2 DEF InStep, Newest
  <2> QED BY <1>1, <1>4, <1>9, <2>1, <2>2 DEF Newest
<1>11. Listed'
  <2>1. \A i \in DOMAIN ll : ll[i].name <= clock' /\ ll[i].name < clock'
    <3>1. \A i \in DOMAIN ll : ll[i].name <= clock /\ ll[i].name \in Nat
      BY <1>2, <1>3 DEF InStep, Listed
    <3> QED BY <1>7, <1>a, <3>1
  <2>2. sender' # "delete"
    BY <1>1
  <2>3. /\ \A i \in DOMAIN ll : ll[i].seqNum = seq - Len(ll) + i
        /\ \A i, j \in DOMAIN ll : i < j => ll[i].name < ll[j].name
    BY <1>2, <1>4 DEF InStep, Listed
  <2> QED BY <1>1, <1>4, <2>1, <2>2, <2>3 DEF Listed
<1>12. MapHas'
  <2>1. sender' \notin {"delete", "push"}
    BY <1>1
  <2> QED BY <1>1, <1>2, <1>4, <2>1 DEF InStep, MapHas
<1>13. AtElement'
  <2>1. http.at \in {"visit", "next"} => http.e \in Element /\ http.e.name <= clock' /\ http.e.name < clock'
    <3>1. http.at \in {"visit", "next"} => http.e \in Element /\ http.e.name <= clock
      BY <1>2 DEF InStep, AtElement, SegInv, AtHand
    <3> QED BY <1>3, <1>8, <1>a, <3>1
  <2> QED BY <1>1, <1>2, <1>4, <2>1 DEF InStep, AtElement
<1>14. Written'
  BY <1>1, <1>2 DEF InStep, Written
<1> QED BY <1>1, <1>2, <1>6, <1>10, <1>11, <1>12, <1>13, <1>14 DEF InStep

(* SetItem's four steps.                                                     *)
LEMMA RemoveKeepsList ==
  ASSUME SegInv, ListInv, SetItemRemove
  PROVE  ListInv'
<1> SUFFICES ASSUME ~reused'
             PROVE  /\ \A i \in 1 .. Len(playlist') - 1 : playlist'[i + 1] = playlist'[i] + 1
                    /\ sender' # "crashed" => InStep'
  BY DEF ListInv
<1>1. /\ UNCHANGED <<lm, http, playlist, seq, clock, item>> /\ sender = "remove" /\ sender' = "delete"
      /\ evicted' = Head(ll) /\ ll' = Tail(ll) /\ ~reused
  BY DEF SetItemRemove, httpVars
<1>2. InStep /\ \A i \in 1 .. Len(playlist) - 1 : playlist[i + 1] = playlist[i] + 1
  BY <1>1 DEF ListInv
<1>3. /\ seq \in Nat /\ MaxTSCacheNum \in Nat /\ MaxTSCacheNum >= 1
      /\ Len(ll) \in Nat /\ DOMAIN ll = 1 .. Len(ll) /\ ll \in Seq(Element) /\ ll # <<>>
      /\ Len(ll) = MaxTSCacheNum /\ seq - 1 >= MaxTSCacheNum
  BY <1>1, <1>2, ListTypes DEF InStep, Length, SegInv, AtHand
<1>4. /\ evicted' = ll[1] /\ Len(ll') = Len(ll) - 1 /\ DOMAIN ll' = 1 .. Len(ll) - 1
      /\ \A i \in 1 .. Len(ll) - 1 : ll'[i] = ll[i + 1]
  BY <1>1, <1>3, TailIs
<1>5. Mapped' = Mapped
  BY <1>1 DEF Mapped
<1>6. Pending /\ Pending' /\ Pushed = seq - 1 /\ Pushed' = seq - 1
  BY <1>1 DEF Pending, Pushed
<1>7. Length'
  <2>1. Len(ll') = Least(seq - 1, MaxTSCacheNum - 1) /\ seq >= 1
    BY <1>3, <1>4 DEF Least
  <2> QED BY <1>1, <2>1 DEF Length
<1>8. Newest'
  BY <1>1, <1>2, <1>5 DEF InStep, Newest, Cutting
<1>9. \A i \in 1 .. Len(ll) - 1 : i \in DOMAIN ll /\ i + 1 \in DOMAIN ll /\ 1 < i + 1
  BY <1>3
<1>10. Listed'
  <2>1. \A i \in DOMAIN ll' : /\ ll'[i].seqNum = (seq - 1) - Len(ll') + i
                              /\ ll'[i].name <= clock /\ ll'[i].name < clock
    <3> SUFFICES ASSUME NEW i \in 1 .. Len(ll) - 1
                 PROVE  /\ ll'[i].seqNum = (seq - 1) - Len(ll') + i
                        /\ ll'[i].name <= clock /\ ll'[i].name < clock
      BY <1>4
    <3>1. ll[i + 1].seqNum = (seq - 1) - Len(ll) + (i + 1)
      BY <1>2, <1>6, <1>9 DEF InStep, Listed
    <3>2. ll[i + 1].name <= clock /\ ll[i + 1].name < clock
      BY <1>2, <1>6, <1>9 DEF InStep, Listed
    <3>3. (seq - 1) - Len(ll) + (i + 1) = (seq - 1) - Len(ll') + i
      BY <1>3, <1>4
    <3> QED BY <1>4, <3>1, <3>2, <3>3
  <2>2. \A i, j \in DOMAIN ll' : i < j => ll'[i].name < ll'[j].name
    <3> SUFFICES ASSUME NEW i \in 1 .. Len(ll) - 1, NEW j \in 1 .. Len(ll) - 1, i < j
                 PROVE  ll[i + 1].name < ll[j + 1].name
      BY <1>4
    <3>1. i + 1 < j + 1
      OBVIOUS
    <3> QED BY <1>2, <1>9, <3>1 DEF InStep, Listed
  <2>3. 1 \in DOMAIN ll
    BY <1>3
  <2>4. ll[1].seqNum = (seq - 1) - Len(ll) + 1
    BY <1>2, <1>6, <2>3 DEF InStep, Listed
  <2>5. (seq - 1) - Len(ll) + 1 = (seq - 1) - Len(ll')
    BY <1>3, <1>4
  <2>6. ll[1].name \in Mapped
    BY <1>2, <2>3 DEF InStep, MapHas
  <2>7. \A i \in DOMAIN ll' : ll[1].name < ll'[i].name
    BY <1>2, <1>4, <1>9, <2>3 DEF InStep, Listed
  <2> QED BY <1>1, <1>4, <1>5, <1>6, <2>1, <2>2, <2>4, <2>5, <2>6, <2>7 DEF Listed
<1>11. MapHas'
  <2>1. \A i \in DOMAIN ll' : ll'[i].name \in Mapped /\ lm[ll'[i].name].seqNum = ll'[i].seqNum
    BY <1>2, <1>4, <1>9 DEF InStep, MapHas
  <2>2. Cardinality(Mapped) = Len(ll') + 1
    <3>1. Cardinality(Mapped) = Len(ll) + 0
      BY <1>1, <1>2 DEF InStep, MapHas
    <3> QED BY <1>3, <1>4, <3>1
  <2> QED BY <1>1, <1>5, <2>1, <2>2 DEF MapHas
<1>12. AtElement'
  BY <1>1, <1>2, <1>5, <1>6 DEF InStep, AtElement
<1>13. Written'
  <2>1. (\A i \in DOMAIN ll : ll[i] # http.e) => \A i \in DOMAIN ll' : ll'[i] # http.e
    BY <1>4, <1>9
  <2> QED BY <1>1, <1>2, <2>1 DEF InStep, Written
<1> QED BY <1>1, <1>2, <1>7, <1>8, <1>10, <1>11, <1>12, <1>13 DEF InStep

LEMMA DeleteKeepsList ==
  ASSUME SegInv, ListInv, SetItemDelete
  PROVE  ListInv'
<1> SUFFICES ASSUME ~reused'
             PROVE  /\ \A i \in 1 .. Len(playlist') - 1 : playlist'[i + 1] = playlist'[i] + 1
                    /\ sender' # "crashed" => InStep'
  BY DEF ListInv
<1>1. /\ UNCHANGED <<ll, http, playlist, seq, clock, item>> /\ sender = "delete" /\ sender' = "store"
      /\ lm' = [lm EXCEPT ![evicted.name] = None] /\ ~reused
  BY DEF SetItemDelete, httpVars
<1>2. InStep /\ \A i \in 1 .. Len(playlist) - 1 : playlist[i + 1] = playlist[i] + 1
  BY <1>1 DEF ListInv
<1>3. lm \in [Seconds -> TSItem \cup {None}] /\ Len(ll) \in Nat
  BY ListTypes
<1>4. /\ evicted.name \in Mapped /\ evicted.name \in Seconds
      /\ \A i \in DOMAIN ll : evicted.name # ll[i].name
  <2>1. evicted \in Element /\ evicted.name \in Nat /\ \A i \in DOMAIN ll : ll[i].name \in Nat
    BY <1>1, ListTypes DEF SegInv, AtHand
  <2>2. evicted.name \in Mapped /\ \A i \in DOMAIN ll : evicted.name < ll[i].name
    BY <1>1, <1>2 DEF InStep, Listed
  <2> QED BY <2>1, <2>2 DEF Mapped
<1>5. Mapped' = Mapped \ {evicted.name} /\ \A s \in Mapped' : lm'[s] = lm[s]
  BY <1>1, <1>3, <1>4 DEF Mapped
<1>6. Pending /\ Pending' /\ Pushed = seq - 1 /\ Pushed' = seq - 1
  BY <1>1 DEF Pending, Pushed
<1>7. Length'
  BY <1>1, <1>2 DEF InStep, Length, Pending
<1>8. Newest'
  BY <1>1, <1>2, <1>5 DEF InStep, Newest, Cutting
<1>9. Listed'
  BY <1>1, <1>2, <1>6 DEF InStep, Listed
<1>10. MapHas'
  <2>1. \A i \in DOMAIN ll : ll[i].name \in Mapped' /\ lm'[ll[i].name].seqNum = ll[i].seqNum
    BY <1>2, <1>4, <1>5 DEF InStep, MapHas
  <2>2. Cardinality(Mapped) = Len(ll) + 1
    BY <1>1, <1>2 DEF InStep, MapHas
  <2>3. Cardinality(Mapped \ {evicted.name}) = Cardinality(Mapped) - 1
    BY <1>4, MappedFinite, FS_RemoveElement
  <2>4. Cardinality(Mapped') = Len(ll) + 0
    BY <1>3, <1>5, <2>2, <2>3
  <2> QED BY <1>1, <2>1, <2>4 DEF MapHas
<1>11. AtElement'
  BY <1>1, <1>2, <1>5, <1>6 DEF InStep, AtElement
<1>12. Written'
  BY <1>1, <1>2 DEF InStep, Written
<1> QED BY <1>1, <1>2, <1>7, <1>8, <1>9, <1>10, <1>11, <1>12 DEF InStep

LEMMA StoreKeepsList ==
  ASSUME SegInv, ListInv, SetItemStore
  PROVE  ListInv'
<1> SUFFICES ASSUME ~reused'
             PROVE  /\ \A i \in 1 .. Len(playlist') - 1 : playlist'[i + 1] = playlist'[i] + 1
                    /\ sender' # "crashed" => InStep'
  BY DEF ListInv
<1>1. /\ UNCHANGED <<ll, http, playlist, seq, clock, item, evicted>> /\ sender = "store" /\ sender' = "push"
      /\ lm' = [lm EXCEPT ![item.name] = item] /\ ~reused
  BY DEF SetItemStore, httpVars, cutVars
<1>2. InStep /\ \A i \in 1 .. Len(playlist) - 1 : playlist[i + 1] = playlist[i] + 1
  BY <1>1 DEF ListInv
<1>3. /\ lm \in [Seconds -> TSItem \cup {None}] /\ Len(ll) \in Nat /\ clock \in Nat /\ clock \in Seconds
      /\ \A i \in DOMAIN ll : ll[i].name \in Nat
  BY ListTypes
<1>4. item \in TSItem /\ item.name = clock /\ clock \notin Mapped
  BY <1>1, <1>2 DEF InStep, Newest, Cutting, SegInv, OpenPart
<1>5. item # None
  BY <1>4, NilAssumption
<1>6. Mapped' = Mapped \cup {clock} /\ lm'[clock] = item /\ \A s \in Mapped : lm'[s] = lm[s]
  BY <1>1, <1>3, <1>4, <1>5 DEF Mapped
<1>7. Pending /\ Pending' /\ Pushed = seq - 1 /\ Pushed' = seq - 1
  BY <1>1 DEF Pending, Pushed
<1>8. Length'
  BY <1>1, <1>2 DEF InStep, Length, Pending
<1>9. Newest'
  BY <1>1, <1>2, <1>3, <1>4, <1>6 DEF InStep, Newest, Cutting
<1>10. Listed'
  BY <1>1, <1>2, <1>7 DEF InStep, Listed
<1>11. MapHas'
  <2>1. \A i \in DOMAIN ll : ll[i].name \in Mapped' /\ lm'[ll[i].name].seqNum = ll[i].seqNum
    BY <1>2, <1>6 DEF InStep, MapHas
  <2>2. Cardinality(Mapped) = Len(ll) + 0
    BY <1>1, <1>2 DEF InStep, MapHas
  <2>3. Cardinality(Mapped \cup {clock}) = Cardinality(Mapped) + 1
    BY <1>4, MappedFinite, FS_AddElement
  <2>4. Cardinality(Mapped') = Len(ll) + 1
    BY <1>3, <1>6, <2>2, <2>3
  <2> QED BY <1>1, <1>6, <2>1, <2>4 DEF MapHas
<1>12. AtElement'
  <2>1. http.at \in {"visit", "next"} => http.e.name # clock
    BY <1>2, <1>3, <1>7, ListTypes DEF InStep, AtElement, SegInv, AtHand
  <2> QED BY <1>1, <1>2, <1>6, <1>7, <2>1 DEF InStep, AtElement
<1>13. Written'
  BY <1>1, <1>2 DEF InStep, Written
<1> QED BY <1>1, <1>2, <1>8, <1>9, <1>10, <1>11, <1>12, <1>13 DEF InStep

LEMMA PushKeepsList ==
  ASSUME SegInv, ListInv, SetItemPush
  PROVE  ListInv'
<1> SUFFICES ASSUME ~reused'
             PROVE  /\ \A i \in 1 .. Len(playlist') - 1 : playlist'[i + 1] = playlist'[i] + 1
                    /\ sender' # "crashed" => InStep'
  BY DEF ListInv
<1> DEFINE x == [seqNum |-> item.seqNum, name |-> item.name]
<1>1. /\ UNCHANGED <<lm, http, playlist, seq, clock, item, evicted>> /\ sender = "push" /\ sender' = "mux"
      /\ ll' = Append(ll, x) /\ ~reused
  BY DEF SetItemPush, httpVars, cutVars
<1>2. InStep /\ \A i \in 1 .. Len(playlist) - 1 : playlist[i + 1] = playlist[i] + 1
  BY <1>1 DEF ListInv
<1>3. /\ Len(ll) \in Nat /\ DOMAIN ll = 1 .. Len(ll) /\ ll \in Seq(Element) /\ clock \in Nat /\ clock \in Seconds
      /\ seq \in Nat /\ MaxTSCacheNum \in Nat /\ MaxTSCacheNum >= 1
  BY ListTypes
<1>4. item \in TSItem /\ item.name = clock /\ item.seqNum = seq /\ lm[clock] = item
  BY <1>1, <1>2 DEF InStep, Newest, MapHas, Cutting, SegInv, OpenPart
<1>5. x.seqNum = seq /\ x.name = clock /\ x \in Element
  BY <1>3, <1>4 DEF Element
<1> HIDE DEF x
<1>6. /\ Len(ll') = Len(ll) + 1 /\ DOMAIN ll' = 1 .. Len(ll) + 1
      /\ \A i \in 1 .. Len(ll) : ll'[i] = ll[i]
      /\ ll'[Len(ll) + 1] = x
  BY <1>1, <1>3, <1>5, AppendIs
<1>7. Mapped' = Mapped /\ clock \in Mapped
  BY <1>1, <1>3, <1>4, NilAssumption DEF Mapped
<1>8. Pending /\ ~Pending' /\ Pushed = seq - 1 /\ Pushed' = seq
  BY <1>1 DEF Pending, Pushed
<1>9. Length'
  <2>1. Len(ll) = Least(seq - 1, MaxTSCacheNum - 1)
    BY <1>1, <1>2 DEF InStep, Length
  <2>2. Len(ll') = Least(seq, MaxTSCacheNum)
    BY <1>3, <1>6, <2>1 DEF Least
  <2> QED BY <1>1, <1>8, <2>2 DEF Length
<1>10. Newest'
  BY <1>1, <1>2, <1>7 DEF InStep, Newest, Cutting
<1>11. \A i \in 1 .. Len(ll) + 1 : i = Len(ll) + 1 \/ i \in DOMAIN ll
  BY <1>3
<1>12. Listed'
  <2>1. \A i \in DOMAIN ll : ll[i].seqNum = seq - (Len(ll) + 1) + i /\ ll[i].name < clock /\ ll[i].name <= clock
    <3>1. \A i \in DOMAIN ll : ll[i].seqNum = (seq - 1) - Len(ll) + i
      BY <1>2, <1>8 DEF InStep, Listed
    <3>2. \A i \in DOMAIN ll : (seq - 1) - Len(ll) + i = seq - (Len(ll) + 1) + i
      BY <1>3
    <3>3. \A i \in DOMAIN ll : ll[i].name < clock /\ ll[i].name <= clock
      BY <1>2, <1>8 DEF InStep, Listed
    <3> QED BY <3>1, <3>2, <3>3
  <2>2. \A i \in DOMAIN ll' : ll'[i].seqNum = seq - Len(ll') + i /\ ll'[i].name <= clock
    <3> SUFFICES ASSUME NEW i \in 1 .. Len(ll) + 1
                 PROVE  ll'[i].seqNum = seq - (Len(ll) + 1) + i /\ ll'[i].name <= clock
      BY <1>6
    <3>1. CASE i = Len(ll) + 1
      <4>1. seq = seq - (Len(ll) + 1) + i /\ clock <= clock
        BY <1>3, <3>1
      <4> QED BY <1>5, <1>6, <3>1, <4>1
    <3>2. CASE i \in DOMAIN ll
      BY <1>3, <1>6, <2>1, <3>2
    <3> QED BY <1>11, <3>1, <3>2
  <2>3. \A i, j \in DOMAIN ll' : i < j => ll'[i].name < ll'[j].name
    <3> SUFFICES ASSUME NEW i \in 1 .. Len(ll) + 1, NEW j \in 1 .. Len(ll) + 1, i < j
                 PROVE  ll'[i].name < ll'[j].name
      BY <1>6
    <3>1. i \in DOMAIN ll
      BY <1>3
    <3>2. CASE j = Len(ll) + 1
      BY <1>3, <1>5, <1>6, <2>1, <3>1, <3>2
    <3>3. CASE j \in DOMAIN ll
      <4>1. ll[i].name < ll[j].name
        BY <1>2, <3>1, <3>3 DEF InStep, Listed
      <4> QED BY <1>3, <1>6, <3>1, <3>3, <4>1
    <3> QED BY <1>11, <3>2, <3>3
  <2> QED BY <1>1, <1>8, <2>2, <2>3 DEF Listed
<1>13. MapHas'
  <2>1. \A i \in DOMAIN ll' : ll'[i].name \in Mapped /\ lm[ll'[i].name].seqNum = ll'[i].seqNum
    <3> SUFFICES ASSUME NEW i \in 1 .. Len(ll) + 1
                 PROVE  ll'[i].name \in Mapped /\ lm[ll'[i].name].seqNum = ll'[i].seqNum
      BY <1>6
    <3>1. CASE i = Len(ll) + 1
      BY <1>4, <1>5, <1>6, <1>7, <3>1
    <3>2. CASE i \in DOMAIN ll
      BY <1>2, <1>3, <1>6, <3>2 DEF InStep, MapHas
    <3> QED BY <1>11, <3>1, <3>2
  <2>2. Cardinality(Mapped) = Len(ll) + 1
    BY <1>1, <1>2 DEF InStep, MapHas
  <2>3. Cardinality(Mapped) = Len(ll') + 0
    BY <1>3, <1>6, <2>2
  <2> QED BY <1>1, <1>7, <2>1, <2>3 DEF MapHas
<1>14. http.at \in {"visit", "next"} => http.e \in Element /\ http.e.seqNum \in Nat /\ http.e.seqNum <= seq - 1
  BY <1>2, <1>8, ListTypes DEF InStep, AtElement, SegInv, AtHand
<1>15. AtElement'
  <2>1. http.at \in {"visit", "next"} => http.e.seqNum <= seq
    BY <1>3, <1>14
  <2> QED BY <1>1, <1>2, <1>7, <1>8, <2>1 DEF InStep, AtElement
<1>16. Written'
  <2>1. http.at = "next" => http.e # x
    BY <1>3, <1>5, <1>14
  <2>2. http.at = "next" /\ (\A i \in DOMAIN ll : ll[i] # http.e) => \A i \in DOMAIN ll' : ll'[i] # http.e
    BY <1>3, <1>6, <1>11, <2>1
  <2> QED BY <1>1, <1>2, <2>2 DEF InStep, Written
<1> QED BY <1>1, <1>2, <1>9, <1>10, <1>12, <1>13, <1>15, <1>16 DEF InStep

(* The handler's steps.                                                      *)
LEMMA HandlerKeepsList ==
  ASSUME UNCHANGED <<sender, seq, clock, item, evicted, ll, lm>>, InStep, AtElement', Written'
  PROVE  InStep'
<1>1. Mapped' = Mapped /\ (Pending' <=> Pending) /\ Pushed' = Pushed /\ (Cutting' <=> Cutting)
  BY DEF Mapped, Pending, Pushed, Cutting
<1> QED BY <1>1 DEF InStep, Length, Newest, Listed, MapHas

LEMMA FrontKeepsList ==
  ASSUME SegInv, ListInv, PlaylistFront
  PROVE  ListInv'
<1> SUFFICES ASSUME ~reused'
             PROVE  /\ \A i \in 1 .. Len(playlist') - 1 : playlist'[i + 1] = playlist'[i] + 1
                    /\ sender' # "crashed" => InStep'
  BY DEF ListInv
<1>1. /\ UNCHANGED <<sender, seq, clock, item, evicted, ll, lm>> /\ playlist' = <<>> /\ ~reused
      /\ http.at = "idle"
      /\ \/ ll # <<>> /\ http' = [at |-> "visit", e |-> Head(ll)]
         \/ http' = http
  BY DEF PlaylistFront, cutVars
<1>2. \A i \in 1 .. Len(playlist') - 1 : playlist'[i + 1] = playlist'[i] + 1
  <2>1. Len(playlist') = 0
    BY <1>1, EmptyIs
  <2> QED BY <2>1
<1>3. ASSUME sender # "crashed" PROVE InStep'
  <2>1. InStep
    BY <1>1, <1>3 DEF ListInv
  <2>2. Written'
    BY <1>1, <1>2 DEF Written
  <2>3. AtElement'
    <3>1. CASE http' = http
      BY <1>1, <3>1 DEF AtElement
    <3>2. CASE ll # <<>> /\ http' = [at |-> "visit", e |-> Head(ll)]
      <4>1. /\ seq \in Nat /\ MaxTSCacheNum \in Nat /\ Len(ll) \in Nat /\ Len(ll) >= 1 /\ DOMAIN ll = 1 .. Len(ll)
            /\ Head(ll) = ll[1]
        BY <3>2, ListTypes, TailIs
      <4>2. 1 \in DOMAIN ll
        BY <4>1
      <4>3. /\ ll[1].seqNum = Pushed - Len(ll) + 1
            /\ ll[1].name <= clock /\ (Pending => ll[1].name < clock)
            /\ lm[ll[1].name].seqNum = ll[1].seqNum
        BY <2>1, <4>2 DEF InStep, Listed, MapHas
      <4>4. Pushed \in Int /\ Len(ll) <= Pushed
        <5>1. sender \in {"loop", "ended", "mux", "remove", "delete", "store", "push"}
          BY <1>3 DEF SegInv, TypeOK
        <5>2. CASE sender \in {"loop", "ended", "mux"}
          <6>1. Pushed = seq
            BY <5>2 DEF Pushed, Pending
          <6>2. Len(ll) = Least(seq, MaxTSCacheNum)
            BY <2>1, <5>2 DEF InStep, Length
          <6> QED BY <4>1, <6>1, <6>2 DEF Least
        <5>3. CASE sender = "remove"
          BY <2>1, <4>1, <5>3 DEF InStep, Length, Pushed, Pending
        <5>4. CASE sender \in {"delete", "store", "push"}
          <6>1. Pushed = seq - 1
            BY <5>4 DEF Pushed, Pending
          <6>2. Len(ll) = Least(seq - 1, MaxTSCacheNum - 1) /\ seq >= 1
            BY <2>1, <5>4 DEF InStep, Length, Pending
          <6> QED BY <4>1, <6>1, <6>2 DEF Least
        <5> QED BY <5>1, <5>2, <5>3, <5>4
      <4>5. 1 <= ll[1].seqNum /\ ll[1].seqNum <= Pushed
        BY <4>1, <4>3, <4>4
      <4>6. Mapped' = Mapped /\ (Pending' <=> Pending) /\ Pushed' = Pushed
        BY <1>1 DEF Mapped, Pending, Pushed
      <4>7. http'.e = ll[1]
        BY <3>2, <4>1
      <4> QED BY <1>1, <4>3, <4>5, <4>6, <4>7 DEF AtElement
    <3> QED BY <1>1, <3>1, <3>2
  <2> QED BY <1>1, <2>1, <2>2, <2>3, HandlerKeepsList
<1> QED BY <1>1, <1>2, <1>3

LEMMA VisitKeepsList ==
  ASSUME SegInv, ListInv, PlaylistVisit
  PROVE  ListInv'
<1> SUFFICES ASSUME ~reused'
             PROVE  /\ \A i \in 1 .. Len(playlist') - 1 : playlist'[i + 1] = playlist'[i] + 1
                    /\ sender' # "crashed" => InStep'
  BY DEF ListInv
<1> DEFINE e == http.e
<1>1. /\ UNCHANGED <<sender, seq, clock, item, evicted, ll, lm>> /\ ~reused /\ http.at = "visit"
      /\ playlist' = IF lm[e.name] = None THEN playlist ELSE Append(playlist, lm[e.name].seqNum)
  BY DEF PlaylistVisit, cutVars
<1>2. http'.at = "next" /\ http'.e = e
  BY DEF PlaylistVisit, SegInv, TypeOK
<1>3. e \in Element /\ e.name \in Seconds /\ e.seqNum \in Nat
  BY <1>1, ListTypes DEF SegInv, AtHand
<1>4. /\ playlist \in Seq(Nat) /\ Len(playlist) \in Nat /\ DOMAIN playlist = 1 .. Len(playlist)
      /\ \A i \in 1 .. Len(playlist) - 1 : playlist[i + 1] = playlist[i] + 1
  BY <1>1, ListTypes, SeqIs DEF ListInv
<1>5. sender # "crashed"
  BY <1>1 DEF SegInv, AtHand
<1>6. InStep
  BY <1>1, <1>5 DEF ListInv
<1>7. Mapped' = Mapped /\ (Pending' <=> Pending) /\ Pushed' = Pushed
  BY <1>1 DEF Mapped, Pending, Pushed
<1> HIDE DEF e
<1>8. AtElement'
  BY <1>1, <1>2, <1>6, <1>7 DEF InStep, AtElement, e
<1>9. Written'
  <2>1. CASE lm[e.name] = None
    <3>1. e.name \notin Mapped
      BY <2>1 DEF Mapped
    <3>2. \A i \in DOMAIN ll : ll[i] # e
      BY <1>6, <3>1 DEF InStep, MapHas
    <3> QED BY <1>1, <1>2, <1>4, <2>1, <3>2 DEF Written
  <2>2. CASE lm[e.name] # None
    <3>1. e.name \in Mapped
      BY <1>3, <2>2 DEF Mapped
    <3>2. lm[e.name].seqNum = e.seqNum
      BY <1>1, <1>6, <3>1 DEF InStep, AtElement, e
    <3>3. playlist' = Append(playlist, e.seqNum)
      BY <1>1, <2>2, <3>2
    <3>4. /\ Len(playlist') = Len(playlist) + 1
          /\ \A i \in 1 .. Len(playlist) : playlist'[i] = playlist[i]
          /\ playlist'[Len(playlist) + 1] = e.seqNum
      BY <1>3, <1>4, <3>3, AppendIs
    <3>5. Len(playlist) >= 1 => playlist[Len(playlist)] = e.seqNum - 1
      <4>1. Len(playlist) >= 1 => playlist # <<>>
        BY <1>4, EmptyIs
      <4> QED BY <1>1, <1>6, <4>1 DEF InStep, Written, e
    <3>6. ASSUME NEW i \in 1 .. Len(playlist') - 1 PROVE playlist'[i + 1] = playlist'[i] + 1
      <4>0. i \in 1 .. Len(playlist) /\ Len(playlist) >= 1
        BY <1>4, <3>4
      <4>1. CASE i = Len(playlist)
        <5>1. playlist'[i] = e.seqNum - 1 /\ playlist'[i + 1] = e.seqNum
          BY <3>4, <3>5, <4>0, <4>1
        <5> QED BY <1>3, <5>1
      <4>2. CASE i # Len(playlist)
        <5>1. i \in 1 .. Len(playlist) - 1 /\ i + 1 \in 1 .. Len(playlist)
          <6>1. Len(playlist) \in Nat
            BY <1>4
          <6> QED BY <4>0, <4>2, <6>1
        <5> QED BY <1>4, <3>4, <4>0, <5>1
      <4> QED BY <4>1, <4>2
    <3> QED BY <1>2, <3>4, <3>6 DEF Written
  <2> QED BY <2>1, <2>2
<1>10. InStep'
  BY <1>1, <1>6, <1>8, <1>9, HandlerKeepsList
<1> QED BY <1>9, <1>10 DEF Written

LEMMA NextKeepsList ==
  ASSUME SegInv, ListInv, PlaylistNext
  PROVE  ListInv'
<1> SUFFICES ASSUME ~reused'
             PROVE  /\ \A i \in 1 .. Len(playlist') - 1 : playlist'[i + 1] = playlist'[i] + 1
                    /\ sender' # "crashed" => InStep'
  BY DEF ListInv
<1>1. UNCHANGED <<sender, seq, clock, item, evicted, ll, lm, playlist>> /\ ~reused /\ http.at = "next"
  BY DEF PlaylistNext, cutVars
<1>2. /\ InStep
      /\ \A i \in 1 .. Len(playlist) - 1 : playlist[i + 1] = playlist[i] + 1
  BY <1>1 DEF ListInv, SegInv, AtHand
<1>3. Mapped' = Mapped /\ (Pending' <=> Pending) /\ Pushed' = Pushed
  BY <1>1 DEF Mapped, Pending, Pushed
<1>4. CASE http' = [at |-> "idle", e |-> None]
  <2>1. AtElement' /\ Written'
    BY <1>1, <1>2, <1>4 DEF AtElement, Written
  <2> QED BY <1>1, <1>2, <2>1, HandlerKeepsList
<1>5. ASSUME NEW i \in 1 .. Len(ll) - 1, ll[i] = http.e, http' = [at |-> "visit", e |-> ll[i + 1]]
      PROVE  InStep'
  <2>1. Len(ll) \in Nat /\ DOMAIN ll = 1 .. Len(ll) /\ seq \in Nat /\ \A k \in DOMAIN ll : ll[k].seqNum \in Nat
    BY ListTypes
  <2>2. i \in DOMAIN ll /\ i + 1 \in DOMAIN ll
    BY <2>1
  <2>3. Pushed \in Int
    BY <2>1 DEF Pushed
  <2>4. ll[i].seqNum = Pushed - Len(ll) + i /\ ll[i + 1].seqNum = Pushed - Len(ll) + (i + 1)
    BY <1>2, <2>2 DEF InStep, Listed
  <2>5. ll[i + 1].seqNum = http.e.seqNum + 1 /\ ll[i + 1].seqNum <= Pushed /\ 1 <= ll[i + 1].seqNum
    BY <1>5, <2>1, <2>2, <2>3, <2>4
  <2>6. /\ ll[i + 1].name <= clock /\ (Pending => ll[i + 1].name < clock)
        /\ lm[ll[i + 1].name].seqNum = ll[i + 1].seqNum
    BY <1>2, <2>2 DEF InStep, Listed, MapHas
  <2>7. http'.at = "visit" /\ http'.e = ll[i + 1]
    BY <1>5
  <2>8. AtElement'
    BY <1>1, <1>3, <2>5, <2>6, <2>7 DEF AtElement
  <2>9. playlist # <<>> => playlist[Len(playlist)] = http.e.seqNum
    BY <1>1, <1>2, <1>5, <2>2 DEF InStep, Written
  <2>10. http.e.seqNum \in Nat
    BY <1>5, <2>1, <2>2
  <2>11. http.e.seqNum = ll[i + 1].seqNum - 1
    BY <2>5, <2>10
  <2>12. Written'
    BY <1>1, <1>2, <2>7, <2>9, <2>11 DEF Written
  <2> QED BY <1>1, <1>2, <2>8, <2>12, HandlerKeepsList
<1> QED BY <1>1, <1>2, <1>4, <1>5 DEF PlaylistNext

LEMMA ListStep == SegInv /\ SegInv' /\ ListInv /\ [Next]_vars => ListInv'
<1> SUFFICES ASSUME SegInv, SegInv', ListInv, [Next]_vars PROVE ListInv'
  OBVIOUS
<1>1. CASE Next
  BY <1>1, OtherKeepsList, CutKeepsList, RemoveKeepsList, DeleteKeepsList, StoreKeepsList, PushKeepsList,
     FrontKeepsList, VisitKeepsList, NextKeepsList DEF Next, Sender, GenM3U8PlayList
<1>2. CASE UNCHANGED vars
  <2>1. UNCHANGED <<sender, seq, clock, item, evicted, ll, lm, reused, http, playlist>>
    BY <1>2 DEF vars, cutVars, httpVars
  <2>2. Mapped' = Mapped /\ (Pending' <=> Pending) /\ Pushed' = Pushed
    BY <2>1 DEF Mapped, Pending, Pushed
  <2>3. InStep => AtElement' /\ Written'
    BY <2>1, <2>2 DEF InStep, AtElement, Written
  <2> QED BY <2>1, <2>3, HandlerKeepsList DEF ListInv
<1> QED BY <1>1, <1>2

(* For every number of segments kept, with SetItem and GenM3U8PlayList       *)
(* interleaved in any way: between two packets the list and the map agree,   *)
(* and a playlist, short or not, never skips a segment - as long as no two   *)
(* segments were cut in one second and share a name.                         *)
THEOREM PlaylistsAlwaysContiguous == Spec => []PlaylistContiguous
<1>1. SegInv /\ ListInv => PlaylistContiguous
  <2> SUFFICES ASSUME SegInv, ListInv PROVE PlaylistContiguous
    OBVIOUS
  <2>1. ASSUME ~reused, sender = "loop"
        PROVE  /\ Len(ll) = IF seq < MaxTSCacheNum THEN seq ELSE MaxTSCacheNum
               /\ \A i \in DOMAIN ll :
                    /\ ll[i].seqNum = seq - Len(ll) + i
                    /\ lm[ll[i].name] # None /\ lm[ll[i].name].seqNum = ll[i].seqNum
               /\ Cardinality({s \in Seconds : lm[s] # None}) = Len(ll)
    <3>1. InStep
      BY <2>1 DEF ListInv
    <3>2. Pushed = seq
      BY <2>1 DEF Pushed, Pending
    <3>3. Len(ll) = IF seq < MaxTSCacheNum THEN seq ELSE MaxTSCacheNum
      BY <2>1, <3>1 DEF InStep, Length, Least
    <3>4. \A i \in DOMAIN ll : ll[i].seqNum = seq - Len(ll) + i
      BY <3>1, <3>2 DEF InStep, Listed
    <3>5. \A i \in DOMAIN ll : lm[ll[i].name] # None /\ lm[ll[i].name].seqNum = ll[i].seqNum
      BY <3>1 DEF InStep, MapHas, Mapped
    <3>6. Cardinality(Mapped) = Len(ll) + 0 /\ Len(ll) \in Nat
      BY <2>1, <3>1, ListTypes DEF InStep, MapHas
    <3> QED BY <3>3, <3>4, <3>5, <3>6 DEF Mapped
  <2> QED BY <2>1 DEF PlaylistContiguous, ListMapAgree, ListInv
<1>2. Init => SegInv /\ ListInv
  BY SegInitially, ListInitially
<1>3. SegInv /\ ListInv /\ [Next]_vars => (SegInv /\ ListInv)'
  BY SegStep, ListStep
<1> QED BY <1>1, <1>2, <1>3, PTL DEF Spec
=============================================================================
