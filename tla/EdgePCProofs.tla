---------------------------- MODULE EdgePCProofs ----------------------------
(* Proofs about the Edge connection, for any number of m-lines, candidates,  *)
(* calls and timers.                                                         *)
EXTENDS EdgePC, WellFoundedInduction, TLAPS

-----------------------------------------------------------------------------
(* Induction. The library states it with an operator as a parameter; here it *)
(* comes from the least element every set of naturals has.                   *)
LEMMA LeastNat ==
  ASSUME NEW T \in SUBSET Nat, T # {}
  PROVE  \E x \in T : \A y \in T : x <= y
<1> DEFINE R == {ss \in Nat \X Nat : ss[1] < ss[2]}
<1>1. IsWellFoundedOn(R, Nat)
  BY NatLessThanWellFounded, Zenon DEF OpToRel
<1>2. \A y, x \in Nat : y < x => <<y, x>> \in R
  OBVIOUS
<1> HIDE DEF R
<1>3. PICK x \in T : \A y \in T : ~(<<y, x>> \in R)
  BY <1>1, WFMin, Zenon
<1>4. \A y \in T : x <= y
  <2> TAKE y \in T
  <2>1. ~(y < x)
    BY <1>2, <1>3
  <2> QED BY <2>1
<1> QED BY <1>4

(* What holds at 0 and is handed on up to n holds from 0 to n.               *)
LEMMA UpTo ==
  ASSUME NEW n \in Nat, NEW S, 0 \in S, \A k \in 0 .. n : k # n /\ k \in S => k + 1 \in S
  PROVE  \A k \in 0 .. n : k \in S
<1> SUFFICES ASSUME NEW k \in 0 .. n, k \notin S
             PROVE  FALSE
  OBVIOUS
<1> DEFINE T == {m \in 0 .. n : m \notin S}
<1>1. T \in SUBSET Nat /\ T # {}
  OBVIOUS
<1>2. PICK x \in T : \A y \in T : x <= y
  <2> HIDE DEF T
  <2> QED BY <1>1, LeastNat
<1>3. x # 0 /\ x \in 0 .. n
  BY <1>2
<1>4. x - 1 \in 0 .. n /\ x - 1 \in S
  BY <1>2, <1>3
<1> QED BY <1>2, <1>3, <1>4

(* Min and Max of the m-lines are among them.                                *)
LEMMA MinIs ==
  ASSUME NEW T \in SUBSET Nat, T # {}
  PROVE  Min(T) \in T /\ \A y \in T : Min(T) <= y
<1>1. \E x \in T : \A y \in T : x <= y
  BY LeastNat
<1> QED BY <1>1 DEF Min

LEMMA MaxIs ==
  ASSUME NEW n \in Nat, NEW T \in SUBSET (1 .. n), T # {}
  PROVE  Max(T) \in T /\ \A y \in T : Max(T) >= y
<1> DEFINE D == {n - x : x \in T}
<1>1. D \in SUBSET Nat /\ D # {}
  OBVIOUS
<1>2. PICK d \in D : \A e \in D : d <= e
  <2> HIDE DEF D
  <2> QED BY <1>1, LeastNat
<1>3. PICK x \in T : d = n - x
  BY <1>2
<1>4. \A y \in T : x >= y
  <2> TAKE y \in T
  <2>1. n - y \in D
    OBVIOUS
  <2>2. n - x <= n - y
    BY <1>2, <1>3, <2>1
  <2> QED BY <2>2
<1>5. \E m \in T : \A y \in T : m >= y
  BY <1>4
<1> QED BY <1>5 DEF Max

(* The passes over the m-lines, the sections or the events: the recursive    *)
(* function behind each one has the values its definition says.              *)
LEMMA OfferLinesAre ==
  ASSUME NEW w, NEW want, Len(w.lines) \in Nat
  PROVE  \E f : /\ f[0] = w /\ f[Len(w.lines)] = OfferLines(w, want)
                /\ \A i \in 1 .. Len(w.lines) : f[i] = OfferLine(f[i - 1], i, want)
<1> DEFINE N == Len(w.lines)
           Fits(f, m) == f = [i \in 0 .. m |-> IF i = 0 THEN w ELSE OfferLine(f[i - 1], i, want)]
           S == {m \in 0 .. N : \E f : Fits(f, m)}
<1>1. 0 \in S
  <2>1. Fits([i \in 0 .. 0 |-> w], 0)
    OBVIOUS
  <2>2. \E f : Fits(f, 0)
    BY <2>1
  <2> QED BY <2>2
<1>2. ASSUME NEW m \in 0 .. N, m # N, m \in S
      PROVE  m + 1 \in S
  <2>1. PICK f : Fits(f, m)
    BY <1>2
  <2> DEFINE h == [i \in 0 .. m + 1 |-> IF i <= m THEN f[i] ELSE OfferLine(f[m], m + 1, want)]
  <2>2. \A i \in 0 .. m + 1 : h[i] = IF i = 0 THEN w ELSE OfferLine(h[i - 1], i, want)
    BY <2>1
  <2>3. Fits(h, m + 1)
    BY <2>2
  <2> HIDE DEF h, Fits
  <2> QED BY <1>2, <2>3
<1>3. PICK f : Fits(f, N)
  <2>1. \A m \in 0 .. N : m \in S
    <3> HIDE DEF S
    <3> QED BY <1>1, <1>2, UpTo
  <2> QED BY <2>1
<1>4. Fits(CHOOSE e : Fits(e, N), N)
  <2> HIDE DEF Fits
  <2> QED BY <1>3
<1>5. OfferLines(w, want) = (CHOOSE e : Fits(e, N))[N]
  BY Zenon DEF OfferLines, ForEach
<1>6. PICK e : Fits(e, N) /\ OfferLines(w, want) = e[N]
  <2> HIDE DEF Fits
  <2> QED BY <1>4, <1>5
<1>7. e[0] = w /\ \A i \in 1 .. N : e[i] = OfferLine(e[i - 1], i, want)
  BY <1>6
<1> QED BY <1>6, <1>7

LEMMA GatherLinesAre ==
  ASSUME NEW n, n \in Nat
  PROVE  \E f : /\ f[0] = Work /\ f[n] = GatherLines(n)
                /\ \A i \in 1 .. n : f[i] = Gather(f[i - 1], i)
<1> DEFINE N == n
           Fits(f, m) == f = [i \in 0 .. m |-> IF i = 0 THEN Work ELSE Gather(f[i - 1], i)]
           S == {m \in 0 .. N : \E f : Fits(f, m)}
<1>1. 0 \in S
  <2>1. Fits([i \in 0 .. 0 |-> Work], 0)
    OBVIOUS
  <2>2. \E f : Fits(f, 0)
    BY <2>1
  <2> QED BY <2>2
<1>2. ASSUME NEW m \in 0 .. N, m # N, m \in S
      PROVE  m + 1 \in S
  <2>1. PICK f : Fits(f, m)
    BY <1>2
  <2> DEFINE h == [i \in 0 .. m + 1 |-> IF i <= m THEN f[i] ELSE Gather(f[m], m + 1)]
  <2>2. \A i \in 0 .. m + 1 : h[i] = IF i = 0 THEN Work ELSE Gather(h[i - 1], i)
    BY <2>1
  <2>3. Fits(h, m + 1)
    BY <2>2
  <2> HIDE DEF h, Fits
  <2> QED BY <1>2, <2>3
<1>3. PICK f : Fits(f, N)
  <2>1. \A m \in 0 .. N : m \in S
    <3> HIDE DEF S
    <3> QED BY <1>1, <1>2, UpTo
  <2> QED BY <2>1
<1>4. Fits(CHOOSE e : Fits(e, N), N)
  <2> HIDE DEF Fits
  <2> QED BY <1>3
<1>5. GatherLines(n) = (CHOOSE e : Fits(e, N))[N]
  BY Zenon DEF GatherLines, ForEach
<1>6. PICK e : Fits(e, N) /\ GatherLines(n) = e[N]
  <2> HIDE DEF Fits
  <2> QED BY <1>4, <1>5
<1>7. e[0] = Work /\ \A i \in 1 .. N : e[i] = Gather(e[i - 1], i)
  BY <1>6
<1> QED BY <1>6, <1>7

LEMMA AnswerLinesAre ==
  ASSUME Len(answered) \in Nat
  PROVE  \E f : /\ f[0] = Work /\ f[Len(answered)] = AnswerLines
                /\ \A i \in 1 .. Len(answered) : f[i] = AnswerLine(f[i - 1], i)
<1> DEFINE N == Len(answered)
           Fits(f, m) == f = [i \in 0 .. m |-> IF i = 0 THEN Work ELSE AnswerLine(f[i - 1], i)]
           S == {m \in 0 .. N : \E f : Fits(f, m)}
<1>1. 0 \in S
  <2>1. Fits([i \in 0 .. 0 |-> Work], 0)
    OBVIOUS
  <2>2. \E f : Fits(f, 0)
    BY <2>1
  <2> QED BY <2>2
<1>2. ASSUME NEW m \in 0 .. N, m # N, m \in S
      PROVE  m + 1 \in S
  <2>1. PICK f : Fits(f, m)
    BY <1>2
  <2> DEFINE h == [i \in 0 .. m + 1 |-> IF i <= m THEN f[i] ELSE AnswerLine(f[m], m + 1)]
  <2>2. \A i \in 0 .. m + 1 : h[i] = IF i = 0 THEN Work ELSE AnswerLine(h[i - 1], i)
    BY <2>1
  <2>3. Fits(h, m + 1)
    BY <2>2
  <2> HIDE DEF h, Fits
  <2> QED BY <1>2, <2>3
<1>3. PICK f : Fits(f, N)
  <2>1. \A m \in 0 .. N : m \in S
    <3> HIDE DEF S
    <3> QED BY <1>1, <1>2, UpTo
  <2> QED BY <2>1
<1>4. Fits(CHOOSE e : Fits(e, N), N)
  <2> HIDE DEF Fits
  <2> QED BY <1>3
<1>5. AnswerLines = (CHOOSE e : Fits(e, N))[N]
  BY Zenon DEF AnswerLines, ForEach
<1>6. PICK e : Fits(e, N) /\ AnswerLines = e[N]
  <2> HIDE DEF Fits
  <2> QED BY <1>4, <1>5
<1>7. e[0] = Work /\ \A i \in 1 .. N : e[i] = AnswerLine(e[i - 1], i)
  BY <1>6
<1> QED BY <1>6, <1>7

LEMMA RemoteSectionsAre ==
  ASSUME NEW type, NEW sections, NEW bundle, NEW del, Len(sections) \in Nat
  PROVE  \E f : /\ f[0] = Work /\ f[Len(sections)] = RemoteSections(type, sections, bundle, del)
                /\ \A i \in 1 .. Len(sections) : f[i] = RemoteSection(f[i - 1], i, type, sections[i], bundle, del)
<1> DEFINE N == Len(sections)
           Fits(f, m) == f = [i \in 0 .. m |-> IF i = 0 THEN Work ELSE RemoteSection(f[i - 1], i, type, sections[i], bundle, del)]
           S == {m \in 0 .. N : \E f : Fits(f, m)}
<1>1. 0 \in S
  <2>1. Fits([i \in 0 .. 0 |-> Work], 0)
    OBVIOUS
  <2>2. \E f : Fits(f, 0)
    BY <2>1
  <2> QED BY <2>2
<1>2. ASSUME NEW m \in 0 .. N, m # N, m \in S
      PROVE  m + 1 \in S
  <2>1. PICK f : Fits(f, m)
    BY <1>2
  <2> DEFINE h == [i \in 0 .. m + 1 |-> IF i <= m THEN f[i] ELSE RemoteSection(f[m], m + 1, type, sections[m + 1], bundle, del)]
  <2>2. \A i \in 0 .. m + 1 : h[i] = IF i = 0 THEN Work ELSE RemoteSection(h[i - 1], i, type, sections[i], bundle, del)
    BY <2>1
  <2>3. Fits(h, m + 1)
    BY <2>2
  <2> HIDE DEF h, Fits
  <2> QED BY <1>2, <2>3
<1>3. PICK f : Fits(f, N)
  <2>1. \A m \in 0 .. N : m \in S
    <3> HIDE DEF S
    <3> QED BY <1>1, <1>2, UpTo
  <2> QED BY <2>1
<1>4. Fits(CHOOSE e : Fits(e, N), N)
  <2> HIDE DEF Fits
  <2> QED BY <1>3
<1>5. RemoteSections(type, sections, bundle, del) = (CHOOSE e : Fits(e, N))[N]
  BY Zenon DEF RemoteSections, ForEach
<1>6. PICK e : Fits(e, N) /\ RemoteSections(type, sections, bundle, del) = e[N]
  <2> HIDE DEF Fits
  <2> QED BY <1>4, <1>5
<1>7. e[0] = Work /\ \A i \in 1 .. N : e[i] = RemoteSection(e[i - 1], i, type, sections[i], bundle, del)
  BY <1>6
<1> QED BY <1>6, <1>7

LEMMA ReplayIs ==
  ASSUME NEW g, NEW evs, Len(evs) \in Nat
  PROVE  \E f : /\ f[0] = Emission /\ f[Len(evs)] = Replay(g, evs)
                /\ \A i \in 1 .. Len(evs) : f[i] = onlocalcandidate(f[i - 1], g, evs[i])
<1> DEFINE N == Len(evs)
           Fits(f, m) == f = [i \in 0 .. m |-> IF i = 0 THEN Emission ELSE onlocalcandidate(f[i - 1], g, evs[i])]
           S == {m \in 0 .. N : \E f : Fits(f, m)}
<1>1. 0 \in S
  <2>1. Fits([i \in 0 .. 0 |-> Emission], 0)
    OBVIOUS
  <2>2. \E f : Fits(f, 0)
    BY <2>1
  <2> QED BY <2>2
<1>2. ASSUME NEW m \in 0 .. N, m # N, m \in S
      PROVE  m + 1 \in S
  <2>1. PICK f : Fits(f, m)
    BY <1>2
  <2> DEFINE h == [i \in 0 .. m + 1 |-> IF i <= m THEN f[i] ELSE onlocalcandidate(f[m], g, evs[m + 1])]
  <2>2. \A i \in 0 .. m + 1 : h[i] = IF i = 0 THEN Emission ELSE onlocalcandidate(h[i - 1], g, evs[i])
    BY <2>1
  <2>3. Fits(h, m + 1)
    BY <2>2
  <2> HIDE DEF h, Fits
  <2> QED BY <1>2, <2>3
<1>3. PICK f : Fits(f, N)
  <2>1. \A m \in 0 .. N : m \in S
    <3> HIDE DEF S
    <3> QED BY <1>1, <1>2, UpTo
  <2> QED BY <2>1
<1>4. Fits(CHOOSE e : Fits(e, N), N)
  <2> HIDE DEF Fits
  <2> QED BY <1>3
<1>5. Replay(g, evs) = (CHOOSE e : Fits(e, N))[N]
  BY Zenon DEF Replay, ForEach
<1>6. PICK e : Fits(e, N) /\ Replay(g, evs) = e[N]
  <2> HIDE DEF Fits
  <2> QED BY <1>4, <1>5
<1>7. e[0] = Emission /\ \A i \in 1 .. N : e[i] = onlocalcandidate(e[i - 1], g, evs[i])
  BY <1>6
<1> QED BY <1>6, <1>7

-----------------------------------------------------------------------------
(* The Edge connection: its signalling                                       *)

(* What the application holds are offers and answers.                        *)
DescriptionHeld == \A d \in made : d.type \in {"offer", "answer"}

SignallingInv == DescriptionHeld /\ OfferAnswerPair

(* A step that leaves the descriptions and the state alone.                  *)
LEMMA SignallingStays ==
  ASSUME SignallingInv, UNCHANGED <<local, remoteType, made, signalingState>>
  PROVE  SignallingInv'
  BY DEF SignallingInv, DescriptionHeld, OfferAnswerPair

(* setLocalDescription: an answer ends the negotiation of the peer's offer;  *)
(* an offer that throws half way leaves the descriptions alone.              *)
LEMMA LocalKeepsPair ==
  ASSUME SignallingInv, NEW description \in made, setLocalDescription(description)
  PROVE  SignallingInv'
<1>1. made' = made /\ remoteType' = remoteType
  BY DEF setLocalDescription
<1>2. CASE description.type = "offer"
  <2>1. \/ local' = description /\ signalingState' = "have-local-offer"
        \/ UNCHANGED <<signalingState, local>>
    BY <1>2 DEF setLocalDescription, SetLocalOffer
  <2> QED BY <1>1, <1>2, <2>1 DEF SignallingInv, DescriptionHeld, OfferAnswerPair
<1>3. CASE description.type # "offer"
  <2>1. local' = description /\ signalingState' = "stable"
    BY <1>3 DEF setLocalDescription, SetLocalAnswer
  <2>2. signalingState = "have-remote-offer"
    BY <1>3 DEF setLocalDescription, isActionAllowedInSignalingState
  <2>3. description.type = "answer" /\ remoteType = "offer"
    BY <1>1, <1>3, <2>2 DEF SignallingInv, DescriptionHeld, OfferAnswerPair
  <2>4. {local'.type, remoteType'} = {"offer", "answer"}
    BY <1>1, <2>1, <2>3
  <2> QED BY <1>1, <2>1, <2>4 DEF SignallingInv, DescriptionHeld, OfferAnswerPair
<1> QED
  BY <1>2, <1>3

(* setRemoteDescription: an answer ends the negotiation of the local offer.  *)
LEMMA RemoteKeepsPair ==
  ASSUME SignallingInv, NEW type \in {"offer", "answer"}, NEW sections, NEW bundle,
         setRemoteDescription(type, sections, bundle)
  PROVE  SignallingInv'
<1>1. /\ isActionAllowedInSignalingState("remote", type, signalingState)
      /\ remoteType' = type /\ local' = local /\ made' = made
      /\ signalingState' = IF type = "offer" THEN "have-remote-offer" ELSE "stable"
  BY DEF setRemoteDescription, Expected
<1>2. CASE type = "offer"
  BY <1>1, <1>2 DEF SignallingInv, DescriptionHeld, OfferAnswerPair
<1>3. CASE type = "answer"
  <2>1. signalingState = "have-local-offer"
    BY <1>1, <1>3 DEF isActionAllowedInSignalingState
  <2>2. {local'.type, remoteType'} = {"offer", "answer"}
    BY <1>1, <1>3, <2>1 DEF SignallingInv, OfferAnswerPair
  <2> QED BY <1>1, <1>3, <2>2 DEF SignallingInv, DescriptionHeld, OfferAnswerPair
<1> QED
  BY <1>2, <1>3

LEMMA SignallingStep ==
  ASSUME SignallingInv, [EdgeNext]_edgeVars
  PROVE  SignallingInv'
<1>1. ASSUME NEW kind \in Kind, addTrack(kind) PROVE SignallingInv'
  BY <1>1, SignallingStays DEF addTrack, signalling
<1>2. ASSUME NEW i \in DOMAIN lines, removeTrack(i) PROVE SignallingInv'
  BY <1>2, SignallingStays DEF removeTrack, signalling
<1>3. ASSUME NEW options \in Options, createOffer(options) PROVE SignallingInv'
  <2>1. /\ UNCHANGED <<local, remoteType, signalingState>>
        /\ made' = made \/ \E d : d.type = "offer" /\ made' = made \cup {d}
    BY <1>3 DEF createOffer, signalling
  <2> QED BY <2>1 DEF SignallingInv, DescriptionHeld, OfferAnswerPair
<1>4. CASE createAnswer
  <2>1. /\ UNCHANGED <<local, remoteType, signalingState>> /\ signalingState = "have-remote-offer"
        /\ \E d : d.type = "answer" /\ made' = made \cup {d}
    BY <1>4 DEF createAnswer, signalling
  <2> QED BY <2>1 DEF SignallingInv, DescriptionHeld, OfferAnswerPair
<1>5. ASSUME NEW description \in made, setLocalDescription(description) PROVE SignallingInv'
  BY <1>5, LocalKeepsPair
<1>6. ASSUME NEW type \in {"offer", "answer"}, NEW bundle \in BOOLEAN,
             NEW sections \in Sections(type, bundle), setRemoteDescription(type, sections, bundle)
      PROVE  SignallingInv'
  BY <1>6, RemoteKeepsPair
<1>7. ASSUME NEW i \in 1 .. MaxLines, addIceCandidate(1, i) PROVE SignallingInv'
  BY <1>7, SignallingStays DEF addIceCandidate, signalling
<1>8. CASE addEndOfCandidates
  BY <1>8, SignallingStays DEF addEndOfCandidates, signalling
<1>9. CASE close
  <2>1. UNCHANGED <<local, remoteType, made>> /\ signalingState' = "closed"
    BY <1>9 DEF close
  <2> QED BY <2>1 DEF SignallingInv, DescriptionHeld, OfferAnswerPair
<1>10. ASSUME NEW g \in DOMAIN gatherers, NEW n \in 0 .. MaxCandidates, LocalCandidate(g, n)
       PROVE  SignallingInv'
  BY <1>10, SignallingStays DEF LocalCandidate, signalling
<1>11. CASE Timer
  BY <1>11, SignallingStays DEF Timer, signalling
<1>12. CASE LateTimer
  BY <1>12, SignallingStays DEF LateTimer, signalling
<1>13. CASE TransportStep
  BY <1>13, SignallingStays DEF TransportStep, signalling
<1>14. CASE UNCHANGED edgeVars
  BY <1>14, SignallingStays DEF edgeVars, signalling
<1> QED
  BY <1>1, <1>2, <1>3, <1>4, <1>5, <1>6, <1>7, <1>8, <1>9, <1>10, <1>11, <1>12, <1>13, <1>14
     DEF EdgeNext, Expected

(* For any number of m-lines, candidates and calls, whatever order calls,    *)
(* events and the peer's descriptions come in: in the stable state the two   *)
(* descriptions of the Edge connection are an offer and its answer, and      *)
(* during a negotiation the offer is on the side the state names.            *)
THEOREM DescriptionsAlwaysPair == EdgeSpec => []OfferAnswerPair
<1>1. EdgeInit => SignallingInv
  BY DEF EdgeInit, SignallingInv, DescriptionHeld, OfferAnswerPair, NoDescription
<1>2. SignallingInv /\ [EdgeNext]_edgeVars => SignallingInv'
  BY SignallingStep
<1>3. SignallingInv => OfferAnswerPair
  BY DEF SignallingInv
<1> QED
  BY <1>1, <1>2, <1>3, PTL DEF EdgeSpec

-----------------------------------------------------------------------------
(* What the helpers do to the m-lines, the gatherers and the transports      *)
Timers == [on : {"negotiationneeded"}]
          \cup [on : {"flush"}, g : Nat, events : Seq(Event)]
WorkType == [lines : Seq(Line), gatherers : Seq(Gatherer), transports : Seq(Transport),
             timers : Seq(Timers)]

(* An m-line has the objects it names; one without a transport is rejected.  *)
Formed(w) == \A i \in DOMAIN w.lines :
  /\ w.lines[i].gatherer \in 0 .. Len(w.gatherers)
  /\ w.lines[i].transport \in 0 .. Len(w.transports)
  /\ w.lines[i].rejected <=> w.lines[i].transport = 0

WorkOK(w) == w \in WorkType /\ Formed(w) /\ Len(w.lines) <= MaxLines

(* Of the m-lines only i changes, or is added.                               *)
OnlyLine(w, v, i) ==
  /\ Len(v.lines) = IF i > Len(w.lines) THEN i ELSE Len(w.lines)
  /\ \A j \in DOMAIN w.lines : j # i => v.lines[j] = w.lines[j]

(* Transports are added; one that was started stays so.                      *)
IceKept(ts, us) ==
  /\ Len(ts) <= Len(us)
  /\ \A t \in DOMAIN ts : ts[t].ice # "new" => us[t].ice # "new"

(* Gatherers are added.                                                      *)
Grown(gs, hs) == Len(gs) <= Len(hs)

(* m-line i is there or the next one.                                        *)
Place(w, i) == i \in 1 .. Len(w.lines) + 1 /\ i <= MaxLines
(* The m-line a bundle rests on has a transport.                             *)
Led(w, bundle) == bundle /\ w.lines # <<>> => ~w.lines[1].rejected

LEMMA WorkHas ==
  ASSUME NEW w, WorkOK(w)
  PROVE  /\ w.lines \in Seq(Line) /\ w.gatherers \in Seq(Gatherer)
         /\ w.transports \in Seq(Transport) /\ w.timers \in Seq(Timers)
         /\ w = [lines |-> w.lines, gatherers |-> w.gatherers, transports |-> w.transports,
                 timers |-> w.timers]
         /\ Len(w.lines) <= MaxLines
         /\ \A j \in DOMAIN w.lines :
              /\ w.lines[j].gatherer \in 0 .. Len(w.gatherers)
              /\ w.lines[j].transport \in 0 .. Len(w.transports)
              /\ w.lines[j].rejected <=> w.lines[j].transport = 0
  BY DEF WorkOK, WorkType, Formed

LEMMA LineHas ==
  ASSUME NEW w, WorkOK(w), NEW j \in DOMAIN w.lines
  PROVE  /\ w.lines[j] \in Line
         /\ w.lines[j].gatherer \in 0 .. Len(w.gatherers)
         /\ w.lines[j].transport \in 0 .. Len(w.transports)
         /\ w.lines[j].rejected <=> w.lines[j].transport = 0
  BY DEF WorkOK, WorkType, Formed

(* One m-line changes, beside gatherers and transports that were only added  *)
(* to.                                                                       *)
LEMMA LineAt ==
  ASSUME NEW w, WorkOK(w), NEW i, Place(w, i), NEW v, v \in WorkType, OnlyLine(w, v, i),
         Len(w.gatherers) <= Len(v.gatherers), Len(w.transports) <= Len(v.transports),
         v.lines[i].gatherer \in 0 .. Len(v.gatherers),
         v.lines[i].transport \in 0 .. Len(v.transports),
         v.lines[i].rejected <=> v.lines[i].transport = 0
  PROVE  WorkOK(v)
<1>1. /\ w.lines \in Seq(Line) /\ w.gatherers \in Seq(Gatherer)
      /\ w.transports \in Seq(Transport)
      /\ Len(w.lines) <= MaxLines /\ MaxLines \in Nat
  BY WorkHas, BoundsAssumption
<1>2. v.lines \in Seq(Line) /\ v.gatherers \in Seq(Gatherer) /\ v.transports \in Seq(Transport)
  BY DEF WorkType
<1>3. /\ i \in 1 .. Len(w.lines) + 1 /\ i <= MaxLines
  BY DEF Place
<1>4. /\ Len(v.lines) = IF i > Len(w.lines) THEN i ELSE Len(w.lines)
      /\ \A j \in DOMAIN w.lines : j # i => v.lines[j] = w.lines[j]
  BY DEF OnlyLine
<1>5. ASSUME NEW j \in DOMAIN v.lines
      PROVE  /\ v.lines[j].gatherer \in 0 .. Len(v.gatherers)
             /\ v.lines[j].transport \in 0 .. Len(v.transports)
             /\ v.lines[j].rejected <=> v.lines[j].transport = 0
  <2>1. CASE j = i
    BY <2>1
  <2>2. CASE j # i
    <3>1. j \in DOMAIN w.lines /\ v.lines[j] = w.lines[j]
      BY <1>1, <1>2, <1>3, <1>4, <2>2, SMTT(30)
    <3>2. /\ w.lines[j].gatherer \in 0 .. Len(w.gatherers)
          /\ w.lines[j].transport \in 0 .. Len(w.transports)
          /\ w.lines[j].rejected <=> w.lines[j].transport = 0
      BY <3>1, LineHas
    <3>3. /\ {Len(w.gatherers), Len(v.gatherers), Len(w.transports), Len(v.transports)}
               \subseteq Nat
      BY <1>1, <1>2, SMTT(30)
    <3> QED BY <3>1, <3>2, <3>3
  <2> QED BY <2>1, <2>2
<1>6. Len(v.lines) <= MaxLines
  BY <1>1, <1>3, <1>4
<1> QED BY <1>5, <1>6 DEF WorkOK, Formed

(* No m-line changes.                                                        *)
LEMMA ObjectsSet ==
  ASSUME NEW w, WorkOK(w), NEW v, v \in WorkType, v.lines = w.lines,
         Len(w.gatherers) <= Len(v.gatherers), Len(w.transports) <= Len(v.transports)
  PROVE  WorkOK(v)
<1>1. /\ w.gatherers \in Seq(Gatherer) /\ w.transports \in Seq(Transport)
      /\ Len(w.lines) <= MaxLines
  BY WorkHas
<1>2. v.gatherers \in Seq(Gatherer) /\ v.transports \in Seq(Transport)
  BY DEF WorkType
<1>3. ASSUME NEW j \in DOMAIN w.lines
      PROVE  /\ w.lines[j].gatherer \in 0 .. Len(v.gatherers)
             /\ w.lines[j].transport \in 0 .. Len(v.transports)
             /\ w.lines[j].rejected <=> w.lines[j].transport = 0
  <2>1. /\ w.lines[j].gatherer \in 0 .. Len(w.gatherers)
        /\ w.lines[j].transport \in 0 .. Len(w.transports)
        /\ w.lines[j].rejected <=> w.lines[j].transport = 0
    BY LineHas
  <2> QED BY <1>1, <1>2, <2>1
<1> QED BY <1>1, <1>3 DEF WorkOK, Formed

LEMMA CreateTransceiverDoes ==
  ASSUME NEW w, WorkOK(w), NEW i, Place(w, i), NEW kind \in Kind, NEW bundle \in BOOLEAN,
         Led(w, bundle), NEW v, v = CreateTransceiver(w, i, kind, bundle)
  PROVE  /\ WorkOK(v) /\ OnlyLine(w, v, i) /\ IceKept(w.transports, v.transports)
         /\ v.gatherers = w.gatherers /\ v.timers = w.timers
         /\ v.lines[i] = NewLine(kind, v.lines[i].transport)
         /\ v.lines[i].transport # 0
         /\ bundle /\ w.lines # <<>> => v.lines[i].transport = w.lines[1].transport
<1>1. /\ w.lines \in Seq(Line) /\ w.gatherers \in Seq(Gatherer)
      /\ w.transports \in Seq(Transport) /\ w.timers \in Seq(Timers)
  BY WorkHas
<1>2. w = [lines |-> w.lines, gatherers |-> w.gatherers, transports |-> w.transports,
           timers |-> w.timers]
  BY WorkHas
<1>3. NewTransport \in Transport
  BY DEF NewTransport, Transport
<1>4. ASSUME NEW t, NEW ts, ts = w.transports \/ ts = Append(w.transports, NewTransport),
             t \in 1 .. Len(ts),
             v = [lines |-> Put(w.lines, i, NewLine(kind, t)), gatherers |-> w.gatherers,
                  transports |-> ts, timers |-> w.timers]
      PROVE  /\ WorkOK(v) /\ OnlyLine(w, v, i) /\ IceKept(w.transports, v.transports)
             /\ v.gatherers = w.gatherers /\ v.timers = w.timers
             /\ v.lines[i] = NewLine(kind, t) /\ t # 0
  <2>1. ts \in Seq(Transport) /\ Len(w.transports) <= Len(ts) /\ IceKept(w.transports, ts)
    <3>1. CASE ts = w.transports
      BY <1>1, <3>1 DEF IceKept
    <3>2. CASE ts = Append(w.transports, NewTransport)
      BY <1>1, <1>3, <3>2 DEF IceKept
    <3> QED BY <1>4, <3>1, <3>2
  <2>2. t \in Nat /\ t # 0
    BY <1>4, <2>1
  <2> DEFINE l == NewLine(kind, t)
  <2>3. /\ l \in Line /\ l.gatherer \in 0 .. Len(w.gatherers) /\ l.transport \in 0 .. Len(ts)
        /\ l.rejected <=> l.transport = 0
    BY <1>1, <1>4, <2>1, <2>2 DEF NewLine, Line
  <2> HIDE DEF l
  <2>4. /\ v.lines = Put(w.lines, i, l) /\ v.gatherers = w.gatherers /\ v.transports = ts
        /\ v.timers = w.timers
    BY <1>4 DEF l
  <2>5. i \in 1 .. Len(w.lines) + 1
    BY DEF Place
  <2>6. v.lines \in Seq(Line) /\ OnlyLine(w, v, i) /\ v.lines[i] = l
    BY <1>1, <2>3, <2>4, <2>5 DEF Put, OnlyLine
  <2>7. v \in WorkType
    BY <1>1, <1>4, <2>1, <2>4, <2>6 DEF WorkType
  <2>8. WorkOK(v)
    <3>1. /\ Len(w.gatherers) <= Len(v.gatherers) /\ Len(w.transports) <= Len(v.transports)
          /\ v.lines[i].gatherer \in 0 .. Len(v.gatherers)
          /\ v.lines[i].transport \in 0 .. Len(v.transports)
          /\ v.lines[i].rejected <=> v.lines[i].transport = 0
      BY <1>1, <2>1, <2>3, <2>4, <2>6
    <3> QED BY <2>6, <2>7, <3>1, LineAt, Zenon
  <2> QED BY <2>1, <2>2, <2>4, <2>6, <2>8 DEF l
<1>5. CASE bundle /\ w.lines # <<>>
  <2> DEFINE t == w.lines[1].transport
  <2>1. v = [w EXCEPT !.lines = Put(@, i, NewLine(kind, t))]
    BY <1>5 DEF CreateTransceiver
  <2>2. t \in 1 .. Len(w.transports)
    <3>1. 1 \in DOMAIN w.lines /\ ~w.lines[1].rejected
      BY <1>1, <1>5 DEF Led
    <3> QED BY <1>1, <3>1, LineHas
  <2> HIDE DEF t
  <2>3. v = [lines |-> Put(w.lines, i, NewLine(kind, t)), gatherers |-> w.gatherers,
             transports |-> w.transports, timers |-> w.timers]
    BY <1>2, <2>1
  <2> QED BY <1>4, <2>2, <2>3 DEF NewLine, t
<1>6. CASE ~(bundle /\ w.lines # <<>>)
  <2> DEFINE t == Len(w.transports) + 1
             ts == Append(w.transports, NewTransport)
  <2>1. v = [w EXCEPT !.transports = ts, !.lines = Put(@, i, NewLine(kind, t))]
    BY <1>6 DEF CreateTransceiver
  <2>2. t \in 1 .. Len(ts)
    BY <1>1, <1>3
  <2> HIDE DEF t, ts
  <2>3. v = [lines |-> Put(w.lines, i, NewLine(kind, t)), gatherers |-> w.gatherers,
             transports |-> ts, timers |-> w.timers]
    BY <1>2, <2>1
  <2>4. ts = Append(w.transports, NewTransport)
    BY DEF ts
  <2>5. /\ WorkOK(v) /\ OnlyLine(w, v, i) /\ IceKept(w.transports, v.transports)
        /\ v.gatherers = w.gatherers /\ v.timers = w.timers
        /\ v.lines[i] = NewLine(kind, t) /\ t # 0
    BY <1>4, <2>2, <2>3, <2>4
  <2> QED BY <1>6, <2>5 DEF NewLine
<1> QED
  BY <1>5, <1>6

(* An m-line that is there becomes l.                                        *)
Recorded(v) == v = [lines |-> v.lines, gatherers |-> v.gatherers,
                    transports |-> v.transports, timers |-> v.timers]
LEMMA LineSet ==
  ASSUME NEW w, WorkOK(w), NEW i \in DOMAIN w.lines, NEW v, NEW l,
         Recorded(v), v.lines = [w.lines EXCEPT ![i] = l],
         v.gatherers \in Seq(Gatherer), v.transports \in Seq(Transport), v.timers \in Seq(Timers),
         Len(w.gatherers) <= Len(v.gatherers), Len(w.transports) <= Len(v.transports),
         l \in Line, l.gatherer \in 0 .. Len(v.gatherers), l.transport \in 0 .. Len(v.transports),
         l.rejected <=> l.transport = 0
  PROVE  WorkOK(v) /\ OnlyLine(w, v, i) /\ v.lines[i] = l
<1>1. w.lines \in Seq(Line) /\ Len(w.lines) <= MaxLines /\ MaxLines \in Nat
  BY WorkHas, BoundsAssumption
<1>3. v.lines \in Seq(Line) /\ OnlyLine(w, v, i) /\ v.lines[i] = l /\ Place(w, i)
  BY <1>1 DEF OnlyLine, Place
<1>4. v \in WorkType
  BY <1>3 DEF WorkType, Recorded
<1>5. /\ v.lines[i].gatherer \in 0 .. Len(v.gatherers)
      /\ v.lines[i].transport \in 0 .. Len(v.transports)
      /\ v.lines[i].rejected <=> v.lines[i].transport = 0
  BY <1>3
<1> QED BY <1>3, <1>4, <1>5, LineAt, Zenon

(* m-line l with the gatherer and the buffer of m, with the objects of       *)
(* another m-line, with its sender and receiver in other states.             *)
Gathered(l, m) == [l EXCEPT !.gatherer = m.gatherer, !.buffering = m.buffering, !.buffer = m.buffer]
Bundled(l, first) == [l EXCEPT !.gatherer = first.gatherer, !.transport = first.transport]
Switched(l, s, r) == [l EXCEPT !.sender = s, !.receiver = r]

GathererCreated(w, v, i, bundle) ==
  /\ WorkOK(v) /\ OnlyLine(w, v, i) /\ Grown(w.gatherers, v.gatherers)
  /\ v.transports = w.transports /\ v.timers = w.timers
  /\ v.lines[i] = Gathered(w.lines[i], v.lines[i])
  /\ IF w.lines[i].gatherer # 0 THEN v.lines[i].gatherer = w.lines[i].gatherer
     ELSE IF bundle /\ i > 1 THEN v.lines[i].gatherer = w.lines[1].gatherer
     ELSE v.lines[i].gatherer = Len(w.gatherers) + 1
  /\ bundle /\ i > 1 => v.gatherers = w.gatherers

LEMMA CreateIceGathererDoes ==
  ASSUME NEW w, WorkOK(w), NEW i \in DOMAIN w.lines, NEW bundle,
         NEW v, v = CreateIceGatherer(w, i, bundle)
  PROVE  GathererCreated(w, v, i, bundle)
<1>1. /\ w.lines \in Seq(Line) /\ w.gatherers \in Seq(Gatherer)
      /\ w.transports \in Seq(Transport) /\ w.timers \in Seq(Timers)
      /\ Len(w.lines) <= MaxLines /\ MaxLines \in Nat
  BY WorkHas, BoundsAssumption
<1>2. w = [lines |-> w.lines, gatherers |-> w.gatherers, transports |-> w.transports,
           timers |-> w.timers]
  BY WorkHas
<1>3. /\ w.lines[i] \in Line
      /\ w.lines[i].gatherer \in 0 .. Len(w.gatherers)
      /\ w.lines[i].transport \in 0 .. Len(w.transports)
      /\ w.lines[i].rejected <=> w.lines[i].transport = 0
  BY LineHas
<1>4. NewGatherer(i) \in Gatherer
  <2>1. i \in 0 .. MaxLines /\ {0} \subseteq 0 .. MaxLines /\ {0} \subseteq 0 .. MaxCandidates
    BY <1>1, BoundsAssumption
  <2> QED BY <2>1 DEF NewGatherer, Gatherer
<1>5. CASE w.lines[i].gatherer # 0
  <2>1. v = w
    BY <1>5 DEF CreateIceGatherer
  <2>2. OnlyLine(w, w, i) /\ Grown(w.gatherers, w.gatherers)
    BY <1>1 DEF OnlyLine, Grown
  <2>3. w.lines[i] = Gathered(w.lines[i], w.lines[i])
    BY <1>3 DEF Line, Gathered
  <2> QED BY <1>5, <2>1, <2>2, <2>3 DEF GathererCreated
<1>6. ASSUME NEW x, NEW gs, gs = w.gatherers \/ gs = Append(w.gatherers, NewGatherer(i)),
             x \in 0 .. Len(gs), NEW b \in BOOLEAN, NEW s \in Seq(Event),
             v = [w EXCEPT !.gatherers = gs,
                           !.lines = [w.lines EXCEPT ![i] = [w.lines[i] EXCEPT !.gatherer = x,
                                                             !.buffering = b, !.buffer = s]]]
      PROVE  /\ WorkOK(v) /\ OnlyLine(w, v, i) /\ Grown(w.gatherers, v.gatherers)
             /\ v.transports = w.transports /\ v.timers = w.timers /\ v.gatherers = gs
             /\ v.lines[i] = Gathered(w.lines[i], v.lines[i]) /\ v.lines[i].gatherer = x
  <2>1. gs \in Seq(Gatherer) /\ Len(w.gatherers) <= Len(gs)
    <3>1. CASE gs = w.gatherers
      BY <1>1, <3>1
    <3>2. CASE gs = Append(w.gatherers, NewGatherer(i))
      BY <1>1, <1>4, <3>2
    <3> QED BY <1>6, <3>1, <3>2
  <2> DEFINE l == [w.lines[i] EXCEPT !.gatherer = x, !.buffering = b, !.buffer = s]
  <2>2. x \in Nat
    BY <1>6, <2>1
  <2>3. /\ l \in Line /\ l.gatherer \in 0 .. Len(gs) /\ l.transport \in 0 .. Len(w.transports)
        /\ l.rejected <=> l.transport = 0
    BY <1>3, <1>6, <2>2 DEF Line
  <2>4. l.gatherer = x /\ l = Gathered(w.lines[i], l)
    BY <1>3 DEF Line, Gathered
  <2>5. v = [w EXCEPT !.gatherers = gs, !.lines = [w.lines EXCEPT ![i] = l]]
    BY <1>6
  <2> HIDE DEF l
  <2>6. /\ Recorded(v) /\ v.lines = [w.lines EXCEPT ![i] = l] /\ v.transports = w.transports
        /\ v.timers = w.timers /\ v.gatherers = gs
    BY <1>2, <2>5 DEF Recorded
  <2>7. WorkOK(v) /\ OnlyLine(w, v, i) /\ v.lines[i] = l
    <3>1. /\ v.gatherers \in Seq(Gatherer) /\ v.transports \in Seq(Transport)
          /\ v.timers \in Seq(Timers)
          /\ Len(w.gatherers) <= Len(v.gatherers) /\ Len(w.transports) <= Len(v.transports)
          /\ l.gatherer \in 0 .. Len(v.gatherers) /\ l.transport \in 0 .. Len(v.transports)
      BY <1>1, <2>1, <2>3, <2>6
    <3> QED BY <2>3, <2>6, <3>1, LineSet
  <2> QED BY <2>1, <2>4, <2>6, <2>7 DEF Grown
<1>7. CASE w.lines[i].gatherer = 0 /\ bundle /\ i > 1
  <2> DEFINE b == w.lines[i].buffering
             s == w.lines[i].buffer
             x == w.lines[1].gatherer
  <2>1. v = [w EXCEPT !.lines[i].gatherer = x]
    BY <1>7 DEF CreateIceGatherer
  <2>2. b \in BOOLEAN /\ s \in Seq(Event)
    BY <1>3 DEF Line
  <2>3. [w.lines EXCEPT ![i].gatherer = x]
          = [w.lines EXCEPT ![i] = [w.lines[i] EXCEPT !.gatherer = x, !.buffering = b, !.buffer = s]]
    BY <1>1, <1>3 DEF Line
  <2>4. v = [w EXCEPT !.gatherers = w.gatherers,
                      !.lines = [w.lines EXCEPT ![i] = [w.lines[i] EXCEPT !.gatherer = x,
                                                        !.buffering = b, !.buffer = s]]]
    <3>1. v = [w EXCEPT !.lines = [w.lines EXCEPT ![i].gatherer = x]]
      BY <1>2, <2>1
    <3> QED BY <1>2, <2>3, <3>1
  <2>5. 1 \in DOMAIN w.lines
    BY <1>1
  <2>6. x \in 0 .. Len(w.gatherers)
    BY <2>5, LineHas
  <2> HIDE DEF b, s, x
  <2>7. /\ WorkOK(v) /\ OnlyLine(w, v, i) /\ Grown(w.gatherers, v.gatherers)
        /\ v.transports = w.transports /\ v.timers = w.timers /\ v.gatherers = w.gatherers
        /\ v.lines[i] = Gathered(w.lines[i], v.lines[i]) /\ v.lines[i].gatherer = x
    BY <1>6, <2>2, <2>4, <2>6
  <2> QED BY <1>7, <2>7 DEF x, GathererCreated
<1>8. CASE w.lines[i].gatherer = 0 /\ ~(bundle /\ i > 1)
  <2> DEFINE gs == Append(w.gatherers, NewGatherer(i))
             x == Len(w.gatherers) + 1
             b == TRUE
             s == <<>>
  <2>1. v = [w EXCEPT !.gatherers = gs, !.lines[i].gatherer = x,
                      !.lines[i].buffering = b, !.lines[i].buffer = s]
    BY <1>8 DEF CreateIceGatherer
  <2>2. x \in 0 .. Len(gs) /\ b \in BOOLEAN /\ s \in Seq(Event)
    BY <1>1, <1>4
  <2> HIDE DEF x, gs, b, s
  <2>3. [w.lines EXCEPT ![i].gatherer = x, ![i].buffering = b, ![i].buffer = s]
          = [w.lines EXCEPT ![i] = [w.lines[i] EXCEPT !.gatherer = x, !.buffering = b,
                                                      !.buffer = s]]
    BY <1>1, <1>3 DEF Line
  <2>4. v = [w EXCEPT !.gatherers = gs,
                      !.lines = [w.lines EXCEPT ![i] = [w.lines[i] EXCEPT !.gatherer = x,
                                                        !.buffering = b, !.buffer = s]]]
    <3>1. v = [w EXCEPT !.gatherers = gs,
                        !.lines = [w.lines EXCEPT ![i].gatherer = x, ![i].buffering = b,
                                                  ![i].buffer = s]]
      BY <1>2, <2>1
    <3> QED BY <2>3, <3>1
  <2>5. gs = w.gatherers \/ gs = Append(w.gatherers, NewGatherer(i))
    BY DEF gs
  <2>6. /\ WorkOK(v) /\ OnlyLine(w, v, i) /\ Grown(w.gatherers, v.gatherers)
        /\ v.transports = w.transports /\ v.timers = w.timers /\ v.gatherers = gs
        /\ v.lines[i] = Gathered(w.lines[i], v.lines[i]) /\ v.lines[i].gatherer = x
    BY <1>6, <2>2, <2>4, <2>5, ZenonT(30)
  <2> QED BY <1>8, <2>6 DEF x, GathererCreated
<1> QED
  BY <1>5, <1>7, <1>8

(* A running m-line sends or receives.                                       *)
Runs(l) == l.sender = "sending" \/ l.receiver = "receiving"

(* Gatherer g without its handler.                                           *)
GivenUp(g) == [g EXCEPT !.line = 0, !.cut = TRUE]
LEMMA GivenUpIs ==
  ASSUME NEW g \in Gatherer
  PROVE  GivenUp(g) \in Gatherer
<1>1. 0 \in 0 .. MaxLines
  BY BoundsAssumption
<1> QED BY <1>1, Zenon DEF GivenUp, Gatherer

LEMMA JoinBundleDoes ==
  ASSUME NEW w, WorkOK(w), NEW i \in DOMAIN w.lines, 1 \in DOMAIN w.lines,
         ~w.lines[1].rejected, ~w.lines[i].rejected, NEW del \in BOOLEAN,
         NEW v, v = JoinBundle(w, i, del)
  PROVE  /\ WorkOK(v) /\ OnlyLine(w, v, i) /\ Grown(w.gatherers, v.gatherers)
         /\ IceKept(w.transports, v.transports) /\ v.timers = w.timers
         /\ v.lines[i] = Bundled(w.lines[i], w.lines[1])
<1>1. /\ w.lines \in Seq(Line) /\ w.gatherers \in Seq(Gatherer)
      /\ w.transports \in Seq(Transport) /\ w.timers \in Seq(Timers)
  BY WorkHas
<1>2. w = [lines |-> w.lines, gatherers |-> w.gatherers, transports |-> w.transports,
           timers |-> w.timers]
  BY WorkHas
<1>3. /\ w.lines[i] \in Line /\ w.lines[1] \in Line
      /\ w.lines[1].gatherer \in 0 .. Len(w.gatherers)
      /\ w.lines[i].gatherer \in 0 .. Len(w.gatherers)
      /\ w.lines[1].transport \in 0 .. Len(w.transports) /\ w.lines[1].transport # 0
      /\ w.lines[i].transport \in 0 .. Len(w.transports)
  BY LineHas
<1> DEFINE x == w.lines[i].gatherer
           t == w.lines[i].transport
           gs == IF del /\ x # 0 THEN [w.gatherers EXCEPT ![x].line = 0, ![x].cut = TRUE]
                 ELSE w.gatherers
           ts == IF del THEN [w.transports EXCEPT ![t].handled = FALSE] ELSE w.transports
           l == [w.lines[i] EXCEPT !.gatherer = w.lines[1].gatherer,
                                   !.transport = w.lines[1].transport]
<1>4. v = [w EXCEPT !.gatherers = gs, !.transports = ts,
                    !.lines[i].gatherer = w.lines[1].gatherer,
                    !.lines[i].transport = w.lines[1].transport]
  BY SMTT(30) DEF JoinBundle
<1>5. gs \in Seq(Gatherer) /\ Len(gs) = Len(w.gatherers) /\ Grown(w.gatherers, gs)
  <2>1. CASE del /\ x # 0
    <3>1. gs = [w.gatherers EXCEPT ![x] = GivenUp(w.gatherers[x])]
      BY <1>1, <1>3, <2>1 DEF GivenUp
    <3>2. GivenUp(w.gatherers[x]) \in Gatherer
      <4>1. w.gatherers[x] \in Gatherer
        BY <1>1, <1>3, <2>1
      <4> QED BY <4>1, GivenUpIs
    <3> HIDE DEF gs
    <3> QED BY <1>1, <1>3, <2>1, <3>1, <3>2, SMTT(30) DEF Grown
  <2>2. CASE ~(del /\ x # 0)
    <3>1. gs = w.gatherers
      BY <2>2
    <3> HIDE DEF gs
    <3> QED BY <1>1, <3>1 DEF Grown
  <2> QED BY <2>1, <2>2
<1>6. ts \in Seq(Transport) /\ Len(ts) = Len(w.transports) /\ IceKept(w.transports, ts)
  <2>1. CASE del
    <3>1. ts = [w.transports EXCEPT ![t] = [w.transports[t] EXCEPT !.handled = FALSE]]
      BY <1>1, <2>1
    <3>2. t \in DOMAIN w.transports
      BY <1>1, <1>3, LineHas
    <3>3. /\ [w.transports[t] EXCEPT !.handled = FALSE] \in Transport
          /\ [w.transports[t] EXCEPT !.handled = FALSE].ice = w.transports[t].ice
      <4>1. w.transports[t] \in Transport
        BY <1>1, <3>2
      <4> QED BY <4>1 DEF Transport
    <3> HIDE DEF ts
    <3> QED BY <1>1, <3>1, <3>2, <3>3 DEF IceKept
  <2>2. CASE ~del
    BY <1>1, <2>2 DEF IceKept
  <2> QED BY <2>1, <2>2
<1>7. /\ l \in Line /\ l.gatherer = w.lines[1].gatherer /\ l.transport = w.lines[1].transport
      /\ l.rejected = FALSE
  BY <1>3 DEF Line
<1> HIDE DEF gs, ts
<1>8. v = [lines |-> [w.lines EXCEPT ![i] = l], gatherers |-> gs, transports |-> ts,
           timers |-> w.timers]
  <2>1. [w.lines EXCEPT ![i].gatherer = w.lines[1].gatherer, ![i].transport = w.lines[1].transport]
          = [w.lines EXCEPT ![i] = l]
    BY <1>1
  <2> HIDE DEF l
  <2> QED BY <1>2, <1>4, <2>1
<1> HIDE DEF l
<1>9. v.gatherers = gs /\ v.transports = ts /\ v.timers = w.timers
  BY <1>8
<1>10. /\ Recorded(v) /\ v.lines = [w.lines EXCEPT ![i] = l]
       /\ v.gatherers \in Seq(Gatherer) /\ v.transports \in Seq(Transport)
       /\ v.timers \in Seq(Timers)
       /\ Len(w.gatherers) <= Len(v.gatherers) /\ Len(w.transports) <= Len(v.transports)
       /\ l \in Line /\ l.gatherer \in 0 .. Len(v.gatherers)
       /\ l.transport \in 0 .. Len(v.transports)
       /\ l.rejected <=> l.transport = 0
  <2>1. Recorded(v) /\ v.lines = [w.lines EXCEPT ![i] = l]
    BY <1>8 DEF Recorded
  <2> QED BY <1>1, <1>3, <1>5, <1>6, <1>7, <1>9, <2>1, SMTT(30)
<1>11. WorkOK(v) /\ OnlyLine(w, v, i) /\ v.lines[i] = l
  BY <1>10, LineSet, SMTT(30)
<1> QED
  BY <1>5, <1>6, <1>9, <1>11 DEF l, Bundled
(* A transport becomes x; its ice state does not go back to new.             *)
LEMMA TransportSet ==
  ASSUME NEW w, WorkOK(w), NEW t \in DOMAIN w.transports, NEW x \in Transport,
         w.transports[t].ice # "new" => x.ice # "new",
         NEW v, Recorded(v), v.lines = w.lines, v.gatherers = w.gatherers, v.timers = w.timers,
         v.transports = [w.transports EXCEPT ![t] = x]
  PROVE  /\ WorkOK(v) /\ IceKept(w.transports, v.transports) /\ v.transports[t] = x
<1>1. /\ w.lines \in Seq(Line) /\ w.gatherers \in Seq(Gatherer)
      /\ w.transports \in Seq(Transport) /\ w.timers \in Seq(Timers)
  BY WorkHas
<1>2. /\ v.transports \in Seq(Transport) /\ Len(v.transports) = Len(w.transports)
      /\ v.transports[t] = x /\ IceKept(w.transports, v.transports)
  BY <1>1 DEF IceKept
<1>3. v \in WorkType
  BY <1>1, <1>2, Zenon DEF WorkType, Recorded
<1>4. Len(w.gatherers) <= Len(v.gatherers) /\ Len(w.transports) <= Len(v.transports)
  BY <1>1, <1>2
<1>5. WorkOK(v)
  BY <1>3, <1>4, ObjectsSet, Zenon
<1> QED BY <1>2, <1>5

LEMMA StartDoes ==
  ASSUME NEW w, WorkOK(w), NEW i \in DOMAIN w.lines, ~w.lines[i].rejected,
         NEW v, v = Start(w, i)
  PROVE  /\ WorkOK(v) /\ IceKept(w.transports, v.transports)
         /\ v.lines = w.lines /\ v.gatherers = w.gatherers /\ v.timers = w.timers
         /\ v.transports[w.lines[i].transport].ice # "new"
<1> DEFINE t == w.lines[i].transport
           a == IF w.transports[t].ice = "new" THEN "checking" ELSE w.transports[t].ice
           d == IF w.transports[t].dtls = "new" THEN "connecting" ELSE w.transports[t].dtls
           x == [w.transports[t] EXCEPT !.ice = a, !.dtls = d]
<1>1. w.transports \in Seq(Transport)
  BY WorkHas
<1>2. t \in DOMAIN w.transports
  BY <1>1, LineHas
<1>3. w.transports[t] \in Transport
  BY <1>1, <1>2
<1>4. Recorded(w)
  BY WorkHas DEF Recorded
<1>5. v = [w EXCEPT !.transports[t].ice = IF @ = "new" THEN "checking" ELSE @,
                    !.transports[t].dtls = IF @ = "new" THEN "connecting" ELSE @]
  BY DEF Start
<1> HIDE DEF t
<1>6. x \in Transport /\ x.ice # "new"
  BY <1>3 DEF Transport
<1>7. /\ v.lines = w.lines /\ v.gatherers = w.gatherers /\ v.timers = w.timers
      /\ Recorded(v)
      /\ v.transports = [w.transports EXCEPT ![t].ice = IF @ = "new" THEN "checking" ELSE @,
                                             ![t].dtls = IF @ = "new" THEN "connecting" ELSE @]
  BY <1>4, <1>5 DEF Recorded
<1>8. v.transports = [w.transports EXCEPT ![t] = x]
  BY <1>1, <1>2, <1>3, <1>7 DEF Transport
<1> HIDE DEF x
<1>9. WorkOK(v) /\ IceKept(w.transports, v.transports) /\ v.transports[t] = x
  BY <1>2, <1>6, <1>7, <1>8, TransportSet
<1> QED BY <1>6, <1>7, <1>9, Zenon DEF t

LEMMA AddCandidatesDoes ==
  ASSUME NEW w, WorkOK(w), NEW i \in DOMAIN w.lines, ~w.lines[i].rejected,
         NEW cands \in SUBSET {1, 2}, NEW all \in BOOLEAN,
         NEW v, v = AddCandidates(w, i, cands, all)
  PROVE  /\ WorkOK(v) /\ IceKept(w.transports, v.transports)
         /\ v.lines = w.lines /\ v.gatherers = w.gatherers /\ v.timers = w.timers
<1> DEFINE t == w.lines[i].transport
           c == IF all THEN cands ELSE w.transports[t].candidates \cup cands
           x == [w.transports[t] EXCEPT !.candidates = c, !.over = w.transports[t].over \/ all]
<1>1. w.transports \in Seq(Transport)
  BY WorkHas
<1>2. t \in DOMAIN w.transports
  BY <1>1, LineHas
<1>3. w.transports[t] \in Transport
  BY <1>1, <1>2
<1>4. Recorded(w)
  BY WorkHas DEF Recorded
<1> HIDE DEF t
<1>5. CASE cands = {} \/ w.transports[t].ice # "new"
  <2>1. v = w
    BY <1>5 DEF AddCandidates, t
  <2> QED BY <1>1, <2>1 DEF IceKept
<1>6. CASE ~(cands = {} \/ w.transports[t].ice # "new")
  <2>1. v = [w EXCEPT !.transports[t].candidates = IF all THEN cands ELSE @ \cup cands,
                      !.transports[t].over = @ \/ all]
    BY <1>6 DEF AddCandidates, t
  <2>2. x \in Transport
    BY <1>3 DEF Transport
  <2>3. /\ v.lines = w.lines /\ v.gatherers = w.gatherers /\ v.timers = w.timers
        /\ Recorded(v)
        /\ v.transports = [w.transports EXCEPT ![t].candidates = IF all THEN cands ELSE @ \cup cands,
                                               ![t].over = @ \/ all]
    BY <1>4, <2>1 DEF Recorded
  <2>4. v.transports = [w.transports EXCEPT ![t] = x]
    BY <1>1, <1>2, <1>3, <2>3 DEF Transport
  <2> HIDE DEF x
  <2>5. WorkOK(v) /\ IceKept(w.transports, v.transports) /\ v.transports[t] = x
    <3>1. w.transports[t].ice # "new" => x.ice # "new"
      BY <1>6
    <3>2. v.lines = w.lines /\ v.gatherers = w.gatherers /\ v.timers = w.timers /\ Recorded(v)
      BY <2>3
    <3> QED BY <1>2, <2>2, <2>4, <3>1, <3>2, TransportSet
  <2> QED BY <2>3, <2>5
<1> QED
  BY <1>5, <1>6
Transceived(w, v, i) ==
  /\ WorkOK(v) /\ OnlyLine(w, v, i) /\ v.gatherers = w.gatherers
  /\ v.transports = w.transports /\ v.timers = w.timers
  /\ v.lines[i] = Switched(w.lines[i], v.lines[i].sender, v.lines[i].receiver)

LEMMA TransceiveDoes ==
  ASSUME NEW w, WorkOK(w), NEW i \in DOMAIN w.lines, NEW send, NEW receive,
         NEW v, v = Transceive(w, i, send, receive)
  PROVE  Transceived(w, v, i)
<1> DEFINE a == IF send /\ w.lines[i].sender # "none" THEN "sending" ELSE w.lines[i].sender
           b == IF receive /\ w.lines[i].receiver # "none" THEN "receiving"
                ELSE w.lines[i].receiver
           l == [w.lines[i] EXCEPT !.sender = a, !.receiver = b]
<1>1. /\ w.lines \in Seq(Line) /\ w.gatherers \in Seq(Gatherer)
      /\ w.transports \in Seq(Transport) /\ w.timers \in Seq(Timers)
  BY WorkHas
<1>2. Recorded(w)
  BY WorkHas DEF Recorded
<1>3. /\ w.lines[i] \in Line
      /\ w.lines[i].gatherer \in 0 .. Len(w.gatherers)
      /\ w.lines[i].transport \in 0 .. Len(w.transports)
      /\ w.lines[i].rejected <=> w.lines[i].transport = 0
  BY LineHas
<1>4. /\ Recorded(v) /\ v.gatherers = w.gatherers
      /\ v.transports = w.transports /\ v.timers = w.timers
      /\ v.lines = [w.lines EXCEPT
                      ![i].sender = IF send /\ @ # "none" THEN "sending" ELSE @,
                      ![i].receiver = IF receive /\ @ # "none" THEN "receiving" ELSE @]
  BY <1>2 DEF Recorded, Transceive
<1>5. v.lines = [w.lines EXCEPT ![i] = l]
  BY <1>1, <1>3, <1>4 DEF Line
<1>6. /\ l \in Line /\ l.gatherer = w.lines[i].gatherer /\ l.transport = w.lines[i].transport
      /\ l.rejected = w.lines[i].rejected /\ l.sender = a /\ l.receiver = b
  BY <1>3 DEF Line
<1>7. v.gatherers = w.gatherers /\ v.transports = w.transports /\ v.timers = w.timers /\ Recorded(v)
  BY <1>4
<1>8. l = Switched(w.lines[i], l.sender, l.receiver)
  BY <1>6 DEF Switched
<1> HIDE DEF l
<1>9. WorkOK(v) /\ OnlyLine(w, v, i) /\ v.lines[i] = l
  <2>1. /\ v.gatherers \in Seq(Gatherer) /\ v.transports \in Seq(Transport)
        /\ v.timers \in Seq(Timers)
        /\ Len(w.gatherers) <= Len(v.gatherers) /\ Len(w.transports) <= Len(v.transports)
        /\ l \in Line /\ l.gatherer \in 0 .. Len(v.gatherers)
        /\ l.transport \in 0 .. Len(v.transports)
        /\ l.rejected <=> l.transport = 0
    BY <1>1, <1>3, <1>6, <1>7
  <2>2. Recorded(v)
    BY <1>7
  <2> QED BY <1>5, <2>1, <2>2, LineSet
<1> QED BY <1>7, <1>8, <1>9 DEF Transceived

(* Gathering starts: the buffer of m-line i goes into a timer.               *)
Gathers(w, v, i) ==
  /\ WorkOK(v) /\ OnlyLine(w, v, i) /\ v.transports = w.transports
  /\ v.lines[i] = Gathered(w.lines[i], v.lines[i])
  /\ v.lines[i].gatherer = w.lines[i].gatherer
LEMMA GatherDoes ==
  ASSUME NEW w, WorkOK(w), NEW i \in DOMAIN w.lines, w.lines[i].gatherer # 0,
         NEW v, v = Gather(w, i)
  PROVE  Gathers(w, v, i)
<1> DEFINE g == w.lines[i].gatherer
           k == IF w.gatherers[g].listens = i THEN 0 ELSE w.gatherers[g].listens
           x == [w.gatherers[g] EXCEPT !.line = i, !.listens = k]
           f == [on |-> "flush", g |-> g, events |-> w.lines[i].buffer]
           l == [w.lines[i] EXCEPT !.buffering = FALSE, !.buffer = <<>>]
<1>1. /\ w.lines \in Seq(Line) /\ w.gatherers \in Seq(Gatherer)
      /\ w.transports \in Seq(Transport) /\ w.timers \in Seq(Timers)
      /\ Len(w.lines) <= MaxLines /\ MaxLines \in Nat
  BY WorkHas, BoundsAssumption
<1>2. Recorded(w)
  BY WorkHas DEF Recorded
<1>3. /\ g \in DOMAIN w.gatherers /\ w.lines[i] \in Line
      /\ w.lines[i].gatherer \in 0 .. Len(w.gatherers)
      /\ w.lines[i].transport \in 0 .. Len(w.transports)
      /\ w.lines[i].rejected <=> w.lines[i].transport = 0
  BY <1>1, LineHas
<1>4. w.gatherers[g] \in Gatherer
  BY <1>1, <1>3
<1>5. CASE w.gatherers[g].line # 0
  <2>1. v = w
    BY <1>5 DEF Gather
  <2>2. w.lines[i] = Gathered(w.lines[i], w.lines[i])
    BY <1>3 DEF Line, Gathered
  <2>3. OnlyLine(w, w, i)
    BY <1>1 DEF OnlyLine
  <2> QED BY <2>1, <2>2, <2>3 DEF Gathers
<1>6. CASE w.gatherers[g].line = 0
  <2>1. v = [w EXCEPT !.gatherers[g].line = i,
                      !.gatherers[g].listens = IF @ = i THEN 0 ELSE @,
                      !.lines[i].buffering = FALSE, !.lines[i].buffer = <<>>,
                      !.timers = Append(@, f)]
    BY <1>6, Zenon DEF Gather
  <2>2. x \in Gatherer
    <3>1. i \in 0 .. MaxLines /\ k \in 0 .. MaxLines
      <4>1. w.gatherers[g].listens \in 0 .. MaxLines
        BY <1>4 DEF Gatherer
      <4> HIDE DEF g
      <4> QED BY <1>1, <4>1, BoundsAssumption
    <3> HIDE DEF k
    <3> QED BY <1>4, <3>1, Zenon DEF Gatherer
  <2>3. f \in Timers
    <3>1. g \in Nat /\ w.lines[i].buffer \in Seq(Event)
      BY <1>1, <1>3 DEF Line
    <3> QED BY <3>1 DEF Timers
  <2>4. /\ l \in Line /\ l.gatherer = g /\ l.transport = w.lines[i].transport
        /\ l.rejected = w.lines[i].rejected
        /\ l.buffering = FALSE /\ l.buffer = <<>>
    <3>1. <<>> \in Seq(Event)
      OBVIOUS
    <3> QED BY <1>3, <3>1 DEF Line
  <2>4a. l = [w.lines[i] EXCEPT !.gatherer = g, !.buffering = FALSE, !.buffer = <<>>]
    BY <1>3 DEF Line
  <2>5. [w.gatherers EXCEPT ![g].line = i, ![g].listens = IF @ = i THEN 0 ELSE @]
          = [w.gatherers EXCEPT ![g] = x]
    BY <1>1, <1>3, <1>4 DEF Gatherer
  <2>6. [w.lines EXCEPT ![i].buffering = FALSE, ![i].buffer = <<>>] = [w.lines EXCEPT ![i] = l]
    BY <1>1, <1>3 DEF Line
  <2> HIDE DEF f, x, l
  <2>7. /\ Recorded(v) /\ v.transports = w.transports /\ v.timers = Append(w.timers, f)
        /\ v.gatherers = [w.gatherers EXCEPT ![g].line = i, ![g].listens = IF @ = i THEN 0 ELSE @]
        /\ v.lines = [w.lines EXCEPT ![i].buffering = FALSE, ![i].buffer = <<>>]
    <3> HIDE DEF g
    <3> QED BY <1>2, <2>1, ZenonT(60) DEF Recorded
  <2>8. v.lines = [w.lines EXCEPT ![i] = l] /\ v.gatherers = [w.gatherers EXCEPT ![g] = x]
    BY <2>5, <2>6, <2>7
  <2>9. /\ v.gatherers \in Seq(Gatherer) /\ Len(v.gatherers) = Len(w.gatherers)
        /\ v.timers \in Seq(Timers)
    <3>1. v.timers = Append(w.timers, f)
      BY <2>7
    <3>2. v.timers \in Seq(Timers)
      BY <1>1, <2>3, <3>1
    <3> HIDE DEF g
    <3> QED BY <1>1, <1>3, <2>2, <2>8, <3>2
  <2>10. WorkOK(v) /\ OnlyLine(w, v, i) /\ v.lines[i] = l
    <3>1. /\ v.transports \in Seq(Transport)
          /\ Len(w.gatherers) <= Len(v.gatherers) /\ Len(w.transports) <= Len(v.transports)
          /\ l.gatherer \in 0 .. Len(v.gatherers) /\ l.transport \in 0 .. Len(v.transports)
          /\ l.rejected <=> l.transport = 0
      BY <1>1, <1>3, <2>4, <2>7, <2>9
    <3>2. Recorded(v)
      BY <2>7
    <3> QED BY <2>4, <2>8, <2>9, <3>1, <3>2, LineSet, ZenonT(30)
  <2>11. l = Gathered(w.lines[i], l)
    BY <2>4, <2>4a, Zenon DEF Gathered
  <2> QED BY <2>4, <2>7, <2>10, <2>11 DEF Gathers
<1> QED
  BY <1>5, <1>6

(* Fields of an m-line change, not its objects.                              *)
LEMMA LineFields ==
  ASSUME NEW w, WorkOK(w), NEW i \in DOMAIN w.lines, NEW l \in Line,
         l.gatherer = w.lines[i].gatherer, l.transport = w.lines[i].transport,
         l.rejected = w.lines[i].rejected,
         NEW v, v = [w EXCEPT !.lines = [w.lines EXCEPT ![i] = l]]
  PROVE  /\ WorkOK(v) /\ OnlyLine(w, v, i) /\ v.lines[i] = l /\ v.gatherers = w.gatherers
         /\ v.transports = w.transports /\ v.timers = w.timers
<1>1. /\ w.gatherers \in Seq(Gatherer)
      /\ w.transports \in Seq(Transport) /\ w.timers \in Seq(Timers)
  BY WorkHas
<1>2. Recorded(w)
  BY WorkHas DEF Recorded
<1>3. /\ w.lines[i].gatherer \in 0 .. Len(w.gatherers)
      /\ w.lines[i].transport \in 0 .. Len(w.transports)
      /\ w.lines[i].rejected <=> w.lines[i].transport = 0
  BY LineHas
<1>4. /\ v.gatherers = w.gatherers /\ v.transports = w.transports /\ v.timers = w.timers
      /\ Recorded(v) /\ v.lines = [w.lines EXCEPT ![i] = l]
  BY <1>2 DEF Recorded
<1>5. /\ v.gatherers \in Seq(Gatherer) /\ v.transports \in Seq(Transport)
      /\ v.timers \in Seq(Timers)
      /\ Len(w.gatherers) <= Len(v.gatherers) /\ Len(w.transports) <= Len(v.transports)
      /\ l.gatherer \in 0 .. Len(v.gatherers)
      /\ l.transport \in 0 .. Len(v.transports)
      /\ l.rejected <=> l.transport = 0
  BY <1>1, <1>3, <1>4
<1>6. WorkOK(v) /\ OnlyLine(w, v, i) /\ v.lines[i] = l
  BY <1>4, <1>5, LineSet
<1> QED BY <1>4, <1>6

(* What a step of a pass does beside its own m-line.                         *)
Effect(w, v, i) ==
  /\ WorkOK(v) /\ OnlyLine(w, v, i) /\ v.timers = w.timers
  /\ IceKept(w.transports, v.transports) /\ Grown(w.gatherers, v.gatherers)

LEMMA IceKeptTrans ==
  ASSUME NEW a \in Seq(Transport), NEW b \in Seq(Transport), NEW c \in Seq(Transport),
         IceKept(a, b), IceKept(b, c)
  PROVE  IceKept(a, c)
<1>1. Len(a) <= Len(c) /\ \A t \in DOMAIN a : t \in DOMAIN b
  BY DEF IceKept
<1>2. ASSUME NEW t \in DOMAIN a, a[t].ice # "new" PROVE c[t].ice # "new"
  BY <1>1, <1>2 DEF IceKept
<1> QED BY <1>1, <1>2 DEF IceKept

LEMMA OnlyLineTrans ==
  ASSUME NEW w, NEW v, NEW u, NEW i \in Nat, w.lines \in Seq(Line), v.lines \in Seq(Line),
         u.lines \in Seq(Line), OnlyLine(w, v, i), OnlyLine(v, u, i)
  PROVE  OnlyLine(w, u, i)
  BY DEF OnlyLine
LEMMA EffectTrans ==
  ASSUME NEW w, WorkOK(w), NEW v, NEW u, NEW i \in Nat, Effect(w, v, i), Effect(v, u, i)
  PROVE  Effect(w, u, i)
<1>1. WorkOK(v) /\ WorkOK(u)
  BY DEF Effect
<1>2. OnlyLine(w, u, i)
  BY <1>1, WorkHas, OnlyLineTrans DEF Effect
<1>3. IceKept(w.transports, u.transports)
  <2>1. IceKept(w.transports, v.transports) /\ IceKept(v.transports, u.transports)
    BY DEF Effect
  <2>2. /\ w.transports \in Seq(Transport) /\ v.transports \in Seq(Transport)
        /\ u.transports \in Seq(Transport)
    BY <1>1, WorkHas
  <2> QED BY <2>1, <2>2, IceKeptTrans
<1>4. Grown(w.gatherers, u.gatherers)
  <2>1. Grown(w.gatherers, v.gatherers) /\ Grown(v.gatherers, u.gatherers)
    BY DEF Effect
  <2>2. /\ w.gatherers \in Seq(Gatherer) /\ v.gatherers \in Seq(Gatherer)
        /\ u.gatherers \in Seq(Gatherer)
    BY <1>1, WorkHas
  <2> QED BY <2>1, <2>2 DEF Grown
<1> QED BY <1>1, <1>2, <1>3, <1>4 DEF Effect

LEMMA EffectOf ==
  ASSUME NEW w, WorkOK(w), NEW v, WorkOK(v), NEW i, v.timers = w.timers,
         OnlyLine(w, v, i) \/ (v.lines = w.lines /\ i \in DOMAIN w.lines),
         IceKept(w.transports, v.transports) \/ v.transports = w.transports,
         Grown(w.gatherers, v.gatherers) \/ v.gatherers = w.gatherers
  PROVE  Effect(w, v, i)
<1>1. /\ w.lines \in Seq(Line) /\ w.gatherers \in Seq(Gatherer)
      /\ w.transports \in Seq(Transport)
  BY WorkHas
<1>2. OnlyLine(w, v, i)
  BY <1>1 DEF OnlyLine
<1>3. IceKept(w.transports, v.transports)
  BY <1>1 DEF IceKept
<1>4. Grown(w.gatherers, v.gatherers)
  BY <1>1 DEF Grown
<1> QED BY <1>2, <1>3, <1>4 DEF Effect

(* A section of a remote description.                                        *)
SecOK(sec) == /\ sec.kind \in Kind /\ sec.candidates \in SUBSET {1, 2}
              /\ sec.rejected \in BOOLEAN /\ sec.sends \in BOOLEAN /\ sec.receives \in BOOLEAN
              /\ sec.complete \in BOOLEAN

LEMMA PlaceHas ==
  ASSUME NEW w, WorkOK(w), NEW i, Place(w, i)
  PROVE  /\ i \in Nat /\ i # 0 /\ (i > Len(w.lines) <=> i \notin DOMAIN w.lines)
         /\ i > 1 => 1 \in DOMAIN w.lines /\ w.lines # <<>>
         /\ \A v : OnlyLine(w, v, i) /\ v.lines \in Seq(Line) => i \in DOMAIN v.lines
<1>1. w.lines \in Seq(Line)
  BY WorkHas
<1> QED BY <1>1 DEF Place, OnlyLine

OfferTaken(w, v, i, bundle) ==
  /\ Effect(w, v, i) /\ ~v.lines[i].rejected
  /\ i \in DOMAIN w.lines => v.lines[i].transport = w.lines[i].transport
  /\ i \notin DOMAIN w.lines /\ bundle /\ i > 1 => v.lines[i].transport = w.lines[1].transport
  /\ IF i \in DOMAIN w.lines /\ w.lines[i].gatherer # 0
     THEN v.lines[i].gatherer = w.lines[i].gatherer
     ELSE IF bundle /\ i > 1 THEN v.lines[i].gatherer = w.lines[1].gatherer
     ELSE v.lines[i].gatherer > Len(w.gatherers)

LEMMA OfferSectionDoes ==
  ASSUME NEW w, WorkOK(w), NEW i, Place(w, i), NEW sec, SecOK(sec), NEW bundle \in BOOLEAN,
         Led(w, bundle), i \in DOMAIN w.lines => ~w.lines[i].rejected,
         NEW v, v = OfferSection(w, i, sec, bundle)
  PROVE  OfferTaken(w, v, i, bundle)
<1> DEFINE w1 == IF i > Len(w.lines) THEN CreateTransceiver(w, i, sec.kind, bundle) ELSE w
           w2 == CreateIceGatherer(w1, i, bundle)
           w3 == AddCandidates(w2, i, sec.candidates, sec.complete /\ (~bundle \/ i = 1))
           fresh == sec.sends /\ w3.lines[i].receiver = "none"
           r == IF ~sec.sends THEN "none" ELSE IF fresh THEN "idle" ELSE w3.lines[i].receiver
           l == [w3.lines[i] EXCEPT !.receiver = r]
           w4 == [w3 EXCEPT !.lines = [w3.lines EXCEPT ![i] = l]]
<1>1. /\ i \in Nat /\ i # 0 /\ (i > Len(w.lines) <=> i \notin DOMAIN w.lines)
      /\ i > 1 => 1 \in DOMAIN w.lines /\ w.lines # <<>>
  BY PlaceHas
<1>2. /\ Effect(w, w1, i) /\ WorkOK(w1) /\ i \in DOMAIN w1.lines /\ ~w1.lines[i].rejected
      /\ w1.gatherers = w.gatherers
      /\ i \in DOMAIN w.lines => w1 = w
      /\ i \notin DOMAIN w.lines => w1.lines[i].gatherer = 0
      /\ i \notin DOMAIN w.lines /\ bundle /\ i > 1 => w1.lines[i].transport = w.lines[1].transport
  <2>1. CASE i \in DOMAIN w.lines
    <3>1. w1 = w
      BY <1>1, <2>1
    <3>2. Effect(w, w, i)
      BY <2>1, EffectOf
    <3> HIDE DEF w1
    <3> QED BY <2>1, <3>1, <3>2
  <2>2. CASE i \notin DOMAIN w.lines
    <3>1. w1 = CreateTransceiver(w, i, sec.kind, bundle)
      BY <1>1, <2>2
    <3> HIDE DEF w1
    <3>2. sec.kind \in Kind
      BY DEF SecOK
    <3>3. /\ WorkOK(w1) /\ OnlyLine(w, w1, i) /\ IceKept(w.transports, w1.transports)
          /\ w1.gatherers = w.gatherers /\ w1.timers = w.timers
          /\ w1.lines[i] = NewLine(sec.kind, w1.lines[i].transport)
          /\ bundle /\ w.lines # <<>> => w1.lines[i].transport = w.lines[1].transport
      BY <3>1, <3>2, CreateTransceiverDoes
    <3>4. Effect(w, w1, i)
      BY <3>3, EffectOf
    <3>5. w1.lines \in Seq(Line)
      BY <3>3, WorkHas
    <3>6. i \in DOMAIN w1.lines
      BY <3>3, <3>5, PlaceHas
    <3>7. w1.lines[i].gatherer = 0 /\ ~w1.lines[i].rejected
      BY <3>3 DEF NewLine
    <3> QED BY <1>1, <2>2, <3>3, <3>4, <3>6, <3>7
  <2> QED BY <2>1, <2>2
<1> HIDE DEF w1
<1>3. /\ WorkOK(w2) /\ OnlyLine(w1, w2, i) /\ Grown(w1.gatherers, w2.gatherers)
      /\ w2.transports = w1.transports /\ w2.timers = w1.timers
      /\ w2.lines[i] = Gathered(w1.lines[i], w2.lines[i])
      /\ IF w1.lines[i].gatherer # 0 THEN w2.lines[i].gatherer = w1.lines[i].gatherer
         ELSE IF bundle /\ i > 1 THEN w2.lines[i].gatherer = w1.lines[1].gatherer
         ELSE w2.lines[i].gatherer = Len(w1.gatherers) + 1
  <2>1. w2 = CreateIceGatherer(w1, i, bundle) /\ WorkOK(w1) /\ i \in DOMAIN w1.lines
    BY <1>2
  <2> HIDE DEF w2
  <2>2. GathererCreated(w1, w2, i, bundle)
    BY <2>1, CreateIceGathererDoes
  <2> QED BY <2>2 DEF GathererCreated
<1> HIDE DEF w2
<1>4. Effect(w1, w2, i)
  BY <1>2, <1>3, EffectOf
<1>5. i \in DOMAIN w2.lines /\ ~w2.lines[i].rejected /\ w2.lines[i].transport = w1.lines[i].transport
  <2>1. w1.lines \in Seq(Line) /\ w2.lines \in Seq(Line) /\ w1.lines[i] \in Line
    BY <1>2, <1>3, WorkHas, LineHas
  <2>2. i \in DOMAIN w2.lines
    BY <1>2, <1>3, <2>1 DEF OnlyLine
  <2> QED BY <1>2, <1>3, <2>1, <2>2 DEF Line, Gathered
<1>6. /\ WorkOK(w3) /\ IceKept(w2.transports, w3.transports)
      /\ w3.lines = w2.lines /\ w3.gatherers = w2.gatherers /\ w3.timers = w2.timers
  <2> DEFINE all == sec.complete /\ (~bundle \/ i = 1)
  <2>1. sec.candidates \in SUBSET {1, 2} /\ all \in BOOLEAN
    BY DEF SecOK
  <2>2. w3 = AddCandidates(w2, i, sec.candidates, all) /\ WorkOK(w2)
    BY <1>3
  <2> HIDE DEF w3, all
  <2> QED BY <1>5, <2>1, <2>2, AddCandidatesDoes
<1> HIDE DEF w3
<1>7. Effect(w2, w3, i)
  BY <1>3, <1>5, <1>6, EffectOf
<1>8. w3.lines[i] \in Line /\ i \in DOMAIN w3.lines
  BY <1>5, <1>6, LineHas
<1>9. /\ l \in Line /\ l.gatherer = w3.lines[i].gatherer /\ l.transport = w3.lines[i].transport
      /\ l.rejected = w3.lines[i].rejected
  BY <1>8 DEF Line
<1> HIDE DEF l
<1>10. /\ WorkOK(w4) /\ OnlyLine(w3, w4, i) /\ w4.lines[i] = l /\ w4.gatherers = w3.gatherers
       /\ w4.transports = w3.transports /\ w4.timers = w3.timers
  BY <1>6, <1>8, <1>9, LineFields
<1> HIDE DEF w4
<1>11. Effect(w3, w4, i)
  BY <1>6, <1>10, EffectOf
<1>12. v = Transceive(w4, i, FALSE, fresh)
  BY DEF OfferSection, w1, w2, w3, w4, l
<1>13. fresh \in BOOLEAN /\ i \in DOMAIN w4.lines
  <2>1. w4.lines \in Seq(Line) /\ w3.lines \in Seq(Line)
    BY <1>6, <1>10, WorkHas
  <2>2. i \in DOMAIN w4.lines
    BY <1>8, <1>10, <2>1 DEF OnlyLine
  <2> QED BY <2>2 DEF SecOK
<1> HIDE DEF fresh
<1>14. /\ WorkOK(v) /\ OnlyLine(w4, v, i) /\ v.gatherers = w4.gatherers
       /\ v.transports = w4.transports /\ v.timers = w4.timers
       /\ v.lines[i] = Switched(w4.lines[i], v.lines[i].sender, v.lines[i].receiver)
  <2>1. Transceived(w4, v, i)
    BY <1>10, <1>12, <1>13, TransceiveDoes
  <2> QED BY <2>1 DEF Transceived
<1>15. Effect(w4, v, i)
  BY <1>10, <1>14, EffectOf
<1>16. Effect(w, v, i)
  <2>1. Effect(w, w2, i)
    BY <1>1, <1>2, <1>4, EffectTrans
  <2>2. Effect(w, w3, i)
    BY <1>1, <1>7, <2>1, EffectTrans
  <2>3. Effect(w, w4, i)
    BY <1>1, <1>11, <2>2, EffectTrans
  <2> QED BY <1>1, <1>15, <2>3, EffectTrans
<1>17. /\ v.lines[i].rejected = l.rejected /\ v.lines[i].transport = l.transport
       /\ v.lines[i].gatherer = l.gatherer
  BY <1>9, <1>10, <1>14 DEF Line, Switched
<1>18. /\ ~v.lines[i].rejected /\ v.lines[i].transport = w1.lines[i].transport
       /\ v.lines[i].gatherer = w2.lines[i].gatherer
  BY <1>5, <1>6, <1>9, <1>17
<1>19. i > 1 => w1.lines[1] = w.lines[1]
  BY <1>1, <1>2 DEF Effect, OnlyLine
<1>20. IF i \in DOMAIN w.lines /\ w.lines[i].gatherer # 0
       THEN v.lines[i].gatherer = w.lines[i].gatherer
       ELSE IF bundle /\ i > 1 THEN v.lines[i].gatherer = w.lines[1].gatherer
       ELSE v.lines[i].gatherer > Len(w.gatherers)
  <2>1. Len(w.gatherers) \in Nat
    BY WorkHas
  <2>2. CASE i \in DOMAIN w.lines
    BY <1>2, <1>3, <1>18, <1>19, <2>1, <2>2
  <2>3. CASE i \notin DOMAIN w.lines
    BY <1>2, <1>3, <1>18, <1>19, <2>1, <2>3
  <2> QED BY <2>2, <2>3
<1> QED
  BY <1>2, <1>16, <1>18, <1>20 DEF OfferTaken
AnswerTaken(w, v, i, bundle) ==
  /\ Effect(w, v, i) /\ ~v.lines[i].rejected
  /\ v.lines[i].transport = w.lines[i].transport /\ v.lines[i].gatherer = w.lines[i].gatherer
  /\ ~(bundle /\ i > 1) => v.transports[v.lines[i].transport].ice # "new"

LEMMA AnswerSectionDoes ==
  ASSUME NEW w, WorkOK(w), NEW i \in DOMAIN w.lines, NEW sec, SecOK(sec), NEW bundle,
         ~w.lines[i].rejected, NEW v, v = AnswerSection(w, i, sec, bundle)
  PROVE  AnswerTaken(w, v, i, bundle)
<1> DEFINE all == sec.complete /\ (~bundle \/ i = 1)
           w1 == AddCandidates(w, i, sec.candidates, all)
           w2 == IF bundle /\ i > 1 THEN w1 ELSE Start(w1, i)
           w3 == Transceive(w2, i, sec.receives, sec.sends)
           l == [w3.lines[i] EXCEPT !.receiver = "none"]
           w4 == [w3 EXCEPT !.lines = [w3.lines EXCEPT ![i] = l]]
<1>0. w.lines \in Seq(Line) /\ i \in Nat
  BY WorkHas
<1>1. /\ WorkOK(w1) /\ IceKept(w.transports, w1.transports)
      /\ w1.lines = w.lines /\ w1.gatherers = w.gatherers /\ w1.timers = w.timers
  <2>1. sec.candidates \in SUBSET {1, 2} /\ all \in BOOLEAN
    BY DEF SecOK
  <2> HIDE DEF all
  <2> QED BY <2>1, AddCandidatesDoes
<1> HIDE DEF w1
<1>2. Effect(w, w1, i)
  BY <1>1, EffectOf
<1>3. /\ WorkOK(w2) /\ IceKept(w1.transports, w2.transports)
      /\ w2.lines = w1.lines /\ w2.gatherers = w1.gatherers /\ w2.timers = w1.timers
      /\ ~(bundle /\ i > 1) => w2.transports[w1.lines[i].transport].ice # "new"
  <2>1. CASE bundle /\ i > 1
    <3>1. w2 = w1
      BY <2>1
    <3>2. IceKept(w1.transports, w1.transports)
      BY <1>1, WorkHas DEF IceKept
    <3> HIDE DEF w2
    <3> QED BY <1>1, <2>1, <3>1, <3>2
  <2>2. CASE ~(bundle /\ i > 1)
    <3>1. w2 = Start(w1, i)
      BY <2>2
    <3> HIDE DEF w2
    <3>2. i \in DOMAIN w1.lines /\ ~w1.lines[i].rejected
      BY <1>1
    <3> QED BY <1>1, <3>1, <3>2, StartDoes
  <2> QED BY <2>1, <2>2
<1> HIDE DEF w2
<1>4. Effect(w1, w2, i) /\ i \in DOMAIN w2.lines
  BY <1>1, <1>3, EffectOf
<1>5. Transceived(w2, w3, i)
  BY <1>3, <1>4, TransceiveDoes
<1> HIDE DEF w3
<1>6. Effect(w2, w3, i)
  BY <1>3, <1>5, EffectOf DEF Transceived
<1>7. w3.lines[i] \in Line /\ i \in DOMAIN w3.lines
  <2>1. w3.lines \in Seq(Line) /\ w2.lines \in Seq(Line) /\ WorkOK(w3) /\ OnlyLine(w2, w3, i)
    BY <1>3, <1>5, WorkHas DEF Transceived
  <2> QED BY <1>4, <2>1 DEF OnlyLine
<1>8. /\ l \in Line /\ l.gatherer = w3.lines[i].gatherer /\ l.transport = w3.lines[i].transport
      /\ l.rejected = w3.lines[i].rejected
  BY <1>7 DEF Line
<1> HIDE DEF l
<1>9. /\ WorkOK(w4) /\ OnlyLine(w3, w4, i) /\ w4.lines[i] = l /\ w4.gatherers = w3.gatherers
      /\ w4.transports = w3.transports /\ w4.timers = w3.timers
  <2>1. WorkOK(w3)
    BY <1>5 DEF Transceived
  <2> QED BY <1>7, <1>8, <2>1, LineFields
<1> HIDE DEF w4
<1>10. Effect(w3, w4, i)
  <2>1. WorkOK(w3)
    BY <1>5 DEF Transceived
  <2> QED BY <1>9, <2>1, EffectOf
<1>11. v = IF sec.sends THEN w3 ELSE w4
  BY DEF AnswerSection, w1, w2, w3, w4, l
<1>12. Effect(w, w3, i) /\ Effect(w, w4, i)
  <2>1. Effect(w, w2, i)
    BY <1>0, <1>2, <1>4, EffectTrans
  <2>2. Effect(w, w3, i)
    BY <1>0, <1>6, <2>1, EffectTrans
  <2> QED BY <1>0, <1>10, <2>2, EffectTrans
<1>13. /\ w3.lines[i].transport = w2.lines[i].transport
       /\ w3.lines[i].gatherer = w2.lines[i].gatherer
       /\ w3.lines[i].rejected = w2.lines[i].rejected
       /\ w3.transports = w2.transports
  <2>1. w3.lines[i] = Switched(w2.lines[i], w3.lines[i].sender, w3.lines[i].receiver)
    BY <1>5 DEF Transceived
  <2>2. w2.lines[i] \in Line
    BY <1>3, <1>4, LineHas
  <2>3. \A s, r : /\ Switched(w2.lines[i], s, r).transport = w2.lines[i].transport
                  /\ Switched(w2.lines[i], s, r).gatherer = w2.lines[i].gatherer
                  /\ Switched(w2.lines[i], s, r).rejected = w2.lines[i].rejected
    BY <2>2 DEF Line, Switched
  <2>4. w3.transports = w2.transports
    BY <1>5 DEF Transceived
  <2> QED BY <2>1, <2>3, <2>4
<1>14. /\ v.lines[i].transport = w.lines[i].transport
       /\ v.lines[i].gatherer = w.lines[i].gatherer
       /\ v.lines[i].rejected = w.lines[i].rejected
       /\ v.transports = w2.transports
  <2>1. CASE sec.sends
    BY <1>1, <1>3, <1>11, <1>13, <2>1
  <2>2. CASE ~sec.sends
    <3>1. v = w4
      BY <1>11, <2>2
    <3> QED BY <1>1, <1>3, <1>8, <1>9, <1>13, <3>1
  <2> QED BY <2>1, <2>2
<1>15. Effect(w, v, i)
  BY <1>11, <1>12
<1>16. ~(bundle /\ i > 1) => v.transports[v.lines[i].transport].ice # "new"
  BY <1>1, <1>3, <1>14
<1> QED BY <1>14, <1>15, <1>16 DEF AnswerTaken

LEMMA LedHas ==
  ASSUME NEW w, WorkOK(w), NEW bundle, Led(w, bundle), bundle, 1 \in DOMAIN w.lines
  PROVE  ~w.lines[1].rejected
<1>1. w.lines \in Seq(Line)
  BY WorkHas
<1> QED BY <1>1 DEF Led

(* The object of an m-line is replaced.                                      *)
LEMMA ReplaceDoes ==
  ASSUME NEW w, WorkOK(w), NEW i, NEW v, v = Replace(w, i)
  PROVE  /\ WorkOK(v) /\ v.lines = w.lines /\ v.transports = w.transports
         /\ v.timers = w.timers /\ Len(v.gatherers) = Len(w.gatherers)
<1>1. /\ w.lines \in Seq(Line) /\ w.gatherers \in Seq(Gatherer)
      /\ w.transports \in Seq(Transport) /\ w.timers \in Seq(Timers)
  BY WorkHas
<1>2. Recorded(w)
  BY WorkHas DEF Recorded
<1> DEFINE Unheard(g) == [g EXCEPT !.cut = g.cut \/ g.listens = i]
           gs == [g \in DOMAIN w.gatherers |-> Unheard(w.gatherers[g])]
<1>3. gs \in Seq(Gatherer) /\ Len(gs) = Len(w.gatherers)
  <2>1. ASSUME NEW x \in Gatherer PROVE Unheard(x) \in Gatherer
    BY DEF Gatherer
  <2> HIDE DEF Unheard
  <2>2. \A g \in DOMAIN w.gatherers : Unheard(w.gatherers[g]) \in Gatherer
    BY <1>1, <2>1
  <2>3. DOMAIN gs = 1 .. Len(w.gatherers) /\ Len(w.gatherers) \in Nat
    BY <1>1
  <2>4. gs \in [1 .. Len(w.gatherers) -> Gatherer]
    BY <1>1, <2>2
  <2> HIDE DEF gs
  <2> QED BY <2>3, <2>4
<1>4. v = [w EXCEPT !.gatherers = gs]
  BY DEF Replace
<1> HIDE DEF gs
<1>5. /\ v.lines = w.lines /\ v.transports = w.transports /\ v.timers = w.timers
      /\ v.gatherers = gs /\ Recorded(v)
  BY <1>2, <1>4 DEF Recorded
<1>6. v \in WorkType
  BY <1>1, <1>3, <1>5 DEF WorkType, Recorded
<1>7. Len(w.gatherers) <= Len(v.gatherers) /\ Len(w.transports) <= Len(v.transports)
  BY <1>1, <1>3, <1>5
<1>8. WorkOK(v)
  BY <1>5, <1>6, <1>7, ObjectsSet, Zenon
<1> QED BY <1>3, <1>5, <1>8

(* The first step of a section that is not rejected.                         *)
Prepared(w, v, i, bundle) ==
  /\ i \notin DOMAIN w.lines => v = w
  /\ i \in DOMAIN w.lines => /\ Effect(w, v, i)
                             /\ DOMAIN v.lines = DOMAIN w.lines /\ ~v.lines[i].rejected
  /\ i \in DOMAIN w.lines /\ bundle /\ i > 1 =>
       /\ v.lines[i].transport = w.lines[1].transport
       /\ v.lines[i].gatherer = w.lines[1].gatherer

LEMMA PrepareDoes ==
  ASSUME NEW w, WorkOK(w), NEW i, Place(w, i), NEW sec, SecOK(sec), NEW bundle \in BOOLEAN,
         NEW del \in BOOLEAN, Led(w, bundle), NEW v, v = Prepare(w, i, sec, bundle, del)
  PROVE  Prepared(w, v, i, bundle)
<1>1. /\ i \in Nat /\ i # 0 /\ (i > Len(w.lines) <=> i \notin DOMAIN w.lines)
      /\ i > 1 => 1 \in DOMAIN w.lines
  BY PlaceHas
<1>2. w.lines \in Seq(Line) /\ w.gatherers \in Seq(Gatherer) /\ w.transports \in Seq(Transport)
  BY WorkHas
<1>4. CASE i \notin DOMAIN w.lines
  <2>1. v = w
    BY <1>1, <1>4 DEF Prepare
  <2> QED BY <1>4, <2>1 DEF Prepared
<1>5. CASE i \in DOMAIN w.lines
  <2> DEFINE r == Replace(w, i)
             u == IF w.lines[i].rejected THEN CreateTransceiver(r, i, sec.kind, bundle) ELSE w
  <2>1. v = IF bundle /\ i > 1 THEN JoinBundle(u, i, del) ELSE u
    BY <1>1, <1>5 DEF Prepare
  <2>2. Effect(w, u, i) /\ WorkOK(u) /\ ~u.lines[i].rejected
    <3>1. CASE w.lines[i].rejected
      <4>1. u = CreateTransceiver(r, i, sec.kind, bundle)
        BY <3>1
      <4>2. /\ WorkOK(r) /\ r.lines = w.lines /\ r.transports = w.transports
            /\ r.timers = w.timers /\ Len(r.gatherers) = Len(w.gatherers)
        BY ReplaceDoes
      <4> HIDE DEF u, r
      <4>3. sec.kind \in Kind /\ Led(r, bundle) /\ Place(r, i)
        BY <4>2 DEF SecOK, Led, Place
      <4>4. /\ WorkOK(u) /\ OnlyLine(r, u, i) /\ IceKept(r.transports, u.transports)
            /\ u.gatherers = r.gatherers /\ u.timers = r.timers
            /\ u.lines[i] = NewLine(sec.kind, u.lines[i].transport)
        BY <4>1, <4>2, <4>3, CreateTransceiverDoes
      <4>5. /\ OnlyLine(w, u, i) /\ IceKept(w.transports, u.transports) /\ u.timers = w.timers
            /\ Grown(w.gatherers, u.gatherers)
        BY <1>2, <4>2, <4>4 DEF OnlyLine, Grown
      <4>6. Effect(w, u, i)
        BY <4>4, <4>5 DEF Effect
      <4>7. ~u.lines[i].rejected
        BY <4>4 DEF NewLine
      <4> QED BY <4>4, <4>6, <4>7
    <3>2. CASE ~w.lines[i].rejected
      <4>1. u = w
        BY <3>2
      <4> HIDE DEF u
      <4>2. Effect(w, w, i)
        BY <1>5, EffectOf
      <4> QED BY <3>2, <4>1, <4>2
    <3> QED BY <3>1, <3>2
  <2> HIDE DEF u
  <2>3. u.lines \in Seq(Line) /\ Len(u.lines) = Len(w.lines) /\ (i # 1 => u.lines[1] = w.lines[1])
    <3>1. u.lines \in Seq(Line) /\ OnlyLine(w, u, i)
      BY <2>2, WorkHas DEF Effect
    <3> QED BY <1>1, <1>2, <1>5, <3>1 DEF OnlyLine
  <2>4. CASE bundle /\ i > 1
    <3>1. v = JoinBundle(u, i, del)
      BY <2>1, <2>4
    <3>2. i \in DOMAIN u.lines /\ 1 \in DOMAIN u.lines /\ ~u.lines[1].rejected
      <4>1. ~w.lines[1].rejected
        BY <1>1, <2>4, LedHas
      <4>2. i \in DOMAIN u.lines /\ 1 \in DOMAIN u.lines
        BY <1>1, <1>2, <1>5, <2>3, <2>4
      <4> QED BY <1>1, <2>3, <2>4, <4>1, <4>2
    <3>3. /\ WorkOK(v) /\ OnlyLine(u, v, i) /\ Grown(u.gatherers, v.gatherers)
          /\ IceKept(u.transports, v.transports) /\ v.timers = u.timers
          /\ v.lines[i] = Bundled(u.lines[i], u.lines[1])
      BY <2>2, <3>1, <3>2, JoinBundleDoes
    <3>4. Effect(u, v, i)
      BY <2>2, <3>3, EffectOf
    <3>5. Effect(w, v, i)
      <4>1. Effect(w, u, i) /\ i \in Nat
        BY <1>1, <2>2
      <4> QED BY <3>4, <4>1, EffectTrans
    <3>6. u.lines[i] \in Line
      BY <2>3, <3>2
    <3>7. /\ v.lines[i].transport = w.lines[1].transport
          /\ v.lines[i].gatherer = w.lines[1].gatherer /\ ~v.lines[i].rejected
      <4>1. /\ Bundled(u.lines[i], u.lines[1]).transport = u.lines[1].transport
            /\ Bundled(u.lines[i], u.lines[1]).gatherer = u.lines[1].gatherer
            /\ Bundled(u.lines[i], u.lines[1]).rejected = u.lines[i].rejected
        BY <3>6 DEF Bundled, Line
      <4>2. i # 1
        BY <1>1, <2>4
      <4> QED BY <2>2, <2>3, <3>3, <4>1, <4>2
    <3>8. v.lines \in Seq(Line)
      BY <3>3, WorkHas
    <3>9. DOMAIN v.lines = DOMAIN w.lines
      BY <1>2, <2>3, <3>2, <3>3, <3>8 DEF OnlyLine
    <3> QED BY <1>5, <2>4, <3>5, <3>7, <3>9 DEF Prepared
  <2>5. CASE ~(bundle /\ i > 1)
    <3>1. v = u
      BY <2>1, <2>5
    <3>2. DOMAIN u.lines = DOMAIN w.lines
      BY <1>2, <2>3
    <3> QED BY <1>5, <2>2, <2>5, <3>1, <3>2 DEF Prepared
  <2> QED BY <2>4, <2>5
<1> QED
  BY <1>4, <1>5

(* A section of a remote description.                                        *)
SectionTaken(w, v, i, type, sec, bundle) ==
  /\ Effect(w, v, i) /\ Led(v, bundle)
  /\ v.lines[i].rejected = sec.rejected
  /\ sec.rejected => ~Runs(v.lines[i])
  /\ ~sec.rejected /\ bundle /\ i > 1 =>
       /\ v.lines[i].transport = w.lines[1].transport
       /\ v.lines[i].gatherer \in {0, w.lines[1].gatherer}
  /\ ~sec.rejected /\ ~(bundle /\ i > 1) =>
       IF type = "offer" THEN v.lines[i].gatherer # 0
       ELSE v.transports[v.lines[i].transport].ice # "new"

(* m-line 1 stays one a bundle can rest on.                                  *)
LEMMA LedStays ==
  ASSUME NEW w, WorkOK(w), NEW bundle, Led(w, bundle), NEW i, Place(w, i), NEW v, WorkOK(v),
         OnlyLine(w, v, i), i = 1 /\ bundle => ~v.lines[1].rejected
  PROVE  Led(v, bundle)
<1>1. /\ i \in Nat /\ i # 0
      /\ i > 1 => 1 \in DOMAIN w.lines /\ w.lines # <<>>
  BY PlaceHas
<1>2. CASE i = 1
  BY <1>2 DEF Led
<1>3. CASE i # 1
  <2>1. i > 1
    BY <1>1, <1>3, PlaceHas
  <2>2. 1 \in DOMAIN w.lines /\ w.lines # <<>>
    BY <1>1, <2>1
  <2>3. v.lines[1] = w.lines[1]
    BY <1>3, <2>2 DEF OnlyLine
  <2> QED BY <2>2, <2>3 DEF Led
<1> QED BY <1>2, <1>3

Rejecting(w, i, kind) == [Replace(w, i) EXCEPT !.lines = Put(@, i, RejectedLine(kind))]
RejectedAt(w, v, i, kind) == Effect(w, v, i) /\ v.lines[i] = RejectedLine(kind)

LEMMA RejectDoes ==
  ASSUME NEW w, WorkOK(w), NEW i, Place(w, i), NEW kind \in Kind,
         NEW v, v = Rejecting(w, i, kind)
  PROVE  RejectedAt(w, v, i, kind)
<1> DEFINE l == RejectedLine(kind)
           r == Replace(w, i)
<1>1. /\ w.lines \in Seq(Line) /\ w.gatherers \in Seq(Gatherer)
      /\ w.transports \in Seq(Transport) /\ w.timers \in Seq(Timers)
  BY WorkHas
<1>2. /\ r.lines = w.lines /\ r.transports = w.transports /\ r.timers = w.timers
      /\ Len(r.gatherers) = Len(w.gatherers) /\ r.gatherers \in Seq(Gatherer) /\ Recorded(r)
  <2>1. /\ WorkOK(r) /\ r.lines = w.lines /\ r.transports = w.transports /\ r.timers = w.timers
        /\ Len(r.gatherers) = Len(w.gatherers)
    BY ReplaceDoes
  <2> HIDE DEF r
  <2> QED BY <2>1, WorkHas DEF Recorded
<1>3. l \in Line /\ l.gatherer = 0 /\ l.transport = 0 /\ l.rejected = TRUE
  <2>1. <<>> \in Seq(Event)
    OBVIOUS
  <2> QED BY <2>1 DEF RejectedLine, NewLine, Line
<1>3a. v = [r EXCEPT !.lines = Put(@, i, l)]
  BY DEF Rejecting
<1> HIDE DEF l, r
<1>4. /\ v.lines = Put(w.lines, i, l) /\ v.gatherers = r.gatherers
      /\ v.transports = w.transports /\ v.timers = w.timers /\ Recorded(v)
  BY <1>2, <1>3a DEF Recorded
<1>5. i \in 1 .. Len(w.lines) + 1
  BY DEF Place
<1>6. v.lines \in Seq(Line) /\ OnlyLine(w, v, i) /\ v.lines[i] = l
  BY <1>1, <1>3, <1>4, <1>5 DEF Put, OnlyLine
<1>7. v \in WorkType
  BY <1>1, <1>2, <1>4, <1>6 DEF WorkType, Recorded
<1>8. WorkOK(v)
  <2>1. /\ Len(w.gatherers) <= Len(v.gatherers) /\ Len(w.transports) <= Len(v.transports)
        /\ v.lines[i].gatherer \in 0 .. Len(v.gatherers)
        /\ v.lines[i].transport \in 0 .. Len(v.transports)
        /\ v.lines[i].rejected <=> v.lines[i].transport = 0
    BY <1>1, <1>2, <1>3, <1>4, <1>6
  <2> QED BY <1>6, <1>7, <2>1, LineAt, Zenon
<1>9. Effect(w, v, i)
  BY <1>1, <1>2, <1>4, <1>6, <1>8, EffectOf DEF Grown
<1> QED BY <1>6, <1>9 DEF l, RejectedAt

LEMMA RemoteSectionDoes ==
  ASSUME NEW w, WorkOK(w), NEW i, Place(w, i), NEW sec, SecOK(sec), NEW bundle \in BOOLEAN,
         NEW del \in BOOLEAN, Led(w, bundle), NEW type, type # "offer" => i \in DOMAIN w.lines,
         i = 1 /\ bundle => ~sec.rejected,
         NEW v, v = RemoteSection(w, i, type, sec, bundle, del)
  PROVE  SectionTaken(w, v, i, type, sec, bundle)
<1>1. /\ i \in Nat /\ i # 0 /\ (i > Len(w.lines) <=> i \notin DOMAIN w.lines)
      /\ i > 1 => 1 \in DOMAIN w.lines
  BY PlaceHas
<1>2. CASE sec.rejected
  <2>1. sec.kind \in Kind
    BY DEF SecOK
  <2>2. v = Rejecting(w, i, sec.kind)
    BY <1>2 DEF RemoteSection, Rejecting
  <2>2a. RejectedAt(w, v, i, sec.kind)
    BY <2>1, <2>2, RejectDoes
  <2>3. Effect(w, v, i) /\ v.lines[i] = RejectedLine(sec.kind)
    BY <2>2a DEF RejectedAt
  <2>4. v.lines[i].rejected = TRUE /\ ~Runs(v.lines[i])
    BY <2>3 DEF RejectedLine, NewLine, Runs
  <2>6. Led(v, bundle)
    BY <1>2, <2>3, LedStays DEF Effect
  <2>7. v.lines[i].rejected = sec.rejected
    BY <1>2, <2>4 DEF SecOK
  <2> QED BY <1>2, <2>3, <2>4, <2>6, <2>7 DEF SectionTaken
<1>3. CASE ~sec.rejected
  <2> DEFINE u == Prepare(w, i, sec, bundle, del)
  <2>1. v = IF type = "offer" THEN OfferSection(u, i, sec, bundle)
            ELSE AnswerSection(u, i, sec, bundle)
    BY <1>3 DEF RemoteSection
  <2>2. Prepared(w, u, i, bundle)
    BY PrepareDoes
  <2> HIDE DEF u
  <2>3. WorkOK(u) /\ (i \in DOMAIN u.lines <=> i \in DOMAIN w.lines) /\ Place(u, i)
    <3>1. CASE i \in DOMAIN w.lines
      <4>1. WorkOK(u) /\ DOMAIN u.lines = DOMAIN w.lines
        BY <2>2, <3>1 DEF Prepared, Effect
      <4>2. w.lines \in Seq(Line) /\ u.lines \in Seq(Line)
        BY <4>1, WorkHas
      <4> QED BY <3>1, <4>1, <4>2 DEF Place
    <3>2. CASE i \notin DOMAIN w.lines
      BY <2>2, <3>2 DEF Prepared
    <3> QED BY <3>1, <3>2
  <2>4. i \in DOMAIN u.lines => ~u.lines[i].rejected
    BY <2>2, <2>3 DEF Prepared
  <2>5. Led(u, bundle)
    <3>1. CASE i \in DOMAIN w.lines
      <4>1. OnlyLine(w, u, i) /\ (i = 1 => ~u.lines[1].rejected)
        BY <2>2, <3>1 DEF Prepared, Effect
      <4> QED BY <2>3, <4>1, LedStays
    <3>2. CASE i \notin DOMAIN w.lines
      BY <2>2, <3>2 DEF Prepared
    <3> QED BY <3>1, <3>2
  <2>6. i > 1 => u.lines[1] = w.lines[1]
    <3>1. CASE i \in DOMAIN w.lines
      BY <1>1, <2>2, <3>1 DEF Prepared, Effect, OnlyLine
    <3>2. CASE i \notin DOMAIN w.lines
      BY <2>2, <3>2 DEF Prepared
    <3> QED BY <3>1, <3>2
  <2>7. ASSUME Effect(u, v, i)
        PROVE  Effect(w, v, i)
    <3>1. CASE i \in DOMAIN w.lines
      <4>1. Effect(w, u, i)
        BY <2>2, <3>1 DEF Prepared
      <4> QED BY <1>1, <2>7, <4>1, EffectTrans
    <3>2. CASE i \notin DOMAIN w.lines
      <4>1. u = w
        BY <2>2, <3>2 DEF Prepared
      <4> QED BY <2>7, <4>1
    <3> QED BY <3>1, <3>2
  <2>9. CASE type = "offer"
    <3>1. OfferTaken(u, v, i, bundle)
      BY <2>1, <2>3, <2>4, <2>5, <2>9, OfferSectionDoes
    <3>2. Effect(w, v, i) /\ ~v.lines[i].rejected
      BY <2>7, <3>1 DEF OfferTaken
    <3>3. Led(v, bundle)
      BY <3>2, LedStays DEF Effect
    <3>4. bundle /\ i > 1 => /\ v.lines[i].transport = w.lines[1].transport
                            /\ v.lines[i].gatherer = w.lines[1].gatherer
      <4>1. CASE i \in DOMAIN w.lines
        BY <2>2, <2>3, <2>6, <3>1, <4>1 DEF Prepared, OfferTaken
      <4>2. CASE i \notin DOMAIN w.lines
        BY <2>3, <2>6, <3>1, <4>2 DEF OfferTaken
      <4> QED BY <4>1, <4>2
    <3>5. ~(bundle /\ i > 1) => v.lines[i].gatherer # 0
      <4>1. CASE i \in DOMAIN u.lines /\ u.lines[i].gatherer # 0
        BY <3>1, <4>1 DEF OfferTaken
      <4>2. CASE ~(i \in DOMAIN u.lines /\ u.lines[i].gatherer # 0)
        <5>1. ~(bundle /\ i > 1) => v.lines[i].gatherer > Len(u.gatherers)
          BY <3>1, <4>2 DEF OfferTaken
        <5>2. Len(u.gatherers) \in Nat
          BY <2>3, WorkHas
        <5> QED BY <5>1, <5>2
      <4> QED BY <4>1, <4>2
    <3>6. v.lines[i].rejected = sec.rejected
      <4>1. v.lines[i].rejected \in BOOLEAN
        <5>1. WorkOK(v) /\ OnlyLine(w, v, i)
          BY <3>2 DEF Effect
        <5>2. i \in DOMAIN v.lines
          BY <5>1, WorkHas, PlaceHas
        <5>3. v.lines[i] \in Line
          BY <5>1, <5>2, LineHas
        <5> QED BY <5>3 DEF Line
      <4> QED BY <1>3, <3>2, <4>1 DEF SecOK
    <3> QED BY <1>3, <2>9, <3>2, <3>3, <3>4, <3>5, <3>6 DEF SectionTaken
  <2>10. CASE type # "offer"
    <3>1. i \in DOMAIN u.lines /\ i \in DOMAIN w.lines
      BY <2>3, <2>10
    <3>2. AnswerTaken(u, v, i, bundle)
      BY <2>1, <2>3, <2>4, <2>10, <3>1, AnswerSectionDoes
    <3>3. Effect(w, v, i) /\ ~v.lines[i].rejected
      BY <2>7, <3>2 DEF AnswerTaken
    <3>4. Led(v, bundle)
      BY <3>3, LedStays DEF Effect
    <3>5. bundle /\ i > 1 => /\ v.lines[i].transport = w.lines[1].transport
                            /\ v.lines[i].gatherer = w.lines[1].gatherer
      BY <2>2, <3>1, <3>2 DEF Prepared, AnswerTaken
    <3>6. ~(bundle /\ i > 1) => v.transports[v.lines[i].transport].ice # "new"
      BY <2>2, <3>1, <3>2 DEF Prepared, AnswerTaken
    <3>7. v.lines[i].rejected = sec.rejected
      <4>1. v.lines[i].rejected \in BOOLEAN
        <5>1. WorkOK(v) /\ OnlyLine(w, v, i)
          BY <3>3 DEF Effect
        <5>2. i \in DOMAIN v.lines
          BY <5>1, WorkHas, PlaceHas
        <5>3. v.lines[i] \in Line
          BY <5>1, <5>2, LineHas
        <5> QED BY <5>3 DEF Line
      <4> QED BY <1>3, <3>3, <4>1 DEF SecOK
    <3> QED BY <1>3, <2>10, <3>1, <3>3, <3>4, <3>5, <3>6, <3>7 DEF SectionTaken
  <2> QED BY <2>9, <2>10
<1> QED BY <1>2, <1>3
-----------------------------------------------------------------------------
(* The passes                                                                *)

(* A remote description: an m-line whose section was applied ...             *)
SectionDone(w, j, type, sec, bundle) ==
  /\ w.lines[j].rejected = sec.rejected
  /\ sec.rejected => ~Runs(w.lines[j])
  /\ ~sec.rejected /\ bundle => /\ w.lines[j].transport = w.lines[1].transport
                                /\ w.lines[j].gatherer \in {0, w.lines[1].gatherer}
  /\ ~sec.rejected /\ ~(bundle /\ j > 1) =>
       IF type = "offer" THEN w.lines[j].gatherer # 0
       ELSE w.transports[w.lines[j].transport].ice # "new"
(* ... and everything once k sections were.                                  *)
Applied(w, k, type, secs, bundle) ==
  /\ WorkOK(w) /\ Led(w, bundle) /\ w.timers = timers
  /\ IceKept(transports, w.transports) /\ Grown(gatherers, w.gatherers)
  /\ Len(w.lines) = IF k > Len(lines) THEN k ELSE Len(lines)
  /\ \A j \in DOMAIN lines : j > k => w.lines[j] = lines[j]
  /\ \A j \in 1 .. k : SectionDone(w, j, type, secs[j], bundle)
SectionsOK(type, secs, bundle) ==
  /\ Len(secs) \in 1 .. MaxLines
  /\ \A i \in 1 .. Len(secs) : SecOK(secs[i])
  /\ bundle => ~secs[1].rejected
  /\ type # "offer" => Len(secs) <= Len(lines)

LEMMA WorkIs ==
  /\ Work.lines = lines /\ Work.gatherers = gatherers
  /\ Work.transports = transports /\ Work.timers = timers
  BY DEF Work

LEMMA SectionStays ==
  ASSUME NEW w, WorkOK(w), NEW v, NEW i \in Nat, Effect(w, v, i), NEW j \in DOMAIN w.lines,
         j # i, i # 1, 1 \in DOMAIN w.lines, NEW type, NEW sec, SecOK(sec), NEW bundle,
         SectionDone(w, j, type, sec, bundle)
  PROVE  SectionDone(v, j, type, sec, bundle)
<1>1. v.lines[j] = w.lines[j] /\ v.lines[1] = w.lines[1]
  BY DEF Effect, OnlyLine
<1>2. /\ w.transports \in Seq(Transport) /\ w.lines[j].transport \in 0 .. Len(w.transports)
      /\ w.lines[j].rejected <=> w.lines[j].transport = 0
  BY WorkHas, LineHas
<1>3. ASSUME ~sec.rejected, w.transports[w.lines[j].transport].ice # "new"
      PROVE  v.transports[v.lines[j].transport].ice # "new"
  <2>1. w.lines[j].rejected = FALSE
    BY <1>3 DEF SectionDone, SecOK
  <2>2. w.lines[j].transport \in DOMAIN w.transports
    BY <1>2, <2>1
  <2> QED BY <1>1, <1>3, <2>2 DEF Effect, IceKept
<1> QED BY <1>1, <1>3 DEF SectionDone

LEMMA SectionStep ==
  ASSUME NEW type, NEW secs, NEW bundle \in BOOLEAN, SectionsOK(type, secs, bundle), NEW del \in BOOLEAN,
         WorkOK(Work), NEW k \in Nat, k < Len(secs), NEW w, Applied(w, k, type, secs, bundle),
         NEW v, v = RemoteSection(w, k + 1, type, secs[k + 1], bundle, del)
  PROVE  Applied(v, k + 1, type, secs, bundle)
<1> DEFINE i == k + 1
           sec == secs[i]
<1>0. /\ lines \in Seq(Line) /\ gatherers \in Seq(Gatherer) /\ transports \in Seq(Transport)
      /\ Len(lines) <= MaxLines /\ MaxLines \in Nat
  BY WorkHas, WorkIs, BoundsAssumption
<1>1. /\ WorkOK(w) /\ Led(w, bundle) /\ w.timers = timers
      /\ IceKept(transports, w.transports) /\ Grown(gatherers, w.gatherers)
      /\ Len(w.lines) = IF k > Len(lines) THEN k ELSE Len(lines)
  BY DEF Applied
<1>2. /\ w.lines \in Seq(Line) /\ w.gatherers \in Seq(Gatherer) /\ w.transports \in Seq(Transport)
  BY <1>1, WorkHas
<1>3. i \in 1 .. Len(secs) /\ SecOK(sec) /\ Len(secs) <= MaxLines /\ Len(secs) \in Nat
  BY <1>0 DEF SectionsOK
<1>4. Place(w, i)
  BY <1>0, <1>1, <1>3 DEF Place
<1>5. type # "offer" => i \in DOMAIN w.lines
  BY <1>0, <1>1, <1>2, <1>3 DEF SectionsOK
<1>6. i = 1 /\ bundle => ~sec.rejected
  BY DEF SectionsOK
<1>7. v = RemoteSection(w, i, type, sec, bundle, del)
  OBVIOUS
<1>8. i \in Nat /\ k \in Nat /\ i > k /\ i # 0
  OBVIOUS
<1>8a. i = k + 1
  OBVIOUS
<1>8b. i > 1 => 1 \in DOMAIN w.lines
  BY <1>1, <1>4, PlaceHas
<1>9. sec = secs[i]
  OBVIOUS
<1> HIDE DEF i, sec
<1>10. SectionTaken(w, v, i, type, sec, bundle)
  BY <1>1, <1>3, <1>4, <1>5, <1>6, <1>7, RemoteSectionDoes
<1>11. Effect(w, v, i) /\ Led(v, bundle)
  BY <1>10 DEF SectionTaken
<1>12. WorkOK(v) /\ OnlyLine(w, v, i) /\ v.timers = timers
  BY <1>1, <1>11 DEF Effect
<1>13. /\ v.lines \in Seq(Line) /\ v.gatherers \in Seq(Gatherer) /\ v.transports \in Seq(Transport)
  BY <1>12, WorkHas
<1>14. IceKept(transports, v.transports)
  <2>1. IceKept(w.transports, v.transports)
    BY <1>11 DEF Effect
  <2> QED BY <1>0, <1>1, <1>2, <1>13, <2>1, IceKeptTrans
<1>15. Grown(gatherers, v.gatherers)
  <2>1. Grown(w.gatherers, v.gatherers)
    BY <1>11 DEF Effect
  <2> QED BY <1>0, <1>1, <1>2, <1>13, <2>1 DEF Grown
<1>16. Len(v.lines) = IF i > Len(lines) THEN i ELSE Len(lines)
  BY <1>0, <1>1, <1>2, <1>8, <1>8a, <1>12 DEF OnlyLine
<1>17. ASSUME NEW j \in DOMAIN lines, j > i PROVE v.lines[j] = lines[j]
  <2>1. w.lines[j] = lines[j] /\ j \in DOMAIN w.lines /\ j # i
    BY <1>0, <1>1, <1>2, <1>8, <1>17 DEF Applied
  <2> QED BY <1>12, <2>1 DEF OnlyLine
<1>18. ASSUME NEW j \in 1 .. i PROVE SectionDone(v, j, type, secs[j], bundle)
  <2>1. CASE j # i
    <3>0. j \in 1 .. k /\ i > 1 /\ i # 1
      BY <1>8, <1>8a, <2>1
    <3>1. j \in 1 .. k /\ i # 1 /\ j \in DOMAIN w.lines /\ 1 \in DOMAIN w.lines
      BY <1>0, <1>1, <1>2, <1>8b, <3>0, SMTT(30)
    <3>2. SectionDone(w, j, type, secs[j], bundle)
      BY <3>1 DEF Applied
    <3>3. SecOK(secs[j])
      BY <1>3, <3>1, <1>8 DEF SectionsOK
    <3> QED BY <1>1, <1>8, <1>11, <2>1, <3>1, <3>2, <3>3, SectionStays
  <2>2. CASE j = i
    <3>1. i > 1 => v.lines[1] = w.lines[1]
      BY <1>8, <1>8b, <1>12 DEF OnlyLine
    <3>2. ASSUME ~sec.rejected, bundle
          PROVE  /\ v.lines[i].transport = v.lines[1].transport
                 /\ v.lines[i].gatherer \in {0, v.lines[1].gatherer}
      <4>1. CASE i = 1
        BY <4>1
      <4>2. CASE i > 1
        BY <1>10, <3>1, <3>2, <4>2 DEF SectionTaken
      <4> QED BY <1>8, <4>1, <4>2
    <3>7. /\ v.lines[i].rejected = sec.rejected
          /\ sec.rejected => ~Runs(v.lines[i])
          /\ ~sec.rejected /\ ~(bundle /\ i > 1) =>
               IF type = "offer" THEN v.lines[i].gatherer # 0
               ELSE v.transports[v.lines[i].transport].ice # "new"
      BY <1>10 DEF SectionTaken
    <3> QED BY <1>9, <2>2, <3>2, <3>7 DEF SectionDone
  <2> QED BY <2>1, <2>2
<1>19. Applied(v, i, type, secs, bundle)
  BY <1>11, <1>12, <1>14, <1>15, <1>16, <1>17, <1>18 DEF Applied
<1> QED BY <1>8a, <1>19
LEMMA NothingApplied ==
  ASSUME WorkOK(Work), NEW bundle, Led(Work, bundle), NEW type, NEW secs
  PROVE  Applied(Work, 0, type, secs, bundle)
<1>1. lines \in Seq(Line) /\ gatherers \in Seq(Gatherer) /\ transports \in Seq(Transport)
  BY WorkHas, WorkIs
<1>2. IceKept(transports, transports) /\ Grown(gatherers, gatherers)
  BY <1>1 DEF IceKept, Grown
<1>3. \A j \in 1 .. 0 : SectionDone(Work, j, type, secs[j], bundle)
  OBVIOUS
<1>4. Len(lines) = IF 0 > Len(lines) THEN 0 ELSE Len(lines)
  BY <1>1
<1> QED BY <1>2, <1>3, <1>4, WorkIs DEF Applied

LEMMA RemoteSectionsDo ==
  ASSUME NEW type, NEW secs, NEW bundle \in BOOLEAN, SectionsOK(type, secs, bundle), NEW del \in BOOLEAN,
         WorkOK(Work), Led(Work, bundle)
  PROVE  Applied(RemoteSections(type, secs, bundle, del), Len(secs), type, secs, bundle)
<1>1. Len(secs) \in Nat
  BY DEF SectionsOK
<1>2. PICK f : /\ f[0] = Work /\ f[Len(secs)] = RemoteSections(type, secs, bundle, del)
               /\ \A i \in 1 .. Len(secs) :
                    f[i] = RemoteSection(f[i - 1], i, type, secs[i], bundle, del)
  <2>1. \A b, d : \E f : /\ f[0] = Work /\ f[Len(secs)] = RemoteSections(type, secs, b, d)
                         /\ \A i \in 1 .. Len(secs) :
                              f[i] = RemoteSection(f[i - 1], i, type, secs[i], b, d)
    BY <1>1, RemoteSectionsAre
  <2> QED BY <2>1
<1> DEFINE S == {k \in Nat : Applied(f[k], k, type, secs, bundle)}
<1>3. 0 \in S
  BY <1>2, NothingApplied
<1>4. ASSUME NEW k \in 0 .. Len(secs), k # Len(secs), k \in S
      PROVE  k + 1 \in S
  <2>1. k + 1 \in 1 .. Len(secs) /\ k < Len(secs) /\ k + 1 - 1 = k /\ k \in Nat
    BY <1>1, <1>4
  <2>2. f[k + 1] = RemoteSection(f[k], k + 1, type, secs[k + 1], bundle, del)
    BY <1>2, <2>1
  <2>3. Applied(f[k], k, type, secs, bundle)
    BY <1>4
  <2>4. Applied(f[k + 1], k + 1, type, secs, bundle)
    BY <2>1, <2>2, <2>3, SectionStep
  <2> QED BY <2>1, <2>4
<1> HIDE DEF S
<1>5. Len(secs) \in S
  <2>1. \A k \in 0 .. Len(secs) : k \in S
    BY <1>1, <1>3, <1>4, UpTo
  <2> QED BY <1>1, <2>1
<1> QED BY <1>2, <1>5 DEF S

(* createOffer: the m-lines that are added ...                               *)
Widened(w, v) ==
  /\ WorkOK(v) /\ v.timers = w.timers /\ v.gatherers = w.gatherers
  /\ IceKept(w.transports, v.transports)
  /\ Len(w.lines) <= Len(v.lines)
  /\ \A j \in DOMAIN w.lines : v.lines[j] = w.lines[j]
  /\ \A j \in DOMAIN v.lines : j \notin DOMAIN w.lines =>
       v.lines[j] = NewLine(v.lines[j].kind, v.lines[j].transport) /\ ~v.lines[j].rejected

LEMMA WidenedStays ==
  ASSUME NEW w, WorkOK(w)
  PROVE  Widened(w, w)
<1>1. w.lines \in Seq(Line) /\ w.transports \in Seq(Transport)
  BY WorkHas
<1> QED BY <1>1 DEF Widened, IceKept

LEMMA WidenedTrans ==
  ASSUME NEW w, WorkOK(w), NEW v, Widened(w, v), NEW u, Widened(v, u)
  PROVE  Widened(w, u)
<1>1. WorkOK(v) /\ WorkOK(u)
  BY DEF Widened
<1>2. /\ w.lines \in Seq(Line) /\ v.lines \in Seq(Line) /\ u.lines \in Seq(Line)
      /\ w.transports \in Seq(Transport) /\ v.transports \in Seq(Transport)
      /\ u.transports \in Seq(Transport)
  BY <1>1, WorkHas
<1>3. IceKept(w.transports, u.transports)
  <2>1. IceKept(w.transports, v.transports) /\ IceKept(v.transports, u.transports)
    BY DEF Widened
  <2> QED BY <1>2, <2>1, IceKeptTrans
<1>4. Len(w.lines) <= Len(v.lines) /\ Len(v.lines) <= Len(u.lines)
  BY DEF Widened
<1>5. \A j \in DOMAIN w.lines : j \in DOMAIN v.lines
  BY <1>2, <1>4
<1>6. \A j \in DOMAIN w.lines : u.lines[j] = w.lines[j]
  BY <1>5 DEF Widened
<1>7. ASSUME NEW j \in DOMAIN u.lines, j \notin DOMAIN w.lines
      PROVE  u.lines[j] = NewLine(u.lines[j].kind, u.lines[j].transport) /\ ~u.lines[j].rejected
  <2>1. CASE j \in DOMAIN v.lines
    <3>1. u.lines[j] = v.lines[j]
      BY <2>1 DEF Widened
    <3>2. v.lines[j] = NewLine(v.lines[j].kind, v.lines[j].transport) /\ ~v.lines[j].rejected
      BY <1>7, <2>1 DEF Widened
    <3> QED BY <3>1, <3>2
  <2>2. CASE j \notin DOMAIN v.lines
    BY <2>2 DEF Widened
  <2> QED BY <2>1, <2>2
<1>8. Len(w.lines) <= Len(u.lines)
  BY <1>2, <1>4
<1>9. u.timers = w.timers /\ u.gatherers = w.gatherers
  BY DEF Widened
<1> QED BY <1>1, <1>3, <1>6, <1>7, <1>8, <1>9 DEF Widened

LEMMA CreateAtEnd ==
  ASSUME NEW w, WorkOK(w), Len(w.lines) < MaxLines, NEW kind \in Kind, NEW bundle \in BOOLEAN,
         Led(w, bundle), NEW v, v = CreateTransceiver(w, Len(w.lines) + 1, kind, bundle)
  PROVE  Widened(w, v) /\ Led(v, bundle) /\ Len(v.lines) = Len(w.lines) + 1
<1> DEFINE i == Len(w.lines) + 1
<1>1. w.lines \in Seq(Line) /\ MaxLines \in Nat
  BY WorkHas, BoundsAssumption
<1>2. Place(w, i) /\ i \in Nat
  BY <1>1 DEF Place
<1>3. v = CreateTransceiver(w, i, kind, bundle) /\ i = Len(w.lines) + 1
  OBVIOUS
<1> HIDE DEF i
<1>4. /\ WorkOK(v) /\ OnlyLine(w, v, i) /\ IceKept(w.transports, v.transports)
      /\ v.gatherers = w.gatherers /\ v.timers = w.timers
      /\ v.lines[i] = NewLine(kind, v.lines[i].transport)
  BY <1>2, <1>3, CreateTransceiverDoes
<1>5. v.lines \in Seq(Line)
  BY <1>4, WorkHas
<1>6. /\ Len(v.lines) = Len(w.lines) + 1
      /\ \A j \in DOMAIN w.lines : v.lines[j] = w.lines[j]
  BY <1>1, <1>3, <1>4, <1>5 DEF OnlyLine
<1>7. v.lines[i].kind = kind /\ ~v.lines[i].rejected
  BY <1>4 DEF NewLine
<1>8. \A j \in DOMAIN v.lines : j \notin DOMAIN w.lines => j = i
  BY <1>1, <1>3, <1>5, <1>6
<1>9. Led(v, bundle)
  BY <1>2, <1>4, <1>7, LedStays
<1>10. v.lines[i] = NewLine(v.lines[i].kind, v.lines[i].transport)
  BY <1>4, <1>7
<1>11. Len(w.lines) <= Len(v.lines)
  BY <1>1, <1>6
<1>12. \A j \in DOMAIN v.lines : j \notin DOMAIN w.lines =>
         v.lines[j] = NewLine(v.lines[j].kind, v.lines[j].transport) /\ ~v.lines[j].rejected
  BY <1>7, <1>8, <1>10
<1>13. Widened(w, v)
  BY <1>4, <1>6, <1>11, <1>12 DEF Widened
<1> QED BY <1>6, <1>9, <1>13
(* ... and the gatherers they all get.                                       *)
LineKept(l, m) ==
  /\ m.transport = l.transport /\ m.rejected = l.rejected /\ m.kind = l.kind
  /\ Runs(m) => Runs(l)
OfferLined(w, v, i) ==
  /\ Effect(w, v, i) /\ v.transports = w.transports
  /\ LineKept(w.lines[i], v.lines[i])
  /\ v.lines[i].gatherer = IF w.lines[i].gatherer # 0 THEN w.lines[i].gatherer
                           ELSE IF usingBundle /\ i > 1 THEN w.lines[1].gatherer
                           ELSE Len(w.gatherers) + 1

Reoffered(l, wanted) ==
  [l EXCEPT !.wantReceive = wanted, !.receiver = IF wanted THEN "idle" ELSE l.receiver]
LEMMA ReofferedIs ==
  ASSUME NEW l \in Line, NEW wanted \in BOOLEAN
  PROVE  /\ Reoffered(l, wanted) \in Line /\ LineKept(l, Reoffered(l, wanted))
         /\ Reoffered(l, wanted).gatherer = l.gatherer
         /\ Reoffered(l, wanted).transport = l.transport
         /\ Reoffered(l, wanted).rejected = l.rejected
  BY DEF Reoffered, Line, LineKept, Runs

LEMMA LineKeptTrans ==
  ASSUME NEW l, NEW m, NEW n, LineKept(l, m), LineKept(m, n)
  PROVE  LineKept(l, n)
  BY DEF LineKept

LEMMA OfferLineDoes ==
  ASSUME NEW w, WorkOK(w), NEW i \in DOMAIN w.lines, NEW want, NEW v, v = OfferLine(w, i, want)
  PROVE  OfferLined(w, v, i)
<1> DEFINE u == CreateIceGatherer(w, i, usingBundle)
           wanted == /\ u.lines[i].wantReceive
                     /\ CountKind(SubSeq(u.lines, 1, i), u.lines[i].kind) <= want[u.lines[i].kind]
           l == Reoffered(u.lines[i], wanted)
<1>1. GathererCreated(w, u, i, usingBundle)
  BY CreateIceGathererDoes
<1>2. v = [u EXCEPT !.lines[i].wantReceive = wanted, !.lines[i].receiver = IF wanted THEN "idle" ELSE @]
  BY DEF OfferLine
<1>3. wanted \in BOOLEAN
  OBVIOUS
<1> HIDE DEF u, wanted
<1>4. WorkOK(u) /\ i \in DOMAIN u.lines /\ u.lines \in Seq(Line) /\ u.lines[i] \in Line
  <2>1. WorkOK(u) /\ OnlyLine(w, u, i)
    BY <1>1 DEF GathererCreated
  <2>2. w.lines \in Seq(Line) /\ u.lines \in Seq(Line)
    BY <2>1, WorkHas
  <2>3. i \in DOMAIN u.lines
    BY <2>1, <2>2 DEF OnlyLine
  <2> QED BY <2>1, <2>2, <2>3
<1>5. Recorded(u)
  BY <1>4, WorkHas DEF Recorded
<1>6. v = [u EXCEPT !.lines = [u.lines EXCEPT ![i] = l]]
  <2>1. v = [u EXCEPT !.lines = [u.lines EXCEPT ![i].wantReceive = wanted,
                                   ![i].receiver = IF wanted THEN "idle" ELSE @]]
    BY <1>2, <1>5 DEF Recorded
  <2>2. [u.lines EXCEPT ![i].wantReceive = wanted, ![i].receiver = IF wanted THEN "idle" ELSE @]
          = [u.lines EXCEPT ![i] = l]
    BY <1>4 DEF Reoffered, Line
  <2> QED BY <2>1, <2>2
<1>7. /\ l \in Line /\ LineKept(u.lines[i], l) /\ l.gatherer = u.lines[i].gatherer
      /\ l.transport = u.lines[i].transport /\ l.rejected = u.lines[i].rejected
  BY <1>3, <1>4, ReofferedIs
<1> HIDE DEF l
<1>8. /\ WorkOK(v) /\ OnlyLine(u, v, i) /\ v.lines[i] = l /\ v.gatherers = u.gatherers
      /\ v.transports = u.transports /\ v.timers = u.timers
  BY <1>4, <1>6, <1>7, LineFields
<1>9. Effect(u, v, i)
  BY <1>4, <1>8, EffectOf
<1>10. Effect(w, u, i)
  BY <1>1, EffectOf DEF GathererCreated
<1>11. i \in Nat
  BY WorkHas
<1>12. Effect(w, v, i)
  BY <1>9, <1>10, <1>11, EffectTrans
<1>13. u.lines[i] = Gathered(w.lines[i], u.lines[i])
  BY <1>1 DEF GathererCreated
<1>14. w.lines[i] \in Line
  BY LineHas
<1>15. LineKept(w.lines[i], u.lines[i])
  BY <1>13, <1>14 DEF Gathered, LineKept, Line, Runs
<1>16. LineKept(w.lines[i], v.lines[i])
  <2>1. LineKept(u.lines[i], l)
    BY <1>7
  <2>2. LineKept(w.lines[i], l)
    BY <1>15, <2>1, LineKeptTrans
  <2> QED BY <1>8, <2>2
<1>17. v.lines[i].gatherer = IF w.lines[i].gatherer # 0 THEN w.lines[i].gatherer
                             ELSE IF usingBundle /\ i > 1 THEN w.lines[1].gatherer
                             ELSE Len(w.gatherers) + 1
  <2>1. u.lines[i].gatherer = IF w.lines[i].gatherer # 0 THEN w.lines[i].gatherer
                              ELSE IF usingBundle /\ i > 1 THEN w.lines[1].gatherer
                              ELSE Len(w.gatherers) + 1
    BY <1>1 DEF GathererCreated
  <2> QED BY <1>7, <1>8, <2>1
<1>18. v.transports = w.transports
  BY <1>1, <1>8 DEF GathererCreated
<1> QED BY <1>12, <1>16, <1>17, <1>18 DEF OfferLined
OfferDone(w, v, j) ==
  /\ LineKept(w.lines[j], v.lines[j])
  /\ IF w.lines[j].gatherer # 0 THEN v.lines[j].gatherer = w.lines[j].gatherer
     ELSE IF usingBundle /\ j > 1 THEN v.lines[j].gatherer = v.lines[1].gatherer
     ELSE v.lines[j].gatherer > Len(w.gatherers)
Offered(w, v, k) ==
  /\ WorkOK(v) /\ v.timers = w.timers /\ v.transports = w.transports
  /\ Grown(w.gatherers, v.gatherers) /\ Len(v.lines) = Len(w.lines)
  /\ \A j \in DOMAIN w.lines : IF j > k THEN v.lines[j] = w.lines[j] ELSE OfferDone(w, v, j)

LEMMA OfferStep ==
  ASSUME NEW w, WorkOK(w), NEW k \in Nat, k < Len(w.lines), NEW v, Offered(w, v, k), NEW want,
         NEW u, u = OfferLine(v, k + 1, want)
  PROVE  Offered(w, u, k + 1)
<1> DEFINE i == k + 1
<1>1. i \in Nat /\ i = k + 1 /\ i > k /\ u = OfferLine(v, i, want)
  OBVIOUS
<1> HIDE DEF i
<1>2. WorkOK(v) /\ Grown(w.gatherers, v.gatherers) /\ Len(v.lines) = Len(w.lines)
  BY DEF Offered
<1>3. /\ w.lines \in Seq(Line) /\ v.lines \in Seq(Line)
      /\ w.gatherers \in Seq(Gatherer) /\ v.gatherers \in Seq(Gatherer)
  BY <1>2, WorkHas
<1>4. DOMAIN v.lines = DOMAIN w.lines /\ i \in DOMAIN v.lines /\ i \in DOMAIN w.lines
  BY <1>1, <1>2, <1>3
<1>5. OfferLined(v, u, i)
  BY <1>1, <1>2, <1>4, OfferLineDoes
<1>6. WorkOK(u) /\ OnlyLine(v, u, i) /\ Grown(v.gatherers, u.gatherers)
  BY <1>5 DEF OfferLined, Effect
<1>7. u.gatherers \in Seq(Gatherer) /\ u.lines \in Seq(Line)
  BY <1>6, WorkHas
<1>8. Grown(w.gatherers, u.gatherers)
  BY <1>2, <1>3, <1>6, <1>7 DEF Grown
<1>9. Len(u.lines) = Len(w.lines) /\ \A j \in DOMAIN w.lines : j # i => u.lines[j] = v.lines[j]
  BY <1>2, <1>3, <1>4, <1>6 DEF OnlyLine
<1>10. u.timers = w.timers /\ u.transports = w.transports
  BY <1>5 DEF OfferLined, Effect, Offered
<1>11. ASSUME NEW j \in DOMAIN w.lines
       PROVE  IF j > i THEN u.lines[j] = w.lines[j] ELSE OfferDone(w, u, j)
  <2>0. j \in Nat /\ j # 0
    BY <1>3
  <2>1. CASE j > i
    <3>1. j > k /\ j # i
      BY <1>1, <2>0, <2>1
    <3>2. v.lines[j] = w.lines[j]
      BY <3>1 DEF Offered
    <3> QED BY <1>9, <2>1, <3>1, <3>2
  <2>2. CASE j = i
    <3>1. v.lines[j] = w.lines[j]
      BY <1>1, <2>0, <2>2 DEF Offered
    <3>2. LineKept(w.lines[j], u.lines[j])
      BY <1>5, <2>2, <3>1 DEF OfferLined
    <3>3. /\ j > 1 => u.lines[1] = v.lines[1]
      BY <1>1, <1>3, <1>9, <2>0, <2>2
    <3>4. Len(w.gatherers) <= Len(v.gatherers) /\ Len(w.gatherers) \in Nat /\ Len(v.gatherers) \in Nat
      BY <1>2, <1>3 DEF Grown
    <3>5. u.lines[j].gatherer = IF w.lines[j].gatherer # 0 THEN w.lines[j].gatherer
                                ELSE IF usingBundle /\ j > 1 THEN v.lines[1].gatherer
                                ELSE Len(v.gatherers) + 1
      BY <1>5, <2>2, <3>1 DEF OfferLined
    <3>6. OfferDone(w, u, j)
      BY <3>2, <3>3, <3>4, <3>5 DEF OfferDone
    <3> QED BY <1>1, <2>2, <3>6
  <2>3. CASE j < i
    <3>1. ~(j > k) /\ j # i /\ ~(j > i) /\ i # 1 /\ 1 \in DOMAIN w.lines
      BY <1>1, <1>3, <2>0, <2>3
    <3>2. OfferDone(w, v, j)
      BY <3>1 DEF Offered
    <3>3. u.lines[j] = v.lines[j] /\ u.lines[1] = v.lines[1]
      BY <1>9, <3>1
    <3>4. OfferDone(w, u, j)
      BY <3>2, <3>3 DEF OfferDone
    <3> QED BY <3>1, <3>4
  <2> QED BY <1>1, <2>0, <2>1, <2>2, <2>3
<1>12. Offered(w, u, i)
  BY <1>6, <1>8, <1>9, <1>10, <1>11 DEF Offered
<1> QED BY <1>1, <1>12

LEMMA OfferLinesDo ==
  ASSUME NEW w, WorkOK(w), NEW want
  PROVE  Offered(w, OfferLines(w, want), Len(w.lines))
<1>1. Len(w.lines) \in Nat /\ w.lines \in Seq(Line) /\ w.gatherers \in Seq(Gatherer)
  BY WorkHas
<1>2. PICK f : /\ f[0] = w /\ f[Len(w.lines)] = OfferLines(w, want)
               /\ \A i \in 1 .. Len(w.lines) : f[i] = OfferLine(f[i - 1], i, want)
  BY <1>1, OfferLinesAre
<1> DEFINE S == {k \in Nat : Offered(w, f[k], k)}
<1>3. 0 \in S
  <2>1. Grown(w.gatherers, w.gatherers)
    BY <1>1 DEF Grown
  <2>2. \A j \in DOMAIN w.lines : j > 0
    BY <1>1
  <2>3. Offered(w, w, 0)
    BY <2>1, <2>2 DEF Offered
  <2> QED BY <1>2, <2>3
<1>4. ASSUME NEW k \in 0 .. Len(w.lines), k # Len(w.lines), k \in S
      PROVE  k + 1 \in S
  <2>1. k + 1 \in 1 .. Len(w.lines) /\ k < Len(w.lines) /\ k + 1 - 1 = k /\ k \in Nat
    BY <1>1, <1>4
  <2>2. f[k + 1] = OfferLine(f[k], k + 1, want)
    BY <1>2, <2>1
  <2>3. Offered(w, f[k], k)
    BY <1>4
  <2>4. Offered(w, f[k + 1], k + 1)
    BY <2>1, <2>2, <2>3, OfferStep
  <2> QED BY <2>1, <2>4
<1> HIDE DEF S
<1>5. Len(w.lines) \in S
  <2>1. \A k \in 0 .. Len(w.lines) : k \in S
    BY <1>1, <1>3, <1>4, UpTo
  <2> QED BY <1>1, <2>1
<1> QED BY <1>2, <1>5 DEF S

-----------------------------------------------------------------------------
(* setLocalDescription: the m-lines keep their objects. With an offer they   *)
(* all gather.                                                               *)
SameObjects(l, m) == /\ m.rejected = l.rejected /\ m.kind = l.kind
                     /\ m.gatherer = l.gatherer /\ m.transport = l.transport

LEMMA GatheredSame ==
  ASSUME NEW l \in Line, NEW m, m = Gathered(l, m), m.gatherer = l.gatherer
  PROVE  SameObjects(l, m) /\ (Runs(m) <=> Runs(l))
<1>1. /\ m.rejected = l.rejected /\ m.kind = l.kind /\ m.transport = l.transport
      /\ m.sender = l.sender /\ m.receiver = l.receiver
  BY DEF Gathered, Line
<1> QED BY <1>1 DEF SameObjects, Runs

GatherPassed(w) ==
  /\ WorkOK(w) /\ Len(w.lines) = Len(lines) /\ w.transports = transports
  /\ \A j \in DOMAIN lines : /\ SameObjects(lines[j], w.lines[j])
                             /\ Runs(w.lines[j]) <=> Runs(lines[j])

LEMMA GatherStep ==
  ASSUME WorkOK(Work), NEW i \in DOMAIN lines, lines[i].gatherer # 0,
         NEW w, GatherPassed(w), NEW v, v = Gather(w, i)
  PROVE  GatherPassed(v)
<1>1. WorkOK(w) /\ Len(w.lines) = Len(lines) /\ w.transports = transports
  BY DEF GatherPassed
<1>2. lines \in Seq(Line) /\ w.lines \in Seq(Line)
  BY <1>1, WorkHas, WorkIs
<1>3. i \in DOMAIN w.lines /\ DOMAIN w.lines = DOMAIN lines
  BY <1>1, <1>2
<1>4. SameObjects(lines[i], w.lines[i]) /\ w.lines[i] \in Line
  BY <1>2, <1>3 DEF GatherPassed
<1>5. Gathers(w, v, i)
  BY <1>1, <1>3, <1>4, GatherDoes DEF SameObjects
<1>6. /\ WorkOK(v) /\ OnlyLine(w, v, i) /\ v.transports = transports
      /\ v.lines[i] = Gathered(w.lines[i], v.lines[i])
      /\ v.lines[i].gatherer = w.lines[i].gatherer
  BY <1>1, <1>5 DEF Gathers
<1>7. SameObjects(w.lines[i], v.lines[i]) /\ (Runs(v.lines[i]) <=> Runs(w.lines[i]))
  BY <1>4, <1>6, GatheredSame
<1>8. v.lines \in Seq(Line)
  BY <1>6, WorkHas
<1>9. Len(v.lines) = Len(lines) /\ \A j \in DOMAIN lines : j # i => v.lines[j] = w.lines[j]
  BY <1>1, <1>2, <1>3, <1>6, <1>8 DEF OnlyLine
<1>10. ASSUME NEW j \in DOMAIN lines
       PROVE  SameObjects(lines[j], v.lines[j]) /\ (Runs(v.lines[j]) <=> Runs(lines[j]))
  <2>1. SameObjects(lines[j], w.lines[j]) /\ (Runs(w.lines[j]) <=> Runs(lines[j]))
    BY DEF GatherPassed
  <2>2. CASE j = i
    BY <1>7, <2>1, <2>2 DEF SameObjects
  <2>3. CASE j # i
    BY <1>9, <2>1, <2>3
  <2> QED BY <2>2, <2>3
<1> QED BY <1>6, <1>9, <1>10 DEF GatherPassed

LEMMA GatherLinesDo ==
  ASSUME WorkOK(Work), NEW n \in Nat, n <= Len(lines), \A i \in 1 .. n : lines[i].gatherer # 0
  PROVE  GatherPassed(GatherLines(n))
<1>1. lines \in Seq(Line)
  BY WorkHas, WorkIs
<1>2. PICK f : /\ f[0] = Work /\ f[n] = GatherLines(n)
               /\ \A i \in 1 .. n : f[i] = Gather(f[i - 1], i)
  BY GatherLinesAre
<1> DEFINE S == {k \in Nat : GatherPassed(f[k])}
<1>3. 0 \in S
  <2>1. GatherPassed(Work)
    BY WorkIs DEF GatherPassed, SameObjects
  <2> QED BY <1>2, <2>1
<1>4. ASSUME NEW k \in 0 .. n, k # n, k \in S
      PROVE  k + 1 \in S
  <2>1. k + 1 \in 1 .. n /\ k + 1 \in DOMAIN lines /\ k + 1 - 1 = k /\ k \in Nat
    BY <1>1, <1>4
  <2>2. f[k + 1] = Gather(f[k], k + 1) /\ lines[k + 1].gatherer # 0
    BY <1>2, <2>1
  <2>3. GatherPassed(f[k])
    BY <1>4
  <2>4. GatherPassed(f[k + 1])
    BY <2>1, <2>2, <2>3, GatherStep
  <2> QED BY <2>1, <2>4
<1> HIDE DEF S
<1>5. n \in S
  <2>1. \A k \in 0 .. n : k \in S
    BY <1>3, <1>4, UpTo
  <2> QED BY <2>1
<1> QED BY <1>2, <1>5 DEF S

(* With an answer those it covers gather, start and send.                    *)
Answers(i) == answered[i] /\ ~lines[i].rejected
AnswerDone(w, j) == Answers(j) /\ ~(usingBundle /\ j > 1) =>
                      w.transports[w.lines[j].transport].ice # "new"
AnswerPassed(w, k) ==
  /\ WorkOK(w) /\ IceKept(transports, w.transports) /\ Len(w.lines) = Len(lines)
  /\ \A j \in DOMAIN lines :
       /\ SameObjects(lines[j], w.lines[j])
       /\ Runs(w.lines[j]) => Runs(lines[j]) \/ (j \in 1 .. k /\ Answers(j))
  /\ \A j \in 1 .. k : AnswerDone(w, j)

LEMMA SwitchedSame ==
  ASSUME NEW l \in Line, NEW a, NEW b
  PROVE  SameObjects(l, Switched(l, a, b))
  BY DEF Switched, SameObjects, Line

(* The objects of an m-line get their handler and are started.               *)
Begun(w, v, i) ==
  /\ WorkOK(v) /\ IceKept(w.transports, v.transports) /\ OnlyLine(w, v, i)
  /\ SameObjects(w.lines[i], v.lines[i])
  /\ ~(usingBundle /\ i > 1) => v.transports[w.lines[i].transport].ice # "new"
LEMMA BeginDoes ==
  ASSUME NEW w, WorkOK(w), NEW i \in DOMAIN w.lines, ~w.lines[i].rejected,
         ~(usingBundle /\ i > 1) => w.lines[i].gatherer # 0,
         NEW v, v = IF usingBundle /\ i > 1 THEN w ELSE Start(Gather(w, i), i)
  PROVE  Begun(w, v, i)
<1>1. w.transports \in Seq(Transport) /\ w.lines \in Seq(Line) /\ w.lines[i] \in Line
  BY WorkHas, LineHas
<1>2. CASE usingBundle /\ i > 1
  <2>1. v = w
    BY <1>2
  <2>2. IceKept(w.transports, w.transports) /\ OnlyLine(w, w, i)
    BY <1>1 DEF IceKept, OnlyLine
  <2> QED BY <1>2, <2>1, <2>2 DEF Begun, SameObjects
<1>3. CASE ~(usingBundle /\ i > 1)
  <2> DEFINE u == Gather(w, i)
  <2>1. u = Gather(w, i) /\ v = Start(u, i)
    BY <1>3
  <2> HIDE DEF u
  <2>2. Gathers(w, u, i)
    BY <1>3, <2>1, GatherDoes
  <2>3. /\ WorkOK(u) /\ OnlyLine(w, u, i) /\ u.transports = w.transports
        /\ u.lines[i] = Gathered(w.lines[i], u.lines[i])
        /\ u.lines[i].gatherer = w.lines[i].gatherer
    BY <2>2 DEF Gathers
  <2>4. SameObjects(w.lines[i], u.lines[i])
    BY <1>1, <2>3, GatheredSame
  <2>5. i \in DOMAIN u.lines /\ ~u.lines[i].rejected
    <3>1. u.lines \in Seq(Line)
      BY <2>3, WorkHas
    <3> QED BY <1>1, <2>3, <2>4, <3>1 DEF OnlyLine, SameObjects
  <2>6. /\ WorkOK(v) /\ IceKept(u.transports, v.transports) /\ v.lines = u.lines
        /\ v.transports[u.lines[i].transport].ice # "new"
    BY <2>1, <2>3, <2>5, StartDoes
  <2>7. OnlyLine(w, v, i)
    BY <2>3, <2>6 DEF OnlyLine
  <2> QED BY <2>3, <2>4, <2>6, <2>7 DEF Begun, SameObjects
<1> QED BY <1>2, <1>3

LEMMA AnswerStep ==
  ASSUME WorkOK(Work), NEW k \in Nat, k < Len(lines), NEW w, AnswerPassed(w, k),
         Answers(k + 1) /\ ~(usingBundle /\ k + 1 > 1) => lines[k + 1].gatherer # 0,
         NEW v, v = AnswerLine(w, k + 1)
  PROVE  AnswerPassed(v, k + 1)
<1> DEFINE i == k + 1
<1>0. i \in Nat /\ i = k + 1 /\ i > k /\ i # 0 /\ v = AnswerLine(w, i)
  OBVIOUS
<1>1. WorkOK(w) /\ IceKept(transports, w.transports) /\ Len(w.lines) = Len(lines)
  BY DEF AnswerPassed
<1>2. WorkOK(w)
  BY <1>1
<1>3. /\ lines \in Seq(Line) /\ transports \in Seq(Transport)
      /\ w.lines \in Seq(Line) /\ w.transports \in Seq(Transport)
  BY <1>2, WorkHas, WorkIs
<1>4. i \in DOMAIN lines /\ i \in DOMAIN w.lines /\ DOMAIN w.lines = DOMAIN lines
  BY <1>1, <1>3
<1> HIDE DEF i
<1>5. SameObjects(lines[i], w.lines[i])
  BY <1>4 DEF AnswerPassed
<1>6. Answers(i) <=> ~(~answered[i] \/ w.lines[i].rejected)
  BY <1>5 DEF Answers, SameObjects
<1>7. CASE ~Answers(i)
  <2>1. v = w
    BY <1>0, <1>6, <1>7 DEF AnswerLine
  <2>3. ASSUME NEW j \in DOMAIN lines
        PROVE  /\ SameObjects(lines[j], w.lines[j])
               /\ Runs(w.lines[j]) => Runs(lines[j]) \/ (j \in 1 .. i /\ Answers(j))
    BY <1>0 DEF AnswerPassed
  <2>4. ASSUME NEW j \in 1 .. i PROVE AnswerDone(w, j)
    <3>1. CASE j \in 1 .. k
      BY <3>1 DEF AnswerPassed
    <3>2. CASE j = i
      BY <1>7, <3>2 DEF AnswerDone
    <3> QED BY <1>0, <3>1, <3>2
  <2>5. AnswerPassed(w, i)
    BY <1>1, <2>3, <2>4 DEF AnswerPassed
  <2> QED BY <1>0, <2>1, <2>5
<1>8. CASE Answers(i)
  <2> DEFINE u == IF usingBundle /\ i > 1 THEN w ELSE Start(Gather(w, i), i)
  <2>1. v = Transceive(u, i, TRUE, FALSE)
    BY <1>0, <1>6, <1>8 DEF AnswerLine
  <2>2. u = IF usingBundle /\ i > 1 THEN w ELSE Start(Gather(w, i), i)
    OBVIOUS
  <2> HIDE DEF u
  <2>3. /\ ~w.lines[i].rejected
        /\ ~(usingBundle /\ i > 1) => w.lines[i].gatherer # 0
    BY <1>0, <1>5, <1>8 DEF SameObjects, Answers
  <2>4. Begun(w, u, i)
    BY <1>1, <1>4, <2>2, <2>3, BeginDoes
  <2>5. /\ WorkOK(u) /\ IceKept(w.transports, u.transports) /\ OnlyLine(w, u, i)
        /\ SameObjects(w.lines[i], u.lines[i])
        /\ ~(usingBundle /\ i > 1) => u.transports[w.lines[i].transport].ice # "new"
    BY <2>4 DEF Begun
  <2>6. WorkOK(u) /\ i \in DOMAIN u.lines /\ u.lines \in Seq(Line)
    <3>1. u.lines \in Seq(Line)
      BY <2>5, WorkHas
    <3> QED BY <1>3, <1>4, <2>5, <3>1 DEF OnlyLine
  <2>7. Transceived(u, v, i)
    BY <2>1, <2>6, TransceiveDoes
  <2>8. /\ WorkOK(v) /\ OnlyLine(u, v, i) /\ v.gatherers = u.gatherers
        /\ v.transports = u.transports /\ v.timers = u.timers
        /\ v.lines[i] = Switched(u.lines[i], v.lines[i].sender, v.lines[i].receiver)
    BY <2>7 DEF Transceived
  <2>10. u.transports \in Seq(Transport) /\ v.lines \in Seq(Line)
    BY <2>6, <2>8, WorkHas
  <2>11. IceKept(transports, v.transports)
    BY <1>1, <1>3, <2>5, <2>8, <2>10, IceKeptTrans
  <2>12. /\ Len(v.lines) = Len(lines)
         /\ \A j \in DOMAIN lines : j # i => v.lines[j] = w.lines[j]
    BY <1>1, <1>3, <1>4, <2>5, <2>6, <2>8, <2>10 DEF OnlyLine
  <2>13. SameObjects(w.lines[i], v.lines[i])
    <3>1. u.lines[i] \in Line
      BY <2>6, LineHas
    <3>2. SameObjects(u.lines[i], v.lines[i])
      BY <2>8, <3>1, SwitchedSame
    <3> QED BY <2>5, <3>2 DEF SameObjects
  <2>14. ASSUME NEW j \in DOMAIN lines
         PROVE  /\ SameObjects(lines[j], v.lines[j])
                /\ Runs(v.lines[j]) => Runs(lines[j]) \/ (j \in 1 .. i /\ Answers(j))
    <3>1. CASE j = i
      <4>1. SameObjects(lines[i], v.lines[i])
        BY <1>5, <2>13 DEF SameObjects
      <4> QED BY <1>0, <1>8, <3>1, <4>1
    <3>2. CASE j # i
      BY <1>0, <2>12, <3>2 DEF AnswerPassed
    <3> QED BY <3>1, <3>2
  <2>15. ASSUME NEW j \in 1 .. i PROVE AnswerDone(v, j)
    <3>0. j \in DOMAIN lines
      BY <1>3, <1>4
    <3>1. CASE j = i
      <4>1. v.lines[i].transport = w.lines[i].transport
        BY <2>13 DEF SameObjects
      <4> QED BY <2>5, <2>8, <3>1, <4>1 DEF AnswerDone
    <3>2. CASE j # i
      <4>1. AnswerDone(w, j) /\ v.lines[j] = w.lines[j]
        BY <1>0, <2>12, <3>0, <3>2 DEF AnswerPassed
      <4>2. SUFFICES ASSUME Answers(j), ~(usingBundle /\ j > 1)
                     PROVE  v.transports[v.lines[j].transport].ice # "new"
        BY DEF AnswerDone
      <4>3. w.transports[w.lines[j].transport].ice # "new"
        BY <4>1, <4>2 DEF AnswerDone
      <4>4. w.lines[j].transport \in DOMAIN w.transports
        <5>1. SameObjects(lines[j], w.lines[j])
          BY <3>0 DEF AnswerPassed
        <5>2. ~w.lines[j].rejected
          BY <4>2, <5>1 DEF SameObjects, Answers
        <5>3. j \in DOMAIN w.lines
          BY <1>4, <3>0
        <5>4. /\ w.lines[j].transport \in 0 .. Len(w.transports)
              /\ w.lines[j].rejected <=> w.lines[j].transport = 0
          BY <1>2, <5>3, LineHas
        <5> QED BY <1>3, <5>2, <5>4
      <4> QED BY <2>5, <2>8, <4>1, <4>3, <4>4 DEF IceKept
    <3> QED BY <3>1, <3>2
  <2>16. AnswerPassed(v, i)
    BY <2>8, <2>11, <2>12, <2>14, <2>15 DEF AnswerPassed
  <2> QED BY <1>0, <2>16
<1> QED BY <1>7, <1>8

LEMMA AnswerLinesDo ==
  ASSUME WorkOK(Work), Len(answered) \in Nat,
         Len(answered) <= Len(lines),
         \A i \in 1 .. Len(answered) :
           Answers(i) /\ ~(usingBundle /\ i > 1) => lines[i].gatherer # 0
  PROVE  AnswerPassed(AnswerLines, Len(answered))
<1>1. lines \in Seq(Line) /\ transports \in Seq(Transport)
  BY WorkHas, WorkIs
<1>2. PICK f : /\ f[0] = Work /\ f[Len(answered)] = AnswerLines
               /\ \A i \in 1 .. Len(answered) : f[i] = AnswerLine(f[i - 1], i)
  BY AnswerLinesAre
<1> DEFINE S == {k \in Nat : AnswerPassed(f[k], k)}
<1>3. 0 \in S
  <2>1. IceKept(transports, transports)
    BY <1>1 DEF IceKept
  <2>2. \A j \in DOMAIN lines : SameObjects(lines[j], lines[j])
    BY DEF SameObjects
  <2>3. AnswerPassed(Work, 0)
    BY <2>1, <2>2, WorkIs DEF AnswerPassed
  <2> QED BY <1>2, <2>3
<1>4. ASSUME NEW k \in 0 .. Len(answered), k # Len(answered), k \in S
      PROVE  k + 1 \in S
  <2>1. k + 1 \in 1 .. Len(answered) /\ k < Len(lines) /\ k + 1 - 1 = k /\ k \in Nat
    BY <1>1, <1>4
  <2>2. /\ f[k + 1] = AnswerLine(f[k], k + 1)
        /\ Answers(k + 1) /\ ~(usingBundle /\ k + 1 > 1) => lines[k + 1].gatherer # 0
    BY <1>2, <2>1
  <2>3. AnswerPassed(f[k], k)
    BY <1>4
  <2>4. AnswerPassed(f[k + 1], k + 1)
    BY <2>1, <2>2, <2>3, AnswerStep
  <2> QED BY <2>1, <2>4
<1> HIDE DEF S
<1>5. Len(answered) \in S
  <2>1. \A k \in 0 .. Len(answered) : k \in S
    BY <1>3, <1>4, UpTo
  <2> QED BY <2>1
<1> QED BY <1>2, <1>5 DEF S

-----------------------------------------------------------------------------
(* Candidates that reach the handler                                         *)
Emissions == [gatherers : Seq(Gatherer), emitted : SUBSET (Nat \X Nat), twice : SUBSET (Nat \X Nat),
              unseen : BOOLEAN, gathering : {"new", "gathering", "complete"}]
StateSet(x, st) == [x EXCEPT !.state = st]

LEMMA StateSetIs ==
  ASSUME NEW gs \in Seq(Gatherer), NEW g, NEW st,
         g \in DOMAIN gs => st \in {"new", "gathering", "completed"}
  PROVE  /\ [gs EXCEPT ![g].state = st] \in Seq(Gatherer)
         /\ Len([gs EXCEPT ![g].state = st]) = Len(gs)
<1> DEFINE hs == [gs EXCEPT ![g].state = st]
<1>1. DOMAIN hs = DOMAIN gs /\ DOMAIN gs = 1 .. Len(gs) /\ Len(gs) \in Nat
  OBVIOUS
<1>2. ASSUME NEW x \in DOMAIN gs PROVE hs[x] \in Gatherer
  <2>1. gs[x] \in Gatherer
    OBVIOUS
  <2>2. x = g => StateSet(gs[x], st) \in Gatherer
    BY <2>1 DEF StateSet, Gatherer
  <2>3. hs[x] = IF x = g THEN StateSet(gs[x], st) ELSE gs[x]
    BY DEF StateSet
  <2> QED BY <2>1, <2>2, <2>3
<1>3. hs \in [DOMAIN gs -> Gatherer]
  <2>1. hs = [x \in DOMAIN gs |-> hs[x]]
    OBVIOUS
  <2> HIDE DEF hs
  <2> QED BY <1>2, <2>1
<1> HIDE DEF hs
<1>4. hs \in Seq(Gatherer) /\ Len(hs) = Len(gs)
  BY <1>1, <1>3
<1> QED BY <1>4 DEF hs

LEMMA EventIs ==
  ASSUME NEW e \in Event
  PROVE  e \in Nat \X Nat /\ e[2] \in Nat
  BY BoundsAssumption DEF Event

Emitted(s, v) == v \in Emissions /\ Len(v.gatherers) = Len(s.gatherers)

LEMMA OnLocalDoes ==
  ASSUME NEW s \in Emissions, NEW g, NEW e \in Event,
         NEW v, v = onlocalcandidate(s, g, e)
  PROVE  Emitted(s, v)
<1> DEFINE ends == e[2] = 0
           st == IF ends THEN "completed"
                 ELSE IF s.gatherers[g].state = "new" THEN "gathering" ELSE s.gatherers[g].state
           hs == [s.gatherers EXCEPT ![g].state = st]
           news == (IF ends THEN {} ELSE {e}) \cup (IF Complete(hs) THEN {End} ELSE {})
           was == s.unseen \/ ends
           again == s.twice \cup ((Dispatched(news) \cap s.emitted) \ {End})
           now == IF Complete(hs) THEN "complete" ELSE "gathering"
<1>1. /\ s.gatherers \in Seq(Gatherer) /\ s.emitted \in SUBSET (Nat \X Nat)
      /\ s.twice \in SUBSET (Nat \X Nat) /\ s.unseen \in BOOLEAN
      /\ s.gathering \in {"new", "gathering", "complete"}
      /\ s = [gatherers |-> s.gatherers, emitted |-> s.emitted, twice |-> s.twice,
              unseen |-> s.unseen, gathering |-> s.gathering]
  BY DEF Emissions
<1>2. g \in DOMAIN s.gatherers => st \in {"new", "gathering", "completed"}
  <2>1. g \in DOMAIN s.gatherers => s.gatherers[g] \in Gatherer
    BY <1>1
  <2> QED BY <2>1 DEF Gatherer
<1>3. \/ v = [s EXCEPT !.unseen = was]
      \/ v = [s EXCEPT !.gatherers = hs]
      \/ v = [s EXCEPT !.gatherers = hs, !.emitted = s.emitted \cup Dispatched(news),
                       !.twice = again, !.gathering = now]
  BY DEF onlocalcandidate
<1>4. Dispatched(news) \in SUBSET (Nat \X Nat)
  BY EventIs DEF Dispatched, End
<1>5. was \in BOOLEAN /\ now \in {"new", "gathering", "complete"}
  BY <1>1
<1>6. again \in SUBSET (Nat \X Nat) /\ s.emitted \cup Dispatched(news) \in SUBSET (Nat \X Nat)
  BY <1>1, <1>4
<1> HIDE DEF st, news
<1>7. hs \in Seq(Gatherer) /\ Len(hs) = Len(s.gatherers)
  <2>1. \A x : (g \in DOMAIN s.gatherers => x \in {"new", "gathering", "completed"}) =>
          /\ [s.gatherers EXCEPT ![g].state = x] \in Seq(Gatherer)
          /\ Len([s.gatherers EXCEPT ![g].state = x]) = Len(s.gatherers)
    BY <1>1, StateSetIs
  <2> QED BY <1>2, <2>1
<1> HIDE DEF was, again, now, hs
<1>8. CASE v = [s EXCEPT !.unseen = was]
  BY <1>1, <1>5, <1>8 DEF Emitted, Emissions
<1>9. CASE v = [s EXCEPT !.gatherers = hs]
  BY <1>1, <1>7, <1>9 DEF Emitted, Emissions
<1>10. CASE v = [s EXCEPT !.gatherers = hs, !.emitted = s.emitted \cup Dispatched(news),
                          !.twice = again, !.gathering = now]
  <2> DEFINE em == s.emitted \cup Dispatched(news)
  <2>1. em \in SUBSET (Nat \X Nat) /\ v = [s EXCEPT !.gatherers = hs, !.emitted = em,
                                                    !.twice = again, !.gathering = now]
    BY <1>6, <1>10
  <2> HIDE DEF em
  <2> QED BY <1>1, <1>5, <1>6, <1>7, <2>1 DEF Emitted, Emissions
<1> QED BY <1>3, <1>8, <1>9, <1>10

LEMMA ReplayDoes ==
  ASSUME NEW g, Emission \in Emissions, NEW evs \in Seq(Event)
  PROVE  Emitted(Emission, Replay(g, evs))
<1>1. Len(evs) \in Nat /\ DOMAIN evs = 1 .. Len(evs)
  OBVIOUS
<1>2. gatherers \in Seq(Gatherer) /\ Emission.gatherers = gatherers
  BY DEF Emission, Emissions
<1>3. PICK f : /\ f[0] = Emission /\ f[Len(evs)] = Replay(g, evs)
               /\ \A i \in 1 .. Len(evs) : f[i] = onlocalcandidate(f[i - 1], g, evs[i])
  BY <1>1, ReplayIs
<1> DEFINE S == {k \in Nat : Emitted(Emission, f[k])}
<1>4. 0 \in S
  BY <1>3 DEF Emitted
<1>5. ASSUME NEW k \in 0 .. Len(evs), k # Len(evs), k \in S
      PROVE  k + 1 \in S
  <2>0. k \in 0 .. Len(evs) /\ k # Len(evs) /\ Len(evs) \in Nat
    BY <1>1, <1>5
  <2>1. k + 1 \in 1 .. Len(evs) /\ k + 1 - 1 = k /\ k \in Nat
    <3> HIDE DEF S
    <3> QED BY <2>0
  <2>2. f[k + 1] = onlocalcandidate(f[k], g, evs[k + 1])
    BY <1>3, <2>1
  <2>3. f[k] \in Emissions /\ Len(f[k].gatherers) = Len(gatherers) /\ f[k].gatherers \in Seq(Gatherer)
    BY <1>2, <1>5 DEF Emitted, Emissions
  <2>5. evs[k + 1] \in Event
    BY <1>1, <2>1
  <2>6. Emitted(f[k], f[k + 1])
    BY <2>2, <2>3, <2>5, OnLocalDoes
  <2>7. Emitted(Emission, f[k + 1])
    BY <1>2, <2>3, <2>6 DEF Emitted
  <2> QED BY <2>1, <2>7
<1> HIDE DEF S
<1>6. Len(evs) \in S
  <2>1. \A k \in 0 .. Len(evs) : k \in S
    BY <1>1, <1>4, <1>5, UpTo
  <2> QED BY <1>1, <2>1
<1> QED BY <1>3, <1>6 DEF S

-----------------------------------------------------------------------------
(* The inductive invariant                                                   *)
Scalars ==
  /\ signalingState \in {"stable", "have-local-offer", "have-remote-offer", "closed"}
  /\ remoteType \in {"none", "offer", "answer"}
  /\ answered \in Seq(BOOLEAN)
  /\ made \cup {local} \subseteq [type : {"none", "offer", "answer"}, n : 0 .. MaxLines]
  /\ {closed, usingBundle, needNegotiation, late, damaged} \subseteq BOOLEAN

(* The m-lines and the remote description: only m-lines it accepted run, the *)
(* ones it rejected are the rejected ones, not the first when bundling; what *)
(* is to be answered can gather.                                             *)
Described ==
  /\ Len(answered) <= Len(lines)
  /\ usingBundle /\ answered # <<>> => answered[1]
  /\ \A i \in DOMAIN lines : lines[i].rejected => i \in DOMAIN answered /\ ~answered[i]
  /\ \A i \in DOMAIN lines : Runs(lines[i]) => i \in DOMAIN answered /\ answered[i]
  /\ \A d \in made \cup {local} : d.n <= Len(lines)
  /\ signalingState = "have-remote-offer" =>
       /\ answered # <<>>
       /\ \A i \in DOMAIN answered :
            answered[i] /\ ~(usingBundle /\ i > 1) => lines[i].gatherer # 0
Media == Described /\ BundleShares /\ MediaOnStarted

EdgeInv == Scalars /\ WorkOK(Work) /\ Media /\ Emission \in Emissions

-----------------------------------------------------------------------------
(* Steps that add objects, or change neither descriptions nor handlers       *)
Carried(ls, ms) ==
  /\ Len(ls) <= Len(ms)
  /\ \A j \in DOMAIN ls : /\ ms[j].rejected = ls[j].rejected /\ ms[j].transport = ls[j].transport
                          /\ Runs(ms[j]) => Runs(ls[j])
  /\ \A j \in DOMAIN ms : j \notin DOMAIN ls => ~ms[j].rejected /\ ~Runs(ms[j])
GathersCarried(ls, ms) == \A j \in DOMAIN ms :
  \/ j \in DOMAIN ls /\ ms[j].gatherer = ls[j].gatherer
  \/ /\ j \in DOMAIN ls => ls[j].gatherer = 0
     /\ \/ ms[j].gatherer = 0
        \/ usingBundle /\ j > 1 /\ ms[j].gatherer = ms[1].gatherer
        \/ ~(usingBundle /\ j > 1) /\ ms[j].gatherer > Len(gatherers)
Mild ==
  /\ WorkOK(Work') /\ Carried(lines, lines') /\ GathersCarried(lines, lines')
  /\ IceKept(transports, transports')
  /\ UNCHANGED <<usingBundle, local, answered>>
  /\ signalingState' \in {signalingState, "closed"}
  /\ \A d \in made' : d.n <= Len(lines')

(* What the parts of the invariant say of the m-lines.                       *)
LEMMA WorkNow ==
  ASSUME WorkOK(Work)
  PROVE  /\ lines \in Seq(Line) /\ gatherers \in Seq(Gatherer) /\ transports \in Seq(Transport)
         /\ timers \in Seq(Timers) /\ Len(lines) <= MaxLines
         /\ \A j \in DOMAIN lines :
              /\ lines[j] \in Line
              /\ lines[j].gatherer \in 0 .. Len(gatherers)
              /\ lines[j].transport \in 0 .. Len(transports)
              /\ lines[j].rejected <=> lines[j].transport = 0
  BY WorkHas, WorkIs

LEMMA WorkNext ==
  ASSUME WorkOK(Work')
  PROVE  /\ lines' \in Seq(Line) /\ gatherers' \in Seq(Gatherer) /\ transports' \in Seq(Transport)
         /\ timers' \in Seq(Timers) /\ Len(lines') <= MaxLines
         /\ \A j \in DOMAIN lines' :
              /\ lines'[j] \in Line
              /\ lines'[j].gatherer \in 0 .. Len(gatherers')
              /\ lines'[j].transport \in 0 .. Len(transports')
              /\ lines'[j].rejected <=> lines'[j].transport = 0
<1>1. /\ Work'.lines = lines' /\ Work'.gatherers = gatherers'
      /\ Work'.transports = transports' /\ Work'.timers = timers'
  BY DEF Work
<1> QED BY <1>1, WorkHas

LEMMA MildMedia ==
  ASSUME Scalars, WorkOK(Work), Media, Mild
  PROVE  Media'
<1>0. /\ lines \in Seq(Line) /\ transports \in Seq(Transport)
      /\ lines' \in Seq(Line) /\ transports' \in Seq(Transport)
      /\ answered \in Seq(BOOLEAN) /\ answered' = answered /\ usingBundle' = usingBundle
      /\ local' = local /\ local.n \in Nat /\ usingBundle \in BOOLEAN
  BY WorkNow, WorkNext DEF Mild, Scalars
<1>1. /\ Len(lines) <= Len(lines')
      /\ \A j \in DOMAIN lines : /\ lines'[j].rejected = lines[j].rejected
                                 /\ lines'[j].transport = lines[j].transport
                                 /\ Runs(lines'[j]) => Runs(lines[j])
      /\ \A j \in DOMAIN lines' : j \notin DOMAIN lines => ~lines'[j].rejected /\ ~Runs(lines'[j])
  BY DEF Mild, Carried
<1>2. /\ Len(answered) <= Len(lines) /\ (usingBundle /\ answered # <<>> => answered[1])
      /\ \A i \in DOMAIN lines : lines[i].rejected => i \in DOMAIN answered /\ ~answered[i]
      /\ \A i \in DOMAIN lines : Runs(lines[i]) => i \in DOMAIN answered /\ answered[i]
  BY DEF Media, Described
<1>3. \A j \in DOMAIN answered : j \in DOMAIN lines /\ j \in DOMAIN lines' /\ 1 \in DOMAIN lines
                                 /\ 1 \in DOMAIN lines' /\ answered # <<>> /\ j \in Nat /\ j # 0
  BY <1>0, <1>1, <1>2
<1>4. Described'
  <2>1. Len(answered) <= Len(lines')
    BY <1>0, <1>1, <1>2
  <2>2. \A i \in DOMAIN lines' : lines'[i].rejected => i \in DOMAIN answered /\ ~answered[i]
    BY <1>1, <1>2
  <2>3. \A i \in DOMAIN lines' : Runs(lines'[i]) => i \in DOMAIN answered /\ answered[i]
    BY <1>1, <1>2
  <2>4. signalingState' = "have-remote-offer" => signalingState = "have-remote-offer"
    BY DEF Mild
  <2>5. \A d \in made' \cup {local} : d.n <= Len(lines')
    <3>1. local.n <= Len(lines)
      BY DEF Media, Described
    <3>2. local.n <= Len(lines')
      BY <1>0, <1>1, <3>1
    <3>3. \A d \in made' : d.n <= Len(lines')
      BY DEF Mild
    <3> QED BY <3>2, <3>3
  <2>6. ASSUME signalingState = "have-remote-offer"
        PROVE  /\ answered # <<>>
               /\ \A i \in DOMAIN answered :
                    answered[i] /\ ~(usingBundle /\ i > 1) => lines'[i].gatherer # 0
    <3>1. /\ answered # <<>>
          /\ \A i \in DOMAIN answered :
               answered[i] /\ ~(usingBundle /\ i > 1) => lines[i].gatherer # 0
      BY <2>6 DEF Media, Described
    <3>2. ASSUME NEW i \in DOMAIN answered, lines[i].gatherer # 0
          PROVE  lines'[i].gatherer # 0
      <4>1. i \in DOMAIN lines /\ i \in DOMAIN lines'
        BY <1>3
      <4> QED BY <3>2, <4>1 DEF Mild, GathersCarried
    <3> QED BY <3>1, <3>2
  <2> QED BY <1>0, <1>2, <2>1, <2>2, <2>3, <2>4, <2>5, <2>6 DEF Described
<1>5. BundleShares'
  <2> SUFFICES ASSUME usingBundle, NEW i \in DOMAIN answered, ~lines'[i].rejected
               PROVE  /\ lines'[i].transport = lines'[1].transport
                      /\ lines'[i].gatherer \in {0, lines'[1].gatherer}
    BY <1>0 DEF BundleShares
  <2>1. i \in DOMAIN lines /\ i \in DOMAIN lines' /\ 1 \in DOMAIN lines /\ 1 \in DOMAIN lines'
    BY <1>3
  <2>2. /\ lines[i].transport = lines[1].transport
        /\ lines[i].gatherer \in {0, lines[1].gatherer}
    BY <1>1, <2>1 DEF Media, BundleShares
  <2>3. lines'[i].transport = lines'[1].transport
    BY <1>1, <2>1, <2>2
  <2>4. lines'[i].gatherer \in {0, lines'[1].gatherer}
    <3>1. /\ lines'[i].gatherer = lines[i].gatherer \/
             (lines[i].gatherer = 0 /\ (\/ lines'[i].gatherer \in {0, lines'[1].gatherer}
                                        \/ ~(i > 1)))
          /\ lines[1].gatherer # 0 => lines'[1].gatherer = lines[1].gatherer
      BY <2>1 DEF Mild, GathersCarried
    <3>2. ~(i > 1) => i = 1
      BY <1>3
    <3> QED BY <2>2, <3>1, <3>2
  <2> QED BY <2>3, <2>4
<1>6. MediaOnStarted'
  <2> SUFFICES ASSUME signalingState' = "stable", NEW i \in DOMAIN lines', Runs(lines'[i])
               PROVE  transports'[lines'[i].transport].ice # "new"
    BY DEF MediaOnStarted, Runs
  <2>1. signalingState = "stable"
    BY DEF Mild
  <2>2. i \in DOMAIN lines /\ lines'[i].transport = lines[i].transport /\ Runs(lines[i])
    BY <1>1
  <2>3. transports[lines[i].transport].ice # "new"
    BY <2>1, <2>2 DEF Media, MediaOnStarted, Runs
  <2>4. ~lines[i].rejected
    BY <1>2, <2>2
  <2>5. lines[i].transport \in DOMAIN transports
    <3>1. /\ lines[i].transport \in 0 .. Len(transports)
          /\ lines[i].rejected <=> lines[i].transport = 0
      BY <2>2, WorkNow
    <3> QED BY <1>0, <2>4, <3>1
  <2> QED BY <2>2, <2>3, <2>5 DEF Mild, IceKept
<1> QED BY <1>4, <1>5, <1>6 DEF Media

LEMMA MildInv ==
  ASSUME EdgeInv, Mild, Scalars', Emission' \in Emissions
  PROVE  EdgeInv'
<1>1. Media'
  BY MildMedia DEF EdgeInv
<1>2. WorkOK(Work')
  BY DEF Mild
<1> QED BY <1>1, <1>2 DEF EdgeInv

-----------------------------------------------------------------------------
(* Each of these steps is mild                                               *)
LEMMA MadeFits ==
  ASSUME EdgeInv
  PROVE  \A d \in made : d.n <= Len(lines) /\ d.n \in Nat
  BY DEF EdgeInv, Media, Described, Scalars

LEMMA SelfKept ==
  ASSUME WorkOK(Work)
  PROVE  /\ IceKept(transports, transports)
         /\ Carried(lines, lines) /\ GathersCarried(lines, lines)
<1>1. lines \in Seq(Line) /\ gatherers \in Seq(Gatherer) /\ transports \in Seq(Transport)
  BY WorkNow
<1> QED BY <1>1 DEF IceKept, Carried, GathersCarried

(* Events on the transports and remote candidates.                           *)
LEMMA TransportsMild ==
  ASSUME EdgeInv, transports' \in Seq(Transport), IceKept(transports, transports'),
         UNCHANGED <<lines, gatherers, timers, usingBundle, local, answered, signalingState, made>>
  PROVE  Mild
<1>1. WorkOK(Work)
  BY DEF EdgeInv
<1>2. /\ lines \in Seq(Line) /\ gatherers \in Seq(Gatherer) /\ timers \in Seq(Timers)
  BY <1>1, WorkNow
<1>3. WorkOK(Work')
  <2>1. Work' \in WorkType
    BY <1>2 DEF Work, WorkType
  <2>2. /\ Work'.lines = Work.lines /\ Len(Work.gatherers) <= Len(Work'.gatherers)
        /\ Len(Work.transports) <= Len(Work'.transports)
    <3>1. Len(transports) <= Len(transports') /\ Len(gatherers) <= Len(gatherers)
      BY <1>2 DEF IceKept
    <3> QED BY <3>1 DEF Work
  <2> QED BY <1>1, <2>1, <2>2, ObjectsSet
<1>4. Carried(lines, lines) /\ GathersCarried(lines, lines)
  BY <1>1, SelfKept
<1> QED BY <1>3, <1>4, MadeFits DEF Mild

LEMMA IceCandidateMild ==
  ASSUME EdgeInv, NEW i \in 1 .. MaxLines, addIceCandidate(1, i)
  PROVE  Mild
<1>0. WorkOK(Work)
  BY DEF EdgeInv
<1> DEFINE t == lines[i].transport
           x == [transports[t] EXCEPT !.candidates = @ \cup {1}]
<1>1. /\ i \in DOMAIN lines /\ ~lines[i].rejected
      /\ transports' = [transports EXCEPT ![t].candidates = @ \cup {1}]
  BY DEF addIceCandidate
<1>2. transports \in Seq(Transport) /\ t \in DOMAIN transports
  BY <1>0, <1>1, WorkNow
<1>3. transports[t] \in Transport
  BY <1>2
<1> HIDE DEF t
<1>4. x \in Transport /\ x.ice = transports[t].ice
  BY <1>3 DEF Transport
<1>5. transports' = [transports EXCEPT ![t] = x]
  BY <1>1, <1>2
<1> HIDE DEF x
<1>6. transports' \in Seq(Transport) /\ IceKept(transports, transports')
  BY <1>2, <1>4, <1>5 DEF IceKept
<1>7. UNCHANGED <<lines, gatherers, timers, usingBundle, local, answered, signalingState, made>>
  BY DEF addIceCandidate, signalling, states, events, history
<1> QED BY <1>6, <1>7, TransportsMild

LEMMA Overs ==
  ASSUME WorkOK(Work), NEW P,
         transports' = [t \in DOMAIN transports |-> [transports[t] EXCEPT !.over = @ \/ t \in P]]
  PROVE  transports' \in Seq(Transport) /\ IceKept(transports, transports')
<1>1. transports \in Seq(Transport)
  BY WorkNow
<1>2. ASSUME NEW t \in DOMAIN transports
      PROVE  transports'[t] \in Transport /\ transports'[t].ice = transports[t].ice
  <2>1. transports[t] \in Transport
    BY <1>1
  <2>2. (transports[t].over \/ t \in P) \in BOOLEAN
    OBVIOUS
  <2> QED BY <2>1, <2>2 DEF Transport
<1>3. DOMAIN transports' = 1 .. Len(transports) /\ Len(transports) \in Nat
      /\ DOMAIN transports = 1 .. Len(transports)
  BY <1>1
<1>4. transports' \in [1 .. Len(transports) -> Transport]
  BY <1>2, <1>3
<1>5. transports' \in Seq(Transport) /\ Len(transports') = Len(transports)
  BY <1>3, <1>4
<1> QED BY <1>1, <1>2, <1>5 DEF IceKept

LEMMA EndOfCandidatesMild ==
  ASSUME EdgeInv, addEndOfCandidates
  PROVE  Mild
<1>1. WorkOK(Work)
  BY DEF EdgeInv
<1>2. PICK P : transports' = [t \in DOMAIN transports |-> [transports[t] EXCEPT !.over = @ \/ t \in P]]
  BY DEF addEndOfCandidates
<1>3. transports' \in Seq(Transport) /\ IceKept(transports, transports')
  BY <1>1, <1>2, Overs
<1>4. UNCHANGED <<lines, gatherers, timers, usingBundle, local, answered, signalingState, made>>
  BY DEF addEndOfCandidates, signalling, states, events, history
<1> QED BY <1>3, <1>4, TransportsMild

LEMMA LateTimerMild ==
  ASSUME EdgeInv, LateTimer
  PROVE  Mild
<1>1. WorkOK(Work)
  BY DEF EdgeInv
<1> DEFINE used == {lines[i].transport : i \in DOMAIN lines}
           P == {t \in DOMAIN transports : t \in used /\ transports[t].ice = "new"
                                           /\ transports[t].candidates # {}}
<1>2. transports' = [t \in DOMAIN transports |->
          [transports[t] EXCEPT !.over = @ \/ (t \in used /\ transports[t].ice = "new"
                                               /\ transports[t].candidates # {})]]
  BY DEF LateTimer
<1> HIDE DEF used
<1>3. transports' = [t \in DOMAIN transports |-> [transports[t] EXCEPT !.over = @ \/ t \in P]]
  BY <1>2
<1> HIDE DEF P
<1>4. transports' \in Seq(Transport) /\ IceKept(transports, transports')
  BY <1>1, <1>3, Overs
<1>5. UNCHANGED <<lines, gatherers, timers, usingBundle, local, answered, signalingState, made>>
  BY DEF LateTimer, signalling, states, history
<1> QED BY <1>4, <1>5, TransportsMild

LEMMA TransportStepMild ==
  ASSUME EdgeInv, TransportStep
  PROVE  Mild
<1>0. WorkOK(Work)
  BY DEF EdgeInv
<1>1. transports \in Seq(Transport)
  BY <1>0, WorkNow
<1>2. PICK t \in DOMAIN transports : IceTransportStateChange(t) \/ DtlsTransportStateChange(t)
  BY DEF TransportStep
<1>3. transports[t] \in Transport
  BY <1>1
<1>4. PICK x \in Transport : (transports[t].ice # "new" => x.ice # "new")
                             /\ transports' = [transports EXCEPT ![t] = x]
  <2>1. CASE IceTransportStateChange(t)
    <3>1. PICK to \in {"connected", "failed"} : transports' = [transports EXCEPT ![t].ice = to]
      BY <2>1 DEF IceTransportStateChange
    <3>2. [transports[t] EXCEPT !.ice = to] \in Transport /\ [transports[t] EXCEPT !.ice = to].ice = to
      BY <1>3 DEF Transport
    <3>3. transports' = [transports EXCEPT ![t] = [transports[t] EXCEPT !.ice = to]]
      BY <1>1, <3>1
    <3>4. to # "new"
      OBVIOUS
    <3> QED BY <3>2, <3>3, <3>4
  <2>2. CASE DtlsTransportStateChange(t)
    <3>1. PICK to \in {"connected", "failed"} : transports' = [transports EXCEPT ![t].dtls = to]
      BY <2>2 DEF DtlsTransportStateChange
    <3>2. /\ [transports[t] EXCEPT !.dtls = to] \in Transport
          /\ [transports[t] EXCEPT !.dtls = to].ice = transports[t].ice
      BY <1>3 DEF Transport
    <3>3. transports' = [transports EXCEPT ![t] = [transports[t] EXCEPT !.dtls = to]]
      BY <1>1, <3>1
    <3> QED BY <3>2, <3>3
  <2> QED BY <1>2, <2>1, <2>2
<1>5. transports' \in Seq(Transport) /\ IceKept(transports, transports')
  BY <1>1, <1>4 DEF IceKept
<1>6. UNCHANGED <<lines, gatherers, timers, usingBundle, local, answered, signalingState, made>>
  BY DEF TransportStep, signalling, events, history
<1> QED BY <1>5, <1>6, TransportsMild
LEMMA NegotiationTimers ==
  ASSUME WorkOK(Work), MaybeFireNegotiationNeeded
  PROVE  timers' \in Seq(Timers) /\ needNegotiation' \in {needNegotiation, TRUE}
<1>1. timers \in Seq(Timers)
  BY WorkNow
<1>2. [on |-> "negotiationneeded"] \in Timers
  BY DEF Timers
<1> DEFINE n == [on |-> "negotiationneeded"]
<1>3. \/ UNCHANGED <<needNegotiation, timers>>
      \/ needNegotiation' = TRUE /\ timers' = Append(timers, n)
  BY DEF MaybeFireNegotiationNeeded
<1>4. n \in Timers
  BY <1>2
<1> HIDE DEF n
<1>5. Append(timers, n) \in Seq(Timers)
  BY <1>1, <1>4
<1> QED BY <1>1, <1>3, <1>5

(* m-lines change their tracks, senders and receivers only.                  *)
LEMMA TracksMild ==
  ASSUME EdgeInv, lines' \in Seq(Line), Len(lines') = Len(lines),
         \A j \in DOMAIN lines : /\ SameObjects(lines[j], lines'[j])
                                 /\ Runs(lines'[j]) => Runs(lines[j]),
         transports' \in Seq(Transport), IceKept(transports, transports'),
         timers' \in Seq(Timers), signalingState' \in {signalingState, "closed"},
         gatherers' \in Seq(Gatherer), Len(gatherers') = Len(gatherers),
         UNCHANGED <<usingBundle, local, answered, made>>
  PROVE  Mild
<1>1. WorkOK(Work)
  BY DEF EdgeInv
<1>2. /\ lines \in Seq(Line) /\ gatherers \in Seq(Gatherer) /\ transports \in Seq(Transport)
      /\ Len(lines) <= MaxLines
      /\ \A j \in DOMAIN lines :
              /\ lines[j].gatherer \in 0 .. Len(gatherers)
              /\ lines[j].transport \in 0 .. Len(transports)
              /\ lines[j].rejected <=> lines[j].transport = 0
  BY <1>1, WorkNow
<1>3. /\ DOMAIN lines' = DOMAIN lines
      /\ \A j \in DOMAIN lines : /\ lines'[j].gatherer = lines[j].gatherer
                                 /\ lines'[j].transport = lines[j].transport
                                 /\ lines'[j].rejected = lines[j].rejected
  BY <1>2 DEF SameObjects
<1>4. Work'.lines = lines' /\ Work'.gatherers = gatherers' /\ Work'.transports = transports'
  BY DEF Work
<1>5. WorkOK(Work')
  <2>1. Work' \in WorkType
    BY <1>2 DEF Work, WorkType
  <2>2. Len(transports) <= Len(transports') /\ Len(transports) \in Nat /\ Len(transports') \in Nat
    BY <1>2 DEF IceKept
  <2>3. ASSUME NEW j \in DOMAIN lines'
        PROVE  /\ lines'[j].gatherer \in 0 .. Len(gatherers')
               /\ lines'[j].transport \in 0 .. Len(transports')
               /\ lines'[j].rejected <=> lines'[j].transport = 0
    <3>1. /\ lines[j].gatherer \in 0 .. Len(gatherers) /\ lines[j].transport \in 0 .. Len(transports)
          /\ lines[j].rejected <=> lines[j].transport = 0
      BY <1>2, <1>3
    <3>2. /\ lines'[j].gatherer = lines[j].gatherer /\ lines'[j].transport = lines[j].transport
          /\ lines'[j].rejected = lines[j].rejected
      BY <1>3
    <3>3. lines[j].transport \in 0 .. Len(transports')
      BY <2>2, <3>1
    <3> QED BY <3>1, <3>2, <3>3
  <2> QED BY <1>2, <1>4, <2>1, <2>3 DEF WorkOK, Formed
<1>6. Carried(lines, lines')
  BY <1>2, <1>3 DEF Carried
<1>7. GathersCarried(lines, lines')
  BY <1>3 DEF GathersCarried
<1>8. Len(lines') = Len(lines)
  OBVIOUS
<1> QED BY <1>5, <1>6, <1>7, <1>8, MadeFits DEF Mild

LEMMA RemoveTrackMild ==
  ASSUME EdgeInv, NEW i \in DOMAIN lines, removeTrack(i)
  PROVE  Mild
<1>0. WorkOK(Work)
  BY DEF EdgeInv
<1> DEFINE l == [lines[i] EXCEPT !.sender = "none", !.track = FALSE]
<1>1. lines \in Seq(Line) /\ transports \in Seq(Transport) /\ lines[i] \in Line
  BY <1>0, WorkNow
<1>2. lines' = [lines EXCEPT ![i].sender = "none", ![i].track = FALSE]
  BY DEF removeTrack
<1>3. lines' = [lines EXCEPT ![i] = l]
  BY <1>1, <1>2 DEF Line
<1>4. l \in Line /\ SameObjects(lines[i], l) /\ (Runs(l) => Runs(lines[i]))
  BY <1>1 DEF Line, SameObjects, Runs
<1> HIDE DEF l
<1>5. lines' \in Seq(Line) /\ Len(lines') = Len(lines)
  BY <1>1, <1>3, <1>4
<1>6. \A j \in DOMAIN lines : /\ SameObjects(lines[j], lines'[j])
                              /\ Runs(lines'[j]) => Runs(lines[j])
  <2>1. \A j \in DOMAIN lines : lines'[j] = IF j = i THEN l ELSE lines[j]
    BY <1>1, <1>3
  <2>2. \A j \in DOMAIN lines : SameObjects(lines[j], lines[j])
    BY DEF SameObjects
  <2> QED BY <1>4, <2>1, <2>2
<1>7. timers' \in Seq(Timers)
  BY <1>0, NegotiationTimers DEF removeTrack
<1>8. UNCHANGED <<gatherers, transports, signalingState, usingBundle, local, answered, made>>
  BY DEF removeTrack, signalling, states, history
<1>9. transports' \in Seq(Transport) /\ IceKept(transports, transports')
  BY <1>0, <1>1, <1>8, SelfKept
<1>10. signalingState' \in {signalingState, "closed"}
  BY <1>8
<1>11. gatherers' \in Seq(Gatherer) /\ Len(gatherers') = Len(gatherers)
  BY <1>0, <1>8, WorkNow
<1> QED BY <1>5, <1>6, <1>7, <1>8, <1>9, <1>10, <1>11, TracksMild

LEMMA CloseMild ==
  ASSUME EdgeInv, close
  PROVE  Mild
<1>0. WorkOK(Work)
  BY DEF EdgeInv
<1>1. lines \in Seq(Line) /\ transports \in Seq(Transport) /\ timers \in Seq(Timers)
      /\ \A j \in DOMAIN lines : lines[j] \in Line
  BY <1>0, WorkNow
<1>2. lines' = [i \in DOMAIN lines |->
         [lines[i] EXCEPT !.sender = IF @ = "none" THEN @ ELSE "idle",
                          !.receiver = IF @ = "none" THEN @ ELSE "idle"]]
  BY DEF close
<1>3. ASSUME NEW j \in DOMAIN lines
      PROVE  /\ lines'[j] \in Line /\ SameObjects(lines[j], lines'[j])
             /\ Runs(lines'[j]) => Runs(lines[j])
  BY <1>1, <1>2 DEF Line, SameObjects, Runs
<1>4. lines' \in Seq(Line) /\ Len(lines') = Len(lines)
  <2>0. DOMAIN lines' = DOMAIN lines
    BY <1>2
  <2>1. DOMAIN lines' = 1 .. Len(lines) /\ Len(lines) \in Nat /\ DOMAIN lines = 1 .. Len(lines)
    BY <1>1, <2>0
  <2>2. lines' \in [1 .. Len(lines) -> Line]
    BY <1>2, <1>3, <2>1
  <2> QED BY <2>1, <2>2
<1> DEFINE used == {lines[i].transport : i \in DOMAIN lines}
<1>5. transports' = [t \in DOMAIN transports |->
          IF t \in used THEN [transports[t] EXCEPT !.ice = "closed", !.dtls = "closed"]
          ELSE transports[t]]
  BY DEF close
<1> HIDE DEF used
<1>6. ASSUME NEW t \in DOMAIN transports
      PROVE  transports'[t] \in Transport /\ (transports[t].ice # "new" => transports'[t].ice # "new")
  <2>1. transports[t] \in Transport
    BY <1>1
  <2> QED BY <1>5, <2>1 DEF Transport
<1>7. transports' \in Seq(Transport) /\ Len(transports') = Len(transports)
  <2>1. DOMAIN transports' = 1 .. Len(transports) /\ Len(transports) \in Nat
        /\ DOMAIN transports = 1 .. Len(transports)
    <3>1. DOMAIN transports' = DOMAIN transports
      BY <1>5
    <3> QED BY <1>1, <3>1
  <2>2. transports' \in [1 .. Len(transports) -> Transport]
    BY <1>5, <1>6, <2>1
  <2> QED BY <2>1, <2>2
<1>8. IceKept(transports, transports')
  BY <1>1, <1>6, <1>7 DEF IceKept
<1>9. /\ UNCHANGED <<gatherers, usingBundle, local, answered, timers, made>>
      /\ signalingState' = "closed"
  BY DEF close, states, events, history
<1>10. timers' \in Seq(Timers)
  BY <1>1, <1>9
<1>11. gatherers' \in Seq(Gatherer) /\ Len(gatherers') = Len(gatherers)
  BY <1>0, <1>9, WorkNow
<1> QED BY <1>3, <1>4, <1>7, <1>8, <1>9, <1>10, <1>11, TracksMild
(* The state after a step holds what the step recorded.                      *)
LEMMA WorkSet ==
  ASSUME NEW v, WorkOK(v), Done(v), timers' \in Seq(Timers)
  PROVE  WorkOK(Work')
<1>1. /\ v.lines \in Seq(Line) /\ v.gatherers \in Seq(Gatherer)
      /\ v.transports \in Seq(Transport) /\ Len(v.lines) <= MaxLines
  BY WorkHas
<1>2. \A j \in DOMAIN v.lines :
              /\ v.lines[j].gatherer \in 0 .. Len(v.gatherers)
              /\ v.lines[j].transport \in 0 .. Len(v.transports)
              /\ v.lines[j].rejected <=> v.lines[j].transport = 0
  BY WorkHas
<1>3. /\ Work'.lines = v.lines /\ Work'.gatherers = v.gatherers /\ Work'.transports = v.transports
  BY DEF Work, Done
<1>4. Work' \in WorkType
  BY <1>1 DEF Work, Done, WorkType
<1> QED BY <1>1, <1>2, <1>3, <1>4 DEF WorkOK, Formed

(* m-lines are added, and gatherers to m-lines without one.                  *)
LineOffered(l, m, j, first, n) ==
  /\ LineKept(l, m)
  /\ \/ m.gatherer = l.gatherer
     \/ /\ l.gatherer = 0
        /\ \/ usingBundle /\ j > 1 /\ m.gatherer = first
           \/ ~(usingBundle /\ j > 1) /\ m.gatherer > n
LEMMA WideMild ==
  ASSUME EdgeInv, NEW w, Widened(Work, w), WorkOK(Work'), Len(lines') = Len(w.lines),
         \A j \in DOMAIN w.lines :
            LineOffered(w.lines[j], lines'[j], j, lines'[1].gatherer, Len(gatherers)),
         transports' = w.transports, UNCHANGED <<usingBundle, local, answered, signalingState>>,
         \A d \in made' : d.n <= Len(lines')
  PROVE  Mild
<1>1. WorkOK(w) /\ Work.lines = lines /\ Work.transports = transports
  BY DEF Widened, Work
<1>2. w.lines \in Seq(Line) /\ lines \in Seq(Line) /\ lines' \in Seq(Line) /\ DOMAIN lines' = DOMAIN w.lines
  <2>1. w.lines \in Seq(Line) /\ lines \in Seq(Line) /\ lines' \in Seq(Line)
    BY <1>1, WorkHas, WorkNow, WorkNext DEF EdgeInv
  <2> QED BY <2>1
<1>3. /\ Len(lines) <= Len(lines')
      /\ \A j \in DOMAIN lines : w.lines[j] = lines[j] /\ j \in DOMAIN w.lines
      /\ \A j \in DOMAIN w.lines : j \notin DOMAIN lines =>
           w.lines[j] = NewLine(w.lines[j].kind, w.lines[j].transport) /\ ~w.lines[j].rejected
  BY <1>1, <1>2 DEF Widened
<1>4. \A j \in DOMAIN w.lines : j \notin DOMAIN lines =>
        ~w.lines[j].rejected /\ w.lines[j].gatherer = 0 /\ ~Runs(w.lines[j])
  <2>1. \A k, t : NewLine(k, t).gatherer = 0 /\ ~Runs(NewLine(k, t))
    BY DEF NewLine, Runs
  <2> QED BY <1>3, <2>1
<1>5. Carried(lines, lines')
  BY <1>2, <1>3, <1>4 DEF Carried, LineOffered, LineKept
<1>6. GathersCarried(lines, lines')
  <2> SUFFICES ASSUME NEW j \in DOMAIN lines'
      PROVE  \/ j \in DOMAIN lines /\ lines'[j].gatherer = lines[j].gatherer
             \/ /\ j \in DOMAIN lines => lines[j].gatherer = 0
                /\ \/ lines'[j].gatherer = 0
                   \/ usingBundle /\ j > 1 /\ lines'[j].gatherer = lines'[1].gatherer
                   \/ ~(usingBundle /\ j > 1) /\ lines'[j].gatherer > Len(gatherers)
    BY DEF GathersCarried
  <2>1. LineOffered(w.lines[j], lines'[j], j, lines'[1].gatherer, Len(gatherers))
    BY <1>2
  <2>2. CASE j \in DOMAIN lines
    BY <1>3, <2>1, <2>2 DEF LineOffered
  <2>3. CASE j \notin DOMAIN lines
    BY <1>2, <1>4, <2>1, <2>3 DEF LineOffered
  <2> QED BY <2>2, <2>3
<1>7. IceKept(transports, transports')
  BY <1>1 DEF Widened
<1> QED BY <1>5, <1>6, <1>7 DEF Mild

LEMMA FirstLeads ==
  ASSUME EdgeInv
  PROVE  Led(Work, usingBundle)
<1>1. /\ usingBundle /\ answered # <<>> => answered[1]
      /\ \A i \in DOMAIN lines : lines[i].rejected => i \in DOMAIN answered /\ ~answered[i]
      /\ answered \in Seq(BOOLEAN) /\ lines \in Seq(Line)
  BY WorkNow DEF EdgeInv, Media, Described, Scalars
<1>2. lines # <<>> => 1 \in DOMAIN lines
  BY <1>1
<1>3. 1 \in DOMAIN answered => answered # <<>>
  BY <1>1
<1> QED BY <1>1, <1>2, <1>3, WorkIs DEF Led

LEMMA AddTrackMild ==
  ASSUME EdgeInv, NEW kind \in Kind, addTrack(kind)
  PROVE  Mild
<1>0. WorkOK(Work) /\ Work.lines = lines /\ Work.gatherers = gatherers /\ Led(Work, usingBundle)
      /\ usingBundle \in BOOLEAN
  BY FirstLeads DEF EdgeInv, Work, Scalars
<1>1. lines \in Seq(Line) /\ gatherers \in Seq(Gatherer) /\ Len(lines) \in Nat /\ MaxLines \in Nat
  BY <1>0, WorkHas, BoundsAssumption
<1> DEFINE free == {j \in DOMAIN lines : lines[j].kind = kind}
           w == IF free # {} THEN Work ELSE CreateTransceiver(Work, Len(lines) + 1, kind, usingBundle)
           i == IF free # {} THEN Max(free) ELSE Len(lines) + 1
           l == [w.lines[i] EXCEPT !.track = TRUE, !.sender = "idle"]
           v == [w EXCEPT !.lines = [w.lines EXCEPT ![i] = l]]
<1>2. i <= MaxLines /\ Done([w EXCEPT !.lines[i].track = TRUE, !.lines[i].sender = "idle"])
  BY DEF addTrack
<1>3. Widened(Work, w) /\ i \in DOMAIN w.lines
  <2>1. CASE free # {}
    <3>1. free \in SUBSET (1 .. Len(lines))
      BY <1>1
    <3>2. Max(free) \in free
      <4> HIDE DEF free
      <4> QED BY <1>1, <2>1, <3>1, MaxIs
    <3>3. Max(free) \in DOMAIN lines
      BY <3>2
    <3>4. Widened(Work, Work)
      BY <1>0, WidenedStays
    <3> QED BY <1>0, <2>1, <3>3, <3>4
  <2>2. CASE free = {}
    <3>1. i = Len(lines) + 1 /\ w = CreateTransceiver(Work, Len(lines) + 1, kind, usingBundle)
      BY <2>2
    <3> HIDE DEF i, w, free
    <3>2. Len(lines) < MaxLines
      BY <1>1, <1>2, <3>1
    <3>3. Widened(Work, w) /\ Len(w.lines) = Len(lines) + 1
      BY <1>0, <3>1, <3>2, CreateAtEnd
    <3>4. w.lines \in Seq(Line)
      BY <3>3, WorkHas DEF Widened
    <3> QED BY <1>1, <3>1, <3>3, <3>4
  <2> QED BY <2>1, <2>2
<1> HIDE DEF w, i
<1>4. WorkOK(w) /\ w.lines \in Seq(Line) /\ w.lines[i] \in Line /\ Recorded(w)
  <2>1. WorkOK(w)
    BY <1>3 DEF Widened
  <2> QED BY <1>3, <2>1, WorkHas, LineHas DEF Recorded
<1>5. Done(v)
  <2>1. [w EXCEPT !.lines[i].track = TRUE, !.lines[i].sender = "idle"] = v
    BY <1>3, <1>4 DEF Line, Recorded
  <2> QED BY <1>2, <2>1
<1>6. /\ l \in Line /\ l.gatherer = w.lines[i].gatherer /\ l.transport = w.lines[i].transport
      /\ l.rejected = w.lines[i].rejected /\ LineKept(w.lines[i], l)
  BY <1>4 DEF Line, LineKept, Runs
<1>7. v = [w EXCEPT !.lines = [w.lines EXCEPT ![i] = l]]
  OBVIOUS
<1> HIDE DEF l, v
<1>8. /\ WorkOK(v) /\ OnlyLine(w, v, i) /\ v.lines[i] = l /\ v.gatherers = w.gatherers
      /\ v.transports = w.transports
  BY <1>3, <1>4, <1>6, <1>7, LineFields
<1>9. timers' \in Seq(Timers)
  BY <1>0, NegotiationTimers DEF addTrack
<1>10. UNCHANGED <<signalingState, usingBundle, local, answered, made>>
  BY DEF addTrack, signalling, states, history
<1>11. WorkOK(Work')
  BY <1>5, <1>8, <1>9, WorkSet
<1>12. lines' = v.lines /\ transports' = w.transports /\ gatherers' = gatherers
  <2>1. w.gatherers = gatherers
    BY <1>0, <1>3 DEF Widened
  <2> QED BY <1>5, <1>8, <2>1 DEF Done
<1>13. Len(v.lines) = Len(w.lines) /\ \A j \in DOMAIN w.lines : j # i => v.lines[j] = w.lines[j]
  BY <1>3, <1>4, <1>8 DEF OnlyLine
<1>14. ASSUME NEW j \in DOMAIN w.lines
       PROVE  LineOffered(w.lines[j], lines'[j], j, lines'[1].gatherer, Len(gatherers))
  <2>1. CASE j = i
    BY <1>6, <1>8, <1>12, <2>1 DEF LineOffered
  <2>2. CASE j # i
    BY <1>12, <1>13, <2>2 DEF LineOffered, LineKept
  <2> QED BY <2>1, <2>2
<1>15. \A d \in made' : d.n <= Len(lines')
  <2>1. Len(lines) <= Len(w.lines) /\ Len(w.lines) \in Nat
    BY <1>0, <1>3, <1>4 DEF Widened
  <2> QED BY <1>1, <1>10, <1>12, <1>13, <2>1, MadeFits
<1> QED BY <1>3, <1>10, <1>11, <1>12, <1>13, <1>14, <1>15, WideMild

(* A description that was made fits the m-lines.                             *)
LEMMA CreateAnswerMild ==
  ASSUME EdgeInv, createAnswer
  PROVE  Mild
<1>1. WorkOK(Work) /\ Len(answered) <= Len(lines)
  BY DEF EdgeInv, Media, Described
<1>2. /\ UNCHANGED <<lines, gatherers, transports, signalingState, usingBundle, local, answered,
                     timers>>
      /\ made' = made \cup {[type |-> "answer", n |-> Len(answered)]}
  BY DEF createAnswer, objects, signalling, states, events, history
<1>3. Work' = Work
  BY <1>2 DEF Work
<1>4. /\ IceKept(transports, transports) /\ Carried(lines, lines) /\ GathersCarried(lines, lines)
  BY <1>1, SelfKept
<1>5. \A d \in made' : d.n <= Len(lines')
  BY <1>1, <1>2, MadeFits
<1> QED BY <1>1, <1>2, <1>3, <1>4, <1>5 DEF Mild

LEMMA StutterMild ==
  ASSUME EdgeInv, UNCHANGED edgeVars
  PROVE  Mild
<1>1. UNCHANGED <<lines, gatherers, transports, signalingState, usingBundle, local, answered,
                  timers, made>>
  BY DEF edgeVars, objects, signalling, states, events, history
<1>2. WorkOK(Work) /\ transports \in Seq(Transport)
  BY WorkNow DEF EdgeInv
<1>3. transports' \in Seq(Transport) /\ IceKept(transports, transports')
  BY <1>1, <1>2, SelfKept
<1> QED BY <1>1, <1>3, TransportsMild

(* The m-line createOffer adds for a kind that is asked for.                 *)
Missing(w, k, want) == IF want[k] > CountKind(lines, k)
                       THEN CreateTransceiver(w, Len(w.lines) + 1, k, usingBundle) ELSE w
LEMMA MissingDoes ==
  ASSUME NEW w, WorkOK(w), Led(w, usingBundle), NEW k \in Kind, usingBundle \in BOOLEAN, NEW want,
         NEW v, v = Missing(w, k, want), Len(w.lines) < MaxLines \/ v = w
  PROVE  Widened(w, v) /\ Led(v, usingBundle)
<1>1. CASE v = w
  BY <1>1, WidenedStays
<1>2. CASE v # w
  <2>1. v = CreateTransceiver(w, Len(w.lines) + 1, k, usingBundle)
    BY <1>2 DEF Missing
  <2>2. Len(w.lines) < MaxLines
    BY <1>2
  <2> QED BY <2>1, <2>2, CreateAtEnd
<1> QED BY <1>1, <1>2

(* It makes one m-line more, which tells that there was room.                *)
Listed(w) == w.lines \in Seq(Line) /\ w.transports \in Seq(Transport) /\ Recorded(w)
LEMMA MissingLonger ==
  ASSUME NEW w, Listed(w), NEW k \in Kind, NEW want, Missing(w, k, want) # w
  PROVE  Len(Missing(w, k, want).lines) = Len(w.lines) + 1 /\ Listed(Missing(w, k, want))
<1>0. w.lines \in Seq(Line) /\ w.transports \in Seq(Transport) /\ Recorded(w)
  BY DEF Listed
<1>1. Missing(w, k, want) = CreateTransceiver(w, Len(w.lines) + 1, k, usingBundle)
  BY DEF Missing
<1>2. \A l : Put(w.lines, Len(w.lines) + 1, l) = Append(w.lines, l)
  BY <1>0 DEF Put
<1>3. \A l \in Line : Append(w.lines, l) \in Seq(Line) /\ Len(Append(w.lines, l)) = Len(w.lines) + 1
  BY <1>0
<1>4. \A l \in Line : /\ Put(w.lines, Len(w.lines) + 1, l) \in Seq(Line)
                      /\ Len(Put(w.lines, Len(w.lines) + 1, l)) = Len(w.lines) + 1
  BY <1>2, <1>3
<1> DEFINE a == NewLine(k, w.lines[1].transport)
           b == NewLine(k, Len(w.transports) + 1)
<1>5. \/ w.lines # <<>> /\ Missing(w, k, want) = [w EXCEPT !.lines = Put(@, Len(w.lines) + 1, a)]
      \/ Missing(w, k, want) = [w EXCEPT !.transports = Append(@, NewTransport),
                                         !.lines = Put(@, Len(w.lines) + 1, b)]
  BY <1>1 DEF CreateTransceiver
<1>6. (w.lines # <<>> => a \in Line) /\ b \in Line
  <2>1. w.lines # <<>> => w.lines[1] \in Line
    BY <1>0
  <2>2. w.lines # <<>> => w.lines[1].transport \in Nat
    BY <2>1 DEF Line
  <2>3. Len(w.transports) + 1 \in Nat
    BY <1>0
  <2>4. \A t \in Nat : NewLine(k, t) \in Line
    BY DEF NewLine, Line
  <2> QED BY <2>2, <2>3, <2>4
<1>7. Append(w.transports, NewTransport) \in Seq(Transport)
  <2>1. NewTransport \in Transport
    BY DEF NewTransport, Transport
  <2> QED BY <1>0, <2>1
<1> HIDE DEF a, b
<1>8. CASE w.lines # <<>> /\ Missing(w, k, want) = [w EXCEPT !.lines = Put(w.lines, Len(w.lines) + 1, a)]
  BY <1>0, <1>4, <1>6, <1>8 DEF Recorded, Listed
<1>9. CASE Missing(w, k, want) = [w EXCEPT !.transports = Append(w.transports, NewTransport),
                                           !.lines = Put(w.lines, Len(w.lines) + 1, b)]
  BY <1>0, <1>4, <1>6, <1>7, <1>9 DEF Recorded, Listed
<1> QED BY <1>5, <1>8, <1>9

LEMMA CreateOfferMild ==
  ASSUME EdgeInv, NEW options, createOffer(options)
  PROVE  Mild
<1>0. WorkOK(Work) /\ Work.lines = lines /\ Work.gatherers = gatherers /\ Led(Work, usingBundle)
      /\ usingBundle \in BOOLEAN /\ "audio" \in Kind /\ "video" \in Kind
  BY FirstLeads DEF EdgeInv, Work, Scalars, Kind
<1>1. lines \in Seq(Line) /\ gatherers \in Seq(Gatherer) /\ Len(lines) \in Nat /\ MaxLines \in Nat
      /\ timers \in Seq(Timers)
  BY <1>0, WorkNow, BoundsAssumption
<1> DEFINE want == [k \in Kind |-> IF k \in DOMAIN options THEN options[k] ELSE CountKind(lines, k)]
           wa == Missing(Work, "audio", want)
           w == Missing(wa, "video", want)
           v == OfferLines(w, want)
<1>2. /\ Len(w.lines) \in 1 .. MaxLines /\ Done(v)
      /\ made' \in {made, made \cup {[type |-> "offer", n |-> Len(v.lines)]}}
  BY DEF createOffer, Missing
<1> HIDE DEF want
<1>3. Listed(Work)
  BY <1>0, WorkHas DEF Listed, Recorded
<1>4. Widened(Work, wa) /\ Led(wa, usingBundle)
  <2>1. CASE wa = Work
    BY <1>0, <2>1, WidenedStays
  <2>2. CASE wa # Work
    <3>1. Len(wa.lines) = Len(lines) + 1 /\ Listed(wa)
      BY <1>0, <1>3, <2>2, MissingLonger
    <3>2. w = wa \/ Len(w.lines) = Len(wa.lines) + 1
      BY <1>0, <3>1, MissingLonger
    <3>3. Len(Work.lines) < MaxLines
      <4> HIDE DEF w, wa
      <4> QED BY <1>0, <1>1, <1>2, <3>1, <3>2
    <3> QED BY <1>0, <3>3, MissingDoes
  <2> QED BY <2>1, <2>2
<1>5. WorkOK(wa) /\ Listed(wa)
  <2>1. WorkOK(wa)
    BY <1>4 DEF Widened
  <2> QED BY <2>1, WorkHas DEF Listed, Recorded
<1>6. Widened(wa, w)
  <2>1. CASE w = wa
    BY <1>5, <2>1, WidenedStays
  <2>2. CASE w # wa
    <3>1. Len(w.lines) = Len(wa.lines) + 1 /\ Len(wa.lines) \in Nat
      BY <1>0, <1>5, <2>2, MissingLonger DEF Listed
    <3>2. Len(wa.lines) < MaxLines
      <4> HIDE DEF w, wa
      <4> QED BY <1>1, <1>2, <3>1
    <3> QED BY <1>0, <1>4, <1>5, <3>2, MissingDoes
  <2> QED BY <2>1, <2>2
<1> HIDE DEF wa, w
<1>7. Widened(Work, w)
  BY <1>0, <1>4, <1>6, WidenedTrans
<1>8. WorkOK(w) /\ w.gatherers = gatherers /\ w.lines \in Seq(Line)
  <2>1. WorkOK(w) /\ w.gatherers = gatherers
    BY <1>0, <1>7 DEF Widened
  <2> QED BY <2>1, WorkHas
<1>9. Offered(w, v, Len(w.lines))
  BY <1>8, OfferLinesDo
<1> HIDE DEF v
<1>10. /\ WorkOK(v) /\ v.transports = w.transports /\ Grown(gatherers, v.gatherers)
       /\ Len(v.lines) = Len(w.lines)
       /\ \A j \in DOMAIN w.lines : j > Len(w.lines) \/ OfferDone(w, v, j)
  BY <1>8, <1>9 DEF Offered
<1>11. UNCHANGED <<signalingState, usingBundle, local, answered, timers>>
  BY DEF createOffer, signalling, states, events, history
<1>12. WorkOK(Work')
  BY <1>1, <1>2, <1>10, <1>11, WorkSet
<1>13. lines' = v.lines /\ transports' = w.transports /\ gatherers' = v.gatherers
  BY <1>2, <1>10 DEF Done
<1>14. ASSUME NEW j \in DOMAIN w.lines
       PROVE  LineOffered(w.lines[j], lines'[j], j, lines'[1].gatherer, Len(gatherers))
  <2>1. ~(j > Len(w.lines))
    BY <1>8
  <2>2. OfferDone(w, v, j)
    BY <1>10, <2>1
  <2> QED BY <1>8, <1>13, <2>2 DEF LineOffered, OfferDone
<1>15. \A d \in made' : d.n <= Len(lines')
  <2>1. Len(lines) <= Len(w.lines) /\ Len(w.lines) \in Nat
    BY <1>0, <1>7, <1>8 DEF Widened
  <2>2. Len(lines') = Len(w.lines) /\ Len(v.lines) = Len(w.lines)
    BY <1>10, <1>13
  <2> QED BY <1>1, <1>2, <2>1, <2>2, MadeFits
<1>16. Len(lines') = Len(w.lines)
  BY <1>10, <1>13
<1> QED BY <1>7, <1>11, <1>12, <1>13, <1>14, <1>15, <1>16, WideMild

-----------------------------------------------------------------------------
(* Steps of the gatherers                                                    *)
LEMMA BufferedDoes ==
  ASSUME WorkOK(Work), NEW g \in DOMAIN gatherers, NEW n \in 0 .. MaxCandidates,
         NEW ls, ls = Buffered(lines, g, n)
  PROVE  /\ ls \in Seq(Line) /\ Len(ls) = Len(lines)
         /\ \A j \in DOMAIN lines : /\ SameObjects(lines[j], ls[j])
                                    /\ Runs(ls[j]) => Runs(lines[j])
<1>1. lines \in Seq(Line) /\ gatherers \in Seq(Gatherer)
  BY WorkNow
<1> DEFINE i == gatherers[g].listens
           e == <<g, n>>
           l == [lines[i] EXCEPT !.buffer = Append(lines[i].buffer, e)]
<1>2. e \in Event
  <2>1. g \in Nat \ {0}
    BY <1>1
  <2> QED BY <2>1 DEF Event
<1>3. ls = lines \/ ls = [lines EXCEPT ![i] = l]
  <2>1. [lines EXCEPT ![i].buffer = Append(@, e)] = [lines EXCEPT ![i] = l]
    OBVIOUS
  <2> QED BY <2>1 DEF Buffered
<1>4. \A j \in DOMAIN lines : lines[j] \in Line
  BY <1>1
<1>5. ASSUME i \in DOMAIN lines
      PROVE  l \in Line /\ SameObjects(lines[i], l) /\ (Runs(l) => Runs(lines[i]))
  <2>1. lines[i] \in Line
    BY <1>4, <1>5
  <2>2. lines[i].buffer \in Seq(Event)
    BY <2>1 DEF Line
  <2> HIDE DEF e, i
  <2>3. Append(lines[i].buffer, e) \in Seq(Event)
    BY <1>2, <2>2
  <2> DEFINE b == Append(lines[i].buffer, e)
  <2>4. l = [lines[i] EXCEPT !.buffer = b] /\ b \in Seq(Event)
    BY <2>3
  <2> HIDE DEF b, l
  <2> QED BY <2>1, <2>4 DEF Line, SameObjects, Runs
<1> HIDE DEF l, i
<1>6. CASE ls = lines
  BY <1>1, <1>6 DEF SameObjects
<1>7. CASE ls = [lines EXCEPT ![i] = l]
  <2>1. \A j \in DOMAIN lines : ls[j] = IF j = i THEN l ELSE lines[j]
    BY <1>7
  <2>2. DOMAIN ls = DOMAIN lines
    BY <1>7
  <2>3. ASSUME NEW j \in DOMAIN lines
        PROVE  /\ ls[j] \in Line /\ SameObjects(lines[j], ls[j])
               /\ Runs(ls[j]) => Runs(lines[j])
    <3>1. SameObjects(lines[j], lines[j])
      BY DEF SameObjects
    <3> QED BY <1>4, <1>5, <2>1, <3>1
  <2>4. ls \in Seq(Line) /\ Len(ls) = Len(lines)
    <3>1. ls = [j \in DOMAIN lines |-> ls[j]]
      BY <1>7
    <3>2. DOMAIN lines = 1 .. Len(lines) /\ Len(lines) \in Nat
      BY <1>1
    <3>3. ls \in [1 .. Len(lines) -> Line]
      BY <2>3, <3>1, <3>2
    <3> QED BY <3>2, <3>3
  <2> QED BY <2>3, <2>4
<1> QED BY <1>3, <1>6, <1>7

Found(x, n) == [x EXCEPT !.found = IF n > 0 THEN n ELSE x.found, !.done = (n = 0)]

LEMMA FoundDoes ==
  ASSUME NEW gs \in Seq(Gatherer), NEW g \in DOMAIN gs, NEW n \in 0 .. MaxCandidates
  PROVE  /\ [gs EXCEPT ![g] = Found(gs[g], n)] \in Seq(Gatherer)
         /\ Len([gs EXCEPT ![g] = Found(gs[g], n)]) = Len(gs)
<1>1. gs[g] \in Gatherer
  OBVIOUS
<1> DEFINE f == IF n > 0 THEN n ELSE gs[g].found
<1>2. f \in 0 .. MaxCandidates /\ (n = 0) \in BOOLEAN
  BY <1>1 DEF Gatherer
<1>3. Found(gs[g], n) = [gs[g] EXCEPT !.found = f, !.done = (n = 0)]
  BY DEF Found
<1> HIDE DEF f
<1>4. Found(gs[g], n) \in Gatherer
  BY <1>1, <1>2, <1>3 DEF Gatherer
<1> QED BY <1>4

LEMMA FindingIs ==
  ASSUME NEW gs \in Seq(Gatherer), NEW g \in DOMAIN gs, NEW n
  PROVE  [gs EXCEPT ![g].found = IF n > 0 THEN n ELSE @, ![g].done = (n = 0)]
           = [gs EXCEPT ![g] = Found(gs[g], n)]
<1>1. gs[g] \in Gatherer
  OBVIOUS
<1> QED BY <1>1 DEF Found, Gatherer

(* The handlers change gatherers and what is emitted, and buffers.           *)
LEMMA EmitMild ==
  ASSUME EdgeInv, NEW s, Emitted(Emission, s), Emit(s),
         lines' \in Seq(Line), Len(lines') = Len(lines),
         \A j \in DOMAIN lines : /\ SameObjects(lines[j], lines'[j])
                                 /\ Runs(lines'[j]) => Runs(lines[j]),
         timers' \in Seq(Timers),
         UNCHANGED <<transports, usingBundle, local, answered, signalingState, made>>
  PROVE  Mild /\ Emission' \in Emissions
<1>1. WorkOK(Work) /\ transports \in Seq(Transport)
  BY WorkNow DEF EdgeInv
<1>2. transports' \in Seq(Transport) /\ IceKept(transports, transports')
  BY <1>1, SelfKept
<1>3. s \in Emissions /\ Len(s.gatherers) = Len(gatherers)
  BY DEF Emitted, Emission
<1>4. gatherers' \in Seq(Gatherer) /\ Len(gatherers') = Len(gatherers)
  BY <1>3 DEF Emit, Emissions
<1>5. Emission' \in Emissions
  BY <1>3 DEF Emit, Emissions, Emission
<1>6. signalingState' \in {signalingState, "closed"}
  OBVIOUS
<1>7. Mild
  BY <1>2, <1>4, <1>6, TracksMild
<1> QED BY <1>5, <1>7

LEMMA LocalCandidateInv ==
  ASSUME EdgeInv, NEW g \in DOMAIN gatherers, NEW n \in 0 .. MaxCandidates, LocalCandidate(g, n)
  PROVE  Mild /\ Emission' \in Emissions
<1> DEFINE gs == [gatherers EXCEPT ![g].found = IF n > 0 THEN n ELSE @, ![g].done = (n = 0)]
           bs == bufferCandidates(gs, g, n)
           s == [Emission EXCEPT !.gatherers = bs]
           e == <<g, n>>
           v == IF gatherers[g].line = 0 THEN s ELSE onlocalcandidate(s, g, e)
<1>1. WorkOK(Work) /\ Emission \in Emissions /\ Emission.gatherers = gatherers
  BY DEF EdgeInv, Emission
<1>2. gatherers \in Seq(Gatherer) /\ timers \in Seq(Timers)
  BY <1>1, WorkNow
<1>3. gs \in Seq(Gatherer) /\ Len(gs) = Len(gatherers)
  <2>1. gs = [gatherers EXCEPT ![g] = Found(gatherers[g], n)]
    BY <1>2, FindingIs
  <2> HIDE DEF gs
  <2> QED BY <1>2, <2>1, FoundDoes
<1>4. lines' = Buffered(lines, g, n) /\ Emit(v)
  BY DEF LocalCandidate
<1>5. bs \in Seq(Gatherer) /\ Len(bs) = Len(gatherers)
  <2> HIDE DEF gs
  <2>1. \A st \in {"new", "gathering", "completed"} :
          /\ [gs EXCEPT ![g].state = st] \in Seq(Gatherer)
          /\ Len([gs EXCEPT ![g].state = st]) = Len(gs)
    BY <1>3, StateSetIs
  <2> QED BY <1>3, <2>1 DEF bufferCandidates
<1>6. e \in Event
  BY <1>2 DEF Event
<1> HIDE DEF bs, gs, e
<1>7. s \in Emissions /\ s.gatherers = bs
  BY <1>1, <1>5 DEF Emissions
<1> HIDE DEF s
<1>8. Emitted(Emission, v)
  <2>1. Emitted(s, onlocalcandidate(s, g, e))
    BY <1>6, <1>7, OnLocalDoes
  <2> QED BY <1>1, <1>5, <1>7, <2>1 DEF Emitted
<1> HIDE DEF v
<1>9. /\ lines' \in Seq(Line) /\ Len(lines') = Len(lines)
      /\ \A j \in DOMAIN lines : /\ SameObjects(lines[j], lines'[j])
                                 /\ Runs(lines'[j]) => Runs(lines[j])
  BY <1>1, <1>4, BufferedDoes
<1>10. UNCHANGED <<transports, usingBundle, local, answered, signalingState, made, timers>>
  BY DEF LocalCandidate, signalling
<1> QED BY <1>2, <1>4, <1>8, <1>9, <1>10, EmitMild

(* A replay that a timer starts.                                             *)
LEMMA HeadIs ==
  ASSUME timers \in Seq(Timers), timers # <<>>
  PROVE  /\ Tail(timers) \in Seq(Timers)
         /\ Head(timers).on = "flush" => Head(timers).events \in Seq(Event)
<1>1. Head(timers) \in Timers
  OBVIOUS
<1> QED BY <1>1 DEF Timers

LEMMA TimerInv ==
  ASSUME EdgeInv, Timer
  PROVE  Mild /\ Emission' \in Emissions
<1>1. WorkOK(Work) /\ Emission \in Emissions
  BY DEF EdgeInv
<1>2. timers \in Seq(Timers) /\ lines \in Seq(Line) /\ timers # <<>> /\ timers' = Tail(timers)
  BY <1>1, WorkNow DEF Timer
<1>3. timers' \in Seq(Timers)
  BY <1>2, HeadIs
<1>4. UNCHANGED <<lines, transports, usingBundle, local, answered, signalingState, made>>
  BY DEF Timer, signalling
<1>5. \A j \in DOMAIN lines : /\ SameObjects(lines[j], lines'[j])
                              /\ Runs(lines'[j]) => Runs(lines[j])
  BY <1>4 DEF SameObjects
<1>6. PICK s : Emitted(Emission, s) /\ Emit(s)
  <2> DEFINE t == Head(timers)
             play == IF gatherers[t.g].line = 0 THEN <<>>
                     ELSE IF local = NoDescription /\ t.events # <<>> THEN <<Head(t.events)>>
                     ELSE t.events
  <2>1. CASE t.on = "flush"
    <3>1. t.events \in Seq(Event) /\ Emit(Replay(t.g, play))
      BY <1>2, <2>1, HeadIs DEF Timer
    <3>2. play \in Seq(Event)
      <4>1. <<>> \in Seq(Event)
        OBVIOUS
      <4>2. t.events # <<>> => <<Head(t.events)>> \in Seq(Event)
        BY <3>1
      <4> QED BY <3>1, <4>1, <4>2
    <3>3. Emitted(Emission, Replay(t.g, play))
      <4> HIDE DEF play, t
      <4> QED BY <1>1, <3>2, ReplayDoes
    <3> QED BY <3>1, <3>3
  <2>2. CASE t.on # "flush"
    <3>1. UNCHANGED <<gatherers, emitted, twice, unseen, iceGatheringState>>
      BY <2>2 DEF Timer
    <3>2. Emit(Emission)
      BY <3>1 DEF Emit, Emission
    <3> QED BY <1>1, <3>2 DEF Emitted
  <2> QED BY <2>1, <2>2
<1>7. lines' \in Seq(Line) /\ Len(lines') = Len(lines)
  BY <1>2, <1>4
<1> QED BY <1>3, <1>4, <1>5, <1>6, <1>7, EmitMild

-----------------------------------------------------------------------------
(* Steps that change the descriptions                                        *)
LEMMA EmissionKept ==
  ASSUME EdgeInv, WorkOK(Work'), UNCHANGED <<emitted, twice, iceGatheringState>>,
         unseen' \in BOOLEAN
  PROVE  Emission' \in Emissions
<1>1. gatherers' \in Seq(Gatherer)
  BY WorkNext
<1>2. /\ emitted \in SUBSET (Nat \X Nat) /\ twice \in SUBSET (Nat \X Nat)
      /\ iceGatheringState \in {"new", "gathering", "complete"}
  BY DEF EdgeInv, Emission, Emissions
<1> QED BY <1>1, <1>2 DEF Emission, Emissions

(* The local description: its types, and those of what it leaves alone.      *)
LEMMA LocalSet ==
  ASSUME EdgeInv, NEW description \in made, setLocalDescription(description)
  PROVE  /\ Scalars' /\ \A d \in made' \cup {local'} : d.n <= Len(lines)
         /\ UNCHANGED <<closed, usingBundle, remoteType, answered, made, needNegotiation, late,
                        emitted, twice, unseen, iceGatheringState>>
<1>1. /\ SetLocalOffer(description) \/ SetLocalAnswer(description)
      /\ UNCHANGED <<closed, usingBundle, remoteType, answered, made, needNegotiation, late,
                     emitted, twice, unseen, iceGatheringState>>
  BY DEF setLocalDescription, states
<1>2. /\ signalingState' \in {signalingState, "have-local-offer", "stable"}
      /\ local' \in {local, description} /\ damaged' \in {damaged, TRUE}
  BY <1>1 DEF SetLocalOffer, SetLocalAnswer
<1>3. Scalars /\ \A d \in made \cup {local} : d.n <= Len(lines)
  BY DEF EdgeInv, Media, Described
<1>4. Scalars'
  BY <1>1, <1>2, <1>3 DEF Scalars
<1>5. made' \cup {local'} \subseteq made \cup {local}
  BY <1>1, <1>2
<1> QED BY <1>1, <1>3, <1>4, <1>5

LEMMA SetLocalOfferInv ==
  ASSUME EdgeInv, NEW description \in made, setLocalDescription(description),
         description.type = "offer"
  PROVE  EdgeInv'
<1>0. SetLocalOffer(description)
  BY DEF setLocalDescription
<1>1. WorkOK(Work) /\ lines \in Seq(Line) /\ Len(lines) \in Nat
  BY WorkNow DEF EdgeInv
<1> DEFINE bare == {i \in DOMAIN lines : lines[i].gatherer = 0}
           upto == IF bare = {} THEN Len(lines) ELSE Min(bare) - 1
           w == GatherLines(upto)
<1>2. /\ Done(w) /\ timers' = w.timers
      /\ signalingState' \in {signalingState, "have-local-offer"}
  BY <1>0 DEF SetLocalOffer
<1>3. upto \in Nat /\ upto <= Len(lines) /\ \A i \in 1 .. upto : lines[i].gatherer # 0
  <2>1. CASE bare = {}
    BY <1>1, <2>1
  <2>2. CASE bare # {}
    <3>1. bare \in SUBSET Nat /\ DOMAIN lines = 1 .. Len(lines) /\ bare \subseteq DOMAIN lines
      BY <1>1
    <3>2. upto = Min(bare) - 1 /\ \A i \in DOMAIN lines : i \in bare <=> lines[i].gatherer = 0
      BY <2>2
    <3> HIDE DEF bare, upto
    <3>3. Min(bare) \in bare /\ \A y \in bare : Min(bare) <= y
      BY <2>2, <3>1, MinIs
    <3>4. Min(bare) \in 1 .. Len(lines)
      BY <3>1, <3>3
    <3>5. upto \in Nat /\ upto <= Len(lines) /\ \A i \in 1 .. upto : i \in DOMAIN lines /\ ~(Min(bare) <= i)
      BY <1>1, <3>1, <3>2, <3>4
    <3> QED BY <3>2, <3>3, <3>5
  <2> QED BY <2>1, <2>2
<1> HIDE DEF bare, upto
<1>4. GatherPassed(w)
  BY <1>1, <1>3, GatherLinesDo
<1> HIDE DEF w
<1>5. /\ WorkOK(w) /\ Len(lines') = Len(lines) /\ transports' = transports
      /\ \A j \in DOMAIN lines : /\ SameObjects(lines[j], lines'[j])
                                 /\ Runs(lines'[j]) <=> Runs(lines[j])
  BY <1>2, <1>4 DEF GatherPassed, Done
<1>6. WorkOK(Work')
  <2>1. timers' \in Seq(Timers)
    BY <1>2, <1>5, WorkHas
  <2> QED BY <1>2, <1>5, <2>1, WorkSet
<1>7. lines' \in Seq(Line) /\ DOMAIN lines' = DOMAIN lines
  <2>1. lines' \in Seq(Line)
    BY <1>6, WorkNext
  <2> QED BY <1>1, <1>5, <2>1
<1>8. /\ Scalars' /\ \A d \in made' \cup {local'} : d.n <= Len(lines)
      /\ UNCHANGED <<usingBundle, answered, emitted, twice, unseen, iceGatheringState>>
  BY LocalSet
<1>9. \A j \in DOMAIN lines : /\ lines'[j].rejected = lines[j].rejected
                              /\ lines'[j].gatherer = lines[j].gatherer
                              /\ lines'[j].transport = lines[j].transport
                              /\ Runs(lines'[j]) <=> Runs(lines[j])
  BY <1>5 DEF SameObjects
<1>10. Media /\ answered \in Seq(BOOLEAN) /\ Len(answered) <= Len(lines)
  BY DEF EdgeInv, Media, Described, Scalars
<1>11. \A j \in DOMAIN answered : j \in DOMAIN lines /\ 1 \in DOMAIN lines
  BY <1>1, <1>10
<1>12. Described'
  <2>1. /\ \A i \in DOMAIN lines' : lines'[i].rejected => i \in DOMAIN answered /\ ~answered[i]
        /\ \A i \in DOMAIN lines' : Runs(lines'[i]) => i \in DOMAIN answered /\ answered[i]
    BY <1>7, <1>9, <1>10 DEF Media, Described
  <2>2. signalingState' = "have-remote-offer" =>
           /\ answered # <<>>
           /\ \A i \in DOMAIN answered :
                answered[i] /\ ~(usingBundle /\ i > 1) => lines'[i].gatherer # 0
    BY <1>2, <1>9, <1>10, <1>11 DEF Media, Described
  <2>3. usingBundle /\ answered # <<>> => answered[1]
    BY <1>10 DEF Media, Described
  <2> QED BY <1>5, <1>8, <1>10, <2>1, <2>2, <2>3 DEF Described
<1>13. BundleShares'
  BY <1>8, <1>9, <1>10, <1>11 DEF Media, BundleShares
<1>14. MediaOnStarted'
  <2> SUFFICES ASSUME signalingState' = "stable", NEW i \in DOMAIN lines', Runs(lines'[i])
               PROVE  transports'[lines'[i].transport].ice # "new"
    BY DEF MediaOnStarted, Runs
  <2>1. signalingState = "stable" /\ i \in DOMAIN lines /\ Runs(lines[i])
    BY <1>2, <1>7, <1>9
  <2>2. transports[lines[i].transport].ice # "new"
    BY <1>10, <2>1 DEF Media, MediaOnStarted, Runs
  <2> QED BY <1>5, <1>9, <2>1, <2>2
<1>15. Emission' \in Emissions
  <2>1. unseen' \in BOOLEAN
    BY <1>8 DEF EdgeInv, Emission, Emissions
  <2> QED BY <1>6, <1>8, <2>1, EmissionKept
<1> QED BY <1>6, <1>8, <1>12, <1>13, <1>14, <1>15 DEF EdgeInv, Media

LEMMA SetLocalAnswerInv ==
  ASSUME EdgeInv, NEW description \in made, setLocalDescription(description),
         description.type # "offer"
  PROVE  EdgeInv'
<1>0. SetLocalAnswer(description) /\ signalingState = "have-remote-offer"
  BY DEF setLocalDescription, isActionAllowedInSignalingState
<1>1. /\ WorkOK(Work) /\ lines \in Seq(Line)
      /\ answered \in Seq(BOOLEAN) /\ DOMAIN answered = 1 .. Len(answered) /\ Len(answered) \in Nat
  BY WorkNow DEF EdgeInv, Scalars
<1>2. /\ Len(answered) <= Len(lines) /\ answered # <<>> /\ (usingBundle => answered[1])
      /\ \A i \in DOMAIN lines : lines[i].rejected => i \in DOMAIN answered /\ ~answered[i]
      /\ \A i \in DOMAIN lines : Runs(lines[i]) => i \in DOMAIN answered /\ answered[i]
      /\ \A i \in DOMAIN answered : answered[i] /\ ~(usingBundle /\ i > 1) => lines[i].gatherer # 0
  BY <1>0 DEF EdgeInv, Media, Described
<1> DEFINE w == AnswerLines
<1>3. Done(w) /\ timers' = w.timers /\ signalingState' = "stable"
  BY <1>0 DEF SetLocalAnswer
<1>4. AnswerPassed(w, Len(answered))
  <2>1. \A i \in 1 .. Len(answered) : Answers(i) /\ ~(usingBundle /\ i > 1) => lines[i].gatherer # 0
    BY <1>1, <1>2 DEF Answers
  <2> QED BY <1>1, <1>2, <2>1, AnswerLinesDo
<1> HIDE DEF w
<1>5. /\ WorkOK(w) /\ Len(w.lines) = Len(lines)
      /\ \A j \in DOMAIN lines :
         /\ SameObjects(lines[j], w.lines[j])
         /\ Runs(w.lines[j]) => Runs(lines[j]) \/ (j \in 1 .. Len(answered) /\ Answers(j))
      /\ \A j \in 1 .. Len(answered) : AnswerDone(w, j)
  BY <1>4 DEF AnswerPassed
<1>6. w.lines \in Seq(Line) /\ DOMAIN w.lines = DOMAIN lines
  <2>1. w.lines \in Seq(Line)
    BY <1>5, WorkHas
  <2> QED BY <1>1, <1>5, <2>1
<1>7. lines' = w.lines /\ transports' = w.transports
  BY <1>3 DEF Done
<1>8. \A j \in DOMAIN answered : j \in DOMAIN lines /\ 1 \in DOMAIN lines /\ 1 \in DOMAIN answered
  BY <1>1, <1>2
<1>9. ASSUME NEW j \in DOMAIN lines, Runs(lines'[j])
      PROVE  j \in DOMAIN answered /\ answered[j] /\ Answers(j)
  <2>1. j \in DOMAIN answered /\ answered[j]
    BY <1>1, <1>2, <1>5, <1>7, <1>9 DEF Answers
  <2> QED BY <1>2, <2>1 DEF Answers
<1>10. \A j \in DOMAIN lines : /\ lines'[j].rejected = lines[j].rejected
                               /\ lines'[j].gatherer = lines[j].gatherer
                               /\ lines'[j].transport = lines[j].transport
  BY <1>5, <1>7 DEF SameObjects
<1>11. /\ Scalars' /\ \A d \in made' \cup {local'} : d.n <= Len(lines)
      /\ UNCHANGED <<usingBundle, answered, emitted, twice, unseen, iceGatheringState>>
  BY LocalSet
<1>12. Described'
  <2>2. \A i \in DOMAIN lines' : lines'[i].rejected => i \in DOMAIN answered /\ ~answered[i]
    BY <1>2, <1>6, <1>7, <1>10
  <2>3. \A i \in DOMAIN lines' : Runs(lines'[i]) => i \in DOMAIN answered /\ answered[i]
    BY <1>6, <1>7, <1>9
  <2>4. Len(lines') = Len(lines)
    BY <1>5, <1>7
  <2> QED BY <1>2, <1>3, <1>11, <2>2, <2>3, <2>4 DEF Described
<1>13. BundleShares'
  <2> SUFFICES ASSUME usingBundle, NEW i \in DOMAIN answered, ~lines'[i].rejected
               PROVE  /\ lines'[i].transport = lines'[1].transport
                      /\ lines'[i].gatherer \in {0, lines'[1].gatherer}
    BY <1>11 DEF BundleShares
  <2>1. i \in DOMAIN lines /\ 1 \in DOMAIN lines
    BY <1>8
  <2>2. lines[i].transport = lines[1].transport /\ lines[i].gatherer \in {0, lines[1].gatherer}
    BY <1>10, <2>1 DEF EdgeInv, Media, BundleShares
  <2> QED BY <1>10, <2>1, <2>2
<1>14. MediaOnStarted'
  <2> SUFFICES ASSUME NEW i \in DOMAIN lines', Runs(lines'[i])
               PROVE  transports'[lines'[i].transport].ice # "new"
    BY DEF MediaOnStarted, Runs
  <2>1. i \in DOMAIN lines /\ i \in DOMAIN answered /\ Answers(i)
    BY <1>6, <1>7, <1>9
  <2>2. CASE ~(usingBundle /\ i > 1)
    BY <1>1, <1>5, <1>7, <2>1, <2>2 DEF AnswerDone
  <2>3. CASE usingBundle /\ i > 1
    <3>1. 1 \in DOMAIN lines /\ 1 \in 1 .. Len(answered) /\ ~(1 > 1)
      BY <1>1, <1>8, <2>1
    <3>2. Answers(1)
      <4>1. answered[1] /\ ~lines[1].rejected
        BY <1>2, <2>3, <3>1
      <4> QED BY <4>1 DEF Answers
    <3>3. transports'[lines'[1].transport].ice # "new"
      BY <1>5, <1>7, <3>1, <3>2 DEF AnswerDone
    <3>4. lines[i].transport = lines[1].transport
      BY <2>1, <2>3 DEF Answers, EdgeInv, Media, BundleShares
    <3> QED BY <1>10, <2>1, <3>1, <3>3, <3>4
  <2> QED BY <2>2, <2>3
<1>15. WorkOK(Work')
  <2>1. timers' \in Seq(Timers)
    BY <1>3, <1>5, WorkHas
  <2> QED BY <1>3, <1>5, <2>1, WorkSet
<1>16. Emission' \in Emissions
  <2>1. unseen' \in BOOLEAN
    BY <1>11 DEF EdgeInv, Emission, Emissions
  <2> QED BY <1>15, <1>11, <2>1, EmissionKept
<1> QED BY <1>12, <1>13, <1>14, <1>15, <1>16, <1>11 DEF EdgeInv, Media

-----------------------------------------------------------------------------
(* setRemoteDescription                                                      *)
SectionOf(k, r, s, c, d, e) == [kind |-> k, rejected |-> r, sends |-> s, receives |-> c,
                                candidates |-> d, complete |-> e]
LEMMA SectionIs ==
  ASSUME NEW sec \in Section
  PROVE  SecOK(sec)
<1>1. ASSUME NEW k \in Kind, NEW r \in BOOLEAN, NEW s \in BOOLEAN, NEW c \in BOOLEAN,
             NEW d \in SUBSET {1, 2}, NEW e \in BOOLEAN, sec = SectionOf(k, r, s, c, d, e)
      PROVE  SecOK(sec)
  BY <1>1 DEF SecOK, SectionOf
<1> DEFINE gathering == focus = "gatherers"
           cands == IF gathering THEN {} ELSE {1}
<1>2. PICK k \in Kind :
        \/ sec = [SectionOf(k, FALSE, FALSE, TRUE, {}, FALSE) EXCEPT !.rejected = TRUE, !.receives = FALSE]
        \/ sec = SectionOf(k, FALSE, gathering, TRUE, cands, cands # {})
        \/ sec = SectionOf(k, FALSE, TRUE, TRUE, {}, FALSE)
  BY DEF Section, SectionOf
<1>3. CASE sec = [SectionOf(k, FALSE, FALSE, TRUE, {}, FALSE)
                    EXCEPT !.rejected = TRUE, !.receives = FALSE]
  <2>1. /\ sec.kind = k /\ sec.rejected = TRUE /\ sec.sends = FALSE /\ sec.receives = FALSE
        /\ sec.candidates = {} /\ sec.complete = FALSE
    BY <1>3 DEF SectionOf
  <2> QED BY <2>1 DEF SecOK
<1>4. {} \in SUBSET {1, 2} /\ {1} \in SUBSET {1, 2} /\ TRUE \in BOOLEAN /\ FALSE \in BOOLEAN
  OBVIOUS
<1>5. CASE sec = SectionOf(k, FALSE, TRUE, TRUE, {}, FALSE)
  BY <1>1, <1>4, <1>5
<1>6. CASE sec = SectionOf(k, FALSE, gathering, TRUE, cands, cands # {})
  <2>1. CASE gathering
    <3>1. gathering = TRUE /\ cands = {} /\ (cands # {}) = FALSE
      BY <2>1
    <3> HIDE DEF gathering, cands
    <3> QED BY <1>5, <1>6, <3>1
  <2>2. CASE ~gathering
    <3>1. gathering = FALSE /\ cands = {1} /\ (cands # {}) = TRUE
      BY <2>2
    <3> HIDE DEF gathering, cands
    <3> QED BY <1>1, <1>4, <1>6, <3>1
  <2> QED BY <2>1, <2>2
<1> QED BY <1>2, <1>3, <1>5, <1>6

(* A description covers the m-lines that were described before.              *)
Covering(type, secs, bundle) ==
  /\ SectionsOK(type, secs, bundle) /\ Led(Work, bundle)
  /\ Len(answered) <= Len(secs) /\ DOMAIN secs = 1 .. Len(secs)
  /\ \A i \in DOMAIN secs : secs[i].rejected \in BOOLEAN
LEMMA SectionsAre ==
  ASSUME EdgeInv, NEW type \in {"offer", "answer"}, NEW bundle, NEW secs \in Sections(type, bundle)
  PROVE  Covering(type, secs, bundle)
<1>1. /\ local.n \in 0 .. MaxLines /\ local.n <= Len(lines) /\ MaxLines \in Nat
      /\ answered \in Seq(BOOLEAN) /\ Len(answered) \in Nat
  BY BoundsAssumption DEF EdgeInv, Scalars, Media, Described
<1> DEFINE sized == {n \in 1 .. MaxLines : n >= Len(answered) /\ (type = "answer" => n = local.n)}
<1>2. /\ secs \in UNION {[1 .. n -> Section] : n \in sized}
      /\ bundle => ~secs[1].rejected /\ ~(lines # <<>> /\ lines[1].rejected)
  BY DEF Sections
<1>3. PICK n \in sized : secs \in [1 .. n -> Section]
  BY <1>2
<1>4. n \in 1 .. MaxLines /\ Len(answered) <= n /\ (type # "offer" => n <= Len(lines))
  BY <1>1
<1> HIDE DEF sized
<1>5. Len(secs) = n /\ DOMAIN secs = 1 .. n
  BY <1>3, <1>4
<1>6. \A i \in 1 .. n : SecOK(secs[i])
  BY <1>3, SectionIs
<1>7. \A i \in 1 .. n : secs[i].rejected \in BOOLEAN
  BY <1>6 DEF SecOK
<1>8. Led(Work, bundle)
  BY <1>2, WorkIs DEF Led
<1> QED BY <1>2, <1>4, <1>5, <1>6, <1>7, <1>8 DEF Covering, SectionsOK

(* What the call leaves: w is what the sections made.                        *)
Remote(type, secs, bundle, w) ==
  /\ Covering(type, secs, bundle) /\ Applied(w, Len(secs), type, secs, bundle)
  /\ type \in {"offer", "answer"} /\ bundle \in BOOLEAN /\ Done(w)
  /\ usingBundle' = bundle /\ remoteType' = type
  /\ answered' = [i \in DOMAIN secs |-> ~secs[i].rejected]
  /\ signalingState' = IF type = "offer" THEN "have-remote-offer" ELSE "stable"
  /\ late' = TRUE /\ unseen' \in BOOLEAN
  /\ UNCHANGED <<closed, local, made, needNegotiation, timers, emitted, twice, damaged,
                 iceGatheringState>>
LEMMA RemoteIs ==
  ASSUME EdgeInv, NEW type \in {"offer", "answer"}, NEW bundle \in BOOLEAN,
         NEW secs \in Sections(type, bundle), setRemoteDescription(type, secs, bundle)
  PROVE  \E w : Remote(type, secs, bundle, w)
<1>1. Covering(type, secs, bundle)
  BY SectionsAre
<1>2. PICK del : LET w == RemoteSections(type, secs, bundle, del = "yes")
                 IN Done(w) /\ unseen' = (unseen \/ JoinsLate(w))
  BY DEF setRemoteDescription
<1> DEFINE d == del = "yes"
           w == RemoteSections(type, secs, bundle, d)
<1>3. d \in BOOLEAN /\ WorkOK(Work) /\ SectionsOK(type, secs, bundle) /\ Led(Work, bundle)
  BY <1>1 DEF EdgeInv, Covering
<1>4. Done(w) /\ unseen' \in BOOLEAN
  BY <1>2
<1>5. Applied(w, Len(secs), type, secs, bundle)
  <2> HIDE DEF d
  <2> QED BY <1>3, RemoteSectionsDo
<1> HIDE DEF w
<1>6. /\ usingBundle' = bundle /\ remoteType' = type
      /\ answered' = [i \in DOMAIN secs |-> ~secs[i].rejected]
      /\ signalingState' = IF type = "offer" THEN "have-remote-offer" ELSE "stable"
      /\ late' = TRUE
      /\ UNCHANGED <<closed, local, made, needNegotiation, timers, emitted, twice, damaged,
                     iceGatheringState>>
  BY DEF setRemoteDescription, states
<1>7. Remote(type, secs, bundle, w)
  BY <1>1, <1>4, <1>5, <1>6 DEF Remote
<1> QED BY <1>7

LEMMA RemoteMedia ==
  ASSUME EdgeInv, NEW type, NEW secs, NEW bundle, NEW w, Remote(type, secs, bundle, w)
  PROVE  Media' /\ Scalars'
<1> DEFINE k == Len(secs)
<1>0. /\ Applied(w, k, type, secs, bundle) /\ SectionsOK(type, secs, bundle)
      /\ Len(answered) <= k /\ DOMAIN secs = 1 .. k /\ lines' = w.lines /\ transports' = w.transports
      /\ k \in 1 .. MaxLines /\ (bundle => ~secs[1].rejected) /\ MaxLines \in Nat
      /\ \A i \in DOMAIN secs : secs[i].rejected \in BOOLEAN
  BY BoundsAssumption DEF Remote, Covering, Done, SectionsOK
<1> HIDE DEF k
<1>1. /\ WorkOK(w) /\ Len(w.lines) = (IF k > Len(lines) THEN k ELSE Len(lines))
      /\ \A j \in DOMAIN lines : j > k => w.lines[j] = lines[j]
      /\ \A j \in 1 .. k : SectionDone(w, j, type, secs[j], bundle)
  BY <1>0 DEF Applied
<1>2. /\ lines \in Seq(Line) /\ w.lines \in Seq(Line) /\ answered \in Seq(BOOLEAN)
      /\ \A d \in made \cup {local} : d.n \in Nat
  BY <1>1, WorkHas, WorkNow DEF EdgeInv, Scalars
<1>3. /\ answered' \in Seq(BOOLEAN) /\ Len(answered') = k /\ DOMAIN answered' = 1 .. k
      /\ \A i \in 1 .. k : answered'[i] <=> ~secs[i].rejected
  <2>1. answered' = [i \in DOMAIN secs |-> ~secs[i].rejected]
    BY DEF Remote
  <2>2. answered' = [i \in 1 .. k |-> ~secs[i].rejected]
    BY <1>0, <2>1
  <2>3. answered' \in [1 .. k -> BOOLEAN]
    BY <1>0, <2>2
  <2>4. answered' \in Seq(BOOLEAN) /\ Len(answered') = k /\ DOMAIN answered' = 1 .. k
    BY <1>0, <2>3
  <2>5. \A i \in 1 .. k : answered'[i] = ~secs[i].rejected
    BY <2>2
  <2> QED BY <2>4, <2>5
<1>4. \A j \in DOMAIN lines' : j \in 1 .. k \/ (j \in DOMAIN lines /\ lines'[j] = lines[j] /\ j > k)
  BY <1>0, <1>1, <1>2
<1>5. /\ \A i \in DOMAIN lines : lines[i].rejected => i \in DOMAIN answered
      /\ \A i \in DOMAIN lines : Runs(lines[i]) => i \in DOMAIN answered
      /\ \A d \in made \cup {local} : d.n <= Len(lines)
  BY DEF EdgeInv, Media, Described
<1>6. \A i \in DOMAIN answered : ~(i > k)
  BY <1>0, <1>2
<1>7. ASSUME NEW j \in DOMAIN lines'
      PROVE  /\ lines'[j].rejected => j \in 1 .. k /\ secs[j].rejected
             /\ Runs(lines'[j]) => j \in 1 .. k /\ ~secs[j].rejected
  <2>1. CASE j \in 1 .. k
    <3>1. SectionDone(w, j, type, secs[j], bundle)
      BY <1>1, <2>1
    <3> QED BY <1>0, <2>1, <3>1 DEF SectionDone
  <2>2. CASE j \in DOMAIN lines /\ lines'[j] = lines[j] /\ j > k
    BY <1>5, <1>6, <2>2
  <2> QED BY <1>4, <2>1, <2>2
<1>8. /\ usingBundle' = bundle /\ local' = local /\ made' = made /\ bundle \in BOOLEAN
      /\ signalingState' = IF type = "offer" THEN "have-remote-offer" ELSE "stable"
  BY DEF Remote
<1>9. Described'
  <2>1. Len(lines') >= k /\ Len(lines') >= Len(lines) /\ Len(lines') \in Nat
    BY <1>0, <1>1, <1>2
  <2>2. answered' # <<>> /\ (bundle => answered'[1]) /\ 1 \in 1 .. k
    BY <1>0, <1>3
  <2>3. /\ \A i \in DOMAIN lines' : lines'[i].rejected => i \in DOMAIN answered' /\ ~answered'[i]
        /\ \A i \in DOMAIN lines' : Runs(lines'[i]) => i \in DOMAIN answered' /\ answered'[i]
    BY <1>3, <1>7
  <2>4. Len(lines) \in Nat
    BY <1>2
  <2>5. \A d \in made' \cup {local'} : d.n <= Len(lines')
    BY <1>2, <1>5, <1>8, <2>1, <2>4
  <2>6. ASSUME type = "offer", NEW i \in 1 .. k, answered'[i], ~(bundle /\ i > 1)
        PROVE  lines'[i].gatherer # 0
    <3>1. SectionDone(w, i, type, secs[i], bundle) /\ ~secs[i].rejected
      BY <1>1, <1>3, <2>6
    <3> QED BY <1>0, <2>6, <3>1 DEF SectionDone
  <2>7. Len(answered') <= Len(lines')
    BY <1>0, <1>3, <2>1
  <2>8. signalingState' = "have-remote-offer" => type = "offer"
    BY <1>8
  <2> QED BY <1>3, <1>8, <2>2, <2>3, <2>4, <2>5, <2>6, <2>7, <2>8 DEF Described
<1>10. BundleShares'
  <2> SUFFICES ASSUME bundle, NEW i \in 1 .. k, ~lines'[i].rejected
               PROVE  /\ lines'[i].transport = lines'[1].transport
                      /\ lines'[i].gatherer \in {0, lines'[1].gatherer}
    BY <1>3, <1>8 DEF BundleShares
  <2>1. SectionDone(w, i, type, secs[i], bundle)
    BY <1>1
  <2> QED BY <1>0, <2>1 DEF SectionDone
<1>11. MediaOnStarted'
  <2> SUFFICES ASSUME type # "offer", NEW i \in DOMAIN lines', Runs(lines'[i])
               PROVE  transports'[lines'[i].transport].ice # "new"
    BY <1>8 DEF MediaOnStarted, Runs
  <2>1. i \in 1 .. k /\ ~secs[i].rejected /\ 1 \in 1 .. k
    BY <1>0, <1>7
  <2>2. SectionDone(w, i, type, secs[i], bundle) /\ SectionDone(w, 1, type, secs[1], bundle)
    BY <1>1, <2>1
  <2>3. CASE ~(bundle /\ i > 1)
    BY <1>0, <2>1, <2>2, <2>3 DEF SectionDone
  <2>4. CASE bundle /\ i > 1
    <3>1. w.lines[i].transport = w.lines[1].transport
      BY <2>1, <2>2, <2>4 DEF SectionDone
    <3>2. ~(1 > 1)
      OBVIOUS
    <3>3. w.transports[w.lines[1].transport].ice # "new"
      BY <1>0, <2>2, <2>4, <3>2 DEF SectionDone
    <3> QED BY <1>0, <3>1, <3>3
  <2> QED BY <2>3, <2>4
<1>12. Scalars'
  <2>2. /\ type \in {"offer", "answer"} /\ bundle \in BOOLEAN
        /\ remoteType' = type /\ late' = TRUE /\ UNCHANGED <<closed, needNegotiation, damaged>>
    BY DEF Remote
  <2> QED BY <1>3, <1>8, <2>2 DEF EdgeInv, Scalars
<1> QED BY <1>9, <1>10, <1>11, <1>12 DEF Media

LEMMA RemoteInv ==
  ASSUME EdgeInv, NEW type, NEW secs, NEW bundle, NEW w, Remote(type, secs, bundle, w)
  PROVE  EdgeInv'
<1>1. Media' /\ Scalars'
  BY RemoteMedia
<1>2. WorkOK(w) /\ Done(w) /\ timers' = timers
  BY DEF Remote, Applied
<1>3. WorkOK(Work')
  <2>1. timers' \in Seq(Timers)
    BY <1>2, WorkNow DEF EdgeInv
  <2> QED BY <1>2, <2>1, WorkSet
<1>4. Emission' \in Emissions
  <2>1. UNCHANGED <<emitted, twice, iceGatheringState>> /\ unseen' \in BOOLEAN
    BY DEF Remote
  <2> QED BY <1>3, <2>1, EmissionKept
<1> QED BY <1>1, <1>3, <1>4 DEF EdgeInv

-----------------------------------------------------------------------------
(* The invariant of the connection                                           *)
LEMMA ScalarsKept ==
  ASSUME Scalars, signalingState' \in {signalingState, "closed"},
         UNCHANGED <<remoteType, answered, local, usingBundle, damaged>>,
         \A d \in made' : d \in made \/ d \in [type : {"offer", "answer"}, n : 0 .. MaxLines],
         {closed', needNegotiation', late'} \subseteq BOOLEAN
  PROVE  Scalars'
<1>1. \A d \in made : d \in [type : {"none", "offer", "answer"}, n : 0 .. MaxLines]
  BY DEF Scalars
<1>2. \A d \in made' : d \in [type : {"none", "offer", "answer"}, n : 0 .. MaxLines]
  BY <1>1
<1> QED BY <1>2 DEF Scalars

(* A step that is mild and leaves what was emitted.                          *)
LEMMA StillInv ==
  ASSUME EdgeInv, Mild, Scalars', UNCHANGED <<emitted, twice, iceGatheringState>>,
         unseen' \in {unseen, TRUE, FALSE}
  PROVE  EdgeInv'
<1>1. unseen \in BOOLEAN
  BY DEF EdgeInv, Emission, Emissions
<1>2. unseen' \in BOOLEAN
  BY <1>1
<1>3. Emission' \in Emissions
  BY <1>2, EmissionKept DEF Mild
<1> QED BY <1>3, MildInv

LEMMA NegotiationFlag ==
  ASSUME Scalars, MaybeFireNegotiationNeeded
  PROVE  needNegotiation' \in BOOLEAN
  BY DEF Scalars, MaybeFireNegotiationNeeded

LEMMA AddTrackInv ==
  ASSUME EdgeInv, NEW kind \in Kind, addTrack(kind)
  PROVE  EdgeInv'
<1>1. needNegotiation' \in BOOLEAN
  BY NegotiationFlag DEF addTrack, EdgeInv
<1>2. Scalars'
  <2>1. UNCHANGED <<signalingState, closed, usingBundle, local, remoteType, answered, made, late, damaged>>
    BY DEF addTrack, signalling, history
  <2> QED BY <1>1, <2>1, ScalarsKept DEF EdgeInv, Scalars
<1>3. UNCHANGED <<emitted, twice, iceGatheringState, unseen>>
  BY DEF addTrack, states, history
<1> QED BY <1>2, <1>3, AddTrackMild, StillInv

LEMMA RemoveTrackInv ==
  ASSUME EdgeInv, NEW i \in DOMAIN lines, removeTrack(i)
  PROVE  EdgeInv'
<1>1. needNegotiation' \in BOOLEAN
  BY NegotiationFlag DEF removeTrack, EdgeInv
<1>2. Scalars'
  <2>1. UNCHANGED <<signalingState, closed, usingBundle, local, remoteType, answered, made, late, damaged>>
    BY DEF removeTrack, signalling, history
  <2> QED BY <1>1, <2>1, ScalarsKept DEF EdgeInv, Scalars
<1>3. UNCHANGED <<emitted, twice, iceGatheringState, unseen>>
  BY DEF removeTrack, states, history
<1> QED BY <1>2, <1>3, RemoveTrackMild, StillInv

LEMMA CreateOfferInv ==
  ASSUME EdgeInv, NEW options, createOffer(options)
  PROVE  EdgeInv'
<1>1. Mild
  BY CreateOfferMild
<1>2. Len(lines') <= MaxLines /\ Len(lines') \in Nat
  BY <1>1, WorkNext DEF Mild
<1>3. made' \in {made, made \cup {[type |-> "offer", n |-> Len(lines')]}}
  BY DEF createOffer, Done
<1>4. \A d \in made' : d \in made \/ d \in [type : {"offer", "answer"}, n : 0 .. MaxLines]
  BY <1>2, <1>3, BoundsAssumption
<1>5. Scalars'
  <2>1. UNCHANGED <<signalingState, closed, usingBundle, local, remoteType, answered, late, damaged,
                    needNegotiation>>
    BY DEF createOffer, signalling, history, events
  <2> QED BY <1>4, <2>1, ScalarsKept DEF EdgeInv, Scalars
<1>6. UNCHANGED <<emitted, twice, iceGatheringState>> /\ unseen' \in {unseen, TRUE, FALSE}
  BY DEF createOffer, states, events
<1> QED BY <1>1, <1>5, <1>6, StillInv

LEMMA CreateAnswerInv ==
  ASSUME EdgeInv, createAnswer
  PROVE  EdgeInv'
<1>1. Len(answered) <= Len(lines) /\ Len(lines) <= MaxLines /\ Len(answered) \in Nat /\ Len(lines) \in Nat
  BY WorkNow DEF EdgeInv, Media, Described, Scalars
<1>2. made' = made \cup {[type |-> "answer", n |-> Len(answered)]}
  BY DEF createAnswer
<1>3. \A d \in made' : d \in made \/ d \in [type : {"offer", "answer"}, n : 0 .. MaxLines]
  BY <1>1, <1>2, BoundsAssumption
<1>4. Scalars'
  <2>1. UNCHANGED <<signalingState, closed, usingBundle, local, remoteType, answered, late, damaged,
                    needNegotiation>>
    BY DEF createAnswer, signalling, history, events
  <2> QED BY <1>3, <2>1, ScalarsKept DEF EdgeInv, Scalars
<1>5. UNCHANGED <<emitted, twice, iceGatheringState, unseen>>
  BY DEF createAnswer, states, events, history
<1> QED BY <1>4, <1>5, CreateAnswerMild, StillInv

LEMMA CloseInv ==
  ASSUME EdgeInv, close
  PROVE  EdgeInv'
<1>1. /\ UNCHANGED <<usingBundle, local, remoteType, answered, made, late, damaged, needNegotiation>>
      /\ signalingState' = "closed" /\ closed' = TRUE
  BY DEF close, history, events
<1>2. Scalars'
  BY <1>1, ScalarsKept DEF EdgeInv, Scalars
<1>3. UNCHANGED <<emitted, twice, iceGatheringState, unseen>>
  BY DEF close, states, events, history
<1> QED BY <1>2, <1>3, CloseMild, StillInv

(* Remote candidates, the late timer and the transports.                     *)
LEMMA TransportsInv ==
  ASSUME EdgeInv, \/ \E i \in 1 .. MaxLines : addIceCandidate(1, i)
                  \/ addEndOfCandidates \/ LateTimer \/ TransportStep \/ UNCHANGED edgeVars
  PROVE  EdgeInv'
<1>1. /\ UNCHANGED <<signalingState, closed, usingBundle, local, remoteType, answered, made, damaged,
                     needNegotiation, emitted, twice, iceGatheringState, unseen>>
      /\ late' \in {late, FALSE}
  BY DEF addIceCandidate, addEndOfCandidates, LateTimer, TransportStep, edgeVars, signalling, states, events,
         history
<1>2. Scalars'
  BY <1>1, ScalarsKept DEF EdgeInv, Scalars
<1>3. Mild
  BY IceCandidateMild, EndOfCandidatesMild, LateTimerMild, TransportStepMild, StutterMild
<1> QED BY <1>1, <1>2, <1>3, StillInv

(* What a gatherer finds and what a timer replays.                           *)
LEMMA GatherersInv ==
  ASSUME EdgeInv, \/ Timer
                  \/ \E g \in DOMAIN gatherers, n \in 0 .. MaxCandidates : LocalCandidate(g, n)
  PROVE  EdgeInv'
<1>1. /\ UNCHANGED <<signalingState, closed, usingBundle, local, remoteType, answered, made, late, damaged>>
      /\ needNegotiation' \in {needNegotiation, FALSE}
  BY DEF LocalCandidate, Timer, signalling
<1>2. Scalars'
  BY <1>1, ScalarsKept DEF EdgeInv, Scalars
<1>3. Mild /\ Emission' \in Emissions
  BY LocalCandidateInv, TimerInv
<1> QED BY <1>2, <1>3, MildInv

LEMMA EdgeStarts ==
  ASSUME EdgeInit
  PROVE  EdgeInv
<1>1. Scalars
  <2>1. 0 \in 0 .. MaxLines
    BY BoundsAssumption
  <2>2. NoDescription \in [type : {"none", "offer", "answer"}, n : 0 .. MaxLines]
    BY <2>1 DEF NoDescription
  <2>3. <<>> \in Seq(BOOLEAN)
    OBVIOUS
  <2> QED BY <2>2, <2>3 DEF EdgeInit, Scalars
<1>2. WorkOK(Work)
  BY BoundsAssumption DEF EdgeInit, Work, WorkOK, WorkType, Formed
<1>3. Media
  BY DEF EdgeInit, Media, Described, BundleShares, MediaOnStarted, NoDescription
<1>4. Emission \in Emissions
  <2>1. <<>> \in Seq(Gatherer) /\ {} \in SUBSET (Nat \X Nat)
    OBVIOUS
  <2>2. Emission = [gatherers |-> <<>>, emitted |-> {}, twice |-> {}, unseen |-> FALSE,
                    gathering |-> "new"]
    BY DEF EdgeInit, Emission
  <2> QED BY <2>1, <2>2 DEF Emissions
<1> QED BY <1>1, <1>2, <1>3, <1>4 DEF EdgeInv

LEMMA EdgeStep ==
  ASSUME EdgeInv, [EdgeNext]_edgeVars
  PROVE  EdgeInv'
<1>1. ASSUME NEW kind \in Kind, addTrack(kind) PROVE EdgeInv'
  BY <1>1, AddTrackInv
<1>2. ASSUME NEW i \in DOMAIN lines, removeTrack(i) PROVE EdgeInv'
  BY <1>2, RemoveTrackInv
<1>3. ASSUME NEW options \in Options, createOffer(options) PROVE EdgeInv'
  BY <1>3, CreateOfferInv
<1>4. CASE createAnswer
  BY <1>4, CreateAnswerInv
<1>5. ASSUME NEW description \in made, setLocalDescription(description) PROVE EdgeInv'
  BY <1>5, SetLocalOfferInv, SetLocalAnswerInv
<1>6. ASSUME NEW type \in {"offer", "answer"}, NEW bundle \in BOOLEAN, NEW sections \in Sections(type, bundle),
             setRemoteDescription(type, sections, bundle)
      PROVE  EdgeInv'
  <2>1. PICK w : Remote(type, sections, bundle, w)
    BY <1>6, RemoteIs
  <2> QED BY <2>1, RemoteInv
<1>7. CASE \/ \E i \in 1 .. MaxLines : addIceCandidate(1, i)
           \/ addEndOfCandidates \/ LateTimer \/ TransportStep \/ UNCHANGED edgeVars
  BY <1>7, TransportsInv
<1>8. CASE close
  BY <1>8, CloseInv
<1>9. CASE \/ Timer
           \/ \E g \in DOMAIN gatherers, n \in 0 .. MaxCandidates : LocalCandidate(g, n)
  BY <1>9, GatherersInv
<1> QED BY <1>1, <1>2, <1>3, <1>4, <1>5, <1>6, <1>7, <1>8, <1>9 DEF EdgeNext, Expected

-----------------------------------------------------------------------------
(* What the invariant says of a reachable state                              *)
LEMMA InvTypes ==
  ASSUME EdgeInv
  PROVE  EdgeTypeOK
<1>1. lines \in Seq(Line) /\ gatherers \in Seq(Gatherer) /\ transports \in Seq(Transport) /\ Len(lines) <= MaxLines
  BY DEF EdgeInv, WorkOK, WorkType, Work
<1>2. iceGatheringState \in {"new", "gathering", "complete"} /\ twice \subseteq Nat \X Nat /\ unseen \in BOOLEAN
  BY DEF EdgeInv, Emission, Emissions
<1> QED BY <1>1, <1>2 DEF EdgeInv, Scalars, EdgeTypeOK

-----------------------------------------------------------------------------
(* The theorems                                                              *)

(* Every variable of the connection keeps its type, through all calls, all   *)
(* callbacks and any number of m-lines.                                      *)
THEOREM EdgeTypes == EdgeSpec => []EdgeTypeOK
<1>1. EdgeInit => EdgeInv
  BY EdgeStarts
<1>2. EdgeInv /\ [EdgeNext]_edgeVars => EdgeInv'
  BY EdgeStep
<1>3. EdgeInv => EdgeTypeOK
  BY InvTypes
<1> QED
  BY <1>1, <1>2, <1>3, PTL DEF EdgeSpec

(* setRemoteDescription with a bundle leaves every accepted m-line it        *)
(* describes on the transports and the gatherer of the first, and no later   *)
(* call takes one away from them.                                            *)
THEOREM BundleAlwaysShares == EdgeSpec => []BundleShares
<1>1. EdgeInit => EdgeInv
  BY EdgeStarts
<1>2. EdgeInv /\ [EdgeNext]_edgeVars => EdgeInv'
  BY EdgeStep
<1>3. EdgeInv => BundleShares
  BY DEF EdgeInv, Media
<1> QED
  BY <1>1, <1>2, <1>3, PTL DEF EdgeSpec

(* In the stable state a sender or a receiver that _transceive started runs  *)
(* on a transport that setLocalDescription or setRemoteDescription started.  *)
THEOREM MediaAlwaysStarted == EdgeSpec => []MediaOnStarted
<1>1. EdgeInit => EdgeInv
  BY EdgeStarts
<1>2. EdgeInv /\ [EdgeNext]_edgeVars => EdgeInv'
  BY EdgeStep
<1>3. EdgeInv => MediaOnStarted
  BY DEF EdgeInv, Media
<1> QED
  BY <1>1, <1>2, <1>3, PTL DEF EdgeSpec

=============================================================================
