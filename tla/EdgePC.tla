------------------------------- MODULE EdgePC -------------------------------
(* The RTCPeerConnection that adapter.js builds on ORTC objects (its module  *)
(* rtcpeerconnection-shim), configured as the SDK does (no options, so no    *)
(* gatherer pool and no bundling until the peer asks for it). A track is     *)
(* named by its kind. A description is its type and its m-lines; texts, ids  *)
(* and codecs are left to SdpText. Every call and every callback runs to its *)
(* end; zero-delay timers fire in order, gatherers and transports report at  *)
(* any time. External: RTCIceGatherer, RTCIceTransport, RTCDtlsTransport.    *)
EXTENDS Naturals, FiniteSets, Sequences, SequencesExt

CONSTANTS MaxLines,      \* bound: m-lines
          MaxCandidates, \* bound: candidates a gatherer finds
          MaxCalls,      \* bound: calls of the application
          MaxTimers      \* bound: zero-delay timers pending

ASSUME BoundsAssumption ==
  {MaxLines, MaxCandidates, MaxCalls, MaxTimers} \subseteq Nat \ {0}

VARIABLES
  lines,      \* pc.transceivers
  gatherers, transports, \* the ORTC objects ever created
  signalingState, closed, usingBundle, needNegotiation,
  local,      \* _localDescription: its type and number of m-lines
  remoteType, \* the type of _remoteDescription
  answered,   \* m-lines of the remote description, rejected ones as FALSE
  made,       \* the descriptions createOffer and createAnswer gave the application
  iceGatheringState, iceConnectionState, connectionState,
  timers,     \* zero-delay timers, in order
  late,       \* the 4 s timer of setRemoteDescription is pending
  emitted,    \* icecandidate events dispatched: <<gatherer, n>>, or End for a null one
  twice,      \* the candidates dispatched a second time
  deletes,    \* whether delete removes a handler attribute of an ORTC object: found out
              \* when the first m-line joins a bundle
  damaged,    \* a setLocalDescription threw half way
  unseen,     \* an end came when bundling kept the m-lines from being looked at
  callCount,  \* calls so far
  focus       \* bound: whose events this behaviour has, the gatherers' or the transports'

objects == <<lines, gatherers, transports>>
signalling == <<signalingState, closed, usingBundle, local, remoteType, answered>>
states == <<iceGatheringState, iceConnectionState, connectionState>>
events == <<timers, late, emitted, twice>>
history == <<deletes, damaged, unseen, focus>>
edgeVars == <<objects, signalling, needNegotiation, made, states, events, history, callCount>>

Kind == {"audio", "video"}
End == <<0, 0>>
NoDescription == [type |-> "none", n |-> 0]
Event == (Nat \ {0}) \X (0 .. MaxCandidates) \* gatherer and candidate, 0 for its end

Line == [kind : Kind, rejected : BOOLEAN, track : BOOLEAN,
         sender : {"none", "idle", "sending"}, receiver : {"none", "idle", "receiving"},
         wantReceive : BOOLEAN, gatherer : Nat, transport : Nat,
         buffering : BOOLEAN, buffer : Seq(Event)] \* bufferedCandidateEvents is an array
Gatherer == [state : {"new", "gathering", "completed"},
             line : 0 .. MaxLines,    \* the m-line onlocalcandidate was made for
             listens : 0 .. MaxLines, \* the m-line whose bufferCandidates listens to it
             found : 0 .. MaxCandidates, done : BOOLEAN,
             cut : BOOLEAN] \* its handler was deleted, or the m-line it listens for replaced
Transport == [ice : {"new", "checking", "connected", "disconnected", "failed", "closed"},
              dtls : {"new", "connecting", "connected", "failed", "closed"},
              candidates : SUBSET {1, 2}, over : BOOLEAN, handled : BOOLEAN]

EdgeTypeOK ==
  /\ lines \in Seq(Line) /\ gatherers \in Seq(Gatherer) /\ transports \in Seq(Transport)
  /\ Len(lines) <= MaxLines
  /\ signalingState \in {"stable", "have-local-offer", "have-remote-offer", "closed"}
  /\ remoteType \in {"none", "offer", "answer"}
  /\ answered \in Seq(BOOLEAN)
  /\ made \cup {local} \subseteq [type : {"none", "offer", "answer"}, n : 0 .. MaxLines]
  /\ twice \subseteq Nat \X Nat
  /\ iceGatheringState \in {"new", "gathering", "complete"}
  /\ {closed, usingBundle, needNegotiation, late, damaged, unseen} \subseteq BOOLEAN

-----------------------------------------------------------------------------
(* Objects                                                                   *)
NewGatherer(i) == [state |-> "new", line |-> 0, listens |-> i, found |-> 0, done |-> FALSE,
                   cut |-> FALSE]
NewTransport == [ice |-> "new", dtls |-> "new", candidates |-> {}, over |-> FALSE,
                 handled |-> TRUE]
NewLine(kind, t) ==
  [kind |-> kind, rejected |-> FALSE, track |-> FALSE, sender |-> "none",
   receiver |-> "none", wantReceive |-> TRUE, gatherer |-> 0, transport |-> t,
   buffering |-> FALSE, buffer |-> <<>>]
RejectedLine(kind) == [NewLine(kind, 0) EXCEPT !.rejected = TRUE, !.wantReceive = FALSE]

(* An m-line comes to the first one's gatherer after that has ended.         *)
JoinsLate(w) == \E i \in DOMAIN w.lines : LET g == w.lines[i].gatherer IN
  /\ i > 1 /\ g = w.lines[1].gatherer /\ g \in DOMAIN gatherers /\ gatherers[g].done
  /\ i \in DOMAIN lines => lines[i].gatherer # g

(* What step makes of w, taken for 1, 2, ... n in this order.                *)
ForEach(step(_, _), w, n) ==
  LET after[i \in 0 .. n] == IF i = 0 THEN w ELSE step(after[i - 1], i)
  IN after[n]

Put(seq, i, e) == IF i > Len(seq) THEN Append(seq, e) ELSE [seq EXCEPT ![i] = e]

EdgeInit ==
  /\ lines = <<>> /\ gatherers = <<>> /\ transports = <<>>
  /\ signalingState = "stable" /\ closed = FALSE
  /\ usingBundle = FALSE /\ needNegotiation = FALSE
  /\ local = NoDescription /\ remoteType = "none" /\ answered = <<>> /\ made = {}
  /\ iceGatheringState = "new" /\ iceConnectionState = "new" /\ connectionState = "new"
  /\ timers = <<>> /\ late = FALSE
  /\ emitted = {} /\ twice = {}
  /\ deletes = "unknown" /\ damaged = FALSE /\ unseen = FALSE /\ callCount = 0
  /\ focus \in {"gatherers", "transports"}

(* What a description is applied to, one m-line after the other.             *)
Work == [lines |-> lines, gatherers |-> gatherers, transports |-> transports,
         timers |-> timers]
Done(w) == /\ lines' = w.lines /\ gatherers' = w.gatherers /\ transports' = w.transports

(* _createTransceiver at m-line i: the transports are those of the first     *)
(* m-line when bundling.                                                     *)
CreateTransceiver(w, i, kind, bundle) ==
  IF bundle /\ w.lines # <<>>
  THEN [w EXCEPT !.lines = Put(@, i, NewLine(kind, w.lines[1].transport))]
  ELSE [w EXCEPT !.transports = Append(@, NewTransport),
                 !.lines = Put(@, i, NewLine(kind, Len(w.transports) + 1))]

(* _createIceGatherer, when the m-line has none. The m-line that gets one of *)
(* its own buffers what it finds.                                            *)
CreateIceGatherer(w, i, bundle) ==
  IF w.lines[i].gatherer # 0 THEN w
  ELSE IF bundle /\ i > 1
       THEN [w EXCEPT !.lines[i].gatherer = w.lines[1].gatherer]
       ELSE [w EXCEPT !.gatherers = Append(@, NewGatherer(i)),
                      !.lines[i].gatherer = Len(w.gatherers) + 1,
                      !.lines[i].buffering = TRUE, !.lines[i].buffer = <<>>]

(* Mutant: what was found before is dropped.                                 *)
ForgetfulGather(w, i) ==
  LET g == w.lines[i].gatherer
  IN IF w.gatherers[g].line # 0 THEN w
     ELSE [w EXCEPT !.gatherers[g].line = i,
                    !.gatherers[g].listens = IF @ = i THEN 0 ELSE @,
                    !.lines[i].buffering = FALSE, !.lines[i].buffer = <<>>]

(* _gather: from now on events go to onlocalcandidate; those in the m-line's *)
(* buffer are replayed by a timer, which throws when there is no buffer. The *)
(* listener removed is this m-line's own.                                    *)
Gather(w, i) ==
  LET g == w.lines[i].gatherer
  IN IF w.gatherers[g].line # 0 THEN w
     ELSE [w EXCEPT !.gatherers[g].line = i,
                    !.gatherers[g].listens = IF @ = i THEN 0 ELSE @,
                    !.lines[i].buffering = FALSE, !.lines[i].buffer = <<>>,
                    !.timers = Append(@, [on |-> "flush", g |-> g,
                                          events |-> w.lines[i].buffer])]

(* Mutant: the m-line keeps its own transport.                               *)
HalfJoinBundle(w, i, del) == [w EXCEPT !.lines[i].gatherer = w.lines[1].gatherer]

(* _disposeIceAndDtlsTransports and the move to the objects of m-line 1.     *)
JoinBundle(w, i, del) ==
  LET l == w.lines[i]
      first == w.lines[1]
      gs == IF del /\ l.gatherer # 0
            THEN [w.gatherers EXCEPT ![l.gatherer].line = 0, ![l.gatherer].cut = TRUE] ELSE w.gatherers
      ts == IF del THEN [w.transports EXCEPT ![l.transport].handled = FALSE]
            ELSE w.transports
  IN [w EXCEPT !.gatherers = gs, !.transports = ts,
               !.lines[i].gatherer = first.gatherer,
               !.lines[i].transport = first.transport]

(* Mutant: the test for a new transport is inverted.                         *)
InvertedStart(w, i) ==
  [w EXCEPT !.transports[w.lines[i].transport].ice = IF @ = "new" THEN @ ELSE "checking"]

(* iceTransport.start and dtlsTransport.start, when they are new.            *)
Start(w, i) ==
  LET t == w.lines[i].transport
  IN [w EXCEPT !.transports[t].ice = IF @ = "new" THEN "checking" ELSE @,
               !.transports[t].dtls = IF @ = "new" THEN "connecting" ELSE @]

(* _transceive starts the sender and the receiver that are there.            *)
Transceive(w, i, send, receive) ==
  [w EXCEPT !.lines[i].sender = IF send /\ @ # "none" THEN "sending" ELSE @,
            !.lines[i].receiver = IF receive /\ @ # "none" THEN "receiving" ELSE @]

(* setRemoteCandidates or maybeAddCandidate, while the transport is new.     *)
AddCandidates(w, i, cands, all) ==
  LET t == w.lines[i].transport
  IN IF cands = {} \/ w.transports[t].ice # "new" THEN w
     ELSE [w EXCEPT !.transports[t].candidates = IF all THEN cands ELSE @ \cup cands,
                    !.transports[t].over = @ \/ all]

-----------------------------------------------------------------------------
(* A call of the application.                                                *)
AppCall == callCount < MaxCalls /\ callCount' = callCount + 1

(* _maybeFireNegotiationNeeded                                               *)
MaybeFireNegotiationNeeded ==
  IF signalingState = "stable" /\ ~needNegotiation
  THEN /\ needNegotiation' = TRUE
       /\ timers' = Append(timers, [on |-> "negotiationneeded"])
  ELSE UNCHANGED <<needNegotiation, timers>>

-----------------------------------------------------------------------------
(* Tracks                                                                    *)
addTrack(kind) ==
  /\ AppCall /\ ~closed /\ Len(timers) < MaxTimers
  /\ ~\E i \in DOMAIN lines : lines[i].track /\ lines[i].kind = kind
  /\ LET free == {i \in DOMAIN lines : lines[i].kind = kind}
         w == IF free # {} THEN Work
              ELSE CreateTransceiver(Work, Len(lines) + 1, kind, usingBundle)
         i == IF free # {} THEN Max(free) ELSE Len(lines) + 1
     IN /\ i <= MaxLines
        /\ Done([w EXCEPT !.lines[i].track = TRUE, !.lines[i].sender = "idle"])
  /\ MaybeFireNegotiationNeeded
  /\ UNCHANGED <<signalling, made, states, late, emitted, twice, history>>

removeTrack(i) ==
  /\ focus = "transports" /\ AppCall /\ ~closed /\ lines[i].sender # "none"
  /\ Len(timers) < MaxTimers
  /\ lines' = [lines EXCEPT ![i].sender = "none", ![i].track = FALSE]
  /\ MaybeFireNegotiationNeeded
  /\ UNCHANGED <<gatherers, transports, signalling, made, states, late, emitted, twice, history>>

-----------------------------------------------------------------------------
(* createOffer and createAnswer                                              *)
CountKind(ls, kind) == Cardinality({i \in DOMAIN ls : ls[i].kind = kind})

(* An m-line gets a gatherer, and loses wantReceive when there are more of   *)
(* its kind up to it than asked for.                                         *)
OfferLine(w, i, want) ==
  LET v == CreateIceGatherer(w, i, usingBundle)
      wanted == /\ v.lines[i].wantReceive
                /\ CountKind(SubSeq(v.lines, 1, i), v.lines[i].kind) <= want[v.lines[i].kind]
  IN [v EXCEPT !.lines[i].wantReceive = wanted,
               !.lines[i].receiver = IF wanted THEN "idle" ELSE @]
OfferLines(w, want) == ForEach(LAMBDA v, i : OfferLine(v, i, want), w, Len(w.lines))

(* The options name a number per kind (by default, the m-lines there are).   *)
(* Each call makes new receivers. An m-line the peer rejected has no         *)
(* transport to describe: the call throws when all this is done.             *)
createOffer(options) ==
  LET want == [k \in Kind |-> IF k \in DOMAIN options THEN options[k] ELSE CountKind(lines, k)]
      missing(w, k) == IF want[k] > CountKind(lines, k)
                       THEN CreateTransceiver(w, Len(w.lines) + 1, k, usingBundle) ELSE w
      w1 == missing(missing(Work, "audio"), "video")
      w2 == OfferLines(w1, want)
      throws == \E i \in DOMAIN lines : lines[i].rejected
  IN /\ AppCall /\ ~closed
     /\ Len(w1.lines) \in 1 .. MaxLines
     /\ Done(w2)
     /\ made' = IF throws THEN made ELSE made \cup {[type |-> "offer", n |-> Len(w2.lines)]}
     /\ unseen' = (unseen \/ JoinsLate(w2))
     /\ UNCHANGED <<signalling, needNegotiation, states, events, deletes, damaged, focus>>

createAnswer ==
  /\ ~closed /\ signalingState = "have-remote-offer" /\ UNCHANGED callCount
  /\ made' = made \cup {[type |-> "answer", n |-> Len(answered)]}
  /\ UNCHANGED <<objects, signalling, needNegotiation, states, events, history>>

-----------------------------------------------------------------------------
(* Descriptions                                                              *)
isActionAllowedInSignalingState(side, type, state) ==
  IF type = "offer" THEN state \in {"stable", "have-" \o side \o "-offer"}
  ELSE state = IF side = "local" THEN "have-remote-offer" ELSE "have-local-offer"

GatherLines(n) == ForEach(Gather, Work, n)

(* Gathering starts on all m-lines; one that was added after createOffer has *)
(* no gatherer, and the call throws there: the ones before it gather.        *)
SetLocalOffer(description) ==
  LET bare == {i \in DOMAIN lines : lines[i].gatherer = 0}
      upto == IF bare = {} THEN Len(lines) ELSE Min(bare) - 1
      w == GatherLines(upto)
  IN /\ Done(w) /\ timers' = w.timers
     /\ IF bare # {}
        THEN /\ damaged' = TRUE
             /\ UNCHANGED <<signalingState, local>>
        ELSE /\ local' = description
             /\ signalingState' = "have-local-offer"
             /\ UNCHANGED damaged

AnswerLine(w, i) ==
  IF ~answered[i] \/ w.lines[i].rejected THEN w
  ELSE LET v == IF usingBundle /\ i > 1 THEN w ELSE Start(Gather(w, i), i)
       IN Transceive(v, i, TRUE, FALSE)
AnswerLines == ForEach(AnswerLine, Work, Len(answered))

(* Mutant: the local description is not replaced.                            *)
StaleSetLocalAnswer(description) ==
  LET w == AnswerLines
  IN /\ Done(w) /\ timers' = w.timers
     /\ signalingState' = "stable"
     /\ UNCHANGED <<local, damaged>>

SetLocalAnswer(description) ==
  LET w == AnswerLines
  IN /\ Done(w) /\ timers' = w.timers
     /\ local' = description
     /\ signalingState' = "stable"
     /\ UNCHANGED damaged

(* Any description the application has, however old.                         *)
setLocalDescription(description) ==
  /\ AppCall /\ Len(timers) + MaxLines <= MaxTimers
  /\ ~closed /\ isActionAllowedInSignalingState("local", description.type, signalingState)
  /\ IF description.type = "offer" THEN SetLocalOffer(description) ELSE SetLocalAnswer(description)
  /\ UNCHANGED <<closed, usingBundle, remoteType, answered, made, needNegotiation, states, late, emitted,
                 twice, deletes, unseen, focus>>

(* When the object of m-line i is replaced, a listener that still buffers    *)
(* for it finds no buffer.                                                   *)
Replace(w, i) ==
  LET Unheard(g) == [g EXCEPT !.cut = g.cut \/ g.listens = i]
  IN [w EXCEPT !.gatherers = [g \in DOMAIN w.gatherers |-> Unheard(w.gatherers[g])]]

(* One section of a remote description: what setRemoteDescription does for   *)
(* both types, then for an offer and for an answer.                          *)
Prepare(w, i, sec, bundle, del) ==
  IF i > Len(w.lines) THEN w
  ELSE LET v == IF w.lines[i].rejected
                THEN CreateTransceiver(Replace(w, i), i, sec.kind, bundle) ELSE w
       IN IF bundle /\ i > 1 THEN JoinBundle(v, i, del) ELSE v

OfferSection(w0, i, sec, bundle) ==
  LET w1 == IF i > Len(w0.lines) THEN CreateTransceiver(w0, i, sec.kind, bundle) ELSE w0
      w2 == CreateIceGatherer(w1, i, bundle)
      w3 == AddCandidates(w2, i, sec.candidates, sec.complete /\ (~bundle \/ i = 1))
      isNewTrack == sec.sends /\ w3.lines[i].receiver = "none"
      w4 == [w3 EXCEPT !.lines[i].receiver = IF ~sec.sends THEN "none" ELSE IF isNewTrack THEN "idle" ELSE @]
  IN Transceive(w4, i, FALSE, isNewTrack)

AnswerSection(w0, i, sec, bundle) ==
  LET w1 == AddCandidates(w0, i, sec.candidates, sec.complete /\ (~bundle \/ i = 1))
      w2 == IF bundle /\ i > 1 THEN w1 ELSE Start(w1, i)
      w3 == Transceive(w2, i, sec.receives, sec.sends)
  IN IF sec.sends THEN w3 ELSE [w3 EXCEPT !.lines[i].receiver = "none"]

RemoteSection(w, i, type, sec, bundle, del) ==
  IF sec.rejected THEN [Replace(w, i) EXCEPT !.lines = Put(@, i, RejectedLine(sec.kind))]
  ELSE LET v == Prepare(w, i, sec, bundle, del)
       IN IF type = "offer" THEN OfferSection(v, i, sec, bundle)
                            ELSE AnswerSection(v, i, sec, bundle)
RemoteSections(type, sections, bundle, del) ==
  ForEach(LAMBDA w, i : RemoteSection(w, i, type, sections[i], bundle, del), Work, Len(sections))

(* The peer's descriptions are well formed: kinds as in the m-lines there    *)
(* are, as many sections as the offer it answers, which has not fewer than   *)
(* were there before. A bundle rests on its first m-line: that one is not    *)
(* rejected, nor one that was.                                               *)
Section ==
  LET described(k, sends, cands) == [kind |-> k, rejected |-> FALSE, sends |-> sends, receives |-> TRUE,
                                     candidates |-> cands, complete |-> cands # {}]
  IN UNION {{[described(k, FALSE, {}) EXCEPT !.rejected = TRUE, !.receives = FALSE],
             described(k, TRUE, {}),
             described(k, focus = "gatherers", IF focus = "gatherers" THEN {} ELSE {1})} : k \in Kind}

Sections(type, bundle) ==
  LET KindAt(i) == IF i <= Len(lines) THEN lines[i].kind
                   ELSE IF lines # <<>> /\ lines[1].kind = "video" THEN "audio"
                   ELSE IF i = 1 THEN "audio" ELSE "video"
      sized == {n \in 1 .. MaxLines : n >= Len(answered) /\ (type = "answer" => n = local.n)}
  IN {secs \in UNION {[1 .. n -> Section] : n \in sized} :
        /\ \A i \in DOMAIN secs : secs[i].kind = KindAt(i)
        /\ bundle => ~secs[1].rejected /\ ~(lines # <<>> /\ lines[1].rejected)}

(* The types of description the call takes now; it refuses the others.       *)
Expected ==
  {type \in {"offer", "answer"} :
     /\ callCount < MaxCalls /\ ~closed
     /\ isActionAllowedInSignalingState("remote", type, signalingState)}

setRemoteDescription(type, sections, bundle) ==
  /\ type \in Expected /\ AppCall
  /\ \E del \in IF bundle /\ Len(lines) > 1 THEN {"yes", "no"} ELSE {deletes} :
       LET w == RemoteSections(type, sections, bundle, del = "yes")
       IN /\ deletes \in {"unknown", del}
          /\ deletes' = del
          /\ Done(w)
          /\ unseen' = (unseen \/ JoinsLate(w))
  /\ usingBundle' = bundle
  /\ remoteType' = type
  /\ answered' = [i \in DOMAIN sections |-> ~sections[i].rejected]
  /\ signalingState' = IF type = "offer" THEN "have-remote-offer" ELSE "stable"
  /\ late' = TRUE
  /\ UNCHANGED <<closed, local, made, needNegotiation, states, timers, emitted, twice, damaged, focus>>

(* A candidate the transport has is refused; so is one for an m-line that is *)
(* not there. One for a rejected m-line is ignored.                          *)
addIceCandidate(c, i) ==
  /\ AppCall /\ focus = "transports" /\ remoteType # "none" /\ i \in DOMAIN lines /\ ~lines[i].rejected
  /\ LET t == lines[i].transport
     IN /\ i = 1 \/ t # lines[1].transport
        /\ c \notin transports[t].candidates
        /\ transports' = [transports EXCEPT ![t].candidates = @ \cup {c}]
  /\ UNCHANGED <<lines, gatherers, signalling, needNegotiation, made, states, events, history>>

(* No candidate: the end, for all m-lines or, when bundling, for the first.  *)
addEndOfCandidates ==
  /\ AppCall /\ focus = "transports" /\ remoteType # "none"
  /\ LET live == {i \in DOMAIN lines : ~lines[i].rejected}
         told == {lines[i].transport : i \in {j \in live : usingBundle => \A k \in live : j <= k}}
     IN transports' = [t \in DOMAIN transports |->
                         [transports[t] EXCEPT !.over = @ \/ t \in told]]
  /\ UNCHANGED <<lines, gatherers, signalling, needNegotiation, made, states, events, history>>

(* close: everything an m-line still refers to is stopped.                   *)
close ==
  /\ AppCall
  /\ closed' = TRUE
  /\ signalingState' = "closed"
  /\ LET used == {lines[i].transport : i \in DOMAIN lines}
     IN transports' = [t \in DOMAIN transports |->
          IF t \in used THEN [transports[t] EXCEPT !.ice = "closed", !.dtls = "closed"]
          ELSE transports[t]]
  /\ lines' = [i \in DOMAIN lines |->
       [lines[i] EXCEPT !.sender = IF @ = "none" THEN @ ELSE "idle",
                        !.receiver = IF @ = "none" THEN @ ELSE "idle"]]
  /\ UNCHANGED <<gatherers, usingBundle, local, remoteType, answered, needNegotiation, made, states, events,
                 history>>

-----------------------------------------------------------------------------
(* Gathering: onlocalcandidate as _gather sets it. n = 0 is the end. Without *)
(* a local description the handler throws after it has noted the state.      *)
(* What _dispatchEvent lets through.                                         *)
Dispatched(evs) == IF closed THEN {} ELSE evs

(* Mutant: the states are looked at before the event is noted.               *)
EarlyComplete(gs) == \A i \in DOMAIN lines :
  lines[i].gatherer # 0 /\ gatherers[lines[i].gatherer].state = "completed"

Complete(gs) == \A i \in DOMAIN lines :
  lines[i].gatherer # 0 /\ gs[lines[i].gatherer].state = "completed"

(* The handler of g, which an event of g comes to, or a buffered one, e.     *)
onlocalcandidate(s, g, e) ==
  LET ends == e[2] = 0
      gs == [s.gatherers EXCEPT ![g].state =
               IF ends THEN "completed" ELSE IF @ = "new" THEN "gathering" ELSE @]
      news == (IF ends THEN {} ELSE {e}) \cup (IF Complete(gs) THEN {End} ELSE {})
  IN IF usingBundle /\ s.gatherers[g].line > 1 THEN [s EXCEPT !.unseen = @ \/ ends]
     ELSE IF local = NoDescription THEN [s EXCEPT !.gatherers = gs]
     ELSE [s EXCEPT !.gatherers = gs,
                    !.emitted = @ \cup Dispatched(news),
                    !.twice = @ \cup ((Dispatched(news) \cap s.emitted) \ {End}),
                    !.gathering = IF Complete(gs) THEN "complete" ELSE "gathering"]

Emission == [gatherers |-> gatherers, emitted |-> emitted, twice |-> twice, unseen |-> unseen,
             gathering |-> iceGatheringState]
Emit(s) == /\ gatherers' = s.gatherers /\ iceGatheringState' = s.gathering
           /\ emitted' = s.emitted /\ twice' = s.twice /\ unseen' = s.unseen

(* bufferCandidates: the state, then the buffer the m-line has now, if any.  *)
bufferCandidates(gs, g, n) ==
  IF gs[g].listens = 0 THEN gs
  ELSE [gs EXCEPT ![g].state = IF n = 0 THEN "completed" ELSE "gathering"]
Buffered(ls, g, n) ==
  LET i == gatherers[g].listens
  IN IF i # 0 /\ ls[i].buffering THEN [ls EXCEPT ![i].buffer = Append(@, <<g, n>>)] ELSE ls

(* Bound: of the gatherers that no m-line has any more, the first reports.   *)
InUse(g) == \E i \in DOMAIN lines : lines[i].gatherer = g
Reports(g) == InUse(g) \/ \A h \in 1 .. g - 1 : InUse(h)

(* A gatherer finds a candidate or its end: the buffering listener takes it, *)
(* then the handler, as far as they are there.                               *)
LocalCandidate(g, n) ==
  LET gs == [gatherers EXCEPT ![g].found = IF n > 0 THEN n ELSE @, ![g].done = (n = 0)]
      s == [Emission EXCEPT !.gatherers = bufferCandidates(gs, g, n)]
  IN /\ focus = "gatherers" /\ Reports(g) /\ ~gatherers[g].done
     /\ n = 0 \/ n = gatherers[g].found + 1
     /\ lines' = Buffered(lines, g, n)
     /\ Emit(IF gatherers[g].line = 0 THEN s ELSE onlocalcandidate(s, g, <<g, n>>))
     /\ UNCHANGED <<transports, signalling, needNegotiation, made, iceConnectionState, connectionState,
                    timers, late, deletes, damaged, focus, callCount>>

Replay(g, evs) == ForEach(LAMBDA s, k : onlocalcandidate(s, g, evs[k]), Emission, Len(evs))

(* The next zero-delay timer. A replay through a handler that is gone, or    *)
(* without a local description, throws at its first event.                   *)
Timer ==
  /\ timers # <<>>
  /\ timers' = Tail(timers)
  /\ LET t == Head(timers)
     IN IF t.on = "flush"
        THEN LET play == IF gatherers[t.g].line = 0 THEN <<>>
                         ELSE IF local = NoDescription /\ t.events # <<>> THEN <<Head(t.events)>>
                         ELSE t.events
             IN /\ Emit(Replay(t.g, play))
                /\ UNCHANGED needNegotiation
        ELSE /\ needNegotiation' = FALSE
             /\ UNCHANGED <<gatherers, emitted, twice, unseen, iceGatheringState>>
  /\ UNCHANGED <<lines, transports, signalling, made, iceConnectionState, connectionState, late,
                 deletes, damaged, focus, callCount>>

(* Four seconds after setRemoteDescription: transports that were not started *)
(* and have candidates are told that no more come.                           *)
LateTimer ==
  /\ focus = "transports" /\ late
  /\ late' = FALSE
  /\ LET used == {lines[i].transport : i \in DOMAIN lines}
     IN transports' = [t \in DOMAIN transports |->
          [transports[t] EXCEPT !.over = @ \/ (t \in used /\ transports[t].ice = "new"
                                               /\ transports[t].candidates # {})]]
  /\ UNCHANGED <<lines, gatherers, signalling, needNegotiation, made, states, timers, emitted, twice,
                 history, callCount>>

-----------------------------------------------------------------------------
(* _updateIceConnectionState and _updateConnectionState                      *)
FirstOf(order, present) ==
  LET hits == SelectSeq(order, LAMBDA s : s \in present)
  IN IF hits = <<>> THEN "new" ELSE hits[1]

UsedBy(ts) == {ts[lines[i].transport] : i \in {j \in DOMAIN lines : lines[j].transport # 0}}

IceState(ts) == FirstOf(<<"failed", "checking", "disconnected", "new", "connected">>,
                        {t.ice : t \in UsedBy(ts)})
ConnState(ts) == FirstOf(<<"failed", "connecting", "disconnected", "new", "connected">>,
                         {t.ice : t \in UsedBy(ts)} \cup {t.dtls : t \in UsedBy(ts)})

Report(ts, names) ==
  /\ iceConnectionState' = IF "ice" \in names THEN IceState(ts) ELSE iceConnectionState
  /\ connectionState' = IF names # {} THEN ConnState(ts) ELSE connectionState

(* A transport changes its state and tells its handler, if it has one.       *)
IceTransportStateChange(t) ==
  LET from == transports[t].ice
  IN \E to \in IF from = "checking" THEN {"connected", "failed"} ELSE {} :
       LET ts == [transports EXCEPT ![t].ice = to]
       IN transports' = ts /\ Report(ts, IF transports[t].handled THEN {"ice"} ELSE {})

(* dtlsTransport.onerror sets the state itself.                              *)
DtlsTransportStateChange(t) ==
  /\ transports[t].dtls = "connecting" /\ transports[t].ice = "connected"
  /\ \E to \in {"connected", "failed"} :
       LET ts == [transports EXCEPT ![t].dtls = to]
       IN transports' = ts /\ Report(ts, IF transports[t].handled THEN {"dtls"} ELSE {})

TransportStep ==
  /\ focus = "transports"
  /\ \E t \in DOMAIN transports : IceTransportStateChange(t) \/ DtlsTransportStateChange(t)
  /\ UNCHANGED <<lines, gatherers, signalling, needNegotiation, made, iceGatheringState, events,
                 history, callCount>>

Options == {<<>>, [k \in Kind |-> 1]}

EdgeNext ==
  \/ \E kind \in Kind : addTrack(kind)
  \/ \E i \in DOMAIN lines : removeTrack(i)
  \/ \E options \in Options : createOffer(options)
  \/ createAnswer
  \/ \E description \in made : setLocalDescription(description)
  \/ \E type \in Expected, bundle \in BOOLEAN :
       \E sections \in Sections(type, bundle) : setRemoteDescription(type, sections, bundle)
  \/ \E i \in 1 .. MaxLines : addIceCandidate(1, i)
  \/ addEndOfCandidates \/ close
  \/ \E g \in DOMAIN gatherers, n \in 0 .. MaxCandidates : LocalCandidate(g, n)
  \/ Timer \/ LateTimer \/ TransportStep

EdgeSpec == EdgeInit /\ [][EdgeNext]_edgeVars

-----------------------------------------------------------------------------
(* In the stable state the two descriptions are an offer and its answer,     *)
(* through glare, refused calls, calls that threw half way and               *)
(* renegotiation in either direction; during a negotiation the offer is on   *)
(* the side the state names.                                                 *)
OfferAnswerPair ==
  /\ signalingState = "stable" =>
       {local.type, remoteType} \in {{"none"}, {"offer", "answer"}}
  /\ signalingState = "have-local-offer" => local.type = "offer"
  /\ signalingState = "have-remote-offer" => remoteType = "offer"

(* A candidate that the gatherer of an m-line finds before, during or after  *)
(* setLocalDescription reaches the application exactly once: it is emitted,  *)
(* waits in an m-line's buffer, or waits in the timer that replays one.      *)
(* Excepted are what a call that threw half way, a closed connection, a      *)
(* deleted handler and a replaced m-line leave behind (damaged, closed,      *)
(* cut), and, once a bundle was asked for, a handler of a later m-line.      *)
Replayed == UNION {ToSet(timers[k].events) : k \in {j \in DOMAIN timers : timers[j].on = "flush"}}
InBuffers == UNION {ToSet(lines[i].buffer) : i \in DOMAIN lines}
Served(g) == /\ InUse(g)
             /\ \/ gatherers[g].listens # 0 \/ gatherers[g].line = 1
                \/ gatherers[g].line # 0 /\ deletes = "unknown"
CandidatesOnce ==
  /\ \A e \in twice : gatherers[e[1]].cut
  /\ \A g \in DOMAIN gatherers :
       Served(g) /\ ~gatherers[g].cut /\ ~damaged /\ ~closed =>
         \A n \in 1 .. gatherers[g].found : <<g, n>> \in emitted \cup InBuffers \cup Replayed

(* When every m-line's gatherer has ended and nothing is left to replay,     *)
(* gathering is reported complete, bundled or not, in any order of calls,    *)
(* ends and replays; unless an m-line is rejected, a call threw half way, or *)
(* an end went unseen: it came to an m-line outside the bundle asked for, or *)
(* before an m-line came to the first gatherer, and nobody looks again.      *)
GatheringCompletes ==
  (/\ lines # <<>> /\ ~damaged /\ ~closed /\ ~unseen
   /\ \A k \in DOMAIN timers : timers[k].on # "flush"
   /\ \A i \in DOMAIN lines :
        /\ ~lines[i].rejected /\ lines[i].gatherer # 0
        /\ gatherers[lines[i].gatherer].done /\ ~gatherers[lines[i].gatherer].cut
        /\ gatherers[lines[i].gatherer].line # 0)
  => iceGatheringState = "complete"

(* With bundling, m-lines the peer has described share the transports of the *)
(* first, however they came about: added before or after, described, dropped *)
(* and used again.                                                           *)
BundleShares ==
  usingBundle => \A i \in DOMAIN answered :
    ~lines[i].rejected => /\ lines[i].transport = lines[1].transport
                          /\ lines[i].gatherer \in {0, lines[1].gatherer}

(* A transport that sends or receives was started, and a sender or receiver  *)
(* never runs on a transport nobody started once the state is stable.        *)
MediaOnStarted ==
  signalingState = "stable" => \A i \in DOMAIN lines :
    lines[i].sender = "sending" \/ lines[i].receiver = "receiving"
      => transports[lines[i].transport].ice # "new"

=============================================================================
