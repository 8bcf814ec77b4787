--------------------------- MODULE LocalStreams ---------------------------
(* Which local streams a connection sends, as the adapter keeps account of   *)
(* them in three browsers: Chrome before 65 ("old"), where every stream of   *)
(* the page is replaced by an internal one and senders are made up; Chrome   *)
(* since 65, where streams are listed beside the browser's senders; Safari,  *)
(* where a list is added. The connection is open and the senders handed to   *)
(* removeTrack are its own. A stream is the set of its tracks. What the      *)
(* adapter refuses by throwing before it changed anything is a guard.        *)
EXTENDS Naturals, Sequences, FiniteSets, Functions

CONSTANTS Streams,    \* the page's streams
          InternalIds, \* ids of internal streams: random, so that one nobody holds may come again
          MaxSenders  \* bound: senders of a connection

NoStream == {}
NoTrack == [track |-> "null"]

ASSUME StreamsAssumption ==
  /\ MaxSenders \in Nat
  /\ \A S \in Streams : IsFiniteSet(S) /\ S # {}
  /\ \A S, T \in Streams : S # T => S \cap T = {}
  /\ NoTrack \notin UNION Streams

VARIABLES
  browser,
  internal, reverse, \* old Chrome: _streams (stream -> id), _reverseStreams (id -> stream)
  content,  \* tracks of the internal streams
  attached, \* the internal streams the browser sends
  dtmf,     \* _senders: the tracks that have one
  stable,   \* signalingState is stable
  queued,   \* a negotiationneeded event is to be fired
  needed, offered, \* the page heard negotiationneeded since the last offer; that offer
  swallowed, \* history: an event was swallowed since the last offer
  senders,  \* getSenders() of the other browsers, in order
  shimmed,  \* Chrome: _shimmedLocalStreams (stream -> senders)
  reused,   \* streams addStream sent through senders that existed before
  listed    \* Safari: _localStreams

eventVars == <<stable, queued, needed, swallowed>>
legacyVars == <<internal, reverse, content, attached, dtmf, eventVars, offered>>
nativeVars == <<senders, shimmed, reused, listed>>
streamVars == <<browser, legacyVars, nativeVars>>

Tracks == UNION Streams
Without(f, S) == Restrict(f, DOMAIN f \ S)
With(f, x, y) == [z \in DOMAIN f \cup {x} |-> IF z = x THEN y ELSE f[z]]

StreamsInit ==
  /\ browser \in {"old", "chrome", "safari"}
  /\ internal = <<>> /\ reverse = <<>> /\ content = <<>>
  /\ attached = {} /\ dtmf = {}
  /\ stable = TRUE /\ queued = FALSE /\ needed = FALSE /\ swallowed = FALSE /\ offered = {}
  /\ senders = <<>> /\ shimmed = <<>> /\ reused = {} /\ listed = {}

-----------------------------------------------------------------------------
(* Chrome before 65. negotiationneeded reaches the page's listener: outside  *)
(* the stable state fixNegotiationNeeded swallows it, and nothing fires it   *)
(* again.                                                                    *)
Dispatch == /\ needed' = (needed \/ stable)
            /\ swallowed' = (swallowed \/ ~stable)

(* The browser fires it after addStream and removeStream, a promise after    *)
(* addTrack: later, in the state of that time.                               *)
OldNegotiationNeeded ==
  /\ queued /\ queued' = FALSE
  /\ Dispatch
  /\ UNCHANGED <<internal, reverse, content, attached, dtmf, stable, offered, nativeVars>>

(* External: a description was set, by either side.                          *)
OldSignaling ==
  /\ stable' = ~stable
  /\ UNCHANGED <<internal, reverse, content, attached, dtmf, queued, needed, swallowed, offered, nativeVars>>

(* The made up senders, one for each track.                                  *)
SendersWith(T) == dtmf' = dtmf \cup T
SendersWithout(T) == dtmf' = dtmf \ T

(* A new internal stream with the tracks T stands for S.                     *)
NewStream(S, T) ==
  \E n \in InternalIds \ DOMAIN reverse :
    /\ internal' = With(internal, S, n)
    /\ reverse' = With(reverse, n, S)
    /\ content' = With(content, n, T)
    /\ attached' = attached \cup {n}

OldAddStream(S) ==
  /\ S \cap dtmf = {}
  /\ NewStream(S, S)
  /\ SendersWith(S)
  /\ queued' = TRUE
  /\ UNCHANGED <<stable, needed, swallowed, offered, nativeVars>>

(* addTrack needs the stream. A track of a known stream joins its internal   *)
(* one, and negotiationneeded is fired by hand, by a promise.                *)
OldAddTrack(t, S) ==
  /\ t \in S /\ t \notin dtmf
  /\ IF S \in DOMAIN internal
     THEN /\ content' = [content EXCEPT ![internal[S]] = @ \cup {t}]
          /\ UNCHANGED <<internal, reverse, attached>>
     ELSE NewStream(S, {t})
  /\ SendersWith({t})
  /\ queued' = TRUE
  /\ UNCHANGED <<stable, needed, swallowed, offered, nativeVars>>

OldDrop(S) ==
  LET ns == {internal[s] : s \in {S} \cap DOMAIN internal} IN
  /\ attached' = attached \ ns
  /\ reverse' = Without(reverse, ns)
  /\ content' = Without(content, ns)
  /\ internal' = Without(internal, {S})
  /\ SendersWithout(S)
  /\ queued' = (queued \/ ns # {})

OldRemoveStream(S) == OldDrop(S) /\ UNCHANGED <<stable, needed, swallowed, offered, nativeVars>>

(* removeTrack looks for the internal stream of the sender's track; with its *)
(* last track the stream goes. It dispatches negotiationneeded itself.       *)
OldRemoveTrack(t) ==
  /\ t \in dtmf
  /\ \E S \in DOMAIN internal :
       /\ t \in content[internal[S]]
       /\ IF content[internal[S]] = {t} THEN OldDrop(reverse[internal[S]])
          ELSE /\ content' = [content EXCEPT ![internal[S]] = @ \ {t}]
               /\ SendersWithout({t})
               /\ UNCHANGED <<internal, reverse, attached, queued>>
  /\ Dispatch
  /\ UNCHANGED <<stable, offered, nativeVars>>

(* The streams a description names, one pair for each track: internal ids    *)
(* become the page's and back.                                               *)
NativeDescription == UNION {{<<n, t>> : t \in content[n]} : n \in attached}
replaceInternalStreamId(sdp) ==
  LET pageStream(id) == {S \in Range(reverse) : internal[S] = id} IN
  {<<IF pageStream(p[1]) # {} THEN CHOOSE S \in pageStream(p[1]) : TRUE ELSE p[1], p[2]>> : p \in sdp}
replaceExternalStreamId(sdp) ==
  {<<IF p[1] \in Range(reverse) THEN internal[p[1]] ELSE p[1], p[2]>> : p \in sdp}

(* createOffer, createAnswer and localDescription.                           *)
OldCreateOffer ==
  /\ offered' = replaceInternalStreamId(NativeDescription)
  /\ needed' = FALSE /\ swallowed' = FALSE
  /\ UNCHANGED <<internal, reverse, content, attached, dtmf, stable, queued, nativeVars>>

getLocalStreams ==
  CASE browser = "old" -> {reverse[n] : n \in attached}
    [] browser = "chrome" -> DOMAIN shimmed
    [] browser = "safari" -> listed

-----------------------------------------------------------------------------
(* The browsers with senders of their own. A sender that never sent may be   *)
(* taken again for another track of its kind, else a new one is made: via    *)
(* tells which one sends each track of T for the stream S.                   *)
Active(t) == \E i \in DOMAIN senders : senders[i].track = t
Reusable == {i \in DOMAIN senders : senders[i].track = NoTrack /\ ~senders[i].sent}
Vias(T) ==
  LET n == Len(senders) IN
  {f \in [T -> Reusable \cup (n + 1 .. MaxSenders)] :
     /\ \A t, u \in T : f[t] = f[u] => t = u
     /\ \A i \in n + 1 .. MaxSenders : i \in Range(f) => \A j \in n + 1 .. i : j \in Range(f)}
NativeAdd(via, S) ==
  senders' = [i \in DOMAIN senders \cup Range(via) |->
                IF i \in Range(via)
                THEN [track |-> CHOOSE t \in DOMAIN via : via[t] = i, stream |-> S, sent |-> FALSE]
                ELSE senders[i]]
NativeRemove(which) ==
  senders' = [i \in DOMAIN senders |->
                IF i \in which THEN [senders[i] EXCEPT !.track = NoTrack, !.stream = NoStream]
                ELSE senders[i]]
Sending(S) == {i \in DOMAIN senders : senders[i].track \in S}

(* A negotiation ends: the senders with a track have sent.                   *)
Negotiated ==
  /\ senders' = [i \in DOMAIN senders |->
                   [senders[i] EXCEPT !.sent = @ \/ senders[i].track # NoTrack]]
  /\ UNCHANGED <<shimmed, reused, listed, legacyVars>>

ChromeAddTrack(t, S) ==
  /\ ~Active(t)
  /\ \E via \in Vias({t}) :
       /\ NativeAdd(via, S)
       /\ shimmed' = IF S = NoStream THEN shimmed
                     ELSE IF S \in DOMAIN shimmed THEN [shimmed EXCEPT ![S] = @ \cup {via[t]}]
                     ELSE With(shimmed, S, {via[t]})
  /\ UNCHANGED <<reused, listed, legacyVars>>

(* addStream lists the senders that were not there before.                   *)
ChromeAddStream(S) ==
  /\ \A t \in S : ~Active(t)
  /\ \E via \in Vias(S) :
       /\ NativeAdd(via, S)
       /\ shimmed' = With(shimmed, S, Range(via) \ DOMAIN senders)
       /\ reused' = IF Range(via) \cap DOMAIN senders = {} THEN reused ELSE reused \cup {S}
  /\ UNCHANGED <<listed, legacyVars>>

ChromeRemoveStream(S) ==
  /\ shimmed' = Without(shimmed, {S})
  /\ reused' = reused \ {S}
  /\ NativeRemove(Sending(S))
  /\ UNCHANGED <<listed, legacyVars>>

(* Mutant: a stream without senders stays listed.                            *)
KeptRemoveTrack(i) ==
  /\ shimmed' = [S \in DOMAIN shimmed |-> shimmed[S] \ {i}]
  /\ NativeRemove({i})
  /\ UNCHANGED <<reused, listed, legacyVars>>

(* removeTrack strikes the sender out everywhere, and every stream that then *)
(* has none.                                                                 *)
ChromeRemoveTrack(i) ==
  /\ shimmed' = [S \in {U \in DOMAIN shimmed : shimmed[U] \ {i} # {}} |-> shimmed[S] \ {i}]
  /\ NativeRemove({i})
  /\ UNCHANGED <<reused, listed, legacyVars>>

(* Safari lists the stream first; the browser refuses a track that is sent.  *)
SafariAddTrack(t, S) ==
  /\ listed' = IF S = NoStream THEN listed ELSE listed \cup {S}
  /\ IF Active(t) THEN UNCHANGED senders ELSE \E via \in Vias({t}) : NativeAdd(via, S)
  /\ UNCHANGED <<shimmed, reused, legacyVars>>

(* The tracks before the first refused one are added.                        *)
SafariAddStream(S) ==
  LET new == {t \in S : ~Active(t)} IN
  /\ listed' = listed \cup {S}
  /\ \E T \in SUBSET new, via \in UNION {Vias(U) : U \in SUBSET new} :
       DOMAIN via = T /\ (new = S => T = S) /\ NativeAdd(via, S)
  /\ UNCHANGED <<shimmed, reused, legacyVars>>

SafariRemoveStream(S) ==
  /\ S \in listed
  /\ listed' = listed \ {S}
  /\ NativeRemove(Sending(S))
  /\ UNCHANGED <<shimmed, reused, legacyVars>>

SafariRemoveTrack(i) ==
  /\ NativeRemove({i})
  /\ UNCHANGED <<shimmed, reused, listed, legacyVars>>

-----------------------------------------------------------------------------
StreamsNext ==
  /\ UNCHANGED browser
  /\ \/ /\ browser = "old"
        /\ \/ \E S \in Streams : OldAddStream(S)
           \/ \E S \in Streams, t \in Tracks : OldAddTrack(t, S)
           \/ \E S \in Streams : OldRemoveStream(S)
           \/ \E t \in Tracks : OldRemoveTrack(t)
           \/ OldCreateOffer \/ OldNegotiationNeeded \/ OldSignaling
     \/ browser # "old" /\ Negotiated
     \/ /\ browser = "chrome"
        /\ \/ \E S \in Streams, t \in Tracks : t \in S /\ \E U \in {S, NoStream} : ChromeAddTrack(t, U)
           \/ \E S \in Streams : ChromeAddStream(S)
           \/ \E S \in Streams : ChromeRemoveStream(S)
           \/ \E i \in DOMAIN senders : ChromeRemoveTrack(i)
     \/ /\ browser = "safari"
        /\ \/ \E S \in Streams, t \in Tracks : t \in S /\ \E U \in {S, NoStream} : SafariAddTrack(t, U)
           \/ \E S \in Streams : SafariAddStream(S)
           \/ \E S \in Streams : SafariRemoveStream(S)
           \/ \E i \in DOMAIN senders : SafariRemoveTrack(i)

-----------------------------------------------------------------------------
(* getLocalStreams tells what is sent, after any sequence of adding and      *)
(* removing: a stream with a sender is listed, and in Chrome a listed stream *)
(* has a sender, except where addStream found senders it did not know to be  *)
(* its own. In old Chrome the two maps are inverse to each other, the made   *)
(* up senders are the tracks really attached, a description names the page's *)
(* streams and is translated back to the same one, and whenever the last     *)
(* offer no longer holds a new negotiation was asked for, is about to be, or *)
(* the event that asks for it came outside the stable state, where the       *)
(* adapter loses it.                                                         *)
StreamsMatch ==
  LET sent == {senders[i].stream : i \in Sending(Tracks)} \ {NoStream} IN
  /\ browser = "old" =>
       /\ DOMAIN reverse = Range(internal) /\ attached = DOMAIN reverse
       /\ \A S \in DOMAIN internal : reverse[internal[S]] = S
       /\ dtmf = UNION Range(content)
       /\ LET page == replaceInternalStreamId(NativeDescription) IN
          /\ page = {p \in getLocalStreams \X dtmf : p[2] \in p[1]}
          /\ replaceExternalStreamId(page) = NativeDescription
          /\ offered # page => needed \/ queued \/ swallowed
  /\ browser = "chrome" => sent \ reused = getLocalStreams \ reused
  /\ browser = "safari" => sent \subseteq getLocalStreams

=============================================================================
