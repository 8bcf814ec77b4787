--------------------------- MODULE AdapterShims ---------------------------
(* Functions of the adapter that even out browsers: the largest message of a *)
(* data channel, the camera constraints of Chrome before 61, the receive     *)
(* options of an offer, the statistics of one track, the handlers of wrapped *)
(* events, errors of the camera, calls with callbacks. A result is computed  *)
(* from the whole input.                                                     *)
EXTENDS Integers, Sequences, SequencesExt, FiniteSets, FiniteSetsExt, Functions

-----------------------------------------------------------------------------
(* A description: its media sections, the version of the Firefox that wrote  *)
(* it (-1: another browser), its maximum message size (-1: none given). A    *)
(* browser: its version, whether it has an sctp of its own and the size that *)
(* has (external), and whether the connection is in Chrome's plan-b mode.    *)
Unlimited == 2147483637
NoSctp == -1
Infinite == -2
Null == "null"

sctpInDescription(d) ==
  \E i \in DOMAIN d.sections : d.sections[i] = [kind |-> "application", sctp |-> TRUE]

(* Where the page reads pc.sctp from: the adapter's getter, which is put     *)
(* into the prototype without a native one, and over it for plan-b.          *)
ShimmedSctp(me) ==
  ~me.native \/ (me.browser = "chrome" /\ me.version >= 76 /\ me.planB)

getCanSendMaxMessageSize(me, remoteFirefox) ==
  CASE me.browser # "firefox" -> 65536
    [] me.browser = "firefox" /\ me.version < 57 -> IF remoteFirefox = -1 THEN 16384 ELSE Unlimited
    [] me.browser = "firefox" /\ me.version \in 57 .. 59 -> IF me.version = 57 THEN 65535 ELSE 65536
    [] OTHER -> Unlimited

getMaxMessageSize(me, d) ==
  CASE d.mms # -1 -> d.mms
    [] d.mms = -1 /\ me.browser = "firefox" /\ d.firefox # -1 -> Unlimited
    [] OTHER -> IF me.browser = "firefox" /\ me.version = 57 THEN 65535 ELSE 65536

(* pc.sctp after setRemoteDescription(d); 0 stands for any size. The size    *)
(* that is worked out is only seen through the adapter's getter.             *)
SctpOf(me, d) ==
  LET can == getCanSendMaxMessageSize(me, d.firefox)
      remote == getMaxMessageSize(me, d)
  IN IF ~ShimmedSctp(me) THEN me.nativeSctp
     ELSE IF ~sctpInDescription(d) THEN NoSctp
     ELSE IF {can, remote} = {0} THEN Infinite
     ELSE IF 0 \in {can, remote} THEN Max({can, remote})
     ELSE Min({can, remote})

(* send() of a channel of this connection: refused before the browser sees it.*)
DcSendThrows(open, sctp, length) == open /\ sctp \notin {NoSctp, Infinite} /\ length > sctp

-----------------------------------------------------------------------------
(* Constraints: a function from names to what is asked, any part of which    *)
(* may be missing. A bare value is an ideal one. A value is a pair of its    *)
(* type and itself.                                                          *)
Missing == <<>>
Numeric(v) == v # Missing /\ v[1] = "number"
oldname_(prefix, name) == <<prefix, IF prefix = "" /\ name = "deviceId" THEN "sourceId" ELSE name>>

(* One key: an exact number is a minimum and a maximum; an ideal number is   *)
(* two wishes, one after the other.                                          *)
Normal(r) == IF Numeric(r.exact) THEN [r EXCEPT !.min = r.exact, !.max = r.exact] ELSE r
OptionalOf(name, r) ==
  IF r.ideal = Missing THEN <<>>
  ELSE IF Numeric(r.ideal) THEN <<<<oldname_("min", name), r.ideal>>, <<oldname_("max", name), r.ideal>>>>
  ELSE <<<<oldname_("", name), r.ideal>>>>
MandatoryOf(name, r) ==
  IF r.exact # Missing /\ ~Numeric(r.exact) THEN {<<oldname_("", name), r.exact>>}
  ELSE {<<oldname_(m, name), r[m]>> : m \in {x \in {"min", "max"} : r[x] # Missing}}

(* c.keys is the order of the keys of c.of, c.advanced a list of wishes.     *)
constraintsToChrome_(c) ==
  LET keys == SelectSeq(c.keys, LAMBDA k : k \notin {"require", "advanced", "mediaSource"}) IN
  [optional |-> FlattenSeq([i \in DOMAIN keys |-> OptionalOf(keys[i], Normal(c.of[keys[i]]))]) \o c.advanced,
   mandatory |-> UNION {MandatoryOf(keys[i], Normal(c.of[keys[i]])) : i \in DOMAIN keys}]

(* The camera for a facing mode: the first that has a word for it in its     *)
(* label, or, for the back one, the last camera. None: no constraint.        *)
Words(face) ==
  IF "environment" \in {face.exact, face.ideal} THEN {"back", "rear"}
  ELSE IF "user" \in {face.exact, face.ideal} THEN {"front"} ELSE {}
FacingDevice(face, devices) ==
  LET cams == SelectSeq(devices, LAMBDA d : d.kind = "videoinput")
      at == SelectInSeq(cams, LAMBDA d : d.label \cap Words(face) # {})
  IN IF at # 0 THEN cams[at].id
     ELSE IF cams # <<>> /\ "back" \in Words(face) THEN Last(cams).id ELSE Null

(* shimConstraints_ on a video constraint that only has a facing mode.       *)
shimConstraints_(face, devices, version) ==
  IF version >= 61 THEN [face |-> face, device |-> Null, exact |-> FALSE]
  ELSE IF Words(face) = {} THEN [face |-> face, device |-> Null, exact |-> FALSE]
  ELSE [face |-> Null, device |-> FacingDevice(face, devices), exact |-> face.exact # Null]

-----------------------------------------------------------------------------
(* createOffer({offerToReceiveAudio, offerToReceiveVideo}): only the first   *)
(* transceiver of a kind is looked at.                                       *)
NotReceiving(direction) ==
  CASE direction = "sendrecv" -> "sendonly"
    [] direction = "recvonly" -> "inactive"
    [] OTHER -> direction
OfferKind(ts, kind, option) ==
  LET first == SelectInSeq(ts, LAMBDA t : t.kind = kind) IN
  IF option = "false" /\ first # 0 THEN [ts EXCEPT ![first].direction = NotReceiving(@)]
  ELSE IF option = "true" /\ first = 0 THEN Append(ts, [kind |-> kind, direction |-> "sendrecv"])
  ELSE ts
CreateOfferLegacy(ts, options) ==
  OfferKind(OfferKind(ts, "audio", options.audio), "video", options.video)

-----------------------------------------------------------------------------
(* Statistics: objects by id, each with the ids it refers to.                *)
RECURSIVE walkStats(_, _, _)
walkStats(stats, id, seen) ==
  IF id \notin DOMAIN stats \/ id \in seen THEN seen
  ELSE FoldLeft(LAMBDA acc, r : walkStats(stats, r, acc), seen \cup {id}, stats[id].refs)

filterStats(stats, track, outbound) == \* track is not null here
  LET type == IF outbound THEN "outbound-rtp" ELSE "inbound-rtp"
      trackStats == {i \in DOMAIN stats : stats[i].type = "track" /\ stats[i].of = track}
      roots == {i \in DOMAIN stats : stats[i].type = type /\ stats[i].of \in trackStats}
  IN FoldSet(LAMBDA i, acc : walkStats(stats, i, acc), {}, roots)

(* getStats(track) of a connection, from the tracks of its senders and of    *)
(* its receivers: exactly one of them may have it, else there is no answer.  *)
TrackStats(stats, senderTracks, receiverTracks, track) ==
  LET n == Len(SelectSeq(senderTracks, LAMBDA t : t = track))
      m == Len(SelectSeq(receiverTracks, LAMBDA t : t = track))
  IN IF n + m # 1 THEN <<>> ELSE <<filterStats(stats, track, n = 1)>>

-----------------------------------------------------------------------------
(* A wrapped event: addEventListener remembers the wrapper under the text of *)
(* the callback, one map for all events of a connection, and                 *)
(* removeEventListener takes it from there: two callbacks with the same      *)
(* source, such as two closures of one function, share an entry. A callback  *)
(* is [text, id]; listeners are numbered; `on` is the on... property.        *)
NoCallback == [text |-> Null, id |-> 0]
NoListeners == [map |-> <<>>, active |-> {}, on |-> <<>>, next |-> 1]
AddListener(s, event, cb) ==
  [s EXCEPT !.map = [c \in DOMAIN @ \cup {cb.text} |-> IF c = cb.text THEN s.next ELSE @[c]],
            !.active = @ \cup {[event |-> event, cb |-> cb, id |-> s.next]},
            !.next = @ + 1]
RemoveListener(s, event, cb) ==
  IF cb.text \notin DOMAIN s.map THEN s
  ELSE [s EXCEPT !.map = Restrict(@, DOMAIN @ \ {cb.text}),
                 !.active = {l \in @ : l.event # event \/ l.id # s.map[cb.text]}]
SetOn(s, event, cb) ==
  LET old == event \in DOMAIN s.on
      t == IF old THEN [RemoveListener(s, event, s.on[event]) EXCEPT !.on = Restrict(@, DOMAIN @ \ {event})]
           ELSE s
  IN IF cb = NoCallback THEN t
     ELSE [AddListener(t, event, cb) EXCEPT !.on = [e \in DOMAIN @ \cup {event} |-> IF e = event THEN cb ELSE @[e]]]
Listener(s, op) ==
  CASE op.do = "add" -> AddListener(s, op.event, op.cb)
    [] op.do = "remove" -> RemoveListener(s, op.event, op.cb)
    [] op.do = "set" -> SetOn(s, op.event, op.cb)
wrapPeerConnectionEvent(ops) == FoldLeft(Listener, NoListeners, ops)

-----------------------------------------------------------------------------
(* getUserMedia. Chrome before 64 has error names of its own; a stream that  *)
(* lacks a kind that was asked for is stopped and refused.                   *)
shimError_(name, version) ==
  IF version >= 64 THEN name
  ELSE CASE name \in {"PermissionDeniedError", "PermissionDismissedError", "InvalidStateError",
                      "MediaDeviceFailedDueToShutdown", "MediaDeviceKillSwitchOn"} -> "NotAllowedError"
         [] name = "DevicesNotFoundError" -> "NotFoundError"
         [] name = "ConstraintNotSatisfiedError" -> "OverconstrainedError"
         [] name = "TrackStartError" -> "NotReadableError"
         [] name \in {"TabCaptureError", "ScreenCaptureError", "DeviceCaptureError"} -> "AbortError"
         [] OTHER -> name

getUserMedia(asked, native, version) ==
  CASE native.error # Null ->
         [error |-> shimError_(native.error, version), stream |-> {}, running |-> {}]
    [] native.error = Null /\ asked \ native.tracks # {} ->
         [error |-> "NotFoundError", stream |-> {}, running |-> {}]
    [] OTHER -> [error |-> Null, stream |-> native.tracks, running |-> native.tracks]

-----------------------------------------------------------------------------
(* Callbacks in place of promises. A call has those callbacks the page gave; *)
(* the result says which ran, how often, and how the returned promise        *)
(* settles. Edge takes either callback for the old form, Safari only a       *)
(* failure callback.                                                         *)
Ran(given, which) == [c \in {"success", "failure"} |-> IF c = which /\ c \in given THEN 1 ELSE 0]

EdgeCallbacks(given, outcome) ==
  IF given = {} THEN [ran |-> Ran({}, outcome), promise |-> outcome]
  ELSE [ran |-> Ran(given, outcome), promise |-> "success"]

withCallback(given, outcome) ==
  IF "failure" \notin given THEN [ran |-> Ran({}, outcome), promise |-> outcome]
  ELSE [ran |-> Ran(given, outcome), promise |-> "success"]

(* addIceCandidate with nothing, or with the empty candidate that ends them: *)
(* browsers that do not know it are not asked.                               *)
ChromeAddIceCandidate(candidate, given, version) ==
  CASE candidate = Null -> [native |-> FALSE, ran |-> Ran(given, "success")]
    [] candidate = "" /\ version < 78 -> [native |-> FALSE, ran |-> Ran({}, "success")]
    [] OTHER -> [native |-> TRUE, ran |-> Ran({}, "success")]

FirefoxAddIceCandidate(candidate, given, version) ==
  IF version < 68 THEN ChromeAddIceCandidate(candidate, given, 0)
  ELSE [native |-> TRUE, ran |-> Ran({}, "success")]

=============================================================================
