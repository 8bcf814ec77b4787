--------------------------- MODULE RemoteEvents ---------------------------
(* Events the adapter makes up because the browser does not fire them:       *)
(* addstream from the track events of Safari, track from the addstream       *)
(* events of old Chrome, connectionstatechange from the ICE state. Each      *)
(* watches a native event through a listener of its own, which the           *)
(* descriptions install; here one of the three shims is at work.             *)
EXTENDS Naturals, FiniteSets

CONSTANTS RemoteStreams, RemoteTracks, Handlers, MaxPolys \* bound: listeners

ASSUME RemoteAssumption == MaxPolys \in Nat \ {0}

VARIABLES
  shim,      \* "addstream", "track" or "connection"
  described, \* setRemoteDescription was called
  polys, remembered, \* listeners the shim has on the native event; one is remembered
  handler,   \* the page's onaddstream
  remote,    \* _remoteStreams; in old Chrome: the streams listened to
  came,      \* what the browser delivered: <<stream, track>>
  told,      \* how often each stream, or track, was announced
  ice, last, seen \* iceConnectionState, _lastConnectionState, the page's last event

remoteVars == <<shim, described, polys, remembered, handler, remote, came, told, ice, last, seen>>
streamEvents == <<polys, remembered, handler, remote, came, told>>

None == "none"
Things == RemoteStreams \cup RemoteTracks

RemoteInit ==
  /\ shim \in {"addstream", "track", "connection"}
  /\ described = FALSE /\ polys = 0 /\ remembered = FALSE
  /\ handler = None /\ remote = {} /\ came = {}
  /\ told = [x \in Things |-> 0]
  /\ ice = "new" /\ last = "undefined" /\ seen = "new"

-----------------------------------------------------------------------------
(* onaddstream = f: the remembered listener goes only with an old handler.   *)
SetOnAddStream(f) ==
  LET kept == IF handler # None /\ remembered THEN polys - 1 ELSE polys IN
  /\ shim = "addstream" /\ kept < MaxPolys
  /\ handler' = f
  /\ polys' = kept + 1 /\ remembered' = TRUE
  /\ UNCHANGED <<shim, described, remote, came, told, ice, last, seen>>

(* The description installs the listener once.                               *)
SetRemoteDescription ==
  /\ described' = TRUE
  /\ remembered' = TRUE
  /\ polys' = IF remembered THEN polys ELSE polys + 1
  /\ UNCHANGED <<shim, handler, remote, came, told, ice, last, seen>>

(* Mutant: every listener announces the stream.                              *)
EchoTrackEvent(S, t) ==
  /\ shim = "addstream" /\ described
  /\ <<S, t>> \notin came
  /\ came' = came \cup {<<S, t>>}
  /\ IF S \in remote THEN UNCHANGED <<remote, told>>
     ELSE remote' = remote \cup {S} /\ told' = [told EXCEPT ![S] = @ + polys]
  /\ UNCHANGED <<shim, described, polys, remembered, handler, ice, last, seen>>

(* Safari: a track of the stream S arrives. Each listener runs; the first    *)
(* one lists a new stream and announces it, the others find it listed.       *)
TrackEvent(S, t) ==
  /\ shim = "addstream" /\ described
  /\ <<S, t>> \notin came
  /\ came' = came \cup {<<S, t>>}
  /\ remote' = IF polys > 0 THEN remote \cup {S} ELSE remote
  /\ told' = IF polys > 0 /\ S \notin remote THEN [told EXCEPT ![S] = @ + 1] ELSE told
  /\ UNCHANGED <<shim, described, polys, remembered, handler, ice, last, seen>>

(* Old Chrome: a stream arrives with the tracks T. All are announced, and    *)
(* the stream is listened to for more.                                       *)
AddStreamEvent(S, T) ==
  /\ shim = "track" /\ described
  /\ ~\E t \in RemoteTracks : <<S, t>> \in came
  /\ \A t \in T : \A U \in RemoteStreams : <<U, t>> \notin came
  /\ came' = came \cup {<<S, t>> : t \in T}
  /\ remote' = remote \cup {S}
  /\ told' = [x \in Things |-> IF x \in T THEN told[x] + polys ELSE told[x]]
  /\ UNCHANGED <<shim, described, polys, remembered, handler, ice, last, seen>>

AddTrackEvent(S, t) ==
  /\ shim = "track" /\ described
  /\ \E u \in RemoteTracks : <<S, u>> \in came
  /\ \A U \in RemoteStreams : <<U, t>> \notin came
  /\ came' = came \cup {<<S, t>>}
  /\ told' = IF S \in remote THEN [told EXCEPT ![t] = @ + 1] ELSE told
  /\ UNCHANGED <<shim, described, polys, remembered, handler, remote, ice, last, seen>>

-----------------------------------------------------------------------------
connectionStateOf(i) ==
  CASE i = "completed" -> "connected"
    [] i = "checking" -> "connecting"
    [] OTHER -> i

IceNext(i) ==
  CASE i = "new" -> {"checking"}
    [] i = "checking" -> {"connected", "failed"}
    [] i = "connected" -> {"completed", "disconnected"}
    [] i = "completed" -> {"connected", "disconnected"}
    [] i = "disconnected" -> {"checking", "connected", "failed"}
    [] OTHER -> {"checking"}

(* The browser changes the ICE state, after a description.                   *)
IceStateChange ==
  /\ shim = "connection" /\ described
  /\ \E i \in IceNext(ice) :
       /\ ice' = i
       /\ last' = IF remembered THEN connectionStateOf(i) ELSE last
       /\ seen' = IF remembered /\ last # connectionStateOf(i) THEN connectionStateOf(i) ELSE seen
  /\ UNCHANGED <<shim, described, streamEvents>>

RemoteNext ==
  \/ SetRemoteDescription \/ IceStateChange
  \/ \E f \in Handlers \cup {None} : SetOnAddStream(f)
  \/ \E S \in RemoteStreams, t \in RemoteTracks : TrackEvent(S, t) \/ AddTrackEvent(S, t)
  \/ \E S \in RemoteStreams, T \in SUBSET RemoteTracks \ {{}} : AddStreamEvent(S, T)

-----------------------------------------------------------------------------
(* Whatever the order of descriptions, handlers and media: in Safari every   *)
(* stream that came is listed and was announced exactly once, also when the  *)
(* shim listens several times; in old Chrome every track was announced       *)
(* exactly once, whether it came with its stream or later; and the           *)
(* connection state the page was last told is the present one.               *)
RemoteAnnounced ==
  /\ shim = "addstream" =>
       /\ remote = {c[1] : c \in came}
       /\ \A S \in RemoteStreams : told[S] = IF S \in remote THEN 1 ELSE 0
  /\ shim = "track" =>
       \A t \in RemoteTracks : told[t] = IF \E c \in came : c[2] = t THEN 1 ELSE 0
  /\ shim = "connection" => seen = connectionStateOf(ice)

=============================================================================
