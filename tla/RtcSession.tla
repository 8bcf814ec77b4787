----------------------------- MODULE RtcSession -----------------------------
(* One WebRTC page of players/ (rtc_publisher, rtc_player, whip, whep) and   *)
(* the SDK object of js/srs.sdk.js behind it. Every click of its button      *)
(* closes the SDK object in the global `sdk`, makes a new one and calls      *)
(* publish() or play(), an async function that may be suspended at each      *)
(* await while the user clicks again. attached[s] says that self.pc of       *)
(* session s is not null; close() closes the peer connection and clears it   *)
(* in one go. A promise of the browser that was pending when its connection  *)
(* was closed may settle with an error or never.                             *)
EXTENDS Naturals, FiniteSets

CONSTANTS MaxSessions, \* bound: clicks of the button
          Kinds        \* which of the four pages is open

ASSUME MaxSessionsAssumption == MaxSessions \in Nat \ {0}
ASSUME KindsAssumption == Kinds \subseteq {"publish", "play", "whip", "whep"}

Session == 1 .. MaxSessions
Tracks == {"audio", "video"}
Awaits == {"media", "offer", "local", "request", "remote"}
Settled == {"resolved", "rejected"}

VARIABLES
  kind,     \* the page
  sdk,      \* the global: the session made last, 0 for null
  step,     \* where the session's async function is
  attached, \* sessions whose self.pc is not null
  camera,   \* local tracks the session got and that are running
  shown,    \* tracks of self.stream, the preview
  offered,  \* tracks announced by the offer
  answer,   \* what the server answered
  display   \* the session the page shows the id of

sessionVars == <<kind, sdk, step, attached, camera, shown, offered, answer, display>>

SessionTypeOK ==
  /\ kind \in Kinds
  /\ sdk \in 0 .. MaxSessions
  /\ step \in [Session -> Awaits \cup Settled \cup {"idle", "lost"}]
  /\ attached \subseteq Session
  /\ camera \in [Session -> SUBSET Tracks]
  /\ shown \in [Session -> SUBSET Tracks]
  /\ offered \in [Session -> SUBSET Tracks]
  /\ answer \in [Session -> {"none", "ok", "code", "http"}]
  /\ display \in 0 .. MaxSessions

SessionInit ==
  /\ kind \in Kinds
  /\ sdk = 0 /\ display = 0
  /\ step = [s \in Session |-> "idle"]
  /\ attached = {}
  /\ camera = [s \in Session |-> {}]
  /\ shown = [s \in Session |-> {}]
  /\ offered = [s \in Session |-> {}]
  /\ answer = [s \in Session |-> "none"]

Publishes == kind \in {"publish", "whip"}

Goto(s, w) == step' = [step EXCEPT ![s] = w]

(* The promise of s is rejected and the page's catch handler calls           *)
(* sdk.close() on whatever the global holds by then.                         *)
Reject(s) == Goto(s, "rejected") /\ attached' = attached \ {sdk}

(* The first await of the async function of each kind: getUserMedia when it  *)
(* publishes, createOffer when it plays. The function throws before it when  *)
(* the URL is not one of its kind (WHIP, WHEP) or when the page is neither   *)
(* HTTPS nor localhost (publishers).                                         *)
PublishBegin(refused) == IF refused THEN "rejected" ELSE "media"
PlayBegin(refused) == "offer"
WhipBegin(refused) == IF refused THEN "rejected" ELSE "media"
WhepBegin(refused) == IF refused THEN "rejected" ELSE "offer"

Begin(refused) ==
  CASE kind = "publish" -> PublishBegin(refused)
    [] kind = "play"    -> PlayBegin(refused)
    [] kind = "whip"    -> WhipBegin(refused)
    [] kind = "whep"    -> WhepBegin(refused)

(* Mutant: the former connection is not closed.                              *)
LeakyStart(refused) ==
  /\ sdk < MaxSessions
  /\ sdk' = sdk + 1
  /\ Goto(sdk + 1, Begin(refused))
  /\ attached' = attached \cup {sdk + 1}
  /\ UNCHANGED <<kind, camera, shown, offered, answer, display>>

(* A click: if (sdk) sdk.close(); sdk = new ...; sdk.publish(url) or play(). *)
StartSession(refused) ==
  /\ sdk < MaxSessions
  /\ sdk' = sdk + 1
  /\ Goto(sdk + 1, Begin(refused))
  /\ attached' = IF Begin(refused) = "rejected"
                   THEN attached \ {sdk}
                   ELSE (attached \ {sdk}) \cup {sdk + 1}
  /\ UNCHANGED <<kind, camera, shown, offered, answer, display>>

(* getUserMedia gave the tracks. They are added to self.pc, which is a       *)
(* TypeError when it was cleared meanwhile: the tracks then keep running.    *)
GotMedia(s) ==
  /\ step[s] = "media"
  /\ camera' = [camera EXCEPT ![s] = Tracks]
  /\ IF s \in attached
       THEN /\ shown' = [shown EXCEPT ![s] = Tracks]
            /\ Goto(s, "offer")
            /\ UNCHANGED attached
       ELSE Reject(s) /\ UNCHANGED shown
  /\ UNCHANGED <<kind, sdk, offered, answer, display>>

MediaDenied(s) ==
  /\ step[s] = "media"
  /\ Reject(s)
  /\ UNCHANGED <<kind, sdk, camera, shown, offered, answer, display>>

(* Mutant: only one track is announced.                                      *)
HalfOfferMade(s) ==
  /\ step[s] = "offer" /\ s \in attached
  /\ offered' = [offered EXCEPT ![s] = {"audio"}]
  /\ Goto(s, "local")
  /\ UNCHANGED <<kind, sdk, attached, camera, shown, answer, display>>

(* createOffer resolved: the offer announces the tracks added so far.        *)
OfferMade(s) ==
  /\ step[s] = "offer" /\ s \in attached
  /\ offered' = [offered EXCEPT ![s] = IF Publishes THEN camera[s] ELSE Tracks]
  /\ Goto(s, "local")
  /\ UNCHANGED <<kind, sdk, attached, camera, shown, answer, display>>

(* setLocalDescription resolved; the offer is posted to the server.          *)
LocalSet(s) ==
  /\ step[s] = "local" /\ s \in attached
  /\ Goto(s, "request")
  /\ UNCHANGED <<kind, sdk, attached, camera, shown, offered, answer, display>>

(* xhr.onload: a status other than 200 and 201 rejects; the JSON protocols   *)
(* also reject an error code. WHIP and WHEP test .code of a text, which is   *)
(* never set, and take an error body for the answer.                         *)
PublishAccepts(a) == a = "ok"
PlayAccepts(a) == a = "ok"
WhipAccepts(a) == a # "http"
WhepAccepts(a) == a # "http"

Accepts(a) ==
  CASE kind = "publish" -> PublishAccepts(a)
    [] kind = "play"    -> PlayAccepts(a)
    [] kind = "whip"    -> WhipAccepts(a)
    [] kind = "whep"    -> WhepAccepts(a)

(* Mutant: a refused offer is posted again.                                  *)
RetryAnswered(s, a) ==
  /\ step[s] = "request"
  /\ answer' = [answer EXCEPT ![s] = a]
  /\ Goto(s, IF Accepts(a) THEN "remote" ELSE "local")
  /\ UNCHANGED <<kind, sdk, attached, camera, shown, offered, display>>

(* An accepted answer goes to self.pc.setRemoteDescription, a TypeError when *)
(* self.pc was cleared during the request.                                   *)
Answered(s, a) ==
  /\ step[s] = "request"
  /\ answer' = [answer EXCEPT ![s] = a]
  /\ IF Accepts(a) /\ s \in attached
       THEN Goto(s, "remote") /\ UNCHANGED attached
       ELSE Reject(s)
  /\ UNCHANGED <<kind, sdk, camera, shown, offered, display>>

(* The request fails without an answer: there is no xhr.onerror, the promise *)
(* stays pending for ever. So it does when JSON.parse throws in xhr.onload,  *)
(* after the executor returned: a 200 whose body is no JSON.                 *)
RequestLost(s) ==
  /\ step[s] = "request"
  /\ Goto(s, "lost")
  /\ UNCHANGED <<kind, sdk, attached, camera, shown, offered, answer, display>>

(* Mutant: the function of a closed session goes on.                         *)
LateRemoteSet(s) ==
  /\ step[s] = "remote" /\ answer[s] = "ok"
  /\ Goto(s, "resolved")
  /\ display' = s
  /\ UNCHANGED <<kind, sdk, attached, camera, shown, offered, answer>>

(* setRemoteDescription resolved: the session is returned and the page shows *)
(* its id.                                                                   *)
RemoteSet(s) ==
  /\ step[s] = "remote" /\ s \in attached /\ answer[s] = "ok"
  /\ Goto(s, "resolved")
  /\ display' = s
  /\ UNCHANGED <<kind, sdk, attached, camera, shown, offered, answer>>

(* The browser rejects createOffer, setLocalDescription or                   *)
(* setRemoteDescription: always for an answer that is no SDP, and possibly   *)
(* when the connection was closed under it.                                  *)
NegotiationFailed(s) ==
  /\ step[s] \in {"offer", "local", "remote"}
  /\ Reject(s)
  /\ UNCHANGED <<kind, sdk, camera, shown, offered, answer, display>>

Settle(s) ==
  \/ OfferMade(s) \/ LocalSet(s) \/ RemoteSet(s) \/ NegotiationFailed(s)
  \/ \E a \in {"ok", "code", "http"} : Answered(s, a)
  \/ RequestLost(s)

SessionNext ==
  \/ \E refused \in BOOLEAN : StartSession(refused)
  \/ \E s \in Session : GotMedia(s) \/ MediaDenied(s) \/ Settle(s)

(* The browser settles the promises of an open connection and every request  *)
(* ends with an answer or an error; the user need not answer the prompt for  *)
(* the camera, nor click.                                                    *)
SessionFairness == \A s \in Session : WF_sessionVars(s \in attached /\ Settle(s))

SessionSpec == SessionInit /\ [][SessionNext]_sessionVars /\ SessionFairness

-----------------------------------------------------------------------------
phase == [s \in Session |->
  IF step[s] = "idle" THEN "new"
  ELSE IF s \notin attached THEN "closed"
  ELSE IF step[s] = "resolved" THEN "established" ELSE "connecting"]

Abstract == INSTANCE OneSession WITH Session <- Session, phase <- phase

(* Whatever the interleaving of clicks, promises and answers, the page keeps *)
(* at most one session, a click ends the former one, and no late answer or   *)
(* late camera revives a session that close() ended (self.pc = null).        *)
ImplementsOneSession == Abstract!Init /\ [][Abstract!Next]_phase

(* The session the user is in is the one whose id the page shows: the then   *)
(* handler of a former click never overwrites it.                            *)
DisplayFollows == sdk # 0 /\ sdk \in attached /\ step[sdk] = "resolved" => display = sdk

(* A publisher is established only with an offer that announced every track  *)
(* the user sees in the preview, and only when the server accepted it.       *)
OfferCarriesPreview ==
  \A s \in Session : step[s] = "resolved" =>
    /\ offered[s] = Tracks
    /\ Publishes => shown[s] = offered[s]
    /\ answer[s] = "ok"

(* Once the camera is granted, publish() and play() settle, unless the       *)
(* session is closed or the request ends without an answer.                  *)
Settles == \A s \in Session :
  step[s] \in {"offer", "local", "request", "remote"} ~>
    (step[s] \in Settled \cup {"lost"} \/ s \notin attached)

=============================================================================
