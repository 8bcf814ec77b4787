------------------------------ MODULE RtcProofs ------------------------------
(* Proofs about the WebRTC pages, for any number of clicks, participants and *)
(* events. A page implements OneSession, and the facts that rests on. In the *)
(* room demo nobody waits on a signalling object that close() ended, and no  *)
(* participant that publishes is left without a player.                      *)
EXTENDS RtcSession, RtcRoom, TLAPS

-----------------------------------------------------------------------------
(* The sessions of a page                                                    *)

(* Why a page has one session: only the session in the global `sdk` can have *)
(* a peer connection, and no session beyond it has begun.                    *)
OnlyCurrent ==
  /\ attached \subseteq {sdk}
  /\ \A s \in Session : sdk < s => step[s] = "idle"

(* What publish() and play() have done by the time they wait at each step.   *)
Progress ==
  \A s \in Session :
    /\ step[s] = "offer" /\ Publishes => camera[s] = Tracks /\ shown[s] = Tracks
    /\ step[s] \in {"local", "request", "remote", "resolved"} =>
         offered[s] = Tracks /\ (Publishes => shown[s] = Tracks)
    /\ step[s] = "resolved" => answer[s] = "ok"

SessionInv == SessionTypeOK /\ OnlyCurrent /\ DisplayFollows /\ Progress

(* Each page suspends its function first at one of these awaits; only the    *)
(* pages that do not publish start with createOffer.                         *)
LEMMA BeginIs ==
  ASSUME kind \in Kinds, NEW refused \in BOOLEAN
  PROVE  /\ Begin(refused) \in {"media", "offer", "rejected"}
         /\ Begin(refused) = "offer" => ~Publishes
<1> USE KindsAssumption DEF Begin, PublishBegin, PlayBegin, WhipBegin, WhepBegin, Publishes
<1>1. CASE kind = "publish"
  BY <1>1
<1>2. CASE kind = "play"
  BY <1>2
<1>3. CASE kind = "whip"
  BY <1>3
<1>4. CASE kind = "whep"
  BY <1>4
<1> QED
  BY <1>1, <1>2, <1>3, <1>4

(* A page that was just loaded has no session.                               *)
LEMMA SessionsBegin == SessionInit => SessionInv
<1> SUFFICES ASSUME SessionInit PROVE SessionInv
  OBVIOUS
<1> USE MaxSessionsAssumption DEF SessionInit, Session
<1>1. SessionTypeOK
  BY DEF SessionTypeOK, Awaits, Settled
<1>2. OnlyCurrent /\ DisplayFollows
  BY DEF OnlyCurrent, DisplayFollows
<1>3. Progress
  BY DEF Progress
<1> QED
  BY <1>1, <1>2, <1>3 DEF SessionInv

(* A click keeps the invariant: the former connection is closed and the new  *)
(* session is still at its first await.                                      *)
LEMMA StartKeeps ==
  ASSUME SessionInv, NEW refused \in BOOLEAN, StartSession(refused)
  PROVE  SessionInv'
<1> USE MaxSessionsAssumption DEF Session
<1> DEFINE n == sdk + 1
           b == Begin(refused)
<1>1. kind \in Kinds /\ sdk \in Nat /\ n \in Session /\ sdk # n
  BY DEF SessionInv, SessionTypeOK, StartSession
<1>2. b \in {"media", "offer", "rejected"} /\ (b = "offer" => ~Publishes)
  BY <1>1, BeginIs
<1>3. /\ sdk' = n /\ step' = [step EXCEPT ![n] = b]
      /\ attached' \subseteq {n}
      /\ UNCHANGED <<kind, camera, shown, offered, answer, display>>
  BY <1>1 DEF StartSession, Goto, SessionInv, OnlyCurrent
<1> HIDE DEF n, b
<1>4. SessionTypeOK'
  <2>1. n \in 0 .. MaxSessions
    BY <1>1
  <2>2. step' \in [Session -> Awaits \cup Settled \cup {"idle", "lost"}]
    BY <1>1, <1>2, <1>3 DEF SessionInv, SessionTypeOK, Awaits, Settled
  <2> QED
    BY <1>1, <1>3, <2>1, <2>2 DEF SessionInv, SessionTypeOK
<1>5. OnlyCurrent'
  BY <1>1, <1>3 DEF SessionInv, SessionTypeOK, OnlyCurrent, n
<1>6. DisplayFollows'
  BY <1>1, <1>2, <1>3 DEF SessionInv, SessionTypeOK, DisplayFollows
<1>7. Progress'
  <2>1. \A s \in Session : step'[s] = IF s = n THEN b ELSE step[s]
    BY <1>1, <1>3 DEF SessionInv, SessionTypeOK
  <2>2. Publishes' = Publishes
    BY <1>3 DEF Publishes
  <2> QED
    BY <1>2, <1>3, <2>1, <2>2 DEF SessionInv, Progress
<1> QED
  BY <1>4, <1>5, <1>6, <1>7 DEF SessionInv

(* A failure of any session, with the catch handler that closes the current  *)
(* one, keeps the invariant whatever else the step recorded.                 *)
LEMMA RejectKeeps ==
  ASSUME SessionInv, NEW s \in Session, step[s] # "idle", Reject(s),
         UNCHANGED <<kind, sdk, offered, display>>,
         camera' \in [Session -> SUBSET Tracks],
         UNCHANGED shown,
         answer' \in [Session -> {"none", "ok", "code", "http"}],
         \A t \in Session \ {s} : camera'[t] = camera[t] /\ answer'[t] = answer[t]
  PROVE  SessionInv'
<1>1. /\ step' = [step EXCEPT ![s] = "rejected"]
      /\ attached' \subseteq attached
      /\ step \in [Session -> Awaits \cup Settled \cup {"idle", "lost"}]
  BY DEF Reject, Goto, SessionInv, SessionTypeOK
<1>2. SessionTypeOK'
  BY <1>1 DEF SessionInv, SessionTypeOK, Awaits, Settled
<1>3. OnlyCurrent'
  BY <1>1 DEF SessionInv, SessionTypeOK, OnlyCurrent
<1>4. DisplayFollows'
  BY <1>1 DEF SessionInv, SessionTypeOK, DisplayFollows, Session
<1>5. Progress'
  BY <1>1 DEF SessionInv, SessionTypeOK, Progress, Publishes
<1> QED
  BY <1>2, <1>3, <1>4, <1>5 DEF SessionInv

(* Every step of the page, the browser and the server keeps the invariant.   *)
LEMMA SessionStep == SessionInv /\ [SessionNext]_sessionVars => SessionInv'
<1> SUFFICES ASSUME SessionInv, [SessionNext]_sessionVars PROVE SessionInv'
  OBVIOUS
<1>t. /\ step \in [Session -> Awaits \cup Settled \cup {"idle", "lost"}]
      /\ camera \in [Session -> SUBSET Tracks] /\ shown \in [Session -> SUBSET Tracks]
      /\ offered \in [Session -> SUBSET Tracks]
      /\ answer \in [Session -> {"none", "ok", "code", "http"}]
  BY DEF SessionInv, SessionTypeOK
<1>1. CASE UNCHANGED sessionVars
  BY <1>1 DEF sessionVars, SessionInv, SessionTypeOK, OnlyCurrent, DisplayFollows, Progress, Publishes
<1>2. ASSUME NEW refused \in BOOLEAN, StartSession(refused) PROVE SessionInv'
  BY <1>2, StartKeeps
<1>3. ASSUME NEW s \in Session, GotMedia(s) PROVE SessionInv'
  <2>1. CASE s \in attached
    <3>1. /\ step[s] = "media"
          /\ camera' = [camera EXCEPT ![s] = Tracks]
          /\ shown' = [shown EXCEPT ![s] = Tracks]
          /\ step' = [step EXCEPT ![s] = "offer"]
          /\ UNCHANGED <<kind, sdk, attached, offered, answer, display>>
      BY <1>3, <2>1 DEF GotMedia, Goto
    <3>2. SessionTypeOK'
      BY <1>t, <3>1 DEF SessionInv, SessionTypeOK, Awaits
    <3>3. OnlyCurrent' /\ DisplayFollows'
      BY <1>t, <3>1 DEF SessionInv, SessionTypeOK, OnlyCurrent, DisplayFollows
    <3>4. Progress'
      BY <1>t, <3>1 DEF SessionInv, Progress, Publishes
    <3> QED
      BY <3>2, <3>3, <3>4 DEF SessionInv
  <2>2. CASE s \notin attached
    BY <1>t, <1>3, <2>2, RejectKeeps DEF GotMedia
  <2> QED
    BY <2>1, <2>2
<1>4. ASSUME NEW s \in Session, MediaDenied(s) PROVE SessionInv'
  BY <1>t, <1>4, RejectKeeps DEF MediaDenied
<1>5. ASSUME NEW s \in Session, OfferMade(s) PROVE SessionInv'
  <2>1. /\ step[s] = "offer"
        /\ offered' = [offered EXCEPT ![s] = IF Publishes THEN camera[s] ELSE Tracks]
        /\ step' = [step EXCEPT ![s] = "local"]
        /\ UNCHANGED <<kind, sdk, attached, camera, shown, answer, display>>
    BY <1>5 DEF OfferMade, Goto
  <2>2. SessionTypeOK'
    BY <1>t, <2>1 DEF SessionInv, SessionTypeOK, Awaits
  <2>3. OnlyCurrent' /\ DisplayFollows'
    BY <1>t, <2>1 DEF SessionInv, SessionTypeOK, OnlyCurrent, DisplayFollows
  <2>4. Progress'
    BY <1>t, <2>1 DEF SessionInv, Progress, Publishes
  <2> QED
    BY <2>2, <2>3, <2>4 DEF SessionInv
<1>6. ASSUME NEW s \in Session, NEW w \in {"request", "lost", "remote"},
             step[s] \in {"local", "request"}, Goto(s, w),
             answer' \in [Session -> {"none", "ok", "code", "http"}],
             UNCHANGED <<kind, sdk, attached, camera, shown, offered, display>>,
             \A t \in Session \ {s} : answer'[t] = answer[t]
      PROVE  SessionInv'
  <2>1. step' = [step EXCEPT ![s] = w]
    BY <1>6 DEF Goto
  <2>2. SessionTypeOK'
    BY <1>t, <1>6, <2>1 DEF SessionInv, SessionTypeOK, Awaits
  <2>3. OnlyCurrent' /\ DisplayFollows'
    BY <1>t, <1>6, <2>1 DEF SessionInv, SessionTypeOK, OnlyCurrent, DisplayFollows
  <2>4. Progress'
    BY <1>t, <1>6, <2>1 DEF SessionInv, Progress, Publishes
  <2> QED
    BY <2>2, <2>3, <2>4 DEF SessionInv
<1>7. ASSUME NEW s \in Session, LocalSet(s) \/ RequestLost(s) PROVE SessionInv'
  BY <1>t, <1>6, <1>7 DEF LocalSet, RequestLost
<1>8. ASSUME NEW s \in Session, NEW a \in {"ok", "code", "http"}, Answered(s, a)
      PROVE  SessionInv'
  <2>1. /\ answer' \in [Session -> {"none", "ok", "code", "http"}]
        /\ \A t \in Session \ {s} : answer'[t] = answer[t]
        /\ step[s] = "request"
        /\ UNCHANGED <<kind, sdk, camera, shown, offered, display>>
    BY <1>t, <1>8 DEF Answered
  <2>2. CASE Goto(s, "remote") /\ UNCHANGED attached
    BY <1>6, <2>1, <2>2
  <2>3. CASE Reject(s)
    BY <1>t, <2>1, <2>3, RejectKeeps
  <2> QED
    BY <1>8, <2>2, <2>3 DEF Answered
<1>9. ASSUME NEW s \in Session, RemoteSet(s) PROVE SessionInv'
  <2>1. /\ step[s] = "remote" /\ answer[s] = "ok" /\ s = sdk
        /\ step' = [step EXCEPT ![s] = "resolved"]
        /\ display' = s
        /\ UNCHANGED <<kind, sdk, attached, camera, shown, offered, answer>>
    BY <1>9 DEF RemoteSet, Goto, SessionInv, OnlyCurrent
  <2>2. SessionTypeOK'
    BY <1>t, <2>1 DEF SessionInv, SessionTypeOK, Settled, Session
  <2>3. OnlyCurrent' /\ DisplayFollows'
    BY <1>t, <2>1 DEF SessionInv, SessionTypeOK, OnlyCurrent, DisplayFollows
  <2>4. Progress'
    BY <1>t, <2>1 DEF SessionInv, Progress, Publishes
  <2> QED
    BY <2>2, <2>3, <2>4 DEF SessionInv
<1>10. ASSUME NEW s \in Session, NegotiationFailed(s) PROVE SessionInv'
  BY <1>t, <1>10, RejectKeeps DEF NegotiationFailed
<1> QED
  BY <1>1, <1>2, <1>3, <1>4, <1>5, <1>7, <1>8, <1>9, <1>10 DEF SessionNext, Settle

(* Whatever the user, the browser and the server do, the page shows the id   *)
(* of the session it is in, and a session is established only with an offer  *)
(* of every previewed track that the server accepted.                        *)
THEOREM SessionsSafe == SessionSpec => [](SessionTypeOK /\ DisplayFollows /\ OfferCarriesPreview)
<1>1. SessionInv => SessionTypeOK /\ DisplayFollows /\ OfferCarriesPreview
  BY DEF SessionInv, Progress, OfferCarriesPreview
<1> QED
  BY <1>1, SessionsBegin, SessionStep, PTL DEF SessionSpec

(* Whichever of the promises of publish settle late, the connection the page *)
(* shows as established has sent an offer of every track that it previewed.  *)
THEOREM OffersCarryPreview == SessionSpec => []OfferCarriesPreview
  BY SessionsSafe, PTL

-----------------------------------------------------------------------------
(* When every session keeps its phase, so does the page.                     *)
LEMMA PhaseKept ==
  ASSUME \A t \in Session : phase'[t] = phase[t]
  PROVE  phase' = phase
  BY DEF phase

(* A step that moves the function of one session between two awaits and      *)
(* leaves the connections alone is invisible.                                *)
LEMMA Invisible ==
  ASSUME SessionInv, NEW s \in Session, NEW w, Goto(s, w), UNCHANGED attached,
         step[s] \notin {"idle", "resolved"}, w \notin {"idle", "resolved"}
  PROVE  phase' = phase
<1>1. \A t \in Session : step'[t] = IF t = s THEN w ELSE step[t]
  BY DEF Goto, SessionInv, SessionTypeOK
<1>2. \A t \in Session : phase'[t] = phase[t]
  BY <1>1 DEF phase
<1> QED
  BY <1>2, PhaseKept

(* A failure ends the current session, or changes nothing that is visible.   *)
LEMMA RejectImplements ==
  ASSUME SessionInv, NEW s \in Session, Reject(s),
         step[s] \notin {"idle", "resolved"}
  PROVE  Abstract!Next \/ phase' = phase
<1>1. /\ \A t \in Session : step'[t] = IF t = s THEN "rejected" ELSE step[t]
      /\ attached' = {} /\ attached \subseteq {sdk}
  BY DEF Reject, Goto, SessionInv, SessionTypeOK, OnlyCurrent
<1>2. CASE sdk \in Session /\ sdk \in attached /\ step[sdk] # "idle"
  <2>1. phase[sdk] \in {"connecting", "established"}
    BY <1>2 DEF phase
  <2>2. phase' = [phase EXCEPT ![sdk] = "closed"]
    BY <1>1, <1>2 DEF phase
  <2> QED
    BY <1>2, <2>1, <2>2 DEF Abstract!Next, Abstract!Close, Abstract!Live
<1>3. CASE ~(sdk \in Session /\ sdk \in attached /\ step[sdk] # "idle")
  <2>1. \A t \in Session : phase'[t] = phase[t]
    BY <1>1, <1>3 DEF phase
  <2> QED
    BY <2>1, PhaseKept
<1> QED
  BY <1>2, <1>3

(* A click opens the new session and ends the former one.                    *)
LEMMA StartImplements ==
  ASSUME SessionInv, NEW refused \in BOOLEAN, StartSession(refused)
  PROVE  Abstract!Next
<1> DEFINE n == sdk + 1
           b == Begin(refused)
           p == IF b = "rejected" THEN "closed" ELSE "connecting"
<1>1. sdk \in Nat /\ n \in Session /\ sdk < n /\ kind \in Kinds
  BY MaxSessionsAssumption DEF SessionInv, SessionTypeOK, StartSession, Session
<1>2. b \in {"media", "offer", "rejected"}
  BY <1>1, BeginIs
<1>3. /\ \A t \in Session : step'[t] = IF t = n THEN b ELSE step[t]
      /\ step[n] = "idle" /\ attached \subseteq {sdk} /\ sdk # n
      /\ attached' = IF b = "rejected" THEN {} ELSE {n}
  <2>1. step' = [step EXCEPT ![n] = b] /\ step \in [Session -> Awaits \cup Settled \cup {"idle", "lost"}]
    BY DEF StartSession, Goto, SessionInv, SessionTypeOK
  <2>2. attached \subseteq {sdk} /\ step[n] = "idle" /\ sdk # n
    BY <1>1 DEF SessionInv, OnlyCurrent
  <2>3. attached' = IF b = "rejected" THEN attached \ {sdk} ELSE (attached \ {sdk}) \cup {n}
    BY DEF StartSession
  <2> QED
    BY <1>1, <2>1, <2>2, <2>3
<1> HIDE DEF n, b
<1>4. phase[n] = "new"
  BY <1>1, <1>3 DEF phase
<1>5. ASSUME NEW t \in Session
      PROVE  phase'[t] = IF t = n THEN p ELSE IF Abstract!Live(t) THEN "closed" ELSE phase[t]
  <2>1. CASE t = n
    BY <1>2, <1>3, <2>1 DEF phase
  <2>2. CASE t # n
    <3>1. phase'[t] = IF step[t] = "idle" THEN "new" ELSE "closed"
      BY <1>3, <2>2 DEF phase
    <3>2. phase[t] = "new" <=> step[t] = "idle"
      BY DEF phase
    <3>3. phase[t] \in {"new", "connecting", "established", "closed"}
      BY DEF phase
    <3> QED
      BY <2>2, <3>1, <3>2, <3>3 DEF Abstract!Live
  <2> QED
    BY <2>1, <2>2
<1>6. phase' = [t \in Session |->
        IF t = n THEN p ELSE IF Abstract!Live(t) THEN "closed" ELSE phase[t]]
  BY <1>5 DEF phase
<1>7. Abstract!Open(n, p)
  BY <1>4, <1>6 DEF Abstract!Open
<1>8. p \in Abstract!Phase
  BY DEF Abstract!Phase
<1> QED
  BY <1>1, <1>7, <1>8 DEF Abstract!Next

(* Every step of the page is a step of OneSession, or invisible in it.       *)
LEMMA StepImplements ==
  SessionInv /\ [SessionNext]_sessionVars => Abstract!Next \/ phase' = phase
<1> SUFFICES ASSUME SessionInv, [SessionNext]_sessionVars PROVE Abstract!Next \/ phase' = phase
  OBVIOUS
<1>1. CASE UNCHANGED sessionVars
  BY <1>1 DEF sessionVars, phase
<1>2. ASSUME NEW refused \in BOOLEAN, StartSession(refused) PROVE Abstract!Next
  BY <1>2, StartImplements
<1>3. ASSUME NEW s \in Session, GotMedia(s) \/ MediaDenied(s)
      PROVE  Abstract!Next \/ phase' = phase
  BY <1>3, Invisible, RejectImplements DEF GotMedia, MediaDenied
<1>4. ASSUME NEW s \in Session, OfferMade(s) \/ LocalSet(s) \/ RequestLost(s)
      PROVE  phase' = phase
  BY <1>4, Invisible DEF OfferMade, LocalSet, RequestLost
<1>5. ASSUME NEW s \in Session, NEW a \in {"ok", "code", "http"}, Answered(s, a)
      PROVE  Abstract!Next \/ phase' = phase
  BY <1>5, Invisible, RejectImplements DEF Answered
<1>6. ASSUME NEW s \in Session, NegotiationFailed(s)
      PROVE  Abstract!Next \/ phase' = phase
  BY <1>6, RejectImplements DEF NegotiationFailed
<1>7. ASSUME NEW s \in Session, RemoteSet(s) PROVE Abstract!Next
  <2>1. /\ \A t \in Session : step'[t] = IF t = s THEN "resolved" ELSE step[t]
        /\ attached' = attached /\ s \in attached /\ step[s] = "remote"
    BY <1>7 DEF RemoteSet, Goto, SessionInv, SessionTypeOK
  <2>2. phase[s] = "connecting"
    BY <2>1 DEF phase
  <2>3. phase' = [phase EXCEPT ![s] = "established"]
    BY <2>1 DEF phase
  <2> QED
    BY <2>2, <2>3 DEF Abstract!Next, Abstract!Establish
<1> QED
  BY <1>1, <1>2, <1>3, <1>4, <1>5, <1>6, <1>7 DEF SessionNext, Settle

(* The page and its SDK implement OneSession for any number of clicks: at    *)
(* most one session is live, a click ends the former one, and no late answer *)
(* or camera revives one that was closed.                                    *)
THEOREM SessionsImplement == SessionSpec => ImplementsOneSession
<1>1. SessionInit => Abstract!Init
  BY DEF SessionInit, phase, Abstract!Init
<1>2. SessionInv /\ [SessionNext]_sessionVars => [Abstract!Next]_phase
  BY StepImplements
<1> QED
  BY <1>1, <1>2, SessionsBegin, SessionStep, PTL DEF SessionSpec, ImplementsOneSession

-----------------------------------------------------------------------------
(* The room demo                                                             *)

(* Signalling objects before the last are closed, later ones do not exist;   *)
(* promises are registered with the last one only.                           *)
OnlyLast ==
  /\ \A c \in Start : c # sig => msgs[c] = {} /\ conn[c] \in {"none", "closed"}
  /\ \A c \in Start : c > sig => conn[c] = "none"
  /\ sig # 0 => conn[sig] \in {"connecting", "open", "lost"}
  /\ \A d \in Start : demo[d] # "none" => d <= sig
  /\ \A c \in joined : conn[c] \notin {"none", "connecting"}
  /\ \A c \in Start : conn[c] = "connecting" => demo[c] = "connect"

(* Who waits for an answer has its promise registered, and a promise that is *)
(* registered says where its startDemo is.                                   *)
Registered ==
  /\ \A d \in Start : demo[d] \in {"join", "publish"} =>
       <<d, demo[d]>> \in msgs[sig] /\ conn[sig] \in {"open", "lost"}
  /\ \A c, d \in Start :
       /\ <<d, "join">> \in msgs[c] => c = d /\ demo[d] = "join"
       /\ <<d, "publish">> \in msgs[c] => demo[d] \in {"publish", "failed"}

(* What the messages of an inbox mean for a participant p that publishes: a  *)
(* notification of its publication, a list of participants that keeps its    *)
(* player, the answer to join that names it.                                 *)
Published(m, p) == m.type = "event" /\ m.event = "publish" /\ m.peer = p
Knows(m, p) == m.type = "event" /\ m.event \in {"join", "leave"} => p \in m.participants
JoinReply(m) == m.type = "reply" /\ m.to[2] = "join"

(* Its publication is to come, and nothing after it closes the player.       *)
Announced(q, p) ==
  \E i \in DOMAIN q : Published(q[i], p) /\ \A j \in DOMAIN q : j > i => Knows(q[j], p)
AllKnow(q, p) == \A j \in DOMAIN q : Knows(q[j], p)
(* The first answer to join names it.                                        *)
AnswerDue(q, p) ==
  \E i \in DOMAIN q : /\ JoinReply(q[i]) /\ p \in q[i].participants
                      /\ \A j \in DOMAIN q : j < i => ~JoinReply(q[j])

(* A participant that publishes is played, or is going to be by a message    *)
(* that is under way or by the list r0 that startDemo still has to use.      *)
Due(p) ==
  \/ Announced(inbox[sig], p)
  \/ /\ AllKnow(inbox[sig], p)
     /\ \/ p \in fresh /\ players[p] \in {"connecting", "playing", "failed"}
        \/ AnswerDue(inbox[sig], p)
        \/ p \in r0[sig] /\ demo[sig] \in {"publisher", "publish"}

(* A connection the server has not in the room hears nothing of it.          *)
JoinFirst ==
  \A c \in Start : c \notin joined =>
    /\ \A i \in DOMAIN inbox[c] : inbox[c][i].type = "reply" /\ ~JoinReply(inbox[c][i])
    /\ conn[c] = "open" => demo[c] = "join"

AllDue ==
  sig # 0 /\ conn[sig] = "open" /\ sig \in joined =>
    \A p \in Peer : room[p] = "publishing" => Due(p)

RoomInv == TypeOK /\ OnlyLast /\ Registered /\ JoinFirst /\ AllDue

-----------------------------------------------------------------------------
(* Queues of messages                                                        *)

LEMMA TailIs ==
  ASSUME NEW S, NEW q \in Seq(S), q # <<>>
  PROVE  /\ Tail(q) \in Seq(S) /\ Head(q) = q[1] /\ 1 \in DOMAIN q /\ q[1] \in S
         /\ DOMAIN q = 1 .. Len(q) /\ Len(q) \in Nat /\ Len(q) >= 1
         /\ DOMAIN Tail(q) = 1 .. Len(q) - 1
         /\ \A i \in 1 .. Len(q) - 1 : Tail(q)[i] = q[i + 1]
  OBVIOUS

LEMMA AppendIs ==
  ASSUME NEW S, NEW q \in Seq(S), NEW m \in S
  PROVE  /\ Append(q, m) \in Seq(S) /\ Len(q) \in Nat
         /\ DOMAIN q = 1 .. Len(q) /\ DOMAIN Append(q, m) = 1 .. Len(q) + 1
         /\ \A i \in 1 .. Len(q) : Append(q, m)[i] = q[i]
         /\ Append(q, m)[Len(q) + 1] = m
  OBVIOUS

(* What is in a queue after a message was added.                             *)
LEMMA AddedIs ==
  ASSUME NEW S, NEW q \in Seq(S), NEW m \in S
  PROVE  \A i \in DOMAIN Append(q, m) :
           Append(q, m)[i] = m \/ (i \in DOMAIN q /\ Append(q, m)[i] = q[i])
<1> DEFINE n == Len(q)
           b == Append(q, m)
<1>1. /\ n \in Nat /\ DOMAIN q = 1 .. n /\ DOMAIN b = 1 .. n + 1
      /\ \A i \in 1 .. n : b[i] = q[i]
      /\ b[n + 1] = m
  BY AppendIs
<1> HIDE DEF n, b
<1>2. n \in Nat
  BY <1>1
<1>3. \A i \in 1 .. n + 1 : i = n + 1 \/ i \in 1 .. n
  BY <1>2
<1>4. \A i \in DOMAIN b : b[i] = m \/ (i \in DOMAIN q /\ b[i] = q[i])
  BY <1>1, <1>3
<1> QED
  BY <1>4 DEF b

(* A message that keeps the player of p is added at the end.                 *)
LEMMA AppendKeeps ==
  ASSUME NEW S, NEW q \in Seq(S), NEW m \in S, NEW p, Knows(m, p)
  PROVE  /\ Announced(q, p) => Announced(Append(q, m), p)
         /\ AllKnow(q, p) => AllKnow(Append(q, m), p)
         /\ AnswerDue(q, p) => AnswerDue(Append(q, m), p)
<1> DEFINE n == Len(q)
           a == Append(q, m)
<1>1. /\ n \in Nat /\ DOMAIN q = 1 .. n /\ DOMAIN a = 1 .. n + 1
      /\ \A i \in 1 .. n : a[i] = q[i]
      /\ a[n + 1] = m
  BY AppendIs
<1> HIDE DEF n, a
<1>2. AllKnow(q, p) => AllKnow(a, p)
  <2> SUFFICES ASSUME AllKnow(q, p), NEW j \in 1 .. n + 1 PROVE Knows(a[j], p)
    BY <1>1 DEF AllKnow
  <2> QED
    BY <1>1, j \in 1 .. n \/ j = n + 1 DEF AllKnow
<1>3. Announced(q, p) => Announced(a, p)
  <2> SUFFICES ASSUME NEW i \in 1 .. n, Published(q[i], p),
                      \A j \in 1 .. n : j > i => Knows(q[j], p)
               PROVE  Announced(a, p)
    BY <1>1 DEF Announced
  <2>1. i \in 1 .. n + 1 /\ Published(a[i], p)
    BY <1>1
  <2>2. \A j \in 1 .. n + 1 : j > i => Knows(a[j], p)
    <3> TAKE j \in 1 .. n + 1
    <3> QED
      BY <1>1, j \in 1 .. n \/ j = n + 1
  <2> QED
    BY <1>1, <2>1, <2>2 DEF Announced
<1>4. AnswerDue(q, p) => AnswerDue(a, p)
  <2> SUFFICES ASSUME NEW i \in 1 .. n, JoinReply(q[i]), p \in q[i].participants,
                      \A j \in 1 .. n : j < i => ~JoinReply(q[j])
               PROVE  AnswerDue(a, p)
    BY <1>1 DEF AnswerDue
  <2>1. i \in 1 .. n + 1 /\ JoinReply(a[i]) /\ p \in a[i].participants
    BY <1>1
  <2>2. \A j \in 1 .. n + 1 : j < i => ~JoinReply(a[j])
    BY <1>1
  <2> QED
    BY <1>1, <2>1, <2>2 DEF AnswerDue
<1> QED
  BY <1>2, <1>3, <1>4 DEF a

(* The publication of p is added at the end.                                 *)
LEMMA AppendAnnounces ==
  ASSUME NEW S, NEW q \in Seq(S), NEW m \in S, NEW p, Published(m, p)
  PROVE  Announced(Append(q, m), p)
<1> DEFINE n == Len(q)
           a == Append(q, m)
<1>1. n \in Nat /\ DOMAIN a = 1 .. n + 1 /\ a[n + 1] = m
  BY AppendIs
<1> HIDE DEF n, a
<1>2. n + 1 \in DOMAIN a /\ Published(a[n + 1], p) /\ \A j \in DOMAIN a : j > n + 1 => Knows(a[j], p)
  BY <1>1
<1> QED
  BY <1>2 DEF Announced, a

(* The first answer to join is added at the end.                             *)
LEMMA AppendAnswers ==
  ASSUME NEW S, NEW q \in Seq(S), NEW m \in S, NEW p, JoinReply(m), p \in m.participants,
         \A j \in DOMAIN q : ~JoinReply(q[j])
  PROVE  AnswerDue(Append(q, m), p)
<1> DEFINE n == Len(q)
           a == Append(q, m)
<1>1. /\ n \in Nat /\ DOMAIN a = 1 .. n + 1 /\ a[n + 1] = m
      /\ DOMAIN q = 1 .. n /\ \A i \in 1 .. n : a[i] = q[i]
  BY AppendIs
<1> HIDE DEF n, a
<1>2. n + 1 \in DOMAIN a /\ JoinReply(a[n + 1]) /\ p \in a[n + 1].participants
  BY <1>1
<1>3. \A j \in DOMAIN a : j < n + 1 => ~JoinReply(a[j])
  BY <1>1
<1> QED
  BY <1>2, <1>3 DEF AnswerDue, a

(* The first message is handled.                                             *)
LEMMA TailKeeps ==
  ASSUME NEW S, NEW q \in Seq(S), NEW p, q # <<>>
  PROVE  /\ AllKnow(q, p) => Knows(Head(q), p) /\ AllKnow(Tail(q), p)
         /\ Announced(q, p) =>
              \/ Announced(Tail(q), p)
              \/ Published(Head(q), p) /\ AllKnow(Tail(q), p)
         /\ AnswerDue(q, p) =>
              \/ ~JoinReply(Head(q)) /\ AnswerDue(Tail(q), p)
              \/ JoinReply(Head(q)) /\ p \in Head(q).participants
<1> DEFINE n == Len(q)
           t == Tail(q)
<1>1. /\ n \in Nat /\ n >= 1 /\ DOMAIN q = 1 .. n /\ DOMAIN t = 1 .. n - 1 /\ Head(q) = q[1]
      /\ \A i \in 1 .. n - 1 : t[i] = q[i + 1]
  BY TailIs
<1> HIDE DEF n, t
<1>2. AllKnow(q, p) => Knows(Head(q), p) /\ AllKnow(t, p)
  <2> SUFFICES ASSUME AllKnow(q, p) PROVE Knows(Head(q), p) /\ AllKnow(t, p)
    OBVIOUS
  <2>1. \A j \in 1 .. n : Knows(q[j], p)
    BY <1>1 DEF AllKnow
  <2>2. \A j \in 1 .. n - 1 : j + 1 \in 1 .. n
    BY <1>1
  <2>3. \A j \in 1 .. n - 1 : Knows(t[j], p)
    BY <1>1, <2>1, <2>2
  <2>4. Knows(q[1], p)
    BY <1>1, <2>1
  <2> QED
    BY <1>1, <2>3, <2>4 DEF AllKnow
<1>3. Announced(q, p) => Announced(t, p) \/ (Published(Head(q), p) /\ AllKnow(t, p))
  <2> SUFFICES ASSUME NEW i \in 1 .. n, Published(q[i], p),
                      \A j \in 1 .. n : j > i => Knows(q[j], p)
               PROVE  Announced(t, p) \/ (Published(Head(q), p) /\ AllKnow(t, p))
    BY <1>1 DEF Announced
  <2>1. \A j \in 1 .. n - 1 : j + 1 \in 1 .. n /\ t[j] = q[j + 1]
    BY <1>1
  <2>2. \A j \in 1 .. n - 1 : j + 1 > i => Knows(t[j], p)
    BY <2>1
  <2>3. CASE i = 1
    <3>1. \A j \in 1 .. n - 1 : j + 1 > i
      BY <2>3
    <3> QED
      BY <1>1, <2>2, <2>3, <3>1 DEF AllKnow
  <2>4. CASE i # 1
    <3>1. i - 1 \in 1 .. n - 1 /\ t[i - 1] = q[i]
      <4>1. i - 1 \in 1 .. n - 1 /\ (i - 1) + 1 = i
        BY <1>1, <2>4
      <4> QED
        BY <1>1, <4>1
    <3>2. \A j \in 1 .. n - 1 : j > i - 1 => Knows(t[j], p)
      BY <2>2
    <3> QED
      BY <1>1, <3>1, <3>2 DEF Announced
  <2> QED
    BY <2>3, <2>4
<1>4. AnswerDue(q, p) =>
        \/ ~JoinReply(Head(q)) /\ AnswerDue(t, p)
        \/ JoinReply(Head(q)) /\ p \in Head(q).participants
  <2> SUFFICES ASSUME NEW i \in 1 .. n, JoinReply(q[i]), p \in q[i].participants,
                      \A j \in 1 .. n : j < i => ~JoinReply(q[j])
               PROVE  \/ ~JoinReply(Head(q)) /\ AnswerDue(t, p)
                      \/ JoinReply(Head(q)) /\ p \in Head(q).participants
    BY <1>1 DEF AnswerDue
  <2>1. CASE i = 1
    BY <1>1, <2>1
  <2>2. CASE i # 1
    <3>1. i - 1 \in 1 .. n - 1 /\ t[i - 1] = q[i]
      <4>1. i - 1 \in 1 .. n - 1 /\ (i - 1) + 1 = i
        BY <1>1, <2>2
      <4> QED
        BY <1>1, <4>1
    <3>2. \A j \in 1 .. n - 1 : j < i - 1 => ~JoinReply(t[j])
      <4> TAKE j \in 1 .. n - 1
      <4>1. j + 1 \in 1 .. n /\ (j < i - 1 => j + 1 < i)
        BY <1>1
      <4> QED
        BY <1>1, <4>1
    <3>3. ~JoinReply(q[1])
      BY <1>1, <2>2
    <3> QED
      BY <1>1, <3>1, <3>2, <3>3 DEF AnswerDue
  <2> QED
    BY <2>1, <2>2
<1> QED
  BY <1>2, <1>3, <1>4 DEF t

-----------------------------------------------------------------------------
(* The initial state and the steps                                           *)

LEMMA RoomInitial == Init => RoomInv
<1> SUFFICES ASSUME Init PROVE RoomInv
  OBVIOUS
<1> USE RoomAssumption DEF Init
<1>1. TypeOK
  BY DEF TypeOK, Member
<1>2. OnlyLast /\ Registered /\ AllDue
  BY DEF OnlyLast, Registered, AllDue, Start
<1>3. JoinFirst
  BY DEF JoinFirst
<1> QED
  BY <1>1, <1>2, <1>3 DEF RoomInv

(* Steps that change nothing but the media.                                  *)
LEMMA MediaKeeps ==
  ASSUME RoomInv, TypeOK', UNCHANGED <<server, sig, signal, demo, r0, fresh>>,
         \A p \in Peer : players[p] \in {"connecting", "playing", "failed"} =>
                           players'[p] \in {"connecting", "playing", "failed"}
  PROVE  RoomInv'
<1> USE DEF server, signal
<1>1. OnlyLast' /\ Registered' /\ JoinFirst'
  BY DEF RoomInv, OnlyLast, Registered, JoinFirst
<1>2. AllDue'
  BY DEF RoomInv, AllDue, Due
<1> QED
  BY <1>1, <1>2 DEF RoomInv

LEMMA CameraGrantedKeeps == ASSUME RoomInv, NEW d \in Start, CameraGranted(d) PROVE RoomInv'
<1>1. TypeOK'
  BY DEF RoomInv, TypeOK, CameraGranted, server, signal
<1> QED
  BY <1>1, MediaKeeps DEF CameraGranted

LEMMA PlaySettlesKeeps == ASSUME RoomInv, NEW p \in Peer, PlaySettles(p) PROVE RoomInv'
<1>1. PICK result \in {"playing", "failed"} : players' = [players EXCEPT ![p] = result]
  BY DEF PlaySettles
<1>2. players \in [Peer -> {"none", "connecting", "playing", "failed", "closed"}]
  BY DEF RoomInv, TypeOK
<1>3. players' \in [Peer -> {"none", "connecting", "playing", "failed", "closed"}]
  BY <1>1, <1>2
<1>4. TypeOK'
  BY <1>3 DEF RoomInv, TypeOK, PlaySettles, server, signal
<1>5. \A x \in Peer : players[x] \in {"connecting", "playing", "failed"} =>
                        players'[x] \in {"connecting", "playing", "failed"}
  BY <1>1, <1>2
<1> QED
  BY <1>4, <1>5, MediaKeeps DEF PlaySettles

LEMMA ReplacedPlayFailsKeeps == ASSUME RoomInv, NEW p \in Peer, ReplacedPlayFails(p) PROVE RoomInv'
<1>1. TypeOK'
  BY DEF RoomInv, TypeOK, ReplacedPlayFails, server, signal
<1> QED
  BY <1>1, MediaKeeps DEF ReplacedPlayFails

(* A connection that ends, or is not open yet, has nobody due.               *)
LEMMA DropKeeps == ASSUME RoomInv, NEW c \in Start, Drop(c) PROVE RoomInv'
<1> USE DEF server, media
<1>1. /\ TypeOK /\ OnlyLast /\ c = sig /\ conn' = [conn EXCEPT ![c] = "lost"] /\ conn[c] = "open"
      /\ inbox' = [inbox EXCEPT ![c] = <<>>] /\ requests' = [requests EXCEPT ![c] = <<>>]
      /\ UNCHANGED <<server, sig, joined, msgs, demo, r0, media>>
  BY DEF RoomInv, OnlyLast, Drop
<1>2. TypeOK'
  BY <1>1 DEF TypeOK
<1>3. /\ \A d \in Start : d # c => conn'[d] = conn[d] /\ inbox'[d] = inbox[d]
      /\ conn'[c] = "lost" /\ inbox'[c] = <<>>
  BY <1>1 DEF TypeOK
<1>4. OnlyLast'
  BY <1>1, <1>3 DEF OnlyLast
<1>5. Registered'
  BY <1>1, <1>3 DEF RoomInv, Registered
<1>6. JoinFirst'
  BY <1>1, <1>3 DEF RoomInv, JoinFirst
<1>7. AllDue'
  BY <1>1, <1>3 DEF AllDue
<1> QED
  BY <1>2, <1>4, <1>5, <1>6, <1>7 DEF RoomInv

LEMMA ConnectFailedKeeps == ASSUME RoomInv, NEW c \in Start, ConnectFailed(c) PROVE RoomInv'
<1> USE DEF server, media
<1>1. /\ TypeOK /\ OnlyLast /\ c = sig /\ conn' = [conn EXCEPT ![c] = "lost"] /\ conn[c] = "connecting"
      /\ demo' = [demo EXCEPT ![c] = "failed"]
      /\ UNCHANGED <<server, sig, joined, requests, inbox, msgs, r0, media>>
  BY DEF RoomInv, OnlyLast, ConnectFailed
<1>2. TypeOK'
  BY <1>1 DEF TypeOK
<1>3. /\ \A d \in Start : d # c => conn'[d] = conn[d] /\ demo'[d] = demo[d]
      /\ conn'[c] = "lost" /\ demo'[c] = "failed"
  BY <1>1 DEF TypeOK
<1>4. OnlyLast'
  BY <1>1, <1>3 DEF OnlyLast, Start
<1>5. Registered'
  BY <1>1, <1>3 DEF RoomInv, Registered
<1>6. JoinFirst'
  BY <1>1, <1>3 DEF RoomInv, JoinFirst
<1>7. AllDue'
  BY <1>1, <1>3 DEF AllDue
<1> QED
  BY <1>2, <1>4, <1>5, <1>6, <1>7 DEF RoomInv

LEMMA OpenedKeeps == ASSUME RoomInv, NEW c \in Start, Opened(c) PROVE RoomInv'
<1> USE DEF server, media
<1>1. /\ TypeOK /\ OnlyLast /\ c = sig /\ conn' = [conn EXCEPT ![c] = "open"] /\ conn[c] = "connecting"
      /\ demo' = [demo EXCEPT ![c] = "join"] /\ msgs' = [msgs EXCEPT ![c] = @ \cup {<<c, "join">>}]
      /\ requests' = [requests EXCEPT ![c] = Append(@, <<c, "join">>)]
      /\ UNCHANGED <<server, sig, joined, inbox, r0, media>>
  BY DEF RoomInv, OnlyLast, Opened
<1>2. TypeOK'
  <2>1. <<c, "join">> \in Requests
    BY DEF Requests
  <2>2. requests' \in [Start -> Seq(Requests)]
    <3>1. Append(requests[c], <<c, "join">>) \in Seq(Requests)
      BY <1>1, <2>1, AppendIs DEF TypeOK
    <3> QED
      BY <1>1, <3>1 DEF TypeOK
  <2>3. msgs' \in [Start -> SUBSET Requests]
    BY <1>1, <2>1 DEF TypeOK
  <2> QED
    BY <1>1, <2>2, <2>3 DEF TypeOK
<1>3. /\ \A d \in Start : d # c => conn'[d] = conn[d] /\ demo'[d] = demo[d] /\ msgs'[d] = msgs[d]
      /\ conn'[c] = "open" /\ demo'[c] = "join" /\ msgs'[c] = msgs[c] \cup {<<c, "join">>}
  BY <1>1 DEF TypeOK
<1>4. OnlyLast' /\ c \notin joined
  BY <1>1, <1>3 DEF OnlyLast, Start
<1>5. Registered'
  <2>1. \A d \in Start : demo[d] \notin {"join", "publish"}
    BY <1>1 DEF RoomInv, Registered
  <2>2. \A d, e \in Start : <<e, "join">> \notin msgs[d] /\ (<<e, "publish">> \in msgs[d] => demo[e] = "failed")
    BY <2>1 DEF RoomInv, Registered
  <2>3. <<c, "publish">> \notin msgs[c]
    BY <1>1, <2>2 DEF OnlyLast
  <2> QED
    <3>1. \A d \in Start : demo'[d] \in {"join", "publish"} => d = c
      BY <1>3, <2>1
    <3>2. <<c, demo'[c]>> \in msgs'[sig'] /\ conn'[sig'] \in {"open", "lost"}
      BY <1>1, <1>3
    <3>3. \A d, e \in Start : <<e, "join">> \in msgs'[d] => d = c /\ e = c
      <4> SUFFICES ASSUME NEW d \in Start, NEW e \in Start, <<e, "join">> \in msgs'[d]
                   PROVE  d = c /\ e = c
        OBVIOUS
      <4>1. d = c
        BY <1>3, <2>2
      <4>2. <<e, "join">> = <<c, "join">>
        BY <1>3, <2>2, <4>1
      <4> QED
        BY <4>1, <4>2
    <3>4. \A d, e \in Start : <<e, "publish">> \in msgs'[d] => e # c /\ <<e, "publish">> \in msgs[d]
      BY <1>1, <1>3, <2>2, <2>3 DEF OnlyLast
    <3>5. \A e \in Start : e # c => demo'[e] = demo[e]
      BY <1>3
    <3> HIDE DEF Start
    <3> QED
      BY <1>3, <2>2, <3>1, <3>2, <3>3, <3>4, <3>5 DEF Registered
<1>6. JoinFirst'
  BY <1>1, <1>3 DEF RoomInv, JoinFirst
<1>7. AllDue'
  BY <1>1, <1>4 DEF AllDue
<1> QED
  BY <1>2, <1>4, <1>5, <1>6, <1>7 DEF RoomInv

(* A click closes the last signalling object, and rejects what waits on it.  *)
LEMMA ClickKeeps == ASSUME RoomInv, Click PROVE RoomInv'
<1> USE RoomAssumption DEF server, media
<1> DEFINE n == sig + 1
<1>1. /\ TypeOK /\ OnlyLast /\ Registered /\ sig < MaxStarts /\ sig' = n /\ n \in Start /\ sig \in Nat
      /\ UNCHANGED <<server, joined, requests, r0, media>> /\ inbox' = [inbox EXCEPT ![n] = <<>>]
  BY DEF RoomInv, TypeOK, Click, Start
<1>2. \A c \in Start : conn'[c] = IF c = n THEN "connecting" ELSE IF c = sig THEN "closed" ELSE conn[c]
  BY DEF Click
<1>3. \A c \in Start : msgs'[c] = {}
  BY <1>1 DEF Click, OnlyLast
<1>4. /\ demo'[n] = "connect"
      /\ \A d \in Start : d # n => \/ demo'[d] = "failed" /\ d <= sig
                                   \/ demo'[d] = demo[d] /\ demo[d] \notin {"join", "publish"}
  <2>1. \A d \in Start : demo'[d] = IF d = n THEN "connect"
          ELSE IF (d = sig /\ demo[d] = "connect") \/ RejectedByClose(d) THEN "failed" ELSE demo[d]
    BY DEF Click
  <2>2. \A d \in Start : demo[d] \in {"join", "publish"} => RejectedByClose(d)
    BY <1>1 DEF Registered, RejectedByClose, OnlyLast, Start
  <2>3. \A d \in Start : RejectedByClose(d) => d <= sig
    <3> SUFFICES ASSUME NEW d \in Start, RejectedByClose(d) PROVE d <= sig
      OBVIOUS
    <3>1. sig \in Start /\ <<d, demo[d]>> \in msgs[sig] /\ msgs[sig] \subseteq Requests
      BY <1>1 DEF RejectedByClose, TypeOK, Start
    <3>2. demo[d] \in {"join", "publish"}
      BY <3>1 DEF Requests
    <3> QED
      BY <1>1, <3>2 DEF OnlyLast
  <2> HIDE DEF n
  <2>4. demo'[n] = "connect"
    BY <1>1, <2>1
  <2>5. \A d \in Start : d # n => \/ demo'[d] = "failed" /\ d <= sig
                                  \/ demo'[d] = demo[d] /\ demo[d] \notin {"join", "publish"}
    <3> TAKE d \in Start
    <3> QED
      BY <1>1, <2>1, <2>2, <2>3
  <2> QED
    BY <2>4, <2>5
<1>5. TypeOK'
  <2>1. conn' \in [Start -> {"none", "connecting", "open", "closed", "lost"}]
    BY <1>1 DEF TypeOK, Click
  <2>2. msgs' \in [Start -> SUBSET Requests]
    BY <1>1 DEF TypeOK, Click
  <2>3. demo' \in [Start -> {"none", "connect", "join", "publisher", "publish", "done", "failed"}]
    BY <1>1 DEF TypeOK, Click
  <2>4. inbox' \in [Start -> Seq(Message)]
    BY <1>1 DEF TypeOK
  <2>5. sig' \in 0 .. MaxStarts
    BY <1>1 DEF TypeOK, Start
  <2> QED
    BY <1>1, <2>1, <2>2, <2>3, <2>4, <2>5 DEF TypeOK
<1>6. n \notin joined
  BY <1>1 DEF OnlyLast, Start
<1>7. OnlyLast'
  <2>1. \A c \in Start : c # sig' => msgs'[c] = {} /\ conn'[c] \in {"none", "closed"}
    BY <1>1, <1>2, <1>3 DEF OnlyLast
  <2>2. \A c \in Start : c > sig' => conn'[c] = "none"
    BY <1>1, <1>2 DEF OnlyLast, Start
  <2>3. conn'[sig'] = "connecting"
    BY <1>1, <1>2
  <2>4. \A d \in Start : demo'[d] # "none" => d <= sig'
    <3> TAKE d \in Start
    <3>1. CASE d = n
      BY <1>1, <3>1 DEF Start
    <3>2. CASE d # n
      <4>1. demo'[d] # "none" => d <= sig
        BY <1>1, <1>4, <3>2 DEF OnlyLast
      <4> QED
        BY <1>1, <4>1 DEF Start
    <3> QED
      BY <3>1, <3>2
  <2>5. \A c \in joined' : conn'[c] \notin {"none", "connecting"}
    <3> SUFFICES ASSUME NEW c \in joined' PROVE conn'[c] \notin {"none", "connecting"}
      OBVIOUS
    <3>1. c \in joined /\ c # n /\ c \in Start
      BY <1>1, <1>6 DEF TypeOK
    <3>2. conn[c] \notin {"none", "connecting"}
      BY <1>1, <3>1 DEF OnlyLast
    <3> QED
      BY <1>1, <1>2, <3>1, <3>2
  <2>6. \A c \in Start : conn'[c] = "connecting" => demo'[c] = "connect"
    BY <1>1, <1>2, <1>4, <2>1
  <2> QED
    BY <2>1, <2>2, <2>3, <2>4, <2>5, <2>6 DEF OnlyLast
<1>8. Registered'
  BY <1>1, <1>3, <1>4 DEF Registered
<1>9. JoinFirst'
  <2> SUFFICES ASSUME NEW c \in Start, c \notin joined'
               PROVE  /\ \A i \in DOMAIN inbox'[c] : inbox'[c][i].type = "reply" /\ ~JoinReply(inbox'[c][i])
                      /\ conn'[c] # "open"
    BY DEF JoinFirst, JoinReply
  <2>1. conn'[c] # "open"
    BY <1>1, <1>2 DEF OnlyLast
  <2>2. inbox'[c] = <<>> \/ inbox'[c] = inbox[c]
    BY <1>1 DEF TypeOK
  <2> QED
    BY <1>1, <2>1, <2>2 DEF RoomInv, JoinFirst
<1>10. AllDue'
  BY <1>1, <1>2 DEF AllDue
<1> QED
  BY <1>5, <1>7, <1>8, <1>9, <1>10 DEF RoomInv

(* startDemo has its publisher and reports the publication: its promise is   *)
(* registered with the last signalling object.                               *)
LEMMA PublishSettlesKeeps == ASSUME RoomInv, NEW d \in Start, PublishSettles(d) PROVE RoomInv'
<1> USE DEF server
<1>1. /\ TypeOK /\ OnlyLast /\ Registered /\ demo[d] = "publisher" /\ sig \in Start
      /\ conn[sig] \in {"connecting", "open", "lost"}
      /\ msgs' = [msgs EXCEPT ![sig] = @ \cup {<<d, "publish">>}]
      /\ requests' = IF conn[sig] = "open"
                       THEN [requests EXCEPT ![sig] = Append(@, <<d, "publish">>)] ELSE requests
      /\ demo' = [demo EXCEPT ![d] = IF conn[sig] = "connecting" THEN "failed" ELSE "publish"]
      /\ UNCHANGED <<server, sig, conn, joined, inbox, r0, publisher, players, replaced, fresh>>
  BY RoomAssumption DEF RoomInv, PublishSettles, Send, OnlyLast, TypeOK, Start
<1>2. /\ \A c \in Start : c # sig => msgs'[c] = msgs[c]
      /\ msgs'[sig] = msgs[sig] \cup {<<d, "publish">>}
      /\ \A e \in Start : e # d => demo'[e] = demo[e]
      /\ demo'[d] = IF conn[sig] = "connecting" THEN "failed" ELSE "publish"
  BY <1>1 DEF TypeOK
<1>3. TypeOK'
  <2>1. <<d, "publish">> \in Requests
    BY DEF Requests
  <2>2. requests' \in [Start -> Seq(Requests)]
    <3>1. Append(requests[sig], <<d, "publish">>) \in Seq(Requests)
      BY <1>1, <2>1, AppendIs DEF TypeOK
    <3> QED
      BY <1>1, <3>1 DEF TypeOK
  <2>3. msgs' \in [Start -> SUBSET Requests]
    BY <1>1, <2>1 DEF TypeOK
  <2>4. demo' \in [Start -> {"none", "connect", "join", "publisher", "publish", "done", "failed"}]
    BY <1>1 DEF TypeOK
  <2>5. /\ pub' \in [Start -> {"none", "prompt", "connecting", "established", "failed"}]
        /\ pubOpen' \subseteq Start
    BY <1>1 DEF TypeOK, PublishSettles
  <2> QED
    BY <1>1, <2>2, <2>3, <2>4, <2>5 DEF TypeOK
<1>4. OnlyLast'
  BY <1>1, <1>2 DEF OnlyLast
<1>5. Registered'
  <2>1. \A e \in Start : demo'[e] \in {"join", "publish"} =>
          <<e, demo'[e]>> \in msgs'[sig] /\ conn[sig] \in {"open", "lost"}
    <3> TAKE e \in Start
    <3>1. CASE e = d
      BY <1>1, <1>2, <3>1
    <3>2. CASE e # d
      BY <1>1, <1>2, <3>2 DEF Registered
    <3> QED
      BY <3>1, <3>2
  <2>2. \A c, e \in Start : <<e, "join">> \in msgs'[c] => c = e /\ demo'[e] = "join"
    <3> SUFFICES ASSUME NEW c \in Start, NEW e \in Start, <<e, "join">> \in msgs'[c]
                 PROVE  c = e /\ demo'[e] = "join"
      OBVIOUS
    <3>1. <<e, "join">> \in msgs[c]
      BY <1>2
    <3>2. c = e /\ demo[e] = "join"
      BY <1>1, <3>1 DEF Registered
    <3> QED
      BY <1>1, <1>2, <3>2
  <2>3. \A c, e \in Start : <<e, "publish">> \in msgs'[c] => demo'[e] \in {"publish", "failed"}
    <3> SUFFICES ASSUME NEW c \in Start, NEW e \in Start, <<e, "publish">> \in msgs'[c]
                 PROVE  demo'[e] \in {"publish", "failed"}
      OBVIOUS
    <3>1. CASE e = d
      BY <1>2, <3>1
    <3>2. CASE e # d
      <4>1. <<e, "publish">> # <<d, "publish">>
        BY <3>2
      <4>2. <<e, "publish">> \in msgs[c]
        BY <1>2, <4>1
      <4> QED
        BY <1>1, <1>2, <3>2, <4>2 DEF Registered
    <3> QED
      BY <3>1, <3>2
  <2> QED
    BY <1>1, <2>1, <2>2, <2>3 DEF Registered
<1>6. JoinFirst'
  BY <1>1, <1>2 DEF RoomInv, JoinFirst
<1>7. AllDue'
  <2> SUFFICES ASSUME conn[sig] = "open", sig \in joined, NEW p \in Peer, room[p] = "publishing"
               PROVE  Due(p)'
    BY <1>1 DEF AllDue
  <2>1. Due(p)
    BY <1>1 DEF RoomInv, AllDue, Start
  <2>2. demo[sig] \in {"publisher", "publish"} => demo'[sig] \in {"publisher", "publish"}
    BY <1>1, <1>2
  <2> QED
    BY <1>1, <2>1, <2>2 DEF Due
<1> QED
  BY <1>3, <1>4, <1>5, <1>6, <1>7 DEF RoomInv

(* Somebody joins, publishes or leaves; the connections in the room are told.*)
LEMMA PeerActsKeeps == ASSUME RoomInv, NEW x \in Peer, PeerActs(x) PROVE RoomInv'
<1> USE DEF media
<1>1. /\ TypeOK /\ fresh' = fresh \ {x} /\ events' \in 0 .. MaxEvents
      /\ UNCHANGED <<sig, conn, joined, requests, msgs, demo, r0,
                     publisher, pub, pubOpen, players, replaced>>
  BY RoomAssumption DEF RoomInv, TypeOK, PeerActs
<1>2. PICK e \in {"join", "publish", "leave"} :
        /\ Tell(e, x, room') /\ room' \in [Peer -> Member]
        /\ \A p \in Peer : p # x => room'[p] = room[p]
        /\ e # "publish" => room'[x] # "publishing"
  <2>1. room \in [Peer -> Member]
    BY <1>1 DEF TypeOK
  <2>2. CASE room' = [room EXCEPT ![x] = "in"] /\ Tell("join", x, room')
    BY <2>1, <2>2 DEF Member
  <2>3. CASE room' = [room EXCEPT ![x] = "publishing"] /\ Tell("publish", x, room')
    BY <2>1, <2>3 DEF Member
  <2>4. CASE room' = [room EXCEPT ![x] = "out"] /\ Tell("leave", x, room')
    BY <2>1, <2>4 DEF Member
  <2> QED
    BY <2>2, <2>3, <2>4 DEF PeerActs
<1> DEFINE m == [type |-> "event", event |-> e, peer |-> x, participants |-> Present(room')]
<1>3. /\ m \in Message /\ m.type = "event" /\ m.event = e /\ m.peer = x
      /\ \A p \in Peer : room'[p] = "publishing" => p \in m.participants
  BY DEF Message, Present
<1>4. inbox' = [c \in Start |-> IF c \in joined /\ conn[c] = "open" THEN Append(inbox[c], m) ELSE inbox[c]]
  BY <1>2 DEF Tell
<1> HIDE DEF m
<1>5. TypeOK'
  <2>1. \A c \in Start : Append(inbox[c], m) \in Seq(Message)
    BY <1>1, <1>3, AppendIs DEF TypeOK
  <2>2. inbox' \in [Start -> Seq(Message)]
    BY <1>1, <1>4, <2>1 DEF TypeOK
  <2> QED
    BY <1>1, <1>2, <2>2 DEF TypeOK
<1>6. OnlyLast' /\ Registered'
  BY <1>1 DEF RoomInv, OnlyLast, Registered
<1>7. JoinFirst'
  <2>1. \A c \in Start : c \notin joined => inbox'[c] = inbox[c]
    BY <1>4
  <2> QED
    BY <1>1, <2>1 DEF RoomInv, JoinFirst
<1>8. AllDue'
  <2> SUFFICES ASSUME sig # 0, conn[sig] = "open", sig \in joined, NEW p \in Peer, room'[p] = "publishing"
               PROVE  Due(p)'
    BY <1>1 DEF AllDue
  <2>1. sig \in Start /\ inbox[sig] \in Seq(Message)
    BY <1>1 DEF TypeOK
  <2>2. inbox'[sig] = Append(inbox[sig], m)
    BY <1>4, <2>1
  <2>3. CASE p = x
    <3>1. Published(m, p)
      BY <1>2, <1>3, <2>3 DEF Published
    <3> QED
      BY <1>1, <1>3, <2>1, <2>2, <3>1, AppendAnnounces DEF Due
  <2>4. CASE p # x
    <3>1. Due(p) /\ Knows(m, p)
      BY <1>2, <1>3, <2>4 DEF RoomInv, AllDue, Knows
    <3>2. /\ Announced(inbox[sig], p) => Announced(inbox'[sig], p)
          /\ AllKnow(inbox[sig], p) => AllKnow(inbox'[sig], p)
          /\ AnswerDue(inbox[sig], p) => AnswerDue(inbox'[sig], p)
      BY <1>3, <2>1, <2>2, <3>1, AppendKeeps
    <3>3. p \in fresh => p \in fresh'
      BY <1>1, <2>4
    <3> QED
      BY <1>1, <3>1, <3>2, <3>3 DEF Due
  <2> QED
    BY <2>3, <2>4
<1> QED
  BY <1>5, <1>6, <1>7, <1>8 DEF RoomInv

(* The server answers; the answer to join lists who publishes.               *)
LEMMA ServerAnswersKeeps == ASSUME RoomInv, NEW c \in Start, ServerAnswers(c) PROVE RoomInv'
<1> USE DEF server, media
<1> DEFINE h == Head(requests[c])
           m == [type |-> "reply", to |-> h, participants |-> {p \in Peer : room[p] = "publishing"}]
<1>1. /\ TypeOK /\ OnlyLast /\ c = sig /\ conn[c] = "open" /\ requests[c] # <<>> /\ sig # 0
      /\ requests' = [requests EXCEPT ![c] = Tail(@)]
      /\ joined' = IF h[2] = "join" THEN joined \cup {c} ELSE joined
      /\ inbox' = [inbox EXCEPT ![c] = Append(@, m)]
      /\ UNCHANGED <<server, sig, conn, msgs, demo, r0, media>>
  BY DEF RoomInv, OnlyLast, ServerAnswers, Start
<1>2. h \in Requests /\ Tail(requests[c]) \in Seq(Requests) /\ inbox[c] \in Seq(Message)
  BY <1>1, TailIs DEF TypeOK
<1>3. /\ m \in Message /\ m.type = "reply" /\ m.to = h
      /\ \A p \in Peer : room[p] = "publishing" => p \in m.participants
  BY <1>2 DEF Message
<1> HIDE DEF h, m
<1>4. TypeOK'
  <2>1. Append(inbox[c], m) \in Seq(Message)
    BY <1>2, <1>3, AppendIs
  <2>2. inbox' \in [Start -> Seq(Message)]
    BY <1>1, <2>1 DEF TypeOK
  <2>3. requests' \in [Start -> Seq(Requests)] /\ joined' \subseteq Start
    BY <1>1, <1>2 DEF TypeOK
  <2> QED
    BY <1>1, <2>2, <2>3 DEF TypeOK
<1>5. OnlyLast' /\ Registered'
  BY <1>1 DEF RoomInv, OnlyLast, Registered
<1>6. inbox'[c] = Append(inbox[c], m) /\ \A d \in Start : d # c => inbox'[d] = inbox[d]
  BY <1>1 DEF TypeOK
<1>7. JoinFirst'
  <2> SUFFICES ASSUME NEW d \in Start, d \notin joined'
               PROVE  /\ \A i \in DOMAIN inbox'[d] : inbox'[d][i].type = "reply" /\ ~JoinReply(inbox'[d][i])
                      /\ conn[d] = "open" => demo[d] = "join"
    BY <1>1 DEF JoinFirst, JoinReply
  <2>1. d \notin joined
    BY <1>1
  <2>2. /\ \A i \in DOMAIN inbox[d] : inbox[d][i].type = "reply" /\ ~JoinReply(inbox[d][i])
        /\ conn[d] = "open" => demo[d] = "join"
    BY <2>1 DEF RoomInv, JoinFirst
  <2>3. CASE d # c
    BY <1>6, <2>2, <2>3
  <2>4. CASE d = c
    <3>1. ~JoinReply(m)
      BY <1>1, <1>3, <2>4 DEF JoinReply
    <3>2. \A i \in DOMAIN inbox'[d] : inbox'[d][i] = m \/ (i \in DOMAIN inbox[d] /\ inbox'[d][i] = inbox[d][i])
      <4>1. \A i \in DOMAIN Append(inbox[c], m) :
              Append(inbox[c], m)[i] = m \/ (i \in DOMAIN inbox[c] /\ Append(inbox[c], m)[i] = inbox[c][i])
        BY <1>2, <1>3, AddedIs
      <4>2. inbox'[d] = Append(inbox[c], m) /\ inbox[d] = inbox[c]
        BY <1>6, <2>4
      <4> QED BY <4>1, <4>2
    <3> QED
      BY <1>3, <2>2, <3>1, <3>2
  <2> QED
    BY <2>3, <2>4
<1>8. AllDue'
  <2> SUFFICES ASSUME c \in joined', NEW p \in Peer, room[p] = "publishing" PROVE Due(p)'
    BY <1>1 DEF AllDue
  <2>1. Knows(m, p)
    BY <1>3 DEF Knows
  <2>2. /\ Announced(inbox[c], p) => Announced(inbox'[c], p)
        /\ AllKnow(inbox[c], p) => AllKnow(inbox'[c], p)
        /\ AnswerDue(inbox[c], p) => AnswerDue(inbox'[c], p)
    BY <1>2, <1>3, <1>6, <2>1, AppendKeeps
  <2>3. CASE c \in joined
    <3>1. Due(p)
      BY <1>1, <2>3 DEF RoomInv, AllDue
    <3> QED
      BY <1>1, <2>2, <3>1 DEF Due
  <2>4. CASE c \notin joined
    <3>1. JoinReply(m)
      BY <1>1, <1>3, <2>4 DEF JoinReply
    <3>2. \A i \in DOMAIN inbox[c] : inbox[c][i].type = "reply" /\ ~JoinReply(inbox[c][i])
      BY <2>4 DEF RoomInv, JoinFirst
    <3>3. AllKnow(inbox'[c], p)
      BY <2>2, <3>2 DEF AllKnow, Knows
    <3>4. AnswerDue(inbox'[c], p)
      BY <1>2, <1>3, <1>6, <3>1, <3>2, AppendAnswers
    <3> QED
      BY <1>1, <3>3, <3>4 DEF Due
  <2> QED
    BY <2>3, <2>4
<1> QED
  BY <1>4, <1>5, <1>7, <1>8 DEF RoomInv

(* Somebody is played: a player of that name is begun.                       *)
LEMMA StartPlayIs ==
  ASSUME TypeOK, NEW S \in SUBSET Peer, StartPlay(S)
  PROVE  /\ players' \in [Peer -> {"none", "connecting", "playing", "failed", "closed"}]
         /\ replaced' \subseteq Peer /\ fresh' \subseteq Peer
         /\ \A p \in S : p \in fresh' /\ players'[p] = "connecting"
         /\ \A p \in Peer : p \in fresh => p \in fresh'
         /\ \A p \in Peer : players[p] \in {"connecting", "playing", "failed"} =>
                              players'[p] \in {"connecting", "playing", "failed"}
  BY DEF TypeOK, StartPlay

(* A notification is handled.                                                *)
LEMMA OnEventKeeps == ASSUME RoomInv, NEW c \in Start, OnEvent(c) PROVE RoomInv'
<1> USE DEF server
<1> DEFINE m == Head(inbox[c])
<1>1. /\ TypeOK /\ OnlyLast /\ c = sig /\ conn[c] = "open" /\ inbox[c] # <<>> /\ sig # 0
      /\ inbox' = [inbox EXCEPT ![c] = Tail(@)] /\ m.type = "event"
      /\ UNCHANGED <<server, sig, conn, joined, requests, msgs, demo, r0, publisher, pub, pubOpen>>
  BY DEF RoomInv, OnlyLast, OnEvent, Start
<1>2. /\ inbox[c] \in Seq(Message) /\ Tail(inbox[c]) \in Seq(Message) /\ m = inbox[c][1] /\ m \in Message
      /\ DOMAIN Tail(inbox[c]) = 1 .. Len(inbox[c]) - 1 /\ DOMAIN inbox[c] = 1 .. Len(inbox[c])
      /\ Len(inbox[c]) \in Nat /\ Len(inbox[c]) >= 1
      /\ \A i \in 1 .. Len(inbox[c]) - 1 : Tail(inbox[c])[i] = inbox[c][i + 1]
  BY <1>1, TailIs DEF TypeOK
<1>3. inbox'[c] = Tail(inbox[c]) /\ \A d \in Start : d # c => inbox'[d] = inbox[d]
  BY <1>1 DEF TypeOK
<1>4. /\ players' \in [Peer -> {"none", "connecting", "playing", "failed", "closed"}]
      /\ replaced' \subseteq Peer /\ fresh' \subseteq Peer
      /\ \A p \in Peer : Published(m, p) => p \in fresh' /\ players'[p] = "connecting"
      /\ \A p \in Peer : p \in fresh => p \in fresh'
      /\ \A p \in Peer : Knows(m, p) /\ players[p] \in {"connecting", "playing", "failed"} =>
                           players'[p] \in {"connecting", "playing", "failed"}
  <2>1. CASE m.event = "publish" /\ StartPlay({m.peer})
    <3>1. {m.peer} \in SUBSET Peer
      BY <1>1, <1>2 DEF Message
    <3> QED
      BY <1>1, <2>1, <3>1, StartPlayIs DEF Published
  <2>2. CASE m.event \in {"join", "leave"}
    <3> DEFINE dead == {p \in Peer : players[p] # "none" /\ p \notin m.participants}
    <3>1. /\ players' = [p \in Peer |-> IF p \in dead THEN "closed" ELSE players[p]]
          /\ replaced' = replaced \cup {p \in dead : players[p] = "connecting"} /\ UNCHANGED fresh
      BY <2>2 DEF OnEvent
    <3> QED
      BY <1>1, <2>2, <3>1 DEF TypeOK, Published, Knows
  <2> QED
    BY <2>1, <2>2 DEF OnEvent
<1> HIDE DEF m
<1>5. TypeOK'
  <2>1. inbox' \in [Start -> Seq(Message)]
    BY <1>1, <1>2 DEF TypeOK
  <2> QED
    BY <1>1, <1>4, <2>1 DEF TypeOK
<1>6. OnlyLast' /\ Registered'
  BY <1>1 DEF RoomInv, OnlyLast, Registered
<1>7. c \in joined
  BY <1>1, <1>2 DEF RoomInv, JoinFirst
<1>8. JoinFirst'
  <2>1. \A d \in Start : d \notin joined => inbox'[d] = inbox[d]
    BY <1>3, <1>7
  <2>2. joined' = joined /\ conn' = conn /\ demo' = demo
    BY <1>1
  <2> QED
    BY <2>1, <2>2 DEF RoomInv, JoinFirst
<1>9. AllDue'
  <2> SUFFICES ASSUME NEW p \in Peer, room[p] = "publishing" PROVE Due(p)'
    BY <1>1 DEF AllDue
  <2>1. Due(p)
    BY <1>1, <1>7 DEF RoomInv, AllDue
  <2>2. ~JoinReply(m)
    BY <1>1 DEF JoinReply
  <2>3. /\ AllKnow(inbox[c], p) => Knows(m, p) /\ AllKnow(inbox'[c], p)
        /\ Announced(inbox[c], p) => Announced(inbox'[c], p) \/ (Published(m, p) /\ AllKnow(inbox'[c], p))
        /\ AnswerDue(inbox[c], p) => AnswerDue(inbox'[c], p)
    BY <1>1, <1>2, <1>3, <2>2, TailKeeps DEF m
  <2> QED
    BY <1>1, <1>4, <2>1, <2>3 DEF Due
<1> QED
  BY <1>5, <1>6, <1>8, <1>9 DEF RoomInv

(* An answer resolves its promise and startDemo goes on: it publishes, or it *)
(* plays the participants of r0.                                             *)
LEMMA OnReplyKeeps == ASSUME RoomInv, NEW c \in Start, OnReply(c) PROVE RoomInv'
<1> USE DEF server
<1> DEFINE m == Head(inbox[c])
           d == m.to[1]
<1>1. /\ TypeOK /\ OnlyLast /\ Registered /\ c = sig /\ conn[c] = "open" /\ inbox[c] # <<>> /\ sig # 0
      /\ inbox' = [inbox EXCEPT ![c] = Tail(@)] /\ m.type = "reply" /\ m.to \in msgs[c]
      /\ msgs' = [msgs EXCEPT ![c] = @ \ {m.to}]
      /\ UNCHANGED <<server, sig, conn, joined, requests>>
  BY DEF RoomInv, OnlyLast, OnReply, Start
<1>2. /\ inbox[c] \in Seq(Message) /\ Tail(inbox[c]) \in Seq(Message) /\ m = inbox[c][1] /\ m \in Message
      /\ DOMAIN Tail(inbox[c]) = 1 .. Len(inbox[c]) - 1 /\ DOMAIN inbox[c] = 1 .. Len(inbox[c])
      /\ Len(inbox[c]) \in Nat /\ Len(inbox[c]) >= 1
      /\ \A i \in 1 .. Len(inbox[c]) - 1 : Tail(inbox[c])[i] = inbox[c][i + 1]
  BY <1>1, TailIs DEF TypeOK
<1>3. /\ inbox'[c] = Tail(inbox[c]) /\ msgs'[c] = msgs[c] \ {m.to}
      /\ \A e \in Start : e # c => inbox'[e] = inbox[e] /\ msgs'[e] = msgs[e]
  BY <1>1 DEF TypeOK
<1>4. /\ m.to \in Requests /\ d \in Start /\ m.to = <<d, m.to[2]>> /\ m.to[2] \in {"join", "publish"}
      /\ m.participants \subseteq Peer
  BY <1>1, <1>2 DEF TypeOK, Requests, Message
<1>5. \/ /\ m.to[2] = "join" /\ r0' = [r0 EXCEPT ![d] = m.participants]
         /\ demo' = [demo EXCEPT ![d] = "publisher"]
         /\ StartPublish(d) /\ UNCHANGED <<players, replaced, fresh>>
      \/ /\ m.to[2] = "publish" /\ demo' = [demo EXCEPT ![d] = "done"] /\ StartPlay(r0[d])
         /\ UNCHANGED <<r0, publisher, pub, pubOpen>>
  BY DEF OnReply
<1>6. /\ m.to[2] = "join" => d = c /\ demo[d] = "join"
      /\ m.to[2] = "publish" => demo[d] \in {"publish", "failed"}
  <2> HIDE DEF m, d
  <2>1. CASE m.to[2] = "join"
    <3>1. <<d, "join">> \in msgs[c]
      BY <1>1, <1>4, <2>1
    <3> QED
      BY <1>1, <1>4, <2>1, <3>1 DEF Registered
  <2>2. CASE m.to[2] = "publish"
    <3>1. <<d, "publish">> \in msgs[c]
      BY <1>1, <1>4, <2>2
    <3> QED
      BY <1>1, <1>4, <2>2, <3>1 DEF Registered
  <2> QED
    BY <1>4, <2>1, <2>2
<1> HIDE DEF m, d
<1>7. /\ \A e \in Start : e # d => demo'[e] = demo[e] /\ r0'[e] = r0[e]
      /\ demo'[d] = IF m.to[2] = "join" THEN "publisher" ELSE "done"
      /\ r0'[d] = IF m.to[2] = "join" THEN m.participants ELSE r0[d]
      /\ demo' \in [Start -> {"none", "connect", "join", "publisher", "publish", "done", "failed"}]
      /\ r0' \in [Start -> SUBSET Peer]
  <2>1. /\ demo \in [Start -> {"none", "connect", "join", "publisher", "publish", "done", "failed"}]
        /\ r0 \in [Start -> SUBSET Peer]
    BY <1>1 DEF TypeOK
  <2>2. CASE m.to[2] = "join"
    BY <1>4, <1>5, <2>1, <2>2
  <2>3. CASE m.to[2] = "publish"
    BY <1>4, <1>5, <2>1, <2>3
  <2> QED
    BY <1>4, <2>2, <2>3
<1>8. /\ players' \in [Peer -> {"none", "connecting", "playing", "failed", "closed"}]
      /\ replaced' \subseteq Peer /\ fresh' \subseteq Peer
      /\ m.to[2] = "publish" => \A p \in r0[d] : p \in fresh' /\ players'[p] = "connecting"
      /\ \A p \in Peer : p \in fresh => p \in fresh'
      /\ \A p \in Peer : players[p] \in {"connecting", "playing", "failed"} =>
                           players'[p] \in {"connecting", "playing", "failed"}
  <2>1. CASE m.to[2] = "join"
    BY <1>1, <1>5, <2>1 DEF TypeOK
  <2>2. CASE m.to[2] = "publish"
    <3>1. r0[d] \in SUBSET Peer /\ StartPlay(r0[d])
      BY <1>1, <1>4, <1>5, <2>2 DEF TypeOK
    <3> QED
      BY <1>1, <2>2, <3>1, StartPlayIs
  <2> QED
    BY <1>4, <2>1, <2>2
<1>9. TypeOK'
  <2>1. inbox' \in [Start -> Seq(Message)] /\ msgs' \in [Start -> SUBSET Requests]
    BY <1>1, <1>2 DEF TypeOK
  <2>2. /\ pub' \in [Start -> {"none", "prompt", "connecting", "established", "failed"}]
        /\ pubOpen' \subseteq Start /\ publisher' \in 0 .. MaxStarts
    <3>1. /\ pub \in [Start -> {"none", "prompt", "connecting", "established", "failed"}]
          /\ pubOpen \subseteq Start /\ publisher \in 0 .. MaxStarts /\ d \in 0 .. MaxStarts
      BY <1>1, <1>4, RoomAssumption DEF TypeOK, Start
    <3>2. CASE StartPublish(d)
      BY <1>4, <3>1, <3>2 DEF StartPublish
    <3>3. CASE UNCHANGED <<publisher, pub, pubOpen>>
      BY <3>1, <3>3
    <3> QED
      BY <1>5, <3>2, <3>3
  <2> QED
    BY <1>1, <1>7, <1>8, <2>1, <2>2 DEF TypeOK
<1>10. OnlyLast'
  <2>1. demo[d] # "none" /\ demo[d] # "connect"
    BY <1>4, <1>6
  <2> QED
    BY <1>1, <1>3, <1>4, <1>7, <2>1 DEF OnlyLast
<1>11. Registered'
  <2>1. \A e \in Start : demo'[e] \in {"join", "publish"} => e # d /\ demo'[e] = demo[e]
    BY <1>7
  <2>2. \A e \in Start : demo'[e] \in {"join", "publish"} =>
          <<e, demo'[e]>> \in msgs'[sig] /\ conn[sig] \in {"open", "lost"}
    <3> SUFFICES ASSUME NEW e \in Start, demo'[e] \in {"join", "publish"}
                 PROVE  <<e, demo'[e]>> \in msgs'[sig] /\ conn[sig] \in {"open", "lost"}
      OBVIOUS
    <3>1. e # d /\ demo'[e] = demo[e] /\ <<e, demo[e]>> \in msgs[sig]
      BY <1>1, <2>1 DEF Registered
    <3>2. <<e, demo[e]>> # m.to
      BY <1>4, <3>1
    <3> QED
      BY <1>1, <1>3, <3>1, <3>2
  <2>3. \A b, e \in Start : <<e, "join">> \in msgs'[b] => b = e /\ demo'[e] = "join"
    <3> SUFFICES ASSUME NEW b \in Start, NEW e \in Start, <<e, "join">> \in msgs'[b]
                 PROVE  b = e /\ demo'[e] = "join"
      OBVIOUS
    <3>1. <<e, "join">> \in msgs[b] /\ (b = c => <<e, "join">> # m.to)
      BY <1>3
    <3>2. b = e /\ demo[e] = "join"
      BY <1>1, <3>1 DEF Registered
    <3>3. e # d
      <4>1. ASSUME e = d PROVE FALSE
        <5>1. m.to[2] = "join" /\ e = c
          BY <1>4, <1>6, <3>2, <4>1
        <5> QED
          BY <1>4, <3>1, <3>2, <4>1, <5>1
      <4> QED
        BY <4>1
    <3> QED
      BY <1>7, <3>2, <3>3
  <2>4. \A b, e \in Start : <<e, "publish">> \in msgs'[b] => demo'[e] \in {"publish", "failed"}
    <3> SUFFICES ASSUME NEW b \in Start, NEW e \in Start, <<e, "publish">> \in msgs'[b]
                 PROVE  demo'[e] \in {"publish", "failed"}
      OBVIOUS
    <3>1. b = c /\ <<e, "publish">> \in msgs[b] /\ <<e, "publish">> # m.to
      BY <1>1, <1>3 DEF OnlyLast
    <3>2. demo[e] \in {"publish", "failed"}
      BY <1>1, <3>1 DEF Registered
    <3>3. e # d
      BY <1>4, <1>6, <3>1, <3>2
    <3> QED
      BY <1>7, <3>2, <3>3
  <2> QED
    BY <1>1, <2>2, <2>3, <2>4 DEF Registered
<1>12. JoinFirst'
  <2> SUFFICES ASSUME NEW e \in Start, e \notin joined
               PROVE  /\ \A i \in DOMAIN inbox'[e] : inbox'[e][i].type = "reply" /\ ~JoinReply(inbox'[e][i])
                      /\ conn[e] = "open" => demo'[e] = "join"
    BY <1>1 DEF JoinFirst, JoinReply
  <2>1. /\ \A i \in DOMAIN inbox[e] : inbox[e][i].type = "reply" /\ ~JoinReply(inbox[e][i])
        /\ conn[e] = "open" => demo[e] = "join"
    BY DEF RoomInv, JoinFirst
  <2>2. CASE e # c
    <3>1. conn[e] # "open"
      BY <1>1, <2>2 DEF OnlyLast
    <3> QED
      BY <1>3, <2>1, <2>2, <3>1
  <2>3. CASE e = c
    <3>1. ~JoinReply(m)
      BY <1>2, <2>1, <2>3
    <3>2. m.to[2] = "publish" /\ demo[d] \in {"publish", "failed"}
      BY <1>1, <1>4, <1>6, <3>1 DEF JoinReply
    <3>3. d # c
      BY <1>1, <2>1, <2>3, <3>2
    <3>4. \A i \in DOMAIN inbox'[e] : i + 1 \in DOMAIN inbox[e] /\ inbox'[e][i] = inbox[e][i + 1]
      <4>1. DOMAIN inbox'[e] = 1 .. Len(inbox[c]) - 1
        BY <1>2, <1>3, <2>3
      <4>2. \A i \in 1 .. Len(inbox[c]) - 1 : i + 1 \in 1 .. Len(inbox[c])
        BY <1>2
      <4> QED
        BY <1>2, <1>3, <2>3, <4>1, <4>2
    <3> QED
      BY <1>1, <1>7, <2>1, <2>3, <3>3, <3>4
  <2> QED
    BY <2>2, <2>3
<1>13. AllDue'
  <2> SUFFICES ASSUME c \in joined, NEW p \in Peer, room[p] = "publishing" PROVE Due(p)'
    BY <1>1 DEF AllDue
  <2>1. Due(p)
    BY <1>1 DEF RoomInv, AllDue
  <2>2. /\ AllKnow(inbox[c], p) => AllKnow(inbox'[c], p)
        /\ Announced(inbox[c], p) => Announced(inbox'[c], p)
        /\ AnswerDue(inbox[c], p) =>
             \/ AnswerDue(inbox'[c], p)
             \/ m.to[2] = "join" /\ p \in m.participants
    <3>1. ~Published(m, p)
      BY <1>1 DEF Published
    <3> QED
      BY <1>1, <1>2, <1>3, <3>1, TailKeeps DEF m, JoinReply
  <2>3. CASE Announced(inbox[c], p)
    BY <1>1, <2>2, <2>3 DEF Due
  <2>4. CASE p \in fresh /\ players[p] \in {"connecting", "playing", "failed"} /\ AllKnow(inbox[c], p)
    BY <1>1, <1>8, <2>2, <2>4 DEF Due
  <2>5. CASE AnswerDue(inbox[c], p) /\ AllKnow(inbox[c], p)
    <3>1. CASE m.to[2] = "join" /\ p \in m.participants
      <4>1. p \in r0'[c] /\ demo'[c] = "publisher"
        BY <1>6, <1>7, <3>1
      <4> QED
        BY <1>1, <2>2, <2>5, <4>1 DEF Due
    <3> QED
      BY <1>1, <2>2, <2>5, <3>1 DEF Due
  <2>6. CASE p \in r0[c] /\ demo[c] \in {"publisher", "publish"} /\ AllKnow(inbox[c], p)
    <3>1. CASE d = c
      <4>1. m.to[2] = "publish" /\ p \in r0[d]
        BY <1>4, <1>6, <2>6, <3>1
      <4> QED
        BY <1>1, <1>8, <2>2, <2>6, <4>1 DEF Due
    <3>2. CASE d # c
      <4>1. demo'[c] = demo[c] /\ r0'[c] = r0[c]
        BY <1>7, <3>2
      <4> QED
        BY <1>1, <2>2, <2>6, <4>1 DEF Due
    <3> QED
      BY <3>1, <3>2
  <2> QED
    BY <1>1, <2>1, <2>3, <2>4, <2>5, <2>6 DEF Due
<1> QED
  BY <1>9, <1>10, <1>11, <1>12, <1>13 DEF RoomInv

LEMMA RoomStep == RoomInv /\ [Next]_vars => RoomInv'
<1> SUFFICES ASSUME RoomInv, [Next]_vars PROVE RoomInv'
  OBVIOUS
<1>1. CASE UNCHANGED vars
  BY <1>1 DEF vars, server, signal, media, RoomInv, TypeOK, OnlyLast, Registered, JoinFirst, AllDue, Due
<1>2. CASE Next
  BY <1>2, ClickKeeps, PeerActsKeeps, PlaySettlesKeeps, ReplacedPlayFailsKeeps, ServerAnswersKeeps,
     DropKeeps, OpenedKeeps, ConnectFailedKeeps, OnReplyKeeps, OnEventKeeps, CameraGrantedKeeps,
     PublishSettlesKeeps DEF Next
<1> QED
  BY <1>1, <1>2

LEMMA RoomSafe == Spec => []RoomInv
  BY RoomInitial, RoomStep, PTL DEF Spec

(* Whatever clicks, answers and broken connections interleave: who awaits an *)
(* answer of the signalling object is registered with one that was not       *)
(* closed, because close() rejects every promise of msgs and a send on a     *)
(* socket that still connects throws.                                        *)
THEOREM NobodyEverWaitsOnClosed == Spec => []NobodyWaitsOnClosed
<1>1. RoomInv => NobodyWaitsOnClosed
  BY RoomAssumption DEF RoomInv, Registered, OnlyLast, NobodyWaitsOnClosed, TypeOK, Start
<1> QED
  BY <1>1, RoomSafe, PTL

(* When the page has come to rest every participant that publishes has a     *)
(* player of its last publication, for any number of participants, clicks    *)
(* and events: the answer to join and the notifications after it leave no    *)
(* gap, and no list of participants that is still to come closes the player. *)
THEOREM PublishersAlwaysPlayed == Spec => []PublishersPlayed
<1>1. RoomInv => PublishersPlayed
  <2> SUFFICES ASSUME RoomInv, Quiet, NEW p \in Peer, room[p] = "publishing"
               PROVE  p \in fresh /\ players[p] \in {"connecting", "playing", "failed"}
    BY DEF PublishersPlayed
  <2>1. sig \in Start /\ sig # 0 /\ demo[sig] = "done" /\ conn[sig] = "open" /\ inbox[sig] = <<>>
    BY RoomAssumption DEF Quiet, RoomInv, TypeOK, Start
  <2>2. sig \in joined
    BY <2>1 DEF RoomInv, JoinFirst
  <2>3. Due(p)
    BY <2>1, <2>2 DEF RoomInv, AllDue
  <2> QED
    BY <2>1, <2>3 DEF Due, Announced, AnswerDue
<1> QED
  BY <1>1, RoomSafe, PTL

=============================================================================
