------------------------------ MODULE RtcRoom ------------------------------
(* The room demo (demos/room.html): each click of its button runs            *)
(* startDemo, which connects a signalling object (js/srs.sig.js), joins the  *)
(* room, publishes the own stream and plays the streams of the others with   *)
(* the SDK (js/srs.sdk.js). A second click may come at any await of the      *)
(* first. The page's globals are sig, publisher and players. The signalling  *)
(* server is not part of the repository: it is modelled by what the page     *)
(* relies on (it answers every request with the tid of the request and tells *)
(* joined connections who joined, published or left, with the participants). *)
(* Tids are taken to be different; participants have different names.        *)
EXTENDS Naturals, Sequences, FiniteSets

CONSTANTS Peer,      \* the other participants
          MaxStarts, \* bound: clicks of the button
          MaxEvents  \* bound: what the other participants do

ASSUME RoomAssumption == MaxStarts \in Nat /\ MaxEvents \in Nat

Start == 1 .. MaxStarts

VARIABLES
  room,      \* server: who is in the room and publishes
  events,    \* number of things the other participants did
  sig,       \* the global: the signalling object of the last click, 0 for null
  conn,      \* the WebSocket of each signalling object
  joined,    \* connections the server has in the room
  requests,  \* to the server, per connection
  inbox,     \* from the server, per connection
  msgs,      \* _internals.msgs: requests that wait for their answer
  demo,      \* where each startDemo is
  r0,        \* publishing participants of its join answer
  publisher, \* the global: the startDemo that made the publisher, 0 for null
  pub,       \* the promise of each publisher.publish()
  pubOpen,   \* publishers whose self.pc is not null
  players,   \* the session of players[display]
  replaced,  \* sessions of a display that were closed while play() was pending
  fresh      \* players begun after the participant published last

server == <<room, events>>
signal == <<conn, joined, requests, inbox, msgs>>
media == <<publisher, pub, pubOpen, players, replaced, fresh>>
vars == <<server, sig, signal, demo, r0, media>>

Member == {"out", "in", "publishing"}
Requests == Start \X {"join", "publish"}
Message ==
  [type : {"event"}, event : {"join", "publish", "leave"}, peer : Peer,
   participants : SUBSET Peer]
  \cup [type : {"reply"}, to : Requests, participants : SUBSET Peer]

TypeOK ==
  /\ room \in [Peer -> Member] /\ events \in 0 .. MaxEvents
  /\ sig \in 0 .. MaxStarts /\ publisher \in 0 .. MaxStarts
  /\ conn \in [Start -> {"none", "connecting", "open", "closed", "lost"}]
  /\ joined \subseteq Start
  /\ requests \in [Start -> Seq(Requests)]
  /\ inbox \in [Start -> Seq(Message)]
  /\ msgs \in [Start -> SUBSET Requests]
  /\ demo \in [Start -> {"none", "connect", "join", "publisher", "publish", "done", "failed"}]
  /\ r0 \in [Start -> SUBSET Peer]
  /\ pub \in [Start -> {"none", "prompt", "connecting", "established", "failed"}]
  /\ pubOpen \subseteq Start
  /\ players \in [Peer -> {"none", "connecting", "playing", "failed", "closed"}]
  /\ replaced \subseteq Peer /\ fresh \subseteq Peer

Init ==
  /\ room \in [Peer -> Member] /\ events = 0
  /\ sig = 0 /\ publisher = 0
  /\ conn = [c \in Start |-> "none"] /\ joined = {}
  /\ requests = [c \in Start |-> <<>>] /\ inbox = [c \in Start |-> <<>>]
  /\ msgs = [c \in Start |-> {}]
  /\ demo = [d \in Start |-> "none"] /\ r0 = [d \in Start |-> {}]
  /\ pub = [d \in Start |-> "none"] /\ pubOpen = {}
  /\ players = [p \in Peer |-> "none"] /\ replaced = {} /\ fresh = {}

-----------------------------------------------------------------------------
(* The server and the other participants (external).                         *)

Present(r) == {p \in Peer : r[p] # "out"}

Tell(e, p, r) == inbox' = [c \in Start |->
  IF c \in joined /\ conn[c] = "open"
    THEN Append(inbox[c], [type |-> "event", event |-> e, peer |-> p,
                           participants |-> Present(r)])
    ELSE inbox[c]]

PeerActs(p) ==
  /\ events < MaxEvents
  /\ events' = events + 1
  /\ \/ room[p] = "out" /\ room' = [room EXCEPT ![p] = "in"] /\ Tell("join", p, room')
     \/ room[p] = "in" /\ room' = [room EXCEPT ![p] = "publishing"] /\ Tell("publish", p, room')
     \/ room[p] # "out" /\ room' = [room EXCEPT ![p] = "out"] /\ Tell("leave", p, room')
  /\ fresh' = fresh \ {p}
  /\ UNCHANGED <<sig, conn, joined, requests, msgs, demo, r0,
                 publisher, pub, pubOpen, players, replaced>>

ServerAnswers(c) ==
  /\ conn[c] = "open" /\ requests[c] # <<>>
  /\ requests' = [requests EXCEPT ![c] = Tail(@)]
  /\ joined' = IF Head(requests[c])[2] = "join" THEN joined \cup {c} ELSE joined
  /\ inbox' = [inbox EXCEPT ![c] = Append(@,
       [type |-> "reply", to |-> Head(requests[c]),
        participants |-> {p \in Peer : room[p] = "publishing"}])]
  /\ UNCHANGED <<server, sig, conn, msgs, demo, r0, media>>

(* The connection breaks: nothing listens for ws.onclose.                    *)
Drop(c) ==
  /\ conn[c] = "open"
  /\ conn' = [conn EXCEPT ![c] = "lost"]
  /\ inbox' = [inbox EXCEPT ![c] = <<>>]
  /\ requests' = [requests EXCEPT ![c] = <<>>]
  /\ UNCHANGED <<server, sig, joined, msgs, demo, r0, media>>

-----------------------------------------------------------------------------
(* Mutant: close() forgets the promises.                                     *)
ForgottenByClose(d) == FALSE

(* close() of the signalling object rejects every promise in its msgs.       *)
RejectedByClose(d) == sig # 0 /\ <<d, demo[d]>> \in msgs[sig]

(* startDemo up to its first await: the former signalling object is closed,  *)
(* which rejects what waits on it, and the new one connects.                 *)
Click ==
  /\ sig < MaxStarts
  /\ sig' = sig + 1
  /\ conn' = [c \in Start |-> IF c = sig + 1 THEN "connecting"
                              ELSE IF c = sig THEN "closed" ELSE conn[c]]
  /\ msgs' = [c \in Start |-> IF c = sig THEN {} ELSE msgs[c]]
  /\ demo' = [d \in Start |->
       IF d = sig + 1 THEN "connect"
       ELSE IF (d = sig /\ demo[d] = "connect") \/ RejectedByClose(d)
         THEN "failed" ELSE demo[d]]
  /\ inbox' = [inbox EXCEPT ![sig + 1] = <<>>]
  /\ UNCHANGED <<server, joined, requests, r0, media>>

(* Mutant: the promise is not registered under its tid.                      *)
UnregisteredSend(d, action) ==
  /\ requests' = IF conn[sig] = "open"
                   THEN [requests EXCEPT ![sig] = Append(@, <<d, action>>)] ELSE requests
  /\ demo' = [demo EXCEPT ![d] = IF conn[sig] = "connecting" THEN "failed" ELSE action]
  /\ UNCHANGED msgs

(* self.send on the global sig: a socket that is still connecting throws, a  *)
(* broken one swallows the message, and the caller waits for the answer.     *)
Send(d, action) ==
  /\ msgs' = [msgs EXCEPT ![sig] = @ \cup {<<d, action>>}]
  /\ requests' = IF conn[sig] = "open"
                   THEN [requests EXCEPT ![sig] = Append(@, <<d, action>>)] ELSE requests
  /\ demo' = [demo EXCEPT ![d] = IF conn[sig] = "connecting" THEN "failed" ELSE action]

(* ws.onopen resolves connect(), and startDemo asks to join.                 *)
Opened(d) ==
  /\ conn[d] = "connecting"
  /\ conn' = [conn EXCEPT ![d] = "open"]
  /\ msgs' = [msgs EXCEPT ![d] = @ \cup {<<d, "join">>}]
  /\ requests' = [requests EXCEPT ![d] = Append(@, <<d, "join">>)]
  /\ demo' = [demo EXCEPT ![d] = "join"]
  /\ UNCHANGED <<server, sig, joined, inbox, r0, media>>

(* ws.onerror rejects connect(); nobody catches it.                          *)
ConnectFailed(d) ==
  /\ conn[d] = "connecting"
  /\ conn' = [conn EXCEPT ![d] = "lost"]
  /\ demo' = [demo EXCEPT ![d] = "failed"]
  /\ UNCHANGED <<server, sig, joined, requests, inbox, msgs, r0, media>>

(* Mutant: a participant that has a player is not played again.              *)
OnceStartPlay(S) ==
  LET T == {p \in S : players[p] = "none"}
  IN /\ players' = [p \in Peer |-> IF p \in T THEN "connecting" ELSE players[p]]
     /\ fresh' = fresh \cup T
     /\ UNCHANGED replaced

(* startPlay for every participant of S: a player of the same name is closed *)
(* and replaced.                                                             *)
StartPlay(S) ==
  /\ players' = [p \in Peer |-> IF p \in S THEN "connecting" ELSE players[p]]
  /\ replaced' = replaced \cup {p \in S : players[p] = "connecting"}
  /\ fresh' = fresh \cup S

(* startPublish: the former publisher is closed and a new one made, which    *)
(* asks for the camera.                                                      *)
StartPublish(d) ==
  /\ publisher' = d
  /\ pub' = [pub EXCEPT ![d] = "prompt"]
  /\ pubOpen' = (pubOpen \ {publisher}) \cup {d}

(* ws.onmessage for an answer: its promise resolves, startDemo goes on.      *)
OnReply(c) ==
  /\ conn[c] = "open" /\ inbox[c] # <<>>
  /\ LET m == Head(inbox[c]) IN
     /\ m.type = "reply" /\ m.to \in msgs[c]
     /\ msgs' = [msgs EXCEPT ![c] = @ \ {m.to}]
     /\ LET d == m.to[1] IN
        \/ /\ m.to[2] = "join"
           /\ r0' = [r0 EXCEPT ![d] = m.participants]
           /\ demo' = [demo EXCEPT ![d] = "publisher"]
           /\ StartPublish(d)
           /\ UNCHANGED <<players, replaced, fresh>>
        \/ /\ m.to[2] = "publish"
           /\ demo' = [demo EXCEPT ![d] = "done"]
           /\ StartPlay(r0[d])
           /\ UNCHANGED <<r0, publisher, pub, pubOpen>>
  /\ inbox' = [inbox EXCEPT ![c] = Tail(@)]
  /\ UNCHANGED <<server, sig, conn, joined, requests>>

(* ws.onmessage for a notification: page's sig.onmessage plays who publishes *)
(* and closes the players of those who are gone.                             *)
OnEvent(c) ==
  /\ conn[c] = "open" /\ inbox[c] # <<>>
  /\ LET m == Head(inbox[c]) IN
     /\ m.type = "event"
     /\ \/ m.event = "publish" /\ StartPlay({m.peer})
        \/ /\ m.event \in {"join", "leave"}
           /\ LET dead == {p \in Peer : players[p] # "none" /\ p \notin m.participants} IN
              /\ players' = [p \in Peer |-> IF p \in dead THEN "closed" ELSE players[p]]
              /\ replaced' = replaced \cup {p \in dead : players[p] = "connecting"}
              /\ UNCHANGED fresh
  /\ inbox' = [inbox EXCEPT ![c] = Tail(@)]
  /\ UNCHANGED <<server, sig, conn, joined, requests, msgs, demo, r0, publisher, pub, pubOpen>>

-----------------------------------------------------------------------------
(* publisher.publish(): the user grants the camera; the negotiation with the *)
(* media server ends. A publisher that was closed meanwhile fails, and the   *)
(* catch handler closes the publisher the page has by then. Either way       *)
(* startDemo goes on and reports the publication.                            *)
CameraGranted(d) ==
  /\ pub[d] = "prompt" /\ d \in pubOpen
  /\ pub' = [pub EXCEPT ![d] = "connecting"]
  /\ UNCHANGED <<server, sig, signal, demo, r0, publisher, pubOpen, players, replaced, fresh>>

PublishSettles(d) ==
  /\ pub[d] \in {"prompt", "connecting"} /\ demo[d] = "publisher"
  /\ \/ /\ pub[d] = "connecting" /\ d \in pubOpen
        /\ pub' = [pub EXCEPT ![d] = "established"]
        /\ UNCHANGED pubOpen
     \/ /\ pub' = [pub EXCEPT ![d] = "failed"]
        /\ pubOpen' = pubOpen \ {publisher}
  /\ Send(d, "publish")
  /\ UNCHANGED <<server, sig, conn, joined, inbox, r0, publisher, players, replaced, fresh>>

(* player.play() settles. The handlers use the player of their own call.     *)
PlaySettles(p) ==
  /\ players[p] = "connecting"
  /\ \E result \in {"playing", "failed"} : players' = [players EXCEPT ![p] = result]
  /\ UNCHANGED <<server, sig, signal, demo, r0, publisher, pub, pubOpen, replaced, fresh>>

(* play() of a player that was closed or replaced meanwhile fails; its catch *)
(* handler closes it once more.                                              *)
ReplacedPlayFails(p) ==
  /\ p \in replaced
  /\ replaced' = replaced \ {p}
  /\ UNCHANGED <<server, sig, signal, demo, r0, publisher, pub, pubOpen, players, fresh>>

Next ==
  \/ Click
  \/ \E p \in Peer : PeerActs(p) \/ PlaySettles(p) \/ ReplacedPlayFails(p)
  \/ \E c \in Start :
       \/ ServerAnswers(c) \/ Drop(c) \/ Opened(c) \/ ConnectFailed(c)
       \/ OnReply(c) \/ OnEvent(c) \/ CameraGranted(c) \/ PublishSettles(c)

(* The server answers, messages arrive, and a publish() whose connection is  *)
(* open settles once the camera is granted. Nobody has to grant it, to click *)
(* or to act in the room.                                                    *)
Fairness == \A c \in Start :
  /\ WF_vars(ServerAnswers(c)) /\ WF_vars(OnReply(c) \/ OnEvent(c))
  /\ WF_vars(Opened(c) \/ ConnectFailed(c))
  /\ WF_vars(pub[c] = "connecting" /\ c \in pubOpen /\ PublishSettles(c))

Spec == Init /\ [][Next]_vars /\ Fairness

-----------------------------------------------------------------------------
Quiet == sig # 0 /\ demo[sig] = "done" /\ conn[sig] = "open" /\ inbox[sig] = <<>>

(* When the last startDemo is through and every notification is handled,     *)
(* each participant that publishes has a player begun after its publication, *)
(* and nobody but its own failure ended it: neither the snapshot r0, which   *)
(* is old by the time it is used, nor a notification that overtakes it, nor  *)
(* a second click loses a participant.                                       *)
PublishersPlayed == Quiet =>
  \A p \in Peer : room[p] = "publishing" =>
    p \in fresh /\ players[p] \in {"connecting", "playing", "failed"}

(* No startDemo waits on a signalling object that close() ended: what waits  *)
(* for an answer is registered with an object whose answer may still come.   *)
NobodyWaitsOnClosed ==
  \A d \in Start : demo[d] \in {"join", "publish"} =>
    \E c \in Start : <<d, demo[d]>> \in msgs[c] /\ conn[c] \in {"open", "lost"}

(* Once the camera is granted startDemo comes to an end, unless the socket   *)
(* breaks (nothing handles ws.onclose) or its publisher is closed by another *)
(* click.                                                                    *)
DemoEnds == \A d \in Start :
  demo[d] \notin {"none", "done", "failed"} ~>
    \/ demo[d] \in {"done", "failed"}
    \/ demo[d] = "publisher" /\ (pub[d] = "prompt" \/ d \notin pubOpen)
    \/ \E c \in Start : conn[c] = "lost"

=============================================================================
