# TLA+ models of Go-Live-Streaming

The repository holds two programs. The Go server in `livego/` takes live streams over RTMP
and serves them over RTMP, HTTP-FLV and HLS. The web front end in `live-streaming-web/` plays
and publishes them: the WebRTC pages and their SDK, a room demo with a signalling client, the
console of the media server, the older Flash pages, a Vue application, and the WebRTC adapter
that smooths over the browsers. This directory holds TLA+ models of both, the TLC runs that
check them and TLAPS proofs about them.

Server paths below are relative to `livego/`. Web paths are relative to
`live-streaming-web/nginx/html/`, except those of the Vue application (`src/views`);
"adapter" is `players/js/adapter-7.4.0.js`.

## 1. The system

### The server

| Component | State | Operations | Talks to |
|---|---|---|---|
| Room keys (`configure/channel.go`) | one map, room -> key and key -> room (go-cache, or redis) | SetKey, GetKey, GetChannel, DeleteChannel, DeleteKey | management API, RTMP admission |
| Stream hub (`protocol/rtmp/stream.go`) | registry key -> Stream; per Stream isStart, r, ws, cache | HandleReader, HandleWriter, CheckAlive, TransStart, TransStop, Copy, closeInter | every publisher and player |
| Cache (`protocol/rtmp/cache`) | ring of groups of pictures, metadata, video and audio sequence header | Write, Send | TransStart writes and sends; HLS rewrites what it is sent |
| RTMP writer/reader (`protocol/rtmp/rtmp.go`) | packetQueue, closed, connection | Write, DropPacket, SendPacket, Check, Close; Read | TransStart, CheckAlive, closeInter |
| Relays, static push (`protocol/rtmp/rtmprelay`) | object per URL, startflag, channels | Start, Stop, WriteAvPacket | hub, management API |
| RTMP core (`protocol/rtmp/core`) | chunk streams, window counters, command state | Read, Write, handshake, commands | reader, writer, relays |
| HLS (`protocol/hls`) | sources per key, segment list, segment cutter | GetWriter, Write, SendPacket, checkStop, HTTP | hub (as a writer), HTTP clients |
| HTTP-FLV (`protocol/httpflv`) | queue, closed, closedChan | Write, DropPacket, SendPacket, Wait, Close | hub (as a writer), HTTP clients |
| Management API (`protocol/api/api.go`) | relay sessions | get, reset, delete, pull, push, statistics | room keys, relays, hub |
| Containers, parsers, AMF, utilities | none shared | pure conversions | all of the above |

Every connection, every TransStart, every sender and every timer is a goroutine. The hub
shares `isStart`, `r`, the registry and `ws` between them with no lock except the one inside
`sync.Map`; a writer shares `closed` with none at all. What is hard is therefore the
interleavings (a takeover against CheckAlive against the old publisher's shutdown; Close
against Close), values read before and used after another goroutine's step (the key
DeleteChannel read, the stream CheckAlive scanned), queues at their limits (DropPacket), and
what must eventually happen (a stopped publisher ends, Write returns).

### The web front end

| Component | State | Operations | Talks to |
|---|---|---|---|
| WebRTC pages and SDK (`players/rtc_*.html`, `whip.html`, `whep.html`, `players/js/srs.sdk.js`) | the global `sdk`; per object `pc`, `stream` | the button; publish, play (plain, WHIP, WHEP), close | browser, HTTP API of the media server |
| Room demo (`demos/room.html`, `demos/js/srs.sig.js`, `demos/js/srs.sdk.js`) | `sig`, `publisher`, `players`; waiting requests `msgs` | startDemo, connect, send, close, events | signalling server over a WebSocket, SDK |
| Console (`console/js/srs.console.js`, `console/js/winlin.utility.js`) | the route, the refresher's call object, rates, messages | nine controllers, AsyncRefresh2 | HTTP API of the media server |
| Option editor (`console/js/srs.console.js`, `bravo_popover`) | value, old value, editing, popover | edit, submit, cancel, load default | console |
| Flash objects (`players/js/srs.player.js`, `srs.publisher.js`) | lists the plugin's callbacks search, fluency account, buffer times | play, publish, stop, set_bt, set_mbt, callbacks | Flash plugin |
| Addresses and text helpers (`srs.page.js`, `winlin.utility.js`) | none | build, parse, trim, format | all pages |
| Vue pages (`src/views`) | flv.js player, timers, camera stream | play, start, stop, beforeUnmount | flv.js, getUserMedia |
| Adapter, Edge (adapter 2864-4723) | transceivers, gatherers, transports, descriptions, buffers | the RTCPeerConnection interface | ORTC objects |
| Adapter, other browsers | stream maps, listeners, last states | addStream, addTrack, removeTrack, events | native RTCPeerConnection |

JavaScript runs one handler at a time, so what is hard is everything between two handlers: a
second click while a promise of the first is pending, a late answer that finds another page, a
timer that outlives what it was made for, candidates that are found before anybody listens,
a user who grants the camera after the session was closed, and values that pass through several
parsers with defaults of their own. `PROJECT.json` lists the hazards of both programs, each at
its line, with the properties aimed at it.

What makes the parts correct: a page has at most one live session and shows that one; in a room
everybody who publishes is played; the page on screen, and no other, is refreshed; an edit
that is cancelled leaves no trace; what a page asks for is what reaches the server; a
connection's candidates are announced once and its descriptions fit each other.

## 2. The modules

### The server

#### RoomKeys (proofs: RoomKeysProofs)

`cache` is the map, `saveInLocal` tells which of the two storages it is; `pc`, `op`, `room`, `key`, `reply` describe the call each goroutine is
in. One action per access: `SetKeyDraw` (draw and lookup), `SetKeyStoreChannel`,
`SetKeyStoreKey`, `GetKey`, `GetChannel`, `DeleteChannel`/`DeleteKey` (lookup), `DropChannel`,
`DropKey`; with redis `RedisDelete` and `RedisError` (any command may fail). Requests are
those of the API handlers and of `handleConn`; `HaveKey` continues a publisher without
authentication into `GetChannel`. A publisher may send any name, a key (`PublishWithKey`) or the name of a
room (`PublishWithRoom`), which the map resolves too: to the room's key. Requests that name no room are
refused before the map is touched and are left out.

Assumed: room names are not generated keys, and a draw of 48 random runes never equals a key
that another call in progress holds (it may repeat any older key). Without the second
assumption two SetKey calls could draw the same key at once.

#### GopCache (proofs: GopCacheProofs)

`start`, `num`, `nextindex`, `gops` are the fields of GopCache, a nil slot being the empty
sequence; `metadata`, `videoSeq`, `audioSeq` the special slots. `Write` is one iteration of
TransStart up to `cache.Write`: the packet read gets its header (`DemuxH`; a packet too short
to parse keeps the header of the packet before it, as the code does) and is filed by `Route`.
`Replay` is what `sendTo` sends. `SendToHls` and `HlsDemux` model which packets the HLS
goroutine holds by reference and rewrites. A packet is its kind and two sequence numbers.

#### VirWriter (proofs: VirWriterProofs)

One player's writer: `queue`/`chanClosed` are the Go channel, `closed` the unsynchronised
flag. The producer (TransStart) goes through Write and DropPacket one channel or flag access
at a time; the sender receives and writes; the callers of Close (`Closers`) may overlap. Sends on a closed
channel are recovered in Write (the producer deletes the writer); a second `close` is a panic
nobody recovers (`crashed`). `SendTaken` and `SendFails` are the two outcomes of conn.Write, which may
also never return while the connection is open. A failed one sets `closed` and leaves the
channel open, after which Close does not close it either (`Abandoned`). The marks of the code
(1024, 1000, 940, 1014, 1022) are the constants `MaxQueueNum`, `HighWater`, `DropRounds`, `VideoMark`,
`AudioMark`; only their order matters.

#### StreamHub (proofs: StreamHubProofs)

All streams of one key (keys do not interact). `reg` is the registry entry, `isStart`, `r`,
`ws` the fields of each Stream; `hr`, `ts`, `hw`, `ca` are the goroutines HandleReader,
TransStart, HandleWriter and CheckAlive, one step per access to shared state. A `Range` over `ws`
takes its set of entries when it begins and visits each that is still there (sync.Map allows more, never less).
A delivery to one writer is one step; a visit of closeInter is two, because Copy may move the writer between
the load and the Close, one of CheckAlive two (delete, close), one of Copy three (load, delete, add); TransStop reads `isStart`
and `r`, closes the reader there is by then, and clears `isStart`, in three steps. `rd` is the reader whose Read a TransStart is in,
which may no longer be the stream's. Whether a connection is `Alive()` is a free choice at the visit. `Overlap` names the calls that may be in progress while another begins: the code allows all of
them; with none the runs show what the design guarantees when calls do not overlap.

The module does not say which packets a player receives (two publishers mixed in one player
are outside it) nor how long a read blocks.

#### HlsSegments (proofs: HlsSegmentsProofs)

One HLS Source from the queue on. The sender takes packets of every kind `parse` tells
apart, collects audio in `frames` (audioCache), writes `btswriter`, and at a key frame after
`Duration` cuts: `Cut` flushes the audio and builds the item, `SetItemRemove`, `SetItemDelete`,
`SetItemStore` and `SetItemPush` are the four accesses of SetItem, `MuxKey` begins the next segment.
`PlaylistFront`, `PlaylistVisit` and `PlaylistNext` are GenM3U8PlayList in an HTTP handler; the
walk ends at an element that SetItem has unlinked, as in container/list. A lookup that meets a map write
may also abort the process (`MapRace`). Time stamps wrap at `TsMod`; the wall clock of the file
names may stand still between two cuts, which `reused` remembers.

### The web front end

#### RtcSession (implements OneSession; proofs: RtcProofs)

One of the four WebRTC pages and its SDK objects, one per click. `step[s]` is the await at
which the async function of session s is suspended, `attached` holds the sessions whose
`self.pc` is not null. `Start` is the button's handler (close, new object, publish or play up
to its first await); `GotMedia`, `MediaDenied`, `OfferMade`, `LocalSet`, `Answered`,
`RequestLost`, `RemoteSet`, `NegotiationFailed` resume it. `PublishAccepts`, `PlayAccepts`,
`WhipAccepts` and `WhepAccepts` say which answers each page takes for a success. A rejection
runs the page's catch handler, which closes whatever the global holds by then (`Reject`).
OneSession states what a user may rely on: at most one live session, ended by opening the next,
never revived. RtcSession instantiates it (`Abstract`) with the mapping `phase`, computed from `step` and `attached`.

#### RtcRoom (proofs: RtcProofs)

startDemo at each of its awaits (`demo`), the signalling object with its requests in `msgs`,
the messages under way in both directions, and the page's publisher and players. The
signalling server is not in the repository; it answers with the request's tid and tells joined
connections what happens, as the page expects (`Tell`, `ServerAnswers`, `PeerActs`), and a
connection may break (`Drop`). `r0` is the snapshot of participants the join answer brought, used after
two more awaits.

#### Console (proofs: WebPagesProofs)

`pages` are the routes visited, `calls` every call object of AsyncRefresh2 with its timer,
`flight` the requests without an answer. `Visit` is a route change (disable, log, controller);
`Answer` runs the callback of any request in flight, also of a page that was left; `Fire` is a
timer. Every controller is an operator (`ConnectPage`, `PollingPage`, `StreamsPage` ...).

#### EdgePC (proofs: EdgePCProofs)

The RTCPeerConnection the adapter builds on ORTC objects: `lines` are its transceivers,
`gatherers` and `transports` the ORTC objects ever made, `timers` its zero-delay timers in
order. The buffer of early candidates belongs to the m-line (`buffering`, `buffer`), as `bufferedCandidateEvents` belongs to the
transceiver; the gatherer's listener (`listens`) looks it up by the m-line's index, so that a transceiver that is replaced takes the
buffer with it. `made` holds every description created so far, and any of them may be applied at any time. Calls are addTrack, removeTrack, createOffer, createAnswer, setLocalDescription,
setRemoteDescription, addIceCandidate and close; a call that throws half way leaves what it did
so far (`damaged`). A description is applied m-line by m-line: `OfferLines`, `GatherLines`, `AnswerLines` and
`RemoteSections` are the loops, and `Replay` the one over buffered candidates. `LocalCandidate`, `IceTransportStateChange` and
`DtlsTransportStateChange` are the browser's. History variables name what the code loses: `cut` a gatherer whose
handler was deleted or whose m-line was replaced, `unseen` an end after which nobody looks again, `twice` what was
dispatched again, `damaged` a call that threw half way.

Assumed of the peer's descriptions: kinds as in the m-lines there are, no fewer m-lines than before, an
answer with as many as the offer. Any m-line may be rejected, the first too, but not the first of a bundle, nor
does a bundle take a rejected first m-line up again (the code would take the transports of the object it replaces).

#### ConsoleEditor, FlashPlayer, VuePages, LocalStreams, RemoteEvents, FirefoxEncodings, LocalMedia (proofs: WebPagesProofs)

State machines that share nothing with each other: the option editor with its popover; the
lists, the fluency account and the buffer times of the Flash objects; timers, player and camera
of the two Vue views across `beforeUnmount`, in a browser that has flv.js support or not (`isSupported`); which local streams a connection sends in
Chrome before 65, Chrome and Safari (before 65 with the signalling state: negotiationneeded is `queued`, then
heard by the page, `needed`, or `swallowed` by fixNegotiationNeeded outside `stable`); the events the adapter makes up (addstream, track,
connectionstatechange); the encodings that Firefox takes only after addTransceiver, and the
descriptions that wait for them (`promises` is the connection's list, `dropped` what was taken
off it before it was set). LocalMedia joins the two that are about what a connection sends.

#### UrlHelpers, SdpText, WebText, AdapterShims

Pure functions. UrlHelpers: addresses as records, built from a page's query, read by the
browser (`AnchorPort` drops the default port of the scheme) and parsed by the SDK, the demos,
the console and the player page; of WHIP and WHEP the schema that the query names is kept (`schemaQuery`) beside the
one the request uses. SdpText: a media section is written to lines and read again;
common capabilities (a codec has `channels`, which is written first, and `numChannels`, which is lowered), candidates, ICE servers,
data channel lines, RTCIceCandidate. WebText: array and string helpers, sizes, rates
and times. AdapterShims: message sizes (where the page reads the adapter's `sctp` and where Chrome's own), camera constraints, facing mode,
offer options, statistics of a track, wrapped event handlers (kept by the source text of the callback), renamed camera errors, callbacks
in place of promises, the empty candidate that ends a list.

#### MCWeb

Runs each of these state machines by itself (`part`), and each pure function on every input
of a small set (`job`), comparing the result with what was put in.

## 3. The runs

| Run | Question | Result |
|---|---|---|
| `room_keys` | two goroutines, two rooms, two keys, local cache or failing redis | with the cache keys stay accepted and publishers land where they asked; in both no key in use is rebound |
| `gop_cache` | ring of 2, capacity 2, six packets of all eight kinds | whole groups, replayed oldest first, special slots intact |
| `gop_count3` | the same with `gop_num` 3 | nil slot dereferenced: violation |
| `vir_writer` | queue of 6, mark 3, 2 rounds, four packets of four kinds, two overlapping callers of Close, conn.Write that fails or hangs | queue below its mark; nothing kept is lost, nothing doubled; Close leaves connection and queue closed and Write returns, unless a failed conn.Write abandoned the queue |
| `stream_hub_calm` | two publishers, two players (one is the recorder), no overlap | one feeder, registered, with all open players |
| `stream_hub_races` | every overlap, two publishers, one player | no player lost unclosed; a Read of a closed connection ends its loop, also when the stream has another reader by then |
| `hls_segments` | nine packets, two segments kept, audio cache of 2, a playlist built meanwhile | segments partition the stream; list and map agree; no playlist has a gap |
| `rtc_session` | any of four pages, three clicks | implements OneSession; id shown and offer fit the session; attached sessions settle |
| `rtc_room` | one participant, two starts, three events, connections that break | publishers are played by a player begun after they published; nobody waits on a closed object; starts end |
| `console` | three route changes, four requests, every order of answers | only the last call polls, and goes on polling |
| `edge_pc` | two media lines, four calls, any description made so far, one candidate per gatherer, three timers | descriptions pair; candidates once, completion reported; the bundle shares transports; media only on started ones |
| `web` | each part by itself, pure functions over small inputs | edits, accounts, pages, streams and events are consistent; addresses, SDP and helpers keep what they are given |

The violation is the finding in `PROJECT.json`: an out-of-range slot for `gop_num` 3 and more.
Properties that are conjunctions (ReplaysLastGroups, PlaylistContiguous,
OneFeeder, CloseCompletes, WriteReturns, FlashAccounts, LocalMediaKept, AddressesAsAsked, HelpersKept) name
their parts in the module.

### Disagreements the models also reach

Each by the steps of the code named; no run is kept for them.

Server:

- A failed conn.Write sets `closed` without closing the queue (`rtmp.go:335`); a Write inside
  DropPacket then waits for ever and all players of the stream starve: WriteReturns and CloseCompletes except this
  outcome (`Abandoned`), and are violated without the exception.
- Two goroutines inside Close both close the channel (`rtmp.go:361`), and nobody recovers the panic: `crashed`.
- A player's conn.Write has no deadline once the handshake is over (`core/handshake.go:205`): it hangs until
  CheckAlive, which finds that no packet was sent for the timeout, closes the connection.
- CheckAlive deletes the key it scanned, whatever it names by then (`stream.go:83`): a publisher that
  took over meanwhile is unregistered.
- After a takeover the old TransStart stops the static push of the new publisher
  (`stream.go:398`), seen with `StaticPush`.
- With redis a deletion that succeeds is answered "room not found" (`RedisDelete`); a reset
  leaves the old key of the room in the map (`SetKeyStoreKey`).
- The packets of the ring are rewritten by the HLS sender while they are cached (`SharedByArray`,
  `HlsDemux`); old pictures are replayed after a new sequence header (`cache.go:62`).
- A key frame that is offered when the queue is at its mark is dropped (`WriteCheckLen`); packets
  DropPacket puts back go behind later ones (`rtmp.go:265`).
- A publisher that is replaced before its TransStart goroutine has run is not stopped
  (OneFeeder with TransStart overlapping, in the table below); a player that comes before its
  publisher is left out of the stream (`stream.go:64`).
- Two HLS segments cut within one second share a file name (`source.go:198`); one packet that is too short
  ends the HLS sender (`source.go:147`).

Web:

- The catch handler of a session that was replaced closes the session that replaced it, because
  it closes the global (`Reject`); OneSession allows it, the user loses the new session.
- WHIP and WHEP test `.code` of a text, so an error with status 200 or 201 is taken for an answer.
- A lost request (no onerror) or a lost socket (no ws.onclose) leaves its promise pending.
- refresh_change clears a field that does not exist: timers of left pages still fire, and only
  the disabled call object keeps them quiet. A late vhosts answer of the streams page takes the
  refresher from the page shown.
- A Flash player is never unregistered (`PlayerClosed`).
- Without HTTP-FLV support the Vue page plays nothing and says nothing (`isSupported`).
- RTMP_Push loses a camera that is granted after stop, after leaving or twice; nothing can stop it.
- Four comments are not what the code does, and AddressesAsAsked, SdpKept and HelpersKept say what it does: WHIP
  and WHEP keep the page's protocol, whatever `schema=` says (`srs.page.js:144` against the hint it prints, line 125); an FLV
  address without a port has 8080 under http, not 1935 (`srs.page.js:69` against line 60); an answer names the offerer's
  channels, not the highest common number, because only numChannels is lowered (`adapter-7.4.0.js:4882` against line 3022);
  trim leaves the flag at the end of a text that holds it earlier as well (`winlin.utility.js:148` against line 152).
- An HTTPS page with schema=http uses port 443; `rtmp://host:80` becomes 1935; in the demos a
  vhost= before host= is read as the host.
- Chrome before 65: a track without a stream throws, which is how the SDK adds tracks; tracks that
  two streams share break the maps; negotiationneeded outside the stable state is swallowed and not
  fired again, so that what was added meanwhile is not offered (`swallowed`). Chrome: a reused sender leaves its stream unlisted.
- An exact front camera with the wish for the back one picks the back one as exact; offerToReceive true
  does not revive a send-only transceiver; the wrapped handlers of two events share one table, whose keys
  are the source texts of the callbacks, so that of two closures of the same text one cannot be removed.
- Firefox: the next addTransceiver, or the end of an earlier createOffer, empties the list of
  encodings that are being set, so that a description does not wait for them; a setParameters
  that fails is ignored (`dropped` in FirefoxEncodings).
- Edge: a call with a success callback only loses its error; the callback of getStats gets no argument (`EdgeCallbacks`).
- Edge: a track added between createOffer and setLocalDescription makes the latter throw half
  way; createOffer throws when the peer rejected an m-line.
- Edge: a transceiver that is rejected or taken up again loses the candidates buffered in it (`cut`); an end that a
  later m-line of a bundle hears, or that comes before an m-line joins the first gatherer, is not looked at
  again, and gathering is never reported complete (`unseen`), nor is it after an m-line was rejected.
- Edge: a candidate's related port 0 is not written; a turns: server hides the turn: one after it.

What one kind of overlap at a time breaks in StreamHub (X: violated), found with the bounds
of `stream_hub_races`:

| | HandleReader | HandleWriter | CheckAlive | TransStart |
|---|---|---|---|---|
| OneFeeder | X | X | X | X |
| RunningIsRegistered | X | X | X | X |
| PlayerFollowsTakeover | X | X | X | |

**Bounds.** Two publishers are one takeover, the only way publishers of a key interact; two
players are the two kinds closeInter tells apart. Two keys for two rooms let a reset keep an
old key, a deletion return one and the other room draw it; the theorems cover any number. Six packets fill a ring of two,
reuse a slot and overflow a group of two. Four packets bring the queue to its mark of 3 and
leave one to offer, so that DropPacket runs against the sender and the closers; two rounds exercise the loop's
repetition and end. `Closers` are two of the three callers of Close, the scan of CheckAlive and the one of closeInter: the
third (TransStart after a failed Write) takes the same steps. The writer is in a registered stream, so the scan reaches it. `MaxPackets` caps what is published. The packets are numbered, so a longer
history only repeats these states. Nine packets make four segments, the fewest with which the
list can turn over under a playlist walk; the time stamps start at 0, or at 6 and wrap at 10.

Three clicks are the fewest with which a session that was replaced meets one that is not its
successor; RtcProofs covers any number. In a room one participant who publishes,
leaves and returns needs three events, and participants do not interact. Three routes are a
page, one that replaces it, and a third that a late answer of the first may hit; four requests put two loads under
way for two of them. Two media lines are the fewest for a bundle, four calls an offer, an answer and a renegotiation;
`focus` splits the behaviours of EdgePC into those with gatherer and those with transport
events, which meet only in `lines`; of the gatherers no m-line has any more only the first reports (`Reports`). Sizes are written to base 4 and rates to base 5 instead of
1024 and 1000, so that all units are reached. Local streams have disjoint tracks, as the SDK's
do. Three transceivers and three descriptions let one description end while another waits and a third is asked for. Buffer times lie around the limits of `set_mbt`.

**Deadlock** is not checked where the system may stop: nobody has to publish, connect, click or ask,
and in RoomKeys the finite set of keys can run out, which 62^48 keys do not.

**Fairness.** Go schedules every runnable goroutine, so a goroutine that can step does
(weak fairness per goroutine). A read of a closed connection returns its error, after the packets its buffer
still holds: strong fairness on ReadError, since another packet may come first. conn.Write
on a closed connection returns; on an open one it may hang for ever, because the handshake clears the deadline
(`core/handshake.go:205`), so no delivery in StreamHub is assumed to return, and a sender in VirWriter only once its connection is
closed. The timer of CheckAlive fires every five seconds, so a scan that has begun goes on, and every writer whose
sender took no packet for the timeout is closed by it in the end: VirWriter, whose packets are finitely many,
assumes this of its one writer (`Close("alive")`). Nobody is
assumed to publish, send, connect, disconnect or take over. In the browser the promises of a
connection that is open settle and every request ends with an answer or an error (RtcSession);
the signalling server answers, messages that arrived are handled, and a publish with a granted camera
settles (RtcRoom). Nobody is assumed to grant the camera, to click or to act in the room, and a promise whose
connection was closed may stay pending.

## 4. What is proved

All theorems hold for every value of the constants under the ASSUMEs of the modules.

*RoomKeysProofs.* `TypeCorrect` proves TypeOK; it splits into the calls (CallsOK) and the
replies (ReplyOK). `KeysNeverRebound` needs `KeyOwned`: from its draw to its second write a
SetKey call owns its key, which is absent from the map and in no other SetKey's hand.
`LocalKeysSafe` (RoomKeyAccepted, OneRoomPerKey, PublishedWhereAsked, for the local cache)
needs more, because a deletion works on a key it read earlier: `StoringFree` (a key about to
be stored is the key of no other room), `DeletingSafe` (a key about to be removed is the key
of no room but the one removed first, and nobody is about to register it) and `AdmissionSafe`
(the key an admission is about to resolve can only be its own room's). `PublishersLandWhereAsked` is the part of it about publishers.

*GopCacheProofs.* `TypeCorrect` rests on `RingFilled`: slots fill in order and `nextindex = num`
until the ring is full, so `num` never passes `gop_num`. `SmallRingSafe` proves NoCrash and
the part GroupsContiguous of ReplaysLastGroups for `gop_num` 1 and 2, where `nextindex + 1` is the slot started last;
`OpenGroup` adds that a group with room left ends with the packet stored last. For 3 and more
the statement is false (`gop_count3`). `LastGroupsReplayed` proves the whole of ReplaysLastGroups
for the same two sizes: `InOrder` says which start each slot holds and that the newer group follows the older
one, next to it unless the older is full; `ReplayIs` unrolls the replay, which has at most two
groups there. `OnlyVideoCached` proves RingHoldsVideo from
`HeaderKnown`: once a key frame was seen some header was parsed, so the one audio path into
the ring is shut. `SpecialNeverRewritten` proves SpecialIntact: packets of the special slots
are never in the set `Exposed` of packets the HLS sender has, had or may be handed.

*VirWriterProofs.* All of it holds whatever conn.Write does (return, fail or hang) and however calls of Close
overlap. `QueueStaysBelowMark` is inductive given TypeOK (`TypeCorrect`). `KeptNeverLost` uses it: the branches of DropPacket
that throw away an extra packet are above the mark. `NeverDuplicated` needs `Apart` (the
packets offered, queued, in DropPacket's and in the sender's hand and delivered are all different) and
`Known` (none is newer than the last published). `CloseAlwaysCompletes` rests on `CloseInv`: a call of Close is past its
close of the queue, or `closed` is set, only when the queue is closed or its sender has died of a failed write.

*RtcProofs, the session.* `SessionsImplement` proves that a page implements OneSession for any number of
clicks and any page, `SessionsSafe` proves DisplayFollows and OfferCarriesPreview. Both rest on
`SessionInv`: `OnlyCurrent` (only the session in the global can have a peer connection, and no
later one has begun; without it a late camera could revive an old session next to the new one) and
`Progress` (what publish and play have done by the time they wait at each await). `Invisible` collects the
steps that leave `phase` alone; each other action maps to Open, Establish or Close. `OffersCarryPreview`
is the part about offers.

*StreamHubProofs.* `PlayersNeverDropped` (PlayerNeverDropped) and `HubTyped` (TypeOK) hold for every interleaving the
code allows, from `HubInv`: `Located` (a goroutine at work on a stream has looked one up) and `Counted` (no more
Streams are allocated than goroutines are past their allocation), without which `ws` could be
read outside its domain. OneFeeder and PlayerFollowsTakeover hold only where calls do not overlap, which the code does
not guarantee (the table above): no theorem states them.

*HlsSegmentsProofs.* `SegInv` carries `SegmentsAlwaysAdjoin` and `DurationsAlwaysCover`: what is
written and what audioCache still collects are together every packet since the key frame
(`OpenPart`), the time stamps of the status are those of the first and the last of them, and
finished segments are sound (`AllSound`) and meet (`Adjoin`), also between the steps of SetItem.
`PlaylistsAlwaysContiguous` needs `ListInv`, about the states inside SetItem and
inside a walk: the length of the list at every step (`Length`), names that grow with the clock (`Newest`,
`Listed`), a map that has the list's names and at most one more (`MapHas`), and a handler whose element is of a
known age (`AtElement`) and continues what it has written unless its element was unlinked, when
the walk ends (`Written`). All of ListInv is under `~reused`: once two segments share a name
nothing is claimed. `NilAssumption` says that the absent map entry is not a segment.

*RtcProofs, the room.* `NobodyEverWaitsOnClosed` and `PublishersAlwaysPlayed` rest on `RoomInv`:
`OnlyLast` (every signalling object but the last is closed and has no promises), `Registered` (who
awaits an answer has its promise in `msgs` of the last), `JoinFirst` (a connection hears of the room only after its
join) and `AllDue`: a participant that publishes is played, or a message under way,
or the list `r0` startDemo still holds, will make it so, and nothing behind that message undoes it.

*WebPagesProofs.* One inductive invariant per part. `ConsoleInv` (`OldCallsStayDisabled`,
`LoopStaysAlive`, `LateAnswersStayHarmless`; no run checks the last, LateAnswersHarmless) adds that an enabled call has a function and that only streams
pages ask for vhosts. `EditorInv` (`EditorAlwaysRestores`) ties the saved value to the one before editing;
`PagesInv` (`PagesAlwaysRelease`) the connections to the player and the timers to the address
asked last; `AnnouncedInv` (`RemoteAlwaysAnnounced`) the number of listeners to the one remembered;
`EncodingsInv` (`EncodingsAlwaysWaited`) the promises being set to the connection's list and what was taken off
it; `FlashInv` (`FlashAlwaysAccounts`) bounds the empty time by the clock. `StreamsInv` (`StreamsAlwaysMatch`) has a
part per browser: before Chrome 65 the maps are inverse and an internal stream holds some tracks of
the one stream it stands for (`InternalInv`: never none, or a stream that is added again would get a second
internal one and leave the first behind), and while the offer does not describe the page another is asked for, or will
be when the state is stable again, or the request was `swallowed` (`OfferInv`); in Chrome a stream is listed with exactly its senders unless some were reused
(`ShimmedInv`); in all browsers with senders a sender without a track has no stream (`SendersOK`), which is
what makes a reused one harmless. `StreamsAssumption` asks for streams that are not empty and
share no track, as the SDK's are; for streams that share tracks the statement is false (section 3).
`LocalMediaAlwaysKept` puts the streams and the encodings together.

*EdgePCProofs.* `DescriptionsAlwaysPair` (OfferAnswerPair) needs only what the application holds
(`SignallingInv`). The other theorems, `EdgeTypes`, `BundleAlwaysShares` and `MediaAlwaysStarted`, rest on one
invariant, `EdgeInv`:

- `Scalars` and `Emission \in Emissions`: the types of the single variables and of what the handlers change.
- `WorkOK`: an m-line names objects that exist, and has no transport exactly when it is rejected.
- `Media`: BundleShares and MediaOnStarted, with `Described`: a sender or receiver runs only on an
  m-line the peer accepted, the rejected m-lines are those it rejected, an offer covers what was described
  before, and what is to be answered can gather. Without the last two an answer could start media on
  an m-line that nobody describes.

The calls loop over m-lines, sections or buffered events. `OfferLinesAre`, `GatherLinesAre`, `AnswerLinesAre`,
`RemoteSectionsAre` and `ReplayIs` say that the recursive function behind a loop has the values of its definition, and
`UpTo` is the induction along it. The library's induction theorems take a predicate as a parameter, which the
provers cannot instantiate; `LeastNat` gets the least element of a set of naturals from NatLessThanWellFounded and
WFMin, which take sets, and `UpTo` follows from it. Most calls leave the m-lines that are there and the descriptions alone: `Mild` collects what
they do and `MildInv` shows once that it keeps EdgeInv; `StillInv` does so for the calls that touch no m-line. What the
callbacks of the gatherers tell the application is `EmitMild`, for a candidate found (`LocalCandidateInv`) and for a
timer that replays the buffered ones (`TimerInv`).

Checked by TLC only: every liveness property (WriteReturns, ClosedReaderEnds, Settles, DemoEnds: fairness is outside
the proof system's reach); OneFeeder and PlayerFollowsTakeover, without overlap; CandidatesOnce and GatheringCompletes
of EdgePC; ReplaysLastGroups for rings that are larger, where it is false; AddressesAsAsked, SdpKept
and HelpersKept, which compare what the pure functions of the pages return with what was put in, input by input: they
are statements about the jobs of MCWeb and not about a state that evolves.

## 5. Not modelled

Server: RTMP chunking, handshake and commands; HTTP-FLV; the HLS source life cycle and its
queue; relay goroutines and API sessions; time stamps. Their hazards, met while reading: a
failed response write leaves an HTTP-FLV handler waiting (`httpflv/writer.go:168`); Stop of a
static push waits for ever when its goroutine returned before startflag was set
(`staticrelay.go:129`); a relay spins on a read error other than EOF (`rtmprelay.go:53`); the
session map of the API is shared without a lock (`api.go:281`); a closed HLS source is handed to a
publisher that returns within 10 s (`hls.go:68`); base time stamps are taken from the last packet sent (`rwbase.go:28`).
Left out for good: start-up and configuration, AMF, elementary stream parsers and byte layouts
(pure conversions without shared state), statistics (read-only for the rest).

Web: the renamings of prefixed methods, screen sharing and browser detection in the adapter (no state),
the copy of the adapter under `demos/` (the same file); the unused drafts under `temp/`, `object2complex`, which nothing calls; dates, tabs, menus and the placement of the popover; templates and styles; json2, swfobject, jQuery, Angular,
flv.js and the other vendored libraries; translations.

## 6. Plan

1. Proofs: which of StreamHub's statements survive each single kind of overlap; the round trips of
   SdpText and UrlHelpers as lemmas on their operators, for all inputs.
2. HLS: source life cycle (`conns`, `closed`, checkStop, reuse of a closed source) and the
   queue in front of the sender; aim: a returning publisher has HLS, Write returns.
3. Relays: StaticPush and RtmpRelay with their channels and API sessions, composed with
   StreamHub in place of the flag `push`; HTTP-FLV writer, with an abstract lossy queue that it
   and VirWriter implement.
4. RTMP core: chunk reassembly checked against the message sent, acknowledgement window
   with its 32-bit counters, command sequences of ConnServer and ConnClient.
5. Composition of RtcSession with EdgePC: the SDK on an Edge connection.
