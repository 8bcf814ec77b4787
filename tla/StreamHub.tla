------------------------------ MODULE StreamHub ------------------------------
(***************************************************************************)
(* protocol/rtmp/stream.go: the streams of one key ("app/room").  The      *)
(* registry (sync.Map streams) names at most one Stream per key; a Stream  *)
(* has a reader (the publisher) and writers (players, HLS, FLV recording). *)
(* The goroutines: HandleReader for each publisher that connects, the      *)
(* TransStart it spawns, HandleWriter for each player, and CheckAlive.     *)
(* They share the registry, isStart, r and ws without a lock.  A step is   *)
(* one access to the registry or to a stream's fields, or one visit of a   *)
(* Range over ws.                                                          *)
(***************************************************************************)
EXTENDS Naturals, FiniteSets

CONSTANTS
  Publishers,   \* connections that publish this key, each once (fresh UID)
  Players,      \* writers offered to HandleWriter for this key, each once
  Interval,     \* writers whose Info().IsInterval() holds (all but the FLV recording)
  None,         \* no stream, no publisher, no player (nil)
  StaticPush,   \* TRUE: static_push is configured for the application
  Overlap       \* calls that may be in progress while another one begins

Calls == {"HandleReader", "HandleWriter", "CheckAlive", "TransStart"}

ASSUME HubAssumption ==
  /\ Interval \subseteq Players
  /\ None \notin Publishers /\ None \notin Players /\ None \notin Nat
  /\ IsFiniteSet(Publishers) /\ IsFiniteSet(Players)
  /\ StaticPush \in BOOLEAN
  /\ Overlap \subseteq Calls

\* Every publisher and every player allocates at most one Stream.
Streams == 1 .. Cardinality(Publishers) + Cardinality(Players)

VARIABLES
  reg,                 \* streams.Load(key)
  allocated,           \* streams allocated so far
  isStart, r, ws,      \* fields of each Stream; ws[s][w]: absent, or pack's init
  rclosed, wclosed,    \* publisher, player: connection closed
  hr, ts, hw, ca,      \* goroutines: HandleReader, TransStart, HandleWriter, CheckAlive
  push                 \* the static push object of this key exists and runs

envVars == <<rclosed, wclosed>>
vars == <<reg, allocated, isStart, r, ws, envVars, hr, ts, hw, ca, push>>

StreamOrNone == Streams \cup {None}

\* The type of the state.
TypeOK ==
  /\ reg \in StreamOrNone
  /\ allocated \in 0 .. Cardinality(Publishers) + Cardinality(Players)
  /\ isStart \in [Streams -> BOOLEAN]
  /\ r \in [Streams -> Publishers \cup {None}]
  /\ ws \in [Streams -> [Players -> {"out", "new", "init"}]]
  /\ rclosed \in [Publishers -> BOOLEAN] /\ wclosed \in [Players -> BOOLEAN]
  /\ hr \in [Publishers -> [at : {"none", "create", "stop", "close", "clear", "id", "copy",
                                  "delete", "place", "add", "done"},
                            s : StreamOrNone, ns : StreamOrNone, todo : SUBSET Players,
                            cur : Players \cup {None}]]
  /\ ts \in [Publishers -> [at : {"none", "spawned", "loop", "read", "range", "stopped",
                                  "failed", "ended"},
                            s : StreamOrNone, rd : Publishers \cup {None},
                            todo : SUBSET Players, cur : Players \cup {None}]]
  /\ hw \in [Players -> [at : {"none", "create", "add", "in", "unattached"}, s : StreamOrNone]]
  /\ ca \in [at : {"idle", "scan"}, s : StreamOrNone, todo : SUBSET Players, n : Nat,
             cur : Players \cup {None}]
  /\ push \in BOOLEAN

\* The locals of a HandleReader, a TransStart and a CheckAlive that has not begun or is over.
Reader(at) == [at |-> at, s |-> None, ns |-> None, todo |-> {}, cur |-> None]
Trans(at) == [at |-> at, s |-> None, rd |-> None, todo |-> {}, cur |-> None]
Idle == [at |-> "idle", s |-> None, todo |-> {}, n |-> 0, cur |-> None]

Init ==
  /\ reg = None /\ allocated = 0
  /\ isStart = [s \in Streams |-> FALSE]
  /\ r = [s \in Streams |-> None]
  /\ ws = [s \in Streams |-> [w \in Players |-> "out"]]
  /\ rclosed = [p \in Publishers |-> FALSE] /\ wclosed = [w \in Players |-> FALSE]
  /\ hr = [p \in Publishers |-> Reader("none")]
  /\ ts = [p \in Publishers |-> Trans("none")]
  /\ hw = [w \in Players |-> [at |-> "none", s |-> None]]
  /\ ca = Idle
  /\ push = FALSE

In(s) == {w \in Players : ws[s][w] # "out"}

-----------------------------------------------------------------------------
\* Which calls are in progress.  Connections are served by goroutines of their own
\* and CheckAlive by a timer, so in the code any calls may overlap (Overlap = Calls);
\* a smaller Overlap describes the histories in which they do not.
InProgress(c) ==
  CASE c = "HandleReader" -> \E p \in Publishers : hr[p].at \notin {"none", "done"}
    [] c = "HandleWriter" -> \E w \in Players : hw[w].at \in {"create", "add"}
    [] c = "CheckAlive" -> ca.at # "idle"
    [] c = "TransStart" -> \E p \in Publishers : ts[p].at = "spawned"

MayBegin == \A c \in Calls \ Overlap : ~InProgress(c)

-----------------------------------------------------------------------------
\* HandleReader: look the key up.
HandleReaderLoad(p) ==
  /\ hr[p].at = "none"
  /\ MayBegin
  /\ hr' = [hr EXCEPT ![p].at = IF reg = None THEN "create" ELSE "stop", ![p].s = reg]
  /\ UNCHANGED <<reg, allocated, isStart, r, ws, envVars, ts, hw, ca, push>>

\* HandleReader: no stream, register a new one.
HandleReaderCreate(p) ==
  /\ hr[p].at = "create"
  /\ allocated' = allocated + 1
  /\ reg' = allocated + 1
  /\ hr' = [hr EXCEPT ![p].at = "add", ![p].s = allocated + 1]
  /\ UNCHANGED <<isStart, r, ws, envVars, ts, hw, ca, push>>

\* TransStop on the stream found: is it started, with a publisher?
TransStop(p) ==
  LET s == hr[p].s
  IN  /\ hr[p].at = "stop"
      /\ hr' = [hr EXCEPT ![p].at = IF isStart[s] /\ r[s] # None THEN "close" ELSE "clear"]
      /\ UNCHANGED <<reg, allocated, isStart, r, ws, envVars, ts, hw, ca, push>>

\* Mutant: the old publisher's connection stays open.
LenientTransStopClose(p) ==
  /\ hr[p].at = "close"
  /\ hr' = [hr EXCEPT ![p].at = "clear"]
  /\ UNCHANGED <<reg, allocated, isStart, r, ws, envVars, ts, hw, ca, push>>

\* TransStop: then the publisher it has by now is closed ...
TransStopClose(p) ==
  /\ hr[p].at = "close"
  /\ rclosed' = [rclosed EXCEPT ![r[hr[p].s]] = TRUE]
  /\ hr' = [hr EXCEPT ![p].at = "clear"]
  /\ UNCHANGED <<reg, allocated, isStart, r, ws, wclosed, ts, hw, ca, push>>

\* ... and isStart cleared, in any case.
TransStopClear(p) ==
  /\ hr[p].at = "clear"
  /\ isStart' = [isStart EXCEPT ![hr[p].s] = FALSE]
  /\ hr' = [hr EXCEPT ![p].at = "id"]
  /\ UNCHANGED <<reg, allocated, r, ws, envVars, ts, hw, ca, push>>

\* HandleReader: a stream that has had a publisher is replaced by a new one, a stream
\* that only a player created is used as it is.
HandleReaderId(p) ==
  /\ hr[p].at = "id"
  /\ \/ /\ r[hr[p].s] = None
        /\ hr' = [hr EXCEPT ![p].at = "add"]
        /\ UNCHANGED allocated
     \/ /\ r[hr[p].s] # None
        /\ allocated' = allocated + 1
        /\ hr' = [hr EXCEPT ![p].at = "copy", ![p].ns = allocated + 1, ![p].todo = In(hr[p].s)]
  /\ UNCHANGED <<reg, isStart, r, ws, envVars, ts, hw, ca, push>>

\* Copy visits a writer: the entry is loaded ...
CopyVisit(p) ==
  /\ hr[p].at = "copy"
  /\ \E w \in hr[p].todo :
       hr' = IF w \in In(hr[p].s)
             THEN [hr EXCEPT ![p].todo = @ \ {w}, ![p].cur = w, ![p].at = "delete"]
             ELSE [hr EXCEPT ![p].todo = @ \ {w}]
  /\ UNCHANGED <<reg, allocated, isStart, r, ws, envVars, ts, hw, ca, push>>

\* ... deleted from the old stream ...
CopyDelete(p) ==
  /\ hr[p].at = "delete"
  /\ ws' = [ws EXCEPT ![hr[p].s][hr[p].cur] = "out"]
  /\ hr' = [hr EXCEPT ![p].at = "place"]
  /\ UNCHANGED <<reg, allocated, isStart, r, envVars, ts, hw, ca, push>>

\* ... and added to the new one, where it starts over with the cache.
CopyAdd(p) ==
  /\ hr[p].at = "place"
  /\ ws' = [ws EXCEPT ![hr[p].ns][hr[p].cur] = "new"]
  /\ hr' = [hr EXCEPT ![p].at = "copy", ![p].cur = None]
  /\ UNCHANGED <<reg, allocated, isStart, r, envVars, ts, hw, ca, push>>

Copy(p) == CopyVisit(p) \/ CopyDelete(p) \/ CopyAdd(p)

\* HandleReader: register the new stream in the place of the old one.
HandleReaderStore(p) ==
  /\ hr[p].at = "copy" /\ hr[p].todo = {}
  /\ reg' = hr[p].ns
  /\ hr' = [hr EXCEPT ![p].at = "add", ![p].s = hr[p].ns]
  /\ UNCHANGED <<allocated, isStart, r, ws, envVars, ts, hw, ca, push>>

\* AddReader: set the reader and spawn TransStart.
AddReader(p) ==
  /\ hr[p].at = "add"
  /\ r' = [r EXCEPT ![hr[p].s] = p]
  /\ ts' = [ts EXCEPT ![p].at = "spawned", ![p].s = hr[p].s]
  /\ hr' = [hr EXCEPT ![p] = Reader("done")]
  /\ UNCHANGED <<reg, allocated, isStart, ws, envVars, hw, ca, push>>

HandleReader(p) ==
  \/ HandleReaderLoad(p) \/ HandleReaderCreate(p)
  \/ TransStop(p) \/ TransStopClose(p) \/ TransStopClear(p)
  \/ HandleReaderId(p) \/ Copy(p) \/ HandleReaderStore(p) \/ AddReader(p)

-----------------------------------------------------------------------------
\* TransStart begins: mark the stream started, start the static push.
TransStartBegin(p) ==
  /\ ts[p].at = "spawned"
  /\ isStart' = [isStart EXCEPT ![ts[p].s] = TRUE]
  /\ push' = (push \/ StaticPush)
  /\ ts' = [ts EXCEPT ![p].at = "loop"]
  /\ UNCHANGED <<reg, allocated, r, ws, envVars, hr, hw, ca>>

\* closeInter begins: stop and release the static push, then range over the writers.
CloseInter(p, at) ==
  /\ push' = FALSE
  /\ ts' = [ts EXCEPT ![p].at = at, ![p].rd = None, ![p].todo = In(ts[p].s)]
  /\ UNCHANGED <<reg, allocated, isStart, r, ws, envVars, hr, hw, ca>>

\* TransStart's loop: the stream was stopped ...
TransStopped(p) ==
  /\ ts[p].at = "loop"
  /\ ~isStart[ts[p].s]
  /\ CloseInter(p, "stopped")

\* ... or Read is called on the reader the stream has now.
ReadBegin(p) ==
  /\ ts[p].at = "loop"
  /\ isStart[ts[p].s]
  /\ ts' = [ts EXCEPT ![p].at = "read", ![p].rd = r[ts[p].s]]
  /\ UNCHANGED <<reg, allocated, isStart, r, ws, envVars, hr, hw, ca, push>>

\* Mutant: a failed read is tried again.
RetryReadError(p) ==
  /\ ts[p].at = "read"
  /\ rclosed[ts[p].rd]
  /\ UNCHANGED vars

\* The read fails: the connection of that reader is closed ...
ReadError(p) ==
  /\ ts[p].at = "read"
  /\ rclosed[ts[p].rd]
  /\ CloseInter(p, "failed")

\* ... or a packet came in (one that was buffered may, of a closed connection too), is
\* cached, and goes to the writers.
ReadPacket(p) ==
  /\ ts[p].at = "read"
  /\ ts' = [ts EXCEPT ![p].rd = None, ![p].todo = In(ts[p].s),
                      ![p].at = IF In(ts[p].s) = {} THEN "loop" ELSE "range"]
  /\ UNCHANGED <<reg, allocated, isStart, r, ws, rclosed, wclosed, hr, hw, ca, push>>

\* One writer: the cache first, packets from then on; a closed writer returns an
\* error and is deleted.
Deliver(p) ==
  /\ ts[p].at = "range"
  /\ \E w \in ts[p].todo :
       LET s == ts[p].s
       IN  /\ ws' = IF w \notin In(s) THEN ws
                    ELSE [ws EXCEPT ![s][w] = IF wclosed[w] THEN "out" ELSE "init"]
           /\ ts' = [ts EXCEPT ![p].todo = @ \ {w}, ![p].at = IF ts[p].todo = {w} THEN "loop" ELSE @]
  /\ UNCHANGED <<reg, allocated, isStart, r, rclosed, wclosed, hr, hw, ca, push>>

\* closeInter visits a writer: the entry is loaded ...
CloseInterVisit(p) ==
  /\ ts[p].at \in {"stopped", "failed"} /\ ts[p].cur = None
  /\ \E w \in ts[p].todo :
       ts' = [ts EXCEPT ![p].todo = @ \ {w}, ![p].cur = IF w \in In(ts[p].s) THEN w ELSE None]
  /\ UNCHANGED <<reg, allocated, isStart, r, ws, envVars, hr, hw, ca, push>>

\* Mutant: the player is removed without being closed.
SilentCloseInterClose(p) ==
  /\ ts[p].at \in {"stopped", "failed"} /\ ts[p].cur # None
  /\ ws' = [ws EXCEPT ![ts[p].s][ts[p].cur] = "out"]
  /\ ts' = [ts EXCEPT ![p].cur = None]
  /\ UNCHANGED <<reg, allocated, isStart, r, envVars, hr, hw, ca, push>>

\* ... the writer closed, and deleted if it is an interval writer.
CloseInterClose(p) ==
  /\ ts[p].at \in {"stopped", "failed"} /\ ts[p].cur # None
  /\ wclosed' = [wclosed EXCEPT ![ts[p].cur] = TRUE]
  /\ ws' = IF ts[p].cur \in Interval THEN [ws EXCEPT ![ts[p].s][ts[p].cur] = "out"] ELSE ws
  /\ ts' = [ts EXCEPT ![p].cur = None]
  /\ UNCHANGED <<reg, allocated, isStart, r, rclosed, hr, hw, ca, push>>

\* TransStart returns; after a failed read it clears isStart.
TransStartEnd(p) ==
  /\ ts[p].at \in {"stopped", "failed"} /\ ts[p].cur = None /\ ts[p].todo = {}
  /\ isStart' = IF ts[p].at = "failed" THEN [isStart EXCEPT ![ts[p].s] = FALSE] ELSE isStart
  /\ ts' = [ts EXCEPT ![p] = Trans("ended")]
  /\ UNCHANGED <<reg, allocated, r, ws, envVars, hr, hw, ca, push>>

TransStartRuns(p) ==
  \/ TransStartBegin(p) \/ TransStopped(p) \/ ReadBegin(p) \/ ReadError(p)
  \/ CloseInterVisit(p) \/ CloseInterClose(p) \/ TransStartEnd(p)

-----------------------------------------------------------------------------
\* HandleWriter: look the key up.
HandleWriterLoad(w) ==
  /\ hw[w].at = "none"
  /\ MayBegin
  /\ hw' = [hw EXCEPT ![w] = [at |-> IF reg = None THEN "create" ELSE "add", s |-> reg]]
  /\ UNCHANGED <<reg, allocated, isStart, r, ws, envVars, hr, ts, ca, push>>

\* HandleWriter: no stream; an empty one is registered and the writer is left out of it.
HandleWriterCreate(w) ==
  /\ hw[w].at = "create"
  /\ allocated' = allocated + 1
  /\ reg' = allocated + 1
  /\ hw' = [hw EXCEPT ![w].at = "unattached"]
  /\ UNCHANGED <<isStart, r, ws, envVars, hr, ts, ca, push>>

\* AddWriter.
AddWriter(w) ==
  /\ hw[w].at = "add"
  /\ ws' = [ws EXCEPT ![hw[w].s][w] = "new"]
  /\ hw' = [hw EXCEPT ![w] = [at |-> "in", s |-> None]]
  /\ UNCHANGED <<reg, allocated, isStart, r, envVars, hr, ts, ca, push>>

HandleWriter(w) == HandleWriterLoad(w) \/ HandleWriterCreate(w) \/ AddWriter(w)

-----------------------------------------------------------------------------
\* RtmpStream.CheckAlive reaches the key; Stream.CheckAlive tests the reader.
\* Any time may have passed since its last packet: it is found alive or not.
CheckAliveReader ==
  /\ ca.at = "idle"
  /\ reg # None
  /\ MayBegin
  /\ LET started == r[reg] # None /\ isStart[reg]
     IN \E Alive \in BOOLEAN :
         /\ rclosed' = IF started /\ ~Alive THEN [rclosed EXCEPT ![r[reg]] = TRUE] ELSE rclosed
         /\ ca' = [at |-> "scan", s |-> reg, todo |-> In(reg), cur |-> None,
                   n |-> IF started /\ Alive THEN 1 ELSE 0]
  /\ UNCHANGED <<reg, allocated, isStart, r, ws, wclosed, hr, ts, hw, push>>

\* Stream.CheckAlive visits a writer: one nothing was written to for the timeout
\* is deleted ...
CheckAliveWriter ==
  /\ ca.at = "scan" /\ ca.cur = None
  /\ \E w \in ca.todo :
       \/ /\ w \in In(ca.s)
          /\ ws' = [ws EXCEPT ![ca.s][w] = "out"]
          /\ ca' = [ca EXCEPT !.todo = @ \ {w}, !.cur = w]
       \/ /\ w \in In(ca.s)
          /\ ca' = [ca EXCEPT !.todo = @ \ {w}, !.n = @ + 1]
          /\ UNCHANGED ws
       \/ /\ w \notin In(ca.s)
          /\ ca' = [ca EXCEPT !.todo = @ \ {w}]
          /\ UNCHANGED ws
  /\ UNCHANGED <<reg, allocated, isStart, r, envVars, hr, ts, hw, push>>

\* ... and then closed.
CheckAliveClose ==
  /\ ca.at = "scan" /\ ca.cur # None
  /\ wclosed' = [wclosed EXCEPT ![ca.cur] = TRUE]
  /\ ca' = [ca EXCEPT !.cur = None]
  /\ UNCHANGED <<reg, allocated, isStart, r, ws, rclosed, hr, ts, hw, push>>

\* Mutant: the key is removed although something is alive.
EagerCheckAliveDelete ==
  /\ ca.at = "scan" /\ ca.cur = None /\ ca.todo = {}
  /\ reg' = None
  /\ ca' = Idle
  /\ UNCHANGED <<allocated, isStart, r, ws, envVars, hr, ts, hw, push>>

\* RtmpStream.CheckAlive: nothing was alive, remove the key (whatever it names now).
CheckAliveDelete ==
  /\ ca.at = "scan" /\ ca.cur = None /\ ca.todo = {}
  /\ reg' = IF ca.n = 0 THEN None ELSE reg
  /\ ca' = Idle
  /\ UNCHANGED <<allocated, isStart, r, ws, envVars, hr, ts, hw, push>>

CheckAlive == CheckAliveReader \/ CheckAliveWriter \/ CheckAliveClose \/ CheckAliveDelete

-----------------------------------------------------------------------------
\* The other ends: a publisher or player disconnects.
PublisherCloses(p) ==
  /\ hr[p].at # "none" /\ ~rclosed[p]
  /\ rclosed' = [rclosed EXCEPT ![p] = TRUE]
  /\ UNCHANGED <<reg, allocated, isStart, r, ws, wclosed, hr, ts, hw, ca, push>>

PlayerCloses(w) ==
  /\ hw[w].at # "none" /\ ~wclosed[w]
  /\ wclosed' = [wclosed EXCEPT ![w] = TRUE]
  /\ UNCHANGED <<reg, allocated, isStart, r, ws, rclosed, hr, ts, hw, ca, push>>

Next ==
  \/ \E p \in Publishers :
       \/ HandleReader(p) \/ TransStartRuns(p) \/ ReadPacket(p) \/ Deliver(p)
       \/ PublisherCloses(p)
  \/ \E w \in Players : HandleWriter(w) \/ PlayerCloses(w)
  \/ CheckAlive

\* Goroutines run and the timer of CheckAlive fires.  A read of a closed connection
\* returns its error, after the packets its buffer still holds, which are finitely many.
\* A player's Write may never return (see VirWriter), nor a read of an open connection,
\* which has no deadline; nobody is obliged to connect, send or disconnect.
Fairness ==
  /\ \A p \in Publishers :
       /\ WF_vars(TransStartRuns(p))
       /\ SF_vars(ReadError(p))
       /\ WF_vars(HandleReader(p) /\ hr[p].at # "none")
  /\ \A w \in Players : WF_vars(HandleWriter(w) /\ hw[w].at # "none")
  /\ WF_vars(CheckAliveWriter \/ CheckAliveClose \/ CheckAliveDelete)

Spec == Init /\ [][Next]_vars /\ Fairness

-----------------------------------------------------------------------------
\* Copy has taken w from one stream and not yet added it to the other.
Carried(w) == \E p \in Publishers : hr[p].at = "place" /\ hr[p].cur = w

\* Every interleaving: a player that was attached and is open is in some stream's ws,
\* is being carried to one by Copy, or is about to be closed by CheckAlive.  Copy,
\* closeInter, CheckAlive and Deliver, running over the same ws at once, never drop a
\* player without closing it.
PlayerNeverDropped ==
  \A w \in Players :
    hw[w].at = "in" /\ ~wclosed[w] =>
      (\E s \in Streams : w \in In(s)) \/ Carried(w) \/ ca.cur = w

\* Every interleaving: a TransStart blocked in the Read of a connection that is closed,
\* by the peer, a takeover or CheckAlive, and whichever reader its stream has by then,
\* ends, unless it hangs in a player's Write or comes to read another publisher.
ReadsClosed(p) == ts[p].at = "read" /\ rclosed[ts[p].rd]
ReadsOpen(p) == ts[p].at = "read" /\ ~rclosed[ts[p].rd]
ClosedReaderEnds ==
  \A p \in Publishers :
    \/ <>[](ts[p].at = "range")
    \/ ReadsClosed(p) ~> (ts[p].at = "ended" \/ ReadsOpen(p))

Running(p) == ts[p].at \in {"loop", "read", "range"}

\* Without overlap: a publisher that runs and is open is the one registered, so
\* players and the HTTP listings find it; CheckAlive never unregisters it.
RunningIsRegistered ==
  \A p \in Publishers :
    Running(p) /\ ~rclosed[p] /\ ~InProgress("HandleReader") => reg = ts[p].s

\* Without overlap: of the publishers of a key at most one is open and feeding
\* players; a takeover closes the old one before the new one is attached; and it is
\* the registered one.
OneFeeder ==
  /\ RunningIsRegistered
  /\ \A p, q \in Publishers :
       Running(p) /\ Running(q) /\ ~rclosed[p] /\ ~rclosed[q] => p = q

\* Without overlap: an open, attached player is in the registered stream, except
\* while a takeover is copying and when CheckAlive is about to close the player.
PlayerFollowsTakeover ==
  ~InProgress("HandleReader") =>
    \A w \in Players :
      hw[w].at = "in" /\ ~wclosed[w] /\ ca.cur # w => reg # None /\ w \in In(reg)

=============================================================================
