------------------------------ MODULE RoomKeys ------------------------------
(***************************************************************************)
(* configure/channel.go: the room keys.  A channel (room) and the random   *)
(* key its publisher pushes with are stored in ONE map, channel -> key and *)
(* key -> channel, by two separate writes that no lock joins.  The clients *)
(* are the goroutines that call it: the HTTP management handlers           *)
(* (protocol/api/api.go, /control/get, reset, delete) and the RTMP server  *)
(* when it admits a publisher (protocol/rtmp/rtmp.go, handleConn).  Every  *)
(* access to the map (go-cache, or redis) is one atomic step; everything   *)
(* between two accesses may interleave.                                    *)
(***************************************************************************)
EXTENDS Naturals

CONSTANTS
  Clients,      \* goroutines serving a request
  Channels,     \* room names that appear in requests
  Keys,         \* values of uid.RandStringRunes(48)
  NotFound      \* what a lookup yields for an absent name

Names == Channels \cup Keys

Answers == {"none", "error", "ok", "room not found"}

\* No room is named like a generated 48-rune key.
ASSUME NamesAssumption ==
  /\ Channels \cap Keys = {}
  /\ NotFound \notin Names

\* An answer is told apart from a name.
ASSUME AnswersAssumption == Names \cap Answers = {}

VARIABLES
  saveInLocal,  \* TRUE: go-cache in the process; FALSE: redis (fixed at start-up)
  cache,        \* localCache (or the redis database): name -> name
  pc,           \* where each client's call stands
  op,           \* the request each client serves
  room,         \* the argument or local variable channel
  key,          \* the argument or local variable key
  reply         \* what the last finished request was answered with

vars == <<saveInLocal, cache, pc, op, room, key, reply>>

Ops == {"reset", "get", "publish", "publishKey", "publishRoom", "delete", "deleteKey"}
Locations == {"idle", "SetKey", "StoreChannel", "StoreKey", "GetKey",
              "GetChannel", "DeleteChannel", "DeleteKey", "DropChannel", "DropKey"}

\* The map and the calls in progress.
CallsOK ==
  /\ cache \in [Names -> Names \cup {NotFound}]
  /\ \A n \in Channels : cache[n] \in Keys \cup {NotFound}
  /\ \A k \in Keys : cache[k] \in Channels \cup {NotFound}
  /\ pc \in [Clients -> Locations]
  /\ op \in [Clients -> Ops]
  /\ room \in [Clients -> Channels]
  /\ key \in [Clients -> Keys]

ReplyOK == reply \in [Clients -> Names \cup Answers]

\* The type of the state.  Values of the map always belong to the other kind of
\* name, so key.(string) and chann.(string) never see a foreign entry.
TypeOK == CallsOK /\ ReplyOK /\ saveInLocal \in BOOLEAN

Init ==
  /\ saveInLocal \in BOOLEAN
  /\ cache = [n \in Names |-> NotFound]
  /\ pc = [c \in Clients |-> "idle"]
  /\ op = [c \in Clients |-> "get"]
  /\ room \in {[c \in Clients |-> ch] : ch \in Channels}
  /\ key \in {[c \in Clients |-> k] : k \in Keys}
  /\ reply = [c \in Clients |-> "none"]

Found(n) == cache[n] # NotFound

Goto(c, l) == pc' = [pc EXCEPT ![c] = l]

Answer(c, r) == Goto(c, "idle") /\ reply' = [reply EXCEPT ![c] = r]

-----------------------------------------------------------------------------
\* Requests.  handleReset calls SetKey, handleGet GetKey, handleDelete
\* DeleteChannel; a publisher is admitted through GetKey and GetChannel when
\* rtmp_noauth is set, through GetChannel alone otherwise, whatever name the client
\* sent: a key, or the name of a room, which the one map resolves as well (to the
\* room's key).  DeleteKey has no caller in the repository but belongs to the
\* interface.
CallRoom(c, o, first) ==
  /\ pc[c] = "idle"
  /\ \E ch \in Channels : room' = [room EXCEPT ![c] = ch]
  /\ op' = [op EXCEPT ![c] = o]
  /\ Goto(c, first)
  /\ UNCHANGED <<cache, key, reply>>

HandleReset(c) == CallRoom(c, "reset", "SetKey")
HandleGet(c) == CallRoom(c, "get", "GetKey")
HandleDelete(c) == CallRoom(c, "delete", "DeleteChannel")
PublishNoAuth(c) == CallRoom(c, "publish", "GetKey")
PublishWithRoom(c) == CallRoom(c, "publishRoom", "GetChannel")

CallKey(c, o, first) ==
  /\ pc[c] = "idle"
  /\ \E k \in Keys : key' = [key EXCEPT ![c] = k]
  /\ op' = [op EXCEPT ![c] = o]
  /\ Goto(c, first)
  /\ UNCHANGED <<cache, room, reply>>

PublishWithKey(c) == CallKey(c, "publishKey", "GetChannel")
CallDeleteKey(c) == CallKey(c, "deleteKey", "DeleteKey")

-----------------------------------------------------------------------------
\* SetKey: draw keys until one is not in the map, then store both directions.
\* uid.RandStringRunes: a draw never equals a key that a call in progress has
\* in hand (48 random runes); it may repeat a key of the past.
RandStringRunes(c) == Keys \ {key[d] : d \in {e \in Clients : e # c /\ pc[e] # "idle"}}

\* Mutant: the drawn key is not looked up.
NoLookupSetKeyDraw(c) ==
  /\ pc[c] = "SetKey"
  /\ \E k \in RandStringRunes(c) : key' = [key EXCEPT ![c] = k]
  /\ Goto(c, "StoreChannel")
  /\ UNCHANGED <<cache, op, room, reply>>

SetKeyDraw(c) ==
  /\ pc[c] = "SetKey"
  /\ \E k \in RandStringRunes(c) :
        /\ ~Found(k)
        /\ key' = [key EXCEPT ![c] = k]
  /\ Goto(c, "StoreChannel")
  /\ UNCHANGED <<cache, op, room, reply>>

SetKeyStoreChannel(c) ==
  /\ pc[c] = "StoreChannel"
  /\ cache' = [cache EXCEPT ![room[c]] = key[c]]
  /\ Goto(c, "StoreKey")
  /\ UNCHANGED <<op, room, key, reply>>

\* A key has been obtained: the publisher goes on to GetChannel, a request is answered.
HaveKey(c, k) ==
  \/ op[c] = "publish" /\ Goto(c, "GetChannel") /\ UNCHANGED reply
  \/ op[c] # "publish" /\ Answer(c, k)

SetKeyStoreKey(c) ==
  /\ pc[c] = "StoreKey"
  /\ cache' = [cache EXCEPT ![key[c]] = room[c]]
  /\ HaveKey(c, key[c])
  /\ UNCHANGED <<op, room, key>>

GetKey(c) ==
  /\ pc[c] = "GetKey"
  /\ \/ /\ Found(room[c])
        /\ key' = [key EXCEPT ![c] = cache[room[c]]]
        /\ HaveKey(c, cache[room[c]])
     \/ /\ ~Found(room[c])
        /\ Goto(c, "SetKey")
        /\ UNCHANGED <<key, reply>>
  /\ UNCHANGED <<cache, op, room>>

\* The name GetChannel is called with.
NameSent(c) == IF op[c] = "publishRoom" THEN room[c] ELSE key[c]

GetChannel(c) ==
  /\ pc[c] = "GetChannel"
  /\ Answer(c, IF Found(NameSent(c)) THEN cache[NameSent(c)] ELSE "error")
  /\ UNCHANGED <<cache, op, room, key>>

-----------------------------------------------------------------------------
\* DeleteChannel and DeleteKey, local: look the other name up, then remove the
\* channel, then the key.
DeleteLookup(c, l, n, v) ==
  /\ saveInLocal
  /\ pc[c] = l
  /\ \/ Found(n) /\ v /\ Goto(c, "DropChannel") /\ UNCHANGED reply
     \/ ~Found(n) /\ Answer(c, "room not found") /\ UNCHANGED <<room, key>>
  /\ UNCHANGED <<cache, op>>

DeleteChannel(c) ==
  DeleteLookup(c, "DeleteChannel", room[c],
               key' = [key EXCEPT ![c] = cache[room[c]]] /\ UNCHANGED room)

DeleteKey(c) ==
  DeleteLookup(c, "DeleteKey", key[c],
               room' = [room EXCEPT ![c] = cache[key[c]]] /\ UNCHANGED key)

\* Mutant: only the key is removed.
SkippedDropChannel(c) ==
  /\ pc[c] = "DropChannel"
  /\ Goto(c, "DropKey")
  /\ UNCHANGED <<cache, op, room, key, reply>>

DropChannel(c) ==
  /\ pc[c] = "DropChannel"
  /\ cache' = [cache EXCEPT ![room[c]] = NotFound]
  /\ Goto(c, "DropKey")
  /\ UNCHANGED <<op, room, key, reply>>

DropKey(c) ==
  /\ pc[c] = "DropKey"
  /\ cache' = [cache EXCEPT ![key[c]] = NotFound]
  /\ Answer(c, "ok")
  /\ UNCHANGED <<op, room, key>>

\* Redis: one DEL of the argument; "Err() != nil" is the result, so a command
\* that succeeds is answered with 404 and only one that fails with Ok.
RedisDelete(c) ==
  /\ ~saveInLocal
  /\ \/ pc[c] = "DeleteChannel" /\ cache' = [cache EXCEPT ![room[c]] = NotFound]
     \/ pc[c] = "DeleteKey" /\ cache' = [cache EXCEPT ![key[c]] = NotFound]
  /\ Answer(c, "room not found")
  /\ UNCHANGED <<op, room, key>>

\* A redis command fails: the call returns, leaving what it has already stored.
RedisError(c) ==
  /\ ~saveInLocal
  /\ pc[c] # "idle"
  /\ Answer(c, IF op[c] \in {"delete", "deleteKey"} THEN "ok" ELSE "error")
  /\ UNCHANGED <<cache, op, room, key>>

-----------------------------------------------------------------------------
Request(c) ==
  \/ HandleReset(c) \/ HandleGet(c) \/ HandleDelete(c)
  \/ PublishNoAuth(c) \/ PublishWithKey(c) \/ PublishWithRoom(c) \/ CallDeleteKey(c)

Step(c) ==
  \/ SetKeyDraw(c) \/ SetKeyStoreChannel(c) \/ SetKeyStoreKey(c)
  \/ GetKey(c) \/ GetChannel(c)
  \/ DeleteChannel(c) \/ DeleteKey(c) \/ DropChannel(c) \/ DropKey(c)
  \/ RedisDelete(c) \/ RedisError(c)

Next ==
  /\ \E c \in Clients : Request(c) \/ Step(c)
  /\ UNCHANGED saveInLocal

Spec == Init /\ [][Next]_vars

-----------------------------------------------------------------------------
Storing(c) == pc[c] \in {"StoreChannel", "StoreKey"}

\* Local cache: the key a room is registered under is a key the RTMP server
\* accepts for that very room, except while the SetKey that wrote it still owes
\* its second write.  Deletions by channel and by key, resets and admissions of
\* other goroutines may fall between any two accesses of SetKey.
RoomKeyAccepted ==
  saveInLocal =>
    \A ch \in Channels, k \in Keys :
      cache[ch] = k =>
        \/ cache[k] = ch
        \/ \E c \in Clients : pc[c] = "StoreKey" /\ room[c] = ch /\ key[c] = k

\* Local cache: two rooms are never registered under one key, whatever draws,
\* resets and deletions interleave.
OneRoomPerKey ==
  saveInLocal =>
    \A a, b \in Channels : cache[a] = cache[b] /\ Found(a) => a = b

AskedRoom ==
  \A c \in Clients :
    op[c] = "publish" /\ pc[c] = "idle" /\ reply[c] \in Channels => reply[c] = room[c]

\* Local cache: a publisher admitted without authentication is published in the
\* room it asked for: the key GetKey returned is not another room's by the time
\* GetChannel resolves it, and not after a reset or a delete either.
PublishedWhereAsked == saveInLocal => AskedRoom

\* In one step a key in use goes out of use at most: SetKey never hands a key
\* that resolves to one room to another room, in the cache or in redis.
KeyNeverRebound ==
  [][\A k \in Keys : Found(k) => cache'[k] \in {cache[k], NotFound}]_vars
=============================================================================
