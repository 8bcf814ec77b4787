--------------------------- MODULE RoomKeysProofs ---------------------------
(***************************************************************************)
(* Proofs about RoomKeys, for any number of clients, rooms and keys.       *)
(***************************************************************************)
EXTENDS RoomKeys, TLAPS

\* What makes KeyNeverRebound inductive: between its draw and its second write a
\* SetKey call owns its key, which stays out of the map and in no other SetKey's hand.
KeyOwned ==
  \A c \in Clients :
    Storing(c) =>
      /\ cache[key[c]] = NotFound
      /\ \A d \in Clients : d # c /\ Storing(d) => key[d] # key[c]

\* Every step of every client, in both storages, leaves the map and the calls well typed.
LEMMA CallsStep == CallsOK /\ [Next]_vars => CallsOK'
<1> SUFFICES ASSUME CallsOK, [Next]_vars PROVE CallsOK'
  OBVIOUS
<1> USE NamesAssumption DEF CallsOK, Names, Locations, Ops
<1>1. CASE UNCHANGED vars
  BY <1>1 DEF vars
<1>2. ASSUME NEW c \in Clients, Request(c) PROVE CallsOK'
  <2>1. ASSUME NEW o \in Ops, NEW l \in Locations, CallRoom(c, o, l) PROVE CallsOK'
    BY <2>1 DEF CallRoom, Goto
  <2>2. ASSUME NEW o \in Ops, NEW l \in Locations, CallKey(c, o, l) PROVE CallsOK'
    BY <2>2 DEF CallKey, Goto
  <2> QED
    BY <1>2, <2>1, <2>2 DEF Request, HandleReset, HandleGet, HandleDelete, PublishNoAuth,
       PublishWithKey, PublishWithRoom, CallDeleteKey
<1>3. ASSUME NEW c \in Clients, Step(c) PROVE CallsOK'
  <2>1. CASE SetKeyDraw(c)
    BY <2>1 DEF SetKeyDraw, RandStringRunes, Goto
  <2>2. CASE SetKeyStoreChannel(c)
    BY <2>2 DEF SetKeyStoreChannel, Goto
  <2>3. CASE SetKeyStoreKey(c)
    BY <2>3 DEF SetKeyStoreKey, HaveKey, Answer, Goto
  <2>4. CASE GetKey(c)
    BY <2>4 DEF GetKey, HaveKey, Answer, Goto, Found
  <2>5. CASE GetChannel(c)
    BY <2>5 DEF GetChannel, Answer, Goto
  <2>6. CASE DeleteChannel(c)
    BY <2>6 DEF DeleteChannel, DeleteLookup, Answer, Goto, Found
  <2>7. CASE DeleteKey(c)
    BY <2>7 DEF DeleteKey, DeleteLookup, Answer, Goto, Found
  <2>8. CASE DropChannel(c)
    BY <2>8 DEF DropChannel, Goto
  <2>9. CASE DropKey(c)
    BY <2>9 DEF DropKey, Answer, Goto
  <2>10. CASE RedisDelete(c)
    BY <2>10 DEF RedisDelete, Answer, Goto
  <2>11. CASE RedisError(c)
    BY <2>11 DEF RedisError, Answer, Goto
  <2> QED
    BY <1>3, <2>1, <2>2, <2>3, <2>4, <2>5, <2>6, <2>7, <2>8, <2>9, <2>10, <2>11 DEF Step
<1> QED
  BY <1>1, <1>2, <1>3 DEF Next

\* Every answer is a name or one of the fixed answers.
LEMMA ReplyStep == TypeOK /\ [Next]_vars => ReplyOK'
<1> SUFFICES ASSUME TypeOK, [Next]_vars PROVE ReplyOK'
  OBVIOUS
<1> USE DEF TypeOK, ReplyOK
<1>1. CASE UNCHANGED vars
  BY <1>1 DEF vars
<1>2. ASSUME NEW c \in Clients, Request(c) PROVE ReplyOK'
  BY <1>2 DEF Request, HandleReset, HandleGet, HandleDelete, PublishNoAuth,
     PublishWithKey, PublishWithRoom, CallDeleteKey, CallRoom, CallKey
<1>3. ASSUME NEW c \in Clients, Step(c) PROVE ReplyOK'
  <2>1. ASSUME NEW a \in Names \cup Answers, Answer(c, a) PROVE ReplyOK'
    BY <2>1 DEF Answer
  <2>2. key[c] \in Names \cup Answers
    BY DEF CallsOK, Names
  <2>3. Found(room[c]) => cache[room[c]] \in Names \cup Answers
    BY DEF CallsOK, Names, Found
  <2>4. (IF Found(NameSent(c)) THEN cache[NameSent(c)] ELSE "error") \in Names \cup Answers
    <3>1. NameSent(c) \in {room[c], key[c]}
      BY DEF NameSent
    <3>2. /\ Found(room[c]) => cache[room[c]] \in Names
          /\ Found(key[c]) => cache[key[c]] \in Names
      BY DEF CallsOK, Names, Found
    <3> QED
      BY <3>1, <3>2 DEF Answers
  <2>5. {"ok", "error", "room not found"} \subseteq Names \cup Answers
    BY DEF Answers
  <2>6. CASE SetKeyDraw(c) \/ SetKeyStoreChannel(c) \/ DropChannel(c)
    BY <2>6 DEF SetKeyDraw, SetKeyStoreChannel, DropChannel
  <2>7. CASE SetKeyStoreKey(c)
    BY <2>1, <2>2, <2>7 DEF SetKeyStoreKey, HaveKey
  <2>8. CASE GetKey(c)
    BY <2>1, <2>3, <2>8 DEF GetKey, HaveKey
  <2>9. CASE GetChannel(c)
    BY <2>1, <2>4, <2>9 DEF GetChannel
  <2>10. CASE DeleteChannel(c) \/ DeleteKey(c) \/ DropKey(c) \/ RedisDelete(c)
    BY <2>1, <2>5, <2>10 DEF DeleteChannel, DeleteKey, DeleteLookup, DropKey, RedisDelete
  <2>11. CASE RedisError(c)
    <3>1. (IF op[c] \in {"delete", "deleteKey"} THEN "ok" ELSE "error") \in Names \cup Answers
      BY <2>5
    <3> QED
      BY <2>1, <2>11, <3>1 DEF RedisError
  <2> QED
    BY <1>3, <2>6, <2>7, <2>8, <2>9, <2>10, <2>11 DEF Step
<1> QED
  BY <1>1, <1>2, <1>3 DEF Next

\* The state the process starts in, an empty map and no call, is well typed.
LEMMA TypeInit == Init => TypeOK
<1>1. Init => CallsOK
  BY NamesAssumption DEF Init, CallsOK, Names, Locations, Ops
<1>2. Init => ReplyOK
  BY DEF Init, ReplyOK, Answers
<1>3. Init => saveInLocal \in BOOLEAN
  BY DEF Init
<1> QED
  BY <1>1, <1>2, <1>3 DEF TypeOK

\* Both parts of the type invariant together.
LEMMA TypeStep == TypeOK /\ [Next]_vars => TypeOK'
  BY CallsStep, ReplyStep DEF TypeOK, Next, vars

\* The state of RoomKeys is always well typed: every entry of the shared map leads
\* from a room to a key or from a key to a room.
THEOREM TypeCorrect == Spec => []TypeOK
  BY TypeInit, TypeStep, PTL DEF Spec

-----------------------------------------------------------------------------
\* No step of any client, redis failures and deletions included, takes a key out of
\* the hand of the SetKey call that drew it.
LEMMA KeyOwnedStep == TypeOK /\ KeyOwned /\ [Next]_vars => KeyOwned'
<1> SUFFICES ASSUME TypeOK, KeyOwned, [Next]_vars PROVE KeyOwned'
  OBVIOUS
<1> USE NamesAssumption DEF TypeOK, CallsOK, Names, KeyOwned, Storing
<1>1. CASE UNCHANGED vars
  BY <1>1 DEF vars
<1>2. ASSUME NEW c \in Clients, Request(c) PROVE KeyOwned'
  <2>1. ASSUME NEW o, NEW l \in {"SetKey", "GetKey", "GetChannel", "DeleteChannel"},
             CallRoom(c, o, l), l = "GetChannel" => o = "publishRoom"
        PROVE  KeyOwned'
    BY <2>1 DEF CallRoom, Goto
  <2>2. ASSUME NEW o, NEW l \in {"GetChannel", "DeleteKey"}, CallKey(c, o, l)
        PROVE  KeyOwned'
    BY <2>2 DEF CallKey, Goto
  <2> QED
    BY <1>2, <2>1, <2>2 DEF Request, HandleReset, HandleGet, HandleDelete, PublishNoAuth,
       PublishWithKey, PublishWithRoom, CallDeleteKey
<1>3. ASSUME NEW c \in Clients, Step(c) PROVE KeyOwned'
  <2>1. CASE SetKeyDraw(c)
    BY <2>1 DEF SetKeyDraw, RandStringRunes, Goto, Found
  <2>2. CASE SetKeyStoreChannel(c)
    BY <2>2 DEF SetKeyStoreChannel, Goto
  <2>3. CASE SetKeyStoreKey(c)
    BY <2>3 DEF SetKeyStoreKey, HaveKey, Answer, Goto
  <2>4. CASE GetKey(c)
    BY <2>4 DEF GetKey, HaveKey, Answer, Goto, Found
  <2>5. CASE GetChannel(c)
    BY <2>5 DEF GetChannel, Answer, Goto
  <2>6. CASE DeleteChannel(c)
    <3>1. /\ cache' = cache
          /\ pc'[c] \in {"DropChannel", "idle"}
          /\ \A d \in Clients \ {c} : pc'[d] = pc[d] /\ key'[d] = key[d]
      BY <2>6 DEF DeleteChannel, DeleteLookup, Answer, Goto, Found
    <3> QED
      BY <3>1
  <2>7. CASE DeleteKey(c)
    BY <2>7 DEF DeleteKey, DeleteLookup, Answer, Goto, Found
  <2>8. CASE DropChannel(c)
    BY <2>8 DEF DropChannel, Goto
  <2>9. CASE DropKey(c)
    BY <2>9 DEF DropKey, Answer, Goto
  <2>10. CASE RedisDelete(c)
    BY <2>10 DEF RedisDelete, Answer, Goto
  <2>11. CASE RedisError(c)
    BY <2>11 DEF RedisError, Answer, Goto
  <2> QED
    BY <1>3, <2>1, <2>2, <2>3, <2>4, <2>5, <2>6, <2>7, <2>8, <2>9, <2>10, <2>11 DEF Step
<1> QED
  BY <1>1, <1>2, <1>3 DEF Next

\* Only SetKeyStoreKey writes a key's entry, and the entry it writes was empty.
LEMMA ReboundStep ==
  ASSUME TypeOK, KeyOwned, [Next]_vars, NEW k \in Keys, Found(k)
  PROVE  cache'[k] \in {cache[k], NotFound}
<1> USE NamesAssumption DEF TypeOK, CallsOK, Names, Found
<1>1. CASE UNCHANGED vars
  BY <1>1 DEF vars
<1>2. ASSUME NEW c \in Clients, Request(c) PROVE UNCHANGED cache
  BY <1>2 DEF Request, HandleReset, HandleGet, HandleDelete, PublishNoAuth,
     PublishWithKey, PublishWithRoom, CallDeleteKey, CallRoom, CallKey
<1>3. ASSUME NEW c \in Clients, Step(c) PROVE cache'[k] \in {cache[k], NotFound}
  <2>1. CASE SetKeyDraw(c) \/ GetKey(c) \/ GetChannel(c) \/ DeleteChannel(c) \/ DeleteKey(c)
             \/ RedisError(c)
    BY <2>1 DEF SetKeyDraw, GetKey, GetChannel, DeleteChannel, DeleteKey, DeleteLookup, RedisError
  <2>2. CASE SetKeyStoreChannel(c)
    BY <2>2 DEF SetKeyStoreChannel
  <2>3. CASE SetKeyStoreKey(c)
    BY <2>3 DEF SetKeyStoreKey, KeyOwned, Storing
  <2>4. CASE DropChannel(c) \/ DropKey(c) \/ RedisDelete(c)
    BY <2>4 DEF DropChannel, DropKey, RedisDelete
  <2> QED
    BY <1>3, <2>1, <2>2, <2>3, <2>4 DEF Step
<1> QED
  BY <1>1, <1>2, <1>3 DEF Next

\* In the cache and in redis, whatever the clients do and whichever redis commands
\* fail, SetKey never gives a key that is in use to another room.
THEOREM KeysNeverRebound == Spec => KeyNeverRebound
<1>1. Init => TypeOK /\ KeyOwned
  BY TypeInit, NamesAssumption DEF Init, KeyOwned, Storing
<1>2. TypeOK /\ KeyOwned /\ [Next]_vars => (TypeOK /\ KeyOwned)'
  BY TypeStep, KeyOwnedStep
<1>3. TypeOK /\ KeyOwned /\ [Next]_vars
        => [\A k \in Keys : Found(k) => cache'[k] \in {cache[k], NotFound}]_vars
  BY ReboundStep
<1> QED
  BY <1>1, <1>2, <1>3, PTL DEF Spec, KeyNeverRebound

-----------------------------------------------------------------------------
(***************************************************************************)
(* The local cache.  RoomKeyAccepted is not inductive by itself: a call    *)
(* that is about to remove a key must be known to have no room left that   *)
(* is registered under it.                                                 *)
(***************************************************************************)
Deleting(c) == pc[c] \in {"DropChannel", "DropKey"}

Accepted ==
  \A ch \in Channels, k \in Keys :
    cache[ch] = k =>
      \/ cache[k] = ch
      \/ \E c \in Clients : pc[c] = "StoreKey" /\ room[c] = ch /\ key[c] = k

\* A key a SetKey call is about to store is the key of no room, or of its own.
StoringFree ==
  \A c \in Clients, ch \in Channels :
    /\ pc[c] = "StoreChannel" => cache[ch] # key[c]
    /\ pc[c] = "StoreKey" /\ cache[ch] = key[c] => ch = room[c]

\* A key a delete call is about to remove is the key of no room but the one it
\* removes first, and no SetKey call is about to register a room under it.
DeletingSafe ==
  \A c \in Clients : Deleting(c) =>
    /\ \A d \in Clients : pc[d] = "StoreChannel" => key[d] # key[c]
    /\ \A ch \in Channels :
         cache[ch] = key[c] => pc[c] = "DropChannel" /\ ch = room[c]

\* The key an admission is about to resolve belongs to the room asked for.
AdmissionSafe ==
  \A c \in Clients : op[c] = "publish" /\ pc[c] = "GetChannel" =>
    /\ cache[key[c]] \in {room[c], NotFound}
    /\ \A d \in Clients : Storing(d) /\ key[d] = key[c] => room[d] = room[c]

LocalInv ==
  TypeOK /\ KeyOwned /\ Accepted /\ StoringFree /\ DeletingSafe /\ AdmissionSafe
    /\ AskedRoom

\* Starting a request disturbs none of the parts.
LEMMA LocalRequest ==
  ASSUME LocalInv, NEW c \in Clients, Request(c)
  PROVE  Accepted' /\ StoringFree' /\ DeletingSafe' /\ AdmissionSafe' /\ AskedRoom'
<1> USE NamesAssumption DEF LocalInv, TypeOK, CallsOK, Names, Storing, Deleting
<1>1. ASSUME NEW o \in Ops, NEW l \in {"SetKey", "GetKey", "GetChannel", "DeleteChannel"},
             CallRoom(c, o, l), l = "GetChannel" => o = "publishRoom"
      PROVE  Accepted' /\ StoringFree' /\ DeletingSafe' /\ AdmissionSafe' /\ AskedRoom'
  <2> USE <1>1 DEF CallRoom, Goto
  <2>1. Accepted'
    BY DEF Accepted
  <2>2. StoringFree'
    BY DEF StoringFree
  <2>3. DeletingSafe'
    BY DEF DeletingSafe
  <2>4. AdmissionSafe' /\ AskedRoom'
    BY DEF AdmissionSafe, AskedRoom
  <2> QED
    BY <2>1, <2>2, <2>3, <2>4
<1>2. ASSUME NEW o \in {"publishKey", "deleteKey"}, NEW l \in {"GetChannel", "DeleteKey"},
             CallKey(c, o, l)
      PROVE  Accepted' /\ StoringFree' /\ DeletingSafe' /\ AdmissionSafe' /\ AskedRoom'
  <2> USE <1>2 DEF CallKey, Goto
  <2>1. Accepted'
    BY DEF Accepted
  <2>2. StoringFree'
    BY DEF StoringFree
  <2>3. DeletingSafe'
    BY DEF DeletingSafe
  <2>4. AdmissionSafe' /\ AskedRoom'
    BY DEF AdmissionSafe, AskedRoom
  <2> QED
    BY <2>1, <2>2, <2>3, <2>4
<1> QED
  BY <1>1, <1>2 DEF Request, HandleReset, HandleGet, HandleDelete, PublishNoAuth,
     PublishWithKey, PublishWithRoom, CallDeleteKey, Ops

\* Nor does any step of a call in progress.
LEMMA LocalStep ==
  ASSUME LocalInv, saveInLocal, NEW c \in Clients, Step(c)
  PROVE  Accepted' /\ StoringFree' /\ DeletingSafe' /\ AdmissionSafe' /\ AskedRoom'
<1> USE NamesAssumption DEF LocalInv, TypeOK, CallsOK, Names, Storing, Deleting
<1>1. ASSUME SetKeyDraw(c)
      PROVE  Accepted' /\ StoringFree' /\ DeletingSafe' /\ AdmissionSafe' /\ AskedRoom'
  <2> USE <1>1 DEF SetKeyDraw, RandStringRunes, Goto, Found
  <2>1. Accepted'
    BY DEF Accepted, StoringFree, KeyOwned
  <2>2. StoringFree'
    BY DEF StoringFree, Accepted, KeyOwned
  <2>3. DeletingSafe'
    BY DEF DeletingSafe, Accepted, KeyOwned, StoringFree
  <2>4. AdmissionSafe'
    BY DEF AdmissionSafe, Accepted, KeyOwned
  <2>5. AskedRoom'
    BY AnswersAssumption DEF AskedRoom, Answers, ReplyOK
  <2> QED
    BY <2>1, <2>2, <2>3, <2>4, <2>5
<1>2. ASSUME SetKeyStoreChannel(c)
      PROVE  Accepted' /\ StoringFree' /\ DeletingSafe' /\ AdmissionSafe' /\ AskedRoom'
  <2> USE <1>2 DEF SetKeyStoreChannel, Goto
  <2>1. Accepted'
    BY DEF Accepted, StoringFree, KeyOwned
  <2>2. StoringFree'
    BY DEF StoringFree, Accepted, KeyOwned
  <2>3. DeletingSafe'
    BY DEF DeletingSafe, Accepted, KeyOwned, StoringFree
  <2>4. AdmissionSafe'
    BY DEF AdmissionSafe
  <2>5. AskedRoom'
    BY AnswersAssumption DEF AskedRoom, Answers, ReplyOK
  <2> QED
    BY <2>1, <2>2, <2>3, <2>4, <2>5
<1>3. ASSUME SetKeyStoreKey(c)
      PROVE  Accepted' /\ StoringFree' /\ DeletingSafe' /\ AdmissionSafe' /\ AskedRoom'
  <2> USE <1>3 DEF SetKeyStoreKey, HaveKey, Answer, Goto
  <2>1. Accepted'
    BY DEF Accepted, StoringFree, KeyOwned
  <2>2. StoringFree'
    BY DEF StoringFree
  <2>3. DeletingSafe'
    BY DEF DeletingSafe
  <2>4. AdmissionSafe'
    BY DEF AdmissionSafe, Accepted, KeyOwned
  <2>5. AskedRoom'
    BY AnswersAssumption DEF AskedRoom, Answers, ReplyOK
  <2> QED
    BY <2>1, <2>2, <2>3, <2>4, <2>5
<1>4. ASSUME GetKey(c)
      PROVE  Accepted' /\ StoringFree' /\ DeletingSafe' /\ AdmissionSafe' /\ AskedRoom'
  <2> USE <1>4 DEF GetKey, HaveKey, Answer, Goto, Found
  <2>1. Accepted'
    BY DEF Accepted
  <2>2. StoringFree'
    BY DEF StoringFree
  <2>3. DeletingSafe'
    BY DEF DeletingSafe
  <2>4. AdmissionSafe'
    BY DEF AdmissionSafe, Accepted, KeyOwned
  <2>5. AskedRoom'
    BY AnswersAssumption DEF AskedRoom, Answers, ReplyOK
  <2> QED
    BY <2>1, <2>2, <2>3, <2>4, <2>5
<1>5. ASSUME GetChannel(c)
      PROVE  Accepted' /\ StoringFree' /\ DeletingSafe' /\ AdmissionSafe' /\ AskedRoom'
  <2> USE <1>5 DEF GetChannel, NameSent, Answer, Goto, Found
  <2>1. Accepted'
    BY DEF Accepted
  <2>2. StoringFree'
    BY DEF StoringFree
  <2>3. DeletingSafe'
    BY DEF DeletingSafe
  <2>4. AdmissionSafe'
    BY DEF AdmissionSafe
  <2>5. AskedRoom'
    BY AnswersAssumption DEF AskedRoom, AdmissionSafe, Answers, ReplyOK
  <2> QED
    BY <2>1, <2>2, <2>3, <2>4, <2>5
<1>6. ASSUME DeleteChannel(c)
      PROVE  Accepted' /\ StoringFree' /\ DeletingSafe' /\ AdmissionSafe' /\ AskedRoom'
  <2>1. CASE Found(room[c])
    <3>1. /\ pc[c] = "DeleteChannel"
          /\ pc' = [pc EXCEPT ![c] = "DropChannel"]
          /\ key' = [key EXCEPT ![c] = cache[room[c]]]
          /\ UNCHANGED <<cache, op, room, reply>>
      BY <1>6, <2>1 DEF DeleteChannel, DeleteLookup, Goto
    <3>2. Accepted'
      BY <3>1 DEF Accepted
    <3>3. StoringFree'
      BY <3>1 DEF StoringFree
    <3>4. DeletingSafe'
      BY <2>1, <3>1 DEF DeletingSafe, Accepted, KeyOwned, StoringFree, Found
    <3>5. AdmissionSafe'
      BY <3>1 DEF AdmissionSafe
    <3>6. AskedRoom'
      BY <3>1 DEF AskedRoom
    <3> QED
      BY <3>2, <3>3, <3>4, <3>5, <3>6
  <2>2. CASE ~Found(room[c])
    <3>1. /\ pc[c] = "DeleteChannel"
          /\ pc' = [pc EXCEPT ![c] = "idle"]
          /\ reply' = [reply EXCEPT ![c] = "room not found"]
          /\ UNCHANGED <<cache, op, room, key>>
      BY <1>6, <2>2 DEF DeleteChannel, DeleteLookup, Answer, Goto
    <3>2. Accepted'
      <4>1. \A d \in Clients : pc[d] = "StoreKey" => pc'[d] = "StoreKey"
        BY <3>1
      <4> QED
        BY <3>1, <4>1 DEF Accepted
    <3>3. StoringFree'
      BY <3>1 DEF StoringFree
    <3>4. DeletingSafe'
      BY <3>1 DEF DeletingSafe
    <3>5. AdmissionSafe'
      BY <3>1 DEF AdmissionSafe
    <3>6. AskedRoom'
      BY <3>1, AnswersAssumption DEF AskedRoom, Answers, ReplyOK
    <3> QED
      BY <3>2, <3>3, <3>4, <3>5, <3>6
  <2> QED
    BY <2>1, <2>2
<1>7. ASSUME DeleteKey(c)
      PROVE  Accepted' /\ StoringFree' /\ DeletingSafe' /\ AdmissionSafe' /\ AskedRoom'
  <2>1. CASE Found(key[c])
    <3>1. /\ pc[c] = "DeleteKey"
          /\ pc' = [pc EXCEPT ![c] = "DropChannel"]
          /\ room' = [room EXCEPT ![c] = cache[key[c]]]
          /\ UNCHANGED <<cache, op, key, reply>>
      BY <1>7, <2>1 DEF DeleteKey, DeleteLookup, Goto
    <3>2. Accepted'
      BY <3>1 DEF Accepted
    <3>3. StoringFree'
      BY <3>1 DEF StoringFree
    <3>4. DeletingSafe'
      BY <2>1, <3>1 DEF DeletingSafe, Accepted, KeyOwned, StoringFree, Found
    <3>5. AdmissionSafe'
      BY <3>1 DEF AdmissionSafe
    <3>6. AskedRoom'
      BY <3>1 DEF AskedRoom
    <3> QED
      BY <3>2, <3>3, <3>4, <3>5, <3>6
  <2>2. CASE ~Found(key[c])
    <3>1. /\ pc[c] = "DeleteKey"
          /\ pc' = [pc EXCEPT ![c] = "idle"]
          /\ reply' = [reply EXCEPT ![c] = "room not found"]
          /\ UNCHANGED <<cache, op, room, key>>
      BY <1>7, <2>2 DEF DeleteKey, DeleteLookup, Answer, Goto
    <3>2. Accepted'
      <4>1. \A d \in Clients : pc[d] = "StoreKey" => pc'[d] = "StoreKey"
        BY <3>1
      <4> QED
        BY <3>1, <4>1 DEF Accepted
    <3>3. StoringFree'
      BY <3>1 DEF StoringFree
    <3>4. DeletingSafe'
      BY <3>1 DEF DeletingSafe
    <3>5. AdmissionSafe'
      BY <3>1 DEF AdmissionSafe
    <3>6. AskedRoom'
      BY <3>1, AnswersAssumption DEF AskedRoom, Answers, ReplyOK
    <3> QED
      BY <3>2, <3>3, <3>4, <3>5, <3>6
  <2> QED
    BY <2>1, <2>2
<1>8. ASSUME DropChannel(c)
      PROVE  Accepted' /\ StoringFree' /\ DeletingSafe' /\ AdmissionSafe' /\ AskedRoom'
  <2> USE <1>8 DEF DropChannel, Goto
  <2>1. Accepted'
    BY DEF Accepted, DeletingSafe
  <2>2. StoringFree'
    BY DEF StoringFree
  <2>3. DeletingSafe'
    BY DEF DeletingSafe
  <2>4. AdmissionSafe'
    BY DEF AdmissionSafe
  <2>5. AskedRoom'
    BY AnswersAssumption DEF AskedRoom, Answers, ReplyOK
  <2> QED
    BY <2>1, <2>2, <2>3, <2>4, <2>5
<1>9. ASSUME DropKey(c)
      PROVE  Accepted' /\ StoringFree' /\ DeletingSafe' /\ AdmissionSafe' /\ AskedRoom'
  <2> USE <1>9 DEF DropKey, Answer, Goto
  <2>1. Accepted'
    BY DEF Accepted, DeletingSafe
  <2>2. StoringFree'
    BY DEF StoringFree
  <2>3. DeletingSafe'
    BY DEF DeletingSafe
  <2>4. AdmissionSafe'
    BY DEF AdmissionSafe
  <2>5. AskedRoom'
    BY AnswersAssumption DEF AskedRoom, Answers, ReplyOK
  <2> QED
    BY <2>1, <2>2, <2>3, <2>4, <2>5
<1> QED
  BY <1>1, <1>2, <1>3, <1>4, <1>5, <1>6, <1>7, <1>8, <1>9 DEF Step, RedisDelete, RedisError

\* Every step with the local cache preserves the invariant.
LEMMA LocalInvStep == saveInLocal /\ LocalInv /\ [Next]_vars => LocalInv'
<1> SUFFICES ASSUME saveInLocal, LocalInv, [Next]_vars PROVE LocalInv'
  OBVIOUS
<1>1. TypeOK' /\ KeyOwned'
  BY TypeStep, KeyOwnedStep DEF LocalInv
<1>2. CASE UNCHANGED vars
  <2> USE <1>2 DEF vars, LocalInv, Storing, Deleting
  <2>1. Accepted' /\ StoringFree'
    BY DEF Accepted, StoringFree
  <2>2. DeletingSafe' /\ AdmissionSafe' /\ AskedRoom'
    BY DEF DeletingSafe, AdmissionSafe, AskedRoom
  <2> QED
    BY <1>1, <2>1, <2>2
<1>3. ASSUME NEW c \in Clients, Request(c) PROVE LocalInv'
  BY <1>1, <1>3, LocalRequest DEF LocalInv
<1>4. ASSUME NEW c \in Clients, Step(c) PROVE LocalInv'
  BY <1>1, <1>4, LocalStep DEF LocalInv
<1> QED
  BY <1>2, <1>3, <1>4 DEF Next

\* Two rooms registered under one key would both have to be the room it resolves to,
\* or the room of the one SetKey call that owns it.
LEMMA AcceptedIsUnique == LocalInv => OneRoomPerKey
<1> SUFFICES ASSUME LocalInv, NEW a \in Channels, NEW b \in Channels,
                    cache[a] = cache[b], Found(a)
             PROVE  a = b
  BY DEF OneRoomPerKey
<1>1. cache[a] \in Keys
  BY DEF LocalInv, TypeOK, CallsOK, Found
<1> DEFINE k == cache[a]
<1>2. \A ch \in {a, b} : cache[k] = ch
        \/ \E c \in Clients : pc[c] = "StoreKey" /\ room[c] = ch /\ key[c] = k
  BY <1>1 DEF LocalInv, Accepted
<1>3. \A c, d \in Clients :
        pc[c] = "StoreKey" /\ key[c] = k =>
          cache[k] = NotFound /\ (pc[d] = "StoreKey" /\ key[d] = k => c = d)
  BY DEF LocalInv, KeyOwned, Storing
<1>4. a # NotFound /\ b # NotFound
  BY NamesAssumption DEF Names
<1> HIDE DEF k
<1> QED
  BY <1>2, <1>3, <1>4

\* With the local cache: the key of a room is accepted for that room, two rooms never
\* share one, and a publisher admitted without authentication lands in the room it
\* asked for, for every number of clients, rooms and keys.
THEOREM LocalKeysSafe ==
  Spec => [](RoomKeyAccepted /\ OneRoomPerKey /\ PublishedWhereAsked)
<1> DEFINE Inv == saveInLocal => LocalInv
<1>1. Init => Inv
  BY TypeInit, NamesAssumption, AnswersAssumption DEF Init, LocalInv, Names, KeyOwned, Storing, Deleting,
     Accepted, StoringFree, DeletingSafe, AdmissionSafe, AskedRoom, Answers
<1>2. Inv /\ [Next]_vars => Inv'
  BY LocalInvStep DEF Next, vars
<1>3. Inv => RoomKeyAccepted /\ OneRoomPerKey /\ PublishedWhereAsked
  BY AcceptedIsUnique DEF LocalInv, Accepted, RoomKeyAccepted, OneRoomPerKey, PublishedWhereAsked
<1> QED
  BY <1>1, <1>2, <1>3, PTL DEF Spec

\* With the local cache a publisher that is admitted without authentication lands in
\* the room it asked for, however the resets and deletes of others interleave with
\* its GetKey and GetChannel.
THEOREM PublishersLandWhereAsked == Spec => []PublishedWhereAsked
  BY LocalKeysSafe, PTL
=============================================================================
