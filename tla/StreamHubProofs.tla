--------------------------- MODULE StreamHubProofs ---------------------------
(* Proofs about the stream hub, for any number of publishers and players:    *)
(* no interleaving of the calls drops a player.                              *)
EXTENDS StreamHub, FiniteSetTheorems, TLAPS

-----------------------------------------------------------------------------
(* A goroutine that works on a stream has one.                               *)
Located ==
  /\ \A p \in Publishers :
       /\ hr[p].at \in {"stop", "close", "clear", "id", "copy", "delete", "place", "add"}
            => hr[p].s \in Streams
       /\ hr[p].at \in {"copy", "delete", "place"} => hr[p].ns \in Streams
       /\ hr[p].at \in {"delete", "place"} => hr[p].cur \in Players
       /\ ts[p].at \notin {"none", "ended"} => ts[p].s \in Streams
  /\ \A w \in Players : hw[w].at = "add" => hw[w].s \in Streams
  /\ ca.at = "scan" => ca.s \in Streams
  /\ ca.at = "idle" => ca.cur = None

(* A publisher allocates in one of two steps, a player in one.               *)
PublishersPast == {p \in Publishers : hr[p].at \in {"copy", "delete", "place", "add", "done"}}
PlayersPast == {w \in Players : hw[w].at = "unattached"}
Counted == allocated <= Cardinality(PublishersPast) + Cardinality(PlayersPast)

HubInv == TypeOK /\ Located /\ Counted /\ PlayerNeverDropped

-----------------------------------------------------------------------------
(* The sets that Counted counts are finite and no larger than the whole.     *)
LEMMA PastSizes ==
  /\ IsFiniteSet(PublishersPast) /\ IsFiniteSet(PlayersPast)
  /\ Cardinality(PublishersPast) \in Nat /\ Cardinality(PlayersPast) \in Nat
  /\ Cardinality(Publishers) \in Nat /\ Cardinality(Players) \in Nat
  /\ Cardinality(PublishersPast) <= Cardinality(Publishers)
  /\ Cardinality(PlayersPast) <= Cardinality(Players)
<1>1. PublishersPast \subseteq Publishers /\ PlayersPast \subseteq Players
  BY DEF PublishersPast, PlayersPast
<1>2. IsFiniteSet(Publishers) /\ IsFiniteSet(Players)
  BY HubAssumption
<1> QED BY <1>1, <1>2, FS_Subset, FS_CardinalityType

(* While a publisher is still to allocate, there is a Stream left for it.    *)
LEMMA PublisherMayAllocate ==
  ASSUME TypeOK, Counted, NEW p \in Publishers, 
         hr[p].at \in {"none", "create", "stop", "close", "clear", "id"}
  PROVE  /\ allocated + 1 \in Streams
         /\ Cardinality(PublishersPast \cup {p}) = Cardinality(PublishersPast) + 1
<1>1. p \notin PublishersPast
  BY DEF PublishersPast
<1>2. /\ IsFiniteSet(PublishersPast \cup {p})
      /\ Cardinality(PublishersPast \cup {p}) = Cardinality(PublishersPast) + 1
  BY <1>1, PastSizes, FS_AddElement
<1>3. PublishersPast \cup {p} \subseteq Publishers
  BY DEF PublishersPast
<1>4. Cardinality(PublishersPast \cup {p}) <= Cardinality(Publishers)
  BY <1>3, FS_Subset, HubAssumption
<1>5. allocated \in Nat
  BY PastSizes DEF TypeOK
<1>6. allocated + 1 <= Cardinality(Publishers) + Cardinality(Players)
  BY <1>2, <1>4, <1>5, PastSizes DEF Counted
<1> QED BY <1>2, <1>5, <1>6, PastSizes DEF Streams

(* The same for a player.                                                    *)
LEMMA PlayerMayAllocate ==
  ASSUME TypeOK, Counted, NEW w \in Players, hw[w].at = "create"
  PROVE  /\ allocated + 1 \in Streams
         /\ Cardinality(PlayersPast \cup {w}) = Cardinality(PlayersPast) + 1
<1>1. w \notin PlayersPast
  BY DEF PlayersPast
<1>2. /\ IsFiniteSet(PlayersPast \cup {w})
      /\ Cardinality(PlayersPast \cup {w}) = Cardinality(PlayersPast) + 1
  BY <1>1, PastSizes, FS_AddElement
<1>3. PlayersPast \cup {w} \subseteq Players
  BY DEF PlayersPast
<1>4. Cardinality(PlayersPast \cup {w}) <= Cardinality(Players)
  BY <1>3, FS_Subset, HubAssumption
<1>5. allocated \in Nat
  BY PastSizes DEF TypeOK
<1>6. allocated + 1 <= Cardinality(Publishers) + Cardinality(Players)
  BY <1>2, <1>4, <1>5, PastSizes DEF Counted
<1> QED BY <1>2, <1>5, <1>6, PastSizes DEF Streams

LEMMA AllocatedIsNat == TypeOK => allocated \in Nat
BY PastSizes DEF TypeOK

(* Streams are numbers, and None is not one.                                 *)
LEMMA NoneIsNoStream == None \notin Streams /\ Streams \subseteq Nat
BY PastSizes, HubAssumption DEF Streams

(* The types of the goroutines' records.                                     *)
HrType == [at : {"none", "create", "stop", "close", "clear", "id", "copy", "delete", "place",
                "add", "done"},
           s : StreamOrNone, ns : StreamOrNone, todo : SUBSET Players,
           cur : Players \cup {None}]
TsType == [at : {"none", "spawned", "loop", "read", "range", "stopped", "failed", "ended"},
           s : StreamOrNone, rd : Publishers \cup {None}, todo : SUBSET Players,
           cur : Players \cup {None}]
HwType == [at : {"none", "create", "add", "in", "unattached"}, s : StreamOrNone]
CaType == [at : {"idle", "scan"}, s : StreamOrNone, todo : SUBSET Players, n : Nat,
           cur : Players \cup {None}]

LEMMA RecordTypes ==
  ASSUME TypeOK
  PROVE  /\ hr \in [Publishers -> HrType] /\ ts \in [Publishers -> TsType]
         /\ hw \in [Players -> HwType] /\ ca \in CaType
         /\ reg \in StreamOrNone
BY DEF TypeOK, HrType, TsType, HwType, CaType

(* A goroutine moves on: its record is replaced, the others' stay.           *)
LEMMA HrSet ==
  ASSUME TypeOK, NEW p \in Publishers, NEW e \in HrType, hr' = [hr EXCEPT ![p] = e]
  PROVE  hr' \in [Publishers -> HrType]
BY RecordTypes

LEMMA TsSet ==
  ASSUME TypeOK, NEW p \in Publishers, NEW e \in TsType, ts' = [ts EXCEPT ![p] = e]
  PROVE  /\ ts' \in [Publishers -> TsType] /\ ts'[p] = e
         /\ \A q \in Publishers : /\ q # p => ts'[q] = ts[q]
                                 /\ e.s = ts[p].s => ts'[q].s = ts[q].s
<1>1. ts \in [Publishers -> TsType]
  BY RecordTypes
<1>2. \A q \in Publishers : ts'[q] = IF q = p THEN e ELSE ts[q]
  BY <1>1
<1>3. ts' \in [Publishers -> TsType]
  BY <1>1
<1> QED BY <1>2, <1>3

(* What the writers' part of a step must keep for no player to be dropped.   *)
LEMMA KeptIn ==
  ASSUME PlayerNeverDropped,
         \A w \in Players : hw'[w].at = "in" /\ ~wclosed'[w] =>
           \/ \E s \in Streams : ws'[s][w] # "out"
           \/ Carried(w)'
           \/ ca'.cur = w
           \/ /\ hw[w].at = "in" /\ ~wclosed[w]
              /\ \A s \in Streams : ws[s][w] # "out" => ws'[s][w] # "out"
              /\ Carried(w) => Carried(w)'
              /\ ca.cur = w => ca'.cur = w
  PROVE  PlayerNeverDropped'
BY DEF PlayerNeverDropped, In

(* A publisher's HandleReader that carries nobody moves on.                  *)
LEMMA ReaderMoves ==
  ASSUME PlayerNeverDropped, NEW p \in Publishers, hr[p].at # "place",
         \A q \in Publishers \ {p} : hr'[q] = hr[q],
         UNCHANGED <<ws, wclosed, hw, ca>>
  PROVE  PlayerNeverDropped'
<1>1. \A w \in Players : Carried(w) => Carried(w)'
  BY DEF Carried
<1> QED BY <1>1, KeptIn

-----------------------------------------------------------------------------
(* The invariant holds at the start.                                         *)
LEMMA HubInitially == Init => HubInv
<1> SUFFICES ASSUME Init PROVE HubInv
  OBVIOUS
<1>1. Cardinality(Publishers) \in Nat /\ Cardinality(Players) \in Nat
  BY PastSizes
<1>2. TypeOK
  <2>1. allocated \in 0 .. Cardinality(Publishers) + Cardinality(Players)
    BY <1>1 DEF Init
  <2>2. hr \in [Publishers -> HrType] /\ ts \in [Publishers -> TsType]
    BY DEF Init, StreamOrNone, HrType, TsType, Reader, Trans
  <2>3. hw \in [Players -> HwType] /\ ca \in CaType
    BY DEF Init, StreamOrNone, HwType, CaType, Idle
  <2>4. /\ reg \in StreamOrNone /\ push \in BOOLEAN
        /\ isStart \in [Streams -> BOOLEAN]
        /\ r \in [Streams -> Publishers \cup {None}]
        /\ ws \in [Streams -> [Players -> {"out", "new", "init"}]]
        /\ rclosed \in [Publishers -> BOOLEAN] /\ wclosed \in [Players -> BOOLEAN]
    BY DEF Init, StreamOrNone
  <2> QED BY <2>1, <2>2, <2>3, <2>4 DEF TypeOK, HrType, TsType, HwType, CaType
<1>3. Located
  BY DEF Init, Located, Reader, Trans, Idle
<1>4. Counted
  BY PastSizes DEF Init, Counted
<1>5. PlayerNeverDropped
  BY DEF Init, PlayerNeverDropped
<1> QED BY <1>2, <1>3, <1>4, <1>5 DEF HubInv

(* HandleReader's steps preserve it.                                         *)
LEMMA LoadKeepsHub ==
  ASSUME HubInv, NEW p \in Publishers, HandleReaderLoad(p)
  PROVE  HubInv'
<1> USE DEF HubInv
<1>1. TypeOK'
  <2>1. hr' \in [Publishers -> HrType]
    <3>1. hr \in [Publishers -> HrType] /\ hr[p] \in HrType /\ reg \in StreamOrNone
      BY RecordTypes
    <3> DEFINE e == [hr[p] EXCEPT !.at = IF reg = None THEN "create" ELSE "stop", !.s = reg]
    <3>2. e \in HrType
      BY <3>1 DEF HrType
    <3>3. hr' = [hr EXCEPT ![p] = e]
      BY DEF HandleReaderLoad
    <3> HIDE DEF e
    <3> QED BY <3>1, <3>2, <3>3
  <2> QED BY <2>1 DEF TypeOK, HandleReaderLoad, envVars, HrType
<1>2. Located'
  BY DEF TypeOK, Located, HandleReaderLoad, StreamOrNone
<1>3. Counted'
  <2>1. PublishersPast' = PublishersPast /\ PlayersPast' = PlayersPast
    BY DEF TypeOK, HandleReaderLoad, PublishersPast, PlayersPast
  <2> QED BY <2>1 DEF Counted, HandleReaderLoad
<1>4. PlayerNeverDropped'
  BY ReaderMoves, RecordTypes DEF HandleReaderLoad, envVars, HrType
<1> QED BY <1>1, <1>2, <1>3, <1>4

LEMMA CreateKeepsHub ==
  ASSUME HubInv, NEW p \in Publishers, HandleReaderCreate(p)
  PROVE  HubInv'
<1> USE DEF HubInv
<1>0. /\ allocated + 1 \in Streams
      /\ Cardinality(PublishersPast \cup {p}) = Cardinality(PublishersPast) + 1
  BY PublisherMayAllocate DEF HandleReaderCreate
<1>1. TypeOK'
  <2>1. hr' \in [Publishers -> HrType]
    <3> DEFINE e == [hr[p] EXCEPT !.at = "add", !.s = allocated + 1]
    <3>1. hr[p] \in HrType
      BY RecordTypes
    <3>2. e \in HrType
      BY <1>0, <3>1 DEF HrType, StreamOrNone
    <3>3. hr' = [hr EXCEPT ![p] = e]
      BY DEF HandleReaderCreate
    <3> HIDE DEF e
    <3> QED BY <3>2, <3>3, HrSet
  <2>2. allocated' \in 0 .. Cardinality(Publishers) + Cardinality(Players)
    BY <1>0, PastSizes DEF HandleReaderCreate, Streams
  <2> QED BY <1>0, <2>1, <2>2 DEF TypeOK, HandleReaderCreate, envVars, StreamOrNone, HrType
<1>2. Located'
  BY <1>0 DEF TypeOK, Located, HandleReaderCreate
<1>3. Counted'
  <2>1. PublishersPast' = PublishersPast \cup {p} /\ PlayersPast' = PlayersPast
    BY DEF TypeOK, HandleReaderCreate, PublishersPast, PlayersPast
  <2> QED BY <1>0, <2>1, PastSizes DEF Counted, HandleReaderCreate, TypeOK
<1>4. PlayerNeverDropped'
  BY ReaderMoves, RecordTypes DEF HandleReaderCreate, envVars, HrType
<1> QED BY <1>1, <1>2, <1>3, <1>4

(* TransStop's three steps only move on, and close or stop.                  *)
LEMMA StopMoves ==
  ASSUME HubInv, NEW p \in Publishers, hr[p].at \in {"stop", "close", "clear"},
         NEW at \in {"close", "clear", "id"}, hr' = [hr EXCEPT ![p].at = at],
         UNCHANGED <<reg, allocated, r, ws, wclosed, ts, hw, ca, push>>,
         rclosed' \in [Publishers -> BOOLEAN], isStart' \in [Streams -> BOOLEAN]
  PROVE  HubInv'
<1> USE DEF HubInv
<1>1. hr' \in [Publishers -> HrType]
  BY RecordTypes DEF HrType
<1>2. TypeOK'
  BY <1>1 DEF TypeOK, HrType
<1>3. Located'
  BY RecordTypes DEF Located, HrType
<1>4. Counted'
  <2>1. PublishersPast' = PublishersPast /\ PlayersPast' = PlayersPast
    BY RecordTypes DEF PublishersPast, PlayersPast, HrType
  <2> QED BY <2>1 DEF Counted
<1>5. PlayerNeverDropped'
  BY ReaderMoves, RecordTypes DEF HrType
<1> QED BY <1>2, <1>3, <1>4, <1>5

LEMMA TransStopKeepsHub ==
  ASSUME HubInv, NEW p \in Publishers,
         TransStop(p) \/ TransStopClose(p) \/ TransStopClear(p)
  PROVE  HubInv'
<1>0. TypeOK
  BY DEF HubInv
<1>1. CASE TransStop(p)
  BY <1>0, <1>1, StopMoves DEF TransStop, TypeOK, envVars
<1>2. CASE TransStopClose(p)
  <2>1. rclosed' \in [Publishers -> BOOLEAN] /\ isStart' \in [Streams -> BOOLEAN]
    BY <1>0, <1>2 DEF TransStopClose, TypeOK
  <2> QED BY <1>2, <2>1, StopMoves DEF TransStopClose
<1>3. CASE TransStopClear(p)
  <2>1. rclosed' \in [Publishers -> BOOLEAN] /\ isStart' \in [Streams -> BOOLEAN]
    BY <1>0, <1>3 DEF TransStopClear, TypeOK, envVars
  <2> QED BY <1>3, <2>1, StopMoves DEF TransStopClear, envVars
<1> QED BY <1>1, <1>2, <1>3

LEMMA IdKeepsHub ==
  ASSUME HubInv, NEW p \in Publishers, HandleReaderId(p)
  PROVE  HubInv'
<1> USE DEF HubInv
<1>1. CASE UNCHANGED allocated /\ hr' = [hr EXCEPT ![p].at = "add"]
  <2>1. hr' \in [Publishers -> HrType]
    BY <1>1, RecordTypes DEF HrType
  <2>2. TypeOK'
    BY <1>1, <2>1 DEF TypeOK, HandleReaderId, envVars, HrType
  <2>3. Located'
    BY <1>1, RecordTypes DEF Located, HandleReaderId, HrType
  <2>4. Counted'
    <3>1. PublishersPast' = PublishersPast \cup {p} /\ PlayersPast' = PlayersPast
      BY <1>1, RecordTypes DEF HandleReaderId, PublishersPast, PlayersPast, HrType
    <3>2. Cardinality(PublishersPast \cup {p}) = Cardinality(PublishersPast) + 1
      BY PublisherMayAllocate DEF HandleReaderId
    <3> QED BY <1>1, <3>1, <3>2, PastSizes DEF Counted, TypeOK
  <2>5. PlayerNeverDropped'
    BY ReaderMoves, RecordTypes DEF HandleReaderId, envVars, HrType
  <2> QED BY <2>2, <2>3, <2>4, <2>5
<1>2. CASE /\ allocated' = allocated + 1
           /\ hr' = [hr EXCEPT ![p].at = "copy", ![p].ns = allocated + 1, ![p].todo = In(hr[p].s)]
  <2>0. /\ allocated + 1 \in Streams /\ allocated + 1 \in StreamOrNone
        /\ Cardinality(PublishersPast \cup {p}) = Cardinality(PublishersPast) + 1
    BY PublisherMayAllocate DEF HandleReaderId, StreamOrNone
  <2>a. In(hr[p].s) \subseteq Players
    BY DEF In
  <2>1. hr' \in [Publishers -> HrType]
    <3>1. hr \in [Publishers -> HrType] /\ hr[p] \in HrType
      BY RecordTypes
    <3> DEFINE e == [hr[p] EXCEPT !.at = "copy", !.ns = allocated + 1, !.todo = In(hr[p].s)]
    <3>2. e \in HrType
      BY <2>0, <2>a, <3>1 DEF HrType
    <3>3. hr' = [hr EXCEPT ![p] = e]
      BY <1>2
    <3> HIDE DEF e
    <3> QED BY <3>1, <3>2, <3>3
  <2>b. allocated' \in 0 .. Cardinality(Publishers) + Cardinality(Players)
    BY <1>2, <2>0, PastSizes DEF Streams
  <2>2. TypeOK'
    BY <2>1, <2>b DEF TypeOK, HandleReaderId, envVars, HrType
  <2>3. Located'
    BY <1>2, <2>0, RecordTypes DEF Located, HandleReaderId, HrType
  <2>4. Counted'
    <3>1. PublishersPast' = PublishersPast \cup {p} /\ PlayersPast' = PlayersPast
      BY <1>2, RecordTypes DEF HandleReaderId, PublishersPast, PlayersPast, HrType
    <3> QED BY <1>2, <3>1, <2>0, PastSizes DEF Counted, TypeOK
  <2>5. PlayerNeverDropped'
    BY ReaderMoves, RecordTypes DEF HandleReaderId, envVars, HrType
  <2> QED BY <2>2, <2>3, <2>4, <2>5
<1> QED BY <1>1, <1>2 DEF HandleReaderId

LEMMA CopyKeepsHub ==
  ASSUME HubInv, NEW p \in Publishers, Copy(p)
  PROVE  HubInv'
<1> USE DEF HubInv
<1>0. /\ hr \in [Publishers -> HrType] /\ hr[p] \in HrType
      /\ ws \in [Streams -> [Players -> {"out", "new", "init"}]]
  BY RecordTypes DEF TypeOK
<1>1. CASE CopyVisit(p)
  <2>1. PICK w \in hr[p].todo :
          hr' = IF w \in In(hr[p].s)
                THEN [hr EXCEPT ![p].todo = @ \ {w}, ![p].cur = w, ![p].at = "delete"]
                ELSE [hr EXCEPT ![p].todo = @ \ {w}]
    BY <1>1 DEF CopyVisit
  <2>2. w \in Players
    BY <1>0 DEF HrType
  <2> DEFINE e == IF w \in In(hr[p].s)
                  THEN [hr[p] EXCEPT !.todo = @ \ {w}, !.cur = w, !.at = "delete"]
                  ELSE [hr[p] EXCEPT !.todo = @ \ {w}]
  <2>3. hr' = [hr EXCEPT ![p] = e]
    BY <2>1
  <2>4. /\ e \in HrType /\ e.at \in {"copy", "delete"} /\ e.s = hr[p].s /\ e.ns = hr[p].ns
        /\ e.at = "delete" => e.cur \in Players
    BY <1>0, <1>1, <2>2 DEF HrType, CopyVisit
  <2> HIDE DEF e
  <2>5. hr' \in [Publishers -> HrType] /\ hr'[p] = e /\ \A q \in Publishers \ {p} : hr'[q] = hr[q]
    BY <1>0, <2>3, <2>4
  <2>6. TypeOK'
    BY <1>1, <2>5 DEF TypeOK, CopyVisit, envVars, HrType
  <2>7. Located'
    BY <1>1, <2>4, <2>5 DEF Located, CopyVisit
  <2>8. Counted'
    <3>1. PublishersPast' = PublishersPast /\ PlayersPast' = PlayersPast
      BY <1>1, <2>4, <2>5 DEF CopyVisit, PublishersPast, PlayersPast
    <3> QED BY <1>1, <3>1 DEF Counted, CopyVisit
  <2>9. PlayerNeverDropped'
    BY <1>1, <2>5, ReaderMoves DEF CopyVisit, envVars
  <2> QED BY <2>6, <2>7, <2>8, <2>9
<1>2. CASE CopyDelete(p)
  <2>1. hr[p].s \in Streams /\ hr[p].cur \in Players
    BY <1>2 DEF Located, CopyDelete
  <2> DEFINE e == [hr[p] EXCEPT !.at = "place"]
  <2>2. hr' = [hr EXCEPT ![p] = e] /\ e \in HrType
    BY <1>0, <1>2 DEF CopyDelete, HrType
  <2>3. e.at = "place" /\ e.s = hr[p].s /\ e.ns = hr[p].ns /\ e.cur = hr[p].cur
    BY <1>0 DEF HrType
  <2> HIDE DEF e
  <2>4. hr' \in [Publishers -> HrType] /\ hr'[p] = e /\ \A q \in Publishers \ {p} : hr'[q] = hr[q]
    BY <1>0, <2>2
  <2>5. /\ ws' \in [Streams -> [Players -> {"out", "new", "init"}]]
        /\ \A v \in Players : v # hr[p].cur => \A s \in Streams : ws'[s][v] = ws[s][v]
    BY <1>0, <1>2, <2>1 DEF CopyDelete
  <2>6. TypeOK'
    BY <1>2, <2>4, <2>5 DEF TypeOK, CopyDelete, envVars, HrType
  <2>7. Located'
    BY <1>2, <2>3, <2>4 DEF Located, CopyDelete
  <2>8. Counted'
    <3>1. PublishersPast' = PublishersPast /\ PlayersPast' = PlayersPast
      BY <1>2, <2>3, <2>4 DEF CopyDelete, PublishersPast, PlayersPast
    <3> QED BY <1>2, <3>1 DEF Counted, CopyDelete
  <2>9. PlayerNeverDropped'
    <3>1. Carried(hr[p].cur)'
      BY <2>3, <2>4 DEF Carried
    <3>2. \A w \in Players : Carried(w) => Carried(w)'
      BY <1>2, <2>4 DEF Carried, CopyDelete
    <3> QED BY <1>2, <2>1, <2>5, <3>1, <3>2, KeptIn DEF CopyDelete, envVars
  <2> QED BY <2>6, <2>7, <2>8, <2>9
<1>3. CASE CopyAdd(p)
  <2>1. hr[p].ns \in Streams /\ hr[p].cur \in Players
    BY <1>3 DEF Located, CopyAdd
  <2> DEFINE e == [hr[p] EXCEPT !.at = "copy", !.cur = None]
  <2>2. hr' = [hr EXCEPT ![p] = e] /\ e \in HrType
    BY <1>0, <1>3 DEF CopyAdd, HrType
  <2>3. e.at = "copy" /\ e.s = hr[p].s /\ e.ns = hr[p].ns
    BY <1>0 DEF HrType
  <2> HIDE DEF e
  <2>4. hr' \in [Publishers -> HrType] /\ hr'[p] = e /\ \A q \in Publishers \ {p} : hr'[q] = hr[q]
    BY <1>0, <2>2
  <2>5. /\ ws' \in [Streams -> [Players -> {"out", "new", "init"}]]
        /\ ws'[hr[p].ns][hr[p].cur] = "new"
        /\ \A v \in Players : v # hr[p].cur => \A s \in Streams : ws'[s][v] = ws[s][v]
    BY <1>0, <1>3, <2>1 DEF CopyAdd
  <2>6. TypeOK'
    BY <1>3, <2>4, <2>5 DEF TypeOK, CopyAdd, envVars, HrType
  <2>7. Located'
    BY <1>3, <2>3, <2>4 DEF Located, CopyAdd
  <2>8. Counted'
    <3>1. PublishersPast' = PublishersPast /\ PlayersPast' = PlayersPast
      BY <1>3, <2>3, <2>4 DEF CopyAdd, PublishersPast, PlayersPast
    <3> QED BY <1>3, <3>1 DEF Counted, CopyAdd
  <2>9. PlayerNeverDropped'
    <3>1. \A w \in Players : w # hr[p].cur /\ Carried(w) => Carried(w)'
      BY <2>4 DEF Carried
    <3> QED BY <1>3, <2>1, <2>5, <3>1, KeptIn DEF CopyAdd, envVars
  <2> QED BY <2>6, <2>7, <2>8, <2>9
<1> QED BY <1>1, <1>2, <1>3 DEF Copy

LEMMA StoreKeepsHub ==
  ASSUME HubInv, NEW p \in Publishers, HandleReaderStore(p)
  PROVE  HubInv'
<1> USE DEF HubInv
<1>1. hr[p].ns \in Streams /\ hr[p].ns \in StreamOrNone
  BY DEF Located, HandleReaderStore, StreamOrNone
<1>2. TypeOK'
  <2>1. hr' \in [Publishers -> HrType]
    <3> DEFINE e == [hr[p] EXCEPT !.at = "add", !.s = hr[p].ns]
    <3>1. hr[p] \in HrType
      BY RecordTypes
    <3>2. e \in HrType
      BY <1>1, <3>1 DEF HrType
    <3>3. hr' = [hr EXCEPT ![p] = e]
      BY DEF HandleReaderStore
    <3> HIDE DEF e
    <3> QED BY <3>2, <3>3, HrSet
  <2> QED BY <1>1, <2>1 DEF TypeOK, HandleReaderStore, envVars, HrType
<1>3. Located'
  BY <1>1, RecordTypes DEF Located, HandleReaderStore, HrType
<1>4. Counted'
  <2>1. PublishersPast' = PublishersPast /\ PlayersPast' = PlayersPast
    BY RecordTypes DEF HandleReaderStore, PublishersPast, PlayersPast, HrType
  <2> QED BY <2>1 DEF Counted, HandleReaderStore
<1>5. PlayerNeverDropped'
  BY ReaderMoves, RecordTypes DEF HandleReaderStore, envVars, HrType
<1> QED BY <1>2, <1>3, <1>4, <1>5

LEMMA AddReaderKeepsHub ==
  ASSUME HubInv, NEW p \in Publishers, AddReader(p)
  PROVE  HubInv'
<1> USE DEF HubInv
<1>1. hr[p].s \in Streams /\ hr[p].s \in StreamOrNone
  BY DEF Located, AddReader, StreamOrNone
<1>2. TypeOK'
  <2>1. hr' \in [Publishers -> HrType]
    BY RecordTypes DEF AddReader, HrType, Reader, StreamOrNone
  <2>2. ts' \in [Publishers -> TsType]
    <3> DEFINE e == [ts[p] EXCEPT !.at = "spawned", !.s = hr[p].s]
    <3>1. ts[p] \in TsType
      BY RecordTypes
    <3>2. e \in TsType
      BY <1>1, <3>1 DEF TsType
    <3>3. ts' = [ts EXCEPT ![p] = e]
      BY DEF AddReader
    <3> HIDE DEF e
    <3> QED BY <3>2, <3>3, TsSet
  <2>3. r' \in [Streams -> Publishers \cup {None}]
    BY DEF TypeOK, AddReader
  <2> QED BY <2>1, <2>2, <2>3 DEF TypeOK, AddReader, envVars, HrType, TsType
<1>3. Located'
  BY <1>1, RecordTypes DEF Located, AddReader, HrType, TsType, Reader
<1>4. Counted'
  <2>1. PublishersPast' = PublishersPast /\ PlayersPast' = PlayersPast
    BY RecordTypes DEF AddReader, PublishersPast, PlayersPast, HrType, Reader
  <2> QED BY <2>1 DEF Counted, AddReader
<1>5. PlayerNeverDropped'
  BY ReaderMoves, RecordTypes DEF AddReader, envVars, HrType
<1> QED BY <1>2, <1>3, <1>4, <1>5

(* A step of a TransStart leaves the registry and the other goroutines alone *)
(* and stays with its stream until it ends.                                  *)
LEMMA TransStartKeepsHub ==
  ASSUME HubInv, NEW p \in Publishers, ts[p].at \notin {"none", "ended"},
         UNCHANGED <<reg, allocated, r, hr, hw, ca>>,
         ts' \in [Publishers -> TsType],
         \A q \in Publishers : q # p => ts'[q] = ts[q],
         ts'[p].at = "ended" \/ ts'[p].s = ts[p].s,
         isStart' \in [Streams -> BOOLEAN],
         ws' \in [Streams -> [Players -> {"out", "new", "init"}]],
         rclosed' \in [Publishers -> BOOLEAN], wclosed' \in [Players -> BOOLEAN],
         push' \in BOOLEAN,
         \A w \in Players : ~wclosed'[w] =>
           /\ ~wclosed[w]
           /\ \A s \in Streams : ws[s][w] # "out" => ws'[s][w] # "out"
  PROVE  HubInv'
<1> USE DEF HubInv
<1>1. TypeOK'
  BY DEF TypeOK, TsType
<1>2. Located'
  BY DEF Located
<1>3. Counted'
  BY DEF Counted, PublishersPast, PlayersPast
<1>4. PlayerNeverDropped'
  BY KeptIn DEF Carried
<1> QED BY <1>1, <1>2, <1>3, <1>4

LEMMA BeginKeepsHub ==
  ASSUME HubInv, NEW p \in Publishers, TransStartBegin(p)
  PROVE  HubInv'
<1>1. TypeOK
  BY DEF HubInv
<1>2. ts' \in [Publishers -> TsType] /\ \A q \in Publishers : ts'[q].s = ts[q].s /\ (q # p => ts'[q] = ts[q])
  BY <1>1, RecordTypes DEF TransStartBegin, TsType
<1>3. isStart' \in [Streams -> BOOLEAN]
  BY <1>1 DEF TransStartBegin, TypeOK
<1>4. push' \in BOOLEAN
  BY DEF TransStartBegin
<1>5. UNCHANGED envVars /\ UNCHANGED ws /\ UNCHANGED <<reg, allocated, r, hr, hw, ca>>
  BY DEF TransStartBegin
<1>6. ts[p].at \notin {"none", "ended"}
  BY DEF TransStartBegin
<1> QED BY <1>1, <1>2, <1>3, <1>4, <1>5, <1>6, TransStartKeepsHub DEF TypeOK, envVars

LEMMA CloseInterKeepsHub ==
  ASSUME HubInv, NEW p \in Publishers, NEW at \in {"stopped", "failed"},
         ts[p].at \in {"loop", "read"}, CloseInter(p, at)
  PROVE  HubInv'
<1>1. TypeOK
  BY DEF HubInv
<1>2. ts' \in [Publishers -> TsType] /\ \A q \in Publishers : ts'[q].s = ts[q].s /\ (q # p => ts'[q] = ts[q])
  <2>1. In(ts[p].s) \subseteq Players
    BY DEF In
  <2> DEFINE e == [ts[p] EXCEPT !.at = at, !.rd = None, !.todo = In(ts[p].s)]
  <2>2. ts[p] \in TsType
    BY <1>1, RecordTypes
  <2>3. e \in TsType /\ e.s = ts[p].s
    BY <2>1, <2>2 DEF TsType
  <2>4. ts' = [ts EXCEPT ![p] = e]
    BY DEF CloseInter
  <2> HIDE DEF e
  <2> QED BY <1>1, <2>3, <2>4, TsSet
<1>3. /\ UNCHANGED envVars /\ UNCHANGED <<ws, isStart>> /\ UNCHANGED <<reg, allocated, r, hr, hw, ca>>
      /\ push' \in BOOLEAN
  BY DEF CloseInter
<1> QED BY <1>1, <1>2, <1>3, TransStartKeepsHub DEF TypeOK, envVars

LEMMA ReadBeginKeepsHub ==
  ASSUME HubInv, NEW p \in Publishers, ReadBegin(p)
  PROVE  HubInv'
<1>1. TypeOK
  BY DEF HubInv
<1>2. ts' \in [Publishers -> TsType] /\ \A q \in Publishers : ts'[q].s = ts[q].s /\ (q # p => ts'[q] = ts[q])
  <2>1. r[ts[p].s] \in Publishers \cup {None}
    BY <1>1 DEF ReadBegin, HubInv, Located, TypeOK
  <2> DEFINE e == [ts[p] EXCEPT !.at = "read", !.rd = r[ts[p].s]]
  <2>2. ts[p] \in TsType
    BY <1>1, RecordTypes
  <2>3. e \in TsType /\ e.s = ts[p].s
    BY <2>1, <2>2 DEF TsType
  <2>4. ts' = [ts EXCEPT ![p] = e]
    BY DEF ReadBegin
  <2> HIDE DEF e
  <2> QED BY <1>1, <2>3, <2>4, TsSet
<1>3. UNCHANGED envVars /\ UNCHANGED <<ws, isStart, push>> /\ UNCHANGED <<reg, allocated, r, hr, hw, ca>>
  BY DEF ReadBegin
<1>5. ts[p].at \notin {"none", "ended"}
  BY DEF ReadBegin
<1> QED BY <1>1, <1>2, <1>3, <1>5, TransStartKeepsHub DEF TypeOK, envVars

LEMMA ReadPacketKeepsHub ==
  ASSUME HubInv, NEW p \in Publishers, ReadPacket(p)
  PROVE  HubInv'
<1>1. TypeOK
  BY DEF HubInv
<1>2. ts' \in [Publishers -> TsType] /\ \A q \in Publishers : ts'[q].s = ts[q].s /\ (q # p => ts'[q] = ts[q])
  <2>1. In(ts[p].s) \subseteq Players
    BY DEF In
  <2> DEFINE e == [ts[p] EXCEPT !.rd = None, !.todo = In(ts[p].s),
                                !.at = IF In(ts[p].s) = {} THEN "loop" ELSE "range"]
  <2>2. ts[p] \in TsType
    BY <1>1, RecordTypes
  <2>3. e \in TsType /\ e.s = ts[p].s
    BY <2>1, <2>2 DEF TsType
  <2>4. ts' = [ts EXCEPT ![p] = e]
    BY DEF ReadPacket
  <2> HIDE DEF e
  <2> QED BY <1>1, <2>3, <2>4, TsSet
<1>4. UNCHANGED <<reg, allocated, r, hr, hw, ca>> /\ UNCHANGED <<isStart, ws, rclosed, wclosed, push>>
  BY DEF ReadPacket
<1>5. ts[p].at \notin {"none", "ended"}
  BY DEF ReadPacket
<1> QED BY <1>1, <1>2, <1>4, <1>5, TransStartKeepsHub DEF TypeOK

LEMMA DeliverKeepsHub ==
  ASSUME HubInv, NEW p \in Publishers, Deliver(p)
  PROVE  HubInv'
<1>1. TypeOK
  BY DEF HubInv
<1>2. PICK w \in ts[p].todo :
        /\ ws' = IF w \notin In(ts[p].s) THEN ws
                 ELSE [ws EXCEPT ![ts[p].s][w] = IF wclosed[w] THEN "out" ELSE "init"]
        /\ ts' = [ts EXCEPT ![p].todo = @ \ {w}, ![p].at = IF ts[p].todo = {w} THEN "loop" ELSE @]
  BY DEF Deliver
<1>3. ts' \in [Publishers -> TsType] /\ \A q \in Publishers : ts'[q].s = ts[q].s /\ (q # p => ts'[q] = ts[q])
  <2> DEFINE e == [ts[p] EXCEPT !.todo = @ \ {w}, !.at = IF ts[p].todo = {w} THEN "loop" ELSE @]
  <2>1. ts[p] \in TsType /\ w \in Players
    BY <1>1, <1>2, RecordTypes DEF TsType
  <2>2. e \in TsType /\ e.s = ts[p].s
    BY <2>1 DEF TsType
  <2>3. ts' = [ts EXCEPT ![p] = e]
    BY <1>2
  <2> HIDE DEF e
  <2> QED BY <1>1, <2>2, <2>3, TsSet
<1>4. w \in Players /\ ts[p].s \in Streams
  BY <1>1, RecordTypes DEF TsType, Deliver, HubInv, Located
<1>6. /\ ws' \in [Streams -> [Players -> {"out", "new", "init"}]]
      /\ \A v \in Players : ~wclosed[v] => \A s \in Streams : ws[s][v] # "out" => ws'[s][v] # "out"
  <2>1. ws \in [Streams -> [Players -> {"out", "new", "init"}]]
    BY <1>1 DEF TypeOK
  <2>2. CASE w \notin In(ts[p].s)
    BY <1>2, <2>1, <2>2
  <2>3. CASE w \in In(ts[p].s) /\ wclosed[w]
    BY <1>2, <1>4, <2>1, <2>3
  <2>4. CASE w \in In(ts[p].s) /\ ~wclosed[w]
    BY <1>2, <1>4, <2>1, <2>4
  <2> QED BY <2>2, <2>3, <2>4
<1>7. UNCHANGED <<reg, allocated, r, hr, hw, ca>> /\ UNCHANGED <<isStart, rclosed, wclosed, push>>
  BY DEF Deliver
<1>8. ts[p].at \notin {"none", "ended"}
  BY DEF Deliver
<1> QED BY <1>1, <1>3, <1>6, <1>7, <1>8, TransStartKeepsHub DEF TypeOK

LEMMA VisitKeepsHub ==
  ASSUME HubInv, NEW p \in Publishers, CloseInterVisit(p)
  PROVE  HubInv'
<1>1. TypeOK
  BY DEF HubInv
<1>2. PICK w \in ts[p].todo :
        ts' = [ts EXCEPT ![p].todo = @ \ {w}, ![p].cur = IF w \in In(ts[p].s) THEN w ELSE None]
  BY DEF CloseInterVisit
<1>3. ts' \in [Publishers -> TsType] /\ \A q \in Publishers : ts'[q].s = ts[q].s /\ (q # p => ts'[q] = ts[q])
  <2> DEFINE e == [ts[p] EXCEPT !.todo = @ \ {w}, !.cur = IF w \in In(ts[p].s) THEN w ELSE None]
  <2>1. ts[p] \in TsType /\ w \in Players
    BY <1>1, <1>2, RecordTypes DEF TsType
  <2>2. e \in TsType /\ e.s = ts[p].s
    BY <2>1 DEF TsType
  <2>3. ts' = [ts EXCEPT ![p] = e]
    BY <1>2
  <2> HIDE DEF e
  <2> QED BY <1>1, <2>2, <2>3, TsSet
<1>4. UNCHANGED envVars /\ UNCHANGED <<ws, isStart, push>> /\ UNCHANGED <<reg, allocated, r, hr, hw, ca>>
  BY DEF CloseInterVisit
<1>5. ts[p].at \notin {"none", "ended"}
  BY DEF CloseInterVisit
<1> QED BY <1>1, <1>3, <1>4, <1>5, TransStartKeepsHub DEF TypeOK, envVars

LEMMA CloseKeepsHub ==
  ASSUME HubInv, NEW p \in Publishers, CloseInterClose(p)
  PROVE  HubInv'
<1>1. TypeOK
  BY DEF HubInv
<1>2. ts' \in [Publishers -> TsType] /\ \A q \in Publishers : ts'[q].s = ts[q].s /\ (q # p => ts'[q] = ts[q])
  BY <1>1, RecordTypes DEF CloseInterClose, TsType
<1>3. ts[p].cur \in Players /\ ts[p].s \in Streams
  BY <1>1, RecordTypes DEF CloseInterClose, TsType, HubInv, Located
<1>4. /\ wclosed' \in [Players -> BOOLEAN]
      /\ \A v \in Players : ~wclosed'[v] => ~wclosed[v] /\ v # ts[p].cur
  BY <1>1, <1>3 DEF CloseInterClose, TypeOK
<1>5. /\ ws' \in [Streams -> [Players -> {"out", "new", "init"}]]
      /\ \A v \in Players : v # ts[p].cur => \A s \in Streams : ws[s][v] # "out" => ws'[s][v] # "out"
  <2>1. ws \in [Streams -> [Players -> {"out", "new", "init"}]]
    BY <1>1 DEF TypeOK
  <2>2. ws' = ws \/ ws' = [ws EXCEPT ![ts[p].s][ts[p].cur] = "out"]
    BY DEF CloseInterClose
  <2> QED BY <1>3, <2>1, <2>2
<1>6. UNCHANGED <<reg, allocated, r, hr, hw, ca>> /\ UNCHANGED <<isStart, rclosed, push>>
  BY DEF CloseInterClose
<1>7. ts[p].at \notin {"none", "ended"}
  BY DEF CloseInterClose
<1> QED BY <1>1, <1>2, <1>4, <1>5, <1>6, <1>7, TransStartKeepsHub DEF TypeOK

LEMMA EndKeepsHub ==
  ASSUME HubInv, NEW p \in Publishers, TransStartEnd(p)
  PROVE  HubInv'
<1>1. TypeOK
  BY DEF HubInv
<1>2. /\ ts' \in [Publishers -> TsType] /\ ts'[p].at = "ended"
      /\ \A q \in Publishers : q # p => ts'[q] = ts[q]
  BY <1>1, RecordTypes DEF TransStartEnd, TsType, Trans, StreamOrNone
<1>3. isStart' \in [Streams -> BOOLEAN]
  BY <1>1 DEF TransStartEnd, TypeOK
<1>4. UNCHANGED envVars /\ UNCHANGED <<ws, push>> /\ UNCHANGED <<reg, allocated, r, hr, hw, ca>>
  BY DEF TransStartEnd
<1>5. ts[p].at \notin {"none", "ended"}
  BY DEF TransStartEnd
<1> QED BY <1>1, <1>2, <1>3, <1>4, <1>5, TransStartKeepsHub DEF TypeOK, envVars

(* HandleWriter's steps.                                                     *)
LEMMA WriterLoadKeepsHub ==
  ASSUME HubInv, NEW w \in Players, HandleWriterLoad(w)
  PROVE  HubInv'
<1> USE DEF HubInv
<1>1. TypeOK'
  <2>1. hw' \in [Players -> HwType]
    BY RecordTypes DEF HandleWriterLoad, HwType
  <2> QED BY <2>1 DEF TypeOK, HandleWriterLoad, envVars, HwType
<1>2. Located'
  BY RecordTypes DEF Located, HandleWriterLoad, StreamOrNone, HwType
<1>3. Counted'
  <2>1. PublishersPast' = PublishersPast /\ PlayersPast' = PlayersPast
    BY RecordTypes DEF HandleWriterLoad, PublishersPast, PlayersPast, HwType
  <2> QED BY <2>1 DEF Counted, HandleWriterLoad
<1>4. PlayerNeverDropped'
  <2>1. \A v \in Players : hw'[v].at = "in" => hw[v].at = "in"
    BY RecordTypes DEF HandleWriterLoad, HwType
  <2> QED BY <2>1, KeptIn DEF HandleWriterLoad, envVars, Carried
<1> QED BY <1>1, <1>2, <1>3, <1>4

LEMMA WriterCreateKeepsHub ==
  ASSUME HubInv, NEW w \in Players, HandleWriterCreate(w)
  PROVE  HubInv'
<1> USE DEF HubInv
<1>0. /\ allocated + 1 \in Streams /\ allocated + 1 \in StreamOrNone
      /\ Cardinality(PlayersPast \cup {w}) = Cardinality(PlayersPast) + 1
  BY PlayerMayAllocate DEF HandleWriterCreate, StreamOrNone
<1>1. TypeOK'
  <2>1. hw' \in [Players -> HwType]
    BY RecordTypes DEF HandleWriterCreate, HwType
  <2>2. allocated' \in 0 .. Cardinality(Publishers) + Cardinality(Players)
    BY <1>0, PastSizes DEF HandleWriterCreate, Streams
  <2> QED BY <1>0, <2>1, <2>2 DEF TypeOK, HandleWriterCreate, envVars, HwType
<1>2. Located'
  BY RecordTypes DEF Located, HandleWriterCreate, HwType
<1>3. Counted'
  <2>1. PublishersPast' = PublishersPast /\ PlayersPast' = PlayersPast \cup {w}
    BY RecordTypes DEF HandleWriterCreate, PublishersPast, PlayersPast, HwType
  <2> QED BY <1>0, <2>1, PastSizes DEF Counted, HandleWriterCreate, TypeOK
<1>4. PlayerNeverDropped'
  <2>1. \A v \in Players : hw'[v].at = "in" => hw[v].at = "in"
    BY RecordTypes DEF HandleWriterCreate, HwType
  <2> QED BY <2>1, KeptIn DEF HandleWriterCreate, envVars, Carried
<1> QED BY <1>1, <1>2, <1>3, <1>4

LEMMA AddWriterKeepsHub ==
  ASSUME HubInv, NEW w \in Players, AddWriter(w)
  PROVE  HubInv'
<1> USE DEF HubInv
<1>0. hw[w].s \in Streams
  BY DEF Located, AddWriter
<1>1. ws \in [Streams -> [Players -> {"out", "new", "init"}]]
  BY DEF TypeOK
<1>2. TypeOK'
  <2>1. hw' \in [Players -> HwType]
    BY RecordTypes DEF AddWriter, HwType, StreamOrNone
  <2>2. ws' \in [Streams -> [Players -> {"out", "new", "init"}]]
    BY <1>0, <1>1 DEF AddWriter
  <2> QED BY <2>1, <2>2 DEF TypeOK, AddWriter, envVars, HwType
<1>3. Located'
  BY RecordTypes DEF Located, AddWriter, HwType
<1>4. Counted'
  <2>1. PublishersPast' = PublishersPast /\ PlayersPast' = PlayersPast
    BY RecordTypes DEF AddWriter, PublishersPast, PlayersPast, HwType
  <2> QED BY <2>1 DEF Counted, AddWriter
<1>5. PlayerNeverDropped'
  <2>1. \A v \in Players : v # w => hw'[v] = hw[v]
    BY RecordTypes DEF AddWriter, HwType, StreamOrNone
  <2>2. ws'[hw[w].s][w] = "new"
    BY <1>0, <1>1 DEF AddWriter
  <2>3. \A v \in Players : v # w => \A s \in Streams : ws'[s][v] = ws[s][v]
    BY <1>0, <1>1 DEF AddWriter
  <2>4. UNCHANGED <<wclosed, hr, ca>>
    BY DEF AddWriter, envVars
  <2> QED BY <1>0, <2>1, <2>2, <2>3, <2>4, KeptIn DEF Carried
<1> QED BY <1>2, <1>3, <1>4, <1>5

(* CheckAlive's steps.                                                       *)
LEMMA AliveReaderKeepsHub ==
  ASSUME HubInv, CheckAliveReader
  PROVE  HubInv'
<1> USE DEF HubInv
<1>1. reg \in Streams /\ reg \in StreamOrNone /\ In(reg) \subseteq Players
  BY RecordTypes DEF CheckAliveReader, StreamOrNone, In
<1>2. PICK n \in {0, 1} : ca' = [at |-> "scan", s |-> reg, todo |-> In(reg), cur |-> None, n |-> n]
  BY DEF CheckAliveReader
<1>3. TypeOK'
  <2>1. ca' \in CaType
    BY <1>1, <1>2 DEF CaType
  <2>2. rclosed' \in [Publishers -> BOOLEAN]
    BY DEF CheckAliveReader, TypeOK
  <2> QED BY <2>1, <2>2 DEF TypeOK, CheckAliveReader, CaType
<1>4. Located'
  BY <1>1, <1>2 DEF Located, CheckAliveReader
<1>5. Counted'
  BY DEF Counted, PublishersPast, PlayersPast, CheckAliveReader
<1>6. PlayerNeverDropped'
  BY HubAssumption, KeptIn DEF CheckAliveReader, Carried, Located
<1> QED BY <1>3, <1>4, <1>5, <1>6

LEMMA AliveWriterKeepsHub ==
  ASSUME HubInv, CheckAliveWriter
  PROVE  HubInv'
<1> USE DEF HubInv
<1>0. ca \in CaType /\ ca.s \in Streams /\ ws \in [Streams -> [Players -> {"out", "new", "init"}]]
  BY RecordTypes DEF CheckAliveWriter, Located, TypeOK
<1>1. PICK w \in ca.todo :
        \/ /\ ws' = [ws EXCEPT ![ca.s][w] = "out"]
           /\ ca' = [ca EXCEPT !.todo = @ \ {w}, !.cur = w]
        \/ /\ ca' = [ca EXCEPT !.todo = @ \ {w}, !.n = @ + 1]
           /\ UNCHANGED ws
        \/ /\ ca' = [ca EXCEPT !.todo = @ \ {w}]
           /\ UNCHANGED ws
  BY DEF CheckAliveWriter
<1>2. w \in Players /\ ca.n \in Nat /\ ca.n + 1 \in Nat
  BY <1>0 DEF CaType
<1>3. ca' \in CaType /\ ca'.s = ca.s /\ ca'.at = "scan"
  <2>0. ca.at = "scan"
    BY DEF CheckAliveWriter
  <2>1. CASE ca' = [ca EXCEPT !.todo = @ \ {w}, !.n = @ + 1]
    <3>1. ca' = [at |-> ca.at, s |-> ca.s, todo |-> ca.todo \ {w}, n |-> ca.n + 1, cur |-> ca.cur]
      BY <1>0, <2>1 DEF CaType
    <3> QED BY <1>0, <1>2, <2>0, <3>1 DEF CaType
  <2>2. CASE ca' = [ca EXCEPT !.todo = @ \ {w}]
    BY <1>0, <2>0, <2>2 DEF CaType
  <2>3. CASE ca' = [ca EXCEPT !.todo = @ \ {w}, !.cur = w]
    BY <1>0, <1>2, <2>0, <2>3 DEF CaType
  <2> QED BY <1>1, <2>1, <2>2, <2>3
<1>4. /\ ws' \in [Streams -> [Players -> {"out", "new", "init"}]]
      /\ \A v \in Players : ca'.cur # v => \A s \in Streams : ws'[s][v] = ws[s][v]
  <2>1. CASE /\ ws' = [ws EXCEPT ![ca.s][w] = "out"]
             /\ ca' = [ca EXCEPT !.todo = @ \ {w}, !.cur = w]
    <3>1. ca'.cur = w
      BY <1>0, <2>1 DEF CaType
    <3>2. ws' \in [Streams -> [Players -> {"out", "new", "init"}]]
      BY <1>0, <1>2, <2>1
    <3>3. ASSUME NEW v \in Players, v # w, NEW s \in Streams PROVE ws'[s][v] = ws[s][v]
      BY <1>0, <1>2, <2>1, <3>3
    <3> QED BY <3>1, <3>2, <3>3
  <2>2. CASE UNCHANGED ws
    BY <1>0, <2>2
  <2> QED BY <1>1, <2>1, <2>2
<1>5. TypeOK'
  BY <1>3, <1>4 DEF TypeOK, CheckAliveWriter, CaType, envVars
<1>6. Located'
  BY <1>0, <1>3 DEF Located, CheckAliveWriter
<1>7. Counted'
  BY DEF Counted, PublishersPast, PlayersPast, CheckAliveWriter
<1>8. PlayerNeverDropped'
  <2>1. \A v \in Players : ca.cur # v
    BY HubAssumption DEF CheckAliveWriter
  <2> QED BY <1>4, <2>1, KeptIn DEF CheckAliveWriter, Carried, envVars
<1> QED BY <1>5, <1>6, <1>7, <1>8

LEMMA AliveCloseKeepsHub ==
  ASSUME HubInv, CheckAliveClose
  PROVE  HubInv'
<1> USE DEF HubInv
<1>0. ca \in CaType /\ wclosed \in [Players -> BOOLEAN]
  BY RecordTypes DEF TypeOK
<1>1. ca.cur \in Players
  BY <1>0 DEF CaType, CheckAliveClose
<1>2. ca' \in CaType /\ ca'.s = ca.s
  BY <1>0 DEF CaType, CheckAliveClose
<1>3. /\ wclosed' \in [Players -> BOOLEAN]
      /\ \A v \in Players : ~wclosed'[v] => ~wclosed[v] /\ ca.cur # v
  BY <1>0, <1>1 DEF CheckAliveClose
<1>4. TypeOK'
  BY <1>2, <1>3 DEF TypeOK, CheckAliveClose, CaType
<1>5. Located'
  BY <1>2 DEF Located, CheckAliveClose
<1>6. Counted'
  BY DEF Counted, PublishersPast, PlayersPast, CheckAliveClose
<1>7. PlayerNeverDropped'
  BY <1>3, KeptIn DEF CheckAliveClose, Carried
<1> QED BY <1>4, <1>5, <1>6, <1>7

LEMMA AliveDeleteKeepsHub ==
  ASSUME HubInv, CheckAliveDelete
  PROVE  HubInv'
<1> USE DEF HubInv
<1>1. TypeOK'
  <2>1. ca' \in CaType
    BY DEF CheckAliveDelete, CaType, StreamOrNone, Idle
  <2>2. reg' \in StreamOrNone
    BY RecordTypes DEF CheckAliveDelete, StreamOrNone
  <2> QED BY <2>1, <2>2 DEF TypeOK, CheckAliveDelete, envVars, CaType
<1>2. Located'
  BY DEF Located, CheckAliveDelete, Idle
<1>3. Counted'
  BY DEF Counted, PublishersPast, PlayersPast, CheckAliveDelete
<1>4. PlayerNeverDropped'
  BY HubAssumption, KeptIn DEF CheckAliveDelete, envVars, Carried
<1> QED BY <1>1, <1>2, <1>3, <1>4

(* The other ends close.                                                     *)
LEMMA OutsideKeepsHub ==
  ASSUME HubInv,
         UNCHANGED <<reg, allocated, isStart, r, ws, hr, ts, hw, ca, push>>,
         rclosed' \in [Publishers -> BOOLEAN], wclosed' \in [Players -> BOOLEAN],
         \A w \in Players : ~wclosed'[w] => ~wclosed[w]
  PROVE  HubInv'
<1> USE DEF HubInv
<1>1. TypeOK'
  BY DEF TypeOK
<1>2. Located'
  BY DEF Located
<1>3. Counted'
  BY DEF Counted, PublishersPast, PlayersPast
<1>4. PlayerNeverDropped'
  BY KeptIn DEF Carried
<1> QED BY <1>1, <1>2, <1>3, <1>4

LEMMA EnvironmentKeepsHub ==
  ASSUME HubInv,
         \/ \E p \in Publishers : PublisherCloses(p)
         \/ \E w \in Players : PlayerCloses(w)
  PROVE  HubInv'
<1>1. TypeOK
  BY DEF HubInv
<1>2. ASSUME NEW p \in Publishers, PublisherCloses(p) PROVE HubInv'
  BY <1>1, <1>2, OutsideKeepsHub DEF PublisherCloses, TypeOK
<1>4. ASSUME NEW w \in Players, PlayerCloses(w) PROVE HubInv'
  <2>1. wclosed' \in [Players -> BOOLEAN] /\ \A v \in Players : ~wclosed'[v] => ~wclosed[v]
    BY <1>1, <1>4 DEF PlayerCloses, TypeOK
  <2> QED BY <1>1, <1>4, <2>1, OutsideKeepsHub DEF PlayerCloses, TypeOK
<1> QED BY <1>2, <1>4

(* Every step preserves the invariant.                                       *)
LEMMA HubStep == HubInv /\ [Next]_vars => HubInv'
<1> SUFFICES ASSUME HubInv, [Next]_vars PROVE HubInv'
  OBVIOUS
<1>1. ASSUME NEW p \in Publishers, HandleReader(p) PROVE HubInv'
  BY <1>1, LoadKeepsHub, CreateKeepsHub, TransStopKeepsHub, IdKeepsHub, CopyKeepsHub,
     StoreKeepsHub, AddReaderKeepsHub DEF HandleReader
<1>2. ASSUME NEW p \in Publishers, TransStartRuns(p) PROVE HubInv'
  <2>1. CASE TransStopped(p)
    BY <2>1, CloseInterKeepsHub DEF TransStopped
  <2>2. CASE ReadError(p)
    BY <2>2, CloseInterKeepsHub DEF ReadError
  <2> QED BY <1>2, <2>1, <2>2, BeginKeepsHub, ReadBeginKeepsHub, VisitKeepsHub,
             CloseKeepsHub, EndKeepsHub DEF TransStartRuns
<1>3. ASSUME NEW w \in Players, HandleWriter(w) PROVE HubInv'
  BY <1>3, WriterLoadKeepsHub, WriterCreateKeepsHub, AddWriterKeepsHub DEF HandleWriter
<1>4. CASE CheckAlive
  BY <1>4, AliveReaderKeepsHub, AliveWriterKeepsHub, AliveCloseKeepsHub,
     AliveDeleteKeepsHub DEF CheckAlive
<1>5. CASE UNCHANGED vars
  <2>1. TypeOK /\ UNCHANGED <<reg, allocated, isStart, r, ws, hr, ts, hw, ca, push>> /\ UNCHANGED envVars
    BY <1>5 DEF vars, HubInv
  <2> QED BY <2>1, OutsideKeepsHub DEF envVars, TypeOK
<1> QED BY <1>1, <1>2, <1>3, <1>4, <1>5, EnvironmentKeepsHub, ReadPacketKeepsHub,
     DeliverKeepsHub DEF Next

(* Every interleaving of HandleReader, TransStart, HandleWriter and          *)
(* CheckAlive over the shared ws: a player that was attached and is open is  *)
(* in some stream, or in the hand of a Copy or of the CheckAlive that closes *)
(* it; none of them drops a player without closing it.                       *)
THEOREM PlayersNeverDropped == Spec => []PlayerNeverDropped
<1>1. HubInv => PlayerNeverDropped
  BY DEF HubInv
<1> QED BY <1>1, HubInitially, HubStep, PTL DEF Spec

(* The hub's state stays of its type.                                        *)
THEOREM HubTyped == Spec => []TypeOK
<1>1. HubInv => TypeOK
  BY DEF HubInv
<1> QED BY <1>1, HubInitially, HubStep, PTL DEF Spec
=============================================================================
