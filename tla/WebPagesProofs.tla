--------------------------- MODULE WebPagesProofs ---------------------------
(* Proofs about the pages of the web front end that keep state of their own: *)
(* the console with its refresher, the option editor, the Vue pages, the     *)
(* adapter's made up events, its wait for encodings and its account of local *)
(* streams, and the Flash objects. They share no state: each has an          *)
(* inductive invariant of its own.                                           *)
EXTENDS Console, ConsoleEditor, VuePages, RemoteEvents, LocalMedia, FlashPlayer,
        FiniteSetTheorems, WellFoundedInduction, TLAPS

-----------------------------------------------------------------------------
(* The console                                                               *)

(* A call that is enabled has a function: request() will set its timer.      *)
EnabledOwned == \A k \in DOMAIN calls : calls[k].enabled => calls[k].owner # 0

(* Calls and requests belong to pages that were visited, and only a streams  *)
(* page asks for the vhosts whose arrival installs a function late.          *)
PagesKnown ==
  /\ \A k \in DOMAIN calls : calls[k].owner <= Len(pages)
  /\ \A r \in flight : /\ r.view <= Len(pages)
                       /\ r.what = "vhosts" => pages[r.view] = "streams"

ConsoleInv ==
  /\ TypeOK /\ EnabledOwned /\ PagesKnown
  /\ OldCallsDisabled /\ LoopAlive /\ LateAnswersHarmless

(* What the refresher's operations do to the list of calls: stop() disables  *)
(* the current call and changes nothing else.                                *)
LEMMA StopIs ==
  ASSUME NEW cs \in Seq(Call), cs # <<>>
  PROVE  /\ Stop(cs) \in Seq(Call) /\ Len(Stop(cs)) = Len(cs) /\ Stop(cs) # <<>>
         /\ \A k \in 1 .. Len(cs) :
              /\ k # Len(cs) => Stop(cs)[k] = cs[k]
              /\ Stop(cs)[k].owner = cs[k].owner
         /\ ~Stop(cs)[Len(cs)].enabled
<1> DEFINE n == Len(cs)
           c == [cs[n] EXCEPT !.enabled = FALSE]
<1>1. n \in 1 .. Len(cs) /\ cs[n] \in Call
  OBVIOUS
<1>2. c \in Call /\ c.owner = cs[n].owner /\ c.timer = cs[n].timer /\ c.enabled = FALSE
  BY <1>1 DEF Call
<1>3. Stop(cs) = [cs EXCEPT ![n] = c]
  BY DEF Stop
<1> HIDE DEF c
<1>4. /\ Stop(cs) \in Seq(Call) /\ Len(Stop(cs)) = Len(cs) /\ Stop(cs) # <<>>
      /\ \A k \in 1 .. Len(cs) : Stop(cs)[k] = IF k = n THEN c ELSE cs[k]
  BY <1>1, <1>2, <1>3
<1> QED
  BY <1>1, <1>2, <1>4

(* request() only touches the timer of the current call.                     *)
LEMMA AgainIs ==
  ASSUME NEW cs \in Seq(Call), cs # <<>>
  PROVE  /\ Again(cs) \in Seq(Call) /\ Len(Again(cs)) = Len(cs) /\ Again(cs) # <<>>
         /\ \A k \in 1 .. Len(cs) :
              /\ k # Len(cs) => Again(cs)[k] = cs[k]
              /\ Again(cs)[k].owner = cs[k].owner
              /\ Again(cs)[k].enabled = cs[k].enabled
         /\ Again(cs)[Len(cs)].timer = (cs[Len(cs)].owner # 0)
<1> DEFINE n == Len(cs)
           t == cs[n].owner # 0
           c == [cs[n] EXCEPT !.timer = t]
<1>1. n \in 1 .. Len(cs) /\ cs[n] \in Call /\ t \in BOOLEAN
  OBVIOUS
<1>2. c \in Call /\ c.owner = cs[n].owner /\ c.timer = t /\ c.enabled = cs[n].enabled
  <2> HIDE DEF t
  <2> QED
    BY <1>1 DEF Call
<1>3. Again(cs) = [cs EXCEPT ![n] = c]
  BY DEF Again
<1> HIDE DEF c, t
<1>4. /\ Again(cs) \in Seq(Call) /\ Len(Again(cs)) = Len(cs) /\ Again(cs) # <<>>
      /\ \A k \in 1 .. Len(cs) : Again(cs)[k] = IF k = n THEN c ELSE cs[k]
  BY <1>1, <1>2, <1>3
<1> QED
  BY <1>1, <1>2, <1>4 DEF t

(* refresh_change() disables the former call and adds an enabled one.        *)
LEMMA RefreshChangeIs ==
  ASSUME NEW cs \in Seq(Call), cs # <<>>, NEW v \in View
  PROVE  /\ RefreshChange(cs, v) \in Seq(Call)
         /\ Len(RefreshChange(cs, v)) = Len(cs) + 1 /\ RefreshChange(cs, v) # <<>>
         /\ \A k \in 1 .. Len(cs) :
              RefreshChange(cs, v)[k] = Stop(cs)[k]
         /\ RefreshChange(cs, v)[Len(cs) + 1] = [owner |-> v, enabled |-> TRUE, timer |-> FALSE]
<1> DEFINE c == [owner |-> v, enabled |-> TRUE, timer |-> FALSE]
<1>1. c \in Call
  BY DEF Call
<1>2. Stop(cs) \in Seq(Call) /\ Len(Stop(cs)) = Len(cs)
  BY StopIs
<1> QED
  BY <1>1, <1>2 DEF RefreshChange

(* A request that is sent gets a number of its own within the bound; nothing *)
(* under way is lost.                                                        *)
LEMMA AskIs ==
  ASSUME TypeOK, NEW v \in View, NEW whats, IsFiniteSet(whats),
         whats \subseteq {"load", "vhosts", "raw", "detail", "delete", "version"}, Ask(v, whats)
  PROVE  /\ issued' \in 0 .. MaxRequests
         /\ flight' \subseteq Request
         /\ flight \subseteq flight'
         /\ \A r \in flight' \ flight : r.view = v /\ r.what \in whats
         /\ \A w \in whats : \E r \in flight' : r.view = v /\ r.what = w
<1>1. Cardinality(whats) \in Nat
  BY FS_CardinalityType
<1>2. issued \in Nat /\ issued' = issued + Cardinality(whats) /\ issued' <= MaxRequests
  BY <1>1, ConsoleAssumption DEF TypeOK, Ask
<1>3. PICK number \in [whats -> issued + 1 .. issued + Cardinality(whats)] :
         flight' = flight \cup {[view |-> v, what |-> w, id |-> number[w]] : w \in whats}
  BY DEF Ask
<1>4. \A w \in whats : [view |-> v, what |-> w, id |-> number[w]] \in Request
  BY <1>1, <1>2, <1>3, ConsoleAssumption DEF Request
<1>5. flight' \subseteq Request /\ flight \subseteq flight'
  BY <1>3, <1>4 DEF TypeOK
<1>6. \A r \in flight' \ flight : r.view = v /\ r.what \in whats
  BY <1>3
<1>7. \A w \in whats : \E r \in flight' : r.view = v /\ r.what = w
  <2> TAKE w \in whats
  <2>1. [view |-> v, what |-> w, id |-> number[w]] \in flight'
    BY <1>3
  <2> QED
    BY <2>1
<1> QED
  BY <1>1, <1>2, <1>5, <1>6, <1>7, ConsoleAssumption

(* No page was visited yet.                                                  *)
LEMMA ConsoleInit == Init => ConsoleInv
<1> SUFFICES ASSUME Init PROVE ConsoleInv
  OBVIOUS
<1> USE ConsoleAssumption DEF Init
<1>1. calls \in Seq(Call) /\ calls # <<>> /\ Len(calls) = 1 /\ ~calls[1].enabled /\ calls[1].owner = 0
  BY DEF Call
<1>2. TypeOK
  BY <1>1 DEF TypeOK, NoKbps, NoSample
<1>3. EnabledOwned /\ PagesKnown
  BY <1>1 DEF EnabledOwned, PagesKnown
<1>4. OldCallsDisabled /\ LoopAlive
  BY <1>1 DEF OldCallsDisabled, LoopAlive, current
<1>5. LateAnswersHarmless
  BY DEF LateAnswersHarmless, OnlyStreamsTakesOver, RatesForward, view, NoKbps
<1> QED
  BY <1>2, <1>3, <1>4, <1>5 DEF ConsoleInv

(* A function is installed and started: the page named is the one on screen, *)
(* or a streams page.                                                        *)
LEMMA InstallKeeps ==
  ASSUME ConsoleInv, TypeOK', NEW v \in View, calls' = Again(RefreshChange(calls, v)),
         \/ pages' = pages
         \/ \E p \in Page : pages' = Append(pages, p),
         v <= Len(pages'), v = Len(pages') \/ pages'[v] = "streams",
         flight' \subseteq flight, UNCHANGED kbps
  PROVE  ConsoleInv'
<1> DEFINE rc == RefreshChange(calls, v)
           n == Len(calls)
<1> USE ConsoleAssumption
<1>1. /\ calls \in Seq(Call) /\ calls # <<>> /\ pages \in Seq(Page)
      /\ flight \subseteq Request /\ n \in Nat \ {0}
  BY DEF ConsoleInv, TypeOK
<1>2. /\ rc \in Seq(Call) /\ rc # <<>> /\ Len(rc) = n + 1
      /\ \A k \in 1 .. n : rc[k] = Stop(calls)[k]
      /\ rc[n + 1].owner = v /\ rc[n + 1].enabled
  <2>1. rc[n + 1] = [owner |-> v, enabled |-> TRUE, timer |-> FALSE]
    BY <1>1, RefreshChangeIs
  <2>2. rc[n + 1].owner = v /\ rc[n + 1].enabled
    BY <2>1
  <2>3. rc \in Seq(Call) /\ rc # <<>> /\ Len(rc) = n + 1
    BY <1>1, RefreshChangeIs
  <2>4. \A k \in 1 .. n : rc[k] = Stop(calls)[k]
    BY <1>1, RefreshChangeIs
  <2> QED
    BY <2>2, <2>3, <2>4
<1>3. /\ \A k \in 1 .. n : Stop(calls)[k].owner = calls[k].owner
      /\ \A k \in 1 .. n : ~Stop(calls)[k].enabled
  <2>1. \A k \in 1 .. n : k # n => ~calls[k].enabled
    BY <1>1 DEF ConsoleInv, OldCallsDisabled, current
  <2> QED
    BY <1>1, <2>1, StopIs
<1>4. /\ Len(calls') = n + 1
      /\ \A k \in 1 .. n : calls'[k].owner = calls[k].owner /\ ~calls'[k].enabled
      /\ calls'[n + 1].owner = v /\ calls'[n + 1].enabled /\ calls'[n + 1].timer
  <2> HIDE DEF rc
  <2>1. \A k \in 1 .. n + 1 : Again(rc)[k].owner = rc[k].owner /\ Again(rc)[k].enabled = rc[k].enabled
    BY <1>1, <1>2, AgainIs
  <2>2. Again(rc)[n + 1].timer = (rc[n + 1].owner # 0) /\ Len(Again(rc)) = n + 1
    BY <1>1, <1>2, AgainIs
  <2>3. v # 0
    BY DEF View
  <2>4. calls' = Again(rc)
    BY DEF rc
  <2>5. n + 1 \in 1 .. n + 1 /\ \A k \in 1 .. n : k \in 1 .. n + 1
    BY <1>1
  <2>6. calls'[n + 1].owner = v /\ calls'[n + 1].enabled /\ calls'[n + 1].timer
    BY <1>2, <2>1, <2>2, <2>3, <2>4, <2>5
  <2>7. \A k \in 1 .. n : calls'[k].owner = calls[k].owner /\ ~calls'[k].enabled
    BY <1>2, <1>3, <2>1, <2>4, <2>5
  <2> QED
    BY <2>2, <2>4, <2>6, <2>7
<1>5. /\ Len(pages) <= Len(pages') /\ Len(pages) \in Nat /\ Len(pages') \in Nat
      /\ \A i \in 1 .. Len(pages) : pages'[i] = pages[i]
  BY <1>1
<1>6. DOMAIN calls' = 1 .. n + 1 /\ DOMAIN calls = 1 .. n
  BY <1>1, <1>4 DEF TypeOK
<1>7. EnabledOwned'
  BY <1>1, <1>4, <1>6 DEF EnabledOwned, View
<1>8. PagesKnown'
  <2>1. \A k \in 1 .. n : calls[k].owner <= Len(pages) /\ calls[k].owner \in Int
    <3>1. \A k \in 1 .. n : calls[k] \in Call
      BY <1>1
    <3>2. \A c \in Call : c.owner \in Int
      BY DEF Call, View
    <3> QED
      BY <1>6, <3>1, <3>2 DEF ConsoleInv, PagesKnown
  <2>2. \A k \in 1 .. n + 1 : calls'[k].owner <= Len(pages')
    BY <1>1, <1>4, <1>5, <2>1
  <2>3. \A r \in flight' : r.view <= Len(pages') /\ (r.what = "vhosts" => pages'[r.view] = "streams")
    BY <1>1, <1>5 DEF ConsoleInv, PagesKnown, Request, View
  <2> QED
    BY <1>6, <2>2, <2>3 DEF PagesKnown
<1>9. OldCallsDisabled' /\ LoopAlive'
  BY <1>1, <1>4 DEF OldCallsDisabled, LoopAlive, current
<1>10. LateAnswersHarmless'
  <2>1. OnlyStreamsTakesOver'
    BY <1>1, <1>4 DEF OnlyStreamsTakesOver, view, current, View
  <2>2. RatesForward'
    BY DEF ConsoleInv, LateAnswersHarmless, RatesForward
  <2> QED
    BY <2>1, <2>2 DEF LateAnswersHarmless
<1> QED
  BY <1>7, <1>8, <1>9, <1>10 DEF ConsoleInv

(* A page that does not poll by itself is entered: the refresher is stopped  *)
(* or left alone, and the page asks for what it shows.                       *)
LEMMA EnterKeeps ==
  ASSUME ConsoleInv, TypeOK', NEW p \in Page \ Polling, pages' = Append(pages, p),
         calls' = calls \/ calls' = Stop(calls),
         flight \subseteq flight', UNCHANGED <<kbps, failed>>,
         \A r \in flight' \ flight :
           r.view = Len(pages') /\ (r.what = "vhosts" => p = "streams")
  PROVE  ConsoleInv'
<1> DEFINE n == Len(calls)
<1> USE ConsoleAssumption
<1>1. /\ calls \in Seq(Call) /\ calls # <<>> /\ pages \in Seq(Page)
      /\ flight \subseteq Request /\ n \in Nat \ {0}
  BY DEF ConsoleInv, TypeOK
<1>2. /\ Len(calls') = n /\ DOMAIN calls' = 1 .. n /\ DOMAIN calls = 1 .. n
      /\ \A k \in 1 .. n : calls'[k].owner = calls[k].owner
      /\ \A k \in 1 .. n : k # n => calls'[k] = calls[k]
      /\ calls' = calls \/ ~calls'[n].enabled
  BY <1>1, StopIs
<1>3. /\ Len(pages') = Len(pages) + 1 /\ Len(pages) \in Nat
      /\ \A i \in 1 .. Len(pages) : pages'[i] = pages[i]
      /\ pages'[Len(pages')] = p
  BY <1>1
<1>4. EnabledOwned'
  BY <1>1, <1>2 DEF ConsoleInv, EnabledOwned
<1>5. PagesKnown'
  <2>1. \A k \in 1 .. n : calls[k].owner <= Len(pages) /\ calls[k].owner \in Int
    <3>1. \A k \in 1 .. n : calls[k] \in Call
      BY <1>1
    <3>2. \A c \in Call : c.owner \in Int
      BY DEF Call, View
    <3> QED
      BY <1>2, <3>1, <3>2 DEF ConsoleInv, PagesKnown
  <2>2. \A r \in flight : r.view <= Len(pages') /\ (r.what = "vhosts" => pages'[r.view] = "streams")
    BY <1>1, <1>3 DEF ConsoleInv, PagesKnown, Request, View
  <2>3. \A r \in flight' \ flight : r.view <= Len(pages') /\ (r.what = "vhosts" => pages'[r.view] = "streams")
    BY <1>3
  <2>4. \A k \in 1 .. n : calls'[k].owner <= Len(pages')
    <3> TAKE k \in 1 .. n
    <3>1. calls'[k].owner = calls[k].owner /\ calls[k].owner <= Len(pages) /\ calls[k].owner \in Int
      BY <1>2, <2>1
    <3> QED
      BY <1>3, <3>1
  <2> QED
    BY <1>2, <2>2, <2>3, <2>4 DEF PagesKnown
<1>6. OldCallsDisabled'
  <2>1. \A k \in 1 .. n - 1 : k \in 1 .. n /\ k # n
    BY <1>1
  <2> QED
    BY <1>2, <2>1 DEF ConsoleInv, OldCallsDisabled, current
<1>8. LoopAlive'
  <2>1. CASE calls' = calls
    BY <2>1 DEF ConsoleInv, LoopAlive, current
  <2>2. CASE ~calls'[n].enabled
    BY <1>2, <2>2 DEF LoopAlive, current
  <2> QED
    BY <1>2, <2>1, <2>2
<1>7. LateAnswersHarmless'
  BY <1>3 DEF ConsoleInv, LateAnswersHarmless, OnlyStreamsTakesOver, RatesForward, view
<1> QED
  BY <1>4, <1>5, <1>6, <1>7, <1>8 DEF ConsoleInv

(* A step that leaves the route and the refresher alone, loses no load       *)
(* except one that failed, and asks for no vhosts.                           *)
LEMMA OtherKeeps ==
  ASSUME ConsoleInv, TypeOK', UNCHANGED <<pages, calls>>, failed \subseteq failed',
         \A r \in flight \ flight' : r.what = "load" => r.view \in failed',
         \A r \in flight' \ flight : r.view <= Len(pages) /\ r.what # "vhosts",
         RatesForward'
  PROVE  ConsoleInv'
<1>1. EnabledOwned' /\ OldCallsDisabled' /\ OnlyStreamsTakesOver'
  BY DEF ConsoleInv, LateAnswersHarmless, EnabledOwned, OldCallsDisabled, OnlyStreamsTakesOver, view, current
<1>2. PagesKnown'
  BY DEF ConsoleInv, PagesKnown
<1>3. LoopAlive'
  BY DEF ConsoleInv, LoopAlive, current
<1> QED
  BY <1>1, <1>2, <1>3 DEF ConsoleInv, LateAnswersHarmless

(* $sc_utility_log keeps at most three messages.                             *)
LEMMA LogIs == ASSUME TypeOK, Log PROVE logs' \in 0 .. 3
  BY DEF TypeOK, Log

(* One or two things are asked for at a time.                                *)
LEMMA PairsFinite ==
  ASSUME NEW a, NEW b
  PROVE  IsFiniteSet({a}) /\ IsFiniteSet({a, b})
<1>1. IsFiniteSet({a})
  BY FS_Singleton
<1>2. IsFiniteSet({a} \cup {b})
  BY <1>1, FS_AddElement
<1>3. {a, b} = {a} \cup {b}
  OBVIOUS
<1> QED
  BY <1>1, <1>2, <1>3

(* A route change keeps the invariant.                                       *)
LEMMA VisitKeeps ==
  ASSUME ConsoleInv, NEW p \in Page, Visit(p)
  PROVE  ConsoleInv'
<1> DEFINE v == Len(pages) + 1
<1> USE ConsoleAssumption
<1>1. /\ TypeOK /\ pages \in Seq(Page) /\ calls \in Seq(Call) /\ calls # <<>>
      /\ Len(pages) < MaxViews /\ pages' = Append(pages, p) /\ UNCHANGED <<data, kbps, failed>>
  BY DEF ConsoleInv, TypeOK, Visit, view
<1>2. v \in View /\ Len(pages') = v /\ pages' \in Seq(Page) /\ Len(pages') <= MaxViews
  BY <1>1 DEF View
<1>3. ASSUME calls' \in Seq(Call), calls' # <<>>, flight' \subseteq Request,
             issued' \in 0 .. MaxRequests, logs' \in 0 .. 3
      PROVE  TypeOK'
  BY <1>1, <1>2, <1>3 DEF TypeOK
<1>4. /\ IsFiniteSet({"raw"}) /\ IsFiniteSet({"detail"})
      /\ IsFiniteSet({"raw", "vhosts"}) /\ IsFiniteSet({"raw", "detail"})
  BY PairsFinite
<1>5. /\ Stop(calls) \in Seq(Call) /\ Stop(calls) # <<>>
  BY <1>1, StopIs
<1> HIDE DEF v
<1>6. CASE p = "connect" /\ ConnectPage(v)
  <2>1. calls' = Stop(calls) /\ UNCHANGED <<flight, issued, logs>>
    BY <1>6 DEF ConnectPage
  <2>2. TypeOK'
    BY <1>1, <1>3, <1>5, <2>1 DEF TypeOK
  <2> QED
    BY <1>1, <1>2, <1>6, <2>1, <2>2, EnterKeeps DEF Polling
<1>7. CASE p \in Polling /\ PollingPage(v)
  <2>1. calls' = Again(RefreshChange(calls, v)) /\ UNCHANGED <<flight, issued>> /\ Log
    BY <1>7 DEF PollingPage
  <2>2. calls' \in Seq(Call) /\ calls' # <<>>
    BY <1>1, <1>2, <2>1, RefreshChangeIs, AgainIs
  <2>3. TypeOK'
    BY <1>1, <1>3, <2>1, <2>2, LogIs DEF TypeOK
  <2>4. v <= Len(pages')
    BY <1>2 DEF View
  <2> QED
    BY <1>1, <1>2, <2>1, <2>3, <2>4, InstallKeeps
<1>8. ASSUME NEW whats, Ask(v, whats), IsFiniteSet(whats), whats \subseteq {"raw", "vhosts", "detail"},
             "vhosts" \in whats => p = "streams", Log, calls' = calls \/ calls' = Stop(calls),
             p \notin Polling
      PROVE  ConsoleInv'
  <2>1. /\ issued' \in 0 .. MaxRequests /\ flight' \subseteq Request /\ flight \subseteq flight'
        /\ \A r \in flight' \ flight : r.view = v /\ r.what \in whats
    BY <1>1, <1>2, <1>8, AskIs
  <2>2. TypeOK'
    BY <1>1, <1>3, <1>5, <1>8, <2>1, LogIs
  <2> QED
    BY <1>1, <1>2, <1>8, <2>1, <2>2, EnterKeeps
<1>9. CASE p = "streams" /\ StreamsPage(v)
  BY <1>4, <1>8, <1>9 DEF StreamsPage, Polling
<1>10. CASE p = "stream" /\ StreamPage(v)
  BY <1>4, <1>8, <1>10 DEF StreamPage, Polling
<1>11. CASE p \in {"vhost", "client"} /\ DetailPage(v)
  BY <1>4, <1>8, <1>11 DEF DetailPage, Polling
<1>12. CASE p = "configs" /\ ConfigsPage(v)
  BY <1>4, <1>8, <1>12 DEF ConfigsPage, Polling
<1> QED
  BY <1>6, <1>7, <1>9, <1>10, <1>11, <1>12 DEF Visit, v, view

(* One call replaced in the list of calls.                                   *)
LEMMA PutIs ==
  ASSUME NEW cs \in Seq(Call), NEW k \in 1 .. Len(cs), NEW c \in Call
  PROVE  /\ [cs EXCEPT ![k] = c] \in Seq(Call) /\ [cs EXCEPT ![k] = c] # <<>>
         /\ Len([cs EXCEPT ![k] = c]) = Len(cs)
         /\ \A j \in 1 .. Len(cs) : [cs EXCEPT ![k] = c][j] = IF j = k THEN c ELSE cs[j]
  OBVIOUS

(* A timer that goes off keeps the invariant: the load of the current call   *)
(* takes the place of its timer.                                             *)
LEMMA FireKeeps ==
  ASSUME ConsoleInv, NEW k \in 1 .. current, Fire(k)
  PROVE  ConsoleInv'
<1> USE ConsoleAssumption
<1>1. /\ TypeOK /\ calls \in Seq(Call) /\ calls # <<>> /\ k \in 1 .. Len(calls)
      /\ UNCHANGED <<pages, data, kbps, failed, logs>>
      /\ calls' = [calls EXCEPT ![k].timer = FALSE] /\ calls[k] \in Call
  BY DEF ConsoleInv, TypeOK, Fire, current
<1> DEFINE c == [calls[k] EXCEPT !.timer = FALSE]
<1>2. c \in Call /\ c.owner = calls[k].owner /\ c.enabled = calls[k].enabled
  BY <1>1 DEF Call
<1> HIDE DEF c
<1>3. calls' = [calls EXCEPT ![k] = c]
  BY <1>1 DEF c
<1>4. /\ calls' \in Seq(Call) /\ calls' # <<>> /\ Len(calls') = Len(calls)
      /\ DOMAIN calls' = DOMAIN calls /\ DOMAIN calls = 1 .. Len(calls)
      /\ \A j \in 1 .. Len(calls) : j # k => calls'[j] = calls[j]
      /\ \A j \in 1 .. Len(calls) : calls'[j].owner = calls[j].owner /\ calls'[j].enabled = calls[j].enabled
  <2>1. /\ calls' \in Seq(Call) /\ calls' # <<>> /\ Len(calls') = Len(calls)
        /\ \A j \in 1 .. Len(calls) : calls'[j] = IF j = k THEN c ELSE calls[j]
    <3>1. calls \in Seq(Call) /\ k \in 1 .. Len(calls)
      BY <1>1
    <3> QED
      BY <1>2, <1>3, <3>1, PutIs
  <2>4. DOMAIN calls' = DOMAIN calls /\ DOMAIN calls = 1 .. Len(calls)
    BY <1>1, <2>1
  <2>2. \A j \in 1 .. Len(calls) : calls'[j].owner = calls[j].owner
    BY <1>2, <2>1
  <2>3. \A j \in 1 .. Len(calls) : calls'[j].enabled = calls[j].enabled
    BY <1>2, <2>1
  <2> QED
    BY <2>1, <2>2, <2>3, <2>4
<1>5. /\ issued' \in 0 .. MaxRequests /\ flight' \subseteq Request /\ flight \subseteq flight'
      /\ \A r \in flight' \ flight : r.view = calls[k].owner /\ r.what = "load"
      /\ calls[k].enabled => \E r \in flight' : r.view = calls[k].owner /\ r.what = "load"
  <2>1. CASE calls[k].enabled
    <3>1. calls[k].owner \in View
      BY <1>1, <2>1, <1>4 DEF Call, ConsoleInv, EnabledOwned
    <3>2. Ask(calls[k].owner, {"load"})
      BY <2>1 DEF Fire
    <3>3. IsFiniteSet({"load"}) /\ {"load"} \subseteq {"load", "vhosts", "raw", "detail", "delete", "version"}
      BY PairsFinite
    <3>4. /\ issued' \in 0 .. MaxRequests /\ flight' \subseteq Request /\ flight \subseteq flight'
          /\ \A r \in flight' \ flight : r.view = calls[k].owner /\ r.what \in {"load"}
          /\ \A w \in {"load"} : \E r \in flight' : r.view = calls[k].owner /\ r.what = w
      BY <1>1, <3>1, <3>2, <3>3, AskIs
    <3> QED
      BY <3>4
  <2>2. CASE ~calls[k].enabled
    BY <1>1, <2>2 DEF Fire, TypeOK
  <2> QED
    BY <2>1, <2>2
<1>6. TypeOK'
  BY <1>1, <1>4, <1>5 DEF TypeOK
<1>7. EnabledOwned' /\ OldCallsDisabled'
  BY <1>1, <1>4 DEF ConsoleInv, EnabledOwned, OldCallsDisabled, current
<1>8. PagesKnown'
  BY <1>1, <1>4, <1>5 DEF ConsoleInv, PagesKnown
<1>9. LoopAlive'
  <2> DEFINE n == Len(calls)
  <2>1. n \in 1 .. Len(calls)
    BY <1>1
  <2>2. CASE k = n
    BY <1>1, <1>4, <1>5, <2>1, <2>2 DEF LoopAlive, current
  <2>3. CASE k # n
    <3>1. calls'[n] = calls[n]
      BY <1>4, <2>1, <2>3
    <3> QED
      BY <1>1, <1>4, <1>5, <3>1 DEF ConsoleInv, LoopAlive, current
  <2> QED
    BY <2>2, <2>3
<1>10. LateAnswersHarmless'
  <2>1. Len(calls) \in 1 .. Len(calls)
    BY <1>1
  <2> QED
    BY <1>1, <1>4, <2>1 DEF ConsoleInv, LateAnswersHarmless, OnlyStreamsTakesOver, RatesForward, view, current
<1> QED
  BY <1>6, <1>7, <1>8, <1>9, <1>10 DEF ConsoleInv

(* The rates of a page move forwards and stay in their type.                 *)
LEMMA RatesIs ==
  ASSUME NEW k \in [pre : 0 .. MaxRequests, initialized : BOOLEAN, over : -MaxRequests .. MaxRequests],
         NEW sample \in 1 .. MaxRequests, k.over >= 0
  PROVE  /\ SummaryRates(k, sample) \in
              [pre : 0 .. MaxRequests, initialized : BOOLEAN, over : -MaxRequests .. MaxRequests]
         /\ SummaryRates(k, sample).over >= 0
<1> DEFINE diff == sample - k.pre
           over == IF k.pre # NoSample /\ diff > 0 THEN diff ELSE 0
           init == k.pre # NoSample
<1> USE ConsoleAssumption
<1>1. over \in 0 .. MaxRequests /\ over \in -MaxRequests .. MaxRequests /\ init \in BOOLEAN
  OBVIOUS
<1>2. \/ SummaryRates(k, sample) = k
      \/ SummaryRates(k, sample) = [pre |-> sample, initialized |-> init, over |-> over]
  BY DEF SummaryRates
<1> HIDE DEF over, init
<1> QED
  BY <1>1, <1>2

(* The answer to a load: the timer of the current call takes its place.      *)
LEMMA OnLoadKeeps ==
  ASSUME ConsoleInv, NEW q \in flight, OnLoad(q)
  PROVE  ConsoleInv'
<1> DEFINE n == Len(calls)
<1> USE ConsoleAssumption
<1>1. /\ TypeOK /\ calls \in Seq(Call) /\ calls # <<>> /\ n \in Nat \ {0} /\ n \in 1 .. n
      /\ q \in Request /\ flight' = flight \ {q} /\ calls' = Again(calls)
      /\ UNCHANGED <<pages, issued, failed, logs>>
  BY DEF ConsoleInv, TypeOK, OnLoad
<1>2. /\ calls' \in Seq(Call) /\ Len(calls') = n /\ calls' # <<>>
      /\ DOMAIN calls' = 1 .. n /\ DOMAIN calls = 1 .. n
      /\ \A k \in 1 .. n : calls'[k].owner = calls[k].owner
      /\ \A k \in 1 .. n : calls'[k].enabled = calls[k].enabled
      /\ calls'[n].timer = (calls[n].owner # 0)
  <2>1. calls' \in Seq(Call) /\ Len(calls') = n /\ calls' # <<>>
    BY <1>1, AgainIs
  <2>2. DOMAIN calls' = 1 .. n /\ DOMAIN calls = 1 .. n
    BY <1>1, <2>1
  <2>3. \A k \in 1 .. n : calls'[k].owner = calls[k].owner
    BY <1>1, AgainIs
  <2>4. \A k \in 1 .. n : calls'[k].enabled = calls[k].enabled
    BY <1>1, AgainIs
  <2>5. calls'[n].timer = (calls[n].owner # 0)
    BY <1>1, AgainIs
  <2> QED
    BY <2>1, <2>2, <2>3, <2>4, <2>5
<1>3. q.view \in View /\ q.id \in 1 .. MaxRequests
  BY <1>1 DEF Request
<1>4. /\ data' \in [View -> 0 .. MaxRequests]
      /\ kbps' \in [View -> [pre : 0 .. MaxRequests, initialized : BOOLEAN,
                             over : -MaxRequests .. MaxRequests]]
      /\ RatesForward'
  <2>1. data' \in [View -> 0 .. MaxRequests]
    BY <1>1, <1>3 DEF TypeOK, OnLoad
  <2> DEFINE K == [pre : 0 .. MaxRequests, initialized : BOOLEAN, over : -MaxRequests .. MaxRequests]
             k == SummaryRates(kbps[q.view], q.id)
  <2>2. kbps \in [View -> K] /\ \A v \in View : kbps[v].over >= 0
    BY <1>1 DEF TypeOK, ConsoleInv, LateAnswersHarmless, RatesForward
  <2>3. k \in K /\ k.over >= 0
    BY <1>3, <2>2, RatesIs
  <2>4. kbps' = kbps \/ kbps' = [kbps EXCEPT ![q.view] = k]
    BY DEF OnLoad
  <2> HIDE DEF K, k
  <2>5. kbps' \in [View -> K] /\ \A v \in View : kbps'[v].over >= 0
    BY <1>3, <2>2, <2>3, <2>4
  <2> QED
    BY <2>1, <2>5 DEF K, RatesForward
<1>5. TypeOK'
  BY <1>1, <1>2, <1>4 DEF TypeOK
<1>6. EnabledOwned' /\ OldCallsDisabled'
  <2>1. EnabledOwned'
    BY <1>2 DEF ConsoleInv, EnabledOwned
  <2>2. OldCallsDisabled'
    BY <1>2 DEF ConsoleInv, OldCallsDisabled, current
  <2> QED
    BY <2>1, <2>2
<1>7. PagesKnown'
  BY <1>1, <1>2 DEF ConsoleInv, PagesKnown
<1>8. LoopAlive'
  <2>1. calls[n].enabled => calls[n].owner # 0
    BY <1>1, <1>2 DEF ConsoleInv, EnabledOwned
  <2> QED
    BY <1>1, <1>2, <2>1 DEF LoopAlive, current
<1>9. LateAnswersHarmless'
  BY <1>1, <1>2, <1>4 DEF ConsoleInv, LateAnswersHarmless, OnlyStreamsTakesOver, view, current
<1> QED
  BY <1>5, <1>6, <1>7, <1>8, <1>9 DEF ConsoleInv

(* The other answers keep the invariant.                                     *)
LEMMA AnswerKeeps ==
  ASSUME ConsoleInv, NEW q \in flight, Answer(q)
  PROVE  ConsoleInv'
<1> USE ConsoleAssumption
<1>1. /\ TypeOK /\ q \in Request /\ q.view \in View /\ q.id \in 1 .. MaxRequests
      /\ calls \in Seq(Call) /\ calls # <<>> /\ pages \in Seq(Page)
      /\ q.view <= Len(pages) /\ (q.what = "vhosts" => pages[q.view] = "streams")
      /\ RatesForward
  BY DEF ConsoleInv, TypeOK, Request, PagesKnown, LateAnswersHarmless
<1>2. CASE OnLoad(q)
  BY <1>2, OnLoadKeeps
<1>3. CASE OnVhosts(q)
  <2>1. /\ calls' = Again(RefreshChange(calls, q.view)) /\ Log /\ flight' = flight \ {q}
        /\ q.what = "vhosts" /\ UNCHANGED <<pages, issued, data, kbps, failed>>
    BY <1>3 DEF OnVhosts
  <2>2. calls' \in Seq(Call) /\ calls' # <<>>
    BY <1>1, <2>1, RefreshChangeIs, AgainIs
  <2>3. TypeOK'
    BY <1>1, <2>1, <2>2, LogIs DEF TypeOK
  <2> QED
    BY <1>1, <2>1, <2>3, InstallKeeps
<1>4. CASE OnVersion(q)
  <2> DEFINE v == Len(pages) + 1
  <2>1. /\ calls' = Again(RefreshChange(calls, v)) /\ flight' = flight \ {q}
        /\ Len(pages) < MaxViews /\ pages' = Append(pages, "summaries") /\ logs' \in 0 .. 3
        /\ UNCHANGED <<issued, data, kbps, failed>>
    BY <1>4 DEF OnVersion, view
  <2>2. v \in View /\ Len(pages') = v /\ pages' \in Seq(Page) /\ "summaries" \in Page
    BY <1>1, <2>1 DEF View, Page
  <2>3. calls' \in Seq(Call) /\ calls' # <<>>
    BY <1>1, <2>1, <2>2, RefreshChangeIs, AgainIs
  <2>4. Len(pages') <= MaxViews /\ v <= Len(pages') /\ v = Len(pages')
    BY <2>2 DEF View
  <2>5. flight' \subseteq Request
    BY <1>1, <2>1 DEF TypeOK
  <2>6. TypeOK'
    BY <1>1, <2>1, <2>2, <2>3, <2>4, <2>5 DEF TypeOK
  <2> QED
    BY <2>1, <2>2, <2>4, <2>6, InstallKeeps
<1>5. CASE OnStream(q)
  <2> DEFINE o == [view |-> q.view, what |-> "owner", id |-> issued + 1]
  <2>1. /\ flight' = (flight \ {q}) \cup {o} /\ Log /\ q.what = "detail"
        /\ issued < MaxRequests /\ issued' = issued + 1 /\ UNCHANGED <<pages, calls, data, kbps, failed>>
    BY <1>5 DEF OnStream
  <2>2. o \in Request /\ issued' \in 0 .. MaxRequests
    BY <1>1, <2>1 DEF Request, TypeOK
  <2>3. TypeOK'
    BY <1>1, <2>1, <2>2, LogIs DEF TypeOK
  <2>4. RatesForward'
    BY <1>1, <2>1 DEF RatesForward
  <2>5. \A m \in flight' \ flight : m.view <= Len(pages) /\ m.what # "vhosts"
    BY <1>1, <2>1
  <2>6. \A m \in flight \ flight' : m.what = "load" => m.view \in failed'
    BY <2>1
  <2> QED
    BY <2>1, <2>3, <2>4, <2>5, <2>6, OtherKeeps
<1>6. CASE OnDetail(q) \/ OnDeleted(q)
  <2>1. /\ flight' = flight \ {q} /\ q.what # "load" /\ logs' \in 0 .. 3
        /\ data' = data \/ data' = [data EXCEPT ![q.view] = q.id]
        /\ UNCHANGED <<pages, calls, issued, kbps, failed>>
    BY <1>1, <1>6, LogIs DEF OnDetail, OnDeleted, TypeOK
  <2>5. data' \in [View -> 0 .. MaxRequests]
    <3>1. data \in [View -> 0 .. MaxRequests] /\ q.view \in View /\ q.id \in 0 .. MaxRequests
      BY <1>1 DEF TypeOK
    <3>2. CASE data' = data
      BY <3>1, <3>2
    <3>3. CASE data' = [data EXCEPT ![q.view] = q.id]
      BY <3>1, <3>3
    <3> QED
      BY <2>1, <3>2, <3>3
  <2>2. TypeOK'
    BY <1>1, <2>1, <2>5 DEF TypeOK
  <2>3. RatesForward'
    BY <1>1, <2>1 DEF RatesForward
  <2>4. /\ \A m \in flight \ flight' : m.what = "load" => m.view \in failed'
        /\ \A m \in flight' \ flight : m.view <= Len(pages) /\ m.what # "vhosts"
    BY <2>1
  <2> QED
    BY <2>1, <2>2, <2>3, <2>4, OtherKeeps
<1>7. CASE \E how \in {"unreachable", "refused"} : OnError(q, how)
  <2>1. PICK how \in {"unreachable", "refused"} : OnError(q, how)
    BY <1>7
  <2>2. logs' \in 0 .. 3
    <3>1. CASE how = "unreachable"
      BY <1>1, <2>1, <3>1 DEF OnError, TypeOK
    <3>2. CASE how = "refused"
      BY <1>1, <2>1, <3>2, LogIs DEF OnError
    <3> QED
      BY <3>1, <3>2
  <2>3. /\ flight' = flight \ {q} /\ UNCHANGED <<pages, calls, issued, data, kbps>>
        /\ failed' = IF q.what = "load" THEN failed \cup {q.view} ELSE failed
    BY <2>1 DEF OnError
  <2>4. TypeOK'
    BY <1>1, <2>2, <2>3 DEF TypeOK
  <2>5. RatesForward'
    BY <1>1, <2>3 DEF RatesForward
  <2>6. /\ \A m \in flight \ flight' : m.what = "load" => m.view \in failed'
        /\ \A m \in flight' \ flight : m.view <= Len(pages) /\ m.what # "vhosts"
        /\ failed \subseteq failed'
    BY <2>3
  <2> QED
    BY <2>3, <2>4, <2>5, <2>6, OtherKeeps
<1> QED
  BY <1>2, <1>3, <1>4, <1>5, <1>6, <1>7 DEF Answer

(* A button that is pressed keeps the invariant.                             *)
LEMMA PressKeeps ==
  ASSUME ConsoleInv, NEW what \in {"version", "delete"}, Press(what)
  PROVE  ConsoleInv'
<1> USE ConsoleAssumption
<1>1. /\ TypeOK /\ view \in View /\ Ask(view, {what}) /\ RatesForward
      /\ UNCHANGED <<pages, calls, data, kbps, failed, logs>>
  <2>1. view \in View
    BY DEF ConsoleInv, TypeOK, Press, view, View
  <2> QED
    BY <2>1 DEF ConsoleInv, Press, LateAnswersHarmless
<1>2. IsFiniteSet({what}) /\ {what} \subseteq {"load", "vhosts", "raw", "detail", "delete", "version"}
  BY PairsFinite
<1>3. /\ issued' \in 0 .. MaxRequests /\ flight' \subseteq Request /\ flight \subseteq flight'
      /\ \A r \in flight' \ flight : r.view = view /\ r.what \in {what}
  BY <1>1, <1>2, AskIs
<1>4. TypeOK'
  BY <1>1, <1>3 DEF TypeOK
<1>5. RatesForward'
  BY <1>1 DEF RatesForward
<1>6. /\ \A m \in flight \ flight' : m.what = "load" => m.view \in failed'
      /\ \A m \in flight' \ flight : m.view <= Len(pages) /\ m.what # "vhosts"
  BY <1>1, <1>3 DEF view, View
<1> QED
  BY <1>1, <1>4, <1>5, <1>6, OtherKeeps

LEMMA ExpireLogKeeps == ASSUME ConsoleInv, ExpireLog PROVE ConsoleInv'
<1>1. /\ TypeOK /\ RatesForward /\ UNCHANGED <<pages, calls, flight, issued, data, kbps, failed>>
      /\ logs' \in 0 .. 3
  BY DEF ConsoleInv, TypeOK, LateAnswersHarmless, ExpireLog
<1>2. TypeOK' /\ RatesForward'
  BY <1>1 DEF TypeOK, RatesForward
<1> QED
  BY <1>1, <1>2, OtherKeeps

LEMMA ConsoleStep == ConsoleInv /\ [Next]_vars => ConsoleInv'
<1> SUFFICES ASSUME ConsoleInv, [Next]_vars PROVE ConsoleInv'
  OBVIOUS
<1>1. CASE Next
  BY <1>1, VisitKeeps, PressKeeps, FireKeeps, AnswerKeeps, ExpireLogKeeps DEF Next
<1>2. CASE UNCHANGED vars
  BY <1>2 DEF vars, ConsoleInv, TypeOK, EnabledOwned, PagesKnown, OldCallsDisabled, LoopAlive,
     LateAnswersHarmless, OnlyStreamsTakesOver, RatesForward, view, current
<1> QED
  BY <1>1, <1>2

LEMMA ConsoleSafe == Spec => []ConsoleInv
  BY ConsoleInit, ConsoleStep, PTL DEF Spec

(* refresh_change() and stop() leave no call but the current one enabled, so *)
(* a timer that was not cleared never runs the function of an old page.      *)
THEOREM OldCallsStayDisabled == Spec => []OldCallsDisabled
<1>1. ConsoleInv => OldCallsDisabled
  BY DEF ConsoleInv
<1> QED
  BY <1>1, ConsoleSafe, PTL

(* The polling of the page that has the refresher goes on until one of its   *)
(* loads fails: request() and the timers never lose both load and timer.     *)
THEOREM LoopStaysAlive == Spec => []LoopAlive
<1>1. ConsoleInv => LoopAlive
  BY DEF ConsoleInv
<1> QED
  BY <1>1, ConsoleSafe, PTL

(* Answers that come after a route change take the refresher only for a      *)
(* streams page and never make CSCSummary measure a rate backwards.          *)
THEOREM LateAnswersStayHarmless == Spec => []LateAnswersHarmless
<1>1. ConsoleInv => LateAnswersHarmless
  BY DEF ConsoleInv
<1> QED
  BY <1>1, ConsoleSafe, PTL

-----------------------------------------------------------------------------
(* The option editor                                                         *)

(* The form that the page expects of an option, and what editing keeps: the  *)
(* old value is the one from before, and an option that is no array never    *)
(* becomes a list.                                                           *)
FormOf(v) == v = Undefined \/ v[1] = (IF array THEN "list" ELSE "text")

EditorInv ==
  /\ EditorTypeOK
  /\ ~editing => FormOf(value)
  /\ editing => old.init /\ old.value = before /\ FormOf(before)
  /\ ~array => FormOf(value)
  /\ cancelled => ~editing /\ value = before

LEMMA FormOfStored ==
  ASSUME NEW c \in Content, array \in BOOLEAN
  PROVE  Stored(array, c) \in Value /\ FormOf(Stored(array, c))
  BY DEF Stored, Value, FormOf

LEMMA EditorStart == EditorInit => EditorInv
<1> SUFFICES ASSUME EditorInit PROVE EditorInv
  OBVIOUS
<1>1. Undefined \in Value /\ FormOf(Undefined) /\ array \in BOOLEAN
  BY DEF Value, FormOf, EditorInit
<1>2. value \in Value /\ FormOf(value)
  BY <1>1, FormOfStored DEF EditorInit
<1> QED
  BY <1>1, <1>2 DEF EditorInit, EditorInv, EditorTypeOK, NoOld

LEMMA EditorStep == EditorInv /\ [EditorNext]_editorVars => EditorInv'
<1> SUFFICES ASSUME EditorInv, [EditorNext]_editorVars PROVE EditorInv'
  OBVIOUS
<1> USE DEF EditorInv, EditorTypeOK, FormOf
<1>1. CASE Edit
  <2>1. value' \in Value /\ (~array => value' = value)
    BY <1>1 DEF Edit, Value, Undefined
  <2> QED
    BY <1>1, <2>1 DEF Edit
<1>2. CASE LoadDefault
  <2>1. value' = Stored(array, Default) /\ value' \in Value /\ FormOf(value')
    BY <1>2, FormOfStored, DefaultAssumption DEF LoadDefault
  <2> QED
    BY <1>2, <2>1 DEF LoadDefault
<1>3. CASE TogglePopover
  BY <1>3 DEF TogglePopover
<1>4. CASE Cancel
  <2>1. value' = before /\ value' = old.value
    BY <1>4 DEF Cancel
  <2> QED
    BY <1>4, <2>1 DEF Cancel, Reset, NoOld, Value
<1>5. ASSUME NEW c \in Content, Type(c) PROVE EditorInv'
  <2>1. value' = <<"text", c>> /\ value' \in Value /\ value'[1] = "text"
    BY <1>5 DEF Type, Value
  <2> QED
    BY <1>5, <2>1 DEF Type
<1>6. ASSUME NEW accepted \in BOOLEAN, Confirm(accepted) PROVE EditorInv'
  <2>1. value' \in Value /\ FormOf(value') /\ UNCHANGED array
    BY <1>6 DEF Confirm, Value, Undefined
  <2>2. \/ UNCHANGED <<editing, old>>
        \/ editing' = FALSE /\ old' = NoOld
    BY <1>6 DEF Confirm, Reset
  <2>3. UNCHANGED <<array, before, broken>> /\ popover' = FALSE /\ cancelled' = FALSE
    BY <1>6 DEF Confirm
  <2>4. NoOld \in [init : BOOLEAN, value : Value]
    BY DEF NoOld, Value
  <2>5. EditorTypeOK'
    <3>1. editing' \in BOOLEAN /\ old' \in [init : BOOLEAN, value : Value]
      BY <2>2, <2>4
    <3>2. popover' \in BOOLEAN /\ cancelled' \in BOOLEAN
      BY <2>3
    <3>3. array' \in BOOLEAN /\ before' \in Value /\ broken' \in BOOLEAN
      BY <2>3
    <3> QED
      BY <2>1, <3>1, <3>2, <3>3
  <2>6. FormOf(value)'
    BY <2>1
  <2>7. (editing => old.init /\ old.value = before /\ FormOf(before))'
    BY <2>2, <2>3
  <2>8. ~cancelled'
    BY <2>3
  <2> QED
    BY <2>5, <2>6, <2>7, <2>8 DEF EditorInv
<1>7. CASE UNCHANGED editorVars
  BY <1>7 DEF editorVars
<1> QED
  BY <1>1, <1>2, <1>3, <1>4, <1>5, <1>6, <1>7 DEF EditorNext

(* scDirective leaves an option in the form the page expects, and cancel     *)
(* brings back the value from before, for any contents and any sequence of   *)
(* typing, defaults, refused commits and late confirmations.                 *)
THEOREM EditorAlwaysRestores == EditorInit /\ [][EditorNext]_editorVars => []EditorRestores
<1>1. EditorInv => EditorRestores
  BY DEF EditorInv, EditorRestores, FormOf, Stored
<1> QED
  BY <1>1, EditorStart, EditorStep, PTL

-----------------------------------------------------------------------------
(* The Vue pages                                                             *)

(* One connection for the loaded player; the last timer is for the address   *)
(* asked for last; the cameras that run are the one shown and lost ones.     *)
PagesInv ==
  /\ mounted \in BOOLEAN /\ isSupported \in BOOLEAN
  /\ pending \in Seq(Urls) /\ starts \in [clicks : Nat, granted : Nat]
  /\ connections = IF player = "loaded" THEN 1 ELSE 0
  /\ ~mounted => player # "loaded" /\ preview = 0
  /\ isSupported /\ mounted /\ pending = <<>> /\ asked # NoUrl => playing = asked
  /\ pending # <<>> => pending[Len(pending)] = asked
  /\ 0 \notin cameras /\ cameras \subseteq lost \cup {preview}

LEMMA SeqNotEmpty == ASSUME NEW S, NEW s \in Seq(S), Len(s) >= 1 PROVE s # <<>>
  OBVIOUS

LEMMA PagesStep == PagesInv /\ [PageNext]_pageVars => PagesInv'
<1> SUFFICES ASSUME PagesInv, [PageNext]_pageVars PROVE PagesInv'
  OBVIOUS
<1> USE DEF PagesInv
<1>1. ASSUME NEW url \in Urls, handlePlay(url) PROVE PagesInv'
  BY <1>1 DEF handlePlay, pushVars
<1>2. CASE PlayTimer
  <2>1. /\ pending' \in Seq(Urls)
        /\ pending' # <<>> => pending'[Len(pending')] = asked
        /\ pending' = <<>> => Head(pending) = asked
    <3>1. pending \in Seq(Urls) /\ pending # <<>> /\ pending' = Tail(pending) /\ pending[Len(pending)] = asked
      BY <1>2 DEF PlayTimer
    <3>2. CASE Len(pending) = 1
      BY <3>1, <3>2
    <3>3. CASE Len(pending) > 1
      <4> DEFINE n == Len(pending) - 1
      <4>1. n \in 1 .. n /\ n \in Nat /\ n + 1 = Len(pending)
        BY <3>1, <3>3
      <4>2. Tail(pending) \in Seq(Urls) /\ Len(Tail(pending)) = n
        BY <3>1, <3>3
      <4>3. Tail(pending)[n] = pending[n + 1]
        BY <3>1, <4>1
      <4>4. Tail(pending) # <<>>
        <5>1. Len(Tail(pending)) >= 1
          BY <4>1, <4>2
        <5> QED
          BY <4>2, <5>1, SeqNotEmpty
      <4> QED
        BY <3>1, <4>1, <4>2, <4>3, <4>4
    <3> QED
      BY <3>1, <3>2, <3>3
  <2>2. /\ isSupported /\ mounted => playing' = Head(pending)
        /\ connections' = IF player' = "loaded" THEN 1 ELSE 0
        /\ ~mounted => player' # "loaded"
    BY <1>2 DEF PlayTimer
  <2> QED
    BY <1>2, <2>1, <2>2 DEF PlayTimer, pushVars
<1>3. CASE startPush
  BY <1>3 DEF startPush, flvVars
<1>4. CASE Granted
  <2>1. starts'.granted = starts.granted + 1 /\ starts' \in [clicks : Nat, granted : Nat]
    BY <1>4 DEF Granted
  <2>2. 0 \notin cameras' /\ cameras' \subseteq lost' \cup {preview'} /\ (~mounted' => preview' = 0)
    BY <1>4 DEF Granted
  <2> QED
    BY <1>4, <2>1, <2>2 DEF Granted, flvVars
<1>5. CASE Denied
  BY <1>5 DEF Denied, flvVars
<1>6. CASE stopPush
  BY <1>6 DEF stopPush, Released, flvVars
<1>7. CASE beforeUnmount
  <2>1. 0 \notin cameras' /\ cameras' \subseteq lost' \cup {preview'} /\ preview' = 0
    BY <1>7 DEF beforeUnmount, Released
  <2>2. connections' = 0 /\ player' = "none" /\ mounted' = FALSE
    BY <1>7 DEF beforeUnmount
  <2> QED
    BY <1>7, <2>1, <2>2 DEF beforeUnmount
<1>8. CASE UNCHANGED pageVars
  BY <1>8 DEF pageVars, flvVars, pushVars
<1> QED
  BY <1>1, <1>2, <1>3, <1>4, <1>5, <1>6, <1>7, <1>8 DEF PageNext

(* For any number of clicks and any interleaving of the 500 ms timers, the   *)
(* getUserMedia answers and beforeUnmount: one connection at most and none   *)
(* on a page that was left, the last address plays, and only a camera that   *)
(* nothing refers to runs on.                                                *)
THEOREM PagesAlwaysRelease == PageInit /\ [][PageNext]_pageVars => []PagesRelease
<1>1. PageInit => PagesInv
  BY DEF PageInit, PagesInv
<1>2. PagesInv => PagesRelease
  BY DEF PagesInv, PagesRelease
<1> QED
  BY <1>1, <1>2, PagesStep, PTL

-----------------------------------------------------------------------------
(* Events the adapter makes up                                               *)

(* The listeners: once described there is one, and in old Chrome exactly     *)
(* one; a stream of which anything came is listened to; the remembered       *)
(* connection state is the one of the ICE state.                             *)
AnnouncedInv ==
  /\ polys \in Nat /\ (remembered => polys >= 1) /\ (described => remembered)
  /\ came \subseteq RemoteStreams \X RemoteTracks
  /\ told \in [Things -> Nat]
  /\ shim = "track" => /\ polys = IF remembered THEN 1 ELSE 0
                       /\ \A S \in RemoteStreams, t \in RemoteTracks : <<S, t>> \in came => S \in remote
  /\ shim = "connection" => last \in {"undefined", connectionStateOf(ice)}
  /\ RemoteAnnounced

LEMMA RemoteStep == AnnouncedInv /\ [RemoteNext]_remoteVars => AnnouncedInv'
<1> SUFFICES ASSUME AnnouncedInv, [RemoteNext]_remoteVars PROVE AnnouncedInv'
  OBVIOUS
<1> USE DEF AnnouncedInv, RemoteAnnounced
<1>1. CASE SetRemoteDescription
  BY <1>1 DEF SetRemoteDescription
<1>2. CASE IceStateChange
  <2>1. PICK i \in IceNext(ice) :
          /\ ice' = i
          /\ last' = IF remembered THEN connectionStateOf(i) ELSE last
          /\ seen' = IF remembered /\ last # connectionStateOf(i) THEN connectionStateOf(i) ELSE seen
    BY <1>2 DEF IceStateChange
  <2>2. connectionStateOf(i) # "undefined"
    BY DEF IceNext, connectionStateOf
  <2> QED
    BY <1>2, <2>1, <2>2 DEF IceStateChange, streamEvents
<1>3. ASSUME NEW f \in Handlers \cup {None}, SetOnAddStream(f) PROVE AnnouncedInv'
  BY <1>3 DEF SetOnAddStream
<1>4. ASSUME NEW S \in RemoteStreams, NEW t \in RemoteTracks, TrackEvent(S, t) PROVE AnnouncedInv'
  <2>1. /\ polys > 0 /\ came' = came \cup {<<S, t>>} /\ remote' = remote \cup {S}
        /\ told' = IF S \notin remote THEN [told EXCEPT ![S] = @ + 1] ELSE told
        /\ shim = "addstream" /\ UNCHANGED <<shim, described, polys, remembered, handler, ice, last, seen>>
    BY <1>4 DEF TrackEvent
  <2>2. S \in Things
    BY DEF Things
  <2>3. remote' = {c[1] : c \in came'}
    <3>1. remote = {c[1] : c \in came} /\ <<S, t>>[1] = S
      BY <2>1
    <3>2. \A x : x \in {c[1] : c \in came'} <=> x \in {c[1] : c \in came} \/ x = <<S, t>>[1]
      BY <2>1
    <3> QED
      BY <2>1, <3>1, <3>2
  <2>4. told' \in [Things -> Nat] /\ \A U \in RemoteStreams : told'[U] = IF U \in remote' THEN 1 ELSE 0
    BY <2>1, <2>2 DEF Things
  <2>5. came' \subseteq RemoteStreams \X RemoteTracks
    BY <2>1
  <2> QED
    BY <2>1, <2>3, <2>4, <2>5
<1>5. ASSUME NEW S \in RemoteStreams, NEW t \in RemoteTracks, AddTrackEvent(S, t) PROVE AnnouncedInv'
  <2>1. /\ S \in remote /\ came' = came \cup {<<S, t>>} /\ told' = [told EXCEPT ![t] = @ + 1]
        /\ shim = "track" /\ UNCHANGED <<shim, described, polys, remembered, handler, remote, ice, last, seen>>
        /\ ~\E c \in came : c[2] = t
    BY <1>5 DEF AddTrackEvent
  <2>2. t \in Things /\ told[t] = 0
    BY <2>1 DEF Things
  <2>3. came' \subseteq RemoteStreams \X RemoteTracks /\ told' \in [Things -> Nat]
    BY <2>1, <2>2
  <2>4. \A u \in RemoteTracks : (\E c \in came' : c[2] = u) <=> (u = t \/ \E c \in came : c[2] = u)
    <3>1. <<S, t>>[2] = t /\ <<S, t>> \in came'
      BY <2>1
    <3> QED
      BY <2>1, <3>1
  <2>5. \A u \in RemoteTracks : told'[u] = IF \E c \in came' : c[2] = u THEN 1 ELSE 0
    BY <2>1, <2>2, <2>4 DEF Things
  <2>6. \A U \in RemoteStreams, u \in RemoteTracks : <<U, u>> \in came' => U \in remote'
    BY <2>1
  <2> QED
    BY <2>1, <2>3, <2>5, <2>6
<1>6. ASSUME NEW S \in RemoteStreams, NEW T \in SUBSET RemoteTracks, AddStreamEvent(S, T) PROVE AnnouncedInv'
  <2>1. /\ came' = came \cup {<<S, t>> : t \in T} /\ remote' = remote \cup {S} /\ polys = 1
        /\ told' = [x \in Things |-> IF x \in T THEN told[x] + polys ELSE told[x]]
        /\ shim = "track" /\ UNCHANGED <<shim, described, polys, remembered, handler, ice, last, seen>>
        /\ \A t \in T : ~\E c \in came : c[2] = t
    BY <1>6 DEF AddStreamEvent
  <2>2. \A t \in T : t \in Things /\ told[t] = 0
    BY <2>1 DEF Things
  <2>3. came' \subseteq RemoteStreams \X RemoteTracks /\ told' \in [Things -> Nat]
    BY <2>1, <2>2
  <2>4. \A u \in RemoteTracks : (\E c \in came' : c[2] = u) <=> (u \in T \/ \E c \in came : c[2] = u)
    <3> TAKE u \in RemoteTracks
    <3>1. ASSUME NEW c \in came', c[2] = u PROVE u \in T \/ \E e \in came : e[2] = u
      BY <2>1, <3>1
    <3>2. ASSUME u \in T PROVE \E c \in came' : c[2] = u
      <4>1. <<S, u>> \in came' /\ <<S, u>>[2] = u
        BY <2>1, <3>2
      <4> QED
        BY <4>1
    <3>3. ASSUME NEW e \in came, e[2] = u PROVE \E c \in came' : c[2] = u
      BY <2>1, <3>3
    <3> QED
      BY <3>1, <3>2, <3>3
  <2>5. \A u \in RemoteTracks : told'[u] = IF \E c \in came' : c[2] = u THEN 1 ELSE 0
    BY <2>1, <2>2, <2>4 DEF Things
  <2>6. \A U \in RemoteStreams, u \in RemoteTracks : <<U, u>> \in came' => U \in remote'
    BY <2>1
  <2> QED
    BY <2>1, <2>3, <2>5, <2>6
<1>7. CASE UNCHANGED remoteVars
  BY <1>7 DEF remoteVars
<1> QED
  BY <1>1, <1>2, <1>3, <1>4, <1>5, <1>6, <1>7 DEF RemoteNext

(* shimOnAddStream, shimOnTrack and shimConnectionState announce each stream *)
(* or track once and the present connection state, for any sets of streams   *)
(* and tracks and any number of listeners that replaced handlers leave.      *)
THEOREM RemoteAlwaysAnnounced == RemoteInit /\ [][RemoteNext]_remoteVars => []RemoteAnnounced
<1>1. RemoteInit => AnnouncedInv
  BY DEF RemoteInit, AnnouncedInv, RemoteAnnounced, Things, connectionStateOf
<1>2. AnnouncedInv => RemoteAnnounced
  BY DEF AnnouncedInv
<1> QED
  BY <1>1, <1>2, RemoteStep, PTL

-----------------------------------------------------------------------------
(* The wait for encodings in Firefox                                         *)

(* A call that waits awaits, of the transceivers it knows, every one that is *)
(* not settled and was not taken off the list; it has missed nothing yet.    *)
EncodingsCall(c) ==
  /\ creates[c].before <= transceivers
  /\ creates[c].at \in {"none", "waiting"} => missed[c] = {}
  /\ creates[c].at = "waiting" =>
       \A t \in setting : t <= creates[c].before => t \in creates[c].awaits \cup dropped
  /\ \A t \in missed[c] : t <= creates[c].before => t \in dropped

EncodingsInv ==
  /\ transceivers \in Nat /\ setting \subseteq 1 .. transceivers
  /\ creates \in [Create -> [at : {"none", "waiting", "making", "done"}, awaits : SUBSET Nat, before : Nat]]
  /\ missed \in [Create -> SUBSET Nat] /\ promises \subseteq Nat
  /\ \A c \in Create : EncodingsCall(c)
  /\ setting \subseteq promises \cup dropped

LEMMA EncodingsStep == EncodingsInv /\ [EncodingsNext]_encodingVars => EncodingsInv'
<1> SUFFICES ASSUME EncodingsInv, [EncodingsNext]_encodingVars PROVE EncodingsInv'
  OBVIOUS
<1> USE DEF EncodingsInv
<1>1. ASSUME NEW e \in {"none", "valid", "invalid"}, NEW ignored \in BOOLEAN, AddTransceiver(e, ignored)
      PROVE  EncodingsInv'
  <2> DEFINE t == transceivers + 1
  <2>1. /\ t \in Nat /\ UNCHANGED <<creates, missed>> /\ dropped' = dropped \cup (promises \cap setting)
        /\ transceivers' \in Nat /\ transceivers <= transceivers'
        /\ \/ setting' = setting /\ promises' = {}
           \/ setting' = setting \cup {t} /\ promises' = {t} /\ transceivers' = t
    BY <1>1 DEF AddTransceiver, ResetPromises
  <2>2. setting' \subseteq 1 .. transceivers' /\ promises' \subseteq Nat /\ setting' \subseteq promises' \cup dropped'
    <3>1. setting \subseteq 1 .. transceivers' /\ setting \subseteq promises \cup dropped
      BY <2>1
    <3>2. CASE setting' = setting /\ promises' = {}
      BY <2>1, <3>1, <3>2
    <3>3. CASE setting' = setting \cup {t} /\ promises' = {t} /\ transceivers' = t
      <4>1. t \in 1 .. transceivers' /\ t \in Nat
        BY <2>1, <3>3
      <4> HIDE DEF t
      <4> QED
        BY <2>1, <3>1, <3>3, <4>1
    <3> QED
      BY <2>1, <3>2, <3>3
  <2>3. \A x \in setting' : x \in setting \/ x = t
    BY <2>1
  <2>4. ASSUME NEW c \in Create PROVE EncodingsCall(c)'
    <3>1. creates[c].before \in Nat /\ EncodingsCall(c) /\ creates' = creates /\ missed' = missed
      BY <2>1
    <3>2. ~(t <= creates[c].before) /\ creates[c].before <= transceivers'
      BY <2>1, <3>1 DEF EncodingsCall
    <3>3. dropped \subseteq dropped'
      BY <2>1
    <3> HIDE DEF t, EncodingsInv
    <3> QED
      BY <2>3, <3>1, <3>2, <3>3 DEF EncodingsCall
  <2> QED
    BY <2>1, <2>2, <2>4
<1>2. ASSUME NEW t \in setting, SetParametersSettles(t) PROVE EncodingsInv'
  BY <1>2 DEF SetParametersSettles, EncodingsCall
<1>3. ASSUME NEW c \in Create, CallCreate(c) PROVE EncodingsInv'
  <2> DEFINE new == [at |-> IF promises = {} THEN "done" ELSE "waiting", awaits |-> promises,
                     before |-> transceivers]
  <2>1. /\ creates' = [creates EXCEPT ![c] = new] /\ creates[c].at = "none"
        /\ missed' = IF promises = {} THEN [missed EXCEPT ![c] = setting] ELSE missed
        /\ UNCHANGED <<transceivers, setting, promises, dropped>>
    BY <1>3 DEF CallCreate
  <2>2. /\ new \in [at : {"none", "waiting", "making", "done"}, awaits : SUBSET Nat, before : Nat]
        /\ new.before = transceivers /\ new.awaits = promises
        /\ new.at = IF promises = {} THEN "done" ELSE "waiting"
    OBVIOUS
  <2> HIDE DEF new
  <2>3. /\ creates' \in [Create -> [at : {"none", "waiting", "making", "done"}, awaits : SUBSET Nat, before : Nat]]
        /\ creates'[c] = new /\ \A d \in Create \ {c} : creates'[d] = creates[d]
    BY <2>1, <2>2
  <2>4. /\ missed' \in [Create -> SUBSET Nat] /\ missed'[c] = IF promises = {} THEN setting ELSE {}
        /\ \A d \in Create \ {c} : missed'[d] = missed[d]
    <3>1. missed[c] = {} /\ setting \subseteq Nat
      BY <2>1 DEF EncodingsCall
    <3> QED
      BY <2>1, <3>1
  <2>5. \A d \in Create : EncodingsCall(d)'
    <3> TAKE d \in Create
    <3>1. CASE d = c
      BY <2>1, <2>2, <2>3, <2>4, <3>1 DEF EncodingsCall
    <3>2. CASE d # c
      BY <2>1, <2>3, <2>4, <3>2 DEF EncodingsCall
    <3> QED
      BY <3>1, <3>2
  <2> QED
    BY <2>1, <2>3, <2>4, <2>5 DEF EncodingsCall
<1>4. ASSUME NEW c \in Create, CreateGoesOn(c) PROVE EncodingsInv'
  <2>1. /\ creates' = [creates EXCEPT ![c].at = "making"] /\ missed' = [missed EXCEPT ![c] = setting]
        /\ creates[c].at = "waiting" /\ creates[c].awaits \cap setting = {}
        /\ UNCHANGED <<transceivers, setting, promises, dropped>>
    BY <1>4 DEF CreateGoesOn
  <2>2. \A t \in setting : t <= creates[c].before => t \in dropped
    BY <2>1 DEF EncodingsCall
  <2>3. /\ creates' \in [Create -> [at : {"none", "waiting", "making", "done"}, awaits : SUBSET Nat, before : Nat]]
        /\ creates'[c].at = "making" /\ creates'[c].before = creates[c].before
        /\ \A d \in Create \ {c} : creates'[d] = creates[d]
        /\ missed' \in [Create -> SUBSET Nat] /\ missed'[c] = setting
        /\ \A d \in Create \ {c} : missed'[d] = missed[d]
    BY <2>1
  <2>4. \A d \in Create : EncodingsCall(d)'
    BY <2>1, <2>2, <2>3 DEF EncodingsCall
  <2> QED
    BY <2>1, <2>3, <2>4 DEF EncodingsCall
<1>5. ASSUME NEW c \in Create, CreateEnds(c) PROVE EncodingsInv'
  <2>1. /\ creates' = [creates EXCEPT ![c].at = "done"] /\ creates[c].at = "making" /\ promises' = {}
        /\ dropped' = dropped \cup (promises \cap setting) /\ UNCHANGED <<transceivers, setting, missed>>
    BY <1>5 DEF CreateEnds, ResetPromises
  <2>2. /\ creates' \in [Create -> [at : {"none", "waiting", "making", "done"}, awaits : SUBSET Nat, before : Nat]]
        /\ creates'[c].at = "done" /\ creates'[c].before = creates[c].before
        /\ \A d \in Create \ {c} : creates'[d] = creates[d]
    BY <2>1
  <2>3. \A d \in Create : EncodingsCall(d)'
    BY <2>1, <2>2 DEF EncodingsCall
  <2> QED
    BY <2>1, <2>2, <2>3 DEF EncodingsCall
<1>6. CASE UNCHANGED encodingVars
  BY <1>6 DEF encodingVars, EncodingsCall
<1> QED
  BY <1>1, <1>2, <1>3, <1>4, <1>5, <1>6 DEF EncodingsNext

(* createOffer and createAnswer wait for the encodings of the transceivers   *)
(* they were called with, for any number of transceivers and calls, except   *)
(* those that another call has taken off setParametersPromises.              *)
THEOREM EncodingsAlwaysWaited ==
  EncodingsInit /\ [][EncodingsNext]_encodingVars => []EncodingsWaited
<1>1. EncodingsInit => EncodingsInv
  BY DEF EncodingsInit, EncodingsInv, EncodingsCall, NotCalled
<1>2. EncodingsInv => EncodingsWaited
  BY DEF EncodingsInv, EncodingsCall, EncodingsWaited
<1> QED
  BY <1>1, <1>2, EncodingsStep, PTL

-----------------------------------------------------------------------------
(* The Flash objects                                                         *)

FlashInv ==
  /\ FlashTypeOK
  /\ emptySince <= clock
  /\ emptyTime + (IF emptySince > 0 THEN clock - emptySince ELSE 0) <= clock
  /\ MaxBufferAboveBuffer /\ PublisherOnce

(* What is removed from a list where it occurs once is gone, and the rest    *)
(* stays different.                                                          *)
LEMMA RemoveFirstIs ==
  ASSUME NEW s \in Seq(Ids), NEW id, \A i, j \in DOMAIN s : s[i] = s[j] => i = j
  PROVE  /\ RemoveFirst(s, id) \in Seq(Ids)
         /\ \A i, j \in DOMAIN RemoveFirst(s, id) :
              RemoveFirst(s, id)[i] = RemoveFirst(s, id)[j] => i = j
         /\ \A i \in DOMAIN RemoveFirst(s, id) : RemoveFirst(s, id)[i] # id
<1>1. CASE ~\E i \in 1 .. Len(s) : s[i] = id
  BY <1>1 DEF RemoveFirst
<1>2. CASE \E i \in 1 .. Len(s) : s[i] = id
  <2>1. PICK k \in 1 .. Len(s) : s[k] = id
    BY <1>2
  <2>2. {i \in 1 .. Len(s) : s[i] = id} = {k}
    BY <2>1
  <2>3. Min({k}) = k
    BY DEF Min
  <2>4. SelectInSeq(s, LAMBDA v : v = id) = k
    BY <2>2, <2>3 DEF SelectInSeq
  <2>5. RemoveFirst(s, id) = SubSeq(s, 1, k - 1) \o SubSeq(s, k + 1, Len(s))
    BY <1>2, <2>4 DEF RemoveFirst, RemoveAt
  <2> DEFINE a == SubSeq(s, 1, k - 1)
             b == SubSeq(s, k + 1, Len(s))
             f == RemoveFirst(s, id)
  <2>6. a \in Seq(Ids) /\ Len(a) = k - 1 /\ \A i \in 1 .. k - 1 : a[i] = s[i]
    OBVIOUS
  <2>7. b \in Seq(Ids) /\ Len(b) = Len(s) - k /\ \A i \in 1 .. Len(s) - k : b[i] = s[k + i]
    OBVIOUS
  <2> HIDE DEF a, b
  <2>8. /\ f \in Seq(Ids) /\ DOMAIN f = 1 .. Len(s) - 1
        /\ \A i \in 1 .. Len(s) - 1 : f[i] = IF i < k THEN s[i] ELSE s[i + 1]
    <3>1. f = a \o b
      BY <2>5 DEF a, b
    <3>2. f \in Seq(Ids) /\ Len(f) = Len(s) - 1
      BY <2>6, <2>7, <3>1, SMTT(30)
    <3>3. \A i \in 1 .. Len(s) - 1 : f[i] = IF i <= k - 1 THEN a[i] ELSE b[i - (k - 1)]
      BY <2>6, <2>7, <3>1
    <3>4. \A i \in 1 .. Len(s) - 1 : f[i] = IF i < k THEN s[i] ELSE s[i + 1]
      BY <2>6, <2>7, <3>3
    <3> QED
      BY <3>2, <3>4
  <2> HIDE DEF f
  <2>9. \A i \in 1 .. Len(s) - 1 : IF i < k THEN i \in 1 .. Len(s) /\ i # k ELSE i + 1 \in 1 .. Len(s) /\ i + 1 # k
    OBVIOUS
  <2>10. \A i \in DOMAIN f : f[i] # id
    BY <2>1, <2>8, <2>9
  <2>11. \A i, j \in DOMAIN f : f[i] = f[j] => i = j
    BY <2>8, <2>9, SMTT(30)
  <2> QED
    BY <2>8, <2>10, <2>11 DEF f
<1> QED
  BY <1>1, <1>2

(* Appending something new keeps the entries different.                      *)
LEMMA AppendOnce ==
  ASSUME NEW s \in Seq(Ids), NEW id \in Ids, \A i, j \in DOMAIN s : s[i] = s[j] => i = j,
         \A i \in DOMAIN s : s[i] # id
  PROVE  /\ Append(s, id) \in Seq(Ids)
         /\ \A i, j \in DOMAIN Append(s, id) : Append(s, id)[i] = Append(s, id)[j] => i = j
  OBVIOUS

(* The larger of two or three numbers.                                       *)
LEMMA MaxIs ==
  ASSUME NEW a \in Nat, NEW b \in Nat, NEW c \in Nat
  PROVE  Max({a, b, c}) \in {a, b, c} /\ Max({a, b, c}) >= a /\ Max({a, b, c}) >= b /\ Max({a, b, c}) >= c
<1>1. \E x \in {a, b, c} : \A y \in {a, b, c} : x >= y
  BY a >= b \/ b >= a, a >= c \/ c >= a, b >= c \/ c >= b
<1>2. Max({a, b, c}) \in {a, b, c} /\ \A y \in {a, b, c} : Max({a, b, c}) >= y
  BY <1>1 DEF Max
<1> QED
  BY <1>2

(* set_mbt: the limits hold, and what is skipped differs by less than two.   *)
LEMMA SetMbtIs ==
  ASSUME NEW b \in Nat, NEW o \in Nat, NEW w \in Nat, o >= 12
  PROVE  /\ SetMbt(b, o, w) \in Nat /\ SetMbt(b, o, w) >= 12
         /\ \/ SetMbt(b, o, w) >= b /\ SetMbt(b, o, w) >= w
            \/ SetMbt(b, o, w) = o /\ o + 1 >= w /\ o + 1 >= b
<1> DEFINE new == Max({12, b, w})
<1>1. new \in Nat /\ new >= 12 /\ new >= b /\ new >= w
  BY MaxIs
<1> HIDE DEF new
<1>2. SetMbt(b, o, w) = IF o \div 2 = new \div 2 THEN o ELSE new
  BY DEF SetMbt, new
<1>3. o \div 2 = new \div 2 => o + 1 >= new
  BY <1>1
<1> QED
  BY <1>1, <1>2, <1>3

(* A quotient by at least as much is a fraction.                             *)
LEMMA PercentIs ==
  ASSUME NEW time \in Nat, NEW den \in Nat, den > 0, time <= den
  PROVE  (time * 100) \div den \in 0 .. 100
<1> DEFINE q == (time * 100) \div den
<1>1. q \in Int /\ den * q <= time * 100 /\ time * 100 < den * q + den
  OBVIOUS
<1>2. time * 100 <= den * 100
  OBVIOUS
<1> HIDE DEF q
<1>3. q >= 0
  BY <1>1
<1>4. q <= 100
  BY <1>1, <1>2
<1> QED
  BY <1>1, <1>3, <1>4 DEF q

LEMMA FlashStep ==
  FlashInv /\ [ObjectsNext \/ FluencyNext \/ BufferNext]_flashVars => FlashInv'
<1> SUFFICES ASSUME FlashInv, [ObjectsNext \/ FluencyNext \/ BufferNext]_flashVars PROVE FlashInv'
  OBVIOUS
<1> USE FlashAssumption DEF FlashInv, FlashTypeOK, MaxBufferAboveBuffer, fluency, buffers
<1>1. ASSUME NEW id \in Ids, NewPlayer(id) \/ Play(id) \/ PlayerClosed(id) \/ PlayerCallback(id)
      PROVE  FlashInv'
  <2>1. plist' \in Seq(Ids) /\ notFound' \subseteq Ids /\ UNCHANGED <<blist, waiting, fluency, buffers>>
    <3>1. CASE NewPlayer(id) \/ Play(id)
      <4>1. plist' = Append(plist, id) /\ plist \in Seq(Ids)
        BY <3>1 DEF NewPlayer, Play
      <4> QED
        BY <3>1, <4>1 DEF NewPlayer, Play
    <3>2. CASE PlayerClosed(id)
      BY <3>2 DEF PlayerClosed
    <3>3. CASE PlayerCallback(id)
      BY <3>3 DEF PlayerCallback
    <3> QED
      BY <1>1, <3>1, <3>2, <3>3
  <2> QED
    BY <2>1 DEF PublisherOnce
<1>2. ASSUME NEW id \in Ids, NewPublisher(id) PROVE FlashInv'
  <2>1. blist' = Append(blist, id) /\ UNCHANGED <<plist, waiting, notFound, fluency, buffers>>
    BY <1>2 DEF NewPublisher
  <2>2. \A i \in DOMAIN blist : blist[i] # id
    BY <1>2 DEF NewPublisher, Has, Contains
  <2>3. blist' \in Seq(Ids) /\ PublisherOnce'
    BY <2>1, <2>2, AppendOnce DEF PublisherOnce
  <2> QED
    BY <2>1, <2>3
<1>3. ASSUME NEW id \in Ids, StopPublisher(id) PROVE FlashInv'
  <2>1. blist' = RemoveFirst(blist, id) /\ UNCHANGED <<plist, waiting, notFound, fluency, buffers>>
    BY <1>3 DEF StopPublisher
  <2>2. blist' \in Seq(Ids) /\ PublisherOnce'
    BY <2>1, RemoveFirstIs DEF PublisherOnce
  <2> QED
    BY <2>1, <2>2
<1>4. ASSUME NEW id \in Ids, Publish(id) PROVE FlashInv'
  <2> DEFINE rest == RemoveFirst(blist, id)
  <2>1. /\ blist' = Append(rest, id) /\ waiting' = waiting \cup {id}
        /\ UNCHANGED <<plist, notFound, fluency, buffers>>
    BY <1>4 DEF Publish
  <2>2. /\ rest \in Seq(Ids) /\ \A i, j \in DOMAIN rest : rest[i] = rest[j] => i = j
        /\ \A i \in DOMAIN rest : rest[i] # id
    BY RemoveFirstIs DEF PublisherOnce
  <2> HIDE DEF rest
  <2>3. blist' \in Seq(Ids) /\ PublisherOnce'
    BY <2>1, <2>2, AppendOnce DEF PublisherOnce
  <2> QED
    BY <2>1, <2>3
<1>5. ASSUME NEW id \in Ids, PublisherError(id) PROVE FlashInv'
  BY <1>5 DEF PublisherError, PublisherOnce
<1>6. CASE FluencyNext
  <2>1. /\ clock' \in 0 .. MaxTime /\ empties' \in 0 .. MaxTime /\ emptyTime' \in Nat
        /\ emptySince' \in 0 .. MaxTime /\ emptySince' <= clock'
        /\ emptyTime' + (IF emptySince' > 0 THEN clock' - emptySince' ELSE 0) <= clock'
    BY <1>6, SMTT(30) DEF FluencyNext, Tick, on_stream_empty, on_stream_full
  <2>2. UNCHANGED <<plist, blist, waiting, notFound, buffers>>
    BY <1>6 DEF FluencyNext, Tick, on_stream_empty, on_stream_full
  <2> QED
    BY <2>1, <2>2 DEF PublisherOnce
<1>7. ASSUME NEW t \in BufferTimes, set_bt(t) PROVE FlashInv'
  <2>1. t \in Nat /\ 3 * t \in Nat /\ bt' = t /\ mbt' = SetMbt(t, mbt, 3 * t)
        /\ UNCHANGED <<plist, blist, waiting, notFound, fluency>>
    BY <1>7 DEF set_bt
  <2>2. mbt' \in Nat /\ mbt' >= 12 /\ mbt' >= t
    <3>1. mbt \in Nat /\ mbt >= 12
      OBVIOUS
    <3>2. /\ mbt' \in Nat /\ mbt' >= 12
          /\ mbt' >= t \/ (mbt' = mbt /\ mbt + 1 >= 3 * t)
      BY <2>1, <3>1, SetMbtIs
    <3> HIDE DEF FlashInv
    <3> QED
      BY <2>1, <3>1, <3>2
  <2> QED
    BY <2>1, <2>2 DEF PublisherOnce
<1>8. ASSUME NEW t \in BufferTimes, set_mbt(t) PROVE FlashInv'
  <2>1. t \in Nat /\ mbt' = SetMbt(bt, mbt, t) /\ UNCHANGED <<plist, blist, waiting, notFound, fluency, bt>>
    BY <1>8 DEF set_mbt
  <2>2. mbt' \in Nat /\ mbt' >= 12 /\ mbt' >= bt
    <3>1. mbt \in Nat /\ mbt >= 12 /\ bt \in Nat /\ mbt >= bt
      OBVIOUS
    <3>2. mbt' \in Nat /\ mbt' >= 12 /\ (mbt' >= bt \/ mbt' = mbt)
      BY <2>1, <3>1, SetMbtIs
    <3> QED
      BY <3>1, <3>2
  <2> QED
    BY <2>1, <2>2 DEF PublisherOnce
<1>9. CASE UNCHANGED flashVars
  BY <1>9 DEF flashVars, PublisherOnce
<1> QED
  BY <1>1, <1>2, <1>3, <1>4, <1>5, <1>6, <1>7, <1>8, <1>9 DEF ObjectsNext, BufferNext

(* Whatever sequence of plugin callbacks, calls and buffer settings: the     *)
(* fluency is a percentage, the maximal buffer is not below the buffer, and  *)
(* a publisher is registered at most once, for any number of objects.        *)
THEOREM FlashAlwaysAccounts ==
  FlashInit /\ [][ObjectsNext \/ FluencyNext \/ BufferNext]_flashVars => []FlashAccounts
<1>1. FlashInit => FlashInv
  BY FlashAssumption DEF FlashInit, FlashInv, FlashTypeOK, MaxBufferAboveBuffer, PublisherOnce
<1>2. FlashInv => FlashAccounts
  <2> SUFFICES ASSUME FlashInv PROVE FlashAccounts
    OBVIOUS
  <2>1. calc(clock) \in 0 .. 100
    <3> DEFINE den == empties * 4 + emptyTime * 2 + clock
    <3>1. clock \in Nat /\ den \in Nat /\ clock <= den
      BY FlashAssumption DEF FlashInv, FlashTypeOK
    <3>2. calc(clock) = IF den > 0 THEN (clock * 100) \div den ELSE 0
      BY DEF calc
    <3> HIDE DEF den
    <3> QED
      BY <3>1, <3>2, PercentIs
  <2> QED
    BY <2>1 DEF FlashInv, FlashAccounts, FluencyInRange
<1> QED
  BY <1>1, <1>2, FlashStep, PTL

-----------------------------------------------------------------------------
(* The local streams of the adapter                                          *)

(* Chrome and Safari: a sender without a track has no stream, one with a     *)
(* stream sends a track of it.                                               *)
Sender == [track : Tracks \cup {NoTrack}, stream : Streams \cup {NoStream}, sent : BOOLEAN]
SendersOK ==
  /\ senders \in Seq(Sender)
  /\ \A i \in DOMAIN senders :
       /\ senders[i].track = NoTrack => senders[i].stream = NoStream
       /\ senders[i].stream # NoStream => senders[i].track \in senders[i].stream

(* Chrome: a stream is listed with exactly the senders it has, unless        *)
(* addStream took senders that were there before.                            *)
SendersOf(S) == {i \in DOMAIN senders : senders[i].stream = S}
ShimmedInv ==
  /\ DOMAIN shimmed \subseteq Streams
  /\ \A S \in Streams \ reused :
       IF S \in DOMAIN shimmed THEN shimmed[S] = SendersOf(S) /\ SendersOf(S) # {}
       ELSE SendersOf(S) = {}

ListedInv == \A i \in DOMAIN senders : senders[i].stream \in listed \cup {NoStream}

(* Old Chrome: the maps are inverse, each internal stream holds tracks of    *)
(* the stream it stands for, and there is a sender for each of them.         *)
Mapping(f) == f = [x \in DOMAIN f |-> f[x]]
InternalInv ==
  /\ Mapping(internal) /\ Mapping(reverse) /\ Mapping(content)
  /\ DOMAIN internal \subseteq Streams /\ DOMAIN content = DOMAIN reverse /\ attached = DOMAIN reverse
  /\ \A S \in DOMAIN internal : internal[S] \in DOMAIN reverse /\ reverse[internal[S]] = S
  /\ \A n \in DOMAIN reverse :
       /\ reverse[n] \in DOMAIN internal /\ internal[reverse[n]] = n
       /\ content[n] \subseteq reverse[n] /\ content[n] # {}
  /\ \A t : t \in dtmf <=> \E n \in DOMAIN content : t \in content[n]
PageDescription == replaceInternalStreamId(NativeDescription)
Asked == needed \/ queued \/ swallowed
OfferInv == offered # PageDescription => Asked

StreamsInv ==
  /\ browser \in {"old", "chrome", "safari"}
  /\ browser = "old" => InternalInv /\ OfferInv
  /\ browser = "chrome" => SendersOK /\ ShimmedInv
  /\ browser = "safari" => SendersOK /\ ListedInv

LEMMA StreamsFacts ==
  /\ \A S \in Streams : S # {} /\ S # NoStream /\ S \subseteq Tracks /\ NoTrack \notin S
  /\ \A S, T \in Streams : \A t : t \in S /\ t \in T => S = T
  /\ MaxSenders \in Nat
<1>1. \A S \in Streams : S # {} /\ S # NoStream /\ S \subseteq Tracks /\ NoTrack \notin S
  BY StreamsAssumption DEF Tracks, NoStream
<1>2. ASSUME NEW S \in Streams, NEW T \in Streams, NEW t, t \in S, t \in T PROVE S = T
  BY <1>2, StreamsAssumption
<1> QED BY <1>1, <1>2, StreamsAssumption

(* The numbers up to n and new ones without a gap are the numbers up to some *)
(* m.                                                                        *)
Adjoins(n, max, new) ==
  /\ \A i \in new : i \in 1 .. n \/ i \in n + 1 .. max
  /\ \A i, j \in n + 1 .. max : i \in new /\ j <= i => j \in new

LEMMA NoGap ==
  ASSUME NEW n \in Nat, NEW max \in Nat, NEW new, Adjoins(n, max, new)
  PROVE  \E m \in Nat : (1 .. n) \cup new = 1 .. m
<1>0. /\ \A i \in new : i \in 1 .. n \/ i \in n + 1 .. max
      /\ \A i, j \in n + 1 .. max : i \in new /\ j <= i => j \in new
  BY DEF Adjoins
<1> DEFINE T == {k \in Nat : k > n /\ k \notin new}
           R == {ss \in Nat \X Nat : ss[1] < ss[2]}
           top == IF n > max THEN n + 1 ELSE max + 1
<1>1. T \in SUBSET Nat /\ T # {}
  <2>1. top \in T
    BY <1>0
  <2> QED BY <2>1
<1>2. IsWellFoundedOn(R, Nat)
  BY NatLessThanWellFounded, Zenon DEF OpToRel
<1>3. \A y, x \in Nat : y < x => <<y, x>> \in R
  OBVIOUS
<1>4. PICK x \in T : \A y \in T : ~(<<y, x>> \in R)
  <2> HIDE DEF R, T
  <2> QED BY <1>1, <1>2, WFMin, Zenon
<1>5. x \in Nat /\ x > n /\ x \notin new
  OBVIOUS
<1>6. \A y \in n + 1 .. x - 1 : y \in new
  <2> TAKE y \in n + 1 .. x - 1
  <2>1. <<y, x>> \in R
    BY <1>3, <1>5
  <2> QED BY <1>4, <2>1
<1>7. \A y \in new : y \in 1 .. x - 1
  <2> TAKE y \in new
  <2>1. y \in 1 .. n \/ y \in n + 1 .. max
    BY <1>0
  <2>2. ASSUME y \in n + 1 .. max, y >= x PROVE FALSE
    <3>1. x \in n + 1 .. max /\ x <= y
      BY <1>5, <2>2
    <3> QED BY <1>0, <1>5, <2>2, <3>1
  <2> QED BY <1>5, <2>1, <2>2
<1>8. (1 .. n) \cup new = 1 .. x - 1
  <2>1. \A y : y \in (1 .. n) \cup new => y \in 1 .. x - 1
    BY <1>5, <1>7
  <2>2. \A y : y \in 1 .. x - 1 => y \in (1 .. n) \cup new
    BY <1>5, <1>6
  <2> QED BY <2>1, <2>2
<1> QED BY <1>5, <1>8

(* addTrack of the browser: the senders that are taken had neither track nor *)
(* stream, and the list grows without a gap.                                 *)
LEMMA SendersAdded ==
  ASSUME SendersOK, NEW S \in Streams \cup {NoStream}, NEW T, T \subseteq Tracks,
         S # NoStream => T \subseteq S, NEW via \in Vias(T), NativeAdd(via, S)
  PROVE  /\ SendersOK' /\ DOMAIN via = T
         /\ DOMAIN senders' = DOMAIN senders \cup Range(via)
         /\ \A i \in Range(via) : senders'[i].stream = S
         /\ \A i \in DOMAIN senders \ Range(via) : senders'[i] = senders[i]
         /\ \A i \in DOMAIN senders \cap Range(via) : senders[i].stream = NoStream
<1> DEFINE n == Len(senders)
           new == Range(via)
<1>1. n \in Nat /\ DOMAIN senders = 1 .. n /\ \A i \in DOMAIN senders : senders[i] \in Sender
  BY DEF SendersOK
<1>2. /\ via \in [T -> Reusable \cup (n + 1 .. MaxSenders)]
      /\ \A i \in n + 1 .. MaxSenders : i \in new => \A j \in n + 1 .. i : j \in new
  BY DEF Vias
<1>3. /\ DOMAIN via = T /\ \A i \in new : \E t \in T : via[t] = i
      /\ \A i \in new : i \in Reusable \/ i \in n + 1 .. MaxSenders
  BY <1>2 DEF Range
<1>4. Reusable \subseteq 1 .. n
  BY <1>1 DEF Reusable
<1>5. PICK m \in Nat : (1 .. n) \cup new = 1 .. m
  <2>1. \A i \in new : i \in 1 .. n \/ i \in n + 1 .. MaxSenders
    BY <1>3, <1>4
  <2>2. n \in Nat /\ MaxSenders \in Nat
    BY <1>1, StreamsAssumption
  <2>3. \A i, j \in n + 1 .. MaxSenders : i \in new /\ j <= i => j \in new
    BY <1>1, <1>2
  <2>4. Adjoins(n, MaxSenders, new)
    BY <2>1, <2>3 DEF Adjoins
  <2> HIDE DEF n, new
  <2> QED BY <2>2, <2>4, NoGap
<1> DEFINE track(i) == CHOOSE t \in DOMAIN via : via[t] = i
           taken(i) == [track |-> track(i), stream |-> S, sent |-> FALSE]
<1>6. \A i \in new : track(i) \in T
  BY <1>3
<1> HIDE DEF track
<1>7. \A i \in new : taken(i) \in Sender /\ taken(i).stream = S /\ taken(i).track = track(i)
  BY <1>6 DEF Sender
<1>8. senders' = [i \in 1 .. m |-> IF i \in new THEN taken(i) ELSE senders[i]]
  BY <1>1, <1>5 DEF NativeAdd, track
<1> HIDE DEF taken
<1>9. \A i \in 1 .. m : i \notin new => i \in DOMAIN senders
  BY <1>1, <1>5
<1>10. senders' \in Seq(Sender) /\ DOMAIN senders' = 1 .. m
  BY <1>1, <1>7, <1>8, <1>9
<1>11. \A i \in new : i \in 1 .. m /\ senders'[i] = taken(i)
  BY <1>5, <1>8
<1>12. \A i \in DOMAIN senders \ new : senders'[i] = senders[i]
  BY <1>1, <1>5, <1>8
<1>13. \A i \in new : senders'[i].stream = S /\ senders'[i].track = track(i)
  BY <1>7, <1>11
<1>14. ASSUME NEW i \in DOMAIN senders'
       PROVE  /\ senders'[i].track = NoTrack => senders'[i].stream = NoStream
              /\ senders'[i].stream # NoStream => senders'[i].track \in senders'[i].stream
  <2>1. CASE i \in new
    <3>1. track(i) # NoTrack
      BY <1>6, <2>1, StreamsAssumption DEF Tracks
    <3> QED BY <1>6, <1>13, <2>1, <3>1
  <2>2. CASE i \notin new
    BY <1>9, <1>10, <1>12, <2>2 DEF SendersOK
  <2> QED BY <2>1, <2>2
<1>15. \A i \in DOMAIN senders \cap new : senders[i].stream = NoStream
  <2>1. \A i \in DOMAIN senders \cap new : i \in Reusable
    BY <1>1, <1>3
  <2> QED BY <2>1 DEF Reusable, SendersOK
<1> QED BY <1>1, <1>3, <1>5, <1>10, <1>12, <1>13, <1>14, <1>15 DEF SendersOK

(* removeTrack of the browser.                                               *)
LEMMA SendersRemoved ==
  ASSUME SendersOK, NEW which, NativeRemove(which)
  PROVE  /\ SendersOK' /\ DOMAIN senders' = DOMAIN senders
         /\ \A i \in DOMAIN senders :
              senders'[i].stream = IF i \in which THEN NoStream ELSE senders[i].stream
<1> DEFINE gone(r) == [r EXCEPT !.track = NoTrack, !.stream = NoStream]
<1>1. /\ senders \in Seq(Sender)
      /\ senders' = [i \in DOMAIN senders |-> IF i \in which THEN gone(senders[i]) ELSE senders[i]]
  BY DEF SendersOK, NativeRemove
<1>2. \A r \in Sender : gone(r) \in Sender /\ gone(r).track = NoTrack /\ gone(r).stream = NoStream
  BY DEF Sender
<1> HIDE DEF gone
<1>3. \A i \in DOMAIN senders : senders[i] \in Sender
  BY <1>1
<1>4. DOMAIN senders' = DOMAIN senders /\ senders' \in Seq(Sender)
  BY <1>1, <1>2, <1>3
<1>5. ASSUME NEW i \in DOMAIN senders
      PROVE  /\ senders'[i].stream = IF i \in which THEN NoStream ELSE senders[i].stream
             /\ senders'[i].track = NoTrack => senders'[i].stream = NoStream
             /\ senders'[i].stream # NoStream => senders'[i].track \in senders'[i].stream
  <2>1. CASE i \in which
    BY <1>1, <1>2, <1>3, <2>1
  <2>2. CASE i \notin which
    BY <1>1, <2>2 DEF SendersOK
  <2> QED BY <2>1, <2>2
<1> QED BY <1>4, <1>5 DEF SendersOK

(* The end of a negotiation.                                                 *)
LEMMA SendersNegotiated ==
  ASSUME SendersOK, Negotiated
  PROVE  /\ SendersOK' /\ DOMAIN senders' = DOMAIN senders
         /\ \A i \in DOMAIN senders : senders'[i].stream = senders[i].stream
<1> DEFINE marked(r) == [r EXCEPT !.sent = r.sent \/ r.track # NoTrack]
<1>1. senders \in Seq(Sender) /\ senders' = [i \in DOMAIN senders |-> marked(senders[i])]
  BY DEF SendersOK, Negotiated
<1>2. \A r \in Sender : marked(r) \in Sender /\ marked(r).track = r.track /\ marked(r).stream = r.stream
  BY DEF Sender
<1> HIDE DEF marked
<1>3. \A i \in DOMAIN senders : senders[i] \in Sender
  BY <1>1
<1>4. DOMAIN senders' = DOMAIN senders /\ senders' \in Seq(Sender)
  BY <1>1, <1>2, <1>3
<1>5. \A i \in DOMAIN senders : senders'[i].track = senders[i].track /\ senders'[i].stream = senders[i].stream
  BY <1>1, <1>2, <1>3
<1> QED BY <1>4, <1>5 DEF SendersOK

(* Chrome                                                                    *)
LEMMA ChromeAddTrackKept ==
  ASSUME SendersOK, ShimmedInv, NEW t \in Tracks, NEW S \in Streams \cup {NoStream},
         S # NoStream => t \in S, ChromeAddTrack(t, S)
  PROVE  SendersOK' /\ ShimmedInv'
<1>1. PICK via \in Vias({t}) :
        /\ NativeAdd(via, S)
        /\ shimmed' = IF S = NoStream THEN shimmed
                      ELSE IF S \in DOMAIN shimmed THEN [shimmed EXCEPT ![S] = @ \cup {via[t]}]
                      ELSE With(shimmed, S, {via[t]})
  BY DEF ChromeAddTrack
<1>2. /\ SendersOK' /\ DOMAIN via = {t}
      /\ DOMAIN senders' = DOMAIN senders \cup Range(via)
      /\ \A i \in Range(via) : senders'[i].stream = S
      /\ \A i \in DOMAIN senders \ Range(via) : senders'[i] = senders[i]
      /\ \A i \in DOMAIN senders \cap Range(via) : senders[i].stream = NoStream
  <2>1. {t} \subseteq Tracks /\ (S # NoStream => {t} \subseteq S)
    OBVIOUS
  <2> QED BY <1>1, <2>1, SendersAdded
<1>3. Range(via) = {via[t]} /\ reused' = reused
  BY <1>2 DEF Range, ChromeAddTrack
<1> DEFINE i0 == via[t]
<1>4. \A U \in Streams : SendersOf(U)' = IF U = S THEN SendersOf(U) \cup {i0} ELSE SendersOf(U)
  <2> TAKE U \in Streams
  <2>1. U # NoStream
    BY StreamsFacts
  <2>2. ASSUME NEW i PROVE i \in SendersOf(U)' <=> i \in SendersOf(U) \/ (U = S /\ i = i0)
    <3>1. CASE i = i0
      BY <1>2, <1>3, <2>1, <3>1 DEF SendersOf
    <3>2. CASE i # i0
      BY <1>2, <1>3, <3>2 DEF SendersOf
    <3> QED BY <3>1, <3>2
  <2> QED BY <2>2
<1>5. CASE S = NoStream
  <2>1. \A U \in Streams : U # S
    BY <1>5, StreamsFacts
  <2> QED BY <1>1, <1>2, <1>3, <1>4, <1>5, <2>1 DEF ShimmedInv
<1>6. CASE S # NoStream
  <2>1. S \in Streams
    BY <1>6
  <2>2. /\ DOMAIN shimmed' = DOMAIN shimmed \cup {S}
        /\ \A U \in DOMAIN shimmed : U # S => shimmed'[U] = shimmed[U]
        /\ shimmed'[S] = IF S \in DOMAIN shimmed THEN shimmed[S] \cup {i0} ELSE {i0}
    BY <1>1, <1>6 DEF With
  <2> HIDE DEF i0
  <2>3. DOMAIN shimmed' \subseteq Streams
    BY <2>1, <2>2 DEF ShimmedInv
  <2>4. ASSUME NEW U \in Streams \ reused
        PROVE  IF U \in DOMAIN shimmed' THEN shimmed'[U] = SendersOf(U)' /\ SendersOf(U)' # {}
               ELSE SendersOf(U)' = {}
    <3>1. IF U \in DOMAIN shimmed THEN shimmed[U] = SendersOf(U) /\ SendersOf(U) # {}
          ELSE SendersOf(U) = {}
      BY DEF ShimmedInv
    <3>2. SendersOf(U)' = IF U = S THEN SendersOf(U) \cup {i0} ELSE SendersOf(U)
      BY <1>4
    <3>3. CASE U = S
      BY <2>2, <3>1, <3>2, <3>3
    <3>4. CASE U # S
      BY <2>2, <3>1, <3>2, <3>4
    <3> QED BY <3>3, <3>4
  <2> QED BY <1>2, <1>3, <2>3, <2>4 DEF ShimmedInv
<1> QED BY <1>5, <1>6

LEMMA ChromeAddStreamKept ==
  ASSUME SendersOK, ShimmedInv, NEW S \in Streams, ChromeAddStream(S)
  PROVE  SendersOK' /\ ShimmedInv'
<1>1. PICK via \in Vias(S) :
        /\ NativeAdd(via, S)
        /\ shimmed' = With(shimmed, S, Range(via) \ DOMAIN senders)
        /\ reused' = IF Range(via) \cap DOMAIN senders = {} THEN reused ELSE reused \cup {S}
  BY DEF ChromeAddStream
<1>2. /\ SendersOK' /\ DOMAIN via = S
      /\ DOMAIN senders' = DOMAIN senders \cup Range(via)
      /\ \A i \in Range(via) : senders'[i].stream = S
      /\ \A i \in DOMAIN senders \ Range(via) : senders'[i] = senders[i]
      /\ \A i \in DOMAIN senders \cap Range(via) : senders[i].stream = NoStream
  <2>1. S \subseteq Tracks /\ S \in Streams \cup {NoStream}
    BY StreamsFacts
  <2> QED BY <1>1, <2>1, SendersAdded
<1>3. Range(via) # {}
  BY <1>2, StreamsFacts DEF Range
<1>4. SendersOf(S) = {}
  <2> SUFFICES ASSUME NEW i \in DOMAIN senders, senders[i].stream = S PROVE FALSE
    BY DEF SendersOf
  <2>1. senders[i].track \in S
    BY StreamsFacts DEF SendersOK
  <2> QED BY <2>1 DEF ChromeAddStream, Active
<1>5. \A U \in Streams : SendersOf(U)' = IF U = S THEN Range(via) ELSE SendersOf(U)
  <2> TAKE U \in Streams
  <2>1. U # NoStream
    BY StreamsFacts
  <2>2. ASSUME NEW i PROVE i \in SendersOf(U)' <=> IF U = S THEN i \in Range(via) ELSE i \in SendersOf(U)
    <3>1. CASE i \in Range(via)
      BY <1>2, <2>1, <3>1 DEF SendersOf
    <3>2. CASE i \notin Range(via)
      BY <1>2, <1>4, <3>2 DEF SendersOf
    <3> QED BY <3>1, <3>2
  <2> QED BY <2>2
<1>6. /\ DOMAIN shimmed' = DOMAIN shimmed \cup {S}
      /\ \A U \in DOMAIN shimmed : U # S => shimmed'[U] = shimmed[U]
      /\ shimmed'[S] = Range(via) \ DOMAIN senders
  BY <1>1 DEF With
<1>7. ASSUME NEW U \in Streams \ reused'
      PROVE  IF U \in DOMAIN shimmed' THEN shimmed'[U] = SendersOf(U)' /\ SendersOf(U)' # {}
             ELSE SendersOf(U)' = {}
  <2>1. SendersOf(U)' = IF U = S THEN Range(via) ELSE SendersOf(U)
    BY <1>5
  <2>2. CASE U = S
    <3>1. Range(via) \cap DOMAIN senders = {}
      BY <1>1, <2>2
    <3> QED BY <1>3, <1>6, <2>1, <2>2, <3>1
  <2>3. CASE U # S
    <3>1. U \in Streams \ reused
      BY <1>1, <2>3
    <3>2. IF U \in DOMAIN shimmed THEN shimmed[U] = SendersOf(U) /\ SendersOf(U) # {}
          ELSE SendersOf(U) = {}
      BY <3>1 DEF ShimmedInv
    <3> QED BY <1>6, <2>1, <2>3, <3>2
  <2> QED BY <2>2, <2>3
<1>8. DOMAIN shimmed' \subseteq Streams
  BY <1>6 DEF ShimmedInv
<1> QED BY <1>2, <1>7, <1>8 DEF ShimmedInv

LEMMA ChromeRemoveStreamKept ==
  ASSUME SendersOK, ShimmedInv, NEW S \in Streams, ChromeRemoveStream(S)
  PROVE  SendersOK' /\ ShimmedInv'
<1>1. /\ shimmed' = Without(shimmed, {S}) /\ reused' = reused \ {S}
      /\ NativeRemove(Sending(S))
  BY DEF ChromeRemoveStream
<1>2. /\ SendersOK' /\ DOMAIN senders' = DOMAIN senders
      /\ \A i \in DOMAIN senders :
           senders'[i].stream = IF i \in Sending(S) THEN NoStream ELSE senders[i].stream
  BY <1>1, SendersRemoved
<1>3. \A U \in Streams : SendersOf(U)' = IF U = S THEN {} ELSE SendersOf(U)
  <2> TAKE U \in Streams
  <2>1. U # NoStream
    BY StreamsFacts
  <2>2. ASSUME NEW i \in DOMAIN senders
        PROVE  senders'[i].stream = U <=> U # S /\ senders[i].stream = U
    <3>1. CASE i \in Sending(S)
      <4>1. senders[i].track \in S
        BY <3>1 DEF Sending
      <4>2. senders[i].stream = U => senders[i].track \in U
        BY <2>1, <2>2 DEF SendersOK
      <4>3. senders[i].stream = U => U = S
        BY <4>1, <4>2, StreamsFacts
      <4> QED BY <1>2, <2>1, <3>1, <4>3
    <3>2. CASE i \notin Sending(S)
      <4>1. senders[i].stream # S
        BY <2>2, <3>2, StreamsFacts DEF SendersOK, Sending
      <4> QED BY <1>2, <3>2, <4>1
    <3> QED BY <3>1, <3>2
  <2> QED BY <1>2, <2>2 DEF SendersOf
<1>4. /\ DOMAIN shimmed' = DOMAIN shimmed \ {S}
      /\ \A U \in DOMAIN shimmed' : shimmed'[U] = shimmed[U]
  BY <1>1 DEF Without, Restrict
<1> QED BY <1>1, <1>2, <1>3, <1>4 DEF ShimmedInv

LEMMA ChromeRemoveTrackKept ==
  ASSUME SendersOK, ShimmedInv, NEW k \in DOMAIN senders, ChromeRemoveTrack(k)
  PROVE  SendersOK' /\ ShimmedInv'
<1>1. /\ shimmed' = [S \in {U \in DOMAIN shimmed : shimmed[U] \ {k} # {}} |-> shimmed[S] \ {k}]
      /\ reused' = reused /\ NativeRemove({k})
  BY DEF ChromeRemoveTrack
<1>2. /\ SendersOK' /\ DOMAIN senders' = DOMAIN senders
      /\ \A i \in DOMAIN senders : senders'[i].stream = IF i \in {k} THEN NoStream ELSE senders[i].stream
  BY <1>1, SendersRemoved
<1>3. \A U \in Streams : SendersOf(U)' = SendersOf(U) \ {k}
  BY <1>2, StreamsFacts DEF SendersOf
<1>4. DOMAIN shimmed' \subseteq Streams
  BY <1>1 DEF ShimmedInv
<1>5. ASSUME NEW U \in Streams \ reused
      PROVE  IF U \in DOMAIN shimmed' THEN shimmed'[U] = SendersOf(U)' /\ SendersOf(U)' # {}
             ELSE SendersOf(U)' = {}
  <2>1. IF U \in DOMAIN shimmed THEN shimmed[U] = SendersOf(U) /\ SendersOf(U) # {}
        ELSE SendersOf(U) = {}
    BY DEF ShimmedInv
  <2> QED BY <1>1, <1>3, <2>1
<1> QED BY <1>1, <1>2, <1>4, <1>5 DEF ShimmedInv

(* Safari                                                                    *)
LEMMA SafariAddKept ==
  ASSUME SendersOK, ListedInv, NEW S \in Streams \cup {NoStream}, NEW T, T \subseteq Tracks,
         S # NoStream => T \subseteq S, NEW via \in Vias(T), NativeAdd(via, S),
         listed \subseteq listed', S # NoStream => S \in listed'
  PROVE  SendersOK' /\ ListedInv'
<1>1. /\ SendersOK'
      /\ DOMAIN senders' = DOMAIN senders \cup Range(via)
      /\ \A i \in Range(via) : senders'[i].stream = S
      /\ \A i \in DOMAIN senders \ Range(via) : senders'[i] = senders[i]
  BY SendersAdded
<1> QED BY <1>1 DEF ListedInv

LEMMA SafariKept ==
  ASSUME SendersOK, ListedInv,
         \/ \E S \in Streams, t \in Tracks : t \in S /\ \E U \in {S, NoStream} : SafariAddTrack(t, U)
         \/ \E S \in Streams : SafariAddStream(S)
         \/ \E S \in Streams : SafariRemoveStream(S)
         \/ \E i \in DOMAIN senders : SafariRemoveTrack(i)
  PROVE  SendersOK' /\ ListedInv'
<1>1. ASSUME NEW S \in Streams, NEW t \in Tracks, t \in S, NEW U \in {S, NoStream}, SafariAddTrack(t, U)
      PROVE  SendersOK' /\ ListedInv'
  <2>1. listed' = IF U = NoStream THEN listed ELSE listed \cup {U}
    BY <1>1 DEF SafariAddTrack
  <2>2. CASE UNCHANGED senders
    BY <2>1, <2>2 DEF SendersOK, ListedInv
  <2>3. ASSUME NEW via \in Vias({t}), NativeAdd(via, U) PROVE SendersOK' /\ ListedInv'
    <3>1. /\ U \in Streams \cup {NoStream} /\ {t} \subseteq Tracks /\ (U # NoStream => {t} \subseteq U)
          /\ listed \subseteq listed' /\ (U # NoStream => U \in listed')
      BY <1>1, <2>1
    <3> QED BY <2>3, <3>1, SafariAddKept
  <2> QED BY <1>1, <2>2, <2>3 DEF SafariAddTrack
<1>2. ASSUME NEW S \in Streams, SafariAddStream(S) PROVE SendersOK' /\ ListedInv'
  <2>1. PICK U \in SUBSET {t \in S : ~Active(t)} : \E via \in Vias(U) : NativeAdd(via, S)
    BY <1>2 DEF SafariAddStream
  <2>2. /\ S \in Streams \cup {NoStream} /\ U \subseteq Tracks /\ U \subseteq S
        /\ listed \subseteq listed' /\ S \in listed'
    BY <1>2, <2>1, StreamsFacts DEF SafariAddStream
  <2> QED BY <2>1, <2>2, SafariAddKept
<1>3. ASSUME NEW S \in Streams, SafariRemoveStream(S) PROVE SendersOK' /\ ListedInv'
  <2>1. listed' = listed \ {S} /\ NativeRemove(Sending(S))
    BY <1>3 DEF SafariRemoveStream
  <2>2. /\ SendersOK' /\ DOMAIN senders' = DOMAIN senders
        /\ \A i \in DOMAIN senders :
             senders'[i].stream = IF i \in Sending(S) THEN NoStream ELSE senders[i].stream
    BY <2>1, SendersRemoved
  <2>3. \A i \in DOMAIN senders : i \notin Sending(S) => senders[i].stream # S
    BY StreamsFacts DEF SendersOK, Sending
  <2> QED BY <2>1, <2>2, <2>3 DEF ListedInv
<1>4. ASSUME NEW k \in DOMAIN senders, SafariRemoveTrack(k) PROVE SendersOK' /\ ListedInv'
  <2>1. listed' = listed /\ NativeRemove({k})
    BY <1>4 DEF SafariRemoveTrack
  <2>2. /\ SendersOK' /\ DOMAIN senders' = DOMAIN senders
        /\ \A i \in DOMAIN senders : senders'[i].stream = IF i \in {k} THEN NoStream ELSE senders[i].stream
    BY <2>1, SendersRemoved
  <2> QED BY <2>1, <2>2 DEF ListedInv
<1> QED BY <1>1, <1>2, <1>3, <1>4

(* Chrome before 65                                                          *)

(* The page's description names each stream with those of its tracks that    *)
(* have a sender; translated back it is the native one.                      *)
LEMMA DescriptionTranslated ==
  ASSUME InternalInv
  PROVE  /\ PageDescription = {p \in {reverse[n] : n \in attached} \X dtmf : p[2] \in p[1]}
         /\ replaceExternalStreamId(PageDescription) = NativeDescription
<1> DEFINE pageStream(id) == {S \in Range(reverse) : internal[S] = id}
           out(p) == <<IF pageStream(p[1]) # {} THEN CHOOSE S \in pageStream(p[1]) : TRUE ELSE p[1], p[2]>>
           back(p) == <<IF p[1] \in Range(reverse) THEN internal[p[1]] ELSE p[1], p[2]>>
<1>1. PageDescription = {out(p) : p \in NativeDescription}
  BY DEF PageDescription, replaceInternalStreamId
<1>2. replaceExternalStreamId(PageDescription) = {back(p) : p \in PageDescription}
  BY DEF replaceExternalStreamId
<1>3. \A n \in attached : reverse[n] \in Range(reverse) /\ internal[reverse[n]] = n /\ pageStream(n) = {reverse[n]}
  BY DEF InternalInv, Range
<1>4. ASSUME NEW n \in attached, NEW t
      PROVE  out(<<n, t>>) = <<reverse[n], t>> /\ back(<<reverse[n], t>>) = <<n, t>>
  BY <1>3
<1>5. \A p \in NativeDescription : \E n \in attached : \E t \in content[n] : p = <<n, t>>
  BY DEF NativeDescription
<1>6. \A n \in attached : \A t \in content[n] : <<n, t>> \in NativeDescription
  BY DEF NativeDescription
<1> HIDE DEF out, back, pageStream
<1>7. \A p : p \in PageDescription <=> \E n \in attached : \E t \in content[n] : p = <<reverse[n], t>>
  <2>1. ASSUME NEW p \in PageDescription
        PROVE  \E n \in attached : \E t \in content[n] : p = <<reverse[n], t>>
    <3>1. PICK q \in NativeDescription : p = out(q)
      BY <1>1
    <3>2. PICK n \in attached : \E t \in content[n] : q = <<n, t>>
      BY <1>5
    <3>3. PICK t \in content[n] : q = <<n, t>>
      BY <3>2
    <3> QED BY <1>4, <3>1, <3>3
  <2>2. ASSUME NEW n \in attached, NEW t \in content[n]
        PROVE  <<reverse[n], t>> \in PageDescription
    <3>1. <<n, t>> \in NativeDescription /\ out(<<n, t>>) = <<reverse[n], t>>
      BY <1>4, <1>6
    <3> QED BY <1>1, <3>1
  <2> QED BY <2>1, <2>2
<1>8. replaceExternalStreamId(PageDescription) = NativeDescription
  <2>1. \A q : q \in {back(p) : p \in PageDescription} <=> \E n \in attached : \E t \in content[n] : q = <<n, t>>
    <3>1. ASSUME NEW p \in PageDescription
          PROVE  \E n \in attached : \E t \in content[n] : back(p) = <<n, t>>
      <4>1. PICK n \in attached : \E t \in content[n] : p = <<reverse[n], t>>
        BY <1>7
      <4>2. PICK t \in content[n] : p = <<reverse[n], t>>
        BY <4>1
      <4> QED BY <1>4, <4>2
    <3>2. ASSUME NEW n \in attached, NEW t \in content[n]
          PROVE  <<n, t>> \in {back(p) : p \in PageDescription}
      <4>1. <<reverse[n], t>> \in PageDescription /\ back(<<reverse[n], t>>) = <<n, t>>
        BY <1>4, <1>7
      <4> QED BY <4>1
    <3> QED BY <3>1, <3>2
  <2>2. \A q : q \in {back(p) : p \in PageDescription} <=> q \in NativeDescription
    BY <1>5, <1>6, <2>1
  <2> QED BY <1>2, <2>2
<1>9. ASSUME NEW n \in attached, NEW t \in content[n]
      PROVE  t \in dtmf /\ t \in reverse[n]
  BY DEF InternalInv
<1>10. ASSUME NEW n \in attached, NEW t \in dtmf, t \in reverse[n]
       PROVE  t \in content[n]
  <2>1. PICK m \in DOMAIN content : t \in content[m]
    BY DEF InternalInv
  <2>2. m \in DOMAIN reverse /\ t \in reverse[m] /\ reverse[m] \in Streams /\ reverse[n] \in Streams
    BY <2>1 DEF InternalInv
  <2>3. reverse[m] = reverse[n]
    BY <1>10, <2>2, StreamsFacts
  <2>4. m = n
    BY <2>2, <2>3 DEF InternalInv
  <2> QED BY <2>1, <2>4
<1> DEFINE named == {p \in {reverse[n] : n \in attached} \X dtmf : p[2] \in p[1]}
<1>11. ASSUME NEW p \in PageDescription PROVE p \in named
  <2>1. PICK n \in attached : \E t \in content[n] : p = <<reverse[n], t>>
    BY <1>7
  <2>2. PICK t \in content[n] : p = <<reverse[n], t>>
    BY <2>1
  <2> QED BY <1>9, <2>2
<1>12. ASSUME NEW p \in named PROVE p \in PageDescription
  <2>1. PICK n \in attached : p[1] = reverse[n]
    OBVIOUS
  <2>2. p[2] \in dtmf /\ p[2] \in reverse[n] /\ p = <<reverse[n], p[2]>>
    BY <2>1
  <2>3. p[2] \in content[n]
    BY <1>10, <2>2
  <2> QED BY <1>7, <2>2, <2>3
<1> QED BY <1>8, <1>11, <1>12

(* A new internal stream for one that had none.                              *)
LEMMA InternalAdded ==
  ASSUME InternalInv, NEW S \in Streams, NEW T, T \subseteq S, T # {}, T \cap dtmf = {},
         S \notin DOMAIN internal, NewStream(S, T), SendersWith(T)
  PROVE  InternalInv'
<1>1. PICK n \in InternalIds \ DOMAIN reverse :
        /\ internal' = With(internal, S, n) /\ reverse' = With(reverse, n, S)
        /\ content' = With(content, n, T) /\ attached' = attached \cup {n}
  BY DEF NewStream
<1>2. /\ Mapping(internal') /\ Mapping(reverse') /\ Mapping(content')
      /\ DOMAIN internal' = DOMAIN internal \cup {S} /\ internal'[S] = n
      /\ DOMAIN reverse' = DOMAIN reverse \cup {n} /\ reverse'[n] = S
      /\ DOMAIN content' = DOMAIN content \cup {n} /\ content'[n] = T
  BY <1>1 DEF With, Mapping
<1>3. /\ \A U \in DOMAIN internal : internal'[U] = internal[U]
      /\ \A m \in DOMAIN reverse : reverse'[m] = reverse[m] /\ content'[m] = content[m]
  BY <1>1 DEF With, InternalInv
<1>4. dtmf' = dtmf \cup T
  BY DEF SendersWith
<1>5. \A t : t \in dtmf' <=> \E m \in DOMAIN content' : t \in content'[m]
  BY <1>2, <1>3, <1>4 DEF InternalInv
<1>6. /\ DOMAIN internal' \subseteq Streams /\ DOMAIN content' = DOMAIN reverse' /\ attached' = DOMAIN reverse'
  BY <1>1, <1>2 DEF InternalInv
<1>7. \A U \in DOMAIN internal' : internal'[U] \in DOMAIN reverse' /\ reverse'[internal'[U]] = U
  BY <1>1, <1>2, <1>3 DEF InternalInv
<1>8. \A m \in DOMAIN reverse' :
        /\ reverse'[m] \in DOMAIN internal' /\ internal'[reverse'[m]] = m
        /\ content'[m] \subseteq reverse'[m] /\ content'[m] # {}
  <2> TAKE m \in DOMAIN reverse'
  <2>1. CASE m = n
    BY <1>2, <2>1
  <2>2. CASE m # n
    <3>1. m \in DOMAIN reverse
      BY <1>2, <2>2
    <3> QED BY <1>2, <1>3, <3>1 DEF InternalInv
  <2> QED BY <2>1, <2>2
<1> QED BY <1>2, <1>5, <1>6, <1>7, <1>8 DEF InternalInv

(* One internal stream gains or loses tracks, but not all.                   *)
LEMMA InternalChanged ==
  ASSUME InternalInv, NEW n \in DOMAIN reverse, NEW T, T \subseteq reverse[n], T # {},
         content' = [content EXCEPT ![n] = T], UNCHANGED <<internal, reverse, attached>>,
         \A t : t \in dtmf' <=> t \in T \/ (t \in dtmf /\ t \notin content[n])
  PROVE  InternalInv'
<1>1. /\ DOMAIN content' = DOMAIN content /\ content'[n] = T /\ Mapping(content')
      /\ \A m \in DOMAIN content : m # n => content'[m] = content[m]
  <2>1. Mapping(content) /\ n \in DOMAIN content
    BY DEF InternalInv
  <2> QED BY <2>1 DEF Mapping
<1>2. ASSUME NEW t \in dtmf, t \notin content[n]
      PROVE  \E m \in DOMAIN content : m # n /\ t \in content[m]
  BY <1>2 DEF InternalInv
<1>3. ASSUME NEW m \in DOMAIN content, m # n, NEW t \in content[m]
      PROVE  t \in dtmf /\ t \notin content[n]
  <2>1. t \in dtmf
    BY DEF InternalInv
  <2>2. ASSUME t \in content[n] PROVE FALSE
    <3>1. t \in reverse[m] /\ t \in reverse[n] /\ reverse[m] \in Streams /\ reverse[n] \in Streams
      BY <1>3, <2>2 DEF InternalInv
    <3>2. reverse[m] = reverse[n]
      BY <3>1, StreamsFacts
    <3> QED BY <1>3, <3>2 DEF InternalInv
  <2> QED BY <2>1, <2>2
<1>4. \A t : t \in dtmf' <=> \E m \in DOMAIN content' : t \in content'[m]
  <2> TAKE t
  <2>1. ASSUME t \in dtmf' PROVE \E m \in DOMAIN content' : t \in content'[m]
    <3>1. CASE t \in T
      BY <1>1, <3>1 DEF InternalInv
    <3>2. CASE t \notin T
      BY <1>1, <1>2, <2>1, <3>2
    <3> QED BY <3>1, <3>2
  <2>2. ASSUME NEW m \in DOMAIN content', t \in content'[m] PROVE t \in dtmf'
    <3>1. CASE m = n
      BY <1>1, <2>2, <3>1
    <3>2. CASE m # n
      BY <1>1, <1>3, <2>2, <3>2
    <3> QED BY <3>1, <3>2
  <2> QED BY <2>1, <2>2
<1>5. \A m \in DOMAIN reverse : content'[m] \subseteq reverse[m] /\ content'[m] # {}
  BY <1>1 DEF InternalInv
<1> QED BY <1>1, <1>4, <1>5 DEF InternalInv

(* A stream goes with its internal one; one without is left alone.           *)
LEMMA InternalDropped ==
  ASSUME InternalInv, NEW S \in Streams, OldDrop(S)
  PROVE  /\ InternalInv' /\ (queued => queued')
         /\ UNCHANGED <<internal, reverse, content, attached, dtmf>> \/ queued'
<1> DEFINE ns == {internal[U] : U \in {S} \cap DOMAIN internal}
<1>1. /\ attached' = attached \ ns /\ reverse' = Without(reverse, ns) /\ content' = Without(content, ns)
      /\ internal' = Without(internal, {S}) /\ dtmf' = dtmf \ S /\ queued' = (queued \/ ns # {})
  BY DEF OldDrop, SendersWithout
<1>2. /\ Mapping(internal') /\ Mapping(reverse') /\ Mapping(content')
      /\ DOMAIN internal' = DOMAIN internal \ {S} /\ DOMAIN reverse' = DOMAIN reverse \ ns
      /\ DOMAIN content' = DOMAIN content \ ns
      /\ \A U \in DOMAIN internal' : internal'[U] = internal[U]
      /\ \A m \in DOMAIN reverse' : reverse'[m] = reverse[m]
      /\ \A m \in DOMAIN content' : content'[m] = content[m]
  BY <1>1 DEF Without, Restrict, Mapping
<1>3. \A m \in DOMAIN reverse : m \in ns <=> reverse[m] = S
  BY DEF InternalInv
<1> HIDE DEF ns
<1>4. ASSUME NEW m \in DOMAIN content, NEW t \in content[m] PROVE t \in S <=> m \in ns
  <2>1. t \in reverse[m] /\ reverse[m] \in Streams
    BY DEF InternalInv
  <2>2. t \in S <=> reverse[m] = S
    BY <2>1, StreamsFacts
  <2> QED BY <1>3, <2>2 DEF InternalInv
<1>5. \A t : t \in dtmf' <=> \E m \in DOMAIN content' : t \in content'[m]
  BY <1>1, <1>2, <1>4 DEF InternalInv
<1>6. /\ DOMAIN internal' \subseteq Streams /\ DOMAIN content' = DOMAIN reverse' /\ attached' = DOMAIN reverse'
  BY <1>1, <1>2 DEF InternalInv
<1>7. \A U \in DOMAIN internal' : internal'[U] \in DOMAIN reverse' /\ reverse'[internal'[U]] = U
  BY <1>2, <1>3 DEF InternalInv
<1>8. \A m \in DOMAIN reverse' :
        /\ reverse'[m] \in DOMAIN internal' /\ internal'[reverse'[m]] = m
        /\ content'[m] \subseteq reverse'[m] /\ content'[m] # {}
  BY <1>2, <1>3 DEF InternalInv
<1>9. InternalInv'
  BY <1>2, <1>5, <1>6, <1>7, <1>8 DEF InternalInv
<1>10. CASE ns # {}
  BY <1>1, <1>9, <1>10
<1>11. CASE ns = {}
  <2>1. S \notin DOMAIN internal
    BY <1>11 DEF ns
  <2>2. internal' = internal /\ reverse' = reverse /\ content' = content
    BY <1>2, <1>11, <2>1 DEF InternalInv, Mapping
  <2>3. dtmf' = dtmf
    BY <1>5, <2>2 DEF InternalInv
  <2>4. UNCHANGED attached
    BY <1>1, <1>11
  <2> QED BY <1>1, <1>9, <2>2, <2>3, <2>4
<1> QED BY <1>10, <1>11

(* The offer is renewed, or asked for, or what it describes has not changed. *)
LEMMA OldKept ==
  ASSUME InternalInv, OfferInv,
         \/ \E S \in Streams : OldAddStream(S)
         \/ \E S \in Streams, t \in Tracks : OldAddTrack(t, S)
         \/ \E S \in Streams : OldRemoveStream(S)
         \/ \E t \in Tracks : OldRemoveTrack(t)
         \/ OldCreateOffer \/ OldNegotiationNeeded \/ OldSignaling
  PROVE  InternalInv' /\ OfferInv'
<1>1. ASSUME NEW S \in Streams, OldAddStream(S) PROVE InternalInv' /\ OfferInv'
  <2>1. S \cap dtmf = {} /\ NewStream(S, S) /\ SendersWith(S) /\ queued'
    BY <1>1 DEF OldAddStream
  <2>2. S \notin DOMAIN internal
    <3> SUFFICES ASSUME S \in DOMAIN internal PROVE FALSE
      OBVIOUS
    <3>1. PICK t \in content[internal[S]] : TRUE
      BY DEF InternalInv
    <3>2. t \in S /\ t \in dtmf
      BY DEF InternalInv
    <3> QED BY <2>1, <3>2
  <2>3. S \subseteq S /\ S # {}
    BY StreamsFacts
  <2>4. InternalInv'
    BY <2>1, <2>2, <2>3, InternalAdded
  <2> QED BY <2>1, <2>4 DEF OfferInv, Asked
<1>2. ASSUME NEW S \in Streams, NEW t \in Tracks, OldAddTrack(t, S) PROVE InternalInv' /\ OfferInv'
  <2>1. t \in S /\ t \notin dtmf /\ SendersWith({t}) /\ queued'
    BY <1>2 DEF OldAddTrack
  <2>2. CASE S \in DOMAIN internal
    <3> DEFINE n == internal[S]
               T == content[n] \cup {t}
    <3>1. content' = [content EXCEPT ![n] = T] /\ UNCHANGED <<internal, reverse, attached>>
      BY <1>2, <2>2 DEF OldAddTrack
    <3>2. n \in DOMAIN reverse /\ T \subseteq reverse[n] /\ T # {}
      BY <2>1, <2>2 DEF InternalInv
    <3>3. \A u : u \in dtmf' <=> u \in T \/ (u \in dtmf /\ u \notin content[n])
      BY <2>1, <3>2 DEF SendersWith, InternalInv
    <3> HIDE DEF n, T
    <3>4. InternalInv'
      BY <3>1, <3>2, <3>3, InternalChanged
    <3> QED BY <2>1, <3>4 DEF OfferInv, Asked
  <2>3. CASE S \notin DOMAIN internal
    <3>1. NewStream(S, {t}) /\ {t} \subseteq S /\ {t} # {} /\ {t} \cap dtmf = {}
      BY <1>2, <2>1, <2>3 DEF OldAddTrack
    <3>2. InternalInv'
      BY <2>1, <2>3, <3>1, InternalAdded
    <3> QED BY <2>1, <3>2 DEF OfferInv, Asked
  <2> QED BY <2>2, <2>3
<1>3. ASSUME NEW S \in Streams, OldDrop(S), offered' = offered,
             needed => needed', swallowed => swallowed'
      PROVE  InternalInv' /\ OfferInv'
  <2>1. /\ InternalInv' /\ (queued => queued')
        /\ UNCHANGED <<internal, reverse, content, attached, dtmf>> \/ queued'
    BY <1>3, InternalDropped
  <2>2. UNCHANGED <<internal, reverse, content, attached, dtmf>> => PageDescription' = PageDescription
    BY DEF PageDescription, replaceInternalStreamId, NativeDescription
  <2> QED BY <1>3, <2>1, <2>2 DEF OfferInv, Asked
<1>4. ASSUME NEW t \in Tracks, OldRemoveTrack(t) PROVE InternalInv' /\ OfferInv'
  <2>0. needed' = (needed \/ stable) /\ swallowed' = (swallowed \/ ~stable)
    BY <1>4 DEF OldRemoveTrack, Dispatch
  <2>1. PICK S \in DOMAIN internal :
          /\ t \in content[internal[S]]
          /\ IF content[internal[S]] = {t} THEN OldDrop(reverse[internal[S]])
             ELSE /\ content' = [content EXCEPT ![internal[S]] = @ \ {t}]
                  /\ SendersWithout({t})
                  /\ UNCHANGED <<internal, reverse, attached, queued>>
    BY <1>4 DEF OldRemoveTrack
  <2>2. CASE content[internal[S]] = {t}
    <3>1. reverse[internal[S]] \in Streams /\ OldDrop(reverse[internal[S]]) /\ offered' = offered
      BY <1>4, <2>1, <2>2 DEF OldRemoveTrack, InternalInv
    <3> QED BY <1>3, <2>0, <3>1
  <2>3. CASE content[internal[S]] # {t}
    <3> DEFINE n == internal[S]
               T == content[n] \ {t}
    <3>1. /\ content' = [content EXCEPT ![n] = T] /\ UNCHANGED <<internal, reverse, attached>>
          /\ dtmf' = dtmf \ {t}
      BY <2>1, <2>3 DEF SendersWithout
    <3>2. n \in DOMAIN reverse /\ T \subseteq reverse[n] /\ T # {}
      BY <2>1, <2>3 DEF InternalInv
    <3>3. \A u : u \in dtmf' <=> u \in T \/ (u \in dtmf /\ u \notin content[n])
      BY <2>1, <3>1, <3>2 DEF InternalInv
    <3> HIDE DEF n, T
    <3>4. InternalInv'
      BY <3>1, <3>2, <3>3, InternalChanged
    <3> QED BY <2>0, <3>4 DEF OfferInv, Asked
  <2> QED BY <2>2, <2>3
<1>5. CASE OldCreateOffer
  <2>1. offered' = PageDescription /\ UNCHANGED <<internal, reverse, content, attached, dtmf>>
    BY <1>5 DEF OldCreateOffer, PageDescription
  <2>2. PageDescription' = PageDescription
    BY <2>1 DEF PageDescription, replaceInternalStreamId, NativeDescription
  <2>3. InternalInv'
    BY <2>1 DEF InternalInv, Mapping
  <2> QED BY <2>1, <2>2, <2>3 DEF OfferInv
<1>6. CASE OldNegotiationNeeded \/ OldSignaling
  <2>1. UNCHANGED <<internal, reverse, content, attached, dtmf, offered>>
    BY <1>6 DEF OldNegotiationNeeded, OldSignaling
  <2>2. PageDescription' = PageDescription
    BY <2>1 DEF PageDescription, replaceInternalStreamId, NativeDescription
  <2>3. InternalInv'
    BY <2>1 DEF InternalInv, Mapping
  <2>4. Asked => Asked'
    BY <1>6 DEF OldNegotiationNeeded, OldSignaling, Dispatch, Asked
  <2> QED BY <2>1, <2>2, <2>3, <2>4 DEF OfferInv
<1> QED BY <1>1, <1>2, <1>3, <1>4, <1>5, <1>6 DEF OldRemoveStream

LEMMA StreamsStart ==
  ASSUME StreamsInit
  PROVE  StreamsInv
<1>1. InternalInv /\ OfferInv
  <2>1. InternalInv
    BY DEF StreamsInit, InternalInv, Mapping
  <2>2. PageDescription = {}
    BY DEF StreamsInit, PageDescription, replaceInternalStreamId, NativeDescription
  <2> QED BY <2>1, <2>2 DEF StreamsInit, OfferInv
<1>2. SendersOK /\ ShimmedInv /\ ListedInv
  BY DEF StreamsInit, SendersOK, ShimmedInv, SendersOf, ListedInv
<1> QED BY <1>1, <1>2 DEF StreamsInit, StreamsInv

LEMMA StreamsStep ==
  ASSUME StreamsInv, [StreamsNext]_streamVars
  PROVE  StreamsInv'
<1>1. CASE UNCHANGED streamVars
  <2>1. UNCHANGED <<browser, internal, reverse, content, attached, dtmf, queued, needed, swallowed, offered,
                  senders, shimmed, reused, listed>>
    BY <1>1 DEF streamVars, legacyVars, eventVars, nativeVars
  <2>2. /\ InternalInv' <=> InternalInv
        /\ OfferInv' <=> OfferInv
    BY <2>1 DEF InternalInv, Mapping, OfferInv, Asked, PageDescription, replaceInternalStreamId, NativeDescription
  <2>3. /\ SendersOK' <=> SendersOK
        /\ ShimmedInv' <=> ShimmedInv
        /\ ListedInv' <=> ListedInv
    BY <2>1 DEF SendersOK, ShimmedInv, SendersOf, ListedInv
  <2> QED BY <2>1, <2>2, <2>3 DEF StreamsInv
<1>2. CASE StreamsNext /\ browser = "old"
  <2>1. browser' = "old" /\ InternalInv /\ OfferInv
    BY <1>2 DEF StreamsNext, StreamsInv
  <2>2. InternalInv' /\ OfferInv'
    BY <1>2, <2>1, OldKept DEF StreamsNext
  <2> QED BY <2>1, <2>2 DEF StreamsInv
<1>3. CASE StreamsNext /\ browser = "chrome"
  <2>1. browser' = "chrome" /\ SendersOK /\ ShimmedInv
    BY <1>3 DEF StreamsNext, StreamsInv
  <2>2. CASE Negotiated
    <3>1. /\ SendersOK' /\ DOMAIN senders' = DOMAIN senders /\ shimmed' = shimmed /\ reused' = reused
          /\ \A i \in DOMAIN senders : senders'[i].stream = senders[i].stream
      BY <2>1, <2>2, SendersNegotiated DEF Negotiated
    <3>2. \A S : SendersOf(S)' = SendersOf(S)
      BY <3>1 DEF SendersOf
    <3> QED BY <2>1, <3>1, <3>2 DEF ShimmedInv, StreamsInv
  <2>3. ASSUME NEW S \in Streams, NEW t \in Tracks, t \in S, NEW U \in {S, NoStream}, ChromeAddTrack(t, U)
        PROVE  StreamsInv'
    <3>1. U \in Streams \cup {NoStream} /\ (U # NoStream => t \in U)
      BY <2>3
    <3>2. SendersOK' /\ ShimmedInv'
      BY <2>1, <2>3, <3>1, ChromeAddTrackKept
    <3> QED BY <2>1, <3>2 DEF StreamsInv
  <2>4. ASSUME NEW S \in Streams, ChromeAddStream(S) PROVE StreamsInv'
    BY <2>1, <2>4, ChromeAddStreamKept DEF StreamsInv
  <2>5. ASSUME NEW S \in Streams, ChromeRemoveStream(S) PROVE StreamsInv'
    BY <2>1, <2>5, ChromeRemoveStreamKept DEF StreamsInv
  <2>6. ASSUME NEW i \in DOMAIN senders, ChromeRemoveTrack(i) PROVE StreamsInv'
    BY <2>1, <2>6, ChromeRemoveTrackKept DEF StreamsInv
  <2> QED BY <1>3, <2>2, <2>3, <2>4, <2>5, <2>6 DEF StreamsNext
<1>4. CASE StreamsNext /\ browser = "safari"
  <2>1. browser' = "safari" /\ SendersOK /\ ListedInv
    BY <1>4 DEF StreamsNext, StreamsInv
  <2>2. CASE Negotiated
    BY <2>1, <2>2, SendersNegotiated DEF Negotiated, ListedInv, StreamsInv
  <2>3. CASE \/ \E S \in Streams, t \in Tracks : t \in S /\ \E U \in {S, NoStream} : SafariAddTrack(t, U)
             \/ \E S \in Streams : SafariAddStream(S)
             \/ \E S \in Streams : SafariRemoveStream(S)
             \/ \E i \in DOMAIN senders : SafariRemoveTrack(i)
    BY <2>1, <2>3, SafariKept DEF StreamsInv
  <2> QED BY <1>4, <2>2, <2>3 DEF StreamsNext
<1> QED BY <1>1, <1>2, <1>3, <1>4 DEF StreamsInv

LEMMA StreamsAgree ==
  ASSUME StreamsInv
  PROVE  StreamsMatch
<1> DEFINE sent == {senders[i].stream : i \in Sending(Tracks)} \ {NoStream}
<1>1. ASSUME browser = "old"
      PROVE  /\ DOMAIN reverse = Range(internal) /\ attached = DOMAIN reverse
             /\ \A S \in DOMAIN internal : reverse[internal[S]] = S
             /\ dtmf = UNION Range(content)
             /\ PageDescription = {p \in getLocalStreams \X dtmf : p[2] \in p[1]}
             /\ replaceExternalStreamId(PageDescription) = NativeDescription
             /\ offered # PageDescription => needed \/ queued \/ swallowed
  <2>1. InternalInv /\ OfferInv
    BY <1>1 DEF StreamsInv
  <2>2. getLocalStreams = {reverse[n] : n \in attached}
    BY <1>1 DEF getLocalStreams
  <2>3. /\ PageDescription = {p \in getLocalStreams \X dtmf : p[2] \in p[1]}
        /\ replaceExternalStreamId(PageDescription) = NativeDescription
    BY <2>1, <2>2, DescriptionTranslated
  <2>4. DOMAIN reverse = Range(internal)
    BY <2>1 DEF InternalInv, Range
  <2>5. dtmf = UNION Range(content)
    BY <2>1 DEF InternalInv, Range
  <2> QED BY <2>1, <2>3, <2>4, <2>5 DEF InternalInv, OfferInv, Asked
<1>2. ASSUME browser = "chrome"
      PROVE  sent \ reused = getLocalStreams \ reused
  <2>1. SendersOK /\ ShimmedInv /\ getLocalStreams = DOMAIN shimmed
    BY <1>2 DEF StreamsInv, getLocalStreams
  <2>2. ASSUME NEW S \in sent, S \notin reused PROVE S \in DOMAIN shimmed
    <3>1. PICK i \in Sending(Tracks) : senders[i].stream = S /\ S # NoStream
      BY <2>2
    <3>2. i \in DOMAIN senders /\ S \in Streams
      <4>1. i \in DOMAIN senders
        BY <3>1 DEF Sending
      <4>2. senders[i] \in Sender
        BY <2>1, <4>1 DEF SendersOK
      <4> QED BY <3>1, <4>1, <4>2 DEF Sender
    <3>3. SendersOf(S) # {}
      BY <3>1, <3>2 DEF SendersOf
    <3> QED BY <2>1, <2>2, <3>2, <3>3 DEF ShimmedInv
  <2>3. ASSUME NEW S \in DOMAIN shimmed, S \notin reused PROVE S \in sent
    <3>1. S \in Streams /\ SendersOf(S) # {}
      BY <2>1, <2>3 DEF ShimmedInv
    <3>2. PICK i \in DOMAIN senders : senders[i].stream = S
      BY <3>1 DEF SendersOf
    <3>3. S # NoStream /\ senders[i].track \in Tracks
      BY <2>1, <3>1, <3>2, StreamsFacts DEF SendersOK
    <3> QED BY <3>2, <3>3 DEF Sending
  <2> QED BY <2>1, <2>2, <2>3
<1>3. ASSUME browser = "safari"
      PROVE  sent \subseteq getLocalStreams
  <2>1. ListedInv /\ getLocalStreams = listed
    BY <1>3 DEF StreamsInv, getLocalStreams
  <2> QED BY <2>1 DEF ListedInv, Sending
<1> QED BY <1>1, <1>2, <1>3 DEF StreamsMatch, PageDescription

(* shimAddTrackRemoveTrack, shimAddTrackRemoveTrackWithNative and Safari's   *)
(* shimLocalStreamsAPI keep account of what is sent: for any streams and     *)
(* tracks and any sequence of adding, removing and negotiating, what         *)
(* getLocalStreams tells agrees with the senders, descriptions name the      *)
(* page's streams, and a new offer is asked for when the last one no longer  *)
(* holds, unless the event came outside the stable state.                    *)
THEOREM StreamsAlwaysMatch == StreamsInit /\ [][StreamsNext]_streamVars => []StreamsMatch
<1>1. StreamsInit => StreamsInv
  BY StreamsStart
<1>2. StreamsInv /\ [StreamsNext]_streamVars => StreamsInv'
  BY StreamsStep
<1>3. StreamsInv => StreamsMatch
  BY StreamsAgree
<1> QED
  BY <1>1, <1>2, <1>3, PTL

(* Of a connection whose streams are added and removed as one may and whose  *)
(* encodings are set as one may, what is sent is what the page asked for:    *)
(* shimAddTrackRemoveTrack and shimAddTransceiver keep account of it.        *)
THEOREM LocalMediaAlwaysKept ==
  /\ StreamsInit /\ [][StreamsNext]_streamVars
  /\ EncodingsInit /\ [][EncodingsNext]_encodingVars
  => []LocalMediaKept
<1>1. StreamsMatch /\ EncodingsWaited => LocalMediaKept
  BY DEF LocalMediaKept
<1> QED
  BY <1>1, StreamsAlwaysMatch, EncodingsAlwaysWaited, PTL

=============================================================================
