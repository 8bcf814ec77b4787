------------------------------ MODULE Console ------------------------------
(* The console (console/js/srs.console.js) and its refresher AsyncRefresh2   *)
(* (console/js/winlin.utility.js), a singleton that all pages share. Every   *)
(* route change runs the controller of the new page; answers to requests of  *)
(* pages that were left still run their callbacks. calls[k] is the k-th      *)
(* __call object made by refresh_change, calls[Len(calls)] the current one.  *)
EXTENDS Integers, Sequences, FiniteSets

CONSTANTS MaxViews,   \* bound: route changes
          MaxRequests \* bound: requests to the API server

ASSUME ConsoleAssumption == MaxViews \in Nat \ {0} /\ MaxRequests \in Nat

View == 1 .. MaxViews
Page == {"connect", "summaries", "vhosts", "vhost", "streams", "stream",
         "clients", "client", "configs"}
Polling == {"summaries", "vhosts", "clients"} \* poll from their controller on
Request == [view : View, what : {"load", "vhosts", "raw", "detail", "owner", "delete", "version"},
            id : 1 .. MaxRequests]
Call == [owner : View \cup {0}, enabled : BOOLEAN, timer : BOOLEAN] \* owner 0: no function
NoSample == 0

VARIABLES
  pages,    \* the pages visited; the last one is on screen
  calls,    \* [owner, enabled, timer] of every __call object
  flight,   \* requests without an answer
  issued,   \* number of requests so far; a request's id tells when it was made
  data,     \* the load whose data each page shows
  kbps,     \* summaries: baseline pre_kbps and the rates shown
  failed,   \* pages one of whose loads failed
  logs      \* number of messages on screen

vars == <<pages, calls, flight, issued, data, kbps, failed, logs>>

NoKbps == [pre |-> NoSample, initialized |-> FALSE, over |-> 0]

TypeOK ==
  /\ pages \in Seq(Page) /\ Len(pages) <= MaxViews
  /\ calls \in Seq(Call) /\ calls # <<>>
  /\ flight \subseteq Request
  /\ issued \in 0 .. MaxRequests
  /\ data \in [View -> 0 .. MaxRequests]
  /\ kbps \in [View -> [pre : 0 .. MaxRequests, initialized : BOOLEAN,
                        over : -MaxRequests .. MaxRequests]]
  /\ failed \subseteq View
  /\ logs \in 0 .. 3

Init ==
  /\ pages = <<>>
  /\ calls = <<[owner |-> 0, enabled |-> FALSE, timer |-> FALSE]>>
  /\ flight = {} /\ issued = 0
  /\ data = [v \in View |-> 0]
  /\ kbps = [v \in View |-> NoKbps]
  /\ failed = {}
  /\ logs = 0

current == Len(calls)
view == Len(pages)

-----------------------------------------------------------------------------
(* AsyncRefresh2                                                             *)

Stop(cs) == [cs EXCEPT ![Len(cs)].enabled = FALSE]

(* Mutant: the former call stays enabled.                                    *)
KeptRefreshChange(cs, v) == Append(cs, [owner |-> v, enabled |-> TRUE, timer |-> FALSE])

(* The former call is disabled; its timer is meant to be cleared but the     *)
(* code clears this.__handler, which does not exist, so the timer stays.     *)
RefreshChange(cs, v) ==
  Append(Stop(cs), [owner |-> v, enabled |-> TRUE, timer |-> FALSE])

(* Mutant: a timer that is pending is cleared and not set again.             *)
ToggledAgain(cs) ==
  [cs EXCEPT ![Len(cs)].timer = cs[Len(cs)].owner # 0 /\ ~cs[Len(cs)].timer]

(* request(): the timer of the current call is cleared and set again, unless *)
(* the call has no function.                                                 *)
Again(cs) == [cs EXCEPT ![Len(cs)].timer = cs[Len(cs)].owner # 0]

-----------------------------------------------------------------------------
(* Requests, answers and messages                                            *)

Ask(v, whats) ==
  /\ issued + Cardinality(whats) <= MaxRequests
  /\ issued' = issued + Cardinality(whats)
  /\ \E number \in [whats -> issued + 1 .. issued + Cardinality(whats)] :
       /\ \A a, b \in whats : a # b => number[a] # number[b]
       /\ flight' = flight \cup {[view |-> v, what |-> w, id |-> number[w]] : w \in whats}

(* $sc_utility_log keeps the last three messages.                            *)
Log == logs' = (IF logs > 2 THEN 2 ELSE logs) + 1

(* Every three seconds one expired message is removed.                       *)
ExpireLog ==
  /\ logs > 0
  /\ logs' = logs - 1
  /\ UNCHANGED <<pages, calls, flight, issued, data, kbps, failed>>

(* The controllers, run by a route change. Polling pages install and start   *)
(* their function; streams does so only when its list of vhosts arrives; the *)
(* other pages stop the refresher and ask for what they show.                *)
ConnectPage(v) == calls' = Stop(calls) /\ UNCHANGED <<flight, issued, logs>>
PollingPage(v) ==
  /\ calls' = Again(RefreshChange(calls, v))
  /\ Log /\ UNCHANGED <<flight, issued>>
StreamsPage(v) == Ask(v, {"raw", "vhosts"}) /\ Log /\ UNCHANGED calls
StreamPage(v) == calls' = Stop(calls) /\ Ask(v, {"raw", "detail"}) /\ Log
DetailPage(v) == calls' = Stop(calls) /\ Ask(v, {"detail"}) /\ Log
ConfigsPage(v) == calls' = Stop(calls) /\ Ask(v, {"raw"}) /\ Log

Visit(p) ==
  /\ view < MaxViews
  /\ pages' = Append(pages, p)
  /\ LET v == view + 1 IN
       \/ p = "connect" /\ ConnectPage(v)
       \/ p \in Polling /\ PollingPage(v)
       \/ p = "streams" /\ StreamsPage(v)
       \/ p = "stream" /\ StreamPage(v)
       \/ p \in {"vhost", "client"} /\ DetailPage(v)
       \/ p = "configs" /\ ConfigsPage(v)
  /\ UNCHANGED <<data, kbps, failed>>

(* Buttons: connect asks for the version, kickoff deletes a client.          *)
Press(what) ==
  /\ view # 0
  /\ \/ what = "version" /\ pages[view] = "connect"
     \/ what = "delete" /\ pages[view] \in {"streams", "stream", "clients", "client"}
  /\ Ask(view, {what})
  /\ UNCHANGED <<pages, calls, data, kbps, failed, logs>>

(* A timer goes off. A call that refresh_change or stop disabled is ignored, *)
(* otherwise its function loads the data of the page that installed it.      *)
Fire(k) ==
  /\ calls[k].timer
  /\ calls' = [calls EXCEPT ![k].timer = FALSE]
  /\ IF calls[k].enabled THEN Ask(calls[k].owner, {"load"})
                         ELSE UNCHANGED <<flight, issued>>
  /\ UNCHANGED <<pages, data, kbps, failed, logs>>

(* CSCSummary: rates are measured from the baseline pre_kbps; the baseline   *)
(* moves for the first two samples, then when it is 20 s old (here: two      *)
(* requests). over is the interval of the rates shown, 0 when they are zero. *)
SummaryRates(k, sample) ==
  LET diff == sample - k.pre
      next == [pre |-> sample, initialized |-> k.pre # NoSample,
               over |-> IF k.pre # NoSample /\ diff > 0 THEN diff ELSE 0]
  IN IF k.pre = NoSample \/ ~k.initialized \/ diff >= 2 THEN next ELSE k

(* Answer to a load: the page shows the data and asks the refresher, which   *)
(* by now may work for another page, to go on.                               *)
OnLoad(r) ==
  /\ r.what = "load"
  /\ data' = [data EXCEPT ![r.view] = r.id]
  /\ kbps' = IF pages[r.view] = "summaries"
               THEN [kbps EXCEPT ![r.view] = SummaryRates(@, r.id)] ELSE kbps
  /\ calls' = Again(calls)
  /\ flight' = flight \ {r}
  /\ UNCHANGED <<pages, issued, failed, logs>>

(* CSCStreams gets its vhosts: it installs its function, whatever page is on *)
(* screen by now.                                                            *)
OnVhosts(r) ==
  /\ r.what = "vhosts"
  /\ calls' = Again(RefreshChange(calls, r.view))
  /\ Log
  /\ flight' = flight \ {r}
  /\ UNCHANGED <<pages, issued, data, kbps, failed>>

(* CSCStream gets its stream and asks for the vhost that owns it.            *)
OnStream(r) ==
  /\ r.what = "detail" /\ pages[r.view] = "stream"
  /\ issued < MaxRequests /\ issued' = issued + 1
  /\ flight' = (flight \ {r}) \cup {[view |-> r.view, what |-> "owner", id |-> issued + 1]}
  /\ Log
  /\ UNCHANGED <<pages, calls, data, kbps, failed>>

OnDetail(r) ==
  /\ \/ r.what = "owner"
     \/ r.what = "raw"
     \/ r.what = "detail" /\ pages[r.view] # "stream"
  /\ data' = IF r.what # "raw" \/ pages[r.view] = "configs"
               THEN [data EXCEPT ![r.view] = r.id] ELSE data
  /\ flight' = flight \ {r}
  /\ UNCHANGED <<pages, calls, issued, kbps, failed, logs>>

OnDeleted(r) ==
  /\ r.what = "delete"
  /\ Log
  /\ flight' = flight \ {r}
  /\ UNCHANGED <<pages, calls, issued, data, kbps, failed>>

(* connect() succeeded: a message, and the route changes to the summaries.   *)
OnVersion(r) ==
  /\ r.what = "version" /\ view < MaxViews
  /\ pages' = Append(pages, "summaries")
  /\ flight' = flight \ {r}
  /\ calls' = Again(RefreshChange(calls, view + 1))
  /\ logs' = IF logs = 0 THEN 2 ELSE 3 \* two messages
  /\ UNCHANGED <<issued, data, kbps, failed>>

(* An error code or an HTTP error: MHttpInterceptor reports it, rejects the  *)
(* promise, and the callback never runs. When the server cannot be reached   *)
(* there is no response at all and the handler throws at response.code       *)
(* before it logs.                                                           *)
OnError(r, how) ==
  /\ flight' = flight \ {r}
  /\ failed' = IF r.what = "load" THEN failed \cup {r.view} ELSE failed
  /\ CASE how = "unreachable" -> UNCHANGED logs
       [] how = "refused" -> Log
  /\ UNCHANGED <<pages, calls, issued, data, kbps>>

Answer(r) ==
  \/ OnLoad(r) \/ OnVhosts(r) \/ OnStream(r) \/ OnDetail(r) \/ OnDeleted(r) \/ OnVersion(r)
  \/ \E how \in {"unreachable", "refused"} : OnError(r, how)

Next ==
  \/ \E p \in Page : Visit(p)
  \/ \E what \in {"version", "delete"} : Press(what)
  \/ \E k \in 1 .. current : Fire(k)
  \/ \E r \in flight : Answer(r)
  \/ ExpireLog

Spec == Init /\ [][Next]_vars

-----------------------------------------------------------------------------
(* Only the current call may start loads: the timers that refresh_change     *)
(* forgets to clear, and requests of pages that were left, never call the    *)
(* function of an old page.                                                  *)
OldCallsDisabled == \A k \in 1 .. current - 1 : ~calls[k].enabled

(* The refresh of a page on screen never stops by itself: while the current  *)
(* call is its own, there is a load under way or a timer for the next one,   *)
(* unless one of its loads failed (nothing retries then).                    *)
LoopAlive ==
  LET c == calls[current] IN
  c.enabled /\ c.owner \notin failed =>
    c.timer \/ \E r \in flight : r.view = c.owner /\ r.what = "load"

(* A page that polls loses the refresher only to a streams page whose vhosts *)
(* came late; no other late answer takes it away.                            *)
OnlyStreamsTakesOver ==
  view # 0 /\ pages[view] \in Polling =>
    \/ calls[current].owner = view /\ calls[current].enabled
    \/ calls[current].owner # 0 /\ pages[calls[current].owner] = "streams"

(* Rates are never measured backwards in time, although a late answer may    *)
(* put two loads of the summary under way that are answered out of order.    *)
RatesForward == \A v \in View : kbps[v].over >= 0

(* A late answer of a page that is gone does no harm to the page shown: it   *)
(* keeps the refresher, unless the streams page takes it, and the rates      *)
(* stay measured forwards.                                                   *)
LateAnswersHarmless == OnlyStreamsTakesOver /\ RatesForward

=============================================================================
