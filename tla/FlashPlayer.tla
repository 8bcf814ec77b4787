---------------------------- MODULE FlashPlayer ----------------------------
(* The Flash player and publisher objects (players/js/srs.player.js,         *)
(* srs.publisher.js). The plugin calls global functions with the id of the   *)
(* object, which look it up in the lists SrsPlayer.__players and             *)
(* SrsPublisher.__publishers. Time is the plugin's relative clock; buffer    *)
(* times are in twentieths of a second.                                      *)
EXTENDS Naturals, Sequences, SequencesExt

CONSTANTS Ids,       \* players, and publishers, of the page
          MaxEntries, \* bound: entries of a list
          MaxTime,   \* bound: clock
          BufferTimes \* what set_bt and set_mbt are called with

ASSUME FlashAssumption ==
  /\ MaxEntries \in Nat /\ MaxTime \in Nat
  /\ BufferTimes \subseteq Nat

VARIABLES
  plist,    \* SrsPlayer.__players, ids in order
  blist,    \* SrsPublisher.__publishers
  waiting,  \* publishers the plugin may still report an error of
  notFound, \* lookups that threw "player not found"
  clock, empties, emptyTime, emptySince, \* __fluency of one player
  bt, mbt   \* buffer_time, max_buffer_time

flashVars == <<plist, blist, waiting, notFound, clock, empties, emptyTime, emptySince, bt, mbt>>
fluency == <<clock, empties, emptyTime, emptySince>>
buffers == <<bt, mbt>>

FlashTypeOK ==
  /\ plist \in Seq(Ids) /\ blist \in Seq(Ids)
  /\ waiting \subseteq Ids /\ notFound \subseteq Ids
  /\ clock \in 0 .. MaxTime /\ empties \in 0 .. MaxTime
  /\ emptyTime \in Nat /\ emptySince \in 0 .. MaxTime
  /\ bt \in Nat /\ mbt \in Nat

FlashInit ==
  /\ plist = <<>> /\ blist = <<>> /\ waiting = {} /\ notFound = {}
  /\ clock = 0 /\ empties = 0 /\ emptyTime = 0 /\ emptySince = 0
  /\ bt = 6 /\ mbt = 18

Has(list, id) == Contains(list, id)

-----------------------------------------------------------------------------
(* new SrsPlayer registers it; play() stops it and registers it once more.   *)
NewPlayer(id) ==
  /\ ~Has(plist, id)
  /\ plist' = Append(plist, id)
  /\ UNCHANGED <<blist, waiting, notFound, fluency, buffers>>

Play(id) ==
  /\ Has(plist, id) /\ Len(plist) < MaxEntries
  /\ plist' = Append(plist, id)
  /\ UNCHANGED <<blist, waiting, notFound, fluency, buffers>>

(* __srs_on_player_status("closed"): the entry to remove is looked up by the *)
(* id of `this`, the window, so that none is ever removed.                   *)
PlayerClosed(id) ==
  /\ Has(plist, id)
  /\ plist' = plist
  /\ UNCHANGED <<blist, waiting, notFound, fluency, buffers>>

(* Every callback of the plugin starts with the lookup.                      *)
PlayerCallback(id) ==
  /\ Has(plist, id)
  /\ notFound' = notFound \cup ({id} \ {plist[i] : i \in DOMAIN plist})
  /\ UNCHANGED <<plist, blist, waiting, fluency, buffers>>

(* new SrsPublisher, stop() and publish(), which stops first.                *)
NewPublisher(id) ==
  /\ ~Has(blist, id) /\ id \notin waiting
  /\ blist' = Append(blist, id)
  /\ UNCHANGED <<plist, waiting, notFound, fluency, buffers>>

StopPublisher(id) ==
  /\ id \in waiting
  /\ blist' = RemoveFirst(blist, id)
  /\ UNCHANGED <<plist, waiting, notFound, fluency, buffers>>

Publish(id) ==
  /\ Has(blist, id) \/ id \in waiting
  /\ blist' = Append(RemoveFirst(blist, id), id)
  /\ waiting' = waiting \cup {id}
  /\ UNCHANGED <<plist, notFound, fluency, buffers>>

(* __srs_on_publisher_error: a report that comes after stop() finds nothing. *)
PublisherError(id) ==
  /\ id \in waiting
  /\ notFound' = IF Has(blist, id) THEN notFound ELSE notFound \cup {id}
  /\ UNCHANGED <<plist, blist, waiting, fluency, buffers>>

-----------------------------------------------------------------------------
Tick ==
  /\ clock < MaxTime
  /\ clock' = clock + 1
  /\ UNCHANGED <<plist, blist, waiting, notFound, empties, emptyTime, emptySince, buffers>>

(* NetStream.Buffer.Empty and .Full.                                         *)
on_stream_empty ==
  /\ empties < MaxTime
  /\ empties' = empties + 1
  /\ emptySince' = clock
  /\ UNCHANGED <<plist, blist, waiting, notFound, clock, emptyTime, buffers>>

on_stream_full ==
  /\ emptySince > 0
  /\ emptyTime' = emptyTime + clock - emptySince
  /\ emptySince' = 0
  /\ UNCHANGED <<plist, blist, waiting, notFound, clock, empties, buffers>>

calc(time) ==
  LET den == empties * 4 + emptyTime * 2 + time
  IN IF den > 0 THEN (time * 100) \div den ELSE 0

(* Mutant: the buffer time is no lower limit.                                *)
LowSetMbt(b, old, wanted) ==
  LET new == Max({12, wanted})
  IN IF old \div 2 = new \div 2 THEN old ELSE new

(* set_mbt: at least 0.6 s and at least the buffer time; a change of less    *)
(* than a tenth of a second is not passed on.                                *)
SetMbt(b, old, wanted) ==
  LET new == Max({12, b, wanted})
  IN IF old \div 2 = new \div 2 THEN old ELSE new

set_bt(t) ==
  /\ t # bt
  /\ bt' = t
  /\ mbt' = SetMbt(t, mbt, 3 * t)
  /\ UNCHANGED <<plist, blist, waiting, notFound, fluency>>

set_mbt(t) ==
  /\ mbt' = SetMbt(bt, mbt, t)
  /\ UNCHANGED <<plist, blist, waiting, notFound, fluency, bt>>

ObjectsNext ==
  \/ \E id \in Ids : NewPlayer(id) \/ Play(id) \/ PlayerClosed(id) \/ PlayerCallback(id)
  \/ \E id \in Ids : NewPublisher(id) \/ StopPublisher(id) \/ Publish(id) \/ PublisherError(id)

FluencyNext == Tick \/ on_stream_empty \/ on_stream_full

BufferNext == \E t \in BufferTimes : set_bt(t) \/ set_mbt(t)

-----------------------------------------------------------------------------
(* The accounts of a stream that stalls and recovers add up: the time spent  *)
(* empty never exceeds the time played (events may repeat or come at time    *)
(* 0), and the fluency shown is a percentage.                                *)
FluencyInRange ==
  /\ emptyTime + (IF emptySince > 0 THEN clock - emptySince ELSE 0) <= clock
  /\ calc(clock) \in 0 .. 100

(* The plugin is never told a maximal buffer below the buffer, through any   *)
(* sequence of set_bt and set_mbt and although small changes are skipped.    *)
MaxBufferAboveBuffer == mbt >= bt /\ mbt >= 12

(* A publisher is registered at most once, however often it is published and *)
(* stopped, so that a stopped one is really gone.                            *)
PublisherOnce == \A i, j \in DOMAIN blist : blist[i] = blist[j] => i = j

(* What the Flash objects keep account of stays consistent: the fluency, the *)
(* buffer settings and the registry of publishers.                           *)
FlashAccounts == FluencyInRange /\ MaxBufferAboveBuffer /\ PublisherOnce

=============================================================================
