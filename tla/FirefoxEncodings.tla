------------------------- MODULE FirefoxEncodings -------------------------
(* The adapter's remedy for a Firefox that ignores the sendEncodings given   *)
(* to addTransceiver: they are set afterwards by setParameters, whose        *)
(* promises are kept in the connection's setParametersPromises, and          *)
(* createOffer and createAnswer wait for them. Transceivers are numbered in  *)
(* the order of their creation. A setParameters that fails counts as settled *)
(* (its error is caught and dropped).                                        *)
EXTENDS Naturals

CONSTANTS MaxTransceivers, \* bound: transceivers of a connection
          MaxCreates       \* bound: calls of createOffer and createAnswer

ASSUME EncodingsAssumption == MaxTransceivers \in Nat /\ MaxCreates \in Nat

VARIABLES
  transceivers, \* number of them
  setting,      \* transceivers whose setParameters has not settled
  promises,     \* setParametersPromises
  creates,      \* of each call: where it is, what it waits for, the transceivers when called
  missed,       \* transceivers whose setting had not settled when the description was made
  dropped       \* taken off setParametersPromises before they settled

encodingVars == <<transceivers, setting, promises, creates, missed, dropped>>

Create == 1 .. MaxCreates
NotCalled == [at |-> "none", awaits |-> {}, before |-> 0]

EncodingsInit ==
  /\ transceivers = 0 /\ setting = {} /\ promises = {}
  /\ creates = [c \in Create |-> NotCalled]
  /\ missed = [c \in Create |-> {}]
  /\ dropped = {}

(* The list is replaced by an empty one.                                     *)
ResetPromises == dropped' = dropped \cup (promises \cap setting)

(* addTransceiver empties the list, then refuses encodings that are not      *)
(* valid, and sets the ones the browser has ignored.                         *)
AddTransceiver(encodings, ignored) ==
  LET t == transceivers + 1
      later == encodings = "valid" /\ ignored
  IN /\ t <= MaxTransceivers
     /\ ResetPromises
     /\ transceivers' = IF encodings = "invalid" THEN transceivers ELSE t
     /\ setting' = IF later THEN setting \cup {t} ELSE setting
     /\ promises' = IF later THEN {t} ELSE {}
     /\ UNCHANGED <<creates, missed>>

SetParametersSettles(t) ==
  /\ t \in setting
  /\ setting' = setting \ {t}
  /\ UNCHANGED <<transceivers, promises, creates, missed, dropped>>

(* createOffer and createAnswer: with an empty list the description is made  *)
(* at once, otherwise when all promises that are listed now have settled.    *)
CallCreate(c) ==
  /\ creates[c].at = "none"
  /\ \A d \in 1 .. c - 1 : creates[d].at # "none"
  /\ creates' = [creates EXCEPT ![c] =
       [at |-> IF promises = {} THEN "done" ELSE "waiting", awaits |-> promises, before |-> transceivers]]
  /\ missed' = IF promises = {} THEN [missed EXCEPT ![c] = setting] ELSE missed
  /\ UNCHANGED <<transceivers, setting, promises, dropped>>

CreateGoesOn(c) ==
  /\ creates[c].at = "waiting" /\ creates[c].awaits \cap setting = {}
  /\ creates' = [creates EXCEPT ![c].at = "making"]
  /\ missed' = [missed EXCEPT ![c] = setting]
  /\ UNCHANGED <<transceivers, setting, promises, dropped>>

(* finally: whatever is listed by now is forgotten.                          *)
CreateEnds(c) ==
  /\ creates[c].at = "making"
  /\ creates' = [creates EXCEPT ![c].at = "done"]
  /\ ResetPromises
  /\ promises' = {}
  /\ UNCHANGED <<transceivers, setting, missed>>

EncodingsNext ==
  \/ \E e \in {"none", "valid", "invalid"}, ignored \in BOOLEAN : AddTransceiver(e, ignored)
  \/ \E t \in setting : SetParametersSettles(t)
  \/ \E c \in Create : CallCreate(c) \/ CreateGoesOn(c) \/ CreateEnds(c)

-----------------------------------------------------------------------------
(* A description is made only after the encodings of every transceiver that  *)
(* was there when it was asked for have settled, except those that another   *)
(* addTransceiver, or the end of an earlier description, took off the list;  *)
(* and what is not yet settled is either listed or was taken off.            *)
EncodingsWaited ==
  /\ \A c \in Create : \A t \in missed[c] : t <= creates[c].before => t \in dropped
  /\ setting \subseteq promises \cup dropped

=============================================================================
