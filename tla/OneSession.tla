----------------------------- MODULE OneSession -----------------------------
(* What a page that plays or publishes over WebRTC promises about its        *)
(* sessions: at most one is live; opening a session ends the one before it;  *)
(* a session that has ended never comes back. The pages of players/ and the  *)
(* SDK behind them (RtcSession) implement this.                              *)
CONSTANT Session

VARIABLE phase

Phase == {"new", "connecting", "established", "closed"}

Live(s) == phase[s] \in {"connecting", "established"}

Init == phase = [s \in Session |-> "new"]

(* A new session begins, or is refused at once; every other one ends.        *)
Open(s, p) ==
  /\ phase[s] = "new"
  /\ p \in {"connecting", "closed"}
  /\ phase' = [t \in Session |->
       IF t = s THEN p ELSE IF Live(t) THEN "closed" ELSE phase[t]]

Establish(s) ==
  /\ phase[s] = "connecting"
  /\ phase' = [phase EXCEPT ![s] = "established"]

Close(s) ==
  /\ Live(s)
  /\ phase' = [phase EXCEPT ![s] = "closed"]

Next == \E s \in Session :
  \/ \E p \in Phase : Open(s, p)
  \/ Establish(s)
  \/ Close(s)

Spec == Init /\ [][Next]_phase

=============================================================================
