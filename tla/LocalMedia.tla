----------------------------- MODULE LocalMedia -----------------------------
(* What a connection sends, as the adapter keeps account of it: the streams  *)
(* of the page (Chrome and Safari) and the encodings of its transceivers     *)
(* (Firefox). A page runs in one browser, so the two never share a step.     *)
EXTENDS LocalStreams, FirefoxEncodings

(* What is sent is what the page asked to send: the account of its streams   *)
(* agrees with the senders (shimAddTrackRemoveTrack, shimLocalStreamsAPI),   *)
(* and a description waits for the encodings it is to carry                  *)
(* (shimAddTransceiver, shimCreateOffer, shimCreateAnswer).                  *)
LocalMediaKept == StreamsMatch /\ EncodingsWaited

=============================================================================
