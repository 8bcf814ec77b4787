------------------------------ MODULE VuePages ------------------------------
(* The pages of the Vue application: RTMP_HttpFlv_Pull, which plays an       *)
(* HTTP-FLV address with flv.js, and RTMP_Push, which shows the camera and   *)
(* is to publish it. Leaving a page unmounts it; its timers and promises     *)
(* live on. External: flv.js (a player that was never attached throws when   *)
(* it is paused) and getUserMedia.                                           *)
EXTENDS Naturals, Sequences

CONSTANTS Urls,      \* addresses typed
          MaxClicks  \* bound: clicks on play, and on start

ASSUME VueAssumption == MaxClicks \in Nat

VARIABLES
  mounted,
  isSupported, \* flvjs.isSupported(), of the browser
  pending,  \* addresses of the pending 500 ms timers, in order
  player,   \* this.player: none, created but never attached, or loaded
  playing,  \* the address of the loaded player
  asked,    \* the last address asked for
  connections, \* HTTP-FLV connections open
  plays,    \* clicks on play
  pushing,  \* the state of the start and stop buttons
  grants,   \* getUserMedia calls pending
  preview,  \* the camera stream shown, 0 for none
  cameras,  \* camera streams running
  lost,     \* streams nobody refers to any more
  starts    \* clicks on start, and the streams granted so far

flvVars == <<pending, player, playing, asked, connections, plays>>
pushVars == <<pushing, grants, preview, cameras, lost, starts>>
pageVars == <<mounted, isSupported, flvVars, pushVars>>

NoUrl == "none"

PageInit ==
  /\ mounted = TRUE /\ isSupported \in BOOLEAN
  /\ pending = <<>> /\ player = "none" /\ playing = NoUrl /\ asked = NoUrl
  /\ connections = 0 /\ plays = 0
  /\ pushing = FALSE /\ grants = 0 /\ preview = 0 /\ cameras = {} /\ lost = {}
  /\ starts = [clicks |-> 0, granted |-> 0]

-----------------------------------------------------------------------------
(* handlePlay and init: every click starts a timer of its own.               *)
handlePlay(url) ==
  /\ mounted /\ plays < MaxClicks
  /\ plays' = plays + 1
  /\ pending' = Append(pending, url)
  /\ asked' = url
  /\ UNCHANGED <<mounted, isSupported, player, playing, connections, pushVars>>

(* The timer replaces the player. On a page that is gone there is no video   *)
(* element: attachMediaElement throws before load; the next timer throws     *)
(* when it pauses that player. A browser that does not support flv.js shows  *)
(* nothing.                                                                  *)
PlayTimer ==
  /\ pending # <<>>
  /\ pending' = Tail(pending)
  /\ \/ /\ ~isSupported
        /\ UNCHANGED <<player, playing, connections>>
     \/ /\ isSupported /\ mounted
        /\ player' = "loaded" /\ playing' = Head(pending)
        /\ connections' = connections + 1 - (IF player = "loaded" THEN 1 ELSE 0)
     \/ /\ isSupported /\ ~mounted
        /\ player' = "bare"
        /\ UNCHANGED <<playing, connections>>
  /\ UNCHANGED <<mounted, isSupported, asked, plays, pushVars>>

-----------------------------------------------------------------------------
startPush ==
  /\ mounted /\ ~pushing /\ starts.clicks < MaxClicks
  /\ pushing' = TRUE
  /\ grants' = grants + 1
  /\ starts' = [starts EXCEPT !.clicks = @ + 1]
  /\ UNCHANGED <<mounted, isSupported, flvVars, preview, cameras, lost>>

(* getUserMedia answers. The publisher was never created: publish throws,    *)
(* the error handler re-enables the start button and leaves the camera on.   *)
Granted ==
  LET stream == starts.granted + 1
  IN /\ grants > 0
     /\ grants' = grants - 1
     /\ pushing' = FALSE
     /\ starts' = [starts EXCEPT !.granted = stream]
     /\ cameras' = cameras \cup {stream}
     /\ preview' = IF mounted THEN stream ELSE preview
     /\ lost' = lost \cup IF mounted THEN {preview} \ {0} ELSE {stream}
     /\ UNCHANGED <<mounted, isSupported, flvVars>>

Denied ==
  /\ grants > 0
  /\ grants' = grants - 1
  /\ pushing' = FALSE
  /\ UNCHANGED <<mounted, isSupported, flvVars, preview, cameras, lost, starts>>

Released == /\ cameras' = cameras \ {preview}
            /\ preview' = 0
            /\ pushing' = FALSE

stopPush ==
  /\ mounted /\ pushing
  /\ Released
  /\ UNCHANGED <<mounted, isSupported, flvVars, grants, lost, starts>>

-----------------------------------------------------------------------------
(* Mutant: the player is forgotten and not destroyed.                        *)
LeakyBeforeUnmount ==
  /\ mounted
  /\ mounted' = FALSE
  /\ player' = "none"
  /\ Released
  /\ UNCHANGED <<isSupported, pending, playing, asked, connections, plays, grants, lost, starts>>

(* beforeUnmount of both pages.                                              *)
beforeUnmount ==
  /\ mounted
  /\ mounted' = FALSE
  /\ player' = "none"
  /\ connections' = connections - (IF player = "loaded" THEN 1 ELSE 0)
  /\ Released
  /\ UNCHANGED <<isSupported, pending, playing, asked, plays, grants, lost, starts>>

PageNext ==
  \/ \E url \in Urls : handlePlay(url)
  \/ PlayTimer \/ startPush \/ Granted \/ Denied \/ stopPush \/ beforeUnmount

-----------------------------------------------------------------------------
(* However clicks, timers and leaving the page interleave: at most one       *)
(* HTTP-FLV connection is open and none once the page is left; when the      *)
(* timers have fired the address asked for last is the one that plays, if    *)
(* the browser can play it; and a camera that runs on after the page was     *)
(* left is one that was replaced by a later start or granted too late, which *)
(* nothing can stop.                                                         *)
PagesRelease ==
  /\ connections <= 1
  /\ isSupported /\ mounted /\ pending = <<>> /\ asked # NoUrl => playing = asked
  /\ ~mounted => connections = 0 /\ cameras \subseteq lost

=============================================================================
