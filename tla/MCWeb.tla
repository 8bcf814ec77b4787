------------------------------- MODULE MCWeb -------------------------------
(* The parts of the web front end that share nothing with each other, one of *)
(* them at a time: a page that keeps state of its own (the option editor of  *)
(* the console; the Flash player page: its objects, its fluency account or   *)
(* its buffer settings; the Vue application; the adapter's account of local  *)
(* streams, its made up events, its wait for encodings), or a pure function  *)
(* on every input of a small set. A job is such an input; its step computes  *)
(* the result, and the properties compare the two.                           *)
EXTENDS ConsoleEditor, FlashPlayer, VuePages, LocalMedia, RemoteEvents,
        UrlHelpers, SdpText, WebText, AdapterShims, FiniteSets, TLC

VARIABLES part, job, result
functionVars == <<job, result>>

Parts == {"editor", "objects", "fluency", "buffers", "vue", "streams", "events", "encodings", "functions"}
NoJob == [fn |-> "none"]

-----------------------------------------------------------------------------
(* Inputs. The pages run over HTTP or HTTPS, on a named host or an address.  *)
Location == [protocol : {"http", "https"}, hostname : {"page", "1.2.3.4"}, port : {0}]
EmptyQuery == [schema |-> "", server |-> "", port |-> 0, api |-> 0, vhost |-> "", domain |-> "",
               app |-> "", stream |-> "", path |-> "", play |-> ""]
Queries(apis, ports) ==
  {[EmptyQuery EXCEPT !.schema = s, !.server = h, !.api = a, !.port = p, !.vhost = v, !.domain = d] :
     s \in {"", "http", "https"}, h \in {"", "srs", "1.2.3.4"}, a \in apis, p \in ports,
     v \in {"", "srs", "v", DefaultVhost}, d \in {"", "d"}}

ApiJobs == [fn : {"rtc", "whip"}, page : Location, query : Queries({0, 80, 443, 8080}, {0})]
FlvJobs == [fn : {"flv"}, page : Location,
            query : Queries({0}, {0, 80, 443, 1935, 8080})
                    \cup {[EmptyQuery EXCEPT !.schema = "rtmp", !.port = p] : p \in {0, 80, 1935, 8080}}]
DemoJobs == [fn : {"demo"},
             page : [protocol : {"http", "https"}, hostname : {"page"}, port : {"", "81"},
                     query : {q \in UNION {[1 .. n -> {<<"host", "srs">>, <<"room", "r">>, <<"vhost", "v">>,
                                                       <<"display", "me">>, <<"wsp", "82">>,
                                                       <<"schema", "https">>}] : n \in 0 .. 4} :
                              Cardinality(ToSet(q)) = Len(q)}]]
ConsoleJobs ==
  [fn : {"console"},
   at : [protocol : {"http", "https"}, host : {"page"}, port : {80, 443, 8080},
         search : [schema : {"", "https"}, host : {"", "srs"}, port : {0, 80, 1985}, http : {0, 80, 8081}]],
   stream : [owner : {"v", "srs", "page", DefaultVhost}, app : {"live"}, name : {"s.flv"}]]
  \cup [fn : {"stream"},
        stream : [name : {"", "s"}, url : [stream : {"s"}],
                  tcUrl : [schema : {"rtmp"}, server : {"srs", "1.2.3.4"}, port : {0, 1935, 1936},
                           app : {"live"}, appVhost : {"", "v"}, stream : {""},
                           query : [vhost : {"", "w", DefaultVhost}, domain : {"", "d", DefaultVhost},
                                    schema : {""}, play : {""}]]]]

Codec(name, pt, apt) == [name |-> name, pt |-> pt, rate |-> 90, channels |-> 1, numChannels |-> 1,
                         apt |-> apt, flags |-> {}, fb |-> <<>>]
(* Two codecs and their retransmissions, in any order; some with details.    *)
(* The browser's own codecs have no channels, only numChannels.              *)
LocalCodecs == {Codec("VP8", 1, 0), [Codec("H264", 2, 0) EXCEPT !.flags = {"p"}, !.fb = <<"nack", "pli">>],
                Codec("rtx", 3, 1), Codec("rtx", 4, 2)}
RemoteCodecs == {[Codec("VP8", 6, 0) EXCEPT !.channels = 2, !.numChannels = 2], [Codec("H264", 5, 0) EXCEPT !.fb = <<"pli">>],
                 Codec("rtx", 8, 6), Codec("rtx", 7, 5), Codec("red", 9, 0)}
Native(codecs) == MapSeq(LAMBDA c : [c EXCEPT !.channels = 0], codecs)
Lists(S) == {s \in UNION {[1 .. n -> S] : n \in 0 .. 4} : Cardinality(ToSet(s)) = Len(s)}
Ext(S) == {SetToSeq({[id |-> i, uri |-> i] : i \in T}) : T \in SUBSET S}

Line(codecs, s, r, rtx, type) ==
  [fn |-> "describe", type |-> type, caps |-> [codecs |-> codecs, headerExtensions |-> <<[id |-> 1, uri |-> 1]>>],
   t |-> [kind |-> "video", mid |-> "m", sender |-> s, receiver |-> r, rtx |-> rtx, ssrc |-> 11,
          stream |-> "S", track |-> "T", fingerprints |-> <<"f">>, ice |-> [ufrag |-> "u", pwd |-> "p"]]]
SdpJobs ==
  {Line(c, s, r, rtx, type) : c \in Lists(RemoteCodecs) \cup {Native(l) : l \in Lists(LocalCodecs)}, s \in BOOLEAN, r \in BOOLEAN,
                              rtx \in {0, 12}, type \in {"offer", "answer"}}
  \cup [fn : {"common"}, local : {Native(SetToSeq(S)) : S \in SUBSET LocalCodecs}, remote : Lists(RemoteCodecs),
        ext : Ext({1, 2})]
  \cup [fn : {"candidate"},
        prefix : BOOLEAN,
        c : [protocol : {"udp", "tcp"}, address : {"a"}, port : {9}, type : {"host", "srflx"},
             raddr : {"", "b"}, rport : {0, 8}, tcpType : {"", "active"}, ufrag : {"", "u"}]]
  \cup [fn : {"sctp"}, media : [kind : {"application"}, protocol : {"UDP/DTLS/SCTP", "TCP/DTLS/SCTP", "DTLS/SCTP"}],
        sctp : [port : {5000}, protocol : {"webrtc-datachannel"}, maxMessageSize : {-1, 0, 1, 65535, 65536, 262144}]]
  \cup [fn : {"servers"}, version : {14000, 15000},
        servers : UNION {[1 .. n -> UNION {[1 .. m -> [scheme : {"stun", "turn", "turns"}, v6 : {FALSE},
                                                       udp : BOOLEAN]] : m \in 1 .. 2}] : n \in 0 .. 2}]
  \cup [fn : {"servers"}, version : {15000},
        servers : {<<<<u>>>> : u \in [scheme : {"turn"}, v6 : {TRUE}, udp : BOOLEAN]}]

Texts(n) == UNION {[1 .. k -> {"g", "."}] : k \in 0 .. n}
TextJobs ==
  [fn : {"array"}, arr : UNION {[1 .. n -> 1 .. 3] : n \in 0 .. 5}, elem : 1 .. 3]
  \cup [fn : {"trim"}, str : Texts(6), flag : {<<"g">>, <<"g", ".">>, <<"g", "g">>}]
  \cup [fn : {"clock"}, s : {0, 1, 59, 60, 61, 599, 3599, 3600, 35999, 36000, 86399, 86400}]
  \cup [fn : {"size"}, v : 0 .. 1200]

(* The adapter's functions: browsers around the versions it treats           *)
(* differently, constraints with a number and a text, cameras in any order,  *)
(* statistics that refer to each other in circles, calls of four handlers.   *)
Section == [kind |-> "application", sctp |-> TRUE]
SizeJobs ==
  [fn : {"message"},
   me : [browser : {"firefox"}, version : 56 .. 60, planB : {FALSE}, native : {FALSE}, nativeSctp : {NoSctp}]
        \cup [browser : {"chrome"}, version : {75}, planB : BOOLEAN, native : {FALSE}, nativeSctp : {NoSctp}]
        \cup [browser : {"chrome"}, version : {80}, planB : BOOLEAN, native : {TRUE}, nativeSctp : {NoSctp, 262144}],
   d : [sections : {<<>>, <<Section>>, <<[kind |-> "video", sctp |-> FALSE], Section>>},
        firefox : {-1, 59}, mms : {-1, 0, 1000, 16384, 65535, 65536, 262144}],
   length : {0, 999, 1000, 1001, 16385, 65535, 65536, 65537, 262145}]
Num(n) == <<"number", n>>
Asked == [ideal : {Missing, Num(5)}, exact : {Missing, Num(6)}, min : {Missing, Num(2)}, max : {Missing, Num(9)}]
Texted == {[ideal |-> i, exact |-> e, min |-> Missing, max |-> Missing] :
             i \in {Missing, <<"text", "x">>}, e \in {Missing, <<"text", "y">>}}
Id(i, label) == [kind |-> "videoinput", label |-> label, id |-> i]
Cameras == {Id("f", {"front"}), Id("b", {"back"}), Id("r", {"rear", "front"}), Id("o", {}),
            [kind |-> "audioinput", label |-> {"back"}, id |-> "m"]}
StatObject(type, of, refs) == [type |-> type, of |-> of, refs |-> (IF type = "track" THEN <<>> ELSE <<of>>) \o refs]
Refs == {SetToSeq(S) : S \in SUBSET {2, 3, 4}} \cup {<<9>>}
Refusals == {"PermissionDeniedError", "PermissionDismissedError", "InvalidStateError",
             "DevicesNotFoundError", "ConstraintNotSatisfiedError", "TrackStartError",
             "MediaDeviceFailedDueToShutdown", "MediaDeviceKillSwitchOn", "TabCaptureError",
             "ScreenCaptureError", "DeviceCaptureError"} \* names Chrome used before 64
ShimJobs ==
  SizeJobs
  \cup {[fn |-> "constraints", c |-> [keys |-> k, of |-> [x \in {"width", "mediaSource"} |-> a] @@ [x \in {"deviceId"} |-> d],
                                      advanced |-> v]] :
           k \in {<<"width">>, <<"deviceId", "width">>, <<"mediaSource", "width", "deviceId">>},
           a \in Asked, d \in Texted, v \in {<<>>, <<<<<<"", "z">>, Num(1)>>>>}}
  \cup [fn : {"camera"}, face : [exact : {Null, "user", "environment"}, ideal : {Null, "user", "environment", "left"}],
        devices : {s \in UNION {[1 .. n -> Cameras] : n \in 0 .. 3} : Cardinality(ToSet(s)) = Len(s)},
        version : {60, 61}]
  \cup [fn : {"offer"}, options : [audio : {"undefined", "true", "false"}, video : {"undefined", "true", "false"}],
        ts : UNION {[1 .. n -> [kind : {"audio", "video"},
                                direction : {"sendrecv", "sendonly", "recvonly", "inactive"}]] : n \in 0 .. 2}]
  \cup {[fn |-> "stats", out |-> out, in |-> in,
          stats |-> <<StatObject("track", t, <<>>), StatObject(r, 1, a), StatObject("outbound-rtp", o, b),
                      StatObject("codec", 2, c)>>] :
           out \in {<<>>, <<"t">>, <<"u", "t">>, <<"t", "t">>}, in \in {<<>>, <<"t">>}, t \in {"t", "u"},
           r \in {"outbound-rtp", "inbound-rtp"}, o \in {1, 7}, a \in {<<4>>, <<9>>}, b \in Refs, c \in {<<>>, <<3>>}}
  \cup [fn : {"media"}, asked : SUBSET {"audio", "video"} \ {{}}, version : {63, 64},
        native : [error : {Null}, tracks : SUBSET {"audio", "video"}]
                 \cup [error : Refusals \cup {"NotAllowedError", "SecurityError"}, tracks : {{}}]]
  \cup [fn : {"callbacks"}, given : SUBSET {"success", "failure"}, outcome : {"success", "failure"}]
  \cup [fn : {"ended"}, given : SUBSET {"success", "failure"}, version : {67, 68, 77, 78},
        candidate : {Null, "", "candidate"}]
  \cup [fn : {"handlers"},
        ops : UNION {[1 .. n -> [do : {"add", "remove", "set"}, event : {"track", "icecandidate"},
                                 cb : {[text |-> "f", id |-> 1], [text |-> "f", id |-> 2], [text |-> "g", id |-> 3]}]
                              \cup [do : {"set"}, event : {"track"}, cb : {NoCallback}]] : n \in 0 .. 3}]

-----------------------------------------------------------------------------
Init ==
  /\ part \in Parts
  /\ EditorInit /\ FlashInit /\ PageInit /\ StreamsInit /\ RemoteInit /\ EncodingsInit
  /\ part # "editor" => array = FALSE /\ value = Undefined
  /\ part # "vue" => isSupported
  /\ part # "streams" => browser = "old"
  /\ part # "events" => shim = "track"
  /\ \/ part # "functions" /\ job = NoJob
     \/ /\ part = "functions"
        /\ job \in ApiJobs \cup FlvJobs \cup DemoJobs \cup ConsoleJobs \cup SdpJobs \cup TextJobs \cup ShimJobs
  /\ result = <<>>

Compute(fn, r) == result = <<>> /\ job.fn = fn /\ result' = <<r>> /\ UNCHANGED job

RtcPage == job.fn = "rtc" /\ LET u == build_default_rtc_url(job.query, job.page) IN
  Compute("rtc", {PublisherApi(u, job.page), PlayerApi(u, job.page)})
WhipPage == job.fn = "whip" /\
  Compute("whip", {build_default_whip_whep_url(job.query, job.page, p) :
                     p \in {"/rtc/v1/whip/", "/rtc/v1/whep/"}})
FlvPage == job.fn = "flv" /\
  Compute("flv", parse_rtmp_url(build_default_flv_url(job.query, job.page), job.page))
DemoPage == job.fn = "demo" /\ LET conf == SrsRtcSignalingParse(job.page)
                                   u == DemoUrl(conf, conf.display) IN
  Compute("demo", [conf |-> conf, apis |-> {DemoPublisherApi(u, job.page), DemoPlayerApi(u, job.page)}])
ConsolePage == job.fn = "console" /\
  LET s == ServerInit(job.at)
      again == ServerInit(buildNavUrl(job.at, s))
      link == sc_filter_preview_url(job.stream, s)
  IN Compute("console", [server |-> s, base |-> baseurl(s), again |-> baseurl(again),
                         preview |-> parse_rtmp_url(build_default_flv_url(link.query, link.page), link.page)])
StreamPage == job.fn = "stream" /\
  Compute("stream", parse_rtmp_url(sc_filter_streamURL(job.stream), [protocol |-> "http"]))
Describe == job.fn = "describe" /\
  Compute("describe", ReadSection(writeMediaSection(job.t, job.caps, job.type)))
Common == job.fn = "common" /\
  Compute("common", getCommonCapabilities([codecs |-> job.local, headerExtensions |-> job.ext],
                      [codecs |-> job.remote, headerExtensions |-> <<[id |-> 7, uri |-> 2]>>]))
Candidate == job.fn = "candidate" /\
  Compute("candidate", RTCIceCandidate([candidate |-> writeCandidate(job.c), prefix |-> job.prefix, sdpMid |-> "m"]))
Sctp == job.fn = "sctp" /\ Compute("sctp", parseSctpDescription(writeSctpDescription(job.media, job.sctp)))
Servers == job.fn = "servers" /\
  Compute("servers", filterIceServers(ShimFilterIceServers(job.servers), job.version))
Array == job.fn = "array" /\ Compute("array", system_array_remove(job.arr, job.elem))
Trim == job.fn = "trim" /\ Compute("trim", system_string_trim(job.str, job.flag))
Clock == job.fn = "clock" /\ Compute("clock", relative_seconds_to_HHMMSS(job.s))
Size == job.fn = "size" /\
  Compute("size", [v \in {job.v, job.v + 1} |->
    <<sc_filter_filesize_k(v), sc_filter_filesize_k2(v), sc_filter_filerate_k(v),
      sc_filter_filerate_k2(v), sc_filter_bitrate_k(v), sc_filter_bitrate_k2(v)>>])
Message == job.fn = "message" /\ LET sctp == SctpOf(job.me, job.d) IN
  Compute("message", [sctp |-> sctp, throws |-> DcSendThrows(TRUE, sctp, job.length)])
Constraints == job.fn = "constraints" /\ Compute("constraints", constraintsToChrome_(job.c))
Camera == job.fn = "camera" /\ Compute("camera", shimConstraints_(job.face, job.devices, job.version))
Offer == job.fn = "offer" /\ Compute("offer", CreateOfferLegacy(job.ts, job.options))
Stats == job.fn = "stats" /\ Compute("stats", TrackStats(job.stats, job.out, job.in, "t"))
Media == job.fn = "media" /\ Compute("media", getUserMedia(job.asked, job.native, job.version))
Callbacks == job.fn = "callbacks" /\
  Compute("callbacks", [edge |-> EdgeCallbacks(job.given, job.outcome), safari |-> withCallback(job.given, job.outcome)])
Ended == job.fn = "ended" /\
  Compute("ended", [chrome |-> ChromeAddIceCandidate(job.candidate, job.given, job.version),
                    firefox |-> FirefoxAddIceCandidate(job.candidate, job.given, job.version)])
EventHandlers == job.fn = "handlers" /\ Compute("handlers", wrapPeerConnectionEvent(job.ops))

FunctionNext ==
  \/ RtcPage \/ WhipPage \/ FlvPage \/ DemoPage \/ ConsolePage \/ StreamPage
  \/ Describe \/ Common \/ Candidate \/ Sctp \/ Servers
  \/ Array \/ Trim \/ Clock \/ Size
  \/ Message \/ Constraints \/ Camera \/ Offer \/ Stats
  \/ Media \/ Callbacks \/ Ended \/ EventHandlers

pagePartVars == <<editorVars, flashVars, pageVars>>
adapterVars == <<streamVars, remoteVars, encodingVars>>

Next ==
  /\ UNCHANGED part
  /\ \/ part = "editor" /\ EditorNext /\ UNCHANGED <<flashVars, pageVars, adapterVars, functionVars>>
     \/ part = "objects" /\ ObjectsNext /\ UNCHANGED <<editorVars, pageVars, adapterVars, functionVars>>
     \/ part = "fluency" /\ FluencyNext /\ UNCHANGED <<editorVars, pageVars, adapterVars, functionVars>>
     \/ part = "buffers" /\ BufferNext /\ UNCHANGED <<editorVars, pageVars, adapterVars, functionVars>>
     \/ part = "vue" /\ PageNext /\ UNCHANGED <<editorVars, flashVars, adapterVars, functionVars>>
     \/ part = "streams" /\ StreamsNext /\ UNCHANGED <<pagePartVars, remoteVars, encodingVars, functionVars>>
     \/ part = "events" /\ RemoteNext /\ UNCHANGED <<pagePartVars, streamVars, encodingVars, functionVars>>
     \/ part = "encodings" /\ EncodingsNext /\ UNCHANGED <<pagePartVars, streamVars, remoteVars, functionVars>>
     \/ part = "functions" /\ FunctionNext /\ UNCHANGED <<pagePartVars, adapterVars>>

Spec == Init /\ [][Next]_<<part, pagePartVars, adapterVars, functionVars>>

Did(fns) == result # <<>> /\ job.fn \in fns
res == result[1]

-----------------------------------------------------------------------------
(* Where the vhost a query asks for ends: the default one is not written, so *)
(* a named server reads its own name; an address reads the default one.      *)
SeenVhost(q, page) ==
  LET server == Or(q.server, page.hostname)
      wanted == Or(q.vhost, page.hostname)
  IN IF q.domain # "" THEN q.domain
     ELSE IF wanted \in {server, DefaultVhost} THEN IF server \in Ips THEN DefaultVhost ELSE server
     ELSE wanted

(* The offer of a page is posted to the server, port and vhost its query     *)
(* asks for, through the address shown in the page, the browser's reading of *)
(* it and the SDK's parse: an explicit port is used as it is, also the ones  *)
(* a browser drops; without one the port fits the protocol, except that      *)
(* schema=http on an HTTPS page goes to port 443. The protocol is the one    *)
(* the query asks for; of WHIP and WHEP it is that of the page, whatever the *)
(* query says and srs.page.js:125 promises. In the demos a vhost= before     *)
(* host= is taken for the host.                                              *)
ApiAsAsked ==
  /\ Did({"rtc"}) => \A api \in res :
       /\ api.server = Or(job.query.server, job.page.hostname)
       /\ api.schema = Or(job.query.schema, job.page.protocol)
       /\ job.query.api # 0 => api.port = job.query.api
       /\ job.query.api = 0 /\ (job.page.protocol = "https" => api.schema = "https") =>
            api.port = IF api.schema = "https" THEN 443 ELSE 1985
       /\ api.vhost = SeenVhost(job.query, job.page)
  /\ Did({"whip"}) => \A api \in res :
       /\ api.server = Or(job.query.server, job.page.hostname)
       /\ job.query.api # 0 => api.port = job.query.api
       /\ job.query.api = 0 => api.port = IF api.schema = "https" THEN 1990 ELSE 1985
       /\ api.schema = job.page.protocol
       /\ Or(api.schemaQuery, api.schema) = Or(job.query.schema, job.page.protocol)
       /\ api.vhost = "" \/ api.vhost = SeenVhost(job.query, job.page)
  /\ Did({"demo"}) => \A api \in res.apis :
       LET at(key) == SelectInSeq(job.page.query, LAMBDA kv : kv[1] = key) IN
       /\ at("vhost") = 0 \/ at("host") \in 1 .. at("vhost") =>
            api.server = IF at("host") = 0 THEN "page" ELSE "srs"
       /\ at("vhost") # 0 /\ at("host") \in 1 .. at("vhost") => api.vhost = "v"
       /\ at("schema") # 0 => api.schema = "https" /\ api.port = 443
       /\ api.app = res.conf.room /\ api.stream = res.conf.display

(* The addresses handed from page to page lead where they were meant to: the *)
(* FLV address of the player page, the console's link to that page, the      *)
(* stream addresses it shows and its own address. Without a port the FLV     *)
(* address has 8080 under http, against the 1935 of the comment at           *)
(* srs.page.js:60, and 1935 under other protocols. Excepted is what the code *)
(* loses: port 80 under rtmp or https.                                       *)
LinksAsAsked ==
  /\ Did({"flv"}) =>
       LET schema == Or(job.query.schema, "http") IN
       /\ res.server = Or(job.query.server, job.page.hostname)
       /\ res.vhost = SeenVhost(job.query, job.page)
       /\ <<schema, job.query.port>> # <<"rtmp", 80>> =>
            res.port = OrPort(job.query.port, IF schema = "http" THEN 8080 ELSE 1935)
  /\ Did({"console"}) =>
       LET s == res.server
           reached(u) == OrPort(u.port, DefaultPort(u.schema)) IN
       /\ s.schema = "http" \/ s.port # 80 => /\ reached(res.base) = s.port
                                               /\ reached(res.again) = s.port
       /\ res.again.schema = res.base.schema /\ res.again.host = res.base.host
       /\ res.preview.schema = s.schema /\ res.preview.server = s.host
       /\ res.preview.port = s.http
       /\ job.stream.owner # DefaultVhost => res.preview.vhost = job.stream.owner
  /\ Did({"stream"}) =>
       LET u == job.stream.tcUrl IN
       /\ res.stream = "s" /\ res.app = u.app /\ res.server = u.server
       /\ res.port = OrPort(u.port, 1935)
       /\ LET named == Or(u.query.domain, u.query.vhost)
          IN res.vhost = IF named \notin {"", DefaultVhost} THEN named
                         ELSE IF DefaultVhost \in {res.user_query.domain, res.user_query.vhost}
                              THEN DefaultVhost ELSE ParsedVhost(u)
       /\ "" \in {u.query.domain, u.query.vhost} =>
            DefaultVhost \notin {res.user_query.domain, res.user_query.vhost}

(* What the peer reads from a description is what was written: codecs with   *)
(* all details, one number of channels under both its names, the direction,  *)
(* the streams only of a sender, and encodings that belong to codecs of the  *)
(* section. The codecs common to both sides have the offerer's payload       *)
(* types, none twice, a numChannels neither side exceeds (the answer writes  *)
(* channels, which stay the offerer's), and each retransmission comes with   *)
(* the codec it repeats. A candidate keeps its address, and what it is sent  *)
(* as makes the same candidate at the other end. A data channel keeps its    *)
(* port in both forms. At most one TURN server is left.                      *)
SdpKept ==
  /\ Did({"describe"}) =>
       /\ LET read(c) == [c EXCEPT !.channels = OrPort(@, c.numChannels),
                                   !.numChannels = OrPort(c.channels, @)]
          IN res.caps = [job.caps EXCEPT !.codecs = MapSeq(read, @)]
       /\ res.ice = job.t.ice /\ res.dtls = job.t.fingerprints
       /\ res.rejected = (job.caps.codecs = <<>>)
       /\ job.t.sender = (res.direction \in {"sendrecv", "sendonly"})
       /\ job.t.receiver = (res.direction \in {"sendrecv", "recvonly"})
       /\ res.msid = IF job.t.sender THEN [stream |-> "S", track |-> "T"]
                        ELSE [stream |-> "", track |-> ""]
       /\ \A i \in DOMAIN res.encodings :
            LET e == res.encodings[i] IN
            /\ e.ssrc = job.t.ssrc /\ e.fec \in {0, e.ssrc}
            /\ e.rtx # 0 => job.t.sender /\ e.rtx = job.t.rtx
            /\ e.pt # 0 => \E c \in ToSet(job.caps.codecs) : c.apt = e.pt
  /\ Did({"common"}) =>
       LET cs == res.codecs IN
       /\ \A i, j \in DOMAIN cs : cs[i].pt = cs[j].pt => i = j
       /\ \A i \in DOMAIN cs : \E r \in ToSet(job.remote), l \in ToSet(job.local) :
            /\ cs[i].pt = r.pt /\ l.name = r.name
            /\ ToSet(cs[i].fb) \subseteq ToSet(l.fb) \cap ToSet(r.fb)
            /\ cs[i].numChannels <= l.numChannels /\ cs[i].numChannels <= r.numChannels
            /\ cs[i].name = "rtx" => \E k \in DOMAIN cs : cs[k].pt = cs[i].apt
       /\ \A e \in ToSet(res.headerExtensions) : e.id = 7 /\ \E l \in ToSet(job.ext) : l.uri = e.uri
  /\ Did({"candidate"}) =>
       LET read == res.fields[1] IN
       /\ [read EXCEPT !.raddr = job.c.raddr, !.rport = job.c.rport, !.tcpType = job.c.tcpType] = job.c
       /\ job.c.type = "srflx" /\ job.c.rport # 0 /\ job.c.raddr # "" =>
            read.raddr = job.c.raddr /\ read.rport = job.c.rport
       /\ RTCIceCandidate(CandidateToJSON(res)) = res
  /\ Did({"sctp"}) =>
       res = <<[job.sctp EXCEPT !.maxMessageSize = IF @ = -1 THEN 65536 ELSE @]>>
  /\ Did({"servers"}) =>
       LET urls == FlattenSeq(res)
           given == FlattenSeq(job.servers)
           usable == SelectSeq(given, LAMBDA u : u.scheme = "turn" /\ u.udp /\ ~u.v6)
       IN /\ <<>> \notin ToSet(res)
          /\ Len(urls) <= 1
          /\ "turns" \notin {u.scheme : u \in ToSet(given)} => urls = SubSeq(usable, 1, Len(urls))
                                                                /\ (usable # <<>> => urls # <<>>)

(* The helpers of the pages: all equal elements go and the others stay in    *)
(* order; trimming never leaves the flag in front and only takes flags away  *)
(* (at the end it may leave some, against winlin.utility.js:152); a time     *)
(* below a day reads back; and what is shown of sizes and rates never orders *)
(* two values the wrong way round, whatever the unit and the rounding.       *)
TextKept ==
  /\ Did({"array"}) => /\ res = SelectSeq(job.arr, LAMBDA e : e # job.elem)
                       /\ array_actual_equals(res, job.arr) = (job.elem \notin ToSet(job.arr))
  /\ Did({"trim"}) =>
       /\ ~IsPrefix(job.flag, res)
       /\ \E m, n \in 0 .. Len(job.str) :
            job.str = FlattenSeq([i \in 1 .. m |-> job.flag]) \o res
                        \o FlattenSeq([i \in 1 .. n |-> job.flag])
  /\ Did({"clock"}) /\ job.s < 86400 =>
       ((res[1] * 10 + res[2]) * 60 + res[3] * 10 + res[4]) * 60
         + res[5] * 10 + res[6] = job.s
  /\ Did({"size"}) => \A i \in 1 .. 6 :
       LET base == IF i > 4 THEN RateBase ELSE FileBase
           shownOf(v) == res[v][i].number * base ^ res[v][i].unit
       IN /\ shownOf(job.v) <= shownOf(job.v + 1)
          /\ res[job.v][i].unit > 0 => res[job.v][i].number >= 1

(* What the adapter promises of its functions. Where the page sees the size  *)
(* the adapter worked out (not Chrome's own, outside plan-b), a message is   *)
(* refused exactly when it is longer than this side can send or the other    *)
(* says it takes (0: anything), and never without data channels. Of camera   *)
(* constraints what is                                                       *)
(* exact, least or most becomes mandatory and nothing else; ideals stay      *)
(* wishes and keep the names Chrome knows. A facing mode only picks cameras, *)
(* a labelled one before any other, and an exact one (unless the page also   *)
(* wished for the opposite) never the opposite one. Receive options stop     *)
(* receiving without stopping to send. Statistics of a track are the closure *)
(* of its RTP streams under references. A callback that is used for one      *)
(* event, and shares its source text with no other one in use, is heard      *)
(* exactly while it is added. A camera is granted with all                   *)
(* that was asked for or refused with nothing left running, by a name of the *)
(* standard. An outcome reaches the page once: through the callback for it   *)
(* or through the promise, unless Edge is given a success callback only and  *)
(* the call fails. The end of candidates only goes to browsers that know it. *)
ShimsKept ==
  /\ Did({"message"}) =>
       LET can == getCanSendMaxMessageSize(job.me, job.d.firefox)
           takes == getMaxMessageSize(job.me, job.d)
       IN ShimmedSctp(job.me) => res.throws =
                       /\ Section \in ToSet(job.d.sections)
                       /\ \/ job.length > can
                          \/ takes # 0 /\ job.length > takes
  /\ Did({"constraints"}) =>
       /\ \A o \in ToSet(res.optional) : o[1][2] \notin {"mediaSource", "deviceId"}
       /\ \A m \in res.mandatory : \E k \in ToSet(job.c.keys) \ {"mediaSource"} :
            m[2] \in {job.c.of[k].exact, job.c.of[k].min, job.c.of[k].max}
       /\ \A k \in ToSet(job.c.keys) \ {"mediaSource"} :
            LET e == job.c.of[k].exact
                called(m) == {x[2] : x \in {y \in res.mandatory : y[1] = <<m, k>>}}
            IN Numeric(e) => called("min") = {e} /\ called("max") = {e}
       /\ job.c.advanced # <<>> => Last(res.optional) = job.c.advanced[1]
  /\ Did({"camera"}) /\ res.device # Null =>
       LET dev == CHOOSE d \in ToSet(job.devices) : d.id = res.device
           labelled == {d \in ToSet(job.devices) : d.kind = "videoinput" /\ d.label \cap Words(job.face) # {}}
       IN /\ dev.kind = "videoinput"
          /\ labelled # {} => dev \in labelled
          /\ job.face.exact = "user" /\ job.face.ideal # "environment" => "front" \in dev.label
          /\ res.exact = (job.face.exact # Null)
  /\ Did({"offer"}) =>
       /\ \A i \in DOMAIN job.ts :
            (job.ts[i].direction \in {"sendrecv", "sendonly"}) = (res[i].direction \in {"sendrecv", "sendonly"})
       /\ \A k \in {"audio", "video"} :
            LET first == SelectInSeq(res, LAMBDA t : t.kind = k) IN
            /\ job.options[k] = "false" /\ first # 0 => res[first].direction \in {"sendonly", "inactive"}
            /\ job.options[k] = "true" => first # 0
            /\ job.options[k] = "undefined" => \A i \in DOMAIN res : res[i].kind = k => res[i] = job.ts[i]
  /\ Did({"stats"}) =>
       LET type == IF job.out = <<>> THEN "inbound-rtp" ELSE "outbound-rtp"
           ids == DOMAIN job.stats
           roots == {i \in ids : job.stats[1].of = "t" /\ job.stats[i].type = type /\ job.stats[i].of = 1}
           closed(S) == \A i \in S : ToSet(job.stats[i].refs) \cap ids \subseteq S
       IN \A found \in ToSet(res) :
            /\ roots \subseteq found /\ closed(found)
            /\ \A S \in SUBSET ids : roots \subseteq S /\ closed(S) => found \subseteq S
  /\ Did({"media"}) =>
       /\ res.error = Null => job.asked \subseteq res.stream
       /\ res.error # Null => res.running = {} /\ res.error \notin (IF job.version < 64 THEN Refusals ELSE {})
  /\ Did({"callbacks"}) => \A browserCall \in {res.edge, res.safari} :
       LET heard == browserCall.ran[job.outcome]
           lostError == browserCall = res.edge /\ job.given = {"success"} /\ job.outcome = "failure"
       IN /\ browserCall.ran[IF job.outcome = "success" THEN "failure" ELSE "success"] = 0
          /\ job.outcome = "failure" /\ ~lostError => heard = 1 \/ browserCall.promise = "failure"
          /\ {"success", "failure"} \subseteq job.given => heard = 1 /\ browserCall.promise = "success"
  /\ Did({"ended"}) =>
       /\ job.candidate = "candidate" => res.chrome.native /\ res.firefox.native
       /\ job.candidate = Null => ~res.chrome.native /\ (res.firefox.native = (job.version >= 68))
       /\ \A call \in {res.chrome, res.firefox} :
            /\ call.ran["failure"] = 0
            /\ ~call.native /\ job.candidate = Null => call.ran = Ran(job.given, "success")
  /\ Did({"handlers"}) =>
       LET ops == job.ops
           own(cb) == \A i, j \in DOMAIN ops :
             ops[i].cb.text = cb.text /\ ops[j].cb = cb => ops[i].cb = cb /\ ops[i].event = ops[j].event
           onlyAdds(cb) == \A i \in DOMAIN ops : ops[i].cb = cb => ops[i].do \in {"add", "remove"}
           twice(cb) == \E i, j \in DOMAIN ops :
             /\ i < j /\ ops[i].cb = cb /\ ops[j].cb = cb /\ ops[i].do = "add" /\ ops[j].do = "add"
             /\ ~\E k \in i .. j : ops[k].cb = cb /\ ops[k].do = "remove"
           lastOf(cb) == SelectLastInSeq(ops, LAMBDA op : op.cb = cb)
       IN \A cb \in {op.cb : op \in ToSet(ops)} \ {NoCallback} : own(cb) /\ onlyAdds(cb) /\ ~twice(cb) =>
            Cardinality({l \in res.active : l.cb = cb}) = IF ops[lastOf(cb)].do = "add" THEN 1 ELSE 0

(* What the pages are told, and tell others, survives every conversion.      *)
HelpersKept == TextKept /\ ShimsKept

(* All addresses lead where they were meant to.                              *)
AddressesAsAsked == ApiAsAsked /\ LinksAsAsked

=============================================================================
