------------------------------ MODULE SdpText ------------------------------
(* Session descriptions as adapter.js writes and reads them (its SDP module  *)
(* and the helpers of its rtcpeerconnection-shim). A media section is a      *)
(* sequence of lines, a line a tuple of its name and its parts; 0 and "" are *)
(* parts that are left out. A codec is [name, pt, rate, channels,            *)
(* numChannels (its older name, the one browsers give), apt, flags           *)
(* (parameters without a value), fb (feedback)].                             *)
EXTENDS Integers, Sequences, SequencesExt

CName == "cname"

matchPrefix(section, name) == SelectSeq(section, LAMBDA line : line[1] = name)
matchPt(section, name, pt) == SelectSeq(section, LAMBDA line : line[1] = name /\ line[2] = pt)
When(cond, line) == IF cond THEN <<line>> ELSE <<>>
MapSeq(f(_), seq) == [i \in DOMAIN seq |-> f(seq[i])]

-----------------------------------------------------------------------------
(* Mutant: the channels are never written.                                   *)
MonoRtpMap(c) == <<"rtpmap", c.pt, c.name, c.rate, 0>>

(* Codecs. channels goes before numChannels; one channel is not written. A   *)
(* codec without parameters has no fmtp line.                                *)
ChannelsOf(c) == IF c.channels # 0 THEN c.channels ELSE IF c.numChannels # 0 THEN c.numChannels ELSE 1
writeRtpMap(c) == <<"rtpmap", c.pt, c.name, c.rate, IF ChannelsOf(c) = 1 THEN 0 ELSE ChannelsOf(c)>>
parseRtpMap(line) == [name |-> line[3], pt |-> line[2], rate |-> line[4],
                      channels |-> IF line[5] = 0 THEN 1 ELSE line[5]]

writeFmtp(c) == When(c.apt # 0 \/ c.flags # {}, <<"fmtp", c.pt, c.apt, c.flags>>)
parseFmtp(lines) == IF lines = <<>> THEN [apt |-> 0, flags |-> {}]
                    ELSE [apt |-> lines[1][3], flags |-> lines[1][4]]

writeRtcpFb(c) == [i \in DOMAIN c.fb |-> <<"rtcp-fb", c.pt, c.fb[i]>>]
parseRtcpFb(lines) == [i \in DOMAIN lines |-> lines[i][3]]

writeExtmap(e) == <<"extmap", e.id, e.uri>>
parseExtmap(line) == [id |-> line[2], uri |-> line[3]]

(* An m-line without codecs has port 0: the section is rejected.             *)
writeRtpDescription(kind, caps) ==
  LET codecLines(c) == <<writeRtpMap(c)>> \o writeFmtp(c) \o writeRtcpFb(c)
  IN <<<<"m", kind, IF caps.codecs = <<>> THEN 0 ELSE 9, MapSeq(LAMBDA c : c.pt, caps.codecs)>>>>
     \o FlattenSeq(MapSeq(codecLines, caps.codecs))
     \o <<<<"rtcp-mux">>>>
     \o MapSeq(writeExtmap, caps.headerExtensions)

(* Codecs in the order of the m-line, those that have an rtpmap line.        *)
parseRtpParameters(section) ==
  LET pts == SelectSeq(section[1][4], LAMBDA pt : matchPt(section, "rtpmap", pt) # <<>>)
      codec(pt) ==
        LET base == parseRtpMap(matchPt(section, "rtpmap", pt)[1])
            fmtp == parseFmtp(matchPt(section, "fmtp", pt))
        IN [name |-> base.name, pt |-> base.pt, rate |-> base.rate,
            channels |-> base.channels, numChannels |-> base.channels,
            apt |-> fmtp.apt, flags |-> fmtp.flags,
            fb |-> parseRtcpFb(matchPt(section, "rtcp-fb", pt))]
  IN [codecs |-> MapSeq(codec, pts),
      headerExtensions |-> MapSeq(parseExtmap, matchPrefix(section, "extmap"))]

-----------------------------------------------------------------------------
(* Transports, direction and streams of an m-line t.                         *)
writeIceParameters(p) == <<<<"ice-ufrag", p.ufrag>>, <<"ice-pwd", p.pwd>>>>
getIceParameters(section, session) ==
  LET ufrag == matchPrefix(section \o session, "ice-ufrag")
      pwd == matchPrefix(section \o session, "ice-pwd")
  IN IF ufrag = <<>> \/ pwd = <<>> THEN [ufrag |-> "", pwd |-> ""]
     ELSE [ufrag |-> ufrag[1][2], pwd |-> pwd[1][2]]

writeDtlsParameters(fingerprints, setup) ==
  <<<<"setup", setup>>>> \o MapSeq(LAMBDA f : <<"fingerprint", f>>, fingerprints)
getDtlsParameters(section, session) ==
  MapSeq(LAMBDA line : line[2], matchPrefix(section \o session, "fingerprint"))

Directions == {"sendrecv", "sendonly", "recvonly", "inactive"}
Direction(t) == IF t.sender THEN IF t.receiver THEN "sendrecv" ELSE "sendonly"
                ELSE IF t.receiver THEN "recvonly" ELSE "inactive"
getDirection(section, session) ==
  LET found == SelectSeq(section \o session, LAMBDA line : line[1] \in Directions)
  IN IF found = <<>> THEN "sendrecv" ELSE found[1][1]

writeMediaSection(t, caps, type) ==
  LET rtx == t.sender /\ t.rtx # 0
      setup == IF type = "offer" THEN "actpass" ELSE "active"
  IN writeRtpDescription(t.kind, caps)
     \o writeIceParameters(t.ice) \o writeDtlsParameters(t.fingerprints, setup)
     \o <<<<"mid", t.mid>>, <<Direction(t)>>>>
     \o When(t.sender, <<"msid", t.stream, t.track>>)
     \o When(t.sender, <<"ssrc", t.ssrc, "msid", t.stream, t.track>>)
     \o When(rtx, <<"ssrc", t.rtx, "msid", t.stream, t.track>>)
     \o When(rtx, <<"ssrc-group", "FID", t.ssrc, t.rtx>>)
     \o <<<<"ssrc", t.ssrc, "cname", CName>>>>
     \o When(rtx, <<"ssrc", t.rtx, "cname", CName>>)

CNames(section) ==
  SelectSeq(matchPrefix(section, "ssrc"), LAMBDA line : line[3] = "cname")

(* One encoding per rtx codec, two with error correction (red), or one       *)
(* without either. The bandwidth is left out.                                *)
parseRtpEncodingParameters(section) ==
  LET names == CNames(section)
      codecs == parseRtpParameters(section).codecs
      primary == IF names = <<>> THEN 0 ELSE names[1][2]
      flows == matchPrefix(section, "ssrc-group")
      secondary == IF flows # <<>> /\ flows[1][3] = primary THEN flows[1][4] ELSE 0
      hasRed == \E i \in DOMAIN codecs : codecs[i].name = "red"
      plain(c) == [ssrc |-> primary, pt |-> c.apt, rtx |-> secondary, fec |-> 0]
      encodings == FlattenSeq(MapSeq(
        LAMBDA c : <<plain(c)>> \o When(hasRed, [plain(c) EXCEPT !.fec = primary]),
        SelectSeq(codecs, LAMBDA c : c.name = "rtx" /\ c.apt # 0)))
  IN IF encodings = <<>> /\ primary # 0
     THEN <<[ssrc |-> primary, pt |-> 0, rtx |-> 0, fec |-> 0]>> ELSE encodings

parseRtcpParameters(section) ==
  LET names == CNames(section)
  IN [cname |-> IF names = <<>> THEN "" ELSE names[1][4],
      mux |-> matchPrefix(section, "rtcp-mux") # <<>>]

(* The msid line, or the first ssrc line with an msid.                       *)
parseMsid(section) ==
  LET spec == matchPrefix(section, "msid")
      planB == SelectSeq(matchPrefix(section, "ssrc"), LAMBDA line : line[3] = "msid")
  IN IF Len(spec) = 1 THEN [stream |-> spec[1][2], track |-> spec[1][3]]
     ELSE IF planB # <<>> THEN [stream |-> planB[1][4], track |-> planB[1][5]]
     ELSE [stream |-> "", track |-> ""]

getMid(section) == matchPrefix(section, "mid")[1][2]
getKind(section) == section[1][2]
isRejected(section) == section[1][3] = 0

(* What setRemoteDescription reads from a section.                           *)
ReadSection(section) ==
  [kind |-> getKind(section), rejected |-> isRejected(section), mid |-> getMid(section),
   direction |-> getDirection(section, <<>>), msid |-> parseMsid(section),
   ice |-> getIceParameters(section, <<>>), dtls |-> getDtlsParameters(section, <<>>),
   caps |-> parseRtpParameters(section), encodings |-> parseRtpEncodingParameters(section),
   rtcp |-> parseRtcpParameters(section)]

-----------------------------------------------------------------------------
(* Candidates. The related address is written for other types than host, and *)
(* only with a port that is not 0.                                           *)
writeCandidate(c) ==
  <<<<"base", c.protocol, c.address, c.port, c.type>>>>
  \o When(c.type # "host" /\ c.raddr # "" /\ c.rport # 0, <<"raddr", c.raddr>>)
  \o When(c.type # "host" /\ c.raddr # "" /\ c.rport # 0, <<"rport", c.rport>>)
  \o When(c.tcpType # "" /\ c.protocol = "tcp", <<"tcptype", c.tcpType>>)
  \o When(c.ufrag # "", <<"ufrag", c.ufrag>>)

parseCandidate(line) ==
  LET Part(name, none) == LET m == matchPrefix(line, name)
                          IN IF m = <<>> THEN none ELSE m[Len(m)][2]
  IN [protocol |-> line[1][2], address |-> line[1][3], port |-> line[1][4], type |-> line[1][5],
      raddr |-> Part("raddr", ""), rport |-> Part("rport", 0), tcpType |-> Part("tcptype", ""),
      ufrag |-> Part("ufrag", "")]

(* new RTCIceCandidate(args) in browsers without its fields: an "a=" before  *)
(* the text is cut off and the parsed fields are added; toJSON leaves them   *)
(* out again. Without a text it is the browser's own.                        *)
RTCIceCandidate(args) ==
  [candidate |-> args.candidate, prefix |-> FALSE, sdpMid |-> args.sdpMid,
   fields |-> IF args.candidate = <<>> THEN <<>> ELSE <<parseCandidate(args.candidate)>>]

CandidateToJSON(c) == [candidate |-> c.candidate, prefix |-> c.prefix, sdpMid |-> c.sdpMid]

-----------------------------------------------------------------------------
(* Data channels, in the present form and, for the protocol DTLS/SCTP, in    *)
(* the old one, whose m-line names the port. A size of -1 is undefined.      *)
writeSctpDescription(media, sctp) ==
  (IF media.protocol # "DTLS/SCTP"
   THEN <<<<"m", media.kind, media.protocol, sctp.protocol>>, <<"sctp-port", sctp.port>>>>
   ELSE <<<<"m", media.kind, media.protocol, sctp.port>>, <<"sctpmap", sctp.port, sctp.protocol>>>>)
  \o When(sctp.maxMessageSize # -1, <<"max-message-size", sctp.maxMessageSize>>)

parseSctpDescription(section) ==
  LET size == matchPrefix(section, "max-message-size")
      port == matchPrefix(section, "sctp-port")
      map == matchPrefix(section, "sctpmap")
      max == IF size = <<>> THEN 65536 ELSE size[1][2]
  IN CASE port # <<>> -> <<[port |-> port[1][2], protocol |-> section[1][4], maxMessageSize |-> max]>>
       [] port = <<>> /\ map # <<>> -> <<[port |-> map[1][2], protocol |-> map[1][3], maxMessageSize |-> max]>>
       [] OTHER -> <<>>

-----------------------------------------------------------------------------
(* getCommonCapabilities: the first matching codec of the peer for each of   *)
(* ours; an rtx matches when its codec has the name of the codec of ours.    *)
(* Of the two numbers of channels only numChannels is lowered.               *)
First(seq, Test(_)) == LET i == SelectInSeq(seq, Test) IN IF i = 0 THEN <<>> ELSE <<seq[i]>>

rtxCapabilityMatches(l, r, local, remote) ==
  LET lc == First(local, LAMBDA c : c.pt = l.apt)
      rc == First(remote, LAMBDA c : c.pt = r.apt)
  IN lc # <<>> /\ rc # <<>> /\ lc[1].name = rc[1].name

CommonCodec(l, local, remote) ==
  LET match == First(remote, LAMBDA r :
                 /\ l.name = r.name /\ l.rate = r.rate
                 /\ l.name = "rtx" /\ r.apt # 0 => rtxCapabilityMatches(l, r, local, remote))
  IN MapSeq(LAMBDA r :
       [r EXCEPT !.numChannels = IF l.numChannels < @ THEN l.numChannels ELSE @,
                 !.fb = SelectSeq(@, LAMBDA f : f \in ToSet(l.fb))], match)

getCommonCapabilities(local, remote) ==
  [codecs |-> FlattenSeq(MapSeq(LAMBDA l : CommonCodec(l, local.codecs, remote.codecs),
                                local.codecs)),
   headerExtensions |-> FlattenSeq(MapSeq(LAMBDA l :
      First(remote.headerExtensions, LAMBDA r : r.uri = l.uri), local.headerExtensions))]

-----------------------------------------------------------------------------
(* The two filterIceServers, of the Edge shim and of the connection it       *)
(* builds. A URL is [scheme, v6, udp]; hasTurn is kept over all servers.     *)
FilterUrls(servers, Turn(_), Stun(_)) ==
  LET Step(acc, url) ==
        IF Turn(url) /\ ~acc.hasTurn
        THEN [urls |-> Append(acc.urls, url), hasTurn |-> TRUE]
        ELSE IF Stun(url) THEN [acc EXCEPT !.urls = Append(@, url)] ELSE acc
      Server(acc, urls) ==
        LET s == FoldLeft(Step, [urls |-> <<>>, hasTurn |-> acc.hasTurn], urls)
        IN [servers |-> acc.servers \o When(s.urls # <<>>, s.urls), hasTurn |-> s.hasTurn]
  IN FoldLeft(Server, [servers |-> <<>>, hasTurn |-> FALSE], servers).servers

ShimFilterIceServers(servers) ==
  FilterUrls(servers, LAMBDA u : u.scheme \in {"turn", "turns"} /\ ~(u.scheme = "turn" /\ u.v6) /\ u.udp,
                      LAMBDA u : FALSE)

filterIceServers(servers, edgeVersion) ==
  FilterUrls(servers, LAMBDA u : u.scheme = "turn" /\ u.udp /\ ~u.v6,
                      LAMBDA u : u.scheme = "stun" /\ edgeVersion >= 14393 /\ ~u.udp)

=============================================================================
