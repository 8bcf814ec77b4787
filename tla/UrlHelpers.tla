----------------------------- MODULE UrlHelpers -----------------------------
(* The addresses of the web front end: the pages build them from their own   *)
(* location and query string, the SDKs parse them and build the address of   *)
(* the API from them, the console builds those of its server and of the      *)
(* player page. An address is a record of its parts, "" and 0 for a part     *)
(* that is not there; text is never put together. External: the browser's    *)
(* reading of a link, which drops the default port of its scheme.            *)
EXTENDS Naturals, Sequences, SequencesExt

CONSTANT Ips \* hosts written as four numbers

DefaultVhost == "__defaultVhost__"
Or(a, b) == IF a = "" THEN b ELSE a
OrPort(a, b) == IF a = 0 THEN b ELSE a

DefaultPort(schema) ==
  CASE schema = "http" -> 80 [] schema = "https" -> 443 [] schema = "rtmp" -> 1935
    [] OTHER -> 0

(* The query of an address that has none.                                    *)
NoQuery == [vhost |-> "", domain |-> "", schema |-> "", play |-> ""]

(* An anchor element after the schema was replaced by http.                  *)
AnchorPort(u) == IF u.port = (IF u.schema = "https" THEN 443 ELSE 80) THEN 0 ELSE u.port

-----------------------------------------------------------------------------
(* parse, as all copies of it do: they differ in the port of an address that *)
(* writes none the browser keeps.                                            *)
fill_query(obj, query) ==
  [obj EXCEPT !.vhost = Or(query.domain, Or(query.vhost, @)),
              !.schema = Or(query.schema, @)]

ParsedVhost(u) ==
  LET v == Or(u.appVhost, u.server)
  IN IF v = u.server /\ u.server \in Ips THEN DefaultVhost ELSE v

(* Mutant: the schema of the query is not looked at.                         *)
PageApiPort(u, page, plain) ==
  IF u.schema \notin {"webrtc", "rtc"} THEN 0
  ELSE IF page.protocol = "https" THEN 443 ELSE plain

(* For the API: 443 when the page or the query says https, or a default.     *)
ApiPort(u, page, plain) ==
  IF u.schema \notin {"webrtc", "rtc"} THEN 0
  ELSE IF "https" \in {u.query.schema, page.protocol} THEN 443 ELSE plain

Parsed(u, page, port, plain) ==
  fill_query([schema |-> u.schema, server |-> u.server, app |-> u.app, stream |-> u.stream,
              port |-> OrPort(port, ApiPort(u, page, plain)), vhost |-> ParsedVhost(u),
              user_query |-> u.query], u.query)

GuessPort(u) == OrPort(AnchorPort(u), DefaultPort(u.schema))

(* players/js/srs.sdk.js also finds the port the browser dropped.            *)
WrittenPort(u) == IF u.schema = "webrtc" /\ AnchorPort(u) = 0 THEN u.port ELSE GuessPort(u)

PublisherParse(u, page) == Parsed(u, page, WrittenPort(u), 1985)
PlayerParse(u, page) == Parsed(u, page, WrittenPort(u), 1985)
DemoPublisherParse(u, page) == Parsed(u, page, GuessPort(u), 1985)
DemoPlayerParse(u, page) == Parsed(u, page, GuessPort(u), 1985)
parse_rtmp_url(u, page) == Parsed(u, page, GuessPort(u), 1985)

(* prepareUrl: where the SDK posts its offer.                                *)
PrepareUrl(obj, page, defaultPath) ==
  LET schema == Or(obj.user_query.schema, page.protocol)
  IN [schema |-> schema, server |-> obj.server,
      port |-> OrPort(obj.port, IF schema = "https" THEN 443 ELSE 1985),
      path |-> Or(obj.user_query.play, defaultPath),
      vhost |-> obj.vhost, app |-> obj.app, stream |-> obj.stream]

PublisherApi(u, page) == PrepareUrl(PublisherParse(u, page), page, "/rtc/v1/publish/")
PlayerApi(u, page) == PrepareUrl(PlayerParse(u, page), page, "/rtc/v1/play/")
DemoPublisherApi(u, page) == PrepareUrl(DemoPublisherParse(u, page), page, "/rtc/v1/publish/")
DemoPlayerApi(u, page) == PrepareUrl(DemoPlayerParse(u, page), page, "/rtc/v1/play/")

-----------------------------------------------------------------------------
(* js/srs.page.js. q is the query of the page as parse_query_string gives    *)
(* it: domain is an alias of vhost.                                          *)
parse_query_string(query) == [query EXCEPT !.vhost = Or(query.domain, @)]

(* Everything but the known keys goes on into the address.                   *)
user_extra_params(q) == [domain |-> q.domain, play |-> q.play]

is_default_port(schema, port) ==
  <<schema, port>> \in {<<"http", 80>>, <<"https", 443>>, <<"webrtc", 1985>>, <<"rtmp", 1935>>}

VhostQuery(server, vhost) == IF server # vhost /\ vhost # DefaultVhost THEN vhost ELSE ""

build_default_flv_url(query, page) ==
  LET q == parse_query_string(query)
      schema == Or(q.schema, "http")
      server == Or(q.server, page.hostname)
      port == OrPort(q.port, IF schema = "http" THEN 8080 ELSE 1935)
  IN [schema |-> schema, server |-> server,
      port |-> IF is_default_port(schema, port) THEN 0 ELSE port,
      app |-> Or(q.app, "live"), appVhost |-> "", stream |-> Or(q.stream, "livestream.flv"),
      query |-> [vhost |-> VhostQuery(server, Or(q.vhost, page.hostname)), schema |-> "",
                 domain |-> user_extra_params(q).domain, play |-> user_extra_params(q).play]]

SchemaQuery(q, page) == IF q.schema # page.protocol THEN q.schema ELSE ""

build_default_rtc_url(query, page) ==
  LET q == parse_query_string(query)
      server == Or(q.server, page.hostname)
  IN [schema |-> "webrtc", server |-> server, port |-> q.api,
      app |-> Or(q.app, "live"), appVhost |-> "", stream |-> Or(q.stream, "livestream"),
      query |-> [vhost |-> VhostQuery(server, Or(q.vhost, page.hostname)),
                 schema |-> SchemaQuery(q, page),
                 domain |-> user_extra_params(q).domain, play |-> user_extra_params(q).play]]

(* The offer of WHIP and WHEP is posted to this address as it is; schema is  *)
(* the protocol, which is that of the page, schemaQuery what the query says. *)
build_default_whip_whep_url(query, page, apiPath) ==
  LET q == parse_query_string(query)
      server == Or(q.server, page.hostname)
  IN [schema |-> page.protocol, server |-> server,
      port |-> OrPort(q.api, IF page.protocol = "http" THEN 1985 ELSE 1990),
      path |-> Or(q.path, apiPath),
      vhost |-> Or(q.domain, VhostQuery(server, Or(q.vhost, page.hostname))),
      schemaQuery |-> SchemaQuery(q, page),
      app |-> Or(q.app, "live"), stream |-> Or(q.stream, "livestream")]

-----------------------------------------------------------------------------
(* demos/js/srs.sig.js: the values are cut out of the address of the page by *)
(* the text "host=", "room=", ..., so that vhost= also reads as host=, and   *)
(* only its v stays in the query that is handed on. query is a sequence of   *)
(* keys and values.                                                          *)
Cut(query, key, alias) ==
  LET hits == SelectInSeq(query, LAMBDA kv : kv[1] \in {key, alias})
  IN [value |-> IF hits = 0 THEN "" ELSE query[hits][2],
      rest |-> IF hits = 0 THEN query
               ELSE IF query[hits][1] = key THEN RemoveAt(query, hits)
               ELSE ReplaceAt(query, hits, <<"v", "">>)]

SignalKeys == <<"wss", "wsh", "wsp", "host", "room", "display", "autostart">>
Alias(key) == IF key = "host" THEN "vhost" ELSE key

SrsRtcSignalingParse(location) ==
  LET Value(key) == Cut(location.query, key, Alias(key)).value
  IN [wsSchema |-> Or(Value("wss"), IF location.protocol = "http" THEN "ws" ELSE "wss"),
      wsHost |-> Or(Value("wsh"), location.hostname), wsPort |-> Or(Value("wsp"), location.port),
      host |-> Or(Value("host"), location.hostname),
      room |-> Value("room"), display |-> Or(Value("display"), "random"),
      query |-> FoldLeft(LAMBDA q, key : Cut(q, key, Alias(key)).rest, location.query, SignalKeys)]

(* 'webrtc://' + host + '/' + room + '/' + display + query                   *)
DemoUrl(conf, display) ==
  LET Get(key) == Cut(conf.query, key, key).value
  IN [schema |-> "webrtc", server |-> conf.host, port |-> 0, app |-> conf.room, appVhost |-> "",
      stream |-> display, query |-> [vhost |-> Get("vhost"), domain |-> Get("domain"),
                                     schema |-> Get("schema"), play |-> ""]]

-----------------------------------------------------------------------------
(* The console's $sc_server. typed says that the port came as text, from a   *)
(* query or an input field: only the number 80 is left out of the base URL.  *)
ServerInit(location) ==
  [schema |-> Or(location.search.schema, location.protocol),
   host |-> Or(location.search.host, location.host),
   port |-> OrPort(location.search.port, location.port),
   typed |-> location.search.port # 0,
   http |-> OrPort(location.search.http, 8080)]

baseurl(s) == [schema |-> s.schema, host |-> s.host,
               port |-> IF s.port = 80 /\ ~s.typed THEN 0 ELSE s.port]

buildNavUrl(location, s) ==
  [location EXCEPT !.search.schema = s.schema, !.search.host = s.host, !.search.port = s.port]

(* The link to the player page for stream v: its host and its query.         *)
sc_filter_preview_url(v, s) ==
  [page |-> [protocol |-> s.schema, hostname |-> s.host, port |-> s.http],
   query |-> [vhost |-> v.owner, app |-> v.app, stream |-> v.name, server |-> s.host,
              port |-> s.http, schema |-> s.schema, api |-> 0, domain |-> "", path |-> "", play |-> ""]]

(* The address shown for stream v of the API: its tcUrl with the name, and   *)
(* without a query that only names the default vhost.                        *)
sc_filter_streamURL(v) ==
  LET default == v.tcUrl.query \in {[NoQuery EXCEPT !.vhost = DefaultVhost],
                                   [NoQuery EXCEPT !.domain = DefaultVhost]}
  IN [v.tcUrl EXCEPT !.stream = Or(v.name, v.url.stream),
                     !.query = IF default THEN NoQuery ELSE @]

=============================================================================
