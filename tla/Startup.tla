------------------------------ MODULE Startup ------------------------------
(***************************************************************************)
(* A webstore process from its command line to its end: main and           *)
(* parse_args of webstore.c, webstore_start and webstore_stop of           *)
(* webstore_uhd.c, around the server of Searest.  Signals may come at any  *)
(* time and redis may be lost as soon as there are handlers to find it     *)
(* gone, whatever main has come to by then.                                *)
(***************************************************************************)
EXTENDS Searest, Options

CONSTANTS
  Starts,       \* command lines and environments: [argv, env]
  Files,        \* the files that can be opened
  WellFormed,   \* the urls that the API has: its tokens and its options
  None

PortSize    == 65536            \* unsigned short
DefaultPost == 20 * 1024 * 1024

VARIABLES
  mainpc,     \* where main is
  how,        \* what the process was started with
  so,         \* srv_opts_t, g_logfile and where redis is
  rt,         \* wsrt_t
  rc,         \* the connection to redis
  shutdown    \* g_shutdown

mainVars == <<mainpc, how, so, rt, rc, shutdown>>
vars     == <<searestVars, mainVars>>

Before == {"args", "log", "redis", "configure", "start", "signals"}
Ended  == {"usage", "failed", "killed", "exited"}

(* Every variable keeps its type, and main is where the daemon says.        *)
TypeOK ==
  /\ SearestTypeOK
  /\ mainpc \in Before \cup {"wait", "stop", "disconnect"} \cup Ended
  /\ how \in Starts
  /\ rc \in {None, so.rsock, so.rip}
  /\ shutdown \in BOOLEAN
  /\ daemon # "none" => mainpc \in {"signals", "wait", "stop"} /\ rc # None

Init ==
  /\ SearestInit
  /\ mainpc = "args"
  /\ how \in Starts
  /\ so = [rsock |-> None, rip |-> None]
  /\ rt = [multithreaded |-> FALSE]
  /\ rc = None
  /\ shutdown = FALSE

Goto(l) == mainpc' = l

(* The process is gone, with whatever it was doing.                         *)
Exit(l) ==
  /\ Goto(l)
  /\ ws' = NoWs /\ daemon' = "none" /\ rc' = None
  /\ http' = [c \in Conns |-> NoRequest]
  /\ sent' = [c \in Conns |-> 0]
  /\ cpc' = [c \in Conns |-> "idle"]
  /\ ri' = [c \in Conns |-> NoRi]
  /\ UNCHANGED <<how, so, rt, shutdown>>

-----------------------------------------------------------------------------
(* The command line.                                                        *)

Option(name, shortName, args) == [name |-> name, shortName |-> shortName, args |-> args]

(* A short name of NULL is no word's.                                       *)
opts ==
  <<Option("ip", "I", TRUE), Option("port", "P", TRUE), Option("tpc", "t", FALSE),
    Option("log", "l", TRUE), Option("rsock", None, TRUE), Option("rtcp", None, TRUE),
    Option("cert", None, TRUE), Option("key", None, TRUE), Option("dsize", None, TRUE)>>

(* What getopts returns makes g_so and the globals; an --rtcp without a     *)
(* colon makes nothing.                                                     *)
OptionsOf(o) ==
  LET i   == SelectLastInSeq(o, LAMBDA r : r.ret = "rtcp" /\ r.arg.colon)
      tcp == IF i = 0 THEN [ip |-> None, port |-> 0] ELSE o[i].arg
  IN  [http_ip |-> Given(o, "ip", None),
       http_port |-> Given(o, "port", 0) % PortSize,
       use_threads |-> IsSet(o, "tpc"),
       logfile |-> Given(o, "log", None),
       rsock |-> Given(o, "rsock", None),
       rip |-> tcp.ip, rport |-> tcp.port % PortSize,
       certfile |-> Given(o, "cert", None), keyfile |-> Given(o, "key", None),
       max_post_data_size |-> Given(o, "dsize", DefaultPost)]

Usable(s) ==
  /\ s.rsock # None \/ s.rip # None
  /\ s.rip # None => s.rport # 0
  /\ s.http_port # 0
  /\ s.certfile # None <=> s.keyfile # None
  /\ s.max_post_data_size >= 6

parse_args ==
  LET o == Scan(how.argv, opts)
      s == OptionsOf(o)
  IN  /\ mainpc = "args"
      /\ IF IsUsage(o) THEN Exit("usage")
         ELSE IF ~Usable(s) THEN Exit("failed")
         ELSE /\ so' = s
              /\ Goto("log")
              /\ UNCHANGED <<searestVars, how, rt, rc, shutdown>>

log_open ==
  /\ mainpc = "log"
  /\ IF so.logfile \notin Files \cup {None}
     THEN Exit("failed")
     ELSE Goto("redis") /\ UNCHANGED <<searestVars, how, so, rt, rc, shutdown>>

-----------------------------------------------------------------------------
(* webstore_start                                                           *)

rai_connect ==
  /\ mainpc = "redis"
  /\ \/ Exit("failed")
     \/ /\ rc' = IF so.rsock # None THEN so.rsock ELSE so.rip
        /\ Goto("configure")
        /\ UNCHANGED <<searestVars, how, so, rt, shutdown>>

NodeList == <<"config", "store128", "store160", "store224", "store256", "store384", "store512">>

Limited(r) == r.reqperiod > 0 /\ r.reqcount > 0

(* getenv and atoi; a variable that is not set is 0.                        *)
Environment ==
  LET e == how.env
  IN  [multithreaded |-> so.use_threads, max_post_data_size |-> so.max_post_data_size,
       reqperiod |-> e.REQPERIOD, reqcount |-> e.REQCOUNT,
       expiration |-> IF e.EXPIRATION < 0 THEN 0 ELSE e.EXPIRATION,
       immutable |-> e.IMMUTABLE, bar |-> e.BAR]

Setting == [REQPERIOD: Int, REQCOUNT: Int, EXPIRATION: Int, IMMUTABLE: BOOLEAN, BAR: BOOLEAN]

(* An argument is a word, and atoi and atol make a number of any word.      *)
Argument(r) ==
  /\ r.ret \in {"cert", "key", "rsock"} => r.arg # None
  /\ r.ret \in {"port", "dsize"} => r.arg \in Int
  /\ r.ret = "rtcp" => r.arg.colon \in BOOLEAN /\ (r.arg.colon => r.arg.ip # None)

(* The nodes have roots, and the urls of the API are as long as their root  *)
(* with the shortest option or with the longest token.                      *)
ASSUME StartupAssumption ==
  /\ \A i \in 1..7 : NodeList[i] \in Nodes
  /\ WellFormed \subseteq Urls /\ \A u \in WellFormed : UrlLen[u] \in (8 + 3)..(128 + 11)
  /\ \A h \in Starts :
       /\ h.env \in Setting
       /\ Len(h.argv) \in Nat /\ h.argv = [i \in 1..Len(h.argv) |-> h.argv[i]]
       /\ \A k \in 1..Len(h.argv) : Argument(getopts(h.argv, k, opts))
       /\ Unambiguous(h.argv, opts)

(* The server that the options ask for, without its certificate.            *)
Configured(r) ==
  LET new     == searest_new(8 + 3, 128 + 11, so.max_post_data_size)
      nodes   == searest_node_add(new, NodeList)
      threads == IF so.use_threads THEN nodes ELSE searest_set_internal_select(nodes)
  IN  IF Limited(r) THEN searest_set_addr_cb(threads) ELSE threads

(* Variant, to see ServedAsAsked fail: a file that cannot be read is passed *)
(* over.                                                                    *)
activate_https_Carries(w) ==
  IF {so.certfile, so.keyfile} \subseteq Files
  THEN {searest_set_https_key(searest_set_https_cert(w))}
  ELSE {w}

(* The server with its certificate; none, if there is a file that cannot be *)
(* read.                                                                    *)
activate_https(w) ==
  IF {so.certfile, so.keyfile} \subseteq Files
  THEN {searest_set_https_key(searest_set_https_cert(w))}
  ELSE {}

Configure ==
  LET w == Configured(Environment)
      s == IF so.certfile # None /\ so.keyfile # None THEN activate_https(w) ELSE {w}
  IN  /\ mainpc = "configure"
      /\ IF s = {}
         THEN Exit("failed")
         ELSE /\ ws' \in s
              /\ rt' = Environment
              /\ Goto("start")
              /\ UNCHANGED <<daemon, http, sent, cpc, ri, how, so, rc, shutdown>>

Start ==
  /\ mainpc = "start"
  /\ \/ /\ searest_start
        /\ daemon' = "run"
        /\ Goto("signals")
        /\ UNCHANGED <<how, so, rt, rc, shutdown>>
     \/ Exit("failed")

-----------------------------------------------------------------------------
(* main, when the server runs.                                              *)

(* Variant, to see StopsWhenTold fail: the loop begins with a clear flag.   *)
InstallSignals_ClearsFlag ==
  /\ mainpc = "signals"
  /\ Goto("wait")
  /\ shutdown' = FALSE
  /\ UNCHANGED <<searestVars, how, so, rt, rc>>

InstallSignals ==
  /\ mainpc = "signals"
  /\ Goto("wait")
  /\ UNCHANGED <<searestVars, how, so, rt, rc, shutdown>>

(* The loop ends, and webstore_stop begins.                                 *)
Stop ==
  /\ mainpc = "wait"
  /\ shutdown
  /\ StopDaemon
  /\ Goto("stop")
  /\ UNCHANGED <<how, so, rt, rc, shutdown>>

Join ==
  /\ mainpc = "stop"
  /\ DaemonStopped
  /\ UNCHANGED mainVars

Delete ==
  /\ mainpc = "stop"
  /\ searest_del
  /\ Goto("disconnect")
  /\ UNCHANGED <<how, so, rt, rc, shutdown>>

(* rai_disconnect, log_close and the end of main.                           *)
Disconnect == mainpc = "disconnect" /\ Exit("exited")

Main ==
  \/ parse_args \/ log_open \/ rai_connect \/ Configure \/ Start
  \/ InstallSignals \/ Stop \/ Join \/ Delete \/ Disconnect

-----------------------------------------------------------------------------
(* SIGINT, SIGTERM, SIGQUIT, SIGHUP: until sig_handler is there they end    *)
(* the process, and SIGPIPE does too.                                       *)
Kill == mainpc \in Before /\ Exit("killed")

Signal ==
  /\ mainpc \in {"wait", "stop", "disconnect"}
  /\ ~shutdown
  /\ shutdown' = TRUE
  /\ UNCHANGED <<searestVars, mainpc, how, so, rt, rc>>

(* A store node's handler, or the limiter, finds that redis is gone:        *)
(* handle_redis_error.                                                      *)
UsesRedis ==
  \/ \E c \in Conns : cpc[c] = "handling" /\ ri[c].node # "config"
  \/ daemon = "run" /\ ws.addr_cb

RedisLost ==
  /\ UsesRedis
  /\ ~shutdown
  /\ shutdown' = TRUE
  /\ UNCHANGED <<searestVars, mainpc, how, so, rt, rc>>

ServeConn(c) == Serve(c) /\ UNCHANGED mainVars

(* MHD_stop_daemon closes the connections that wait for their clients.      *)
ClientStep(c) == (Arrive(c) \/ Abort(c)) /\ UNCHANGED mainVars

Next ==
  \/ Main \/ Kill \/ Signal \/ RedisLost
  \/ \E c \in Conns : ServeConn(c) \/ ClientStep(c)

Spec == Init /\ [][Next]_vars

(* main, MHD and the handlers go on.  With one thread a connection waits    *)
(* for the handlers of the others, again and again, but MHD's select loop   *)
(* serves every connection that is ready in its turn.  A client that goes   *)
(* silent is thrown out only when the daemon stops: searest_start asks for  *)
(* no timeout.                                                              *)
FairSpec ==
  /\ Spec
  /\ WF_vars(Main)
  /\ \A c \in Conns :
       SF_vars(ServeConn(c)) /\ WF_vars(daemon = "stopping" /\ ClientStep(c))

-----------------------------------------------------------------------------
(* Why the safety properties below hold: the inductive invariant.           *)

(* What main has done when it has come to where it is.                      *)
MainInv ==
  LET o == Scan(how.argv, opts)
      r == IF so.rsock # None THEN so.rsock ELSE so.rip
  IN  /\ mainpc \in Before \cup {"wait", "stop", "disconnect"} \cup Ended
      /\ how \in Starts /\ shutdown \in BOOLEAN
      /\ mainpc \notin {"args"} \cup Ended => ~IsUsage(o) /\ so = OptionsOf(o) /\ Usable(so)
      /\ rc = IF mainpc \in {"args", "log", "redis"} \cup Ended THEN None ELSE r
      /\ daemon \in CASE mainpc \in {"signals", "wait"} -> {"run"}
                      [] mainpc = "stop" -> {"stopping", "stopped"}
                      [] OTHER -> {"none"}

(* The server object that webstore_start has made.                          *)
ServerInv ==
  IF mainpc \in {"start", "signals", "wait", "stop"}
  THEN /\ rt = Environment
       /\ ws = [Configured(rt) EXCEPT !.https =
                   IF so.certfile # None THEN {"cert", "key"} ELSE {}]
  ELSE ws = NoWs

(* What the first call has put into *con_cls.                               *)
Received(c) ==
  /\ ri[c] # NoRi
  /\ ri[c].url = http[c].url
  /\ ri[c].method = http[c].method
  /\ ri[c].content_length = ContentLength(http[c])
  /\ Len(ri[c].post_data) <= ri[c].content_length

(* The upload, as far as MHD has passed it on.                              *)
ConnInv(c) ==
  /\ cpc[c] = "idle" => ri[c] = NoRi
  /\ cpc[c] = "headers" => ri[c] = NoRi /\ sent[c] = 0
  /\ cpc[c] # "idle" => http[c] \in Requests /\ daemon \in {"run", "stopping"}
  /\ cpc[c] \notin {"idle", "headers"} => Received(c)
  /\ cpc[c] \in {"body", "handling", "respond", "queued"} => Acceptable(http[c])
  /\ cpc[c] = "body" =>
       /\ sent[c] <= Len(http[c].body)
       /\ ri[c].post_data = SubSeq(http[c].body, 1, sent[c])
  /\ cpc[c] \in {"handling", "respond", "queued"} =>
       /\ ri[c].post_data = http[c].body
       /\ Len(http[c].body) = ContentLength(http[c])
  /\ cpc[c] = "handling" => ri[c].node \in Nodes
  /\ cpc[c] = "closing" =>
       IF Acceptable(http[c])
       THEN Len(http[c].body) > ContentLength(http[c])
       ELSE ri[c].post_data = <<>>

ConnType ==
  /\ http \in [Conns -> Requests \cup {NoRequest}]
  /\ sent \in [Conns -> Nat]
  /\ cpc \in [Conns -> {"idle", "headers", "body", "handling", "respond", "queued", "closing"}]
  /\ ri \in [Conns -> ConnInfo \cup {NoRi}]

IInv == MainInv /\ ServerInv /\ ConnType /\ \A c \in Conns : ConnInv(c)

-----------------------------------------------------------------------------
(* A server that serves is the one that the command line, read word by      *)
(* word, and the environment ask for.  Of an option that is said twice the  *)
(* last counts (of --rtcp the last with a colon), and what comes after a    *)
(* word that is neither option nor argument is not read (getopts,           *)
(* parse_args).  A port is kept in 16 bits, so that -P 65616 serves port 80 *)
(* (webstore.c:204), but never port 0.  The server is behind a certificate  *)
(* exactly when one is asked for, never in plain HTTP because a file could  *)
(* not be read; it has the limiter only if both of its settings are         *)
(* positive; redis is the socket, or else the address (webstore_start).     *)
ServedAsAsked ==
  LET words == OptionWords(how.argv, opts)
      Said(name) == {i \in words : Names(opts, how.argv[i], name)}
      Ordered(name) == Said(name) # {}
      Order(name, default) ==
        IF Ordered(name) THEN ArgAt(how.argv, opts, Max(Said(name))) ELSE default
      addresses == {i \in Said("rtcp") : ArgAt(how.argv, opts, i).colon}
      tcp == IF addresses # {} THEN ArgAt(how.argv, opts, Max(addresses))
                               ELSE [ip |-> None, port |-> 0]
      e == how.env
  IN  daemon = "run" =>
        /\ so.http_ip = Order("ip", None)
        /\ so.http_port = Order("port", 0) % PortSize /\ so.http_port # 0
        /\ rc = IF Ordered("rsock") THEN Order("rsock", None) ELSE tcp.ip
        /\ rc # None
        /\ so.rport = tcp.port % PortSize /\ (addresses # {} => so.rport # 0)
        /\ so.logfile = Order("log", None)
        /\ Ordered("cert") <=> Ordered("key")
        /\ so.certfile = Order("cert", None) /\ so.keyfile = Order("key", None)
        /\ ws.https = IF Ordered("cert") THEN {"cert", "key"} ELSE {}
        /\ ws.threads = Ordered("tpc") /\ rt.multithreaded = Ordered("tpc")
        /\ ws.max_content_length = Order("dsize", DefaultPost)
        /\ rt.max_post_data_size = Order("dsize", DefaultPost) /\ rt.max_post_data_size >= 6
        /\ ws.addr_cb <=> e.REQPERIOD > 0 /\ e.REQCOUNT > 0
        /\ rt.reqperiod = e.REQPERIOD /\ rt.reqcount = e.REQCOUNT
        /\ rt.expiration = IF e.EXPIRATION > 0 THEN e.EXPIRATION ELSE 0
        /\ rt.immutable = e.IMMUTABLE /\ rt.bar = e.BAR

(* A request that the API allows is never cut off: the limits of            *)
(* searest_new let the shortest option and the longest token pass, and an   *)
(* upload that is as long as announced and no longer than --dsize comes     *)
(* through in whatever pieces it is read.                                   *)
RefusedForCause ==
  \A c \in Conns : cpc[c] = "closing" =>
    ~ /\ http[c].url \in WellFormed
      /\ http[c].method \in Methods
      /\ ContentLength(http[c]) <= so.max_post_data_size
      /\ Len(http[c].body) <= ContentLength(http[c])

(* A request whose upload is sent as announced, or that has none, comes to  *)
(* its end: it is answered or refused, and its connection is free for the   *)
(* next one; and webstore_stop comes back, although there is no timeout.    *)
SentInFull(r) == r # NoRequest /\ r.length \in {NoHeader, Len(r.body)}

RequestsEnd ==
  /\ \A c \in Conns : SentInFull(http[c]) ~> cpc[c] = "idle"
  /\ daemon = "stopping" ~> daemon = "none"

(* Whoever asks the server to stop, a signal or a handler that finds redis  *)
(* gone, is heard, also before main has come to its loop.                   *)
StopsWhenTold == shutdown ~> mainpc \in Ended
=============================================================================
