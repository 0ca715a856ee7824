---------------------------- MODULE StartupProofs ----------------------------
(***************************************************************************)
(* What holds of every webstore process, whatever its command line and     *)
(* environment and however many connections it serves.                     *)
(***************************************************************************)
EXTENDS Startup, OptionsProofs, SequenceTheorems

-----------------------------------------------------------------------------
(* The command line.                                                        *)

(* A command line is a sequence of words.                                   *)
Words(h) == {h.argv[i] : i \in 1..Len(h.argv)}

LEMMA CommandLine == ASSUME NEW h \in Starts PROVE h.argv \in Seq(Words(h))
<1> DEFINE argv == h.argv
           n == Len(argv)
           W == Words(h)
<1>1. n \in Nat /\ argv = [i \in 1..n |-> argv[i]] BY StartupAssumption
<1>2. \A i \in 1..n : argv[i] \in W BY DEF Words
<1> HIDE DEF argv, n, W
<1>3. argv \in [1..n -> W] BY <1>1, <1>2
<1> QED BY <1>1, <1>3 DEF argv, W

(* The argument that a program takes for an option is one it was given with *)
(* that option (parse_args, get_args).                                      *)
LEMMA ArgumentOf ==
  ASSUME NEW h \in Starts, NEW name, name # "end", IsSet(Scan(h.argv, opts), name)
  PROVE  /\ name \in {"cert", "key", "rsock"} => ArgOf(Scan(h.argv, opts), name) # None
         /\ name \in {"port", "dsize"} => ArgOf(Scan(h.argv, opts), name) \in Int
<1> DEFINE argv == h.argv
<1>1. /\ Len(argv) \in Nat /\ argv = [i \in 1..Len(argv) |-> argv[i]]
      /\ \A k \in 1..Len(argv) : Argument(getopts(argv, k, opts))
  BY StartupAssumption
<1>2. IsSet(Scan(argv, opts), name) OBVIOUS
<1> HIDE DEF argv
<1>3. argv \in Seq(Words(h)) BY CommandLine DEF argv
<1>4. PICK k \in 1..Len(argv) : /\ getopts(argv, k, opts).ret = name
                                /\ ArgOf(Scan(argv, opts), name) = getopts(argv, k, opts).arg
  BY <1>2, <1>3, Argued
<1>5. Argument(getopts(argv, k, opts)) BY <1>1
<1> QED BY <1>4, <1>5 DEF Argument, argv

(* A port as it is kept, in 16 bits.                                        *)
LEMMA PortFits ==
  ASSUME NEW n \in Int
  PROVE  n % PortSize \in 0..(PortSize - 1)
<1>1. ASSUME NEW m \in Nat \ {0} PROVE n % m \in 0..(m - 1) OBVIOUS
<1>2. PortSize \in Nat \ {0} BY DEF PortSize
<1> QED BY <1>1, <1>2

(* What parse_args has made of usable options (srv_opts_t and its checks).  *)
LEMMA OptionsMean ==
  ASSUME NEW h \in Starts, NEW s, s = OptionsOf(Scan(h.argv, opts)), Usable(s)
  PROVE  /\ s.max_post_data_size = Given(Scan(h.argv, opts), "dsize", DefaultPost)
         /\ s.max_post_data_size \in Nat /\ s.max_post_data_size >= 6
         /\ s.http_port \in 1..(PortSize - 1)
         /\ s.certfile # None <=> IsSet(Scan(h.argv, opts), "cert")
         /\ s.keyfile # None <=> IsSet(Scan(h.argv, opts), "key")
         /\ s.certfile # None <=> s.keyfile # None
         /\ IsSet(Scan(h.argv, opts), "rsock") =>
              s.rsock # None /\ s.rsock = ArgOf(Scan(h.argv, opts), "rsock")
         /\ s.use_threads = IsSet(Scan(h.argv, opts), "tpc")
         /\ s.rsock # None \/ s.rip # None
<1> DEFINE o == Scan(h.argv, opts)
           port == Given(o, "port", 0)
           size == Given(o, "dsize", DefaultPost)
<1>1. /\ IsSet(o, "cert") => ArgOf(o, "cert") # None
      /\ IsSet(o, "key") => ArgOf(o, "key") # None
      /\ IsSet(o, "rsock") => ArgOf(o, "rsock") # None
      /\ IsSet(o, "port") => ArgOf(o, "port") \in Int
      /\ IsSet(o, "dsize") => ArgOf(o, "dsize") \in Int
  BY ArgumentOf
<1> HIDE DEF o
<1>2. port \in Int /\ size \in Int BY <1>1 DEF Given, DefaultPost
<1> HIDE DEF port, size
<1>3. /\ s.http_port = port % PortSize /\ s.max_post_data_size = size
      /\ s.certfile = Given(o, "cert", None) /\ s.keyfile = Given(o, "key", None)
      /\ s.rsock = Given(o, "rsock", None)
      /\ s.use_threads = IsSet(o, "tpc")
  BY DEF OptionsOf, o, port, size
<1>4. size >= 6 /\ s.http_port # 0 /\ (s.rsock # None \/ s.rip # None)
      /\ (s.certfile # None <=> s.keyfile # None)
  BY <1>3 DEF Usable
<1>5. s.http_port \in 1..(PortSize - 1)
  <2>1. port % PortSize \in 0..(PortSize - 1) BY <1>2, PortFits
  <2>2. PortSize \in Nat BY DEF PortSize
  <2> QED BY <1>3, <1>4, <2>1, <2>2
<1>6. /\ s.certfile # None <=> IsSet(o, "cert")
      /\ s.keyfile # None <=> IsSet(o, "key")
      /\ IsSet(o, "rsock") => s.rsock # None /\ s.rsock = ArgOf(o, "rsock")
  BY <1>1, <1>3 DEF Given
<1>7. size \in Nat BY <1>2, <1>4
<1> QED BY <1>3, <1>4, <1>5, <1>6, <1>7 DEF o, size

(* What a command line says to who reads it word by word, as ServedAsAsked  *)
(* does.                                                                    *)
Said(h, name) == {i \in OptionWords(h.argv, opts) : Names(opts, h.argv[i], name)}

Order(h, name, default) ==
  IF Said(h, name) # {} THEN ArgAt(h.argv, opts, Max(Said(h, name))) ELSE default

Addresses(h) == {i \in Said(h, "rtcp") : ArgAt(h.argv, opts, i).colon}

Address(h) == IF Addresses(h) # {} THEN ArgAt(h.argv, opts, Max(Addresses(h)))
                                   ELSE [ip |-> None, port |-> 0]

(* webstore's options are nine, and none has the name of another result.    *)
LEMMA OptsPlain == opts \in Seq({opts[i] : i \in 1..9}) /\ Plain(opts)
<1>1. Len(opts) = 9 /\ opts = [i \in 1..9 |-> opts[i]] BY DEF opts
<1>2. opts \in Seq({opts[i] : i \in 1..9})
  <2> DEFINE T == {opts[i] : i \in 1..9}
  <2>1. PICK n \in Nat : n = 9 OBVIOUS
  <2>2. opts \in [1..n -> T] BY <1>1, <2>1
  <2> HIDE DEF T
  <2>3. opts \in Seq(T) BY <2>2
  <2> QED BY <2>3 DEF T
<1>3. \A i \in 1..9 : opts[i].name \notin {"end", "usage", "unknown"} BY DEF opts, Option
<1> QED BY <1>1, <1>2, <1>3 DEF Plain

(* What parse_args has of an option, and what the words say of it.          *)
LEMMA Meant ==
  ASSUME NEW h \in Starts, ~IsUsage(Scan(h.argv, opts)),
         NEW name, name \notin {"end", "usage", "unknown"}, NEW default
  PROVE  /\ IsSet(Scan(h.argv, opts), name) <=> Said(h, name) # {}
         /\ Given(Scan(h.argv, opts), name, default) = Order(h, name, default)
<1> DEFINE o == Scan(h.argv, opts)
           said == {i \in OptionWords(h.argv, opts) :
                      Names(opts, h.argv[i], name) /\ ArgAt(h.argv, opts, i) \notin {}}
           seen == {j \in 1..Len(o) : o[j].ret = name /\ o[j].arg \notin {}}
<1>1. /\ said = {} <=> seen = {}
      /\ said # {} => /\ Max(seen) \in seen /\ Max(said) \in said
                      /\ o[Max(seen)].arg = ArgAt(h.argv, opts, Max(said))
  <2>1. Unambiguous(h.argv, opts) BY StartupAssumption
  <2>2. SeenAsSaid(h.argv, opts, name, {}) BY <2>1, CommandLine, OptsPlain, Understood
  <2> QED BY <2>2 DEF SeenAsSaid
<1>2. said = Said(h, name) BY DEF Said
<1>3. seen = {j \in 1..Len(o) : o[j].ret = name} OBVIOUS
<1>4. IsSet(o, name) <=> seen # {} BY DEF IsSet
<1>5. seen # {} => ArgOf(o, name) = o[Max(seen)].arg BY <1>3 DEF ArgOf, SelectLastInSeq
<1> HIDE DEF o, said, seen
<1> QED BY <1>1, <1>2, <1>4, <1>5 DEF Given, Order, o

(* The same of the addresses of redis: those without a colon do not count.  *)
LEMMA AddressMeant ==
  ASSUME NEW h \in Starts, ~IsUsage(Scan(h.argv, opts))
  PROVE  LET o == Scan(h.argv, opts)
             i == SelectLastInSeq(o, LAMBDA r : r.ret = "rtcp" /\ r.arg.colon)
         IN  /\ Address(h) = IF i = 0 THEN [ip |-> None, port |-> 0] ELSE o[i].arg
             /\ Addresses(h) # {} => Address(h).ip # None
<1> DEFINE argv == h.argv
           o == Scan(argv, opts)
           Args == {getopts(argv, k, opts).arg : k \in 1..(Len(argv) + 1)}
                     \cup {ArgAt(argv, opts, k) : k \in 1..Len(argv)}
           B == {x \in Args : ~x.colon}
           said == {i \in OptionWords(argv, opts) :
                      Names(opts, argv[i], "rtcp") /\ ArgAt(argv, opts, i) \notin B}
           seen == {j \in 1..Len(o) : o[j].ret = "rtcp" /\ o[j].arg \notin B}
           i == SelectLastInSeq(o, LAMBDA r : r.ret = "rtcp" /\ r.arg.colon)
<1>1. /\ said = {} <=> seen = {}
      /\ said # {} => /\ Max(seen) \in seen /\ Max(said) \in said
                      /\ o[Max(seen)].arg = ArgAt(argv, opts, Max(said))
  <2>1. Unambiguous(argv, opts) /\ argv \in Seq(Words(h)) BY StartupAssumption, CommandLine
  <2>2. ~IsUsage(Scan(argv, opts)) OBVIOUS
  <2> HIDE DEF argv, B
  <2>3. SeenAsSaid(argv, opts, "rtcp", B) BY <2>1, <2>2, OptsPlain, Understood
  <2> QED BY <2>3 DEF SeenAsSaid
<1>2. o \in Seq({getopts(argv, k, opts) : k \in 1..(Len(argv) + 1)})
  BY CommandLine, Scanned
<1>3. said = Addresses(h)
  <2>1. \A k \in OptionWords(argv, opts) : ArgAt(argv, opts, k) \in Args BY DEF OptionWords
  <2> HIDE DEF Args
  <2>2. \A k \in OptionWords(argv, opts) :
          ArgAt(argv, opts, k) \notin B <=> ArgAt(argv, opts, k).colon
    BY <2>1
  <2> HIDE DEF B
  <2> QED BY <2>2 DEF Addresses, Said
<1>4. seen = {j \in 1..Len(o) : o[j].ret = "rtcp" /\ o[j].arg.colon}
  <2>1. \A j \in 1..Len(o) : o[j].arg \in Args
    <3> HIDE DEF o, argv
    <3> QED BY <1>2
  <2> HIDE DEF Args, o
  <2> QED BY <2>1
<1>5. i = IF seen # {} THEN Max(seen) ELSE 0
  <2>1. i = IF {j \in 1..Len(o) : o[j].ret = "rtcp" /\ o[j].arg.colon} # {}
            THEN Max({j \in 1..Len(o) : o[j].ret = "rtcp" /\ o[j].arg.colon}) ELSE 0
    BY DEF SelectLastInSeq
  <2> HIDE DEF seen, o, i
  <2> QED BY <1>4, <2>1
<1>6. seen # {} => i # 0
  <2>1. \A j \in seen : j \in 1..Len(o) OBVIOUS
  <2> HIDE DEF seen, i, said, o, argv
  <2> QED BY <1>1, <1>5, <2>1
<1>7. seen # {} => o[Max(seen)].arg.ip # None
  <2> SUFFICES ASSUME seen # {} PROVE o[Max(seen)].arg.ip # None OBVIOUS
  <2> DEFINE m == Max(seen)
  <2>1. m \in 1..Len(o) /\ o[m].ret = "rtcp" /\ o[m].arg.colon
    <3>1. m \in seen
      <4> HIDE DEF seen, said, o, argv
      <4> QED BY <1>1
    <3> HIDE DEF seen, m
    <3> QED BY <1>4, <3>1
  <2> HIDE DEF m, o, argv, seen
  <2>2. PICK k \in 1..(Len(argv) + 1) : o[m] = getopts(argv, k, opts) BY <1>2, <2>1
  <2>3. k # Len(argv) + 1
    <3>1. Len(argv) \in Nat BY StartupAssumption DEF argv
    <3>2. ASSUME k = Len(argv) + 1 PROVE FALSE
      <4>1. getopts(argv, k, opts).ret = "end" BY <3>1, <3>2 DEF getopts, Result
      <4> QED BY <2>1, <2>2, <4>1
    <3> QED BY <3>2
  <2>4. Argument(o[m])
    <3>1. k \in 1..Len(argv) BY <2>3, StartupAssumption DEF argv
    <3>2. Argument(getopts(argv, k, opts)) BY <3>1, StartupAssumption DEF argv
    <3> QED BY <2>2, <3>2
  <2> QED BY <2>1, <2>4 DEF Argument, m
<1> HIDE DEF o, argv, said, seen, i
<1>8. /\ Address(h) = IF i = 0 THEN [ip |-> None, port |-> 0] ELSE o[i].arg
      /\ Addresses(h) # {} => Address(h).ip # None
  BY <1>1, <1>3, <1>5, <1>6, <1>7 DEF Address, argv
<1> QED BY <1>8 DEF o, argv, i

-----------------------------------------------------------------------------
(* The server.                                                              *)

Serving == {"start", "signals", "wait", "stop"}

(* What webstore_start asks searest for before it looks for a certificate.  *)
LEMMA ConfiguredIs ==
  ASSUME so.use_threads \in BOOLEAN, NEW r
  PROVE  Configured(r) \in
           [nodes : {<<>> \o NodeList}, min_url_len : {11}, max_url_len : {139},
            max_content_length : {so.max_post_data_size}, threads : {so.use_threads},
            addr_cb : {Limited(r)}, https : {{}}]
<1> DEFINE new == searest_new(8 + 3, 128 + 11, so.max_post_data_size)
           nodes == searest_node_add(new, NodeList)
           threads == IF so.use_threads THEN nodes ELSE searest_set_internal_select(nodes)
           all == <<>> \o NodeList
           V(n, t, a) ==
             [nodes : {n}, min_url_len : {11}, max_url_len : {139},
              max_content_length : {so.max_post_data_size}, threads : {t},
              addr_cb : {a}, https : {{}}]
<1>1. nodes \in V(all, TRUE, FALSE)
  <2>1. new.nodes = <<>> /\ new \in V(<<>>, TRUE, FALSE) BY DEF searest_new
  <2> HIDE DEF new
  <2>2. nodes = [new EXCEPT !.nodes = all] BY <2>1 DEF searest_node_add
  <2> HIDE DEF nodes, all
  <2> QED BY <2>1, <2>2
<1> HIDE DEF nodes, all
<1>2. threads \in V(all, so.use_threads, FALSE)
  <2>1. CASE so.use_threads = TRUE BY <1>1, <2>1
  <2>2. CASE so.use_threads = FALSE
    <3>1. threads = [nodes EXCEPT !.threads = FALSE] BY <2>2 DEF searest_set_internal_select
    <3> HIDE DEF threads
    <3> QED BY <1>1, <2>2, <3>1
  <2> QED BY <2>1, <2>2
<1>3. Configured(r) = IF Limited(r) THEN searest_set_addr_cb(threads) ELSE threads
  BY DEF Configured, nodes
<1> HIDE DEF threads
<1>4. Configured(r) \in V(all, so.use_threads, Limited(r))
  <2>1. Limited(r) \in BOOLEAN BY DEF Limited
  <2>2. CASE Limited(r) = TRUE
    <3>1. Configured(r) = [threads EXCEPT !.addr_cb = TRUE]
      BY <1>3, <2>2 DEF searest_set_addr_cb
    <3>2. PICK x : x = threads OBVIOUS
    <3>3. x \in V(all, so.use_threads, FALSE) BY <1>2, <2>2, <3>2
    <3>4. [x EXCEPT !.addr_cb = TRUE] \in V(all, so.use_threads, TRUE) BY <3>3
    <3> QED BY <2>2, <3>1, <3>2, <3>4
  <2>3. CASE Limited(r) = FALSE BY <1>2, <1>3, <2>3
  <2> QED BY <2>1, <2>2, <2>3
<1> QED BY <1>4 DEF all

(* What webstore_start has asked searest for.                               *)
LEMMA ServerIs ==
  ASSUME MainInv, ServerInv, mainpc \in Serving
  PROVE  /\ ws \in ServerInfo
         /\ ws.nodes = NodeList /\ ws.min_url_len = 11 /\ ws.max_url_len = 139
         /\ ws.max_content_length = so.max_post_data_size
         /\ ws.threads = so.use_threads
         /\ ws.addr_cb = Limited(rt)
         /\ ws.https = (IF so.certfile # None THEN {"cert", "key"} ELSE {})
<1> DEFINE w == Configured(rt)
           cert == IF so.certfile # None THEN {"cert", "key"} ELSE {}
<1>1. so = OptionsOf(Scan(how.argv, opts)) /\ Usable(so) /\ how \in Starts
  BY DEF MainInv, Serving, Ended
<1>2. so.max_post_data_size \in Nat /\ so.use_threads \in BOOLEAN BY <1>1, OptionsMean DEF IsSet
<1>3. ws = [w EXCEPT !.https = cert] BY DEF ServerInv, Serving
<1>4. NodeList \in Seq(Nodes) /\ NodeList # <<>>
  <2>1. /\ NodeList[1] \in Nodes /\ NodeList[2] \in Nodes /\ NodeList[3] \in Nodes
        /\ NodeList[4] \in Nodes /\ NodeList[5] \in Nodes /\ NodeList[6] \in Nodes
        /\ NodeList[7] \in Nodes
    BY StartupAssumption
  <2>2. /\ NodeList[1] = "config" /\ NodeList[2] = "store128" /\ NodeList[3] = "store160"
        /\ NodeList[4] = "store224" /\ NodeList[5] = "store256" /\ NodeList[6] = "store384"
        /\ NodeList[7] = "store512"
    BY DEF NodeList
  <2> QED BY <2>1, <2>2 DEF NodeList
<1>5. <<>> \o NodeList = NodeList BY <1>4
<1>6. w \in [nodes : {NodeList}, min_url_len : {11}, max_url_len : {139},
            max_content_length : {so.max_post_data_size}, threads : {so.use_threads},
            addr_cb : {Limited(rt)}, https : {{}}]
  BY <1>2, <1>5, ConfiguredIs
<1>7. Limited(rt) \in BOOLEAN /\ cert \in SUBSET {"cert", "key"} BY DEF Limited
<1> HIDE DEF w, cert
<1>8. /\ ws \in ServerInfo
      /\ ws.nodes = NodeList /\ ws.min_url_len = 11 /\ ws.max_url_len = 139
      /\ ws.max_content_length = so.max_post_data_size
      /\ ws.threads = so.use_threads /\ ws.addr_cb = Limited(rt) /\ ws.https = cert
  BY <1>2, <1>3, <1>4, <1>6, <1>7 DEF ServerInfo
<1> QED BY <1>8 DEF cert

(* A connection is served only by a server that runs.                       *)
LEMMA WhenServing ==
  ASSUME MainInv
  PROVE  /\ daemon \in {"run", "stopping"} => mainpc \in Serving
         /\ daemon = "stopped" => mainpc = "stop"
         /\ daemon = "run" => mainpc \in {"signals", "wait"}
         /\ daemon \in {"none", "run", "stopping", "stopped"}
<1>1. \/ mainpc \in {"signals", "wait"} /\ daemon = "run"
      \/ mainpc = "stop" /\ daemon \in {"stopping", "stopped"}
      \/ mainpc \notin {"signals", "wait", "stop"} /\ daemon = "none"
  BY DEF MainInv
<1> QED BY <1>1 DEF Serving

(* Before anything has happened.                                            *)
LEMMA Begins == ASSUME Init PROVE IInv
<1> USE DEF Init, SearestInit
<1>1. MainInv BY DEF MainInv, Before, Ended
<1>2. ServerInv BY DEF ServerInv
<1>3. ConnType BY DEF ConnType
<1>4. \A c \in Conns : ConnInv(c) BY DEF ConnInv
<1> QED BY <1>1, <1>2, <1>3, <1>4 DEF IInv

(* A process that ends leaves nothing behind.                               *)
LEMMA Exits == ASSUME IInv, NEW l \in Ended, Exit(l) PROVE IInv'
<1>0. MainInv BY DEF IInv
<1> USE DEF Exit, Goto
<1>1. MainInv'
  <2>1. how' \in Starts /\ shutdown' \in BOOLEAN BY <1>0 DEF MainInv
  <2>2. mainpc' \in Ended /\ rc' = None /\ daemon' = "none" OBVIOUS
  <2>3. mainpc' \notin {"signals", "wait", "stop"} BY <2>2 DEF Ended
  <2> QED BY <2>1, <2>2, <2>3 DEF MainInv
<1>2. ServerInv' BY DEF ServerInv, Ended
<1>3. ConnType' BY DEF ConnType
<1>4. (\A c \in Conns : ConnInv(c))'
  <2>1. \A c \in Conns : cpc'[c] = "idle" /\ ri'[c] = NoRi OBVIOUS
  <2> QED BY <2>1 DEF ConnInv
<1> QED BY <1>1, <1>2, <1>3, <1>4 DEF IInv

(* What main does while no connection is open, or without touching the      *)
(* server object, does not disturb the connections.                         *)
LEMMA ConnsKeep ==
  ASSUME ConnType, \A c \in Conns : ConnInv(c), UNCHANGED <<http, sent, cpc, ri>>,
         \/ \A c \in Conns : cpc[c] = "idle"
         \/ ws' = ws /\ (daemon' = daemon \/ daemon' \in {"run", "stopping"})
  PROVE  ConnType' /\ (\A c \in Conns : ConnInv(c))'
<1>1. ConnType' BY DEF ConnType
<1>2. ASSUME NEW c \in Conns PROVE ConnInv(c)'
  <2>1. http'[c] = http[c] /\ sent'[c] = sent[c] /\ cpc'[c] = cpc[c] /\ ri'[c] = ri[c]
    OBVIOUS
  <2>2. ConnInv(c) OBVIOUS
  <2>3. CASE cpc[c] = "idle" BY <2>1, <2>2, <2>3 DEF ConnInv
  <2>4. CASE ws' = ws /\ (daemon' = daemon \/ daemon' \in {"run", "stopping"})
    BY <2>1, <2>2, <2>4 DEF ConnInv, Received, Acceptable
  <2> QED BY <2>3, <2>4
<1> QED BY <1>1, <1>2

(* No connection is open before the server runs and after it has stopped.   *)
LEMMA AllIdle ==
  ASSUME \A c \in Conns : ConnInv(c), daemon \notin {"run", "stopping"}
  PROVE  \A c \in Conns : cpc[c] = "idle" /\ ri[c] = NoRi
BY DEF ConnInv

-----------------------------------------------------------------------------
(* main, step by step.                                                      *)

(* parse_args ends the program or leaves what the command line means in so. *)
LEMMA ParseArgsKeeps == ASSUME IInv, parse_args PROVE IInv'
<1> DEFINE o == Scan(how.argv, opts)
           s == OptionsOf(o)
<1>1. /\ mainpc = "args"
      /\ \/ Exit("usage") \/ Exit("failed")
         \/ /\ ~IsUsage(o) /\ Usable(s) /\ so' = s /\ Goto("log")
            /\ UNCHANGED <<searestVars, how, rt, rc, shutdown>>
  BY DEF parse_args
<1> HIDE DEF s
<1>2. CASE Exit("usage") \/ Exit("failed") BY <1>2, Exits DEF Ended
<1>3. CASE /\ ~IsUsage(o) /\ Usable(s) /\ so' = s /\ Goto("log")
           /\ UNCHANGED <<searestVars, how, rt, rc, shutdown>>
  <2>0. MainInv /\ ServerInv /\ ConnType /\ \A c \in Conns : ConnInv(c) BY DEF IInv
  <2> USE <1>1, <1>3 DEF Goto, searestVars
  <2>1. how \in Starts /\ shutdown \in BOOLEAN /\ rc = None /\ daemon = "none"
    BY <2>0 DEF MainInv
  <2>2. ~IsUsage(Scan(how'.argv, opts)) /\ so' = OptionsOf(Scan(how'.argv, opts)) /\ Usable(so')
    BY DEF s
  <2>3. MainInv'
    <3> HIDE DEF o
    <3> QED BY <2>1, <2>2 DEF MainInv, Before, Ended
  <2>4. ServerInv' BY <2>0 DEF ServerInv
  <2>5. ConnType' /\ (\A c \in Conns : ConnInv(c))' BY <2>0, ConnsKeep
  <2> QED BY <2>3, <2>4, <2>5 DEF IInv
<1> QED BY <1>1, <1>2, <1>3

(* log_open fails, and with it the program, or goes on to redis.            *)
LEMMA LogOpenKeeps == ASSUME IInv, log_open PROVE IInv'
<1>1. /\ mainpc = "log"
      /\ \/ Exit("failed")
         \/ Goto("redis") /\ UNCHANGED <<searestVars, how, so, rt, rc, shutdown>>
  BY DEF log_open
<1>2. CASE Exit("failed") BY <1>2, Exits DEF Ended
<1>3. CASE Goto("redis") /\ UNCHANGED <<searestVars, how, so, rt, rc, shutdown>>
  <2>0. MainInv /\ ServerInv /\ ConnType /\ \A c \in Conns : ConnInv(c) BY DEF IInv
  <2> USE <1>1, <1>3 DEF Goto, searestVars
  <2>1. MainInv' BY <2>0 DEF MainInv, Before, Ended
  <2>2. ServerInv' BY <2>0 DEF ServerInv
  <2>3. ConnType' /\ (\A c \in Conns : ConnInv(c))' BY <2>0, ConnsKeep
  <2> QED BY <2>1, <2>2, <2>3 DEF IInv
<1> QED BY <1>1, <1>2, <1>3

(* rai_connect tries the socket if there is one, else the address.          *)
LEMMA ConnectKeeps == ASSUME IInv, rai_connect PROVE IInv'
<1> DEFINE r == IF so.rsock # None THEN so.rsock ELSE so.rip
<1>1. /\ mainpc = "redis"
      /\ \/ Exit("failed")
         \/ rc' = r /\ Goto("configure") /\ UNCHANGED <<searestVars, how, so, rt, shutdown>>
  BY DEF rai_connect
<1>2. CASE Exit("failed") BY <1>2, Exits DEF Ended
<1>3. CASE rc' = r /\ Goto("configure") /\ UNCHANGED <<searestVars, how, so, rt, shutdown>>
  <2>0. MainInv /\ ServerInv /\ ConnType /\ \A c \in Conns : ConnInv(c) BY DEF IInv
  <2> USE <1>1, <1>3 DEF Goto, searestVars
  <2>1. MainInv' BY <2>0 DEF MainInv, Before, Ended
  <2>2. ServerInv' BY <2>0 DEF ServerInv
  <2>3. ConnType' /\ (\A c \in Conns : ConnInv(c))' BY <2>0, ConnsKeep
  <2> QED BY <2>1, <2>2, <2>3 DEF IInv
<1> QED BY <1>1, <1>2, <1>3

(* webstore_start makes the server object from the environment, or does not *)
(* get its certificates.                                                    *)
LEMMA ConfigureKeeps == ASSUME IInv, Configure PROVE IInv'
<1> DEFINE w == Configured(Environment)
           s == IF so.certfile # None /\ so.keyfile # None THEN activate_https(w) ELSE {w}
<1>1. /\ mainpc = "configure"
      /\ \/ Exit("failed")
         \/ /\ ws' \in s /\ rt' = Environment /\ Goto("start")
            /\ UNCHANGED <<daemon, http, sent, cpc, ri, how, so, rc, shutdown>>
  BY DEF Configure
<1>2. CASE Exit("failed") BY <1>2, Exits DEF Ended
<1>3. CASE /\ ws' \in s /\ rt' = Environment /\ Goto("start")
           /\ UNCHANGED <<daemon, http, sent, cpc, ri, how, so, rc, shutdown>>
  <2>0. MainInv /\ ServerInv /\ ConnType /\ \A c \in Conns : ConnInv(c) BY DEF IInv
  <2> USE <1>1, <1>3 DEF Goto
  <2>1. MainInv'
    <3> HIDE DEF s
    <3> QED BY <2>0 DEF MainInv, Before, Ended
  <2>2. so.certfile # None <=> so.keyfile # None BY <2>0 DEF MainInv, Usable, Ended
  <2>3. Environment' = Environment /\ Configured(rt)' = w
    BY DEF Environment, Configured, Limited
  <2>4. ws' = [w EXCEPT !.https = IF so.certfile # None THEN {"cert", "key"} ELSE {}]
    <3>1. w.https = {} /\ w = [w EXCEPT !.https = {}]
      <4>1. so.use_threads \in BOOLEAN
        <5>1. so = OptionsOf(Scan(how.argv, opts)) /\ Usable(so) /\ how \in Starts
          BY <2>0 DEF MainInv, Ended
        <5> QED BY <5>1, OptionsMean DEF IsSet
      <4>2. w \in [nodes : {<<>> \o NodeList}, min_url_len : {11}, max_url_len : {139},
                  max_content_length : {so.max_post_data_size}, threads : {so.use_threads},
                  addr_cb : {Limited(Environment)}, https : {{}}]
        BY <4>1, ConfiguredIs
      <4> HIDE DEF w
      <4> QED BY <4>2
    <3>2. searest_set_https_key(searest_set_https_cert(w)) = [w EXCEPT !.https = {"cert", "key"}]
      <4> HIDE DEF w
      <4> QED BY <3>1 DEF searest_set_https_key, searest_set_https_cert
    <3> HIDE DEF w
    <3>3. CASE so.certfile # None
      <4>1. s \subseteq {searest_set_https_key(searest_set_https_cert(w))}
        BY <2>2, <3>3 DEF activate_https
      <4> HIDE DEF s
      <4> QED BY <3>2, <3>3, <4>1
    <3>4. CASE so.certfile = None BY <2>2, <3>1, <3>4
    <3> QED BY <3>3, <3>4
  <2>5. ServerInv' BY <2>3, <2>4 DEF ServerInv
  <2>6. daemon = "none" BY <2>0 DEF MainInv
  <2>7. ConnType' /\ (\A c \in Conns : ConnInv(c))'
    <3> HIDE DEF s
    <3> QED BY <2>0, <2>6, AllIdle, ConnsKeep
  <2> QED BY <2>1, <2>5, <2>7 DEF IInv
<1> QED BY <1>1, <1>2, <1>3

(* The daemon starts, with no request on any connection, or webstore_start  *)
(* fails.                                                                   *)
LEMMA StartKeeps == ASSUME IInv, Start PROVE IInv'
<1>1. /\ mainpc = "start"
      /\ \/ Exit("failed")
         \/ /\ daemon' = "run" /\ Goto("signals")
            /\ UNCHANGED <<ws, http, sent, cpc, ri, how, so, rt, rc, shutdown>>
  BY DEF Start, searest_start
<1>2. CASE Exit("failed") BY <1>2, Exits DEF Ended
<1>3. CASE /\ daemon' = "run" /\ Goto("signals")
           /\ UNCHANGED <<ws, http, sent, cpc, ri, how, so, rt, rc, shutdown>>
  <2>0. MainInv /\ ServerInv /\ ConnType /\ \A c \in Conns : ConnInv(c) BY DEF IInv
  <2> USE <1>1, <1>3 DEF Goto
  <2>1. MainInv' BY <2>0 DEF MainInv, Before, Ended
  <2>2. Environment' = Environment /\ Configured(rt)' = Configured(rt)
    BY DEF Environment, Configured
  <2>3. ServerInv' BY <2>0, <2>2 DEF ServerInv
  <2>4. ConnType' /\ (\A c \in Conns : ConnInv(c))' BY <2>0, ConnsKeep
  <2> QED BY <2>1, <2>3, <2>4 DEF IInv
<1> QED BY <1>1, <1>2, <1>3

(* The steps of main that change only where it is and what the daemon does, *)
(* and those of others that ask it to stop.                                 *)
LEMMA StopsKeep ==
  ASSUME IInv, InstallSignals \/ Stop \/ Join \/ Signal \/ RedisLost
  PROVE  IInv'
<1>0. MainInv /\ ServerInv /\ ConnType /\ \A c \in Conns : ConnInv(c) BY DEF IInv
<1>1. /\ UNCHANGED <<ws, http, sent, cpc, ri, how, so, rt, rc>>
      /\ \/ mainpc = "signals" /\ mainpc' = "wait" /\ UNCHANGED <<daemon, shutdown>>
         \/ mainpc = "wait" /\ mainpc' = "stop" /\ daemon' = "stopping" /\ UNCHANGED shutdown
         \/ /\ mainpc = "stop" /\ daemon = "stopping" /\ daemon' = "stopped"
            /\ \A c \in Conns : cpc[c] = "idle"
            /\ UNCHANGED <<mainpc, shutdown>>
         \/ shutdown' = TRUE /\ UNCHANGED <<mainpc, daemon>>
  BY DEF InstallSignals, Stop, Join, Signal, RedisLost, StopDaemon, DaemonStopped, Goto,
         searestVars, mainVars
<1>2. MainInv' BY <1>0, <1>1 DEF MainInv, Before, Ended
<1>3. Environment' = Environment /\ Configured(rt)' = Configured(rt)
  BY <1>1 DEF Environment, Configured
<1>4. ServerInv' BY <1>0, <1>1, <1>3 DEF ServerInv
<1>5. ConnType' /\ (\A c \in Conns : ConnInv(c))' BY <1>0, <1>1, ConnsKeep
<1> QED BY <1>2, <1>4, <1>5 DEF IInv

(* searest_del frees the nodes when MHD_stop_daemon has returned.           *)
LEMMA DeleteKeeps == ASSUME IInv, Delete PROVE IInv'
<1>0. MainInv /\ ServerInv /\ ConnType /\ \A c \in Conns : ConnInv(c) BY DEF IInv
<1>1. /\ mainpc = "stop" /\ mainpc' = "disconnect"
      /\ daemon = "stopped" /\ daemon' = "none" /\ ws' = NoWs
      /\ UNCHANGED <<http, sent, cpc, ri, how, so, rt, rc, shutdown>>
  BY DEF Delete, searest_del, Goto
<1>2. MainInv' BY <1>0, <1>1 DEF MainInv, Before, Ended
<1>3. ServerInv' BY <1>1 DEF ServerInv
<1>4. ConnType' /\ (\A c \in Conns : ConnInv(c))' BY <1>0, <1>1, AllIdle, ConnsKeep
<1> QED BY <1>2, <1>3, <1>4 DEF IInv

-----------------------------------------------------------------------------
(* A connection, call by call.                                              *)

Steps == {"idle", "headers", "body", "handling", "respond", "queued", "closing"}

(* What a client may send, as uhd_request_started sees it.                  *)
LEMMA RequestIs ==
  ASSUME NEW r \in Requests
  PROVE  /\ r.url \in Urls /\ r.method \in STRING /\ r.body \in Seq(Bytes)
         /\ Len(r.body) \in Nat /\ ContentLength(r) \in Nat
         /\ r.length # NoHeader => ContentLength(r) = r.length
         /\ r.length = NoHeader => ContentLength(r) = 0
         /\ r # NoRequest
BY SearestAssumption DEF ContentLength

(* What MHD and searest do on one connection leaves the others alone.       *)
LEMMA OneConn ==
  ASSUME IInv, NEW c \in Conns, UNCHANGED <<ws, daemon, mainVars>>,
         NEW h \in Requests \cup {NoRequest}, NEW s \in Nat, NEW p \in Steps,
         NEW i \in ConnInfo \cup {NoRi},
         http' = [http EXCEPT ![c] = h], sent' = [sent EXCEPT ![c] = s],
         cpc' = [cpc EXCEPT ![c] = p], ri' = [ri EXCEPT ![c] = i],
         http'[c] = h /\ sent'[c] = s /\ cpc'[c] = p /\ ri'[c] = i => ConnInv(c)'
  PROVE  IInv'
<1>0. MainInv /\ ServerInv /\ ConnType /\ \A d \in Conns : ConnInv(d) BY DEF IInv
<1>1. MainInv' BY <1>0 DEF MainInv, mainVars
<1>2. Environment' = Environment /\ Configured(rt)' = Configured(rt)
  BY DEF Environment, Configured, mainVars
<1>3. ServerInv' BY <1>0, <1>2 DEF ServerInv, mainVars
<1>4. ConnType' BY <1>0 DEF ConnType, Steps
<1>5. http'[c] = h /\ sent'[c] = s /\ cpc'[c] = p /\ ri'[c] = i BY <1>0 DEF ConnType
<1>6. (\A d \in Conns : ConnInv(d))'
  <2> SUFFICES ASSUME NEW d \in Conns PROVE ConnInv(d)' OBVIOUS
  <2>1. CASE d = c BY <1>5, <2>1
  <2>2. CASE d # c
    <3>1. http'[d] = http[d] /\ sent'[d] = sent[d] /\ cpc'[d] = cpc[d] /\ ri'[d] = ri[d]
      BY <1>0, <2>2 DEF ConnType
    <3>2. ConnInv(d) BY <1>0
    <3> QED BY <3>1, <3>2 DEF ConnInv, Received, Acceptable
  <2> QED BY <2>1, <2>2
<1> QED BY <1>1, <1>3, <1>4, <1>6 DEF IInv

(* What stays as it is on a connection is what was put there.               *)
LEMMA Same ==
  ASSUME ConnType, NEW c \in Conns
  PROVE  /\ http = [http EXCEPT ![c] = http[c]] /\ http[c] \in Requests \cup {NoRequest}
         /\ sent = [sent EXCEPT ![c] = sent[c]] /\ sent[c] \in Nat
         /\ cpc = [cpc EXCEPT ![c] = cpc[c]] /\ cpc[c] \in Steps
         /\ ri = [ri EXCEPT ![c] = ri[c]] /\ ri[c] \in ConnInfo \cup {NoRi}
BY DEF ConnType, Steps

(* A request on an idle connection: *con_cls is NULL.                       *)
LEMMA ArriveKeeps ==
  ASSUME IInv, NEW c \in Conns, Arrive(c), UNCHANGED mainVars PROVE IInv'
<1>0. ConnType /\ ConnInv(c) BY DEF IInv
<1>1. PICK r \in Requests : http' = [http EXCEPT ![c] = r] BY DEF Arrive
<1>2. /\ daemon = "run" /\ cpc[c] = "idle" /\ UNCHANGED <<ws, daemon>>
      /\ sent' = [sent EXCEPT ![c] = 0] /\ cpc' = [cpc EXCEPT ![c] = "headers"] /\ ri' = ri
  BY DEF Arrive
<1>3. ri' = [ri EXCEPT ![c] = NoRi] BY <1>0, <1>2, Same DEF ConnInv
<1>4. ASSUME http'[c] = r, sent'[c] = 0, cpc'[c] = "headers", ri'[c] = NoRi
      PROVE  ConnInv(c)'
  BY <1>2, <1>4 DEF ConnInv
<1>5. "headers" \in Steps BY DEF Steps
<1> QED BY <1>1, <1>2, <1>3, <1>4, <1>5, OneConn

(* The first call: everyone gets an srci_t, whoever is accepted or not.     *)
LEMMA HeadersKeep ==
  ASSUME IInv, NEW c \in Conns, CallHeaders(c), UNCHANGED mainVars PROVE IInv'
<1>0. ConnType /\ ConnInv(c) BY DEF IInv
<1>1. /\ cpc[c] = "headers" /\ UNCHANGED <<ws, daemon, http, sent>>
      /\ uhd_request_started(c, <<>>)
  BY DEF CallHeaders
<1>2. http[c] \in Requests /\ ri[c] = NoRi /\ sent[c] = 0 /\ daemon \in {"run", "stopping"}
  BY <1>0, <1>1 DEF ConnInv
<1> DEFINE r == http[c]
           i == [url |-> r.url, method |-> r.method, content_length |-> ContentLength(r),
                 post_data |-> <<>>, node |-> NoNode, return_code |-> 0]
           p == IF Acceptable(r) THEN "body" ELSE "closing"
<1>3. ri' = [ri EXCEPT ![c] = i] /\ cpc' = [cpc EXCEPT ![c] = p]
  BY <1>1, <1>2 DEF uhd_request_started, NewRequest, Yes, No
<1>4. /\ i \in ConnInfo /\ i # NoRi /\ i.url = r.url /\ i.method = r.method
      /\ i.content_length = ContentLength(r) /\ i.post_data = <<>>
  <2>1. i \in ConnInfo BY <1>2, RequestIs DEF ConnInfo
  <2>2. /\ i.url = r.url /\ i.method = r.method
        /\ i.content_length = ContentLength(r) /\ i.post_data = <<>>
    OBVIOUS
  <2> HIDE DEF i
  <2>3. i # NoRi BY <2>1, NoRiAssumption
  <2> QED BY <2>1, <2>2, <2>3
<1>5. Len(r.body) \in Nat /\ r.body \in Seq(Bytes) /\ ContentLength(r) \in Nat BY <1>2, RequestIs
<1> HIDE DEF i
<1>6. ASSUME http'[c] = r, sent'[c] = sent[c], cpc'[c] = p, ri'[c] = i
      PROVE  ConnInv(c)'
  <2>1. Acceptable(http[c])' = Acceptable(r) BY <1>1, <1>6 DEF Acceptable
  <2>2. Received(c)' BY <1>4, <1>5, <1>6 DEF Received
  <2>3. SubSeq(r.body, 1, 0) = <<>> BY SubSeqEmpty
  <2>4. CASE Acceptable(r)
    <3>1. cpc'[c] = "body" BY <1>6, <2>4
    <3>2. sent'[c] <= Len(http'[c].body) /\ ri'[c].post_data = SubSeq(http'[c].body, 1, sent'[c])
      <4>1. sent'[c] = 0 /\ http'[c] = r /\ ri'[c] = i BY <1>2, <1>6
      <4>2. Len(r.body) >= 0 BY <1>5
      <4> HIDE DEF r
      <4> QED BY <1>4, <2>3, <4>1, <4>2
    <3> QED BY <1>1, <1>2, <1>6, <2>1, <2>2, <2>4, <3>1, <3>2 DEF ConnInv
  <2>5. CASE ~Acceptable(r)
    <3>1. cpc'[c] = "closing" BY <1>6, <2>5
    <3> QED BY <1>1, <1>2, <1>4, <1>6, <2>1, <2>2, <2>5, <3>1 DEF ConnInv
  <2> QED BY <2>4, <2>5
<1>7. p \in Steps BY DEF Steps
<1>8. http' = [http EXCEPT ![c] = r] /\ sent' = [sent EXCEPT ![c] = sent[c]] /\ sent[c] \in Nat
  BY <1>0, <1>1, Same
<1> HIDE DEF p, r
<1>9. r \in Requests BY <1>2 DEF r
<1> QED BY <1>1, <1>3, <1>4, <1>6, <1>7, <1>8, <1>9, OneConn

(* A piece of the upload: it is kept, or the upload is longer than          *)
(* announced.                                                               *)
LEMMA UploadKeeps ==
  ASSUME IInv, NEW c \in Conns, CallUpload(c), UNCHANGED mainVars PROVE IInv'
<1>0. ConnType /\ ConnInv(c) BY DEF IInv
<1> DEFINE r == http[c]
           body == r.body
           s == sent[c]
           post == ri[c].post_data
           room == ri[c].content_length
<1>1. PICK k \in 1..(Len(body) - s) : /\ uhd_request_started(c, SubSeq(body, s + 1, s + k))
                                      /\ sent' = [sent EXCEPT ![c] = s + k]
  <2>1. PICK k \in 1..Remaining(c) :
          /\ uhd_request_started(c, SubSeq(http[c].body, sent[c] + 1, sent[c] + k))
          /\ sent' = [sent EXCEPT ![c] = @ + k]
    BY DEF CallUpload
  <2>2. sent' = [sent EXCEPT ![c] = s + k] BY <1>0, <2>1 DEF ConnType
  <2> QED BY <2>1, <2>2 DEF Remaining
<1>2. /\ cpc[c] = "body" /\ UNCHANGED <<ws, daemon, http>> BY DEF CallUpload
<1>3. /\ r \in Requests /\ daemon \in {"run", "stopping"} /\ Acceptable(r) /\ Received(c)
      /\ s <= Len(body) /\ post = SubSeq(body, 1, s)
  BY <1>0, <1>2 DEF ConnInv
<1>4. /\ body \in Seq(Bytes) /\ Len(body) \in Nat /\ ContentLength(r) \in Nat
      /\ s \in Nat /\ ri[c] \in ConnInfo /\ ri[c] # NoRi /\ room = ContentLength(r)
  BY <1>0, <1>3, RequestIs, Same DEF Received
<1> DEFINE new == SubSeq(body, s + 1, s + k)
           sum == SubSeq(body, 1, s + k)
<1>5. /\ k \in Int /\ 1 <= k /\ s + k <= Len(body) /\ s + k \in Nat BY <1>1, <1>4
<1> HIDE DEF r, body, s
<1>6. /\ new \in Seq(Bytes) /\ Len(new) = k
      /\ post \in Seq(Bytes) /\ Len(post) = s
      /\ sum \in Seq(Bytes) /\ Len(sum) = s + k
      /\ post \o new = sum
  <2>1. \A m \in 1..Len(body) : body[m] \in Bytes BY <1>4
  <2>2. \A m \in (s + 1)..(s + k) : body[m] \in Bytes BY <1>4, <1>5, <2>1
  <2>3. new \in Seq(Bytes) /\ Len(new) = k
    <3>1. /\ new \in Seq(Bytes)
          /\ Len(new) = IF s + 1 <= s + k THEN (s + k) - (s + 1) + 1 ELSE 0
      BY <1>4, <1>5, <2>2, SubSeqProperties
    <3> QED BY <1>4, <1>5, <3>1
  <2>4. \A m \in 1..s : body[m] \in Bytes BY <1>3, <1>4, <2>1
  <2>5. post \in Seq(Bytes) /\ Len(post) = s
    <3>1. /\ SubSeq(body, 1, s) \in Seq(Bytes)
          /\ Len(SubSeq(body, 1, s)) = IF 1 <= s THEN s - 1 + 1 ELSE 0
      BY <1>4, <2>4, SubSeqProperties
    <3> QED BY <1>3, <1>4, <3>1 DEF body
  <2>6. \A m \in 1..(s + k) : body[m] \in Bytes BY <1>4, <1>5, <2>1
  <2>7. sum \in Seq(Bytes) /\ Len(sum) = s + k
    <3>1. /\ sum \in Seq(Bytes)
          /\ Len(sum) = IF 1 <= s + k THEN (s + k) - 1 + 1 ELSE 0
      BY <1>5, <2>6, SubSeqProperties
    <3> QED BY <1>4, <1>5, <3>1
  <2>8. SubSeq(body, 1, s) \o SubSeq(body, s + 1, s + k) = SubSeq(body, 1, s + k)
    BY <1>3, <1>4, <1>5, ConcatAdjacentSubSeq
  <2>9. post \o new = sum BY <1>3, <2>8
  <2> HIDE DEF post, new, sum
  <2> QED BY <2>3, <2>5, <2>7, <2>9
<1>7. new # <<>>
  <2> HIDE DEF new, sum
  <2> QED BY <1>5, <1>6
<1>8. IF Len(post) + Len(new) > room
      THEN No(c) /\ UNCHANGED ri
      ELSE ri' = [ri EXCEPT ![c].post_data = @ \o new] /\ Yes(c, "body")
  BY <1>1, <1>4, <1>7 DEF uhd_request_started, Gather, body, s
<1>9. http' = [http EXCEPT ![c] = r] /\ r \in Requests /\ sent' = [sent EXCEPT ![c] = s + k]
  BY <1>0, <1>1, <1>2, <1>3, Same DEF r
<1> HIDE DEF new, sum
<1>10. CASE s + k > room
  <2>1. cpc' = [cpc EXCEPT ![c] = "closing"] /\ ri' = ri BY <1>6, <1>8, <1>10 DEF No
  <2>2. ri' = [ri EXCEPT ![c] = ri[c]] BY <1>0, <2>1, Same
  <2>3. ASSUME http'[c] = r, cpc'[c] = "closing", ri'[c] = ri[c] PROVE ConnInv(c)'
    <3>1. Received(c)' BY <1>3, <2>3 DEF Received, r
    <3>2. Acceptable(http[c])' BY <1>2, <1>3, <2>3 DEF Acceptable
    <3>3. Len(http[c].body)' > ContentLength(http[c])' BY <1>4, <1>5, <1>10, <2>3 DEF body
    <3> QED BY <1>2, <1>3, <2>3, <3>1, <3>2, <3>3 DEF ConnInv, r
  <2>4. "closing" \in Steps BY DEF Steps
  <2> QED BY <1>2, <1>4, <1>5, <1>9, <2>1, <2>2, <2>3, <2>4, OneConn
<1>11. CASE s + k <= room
  <2> DEFINE i == [ri[c] EXCEPT !.post_data = sum]
  <2>1. cpc' = [cpc EXCEPT ![c] = "body"] /\ ri' = [ri EXCEPT ![c].post_data = @ \o new]
    BY <1>4, <1>5, <1>6, <1>8, <1>11 DEF Yes
  <2>2. ri' = [ri EXCEPT ![c] = i] BY <1>0, <1>4, <1>6, <2>1 DEF ConnType
  <2>3. /\ i \in ConnInfo /\ i.post_data = sum
        /\ i.url = ri[c].url /\ i.method = ri[c].method /\ i.content_length = room
    BY <1>4, <1>6 DEF ConnInfo
  <2> HIDE DEF i
  <2>4. i # NoRi BY <2>3, NoRiAssumption
  <2>5. ASSUME http'[c] = r, sent'[c] = s + k, cpc'[c] = "body", ri'[c] = i
        PROVE  ConnInv(c)'
    <3>1. Received(c)' BY <1>3, <1>4, <1>6, <1>11, <2>3, <2>4, <2>5 DEF Received, r
    <3>2. Acceptable(http[c])' BY <1>2, <1>3, <2>5 DEF Acceptable
    <3> QED BY <1>2, <1>3, <1>5, <2>3, <2>5, <3>1, <3>2 DEF ConnInv, sum, body
  <2>6. "body" \in Steps BY DEF Steps
  <2>7. UNCHANGED <<ws, daemon>> /\ s + k \in Nat /\ i \in ConnInfo BY <1>2, <1>5, <2>3
  <2>8. cpc' = [cpc EXCEPT ![c] = "body"] BY <2>1
  <2> QED BY <1>9, <2>2, <2>5, <2>6, <2>7, <2>8, OneConn
<1> QED BY <1>4, <1>5, <1>10, <1>11

(* The last call: the node is looked for and its handler called.            *)
LEMMA EndKeeps ==
  ASSUME IInv, NEW c \in Conns, CallEnd(c), UNCHANGED mainVars PROVE IInv'
<1>0. ConnType /\ ConnInv(c) /\ MainInv /\ ServerInv BY DEF IInv
<1> DEFINE r == http[c]
           body == r.body
           s == sent[c]
           post == ri[c].post_data
<1>1. /\ cpc[c] = "body" /\ UNCHANGED <<ws, daemon, http, sent>>
      /\ Len(body) - s = 0 /\ r.length \in {NoHeader, s}
      /\ uhd_request_started(c, <<>>)
  BY DEF CallEnd, Remaining
<1>2. /\ r \in Requests /\ daemon \in {"run", "stopping"} /\ Acceptable(r) /\ Received(c)
      /\ post = SubSeq(body, 1, s)
  BY <1>0, <1>1 DEF ConnInv
<1>3. /\ body \in Seq(Bytes) /\ Len(body) \in Nat /\ ContentLength(r) \in Nat
      /\ s \in Nat /\ ri[c] \in ConnInfo /\ ri[c] # NoRi
      /\ ri[c].content_length = ContentLength(r) /\ Len(post) <= ContentLength(r)
  BY <1>0, <1>2, RequestIs, Same DEF Received
<1>4. s = Len(body) BY <1>1, <1>3
<1>5. post = body BY <1>2, <1>3, <1>4, SubSeqFull
<1>6. Len(body) = ContentLength(r)
  <2>1. CASE r.length = NoHeader BY <1>2, <1>3, <1>5, <2>1, RequestIs
  <2>2. CASE r.length # NoHeader BY <1>1, <1>2, <1>4, <2>2, RequestIs
  <2> QED BY <2>1, <2>2
<1> DEFINE n == searest_node_find(ri[c].url)
<1>7. process_request(c) BY <1>1, <1>3, <1>5, <1>6 DEF uhd_request_started
<1>8. n = NoNode \/ n \in Nodes
  <2> DEFINE I == {j \in 1..Len(ws.nodes) : ri[c].url \in WithRoot[ws.nodes[j]]}
  <2>1. ws.nodes \in Seq(Nodes)
    BY <1>0, <1>2, ServerIs, WhenServing DEF ServerInfo
  <2>2. n = LET j == IF I # {} THEN Min(I) ELSE 0
            IN  IF j = 0 THEN NoNode ELSE ws.nodes[j]
    BY DEF searest_node_find, SelectInSeq
  <2>3. CASE I # {}
    <3>1. \E j \in I : \A m \in I : j <= m
      <4>1. I \subseteq 1..Len(ws.nodes) /\ Len(ws.nodes) \in Nat BY <2>1
      <4> HIDE DEF I
      <4> QED BY <2>3, <4>1, FirstAndLast
    <3>2. Min(I) \in I
      <4> HIDE DEF I
      <4> QED BY <3>1 DEF Min
    <3>3. Min(I) \in 1..Len(ws.nodes) BY <3>2
    <3> HIDE DEF I, n
    <3> QED BY <2>1, <2>2, <2>3, <3>3
  <2>4. CASE I = {} BY <2>2, <2>4
  <2> QED BY <2>3, <2>4
<1> HIDE DEF n, r, body, s
<1>9. PICK i \in ConnInfo, p \in {"handling", "respond"} :
        /\ ri' = [ri EXCEPT ![c] = i] /\ cpc' = [cpc EXCEPT ![c] = p]
        /\ i.url = ri[c].url /\ i.method = ri[c].method
        /\ i.content_length = ri[c].content_length /\ i.post_data = post
        /\ p = "handling" => i.node \in Nodes
  <2>1. CASE n = NoNode
    <3> DEFINE i == [ri[c] EXCEPT !.return_code = 404]
    <3>1. ri' = [ri EXCEPT ![c].return_code = 404] /\ cpc' = [cpc EXCEPT ![c] = "respond"]
      BY <1>7, <2>1 DEF process_request, Yes, n
    <3>2. ri' = [ri EXCEPT ![c] = i] BY <1>0, <3>1 DEF ConnType
    <3>3. /\ i \in ConnInfo /\ i.url = ri[c].url /\ i.method = ri[c].method
          /\ i.content_length = ri[c].content_length /\ i.post_data = post
      <4>1. PICK x \in ConnInfo : x = ri[c] BY <1>3
      <4>2. PICK y : y = [x EXCEPT !.return_code = 404] OBVIOUS
      <4>3. /\ y \in ConnInfo /\ y.url = x.url /\ y.method = x.method
            /\ y.content_length = x.content_length /\ y.post_data = x.post_data
        BY <4>1, <4>2 DEF ConnInfo
      <4> QED BY <1>3, <4>1, <4>2, <4>3
    <3> HIDE DEF i
    <3> USE <3>3
    <3> WITNESS i \in ConnInfo, "respond" \in {"handling", "respond"}
    <3> QED BY <3>1, <3>2, <3>3
  <2>2. CASE n # NoNode
    <3> DEFINE i == [ri[c] EXCEPT !.node = n]
    <3>1. ri' = [ri EXCEPT ![c].node = n] /\ cpc' = [cpc EXCEPT ![c] = "handling"]
      BY <1>7, <2>2 DEF process_request, Yes, n
    <3>2. ri' = [ri EXCEPT ![c] = i] BY <1>0, <3>1 DEF ConnType
    <3>3. /\ i \in ConnInfo /\ i.url = ri[c].url /\ i.method = ri[c].method
          /\ i.content_length = ri[c].content_length /\ i.post_data = post /\ i.node \in Nodes
      <4>1. PICK x \in ConnInfo : x = ri[c] BY <1>3
      <4>2. PICK y : y = [x EXCEPT !.node = n] OBVIOUS
      <4>3. /\ y \in ConnInfo /\ y.url = x.url /\ y.method = x.method /\ y.node = n
            /\ y.content_length = x.content_length /\ y.post_data = x.post_data
        BY <1>8, <2>2, <4>1, <4>2 DEF ConnInfo
      <4> QED BY <1>3, <1>8, <2>2, <4>1, <4>2, <4>3
    <3> HIDE DEF i
    <3> USE <3>3
    <3> WITNESS i \in ConnInfo, "handling" \in {"handling", "respond"}
    <3> QED BY <3>1, <3>2, <3>3
  <2> QED BY <2>1, <2>2
<1>10. i # NoRi BY NoRiAssumption
<1>11. ASSUME http'[c] = r, sent'[c] = s, cpc'[c] = p, ri'[c] = i PROVE ConnInv(c)'
  <2>1. Received(c)' BY <1>2, <1>3, <1>9, <1>10, <1>11 DEF Received, r
  <2>2. Acceptable(http[c])' BY <1>1, <1>2, <1>11 DEF Acceptable
  <2> QED BY <1>1, <1>2, <1>5, <1>6, <1>9, <1>11, <2>1, <2>2 DEF ConnInv, body
<1>12. http' = [http EXCEPT ![c] = r] /\ sent' = [sent EXCEPT ![c] = s]
  BY <1>0, <1>1, Same DEF r, s
<1>13. p \in Steps BY DEF Steps
<1>14. UNCHANGED <<ws, daemon>> /\ r \in Requests /\ s \in Nat BY <1>1, <1>2, <1>3
<1> QED BY <1>9, <1>11, <1>12, <1>13, <1>14, OneConn

(* The handler comes back, and its page is queued.                          *)
LEMMA AnswerKeeps ==
  ASSUME IInv, NEW c \in Conns, HandlerReturns(c) \/ QueueResponse(c), UNCHANGED mainVars
  PROVE  IInv'
<1>0. ConnType /\ ConnInv(c) BY DEF IInv
<1>1. /\ UNCHANGED <<ws, daemon, http, sent>>
      /\ cpc[c] \in {"handling", "respond"}
  BY DEF HandlerReturns, QueueResponse
<1>2. http[c] \in Requests /\ Received(c) /\ ri[c] \in ConnInfo
  BY <1>0, <1>1, Same DEF ConnInv, Received
<1>3. PICK i \in ConnInfo, p \in {"respond", "queued"} :
        /\ ri' = [ri EXCEPT ![c] = i] /\ cpc' = [cpc EXCEPT ![c] = p]
        /\ i.url = ri[c].url /\ i.method = ri[c].method
        /\ i.content_length = ri[c].content_length /\ i.post_data = ri[c].post_data
  <2>1. CASE HandlerReturns(c)
    <3>1. PICK code \in Codes : ri' = [ri EXCEPT ![c].return_code = code]
      BY <2>1 DEF HandlerReturns
    <3> DEFINE i == [ri[c] EXCEPT !.return_code = code]
    <3>2. ri' = [ri EXCEPT ![c] = i] BY <1>0, <3>1 DEF ConnType
    <3>3. /\ i \in ConnInfo /\ i.url = ri[c].url /\ i.method = ri[c].method
          /\ i.content_length = ri[c].content_length /\ i.post_data = ri[c].post_data
      BY <1>2, SearestAssumption DEF ConnInfo
    <3>4. cpc' = [cpc EXCEPT ![c] = "respond"] BY <2>1 DEF HandlerReturns
    <3> HIDE DEF i
    <3> QED BY <3>2, <3>3, <3>4
  <2>2. CASE QueueResponse(c) BY <1>0, <1>2, <2>2, Same DEF QueueResponse
  <2> QED BY <2>1, <2>2
<1>4. i # NoRi BY NoRiAssumption
<1>5. ASSUME http'[c] = http[c], sent'[c] = sent[c], cpc'[c] = p, ri'[c] = i PROVE ConnInv(c)'
  <2>1. Received(c)' BY <1>2, <1>3, <1>4, <1>5 DEF Received
  <2> QED BY <1>0, <1>1, <1>3, <1>5, <2>1 DEF ConnInv, Acceptable
<1>6. http' = [http EXCEPT ![c] = http[c]] /\ sent' = [sent EXCEPT ![c] = sent[c]] /\ sent[c] \in Nat
  BY <1>0, <1>1, Same
<1>7. p \in Steps BY DEF Steps
<1>8. UNCHANGED <<ws, daemon>> /\ http[c] \in Requests BY <1>1, <1>2
<1> QED BY <1>3, <1>5, <1>6, <1>7, <1>8, OneConn

(* uhd_request_completed, for whatever reason.                              *)
LEMMA CompletedKeeps ==
  ASSUME IInv, NEW c \in Conns, Complete(c) \/ Abort(c), UNCHANGED mainVars PROVE IInv'
<1>0. ConnType BY DEF IInv
<1>1. /\ ri' = [ri EXCEPT ![c] = NoRi] /\ cpc' = [cpc EXCEPT ![c] = "idle"]
      /\ http' = [http EXCEPT ![c] = NoRequest] /\ UNCHANGED <<ws, daemon, sent>>
  BY DEF Complete, Abort, uhd_request_completed
<1>2. ASSUME cpc'[c] = "idle", ri'[c] = NoRi PROVE ConnInv(c)' BY <1>2 DEF ConnInv
<1>3. sent' = [sent EXCEPT ![c] = sent[c]] /\ sent[c] \in Nat BY <1>0, <1>1, Same
<1>4. "idle" \in Steps BY DEF Steps
<1> QED BY <1>1, <1>2, <1>3, <1>4, OneConn

-----------------------------------------------------------------------------
(* The invariant, and what follows from it.                                 *)

(* One step of main, of MHD, of a handler, of redis or of a signal.         *)
LEMMA NextKeeps == ASSUME IInv, [Next]_vars PROVE IInv'
<1>1. CASE UNCHANGED vars
  <2>0. MainInv /\ ServerInv /\ ConnType /\ \A c \in Conns : ConnInv(c) BY DEF IInv
  <2> USE <1>1 DEF vars, searestVars, mainVars
  <2>1. MainInv' BY <2>0 DEF MainInv
  <2>2. Environment' = Environment /\ Configured(rt)' = Configured(rt)
    BY DEF Environment, Configured
  <2>3. ServerInv' BY <2>0, <2>2 DEF ServerInv
  <2>4. ConnType' /\ (\A c \in Conns : ConnInv(c))' BY <2>0, ConnsKeep
  <2> QED BY <2>1, <2>3, <2>4 DEF IInv
<1>2. CASE Main
  <2>1. CASE Disconnect BY <2>1, Exits DEF Disconnect, Ended
  <2> QED BY <1>2, <2>1, ParseArgsKeeps, LogOpenKeeps, ConnectKeeps, ConfigureKeeps, StartKeeps,
             StopsKeep, DeleteKeeps DEF Main
<1>3. CASE Kill BY <1>3, Exits DEF Kill, Ended
<1>4. CASE Signal \/ RedisLost BY <1>4, StopsKeep
<1>5. ASSUME NEW c \in Conns, ServeConn(c) PROVE IInv'
  BY <1>5, HeadersKeep, UploadKeeps, EndKeeps, AnswerKeeps, CompletedKeeps DEF ServeConn, Serve
<1>6. ASSUME NEW c \in Conns, ClientStep(c) PROVE IInv'
  BY <1>6, ArriveKeeps, CompletedKeeps DEF ClientStep
<1> QED BY <1>1, <1>2, <1>3, <1>4, <1>5, <1>6 DEF Next

(* The inductive invariant of a webstore process: where main is tells what  *)
(* it has made of the command line and whether there is a server, and where *)
(* a connection is tells what searest has kept of its upload.               *)
THEOREM Invariant == Spec => []IInv
<1>1. Init => IInv BY Begins
<1>2. IInv /\ [Next]_vars => IInv' BY NextKeeps
<1> QED BY <1>1, <1>2, PTL DEF Spec

(* Every variable keeps its type: no handler is called of a node that is    *)
(* not there (process_request), and there is a daemon only while main is    *)
(* between searest_start and searest_del.                                   *)
THEOREM TypeCorrect == Spec => []TypeOK
<1>1. ASSUME IInv PROVE TypeOK
  <2>0. MainInv /\ ServerInv /\ ConnType /\ \A c \in Conns : ConnInv(c) BY <1>1 DEF IInv
  <2>1. SearestTypeOK
    <3>1. ws = NoWs \/ ws \in ServerInfo BY <2>0, ServerIs DEF ServerInv, Serving
    <3>2. daemon \in {"none", "run", "stopping", "stopped"} BY <2>0, WhenServing
    <3>3. \A c \in Conns : cpc[c] = "handling" => ri[c].node \in Nodes BY <2>0 DEF ConnInv
    <3> QED BY <2>0, <3>1, <3>2, <3>3 DEF SearestTypeOK, ConnType
  <2>2. daemon # "none" => mainpc \in {"signals", "wait", "stop"} BY <2>0, WhenServing DEF MainInv
  <2>3. rc \in {None, so.rsock, so.rip} BY <2>0 DEF MainInv
  <2>4. daemon # "none" => rc # None
    <3>1. mainpc \in {"signals", "wait", "stop"} => Usable(so) BY <2>0 DEF MainInv, Ended
    <3>2. mainpc \in {"signals", "wait", "stop"} =>
            rc = IF so.rsock # None THEN so.rsock ELSE so.rip
      BY <2>0 DEF MainInv, Ended
    <3> QED BY <2>2, <3>1, <3>2 DEF Usable
  <2> QED BY <2>0, <2>1, <2>2, <2>3, <2>4 DEF TypeOK, MainInv
<1> QED BY <1>1, Invariant, PTL

(* A handler has the request that MHD serves, the bytes of its upload and   *)
(* all of them, however it was cut into pieces and whatever came before it  *)
(* on the connection (uhd_request_started, uhd_request_completed).          *)
THEOREM UploadsArrive == Spec => []HandlerSeesUpload
<1>1. ASSUME IInv PROVE HandlerSeesUpload
  <2> SUFFICES ASSUME NEW c \in Conns, cpc[c] \in {"handling", "respond", "queued"}
               PROVE  /\ ri[c].url = http[c].url
                      /\ ri[c].method = http[c].method
                      /\ ri[c].post_data = http[c].body
                      /\ Len(ri[c].post_data) = ContentLength(http[c])
    BY DEF HandlerSeesUpload
  <2>1. ConnInv(c) BY <1>1 DEF IInv
  <2>2. Received(c) /\ ri[c].post_data = http[c].body /\ Len(http[c].body) = ContentLength(http[c])
    BY <2>1 DEF ConnInv
  <2> QED BY <2>2 DEF Received
<1> QED BY <1>1, Invariant, PTL

(* What a connection holds has been accepted, or is nothing.                *)
LEMMA Held ==
  ASSUME IInv, NEW c \in Conns, ri[c] # NoRi
  PROVE  Len(ri[c].post_data) <= ws.max_content_length
<1>0. MainInv /\ ServerInv /\ ConnType /\ ConnInv(c) BY DEF IInv
<1>1. cpc[c] \in {"body", "handling", "respond", "queued", "closing"}
  BY <1>0 DEF ConnType, ConnInv
<1>2. Received(c) /\ daemon \in {"run", "stopping"} /\ http[c] \in Requests
  BY <1>0, <1>1 DEF ConnInv
<1>3. ws \in ServerInfo BY <1>0, <1>2, WhenServing, ServerIs
<1>4. ws.max_content_length \in Nat BY <1>3 DEF ServerInfo
<1>5. ri[c] \in ConnInfo /\ ContentLength(http[c]) \in Nat BY <1>0, <1>2, Same, RequestIs
<1>6. Len(ri[c].post_data) \in Nat BY <1>5 DEF ConnInfo
<1>7. Len(ri[c].post_data) <= ContentLength(http[c]) BY <1>2 DEF Received
<1>8. CASE Acceptable(http[c])
  <2>1. ContentLength(http[c]) <= ws.max_content_length BY <1>8 DEF Acceptable
  <2> QED BY <1>4, <1>5, <1>6, <1>7, <2>1
<1>9. CASE ~Acceptable(http[c])
  <2>1. ri[c].post_data = <<>> BY <1>0, <1>1, <1>9 DEF ConnInv
  <2> QED BY <1>4, <2>1
<1> QED BY <1>8, <1>9

(* The server never holds more of an upload than --dsize allows, and what   *)
(* was checked with the headers still holds when the handler is called.     *)
THEOREM UploadsFit == Spec => []UploadFits
<1>1. ASSUME IInv PROVE UploadFits
  <2>1. \A c \in Conns : cpc[c] = "handling" => Acceptable(http[c])
    <3>1. \A c \in Conns : ConnInv(c) BY <1>1 DEF IInv
    <3> QED BY <3>1 DEF ConnInv
  <2> QED BY <1>1, <2>1, Held DEF UploadFits
<1> QED BY <1>1, Invariant, PTL

(* searest_del frees the nodes when no request is left that could look at   *)
(* one, and every srci_t has been freed (searest_stop, webstore_stop).      *)
THEOREM NodesOutlive == Spec => []NodesOutliveHandlers
<1>1. ASSUME IInv PROVE NodesOutliveHandlers
  <2>1. \A c \in Conns : ConnInv(c) BY <1>1 DEF IInv
  <2> QED BY <2>1, AllIdle DEF NodesOutliveHandlers
<1> QED BY <1>1, Invariant, PTL

(* The server that runs is the one that the command line and the            *)
(* environment ask for (parse_args, webstore_start).                        *)
THEOREM Asked == Spec => []ServedAsAsked
<1>1. ASSUME IInv PROVE ServedAsAsked
  <2> SUFFICES ASSUME daemon = "run"
               PROVE  /\ so.http_ip = Order(how, "ip", None)
                      /\ so.http_port = Order(how, "port", 0) % PortSize /\ so.http_port # 0
                      /\ rc = IF Said(how, "rsock") # {} THEN Order(how, "rsock", None)
                                                       ELSE Address(how).ip
                      /\ rc # None
                      /\ so.rport = Address(how).port % PortSize
                      /\ Addresses(how) # {} => so.rport # 0
                      /\ so.logfile = Order(how, "log", None)
                      /\ Said(how, "cert") # {} <=> Said(how, "key") # {}
                      /\ so.certfile = Order(how, "cert", None)
                      /\ so.keyfile = Order(how, "key", None)
                      /\ ws.https = IF Said(how, "cert") # {} THEN {"cert", "key"} ELSE {}
                      /\ ws.threads = (Said(how, "tpc") # {})
                      /\ rt.multithreaded = (Said(how, "tpc") # {})
                      /\ ws.max_content_length = Order(how, "dsize", DefaultPost)
                      /\ rt.max_post_data_size = Order(how, "dsize", DefaultPost)
                      /\ rt.max_post_data_size >= 6
                      /\ ws.addr_cb <=> how.env.REQPERIOD > 0 /\ how.env.REQCOUNT > 0
                      /\ rt.reqperiod = how.env.REQPERIOD /\ rt.reqcount = how.env.REQCOUNT
                      /\ rt.expiration = IF how.env.EXPIRATION > 0 THEN how.env.EXPIRATION ELSE 0
                      /\ rt.immutable = how.env.IMMUTABLE /\ rt.bar = how.env.BAR
    BY DEF ServedAsAsked, Order, Said, Addresses, Address
  <2> DEFINE o == Scan(how.argv, opts)
             i == SelectLastInSeq(o, LAMBDA r : r.ret = "rtcp" /\ r.arg.colon)
             tcp == IF i = 0 THEN [ip |-> None, port |-> 0] ELSE o[i].arg
  <2>0. MainInv /\ ServerInv BY <1>1 DEF IInv
  <2>1. mainpc \in {"signals", "wait"} BY <2>0, WhenServing
  <2>2. ~IsUsage(o) /\ so = OptionsOf(o) /\ Usable(so) /\ how \in Starts
    BY <2>0, <2>1 DEF MainInv, Ended
  <2>3. rc = IF so.rsock # None THEN so.rsock ELSE so.rip BY <2>0, <2>1 DEF MainInv, Ended
  <2>4. rt = Environment BY <2>0, <2>1 DEF ServerInv
  <2>5. how.env \in Setting BY <2>2, StartupAssumption
  <2>6. /\ rt.multithreaded = so.use_threads /\ rt.max_post_data_size = so.max_post_data_size
        /\ rt.reqperiod = how.env.REQPERIOD /\ rt.reqcount = how.env.REQCOUNT
        /\ rt.expiration = IF how.env.EXPIRATION < 0 THEN 0 ELSE how.env.EXPIRATION
        /\ rt.immutable = how.env.IMMUTABLE /\ rt.bar = how.env.BAR
    BY <2>4 DEF Environment
  <2>7. rt.expiration = IF how.env.EXPIRATION > 0 THEN how.env.EXPIRATION ELSE 0
    <3>1. how.env.EXPIRATION \in Int BY <2>5 DEF Setting
    <3> QED BY <2>6, <3>1
  <2>8. /\ ws.max_content_length = so.max_post_data_size
        /\ ws.threads = so.use_threads
        /\ ws.addr_cb = Limited(rt)
        /\ ws.https = (IF so.certfile # None THEN {"cert", "key"} ELSE {})
    BY <2>0, <2>1, ServerIs DEF Serving
  <2>9. /\ so.http_ip = Given(o, "ip", None)
        /\ so.http_port = Given(o, "port", 0) % PortSize
        /\ so.use_threads = IsSet(o, "tpc")
        /\ so.logfile = Given(o, "log", None) /\ so.rsock = Given(o, "rsock", None)
        /\ so.certfile = Given(o, "cert", None) /\ so.keyfile = Given(o, "key", None)
        /\ so.max_post_data_size = Given(o, "dsize", DefaultPost)
        /\ so.rip = tcp.ip /\ so.rport = tcp.port % PortSize
    <3> HIDE DEF o
    <3> QED BY <2>2 DEF OptionsOf
  <2>10. /\ Given(o, "ip", None) = Order(how, "ip", None)
         /\ Given(o, "port", 0) = Order(how, "port", 0)
         /\ IsSet(o, "tpc") <=> Said(how, "tpc") # {}
         /\ Given(o, "log", None) = Order(how, "log", None)
         /\ Given(o, "rsock", None) = Order(how, "rsock", None)
         /\ IsSet(o, "rsock") <=> Said(how, "rsock") # {}
         /\ Given(o, "cert", None) = Order(how, "cert", None)
         /\ IsSet(o, "cert") <=> Said(how, "cert") # {}
         /\ Given(o, "key", None) = Order(how, "key", None)
         /\ IsSet(o, "key") <=> Said(how, "key") # {}
         /\ Given(o, "dsize", DefaultPost) = Order(how, "dsize", DefaultPost)
    BY <2>2, Meant
  <2>11. /\ Address(how) = tcp
         /\ Addresses(how) # {} => Address(how).ip # None
    BY <2>2, AddressMeant
  <2>12. /\ so.max_post_data_size >= 6
         /\ so.http_port # 0
         /\ so.certfile # None <=> IsSet(o, "cert")
         /\ so.keyfile # None <=> IsSet(o, "key")
         /\ so.certfile # None <=> so.keyfile # None
         /\ IsSet(o, "rsock") => so.rsock # None
         /\ so.rsock # None \/ so.rip # None
         /\ so.rip # None => so.rport # 0
    <3>1. /\ so.max_post_data_size >= 6 /\ so.http_port \in 1..(PortSize - 1)
          /\ so.certfile # None <=> IsSet(o, "cert")
          /\ so.keyfile # None <=> IsSet(o, "key")
          /\ so.certfile # None <=> so.keyfile # None
          /\ IsSet(o, "rsock") => so.rsock # None
          /\ so.rsock # None \/ so.rip # None
      BY <2>2, OptionsMean
    <3>2. so.rip # None => so.rport # 0 BY <2>2 DEF Usable
    <3>3. so.http_port # 0 BY <2>2 DEF Usable
    <3> HIDE DEF o
    <3> QED BY <3>1, <3>2, <3>3
  <2> HIDE DEF o, tcp
  <2>13. /\ so.http_ip = Order(how, "ip", None)
         /\ so.http_port = Order(how, "port", 0) % PortSize /\ so.http_port # 0
         /\ so.logfile = Order(how, "log", None)
         /\ so.certfile = Order(how, "cert", None) /\ so.keyfile = Order(how, "key", None)
         /\ Said(how, "cert") # {} <=> Said(how, "key") # {}
    BY <2>9, <2>10, <2>12
  <2>14. /\ rc = IF Said(how, "rsock") # {} THEN Order(how, "rsock", None) ELSE Address(how).ip
         /\ rc # None
         /\ so.rport = Address(how).port % PortSize
         /\ Addresses(how) # {} => so.rport # 0
    <3>1. ~IsSet(o, "rsock") => so.rsock = None BY <2>9 DEF Given
    <3> QED BY <2>3, <2>9, <2>10, <2>11, <2>12, <3>1
  <2>15. /\ ws.https = IF Said(how, "cert") # {} THEN {"cert", "key"} ELSE {}
         /\ ws.threads = (Said(how, "tpc") # {}) /\ rt.multithreaded = (Said(how, "tpc") # {})
         /\ ws.max_content_length = Order(how, "dsize", DefaultPost)
         /\ rt.max_post_data_size = Order(how, "dsize", DefaultPost)
         /\ rt.max_post_data_size >= 6
    <3>1. IsSet(o, "tpc") = (Said(how, "tpc") # {}) BY <2>10 DEF IsSet
    <3> QED BY <2>6, <2>8, <2>9, <2>10, <2>12, <3>1
  <2>16. ws.addr_cb <=> how.env.REQPERIOD > 0 /\ how.env.REQCOUNT > 0
    BY <2>6, <2>8 DEF Limited
  <2> QED BY <2>6, <2>7, <2>13, <2>14, <2>15, <2>16
<1> QED BY <1>1, Invariant, PTL

(* No request that the API has is cut off: a connection is closed without   *)
(* an answer only for a url, a method or a length that no client of the API *)
(* sends, or for an upload longer than announced (uhd_request_started).     *)
THEOREM Refused == Spec => []RefusedForCause
<1>1. ASSUME IInv PROVE RefusedForCause
  <2> SUFFICES ASSUME NEW c \in Conns, cpc[c] = "closing",
                      http[c].url \in WellFormed, http[c].method \in Methods,
                      ContentLength(http[c]) <= so.max_post_data_size,
                      Len(http[c].body) <= ContentLength(http[c])
               PROVE  FALSE
    BY DEF RefusedForCause
  <2>0. MainInv /\ ServerInv /\ ConnInv(c) BY <1>1 DEF IInv
  <2>1. daemon \in {"run", "stopping"} /\ http[c] \in Requests BY <2>0 DEF ConnInv
  <2>2. ws.min_url_len = 11 /\ ws.max_url_len = 139
        /\ ws.max_content_length = so.max_post_data_size
    BY <2>0, <2>1, WhenServing, ServerIs
  <2>3. UrlLen[http[c].url] \in (8 + 3)..(128 + 11) BY StartupAssumption
  <2>4. Acceptable(http[c]) BY <2>2, <2>3 DEF Acceptable
  <2>5. Len(http[c].body) > ContentLength(http[c]) BY <2>0, <2>4 DEF ConnInv
  <2>6. Len(http[c].body) \in Nat /\ ContentLength(http[c]) \in Nat BY <2>1, RequestIs
  <2> QED BY <2>5, <2>6
<1> QED BY <1>1, Invariant, PTL
=============================================================================
