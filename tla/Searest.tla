------------------------------ MODULE Searest ------------------------------
(***************************************************************************)
(* The HTTP layer, src/src/searest.c and searest_nodelist.c: what happens  *)
(* to a request between libmicrohttpd and a node's handler.  MHD calls     *)
(* uhd_request_started once when it has parsed the headers, once for every *)
(* piece of the upload and once more at its end, always with the same      *)
(* *con_cls, and uhd_request_completed when it is done with the request,   *)
(* for whatever reason.  Connections are served again and again.           *)
(***************************************************************************)
EXTENDS Integers, Sequences, SequencesExt

CONSTANTS
  Conns,
  Requests,       \* what clients may send
  Urls, UrlLen,   \* the urls in them and their lengths
  WithRoot,       \* for every node: the urls that begin with its root
  NoNode,
  Methods,        \* GET, POST, PUT, DELETE, OPTIONS; requests may have others
  Bytes,
  NoHeader,       \* a request without Content-Length
  NoRequest,
  NoRi,           \* *con_cls = NULL
  NoWs,           \* there is no server object
  Codes           \* the return codes of the handlers

Nodes == DOMAIN WithRoot

(* The body is what the client sends before it goes silent: as much as it   *)
(* has announced, or less.                                                  *)
ASSUME SearestAssumption ==
  /\ \A r \in Requests :
       /\ r.url \in Urls /\ r.method \in STRING
       /\ r.body \in Seq(Bytes)
       /\ r.length \in Nat \cup {NoHeader}
       /\ r.length # NoHeader => Len(r.body) <= r.length
  /\ WithRoot \in [Nodes -> SUBSET Urls] /\ NoNode \notin Nodes
  /\ UrlLen \in [Urls -> Nat]
  /\ Codes \subseteq Nat \ {0}
  /\ NoRequest \notin Requests

ConnInfo == [url: Urls, method: STRING, content_length: Nat,
             post_data: Seq(Bytes), node: Nodes \cup {NoNode}, return_code: Nat]

ASSUME NoRiAssumption == NoRi \notin ConnInfo

VARIABLES
  ws,       \* sri_t, the server object
  daemon,   \* its mhd_srv: "none", "run", "stopping" (MHD_stop_daemon), "stopped"
  http,     \* the request on each connection, or NoRequest
  sent,     \* how much of its body MHD has passed on
  cpc,      \* "idle", "headers", "body", "handling", "respond", "queued", "closing"
  ri        \* *con_cls: srci_t, or NoRi

searestVars == <<ws, daemon, http, sent, cpc, ri>>

ServerInfo == [nodes: Seq(Nodes), min_url_len: Nat, max_url_len: Nat, max_content_length: Nat,
               threads: BOOLEAN, addr_cb: BOOLEAN, https: SUBSET {"cert", "key"}]

SearestTypeOK ==
  /\ ws = NoWs \/ ws \in ServerInfo
  /\ daemon \in {"none", "run", "stopping", "stopped"}
  /\ http \in [Conns -> Requests \cup {NoRequest}]
  /\ sent \in [Conns -> Nat]
  /\ cpc \in [Conns -> {"idle", "headers", "body", "handling", "respond", "queued", "closing"}]
  /\ \A c \in Conns : ri[c] = NoRi \/ ri[c] \in ConnInfo
  /\ \A c \in Conns : cpc[c] = "handling" => ri[c].node \in Nodes

SearestInit ==
  /\ ws = NoWs
  /\ daemon = "none"
  /\ http = [c \in Conns |-> NoRequest]
  /\ sent = [c \in Conns |-> 0]
  /\ cpc = [c \in Conns |-> "idle"]
  /\ ri = [c \in Conns |-> NoRi]

-----------------------------------------------------------------------------
(* The server object before it serves.                                      *)

searest_new(urlmin, urlmax, contentmax) ==
  [nodes |-> <<>>, min_url_len |-> urlmin, max_url_len |-> urlmax,
   max_content_length |-> contentmax, threads |-> TRUE, addr_cb |-> FALSE, https |-> {}]

(* Called for each of ns in turn.                                           *)
searest_node_add(w, ns)        == [w EXCEPT !.nodes = @ \o ns]

searest_set_internal_select(w) == [w EXCEPT !.threads = FALSE]
searest_set_addr_cb(w)         == [w EXCEPT !.addr_cb = TRUE]
searest_set_https_cert(w)      == [w EXCEPT !.https = @ \cup {"cert"}]
searest_set_https_key(w)       == [w EXCEPT !.https = @ \cup {"key"}]

(* A server without nodes is not started, and MHD may fail to.              *)
searest_start ==
  /\ daemon' \in IF ws.nodes = <<>> THEN {"none"} ELSE {"none", "run"}
  /\ UNCHANGED <<ws, http, sent, cpc, ri>>

-----------------------------------------------------------------------------
(* libmicrohttpd has the headers of a request.                              *)
Arrive(c) ==
  /\ daemon = "run"
  /\ cpc[c] = "idle"
  /\ \E r \in Requests : http' = [http EXCEPT ![c] = r]
  /\ sent' = [sent EXCEPT ![c] = 0]
  /\ cpc' = [cpc EXCEPT ![c] = "headers"]
  /\ UNCHANGED <<ws, daemon, ri>>

(* uhd_request_started returns MHD_YES or MHD_NO.                           *)
Yes(c, next) == cpc' = [cpc EXCEPT ![c] = next]
No(c)        == cpc' = [cpc EXCEPT ![c] = "closing"]

ContentLength(r) == IF r.length = NoHeader THEN 0 ELSE r.length

(* Variant, to see RefusedForCause fail: the longest url is one too long.   *)
Acceptable_Below(r) ==
  /\ UrlLen[r.url] \in ws.min_url_len..(ws.max_url_len - 1)
  /\ ContentLength(r) <= ws.max_content_length
  /\ r.method \in Methods

Acceptable(r) ==
  /\ UrlLen[r.url] \in ws.min_url_len..ws.max_url_len
  /\ ContentLength(r) <= ws.max_content_length
  /\ r.method \in Methods

(* *con_cls is NULL: the first call of a request.  Whoever is refused has   *)
(* been given an srci_t too.                                                *)
NewRequest(c) ==
  LET r == http[c]
  IN  /\ ri' = [ri EXCEPT ![c] =
                  [url |-> r.url, method |-> r.method, content_length |-> ContentLength(r),
                   post_data |-> <<>>, node |-> NoNode, return_code |-> 0]]
      /\ IF Acceptable(r) THEN Yes(c, "body") ELSE No(c)

(* Variant, to see UploadFits fail: what the client announced is not        *)
(* compared with what it sends.                                             *)
Gather_Unchecked(c, bytes) ==
  /\ ri' = [ri EXCEPT ![c].post_data = @ \o bytes]
  /\ Yes(c, "body")

Gather(c, bytes) ==
  IF Len(ri[c].post_data) + Len(bytes) > ri[c].content_length
  THEN No(c) /\ UNCHANGED ri
  ELSE /\ ri' = [ri EXCEPT ![c].post_data = @ \o bytes]
       /\ Yes(c, "body")

searest_node_find(url) ==
  LET i == SelectInSeq(ws.nodes, LAMBDA n : url \in WithRoot[n])
  IN  IF i = 0 THEN NoNode ELSE ws.nodes[i]

(* Variant, to see TypeOK fail: a node that is not there is called.         *)
process_request_Blind(c) ==
  /\ ri' = [ri EXCEPT ![c].node = searest_node_find(ri[c].url)]
  /\ Yes(c, "handling")

(* Variant, to see RequestsEnd fail: without a node there is no page.       *)
process_request_NoPage(c) ==
  LET n == searest_node_find(ri[c].url)
  IN  IF n = NoNode
      THEN UNCHANGED <<ri, cpc>>
      ELSE /\ ri' = [ri EXCEPT ![c].node = n]
           /\ Yes(c, "handling")

(* process_request: a node's handler is called, or there is no such node.   *)
process_request(c) ==
  LET n == searest_node_find(ri[c].url)
  IN  IF n = NoNode
      THEN /\ ri' = [ri EXCEPT ![c].return_code = 404]
           /\ Yes(c, "respond")
      ELSE /\ ri' = [ri EXCEPT ![c].node = n]
           /\ Yes(c, "handling")

(* uhd_request_started with a piece of the upload, or with nothing.         *)
uhd_request_started(c, bytes) ==
  IF ri[c] = NoRi THEN NewRequest(c)
  ELSE IF bytes # <<>> THEN Gather(c, bytes)
  ELSE IF Len(ri[c].post_data) < ri[c].content_length THEN No(c) /\ UNCHANGED ri
  ELSE process_request(c)

-----------------------------------------------------------------------------
(* How libmicrohttpd calls it.                                              *)

CallHeaders(c) ==
  /\ cpc[c] = "headers"
  /\ uhd_request_started(c, <<>>)
  /\ UNCHANGED <<ws, daemon, http, sent>>

Remaining(c) == Len(http[c].body) - sent[c]

CallUpload(c) ==
  /\ cpc[c] = "body"
  /\ \E k \in 1..Remaining(c) :
       /\ uhd_request_started(c, SubSeq(http[c].body, sent[c] + 1, sent[c] + k))
       /\ sent' = [sent EXCEPT ![c] = @ + k]
  /\ UNCHANGED <<ws, daemon, http>>

(* The whole body has been passed on.                                       *)
CallEnd(c) ==
  /\ cpc[c] = "body"
  /\ Remaining(c) = 0
  /\ http[c].length \in {NoHeader, sent[c]}
  /\ uhd_request_started(c, <<>>)
  /\ UNCHANGED <<ws, daemon, http, sent>>

(* The handler comes back with a page; searest_node_set_access still uses   *)
(* the node.                                                                *)
HandlerReturns(c) ==
  /\ cpc[c] = "handling"
  /\ \E code \in Codes : ri' = [ri EXCEPT ![c].return_code = code]
  /\ cpc' = [cpc EXCEPT ![c] = "respond"]
  /\ UNCHANGED <<ws, daemon, http, sent>>

QueueResponse(c) ==
  /\ cpc[c] = "respond"
  /\ cpc' = [cpc EXCEPT ![c] = "queued"]
  /\ UNCHANGED <<ws, daemon, http, sent, ri>>

(* Variant, to see HandlerSeesUpload fail: *con_cls is not reset.           *)
uhd_request_completed_KeepsRi(c) == UNCHANGED ri

uhd_request_completed(c) == ri' = [ri EXCEPT ![c] = NoRi]

(* The answer was sent, or uhd_request_started has refused.                 *)
Complete(c) ==
  /\ cpc[c] \in {"queued", "closing"}
  /\ uhd_request_completed(c)
  /\ cpc' = [cpc EXCEPT ![c] = "idle"]
  /\ http' = [http EXCEPT ![c] = NoRequest]
  /\ UNCHANGED <<ws, daemon, sent>>

(* The client is gone, or the daemon stops, while MHD waits for input.      *)
Abort(c) ==
  /\ cpc[c] = "body"
  /\ uhd_request_completed(c)
  /\ cpc' = [cpc EXCEPT ![c] = "idle"]
  /\ http' = [http EXCEPT ![c] = NoRequest]
  /\ UNCHANGED <<ws, daemon, sent>>

-----------------------------------------------------------------------------
(* searest_stop waits for every connection, searest_del frees the nodes.    *)

StopDaemon ==
  /\ daemon = "run"
  /\ daemon' = "stopping"
  /\ UNCHANGED <<ws, http, sent, cpc, ri>>

(* Variant, to see NodesOutliveHandlers fail: connections are not waited    *)
(* for.                                                                     *)
DaemonStopped_NoJoin ==
  /\ daemon = "stopping"
  /\ daemon' = "stopped"
  /\ UNCHANGED <<ws, http, sent, cpc, ri>>

DaemonStopped ==
  /\ daemon = "stopping"
  /\ \A c \in Conns : cpc[c] = "idle"
  /\ daemon' = "stopped"
  /\ UNCHANGED <<ws, http, sent, cpc, ri>>

searest_del ==
  /\ daemon = "stopped"
  /\ daemon' = "none"
  /\ ws' = NoWs
  /\ UNCHANGED <<http, sent, cpc, ri>>

(* Without threads MHD goes on when a handler has come back.                *)
MayCall(c) ==
  /\ cpc[c] # "idle"
  /\ ws.threads \/ \A d \in Conns \ {c} : cpc[d] \notin {"handling", "respond"}

Serve(c) ==
  /\ MayCall(c)
  /\ \/ CallHeaders(c)
     \/ CallUpload(c)
     \/ CallEnd(c)
     \/ HandlerReturns(c)
     \/ QueueResponse(c)
     \/ Complete(c)

-----------------------------------------------------------------------------
(* A node's handler, and whoever sees its answer, has the method, the url   *)
(* and exactly the bytes of the request MHD is serving, as many as were     *)
(* announced, in whatever pieces they came and whatever the connection was  *)
(* used for before (uhd_request_started and uhd_request_completed).         *)
HandlerSeesUpload ==
  \A c \in Conns : cpc[c] \in {"handling", "respond", "queued"} =>
    /\ ri[c].url = http[c].url
    /\ ri[c].method = http[c].method
    /\ ri[c].post_data = http[c].body
    /\ Len(ri[c].post_data) = ContentLength(http[c])

(* No upload, announced or not, makes the server hold more than the limit,  *)
(* and no handler is called for a url or a length outside the limits of     *)
(* searest_new: what is checked when the headers come still holds when the  *)
(* upload has come.                                                         *)
UploadFits ==
  \A c \in Conns :
    /\ ri[c] # NoRi => Len(ri[c].post_data) <= ws.max_content_length
    /\ cpc[c] = "handling" => Acceptable(http[c])

(* The node list outlives every request that may look into it, and every    *)
(* handler that still holds a node (webstore_stop: searest_stop and only    *)
(* then searest_del); every srci_t has been freed by then.                  *)
NodesOutliveHandlers ==
  daemon \in {"stopped", "none"} => \A c \in Conns : cpc[c] = "idle" /\ ri[c] = NoRi
=============================================================================
