# A specification of webstore

webstore keeps messages for its clients: a client POSTs a Z85-encoded message
under a token (usually the hash of the message), and whoever knows the token
can GET it.  The server (`src/src/webstore*.c`) is a set of HTTP handlers on
top of libmicrohttpd, in front of a redis database that holds all the data; the
programs `ws_post` and `ws_get` encode, compress, post, fetch, unpack and save.
This directory holds TLA+ specifications of both ends, configurations that
check them with TLC, and proofs for TLAPS.

## 1. Inventory

| component | source | state | operations |
|---|---|---|---|
| message handlers | `webstore_node.c` | none of their own; `g_rt` (configuration) is read | `get`, `post`, `do_redis_post`, `do_redis_del`, `node128` ... `node512`, `nodecfg` |
| shared redis context | `rai.c`, hiredis | one connection, one mutex | `rai_connect`, `rai_disconnect`, `rai_lock`, `rai_unlock`; `redisCommand` |
| redis | external | keys, strings, times to live | GET, SET [EX] [NX], DEL, INCR |
| connection limiter | `webstore_conn.c`, `ws_addr_check` | one counter per address, in redis | `allow_ip`, `check_ip`, `save_ip` |
| process | `webstore.c`, `webstore_uhd.c` | `g_so`, `g_shutdown`, `g_redis_error` | `parse_args`, `webstore_start`, `activate_https`, signals, `handle_redis_error`, main loop, `webstore_stop` |
| HTTP layer | `searest.c` | the server object, one `srci_t` per request | configuration, start, request start, upload, dispatch, answer, completion, stop |
| node list | `searest_nodelist.c` | list of nodes and its mutex | add, find, access counter |
| log | `webstore_log.c` | `FILE *`, mutex | `log_add`, `log_flush`, `log_close` |
| Z85 | `z85.c` | none | encode, decode, padding, bounds |
| clients | `ws_post.c`, `ws_get.c`, `ws_cfg.c`, `curl_ops.c`, `webstore_url.h` | the command line, a message, an answer | encode and post, get and decode |
| compression | `compression.c` | none | `mza_squash`, `mza_restore` |
| miniz | `miniz.c` | a compressor, a decompressor | `mz_compress`, `mz_uncompress` |
| files, options, hash | `futils.c`, `getopts.c`, `gchash.c` | `option_index` | `file_size`, `get_file`, `getopts`, `create_token` |
| stop watch | `chronometry.c` | | optional build |

**How they interact.**  libmicrohttpd accepts a connection on one thread, which
asks the limiter (`uhd_client_connect`, `ws_addr_check`, `allow_ip`).  Requests
run either on that same thread or, with MULTITHREAD, on a thread per connection.
`searest.c` collects the upload and calls the node's handler, which calls redis.
All threads share ONE hiredis context; with MULTITHREAD a mutex is held around
every group of commands, otherwise there is one thread.  A handler or the
accepting thread, when it gets no reply, calls `handle_redis_error`, which
raises `g_shutdown`; the main thread polls that flag, stops the daemon (it joins
all threads) and disconnects.  The clients reach the server through libcurl.

**What is hard.**  Two commands that should be one (GET and DEL for
burn-after-reading, GET and INCR for the limiter); a reply that is lost after
its command was executed, or a command that is executed after its sender has
gone; the shared connection; handlers in flight while the process stops, or
before it is ready to be stopped; key expiration at any moment; error replies
nobody looks at; a file that changes between two looks at it; an answer that
breaks off; integer widths, sizes and table limits in the codec and the
compressor.  `PROJECT.json` lists the hazards line by line, with the properties
that cover them.

**What makes each component correct.**
- handlers: every POST and GET takes effect once, between request and answer;
  immutable messages stay; a burnt message is handed out once, unless its
  removal was lost to a failure that the code does not handle.
- rai: a thread takes the reply to its own command; nobody uses a context that
  has been freed.
- process: it serves what its command line asks for, and a signal or a redis
  loss ends it, in order, whoever notices it and however early.
- limiter: no more connections than promised in a window, and nobody is
  locked out who is not over the limit.
- HTTP layer: a handler runs with exactly the bytes that were announced and
  sent; every request ends; nodes are freed after the last handler.
- log: lines are not mixed; the shutdown line is the last; no thread waits for
  the log mutex for ever.
- Z85, compression, clients: what was posted is what is read.

## 2. Modules

```
Redis <- Rai <- WebstoreNode <- MCNode             handlers
             |        |      <- WebstoreNodeProofs
             |        +-- INSTANCE MessageStore
             <- AllowIp <- WebstoreConn <- MCConn  limiter
                                        <- WebstoreConnProofs
Webstore  = INSTANCE WebstoreNode, AllowIp;        <- MCWebstore
                                                   <- WebstoreProofs
Searest, Options <- Startup <- MCSearest           process and HTTP layer
         Options <- OptionsProofs
Startup, OptionsProofs <- StartupProofs
WebstoreLog <- MCLog                               log
            <- WebstoreLogProofs
Z85 <- Z85Proofs                                   codec
Z85, Options <- WsClient <- MCClient               clients
WsClient, Z85Proofs, OptionsProofs <- WsClientProofs
Huffman <- Tdefl, Tinfl <- Compression <- MCCompression
```

`M <- N` says that N extends M.  The `...Proofs` modules are for TLAPS, the
`MC...` modules for TLC.

### The server

**Redis** gives the database as a function from keys to entries `[val, ttl]` or
`NoEntry`, and the commands the code sends as records.  `Effect(d, c)` and
`ReplyTo(d, c)` say what redis does with one; they are modelled from the calls
of `redisCommand` in `webstore_node.c` and `webstore_conn.c` and the reply
types the code tells apart.  Where there is a clock (WebstoreConn, and the
counters of Webstore) `Aged` counts the times to live down; a message with
`ttl > 0` may expire at any moment.

**Rai** is `rai.c` and the connection inside the hiredis context.  `owner` is
the mutex, `ctx` the context (`none`, `ok`, or `err`, which it never leaves:
the code never reconnects), `wire` the commands in flight, oldest first, each
with its sender and its reply once redis has executed it.  A `redisCommand` is
two steps, `Send` and `Receive` (or `ReceiveNull`); replies are taken from the
head of `wire` by whoever asks, as hiredis does.  When the connection breaks or
the process dies, a write that was sent and not executed moves to `orphans`:
redis may have it in its input buffer and execute it later, or never.

**WebstoreNode** is the store.

| variable | code |
|---|---|
| `rt` | `g_rt`: multithreaded, immutable, bar, expiration |
| `shutdown` | `g_shutdown` |
| `mainpc` | the main thread: in the wait loop, in `MHD_stop_daemon`, after it, gone |
| `pc`, `req`, `res` | for each connection: where its handler is, its `wsreq_t`, its return code and page |
| `served` | history: what GETs have been handed of the message under a token, across all processes |

| action | code |
|---|---|
| `EnterNode`, `get`, `post` | `nodeNNN`: shutting down, method, url and body checks |
| `nodecfg` | `nodecfg` |
| `LockRai`, `UnlockRai` | `rai_lock`, `rai_unlock`, only when multithreaded |
| `SendCmd`, `TakeReply`, `ReplyLost` | the `redisCommand` of `get` or `do_redis_post` and what follows from its reply |
| `SendDel`, `DelReply`, `DelLost` | `do_redis_del` |
| `Respond`, `CloseIdle` | the answer is queued; the connection goes on or, while the daemon stops, ends |
| `Signal`, `LeaveMainLoop`, `DaemonStopped`, `Disconnect` | `sig_handler`, `main`, `searest_stop`, `webstore_stop` |
| `Crash`, `Restart` | the process dies at any point; `webstore_start` in a new one |
| `Execute`, `Refuse`, `Break`, `OrphanRuns`, `Expire` | redis and the network |
| `LossFoundElsewhere` | `handle_redis_error` called by the accepting thread, which is not in this module |

A thread stands for an HTTP connection.  Without MULTITHREAD any number of
connections are open but one handler runs at a time (`MayRun`), and nobody
locks.  What is in a url or a body is given by constants (`UrlLen`,
`ConvertHash`, `DataLen`, `IsZ85`), so the checks of `get` and `post` are
modelled and the characters are not.

The history `served` is that of the message, not of a process: a `Restart`
leaves it alone, as redis keeps the message.  A message is `unread`, then
`read`; it is `spared` when it was read and then redis refused its DEL, the
process crashed, or the process ended after its connection had broken, with
which a DEL may have been lost.  A GET that is handed a spared message makes it
`reread`; one that is handed a message that was read and not spared since
makes it `twice`.  README.md:86 promises that nothing is ever `reread` or
`twice` (`OneGetPerMessage`, which the code does not keep);
`RereadOnlyIfSpared` says that nothing is ever `twice`.

**MessageStore** is the abstract specification: a map from tokens to messages,
with one atomic step per POST or GET.  With `Faulty` it also says what the
failures may look like: a 503 says nothing about whether the write took or will
take effect; the removal after a burnt GET is a promise (`limbo`); redis'
refusal is 417 for a POST and 404 for a GET.  WebstoreNode implements it under
the mapping at the end of that module: a request is `open` until redis has
executed its command, and then `done`.  Without failures a GET that burns stays
`open` until its message has gone, so that reading and burning are one step.

**AllowIp** is the limiter as the accepting thread runs it: `ws_addr_check`,
then `allow_ip` with the mutex, `check_ip` and `save_ip` as separate commands,
each with its reply or the loss of it (`CheckLost`, `CountLost`), and what the
caller makes of it.  **WebstoreConn** puts it on a context of its own, with a
clock (`Tick`) that ages the counters and the history `recent` of accepted
connections; `uncounted` remembers whom redis refused to count.

**Webstore** is the server put together: the handlers and the accepting thread
by INSTANCE over one database, one context, one mutex, one `g_shutdown`.
Without MULTITHREAD the accepting thread and the handlers are one thread;
`MHD_stop_daemon` (`MainStep`) waits for all of them.  `Tick` ages the counters;
`Expire` ends a message, at any time.  `Alone` is WebstoreNode once more, seen
through what the handlers are aware of: the tokens' part of the database and of
redis' input (`TokenDb`, `TokenOrphans`), the mutex when a handler has it
(`HandlerOwner`), the wire when a handler's command is on it (`HandlerWire`).
`HandlersUndisturbed` says that this is a behaviour of WebstoreNode, so that the
MessageStore of that module is also what the clients of the whole server see
(`ImplementsStore`).

**Searest** is the HTTP layer between libmicrohttpd (external) and the nodes.
`ws` is the server object that `searest_new`, `searest_node_add` and the
setters make; `ri` is the `srci_t` behind `*con_cls`; `http`, `sent` and `cpc`
say which request MHD serves on a connection, how much of its upload it has
passed on and what it does next; `daemon` is the state of the daemon.
`uhd_request_started` is one operator with the code's four cases (first call,
piece of upload, end of a short upload, dispatch); `CallHeaders`, `CallUpload`
and `CallEnd` are MHD calling it, with the body cut into pieces anywhere.
`process_request` finds the node as `searest_node_find` does, in list order.
Without threads one callback runs at a time (`MayCall`).

**Startup** is `main` around it: `parse_args` over **Options** (`getopts`, word
by word, with everything that ends it; the second half of that module, which
stands for no code, says what a command line tells a reader who goes through it
word by word, and is what `ServedAsAsked` compares with), `log_open`, `rai_connect`,
`webstore_start` with the environment and `activate_https`, each with its
failure, the start of the daemon, the installation of the signal handlers
(before it a signal simply ends the process, `Kill`), the loop, and
`webstore_stop`.  Redis may be lost by any handler as soon as the daemon runs,
which is before main is in its loop.

**WebstoreLog** is the log mutex and the file, as a sequence of the three
pieces that `log_add` writes.  `pc` is where a thread is in `log_add`, or main
on its way through `webstore_stop` and `log_close`; `handler` is a second
program counter on top of it, for `alarm_handler`: SIGALRM interrupts any
thread in `Receivers` anywhere, `log_flush` takes the same mutex, and the
thread goes on only when the handler has returned.  `log_close` closes `g_lf`
and does not reset it, so a later flush is undefined: it does nothing or ends
the process.  In the other modules logging is left out, so their shutdown
properties are about everything but the log mutex.

### The clients

**Z85** is the codec: one word of four bytes and five digits, with the width of
the word and the division by multiplication (`DIV85`); blocks; the padding; the
bounds by which the clients size their buffers.  A character is its digit.  The
sizes are constants: TLC's integers are as wide as the code's words, so TLC runs
it on bytes of 0..4 in base 5, with a magic number of its own, and the proofs
cover the real ones.

**WsClient** is `ws_post`, `ws_get`, `ws_cfg` and a curl that posts what it
likes, each a process with its command line (Options again), its file, its
request and its exit.  `parse_args` looks at the size of the file, `StatFile`
looks again and `ReadFile` reads it; `Edit` writes it meanwhile.  `encode_msg`,
`create_token` and `create_url` follow; the server answers one request at a
time as MessageStore promises it does; `save_response` grows ws_get's page
piece by piece, and `PerformFails` breaks the connection before or after the
request took effect.  `handle_page` decodes, unpacks and writes.  Compression
is a function `Squash` here; a digest stands for its message.

**Compression** is `mza_squash`, the test for 78 01 by which `handle_page` of
`ws_get` knows a pack, and `mza_restore`, over miniz.  What is not recognised is
written as it is (`write_raw`).  **Tdefl** is
`tdefl_compress_normal` a turn at a time with its ring buffer, hash-chain
search, LZ codes and the three kinds of block, code lengths from
`tdefl_calculate_minimum_redundancy` and the enforcement of their limit;
**Tinfl** is `tinfl_decompress` symbol by symbol with every refusal; **Huffman**
is what both share.  The output is a sequence of bits.  Between the two, any
one bit may turn over (`Damage`).  `probes` bounds how many earlier places a
search looks at: which of them a hash chain still reaches is not followed, and
two bounds stand for what it can find.

These four modules have RECURSIVE operators and are for TLC only.

## 3. What TLC checks

| run | instance | properties |
|---|---|---|
| `node_reliable` | 2 threads, 2 tokens, 2 messages, all 16 configurations, no failure | `OwnReply`, `ImplementsStore` |
| `node_faulty` | 2 threads, 1 token, 2 messages; break, crash, refusals; BAR or IMMUTABLE+EXPIRATION, with and without threads | `TypeOK`, `IInv`, `RereadOnlyIfSpared`, `ImmutableStable`, `ImplementsStore` |
| `webstore` | a handler, the accepting thread, 1 token, 1 limited address, REQCOUNT 1; break, crash; fair | `OwnReply`, `QuietAtDisconnect`, `RereadOnlyIfSpared`, `ShutdownCompletes`, `RedisLossStops`, `ImplementsStore` |
| `conn_limit` | an address and localhost, REQPERIOD 2, REQCOUNT 2; break, refusals; fair | `TypeOK`, `OnlyRefusedCountsExceed`, `CountsOnlyAccepted`, `OnlyLastingCountersLockOut` |
| `searest` | 20 ways to start, 2 connections, 12 kinds of request; signals, redis loss; fair | `TypeOK`, `HandlerSeesUpload`, `UploadFits`, `NodesOutliveHandlers`, `ServedAsAsked`, `RefusedForCause`, `RequestsEnd`, `StopsWhenTold` |
| `log_lines` | main and 2 workers, 2 lines each, SIGALRM in any thread; fair | `TypeOK`, `WholeLines`, `ShutdownLineLast`, `OnlyOwnMutexStops` |
| `client` | 2 posts and a get, 84 sets of command lines, 4 settings of the server | `TypeOK`, `BuffersHold`, `OnlyKnownLosses`, `TokenIsStored`, `ServedWhole` |
| `compression` | 13 messages, two depths of search, every single-bit damage of 5 packs | `TypeOK`, `CodesSpellMessage`, `Restored`, `DamageNoticed`, `BuffersHold`, `PacksAreRecognised` |
| `node_burn_refused` | as `node_faulty`, BAR; error replies only | a counterexample to `OneGetPerMessage` |
| `conn_locked_out` | one address, REQCOUNT 2; fair | a counterexample to `NeverLockedOut` |
| `log_stuck` | main and 1 worker, SIGALRM in main; fair | a counterexample to `LogLetsGo` |
| `client_lost` | as `client` | a counterexample to `ReadBack` |

**Bounds, the server.**  Two threads are the fewest that interfere, and the code
does not tell threads apart; with two messages an overwritten one is seen.  The
urls are a hash in lower and upper case, one that is too short, one that is not
hexadecimal and, with two tokens, one of another node's length; the bodies are
two messages, one that is too short and one that is not Z85.
Nothing else is bounded: the state spaces are finite because a thread has one
command in flight.  Threads and messages are symmetric in the runs of
WebstoreNode, which check no liveness.  `webstore` has one handler beside the
accepting thread, because what it adds to `node_faulty` is that pair, with the
clock of the counters; its settings are BAR without expiration and IMMUTABLE
with it, each with and without threads.  In `conn_limit`, REQPERIOD 2 lets a counter expire in the middle of a
window and REQCOUNT 2 is the least that uses both SET and INCR.
`OnlyRefusedCountsExceed` is tight: with 2 REQCOUNT - 1 it fails without any
failure at all, because a counter about to expire and its successor can both be
filled.

In `searest` three command lines serve (options repeated and in any order, a
port that wraps around, a stray word with more behind it, limiter settings on
both sides of zero, HTTPS, threads) and seventeen end for as many reasons.  Url lengths and limits are the real ones;
the data size is 6, the smallest the program takes, so an upload of 7 is one
too many and its pieces are every way to cut 6 bytes.  Connections are used
again without a bound.  In the log runs `MaxLines` bounds what a worker logs, so
that the file is finite: either worker can begin a line before, in and after
one of the other.

**Bounds, the clients.**  With five values for a byte and five digits, four
bytes need five digits' lower part and a group of the highest digits wraps, as in the code.
Messages have every length modulo 4, are packs, look like packs, and shrink to
about half or to less than `1 / RestoreFactor` (2 here, 10 in the code); file
contents differ in length and shrink or grow between the two looks.  In
`compression` every constant of miniz is scaled so that a short message passes
it: the ring buffer 512 (32768), the code buffer 128 (65536), a block's end 64
(31744), far matches 24 (8192), the longest literal code 5 bits (15) and the
longest code of a code size 4 bits (7).  `StaticBelow`, `RestoreFactor` and
everything of the decompressor, with its checks, are the real ones.  The
messages are named in MCCompression for the branch they are there for: runs
longer than a match, texts longer than the dictionary, a match that is
overwritten while it is looked for, alphabets that force the code limits, and
noise that is stored.

**What some properties say, exactly.**
- `ServedAsAsked` compares the running server with the words of the command
  line and with the environment: address, port, redis, log, certificates,
  threads, data size, limiter, expiration, IMMUTABLE, BAR.  What the words mean
  is read off the words themselves (`OptionWords`, `ArgAt`), not off the loop
  over `getopts`.  It grants the code four rules of its own, which no document
  contradicts in so many words: the last of two options counts, an `--rtcp`
  without a colon is none, what comes after a word that is neither an option nor
  an argument is not read, and a port is taken modulo 65536.  So `-P 65616`
  serves port 80 and `-P 80 x --tpc` serves without threads; a server on port 0,
  or one that reads on behind the stray word, would violate it.
- `RedisLossStops` is about every command but the DEL: a GET or a POST that is
  past its checks, and the limiter's GET and its write.  `do_redis_del`
  (`webstore_node.c:87-92`) frees the NULL of a lost connection and does not call
  `handle_redis_error`; a server whose last call was a DEL that was lost stays
  up, with a dead connection, until the next request finds it.
- `DamageNoticed` is about what `ws_get` writes of a pack with one bit turned
  over: the message, or nothing, or the damaged pack itself.  The last only when
  the bit is one of the first sixteen: then `ws_get.c:96` does not know the pack
  any more, takes it for a message that was never packed, and writes it.

**Deadlock** is checked in the runs of WebstoreNode, WebstoreConn and Webstore.
In the others the processes really end, and in the log a thread can really get
stuck on its own mutex: `OnlyOwnMutexStops` says that it happens in no other way.

**Fairness.**  FairSpec of Webstore asks that a thread that can step does
(a mutex waiter may be overtaken for ever: only weak fairness is asked), that
redis executes the command it has received, and that the main thread runs.  A
command that is never answered is outside of it: `redisConnect` sets no
timeout, so a redis that hangs without closing the connection keeps the server
from stopping.  Nobody has to connect, send a request or a signal, or fail, and
no time has to pass.  FairSpec of WebstoreConn asks the same of the listener and
of redis, and that time passes.  FairSpec of Startup asks that main runs and
that MHD serves each connection: strongly, because without threads `select`
looks at all sockets in turn, so a connection that is ready again and again
between others' callbacks gets its turn.  A client that goes silent in its
upload is not thrown out (`searest_start` is given no inactivity timeout) until
`MHD_stop_daemon` closes its connection, so only requests that are sent in full
must end, and clients have to do nothing until then.  FairSpec of WebstoreLog
asks that threads run, to their end, and, since alarms are a second apart, that
a thread that can go on between any two of them does (strong fairness); no
alarm and no shutdown has to come.

**Where code and documentation disagree.**
- *A message can be read twice under BAR* (`node_burn_refused`).  `do_redis_del`
  (`webstore_node.c:90`) looks neither at an error reply to the DEL nor at the
  lack of a reply.  After an error reply the very next GET is handed the message
  again; after a crash between GET and DEL, or a DEL that was lost with the
  connection, a GET of the process that is started next is.  The server that
  lost the DEL does not hand it out again, as its context stays in error.
  `RereadOnlyIfSpared`, in `node_faulty` and `webstore`, shows that there is no
  other way: each further hand-out has such a failure of its own before it, and
  racing GETs never both get a message.
- *An address can be locked out for ever* (`conn_locked_out`).  The counter may
  expire between the GET of `check_ip` and the INCR of `save_ip`
  (`webstore_conn.c:35`); INCR then makes a counter that never expires.
  `conn_limit` shows that nothing else locks an address out.
- *The server may never stop* (`log_stuck`).  SIGALRM may interrupt main while
  it holds the log mutex in `log_add` or `log_close`; `alarm_handler`
  (`webstore.c:84`) then calls `log_flush`, which waits for that mutex for ever.
  The same in a worker keeps `MHD_stop_daemon` from returning.  `log_lines`
  shows that nothing else in the log keeps it from stopping.
- *A message that compresses too well is lost* (`client_lost`).  `mza_restore`
  (`compression.c:51`) allows ten times the pack; `ws_get` says so on stderr,
  saves nothing and exits with 0.  `client` shows that the only other messages
  lost are those that look like a pack (78 01) and were posted as they are;
  `compression` shows that miniz itself gives back every other one.

Beside these, `OnlyRefusedCountsExceed` is worded around a fifth: `save_ip`
(`webstore_conn.c:37`) ignores an error reply and lets the connection in, so
while redis refuses writes there is no limit.  And where `ws_get` cannot decode
what somebody else has stored it ends on an assertion of `z85.c` or writes
nothing; no document promises more.

## 4. What TLAPS proves

**`WebstoreNodeProofs`** proves, for every set of threads, tokens, messages,
nodes and settings, from the assumptions `RedisAssumption`, `RaiAssumption`,
`NodeAssumption` and `NoReqAssumption` (the marker values are not values; only
bodies that pass the checks are strings redis holds; the settings are records
of the right type):

| theorem | states |
|---|---|
| `Invariant` | `Spec => []IInv` |
| `TypeCorrect` | `Spec => []TypeOK` |
| `RepliesMatch` | `Spec => []OwnReply` |
| `DisconnectIsQuiet` | `Spec => []QuietAtDisconnect` |
| `ImmutableHolds` | `Spec => ImmutableStable` |
| `BurnOnce` | `Spec => []RereadOnlyIfSpared` |
| `Implements` | `Spec => ImplementsStore` |

The argument.  None of the properties is inductive.  `OwnReply` needs to know
why the head of the wire is the caller's own command: only one command is on
the wire (`WireInv`), because only a thread in the critical section sends, and
only one is there (`MutexInv`: the mutex's owner when multithreaded, the only
handler otherwise), and every sender takes its reply before it leaves.
`QuietAtDisconnect` needs that threads end before the context does (`StopInv`).
`ImmutableStable` needs that every SET on the wire and in redis' input was
made with NX (`WireInv`, `OrphanInv`), also by a process that is gone, which is
why a restart keeps the configuration.  `IInv` is the conjunction; the run
`node_faulty` checks it and the lemmas `...Step` prove each part preserved, one
step per action.  `BurnOnce` adds `BurnInv`: a message that was read, was not
spared since and is still in the store has its DEL outstanding (still to be
sent, on the wire, or refused with the refusal unread), or the context is in
error and no GET will be answered any more; the command on the wire is then that
DEL, so no GET can come before it.  Reading the refusal, crashing and ending
with the context in error are the steps that spare it.  There is no hypothesis
about redis or about restarts.

`Implements` is the refinement of MessageStore.  A request is open until redis
has executed its command, and answered from then on with what the handler is
going to say, or with 503 if the reply is lost.  So a step of a handler begins
an operation (`nodecfg`), returns it, fails it (it finds the connection gone) or
is a stutter, and the other steps are these:

| step of WebstoreNode | step of MessageStore |
|---|---|
| `Execute` of a GET or a SET | `AnswerGet`, `AnswerPost`; a stutter for a GET that will burn, if nothing may fail |
| `Execute` of a DEL | `Late` if something may fail; otherwise the `AnswerGet` that burns, or a stutter if the message has expired |
| `Refuse` | `Refuse` for a GET or a SET, `Forget` for a DEL |
| `Break` | `Fail` of the request whose reply is lost, otherwise `Forget` |
| `OrphanRuns` | `Late` or `Forget` |
| `Expire` | `Expire`, or the `AnswerGet` of a GET that is about to burn the message, if nothing may fail |
| `Crash` | `Crash` |
| `MainStep`, `Signal`, `LossFoundElsewhere`, `Restart` | stutters |

Without failures MessageStore burns a message in the moment it is read, and the
code some steps later; the refinement therefore answers such a GET when its DEL
is executed, or when the message expires under it.  The lemmas `...Refines` are
one per row, over the lemmas that say when a record of the abstract operation
changes (`Beside`, `OpAt`) and that limbo otherwise only shrinks
(`LimboShrinks`).  `IInv` is not enough for them: `StoreInv` adds that a
connection at rest has no request (`RestInv`), that without failures nothing is
left in redis' input and the connection lasts as long as the process
(`ReliableInv`), and that the page of a GET which is about to burn is the
message still stored (`PageInv`), for which the critical section is what keeps
another writer away.

**`Z85Proofs`** proves the codec for every base, byte size and magic number
that satisfy `Z85Assumption` (the word fits five digits, and Magic / Shift is
1 / Base rounded up by little enough), and that the real ones do
(`RealConstants`: 256, 85, 3233857729, 2^38).  TLC could not: their words are
wider than its integers.

| theorem | states |
|---|---|
| `DivExact` | `DIV85(n)` is `n \div Base` for every word |
| `EncodeWordDigits`, `WordRoundTrip` | five digits per word; decoding them gives the word, without wrapping |
| `RoundTrip` | a message of any length is decodable, and is decoded to itself |
| `BoundsExact` | both bounds are exactly the sizes of what is written |

The argument.  With n = Base q + r, Magic n / Shift exceeds n / Base by less
than 1 / Base, so the floor is the same.  Each of the digits is then a
remainder, and Horner's scheme reverses it without reaching `WordSize`.  Blocks
are defined group by group, without recursion, so that byte i of the decoded
block is in group (i + 3) / 4 of both, and the padding digit restores the
length modulo 4.

**`WebstoreProofs`** proves, of the server put together, for every set of
handlers, tokens, messages and addresses:

| theorem | states |
|---|---|
| `Invariant` | `Spec => []IInv` |
| `RepliesAreOwn` | `Spec => []OwnReply` |
| `QuietBeforeDisconnect` | `Spec => []QuietAtDisconnect` |
| `BurnOnce` | `Spec => []RereadOnlyIfSpared` |
| `Undisturbed` | `Spec => HandlersUndisturbed` |
| `Implements` | `Spec => ImplementsStore` |
| `ImmutableHolds` | `Spec => Alone!ImmutableStable` |

The argument is that of WebstoreNode with one more user of the context: the
accepting thread is in `Critical` while it counts a connection, and without
MULTITHREAD a thread of the daemon is either in a handler or in `allow_ip`
(`MutexInv`).  It needs more about the database (`DbInv`): tokens hold messages
and addresses hold counts, so that an INCR of the limiter neither burns nor
brings back a message and a SET of a handler never touches a counter.  For that
`WebstoreAssumption` keeps the keys apart (a token is hexadecimal, a counter's
key begins with `IPS:`).  `BurnOnce` is the theorem of WebstoreNode again, now
with commands of the accepting thread between a lost DEL and the next GET.

`Undisturbed` shows that the limiter is invisible to the handlers: each step of
the server is, through the mapping of `Alone`, the same step of WebstoreNode, or
a stutter if it is one of the accepting thread's.

| step of Webstore | step of `Alone` |
|---|---|
| `Enter`, `HandlerStep`, `MainStep`, `Signal`, `Crash`, `Restart`, `Expire` | the same |
| `Execute`, `Refuse`, `OrphanRuns` of a handler's command | the same |
| `Execute`, `Refuse`, `OrphanRuns` of the limiter's, `Accept`, `Tick` | a stutter |
| `Break` | `Break`; what is left of a command of the limiter is not seen |
| a step of `allow_ip` | a stutter, or `LossFoundElsewhere` if it finds the connection gone |

What has to be shown is that a handler never meets the difference: that the
mutex is really free when `HandlerOwner` says so, and that the command at the
head of the wire is the handler's own whenever it takes a reply, which are
`MutexInv` and `WireInv` again; and that a command of the limiter touches no
token (`AddressCommand`) and one of a handler no counter (`TokenCommand`).  The
lemmas `...Seen` are one per row.  `Implements` and `ImmutableHolds` are then the
theorems of WebstoreNodeProofs, instantiated for `Alone`: `Assumed` derives their
assumptions from those of Webstore, and `SameSpec` and `SameStore` that the two
instances of WebstoreNode mean the same.  Besides the assumptions of its parts
this needs `HandlerAssumption`: the marker values (no message, no entry, no
reply, no request) are not the values they are compared with, and the checks of
urls and bodies give numbers and truth values.

**`WebstoreConnProofs`** proves the limiter for all addresses and all values of
REQPERIOD and REQCOUNT:

| theorem | states |
|---|---|
| `Invariant` | `Spec => []IInv` |
| `TypeCorrect` | `Spec => []TypeOK` |
| `RateLimit` | `Spec => []OnlyRefusedCountsExceed` |
| `NoOvercount` | `Spec => []CountsOnlyAccepted` |

The argument.  A counter with ttl left was made `Age = REQPERIOD - ttl` ticks
ago.  The connections accepted since then are all counted in it (`UpperInv`,
second part), and those of the window that came before are at most what one
earlier counter held, which is REQCOUNT (first part): together no more than
2 REQCOUNT.  `LowerInv` is the converse, that a counter has no more than was
accepted.  What holds a step back is the time between the GET of `check_ip` and
the write of `save_ip`: `RoomInv` says that what the GET has seen can have
become less since (the counter has expired) but not more, so that the write
stays within REQCOUNT.  When the connection is lost one more count may or may
not take effect, and nobody is let in any more; `LastInv` is what is left then.
`recent` is a sequence of counts by age, and the lemmas `Sums...` say how a tick
and a connection move its partial sums.

**`WebstoreLogProofs`** proves, for any number of threads and lines and SIGALRM
in any thread at any point, `Invariant`, `TypeCorrect` (`TypeOK`),
`LinesAreWhole` (`WholeLines`) and `LastLine` (`ShutdownLineLast`).  The mutex'
owner is the thread inside `log_add` or inside the flush of its handler, never
both (`MutexInv`), so the file is whole lines and the `Begun` parts of the
owner's (`LineInv`).  `StopInv` follows main: no line of its own before the
workers have ended, exactly one at the end after.

**`OptionsProofs`** proves three theorems about `getopts`, for command lines of
any length: `Scanned`, that the loop over it ends and each of its results is what
`getopts` returns at some word or behind the last; `Argued`, that the argument
which a program takes for an option is one that `getopts` returned with that
option; and `Understood`, that what the loop has seen of an option is what the
words say of it: it is seen exactly if a word that is read as an option names
it, and the last argument seen is the one behind the last such word (also when
some arguments are set aside, as `--rtcp` does with those without a colon).
`Understood` needs that the command line does not end in the usage and that no
word names two options.  The loop is a recursive function, and the proofs are
inductions over the words that are left, by the theorem of the library that a
well-founded relation has minimal elements: from any word that is reached as an
option on (`Says`), the rest of the words and the rest of the results (`Sees`)
agree.

**`StartupProofs`** proves, for every command line, environment and number of
connections:

| theorem | states |
|---|---|
| `Invariant` | `Spec => []IInv` |
| `TypeCorrect` | `Spec => []TypeOK` |
| `UploadsArrive` | `Spec => []HandlerSeesUpload` |
| `UploadsFit` | `Spec => []UploadFits` |
| `NodesOutlive` | `Spec => []NodesOutliveHandlers` |
| `Asked` | `Spec => []ServedAsAsked` |
| `Refused` | `Spec => []RefusedForCause` |

The argument.  Where main is tells what it has made of the command line
(`MainInv`) and whether there is a server object and with which limits
(`ServerInv`).  Where a connection is tells what its `srci_t` holds (`ConnInv`):
nothing before the first call, and from then on exactly the beginning of the
body that MHD has passed on, within `--dsize`, until all of it is there; a
request that comes to its handler is one whose url, method and length were
accepted with its headers.  Nodes are freed only when every connection is idle.
For `Asked`, `MainInv` gives the server in terms of what `parse_args` has made
of the results of `getopts`, and `Understood` turns each option of it into what
the words say (`Order`, `Address`).  The assumptions say what the scenarios are:
words and settings of the right kind, no word that names two options (`strcmp`
with different names), bodies no longer than announced, well-formed urls within the limits that `webstore_start`
sets.

**`WsClientProofs`** proves, for any number of clients at one server, with every
message, file, command line and broken connection:

| theorem | states |
|---|---|
| `Invariant` | `Spec => []IInv` |
| `TypeCorrect` | `Spec => []TypeOK` |
| `NothingOverflows` | `Spec => []BuffersHold` |
| `LossesAreKnown` | `Spec => []OnlyKnownLosses` |
| `PrintedTokens` | `Spec => []TokenIsStored` |
| `WholeAnswers` | `Spec => []ServedWhole` |

The argument.  What is in the store under a token was made by `ws_post` from
the whole of its buffer (`StoreInv`, `MadeBy`), and a run that has encoded its
message never changes it again (`Settled`), so what another run gets later can
be compared with it.  `ws_get` holds a beginning of the block it was sent
(`ReaderInv`), and the whole of it when it decodes; `RoundTrip` of Z85Proofs
then gives the bytes that were encoded, `BoundsExact` and `DecodeFits` that they
fit their buffers, and `GetInv` that unpacking gives the message but for the two
known losses.  `KeptInv` is that an accepted message stays under its token when
nothing may change it.  `ClientAssumption` is what is taken of the compressor:
two messages do not have the same pack, and a pack is longer than six bytes and
begins with the two bytes of zlib.  Of the model of miniz, the run
`compression` checks that packs are unpacked to what was packed and are
recognised by their first bytes.  `ScenarioAssumption` is that an argument of the command line
has no NUL in it and that the file to post exists.

The invariants of these modules were checked by TLC on the instances of the runs
above before they were proved.

**What is only model-checked.**  All liveness (`ShutdownCompletes`,
`RedisLossStops`, `OnlyLastingCountersLockOut`, `RequestsEnd`, `StopsWhenTold`,
`OnlyOwnMutexStops`): the prover does not reason about fairness and ENABLED.
Compression, Tdefl, Tinfl and Huffman, with all six properties of the run
`compression`: their algorithms are recursive over data, which is induction over
data for the prover, and it accepts no RECURSIVE operator at all.

## 5. What is not modelled

- Texts, headers, the XML/JSON helpers and the inside of TLS: nothing depends
  on them.  Digests and libcurl's set-up.
- A restart with another configuration.  With IMMUTABLE switched on between two
  runs of the server, a late write of the first would not carry NX.
- A hanging redis (above), and the width of the limiter's counter (`atoi`):
  `check_ip` stops counting at REQCOUNT.
- `handle_redis_error`'s two flags are one: they are only set together.
- The access counter and time of a node (`searest_nodelist.c:61`), which are
  updated without the list's mutex and which nobody decides anything on;
  disabling nodes, which nobody does.
- The SIGPIPE branch of `sig_handler`, which logs as a worker does, from a
  signal handler, with the hazard that WebstoreLog shows for SIGALRM.
- An allocation that fails, in the clients and in miniz.
- In miniz: the zip archives, the PNG writer, streams given in pieces, the fast
  and the lazy compression levels, which are most of the file and which
  webstore never calls.  `chronometry.c` (an optional build that measures
  durations) and the scripts.

## 6. Plan

1. `convert_hash` itself, character by character, with a lemma that `ConvertHash`
   is what it makes of every url; WebstoreNode takes it from a constant.
2. Webstore over Startup instead of over `Init`: that the whole server is ready
   to be stopped from the moment its daemon runs is checked for Startup alone.
3. A restart with another configuration, with what IMMUTABLE then promises.
4. The literal and match loop of Tdefl and Tinfl as recursive functions, so that
   at least their step invariants (positions within the buffers) can be proved.
