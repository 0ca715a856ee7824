----------------------------- MODULE MCSearest -----------------------------
(* Small instances of Startup for TLC: many ways to start, a few requests.  *)
EXTENDS Startup

CONSTANTS c1, c2

(* The shortest option and the longest token of the API, a root alone, urls *)
(* that are one too short and one too long, and one of no node.             *)
Length == [token128 |-> 11 + 32, token512 |-> 11 + 128, long |-> 11 + 129,
           bar |-> 8 + 3, root |-> 8, short |-> 8 + 2, other |-> 20]

MCWithRoot ==
  [n \in {"config", "store128", "store160", "store224", "store256", "store384", "store512"} |->
     CASE n = "config"   -> {"bar", "root", "short"}
       [] n = "store128" -> {"token128"}
       [] n = "store512" -> {"token512", "long"}
       [] OTHER          -> {}]

MCWellFormed == {"token128", "token512", "bar"}

Sent(url, method, length, body) ==
  [url |-> url, method |-> method, length |-> length, body |-> body]

Six == <<1, 2, 3, 4, 5, 6>>

(* Uploads of the smallest limit, one that is larger, one that ends too     *)
(* early, one that is not announced, and requests without.                  *)
MCRequests ==
  {Sent("token128", "GET", NoHeader, <<>>), Sent("root", "GET", NoHeader, <<>>),
   Sent("long", "GET", NoHeader, <<>>), Sent("other", "PUT", 1, <<1>>),
   Sent("bar", "GET", NoHeader, <<>>), Sent("short", "GET", NoHeader, <<>>),
   Sent("token128", "HEAD", NoHeader, <<>>),
   Sent("token512", "POST", 6, Six), Sent("token128", "POST", 2, <<5, 4>>),
   Sent("token128", "POST", 7, <<1, 2>>),
   Sent("token128", "POST", NoHeader, Append(Six, 1)), Sent("token128", "POST", 0, <<>>)}

-----------------------------------------------------------------------------
Word(dash, long, short, help, text) ==
  [dash |-> dash, long |-> long, short |-> short, help |-> help, text |-> text]

Flag(c)    == Word(TRUE, "", c, FALSE, "dash")
Long(n)    == Word(TRUE, n, "-", FALSE, "dash")
Text(t)    == Word(FALSE, "", "", FALSE, t)
With(n, t) == <<Long(n), Text(t)>>

Sock       == With("rsock", "sock")
Tcp(port)  == With("rtcp", [colon |-> TRUE, ip |-> "redis", port |-> port])
NoColon    == With("rtcp", [colon |-> FALSE, ip |-> None, port |-> 0])
Port(port) == <<Flag("P"), Text(port)>>
Https      == With("cert", "cert.pem") \o With("key", "key.pem")

Env(period, count, exp, imm, bar) ==
  [REQPERIOD |-> period, REQCOUNT |-> count, EXPIRATION |-> exp, IMMUTABLE |-> imm, BAR |-> bar]

Unset == Env(0, 0, 0, FALSE, FALSE)

Begin(argv, env) == [argv |-> argv, env |-> env]

(* A file with a name that getopts takes for --tpc, were it not an argument. *)
Mytpc == Word(FALSE, "tpc", "ytpc", FALSE, "mytpc")

(* Servers that start.                                                      *)
Servers ==
  {Begin(Sock \o Port(80) \o <<Flag("t")>> \o With("dsize", 7) \o With("dsize", 6), Unset),
   Begin(Tcp(6379) \o NoColon \o Port(8080) \o With("log", "log") \o Https,
         Env(1, 1, 0 - 1, TRUE, FALSE)),
   Begin(<<Long("zzz")>> \o Tcp(6379) \o Sock \o Port(PortSize + 80) \o With("dsize", 6)
           \o <<Long("log"), Mytpc, Text("stray"), Flag("t")>>,
         Env(60, 0 - 5, 10, FALSE, TRUE))}

(* And command lines that are turned down, some only when a file is opened. *)
Failures ==
  {Begin(a, Unset) :
     a \in {<<>>, Sock, Port(80), NoColon \o Port(80), Tcp(PortSize) \o Port(80),
            Sock \o Port(PortSize), Tcp(0) \o Sock \o Port(80),
            Sock \o Port(80) \o With("cert", "cert.pem"),
            Sock \o Port(80) \o With("key", "key.pem"),
            Sock \o Port(80) \o With("cert", "cert.pem") \o With("key", "absent"),
            Sock \o Port(80) \o With("log", "absent"),
            Sock \o Port(80) \o With("dsize", 5), Sock \o Port(80) \o With("dsize", 0 - 1),
            <<Text("stray")>> \o Sock \o Port(80), Sock \o <<Flag("P")>>,
            Sock \o <<Flag("P"), Flag("t")>>,
            Sock \o Port(80) \o <<Word(TRUE, "help", "-help", TRUE, "dash")>>}}

MCStarts == Servers \cup Failures
=============================================================================
