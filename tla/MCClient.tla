------------------------------ MODULE MCClient ------------------------------
(* Three programs at one server.  Bytes and digits have five values, and a  *)
(* word of four bytes needs all of the five digits' lower part.             *)
EXTENDS WsClient, TLC

CONSTANTS post1, post2, get

Lengths == <<32, 40, 56, 64, 96, 128>>

Zlib == <<3, 1>>

Short  == <<2>>
Tiny   == <<3, 1, 4>>
Fake   == <<3, 1, 2, 2, 2, 2, 4>>
Rows   == <<1, 1, 1, 1, 1, 1, 1, 1, 1>>
Plain  == <<2, 2, 2, 2, 2, 2, 2, 2, 2, 2, 2, 2, 2, 2, 2>>
Packed == <<3, 1, 4, 4, 4, 1, 1>>

Packs ==
  (Short :> <<3, 1, 4, 3, 3, 3, 3, 3>>) @@ (Rows :> Packed)
    @@ (Plain :> <<3, 1, 4, 4, 4, 2, 2>>)

Texts == [out |-> <<<<1, 0, 2, 4, 4>>, <<2, 0>>, <<3, 3, 3, 3>>, <<1, 0, 2, 4, 4, 1, 1>>>>]

Argument(dash, long, short, help, text) ==
  [dash |-> dash, long |-> long, short |-> short, help |-> help, text |-> text]

Flag(c)  == Argument(TRUE, "", c, FALSE, <<>>)
Long(n)  == Argument(TRUE, n, "-" , FALSE, <<>>)
Text(t)  == Argument(FALSE, "", "", FALSE, t)
Help     == Argument(TRUE, "help", "-help", TRUE, <<>>)

Host == <<Flag("H"), Text("host"), Flag("P"), Text(80)>>

Mine  == [len |-> 32, hex |-> TRUE, of |-> <<4, 4>>]
Junk  == [len |-> 32, hex |-> FALSE, of |-> <<4, 4>>]
Short31 == [len |-> 31, hex |-> TRUE, of |-> <<4, 4>>]

Command(prog, argv) == [prog |-> prog, argv |-> argv]

Post(argv) == Command("ws_post", Host \o argv)
Fetch(t, argv) == Command("ws_get", Host \o <<Flag("t"), Text(t)>> \o argv)
Alg(a) == <<Flag("a"), Text(a)>>
Msg(m) == <<Flag("m"), Text(m)>>
To(t)  == <<Flag("t"), Text(t)>>
File   == <<Long("file"), Text("out")>>
Comp   == <<Flag("c")>>

Posts ==
  {Post(To(Mine) \o Msg(Short)), Post(To(Mine) \o Comp \o Msg(Short)),
   Post(To(Mine) \o Msg(Tiny)), Post(To(Mine) \o Msg(Fake)),
   Post(To(Mine) \o Msg(Packed)), Post(To(Mine) \o Msg(Rows) \o Comp),
   Post(To(Mine) \o Msg(Plain) \o Comp), Post(To(Mine) \o File)}

OtherPosts ==
  {Post(<<Long("https")>> \o To(Mine) \o Msg(Tiny)),
   Command("curl", <<Text(Mine), Text(<<4>>)>>),
   Command("curl", <<Text(Mine), Text(<<0, 1, 1, 1, 1, 1>>)>>),
   Command("curl", <<Text(Mine), Text(<<2, 4, 4, 4, 4, 4, 1, 1, 1, 1, 1>>)>>)}

Gets == {Fetch(Mine, <<>>), Fetch(Mine, File)}

(* Command lines that end in a usage message, an error or a refusal.        *)
Refusals ==
  {Post(To(Mine) \o Alg(1) \o Msg(Short)), Post(<<Text("stray")>> \o To(Mine) \o Msg(Short)),
   Post(To(Mine) \o Msg(Short) \o File), Post(To(Mine) \o <<Flag("m")>>),
   Post(To(Mine) \o <<Flag("m")>> \o File), Post(To(Mine) \o Msg(<<>>)),
   Post(To(Junk) \o <<Flag("z")>> \o Msg(Short)), Post(To(Short31) \o Msg(Short)),
   Post(<<Help>>), Command("ws_post", <<>>), Fetch(Short31, <<>>), Command("ws_get", Host)}

Scenes ==
  {(post1 :> a) @@ (post2 :> b) @@ (get :> c) : a \in Posts, b \in OtherPosts, c \in Gets}
    \cup
  {(post1 :> Post(Alg(a) \o Msg(m) \o b)) @@ (post2 :> Post(Alg(2) \o Msg(Rows)))
     @@ (get :> Fetch(create_token(a, m), File)) :
       a \in {1, 2}, m \in {Rows, Plain}, b \in {<<>>, Comp}}
    \cup
  {(post1 :> Post(To(Mine) \o Msg(Tiny))) @@ (post2 :> b) @@ (get :> Command("ws_cfg", Host)) :
     b \in Refusals}

Flags == {[immutable |-> i, bar |-> b] : i, b \in BOOLEAN}
=============================================================================
