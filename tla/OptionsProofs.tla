---------------------------- MODULE OptionsProofs ----------------------------
(***************************************************************************)
(* What the four programs rely on in getopts.c, for command lines of every *)
(* length: the loop of parse_args ends, and what it has seen are results   *)
(* of getopts.                                                             *)
(***************************************************************************)
EXTENDS Options, WellFoundedInduction, TLAPS

(* Induction, on a set of numbers: one that has 0 and the successor of each *)
(* of its numbers below m has all numbers up to m.                          *)
LEMMA Climbs ==
  ASSUME NEW m \in Nat, NEW S, 0 \in S, \A n \in 0..m : n \in S /\ n < m => n + 1 \in S
  PROVE  0..m \subseteq S
<1> DEFINE T == {n \in Nat : n <= m /\ n \notin S}
<1> SUFFICES ASSUME T # {} PROVE FALSE OBVIOUS
<1>1. T \subseteq Nat OBVIOUS
<1>2. \E n \in T : \A k \in T : ~(<<k, n>> \in OpToRel(<, Nat))
  <2> HIDE DEF T
  <2> QED BY <1>1, NatLessThanWellFounded, WFMin
<1>3. PICK n \in T : \A k \in T : ~(<<k, n>> \in OpToRel(<, Nat)) BY <1>2
<1>4. \A k \in T : ~(k < n) BY <1>1, <1>3 DEF OpToRel
<1>5. n # 0 /\ n - 1 \in Nat /\ n - 1 < n /\ n - 1 \notin T /\ n <= m BY <1>4
<1>6. n - 1 \in S /\ n - 1 \in 0..m BY <1>5
<1> QED BY <1>5, <1>6

(* Of some places of a sequence one is the first and one is the last.       *)
LEMMA FirstAndLast ==
  ASSUME NEW n \in Nat, NEW I, I \subseteq 1..n, I # {}
  PROVE  /\ \E i \in I : \A j \in I : i <= j
         /\ \E i \in I : \A j \in I : j <= i
<1> DEFINE S == {m \in 0..n : (\E i \in I : i <= m) => \E i \in I : \A j \in I : i <= j}
           T == {m \in 0..n : (\E i \in I : i >= n - m) => \E i \in I : \A j \in I : j <= i}
<1>1. 0 \in S /\ 0 \in T
  <2>1. ~ \E i \in I : i <= 0 OBVIOUS
  <2>2. \A i \in I : i >= n - 0 => \A j \in I : j <= i OBVIOUS
  <2> QED BY <2>1, <2>2
<1>2. ASSUME NEW m \in 0..n, m \in S, m < n PROVE m + 1 \in S
  <2>1. CASE \E i \in I : i <= m BY <1>2, <2>1
  <2>2. CASE ~ \E i \in I : i <= m
    <3>1. \A j \in I : j >= m + 1 BY <1>2, <2>2
    <3>2. ASSUME NEW i \in I, i <= m + 1 PROVE \A j \in I : i <= j BY <1>2, <3>1, <3>2
    <3> QED BY <1>2, <3>2
  <2> QED BY <2>1, <2>2
<1>3. ASSUME NEW m \in 0..n, m \in T, m < n PROVE m + 1 \in T
  <2>1. CASE \E i \in I : i >= n - m BY <1>3, <2>1
  <2>2. CASE ~ \E i \in I : i >= n - m
    <3>1. \A j \in I : j <= n - (m + 1) BY <1>3, <2>2
    <3>2. ASSUME NEW i \in I, i >= n - (m + 1) PROVE \A j \in I : j <= i BY <1>3, <3>1, <3>2
    <3> QED BY <1>3, <3>2
  <2> QED BY <2>1, <2>2
<1> HIDE DEF S, T
<1>4. n \in S /\ n \in T
  <2>1. 0..n \subseteq S BY <1>1, <1>2, Climbs
  <2>2. 0..n \subseteq T BY <1>1, <1>3, Climbs
  <2> QED BY <2>1, <2>2
<1>5. PICK i \in I : i \in 1..n OBVIOUS
<1> QED BY <1>4, <1>5 DEF S, T

(* The last of some places is the largest.                                  *)
LEMMA LastIs ==
  ASSUME NEW n \in Nat, NEW I, I \subseteq 1..n, NEW i \in I, \A j \in I : j <= i
  PROVE  Max(I) = i
<1>1. \A j \in I : i >= j /\ j \in Nat OBVIOUS
<1>2. Max(I) \in I /\ \A j \in I : Max(I) >= j BY <1>1 DEF Max
<1>3. Max(I) >= i /\ i >= Max(I) /\ Max(I) \in Nat /\ i \in Nat BY <1>1, <1>2
<1> QED BY <1>3

-----------------------------------------------------------------------------
(* The option of a word is one of the table that it names, or none.         *)
LEMMA OptionIs ==
  ASSUME NEW T, NEW table \in Seq(T), NEW w
  PROVE  \/ OptionOf(table, w) = 0
         \/ OptionOf(table, w) \in 1..Len(table) /\ Matches(table[OptionOf(table, w)], w)
<1> DEFINE I == {i \in 1..Len(table) : Matches(table[i], w)}
<1>1. OptionOf(table, w) = IF I # {} THEN Min(I) ELSE 0 BY DEF OptionOf, SelectInSeq
<1>2. CASE I # {}
  <2>1. \E i \in I : \A j \in I : i <= j
    <3>1. I \subseteq 1..Len(table) /\ Len(table) \in Nat OBVIOUS
    <3> HIDE DEF I
    <3> QED BY <1>2, <3>1, FirstAndLast
  <2>2. Min(I) \in I
    <3> HIDE DEF I
    <3> QED BY <2>1 DEF Min
  <2> QED BY <1>1, <1>2, <2>2
<1> QED BY <1>1, <1>2

(* getopts goes on by one word or by two, and not beyond the last.          *)
LEMMA GoesOn ==
  ASSUME NEW W, NEW argv \in Seq(W), NEW table, NEW k \in 1..(Len(argv) + 1)
  PROVE  \/ getopts(argv, k, table).ret \in {"end", "usage"}
         \/ k <= Len(argv) /\ getopts(argv, k, table).next \in (k + 1)..(Len(argv) + 1)
<1> DEFINE i == OptionOf(table, argv[k])
<1>1. Len(argv) \in Nat OBVIOUS
<1>2. CASE k > Len(argv) BY <1>2 DEF getopts, Result
<1>3. CASE k <= Len(argv) /\ \E j \in 1..Len(argv) : argv[j].help
  BY <1>3 DEF getopts, Result
<1>4. CASE k <= Len(argv) /\ ~ \E j \in 1..Len(argv) : argv[j].help
  <2> HIDE DEF i
  <2>1. CASE i = 0 /\ argv[k].dash BY <1>1, <1>4, <2>1 DEF getopts, Result, i
  <2>2. CASE i = 0 /\ ~argv[k].dash BY <1>1, <1>4, <2>2 DEF getopts, Result, i
  <2>3. CASE i # 0 /\ ~table[i].args BY <1>1, <1>4, <2>3 DEF getopts, Result, i
  <2>4. CASE i # 0 /\ table[i].args /\ k = Len(argv)
    BY <1>1, <1>4, <2>4 DEF getopts, Result, i
  <2>5. CASE i # 0 /\ table[i].args /\ k < Len(argv)
    BY <1>1, <1>4, <2>5 DEF getopts, Result, i
  <2> QED BY <1>1, <1>4, <2>1, <2>2, <2>3, <2>4, <2>5
<1> QED BY <1>1, <1>2, <1>3, <1>4


-----------------------------------------------------------------------------
(* The loop.                                                                *)

(* One pass of the loop, from word k on, when h is what the next ones find. *)
Pass(argv, table, h, k) ==
  LET r == getopts(argv, k, table)
  IN  IF r.ret \in {"end", "usage"} THEN <<r>> ELSE <<r>> \o h[r.next]

(* The loop ends, so that its results are what Scan says they are.          *)
LEMMA ScanExists ==
  ASSUME NEW W, NEW argv \in Seq(W), NEW table
  PROVE  \E h : h = [k \in 1..(Len(argv) + 1) |-> Pass(argv, table, h, k)]
<1> DEFINE n == Len(argv)
           R(k) == getopts(argv, k, table)
           Ends(k) == R(k).ret \in {"end", "usage"}
           Rec(h, k) == IF Ends(k) THEN <<R(k)>> ELSE <<R(k)>> \o h[R(k).next]
           Scans(h, m) ==
             DOMAIN h = (n + 1 - m)..(n + 1) /\ \A k \in (n + 1 - m)..(n + 1) : h[k] = Rec(h, k)
           S == {m \in 0..n : \E h : h = [k \in DOMAIN h |-> h[k]] /\ Scans(h, m)}
<1>0. n \in Nat /\ \A k \in 1..(n + 1) : Ends(k) \/ (k <= n /\ R(k).next \in (k + 1)..(n + 1))
  BY GoesOn
<1> HIDE DEF n, R
<1>1. 0 \in S
  <2> DEFINE h == [k \in (n + 1)..(n + 1) |-> <<R(n + 1)>>]
  <2>1. Ends(n + 1) BY <1>0
  <2>2. h = [k \in DOMAIN h |-> h[k]] OBVIOUS
  <2>3. DOMAIN h = (n + 1 - 0)..(n + 1) BY <1>0
  <2>4. \A k \in (n + 1 - 0)..(n + 1) : h[k] = Rec(h, k)
    <3> TAKE k \in (n + 1 - 0)..(n + 1)
    <3>1. k = n + 1 BY <1>0
    <3> QED BY <1>0, <2>1, <3>1
  <2> HIDE DEF h
  <2> QED BY <1>0, <2>2, <2>3, <2>4
<1>2. ASSUME NEW m \in 0..n, m \in S, m < n PROVE m + 1 \in S
  <2>1. PICK h : Scans(h, m) BY <1>2
  <2> DEFINE p == n + 1 - (m + 1)
             g == [k \in p..(n + 1) |-> IF k = p THEN Rec(h, p) ELSE h[k]]
  <2>0. p \in 1..n /\ p + 1 = n + 1 - m BY <1>0, <1>2
  <2>2. \A k \in (p + 1)..(n + 1) : g[k] = h[k] BY <1>0, <2>0
  <2>3. g[p] = Rec(h, p) BY <1>0, <2>0
  <2>4. ASSUME NEW k \in p..(n + 1) PROVE Rec(g, k) = Rec(h, k)
    <3>1. CASE Ends(k) BY <3>1
    <3>2. CASE ~Ends(k)
      <4>1. R(k).next \in (p + 1)..(n + 1) BY <1>0, <2>0, <3>2
      <4>2. g[R(k).next] = h[R(k).next] BY <2>2, <4>1
      <4> HIDE DEF g
      <4> QED BY <3>2, <4>2
    <3> QED BY <3>1, <3>2
  <2>5. \A k \in p..(n + 1) : g[k] = Rec(g, k)
    <3> TAKE k \in p..(n + 1)
    <3>1. CASE k = p BY <2>3, <2>4, <3>1
    <3>2. CASE k # p
      <4>1. k \in (p + 1)..(n + 1) BY <1>0, <2>0, <3>2
      <4>2. h[k] = Rec(h, k) BY <2>0, <2>1, <4>1
      <4>3. g[k] = h[k] BY <2>2, <4>1
      <4>4. Rec(g, k) = Rec(h, k) BY <2>4
      <4> HIDE DEF g, Rec
      <4> QED BY <4>2, <4>3, <4>4
    <3> QED BY <3>1, <3>2
  <2>6. DOMAIN g = p..(n + 1) /\ g = [k \in DOMAIN g |-> g[k]] OBVIOUS
  <2>7. m + 1 \in 0..n BY <1>0, <1>2
  <2> HIDE DEF g, Rec
  <2>8. Scans(g, m + 1) BY <2>5, <2>6
  <2> QED BY <2>6, <2>7, <2>8
<1>3. n \in S
  <2> HIDE DEF S
  <2>1. 0..n \subseteq S BY <1>0, <1>1, <1>2, Climbs
  <2> QED BY <1>0, <2>1
<1>4. PICK h : h = [k \in DOMAIN h |-> h[k]] /\ Scans(h, n) BY <1>3
<1>5. DOMAIN h = 1..(n + 1) /\ \A k \in 1..(n + 1) : h[k] = Rec(h, k)
  <2>1. n + 1 - n = 1 BY <1>0
  <2> QED BY <1>4, <2>1
<1>6. h = [k \in 1..(n + 1) |-> Rec(h, k)]
  <2> HIDE DEF Rec
  <2> QED BY <1>4, <1>5
<1> QED BY <1>6 DEF n, R, Pass

(* The loop, pass by pass: s[k] is what it finds from word k on.            *)
LoopIs(s, argv, table) ==
  /\ s[1] = Scan(argv, table)
  /\ \A k \in 1..(Len(argv) + 1) :
       /\ s[k] = Pass(argv, table, s, k)
       /\ s[k] \in Seq({getopts(argv, j, table) : j \in 1..(Len(argv) + 1)})
       /\ s[k] # <<>>

LEMMA Loops ==
  ASSUME NEW W, NEW argv \in Seq(W), NEW table
  PROVE  \E s : LoopIs(s, argv, table)
<1>0. \E h : h = [k \in 1..(Len(argv) + 1) |->
                     LET r == getopts(argv, k, table)
                     IN  IF r.ret \in {"end", "usage"} THEN <<r>> ELSE <<r>> \o h[r.next]]
  <2>1. PICK h : h = [k \in 1..(Len(argv) + 1) |-> Pass(argv, table, h, k)] BY ScanExists
  <2>2. h = [k \in 1..(Len(argv) + 1) |->
               LET r == getopts(argv, k, table)
               IN  IF r.ret \in {"end", "usage"} THEN <<r>> ELSE <<r>> \o h[r.next]]
    BY <2>1 DEF Pass
  <2> QED BY <2>2
<1> DEFINE scan[k \in 1..(Len(argv) + 1)] ==
             LET r == getopts(argv, k, table)
             IN  IF r.ret \in {"end", "usage"} THEN <<r>> ELSE <<r>> \o scan[r.next]
<1>1. scan = [k \in 1..(Len(argv) + 1) |->
                LET r == getopts(argv, k, table)
                IN  IF r.ret \in {"end", "usage"} THEN <<r>> ELSE <<r>> \o scan[r.next]]
  BY <1>0
<1> DEFINE n == Len(argv)
           R(k) == getopts(argv, k, table)
           Ends(k) == R(k).ret \in {"end", "usage"}
           Results == {R(k) : k \in 1..(n + 1)}
           S == {m \in 0..n : \A k \in (n + 1 - m)..(n + 1) : scan[k] \in Seq(Results) /\ scan[k] # <<>>}
<1>2. Scan(argv, table) = scan[1] BY DEF Scan
<1> HIDE DEF scan
<1>3. \A k \in 1..(n + 1) : scan[k] = IF Ends(k) THEN <<R(k)>> ELSE <<R(k)>> \o scan[R(k).next]
  BY <1>1
<1>4. n \in Nat /\ \A k \in 1..(n + 1) : Ends(k) \/ (k <= n /\ R(k).next \in (k + 1)..(n + 1))
  BY GoesOn
<1>5. \A k \in 1..(n + 1) : R(k) \in Results OBVIOUS
<1> HIDE DEF n, R, Results
<1>6. 0 \in S
  <2>0. n + 1 \in 1..(n + 1) /\ Ends(n + 1) BY <1>4
  <2>1. scan[n + 1] = <<R(n + 1)>>
    <3> HIDE DEF Ends
    <3> QED BY <1>3, <2>0
  <2>2. scan[n + 1] \in Seq(Results) /\ scan[n + 1] # <<>> BY <1>4, <1>5, <2>1
  <2>3. \A k \in (n + 1 - 0)..(n + 1) : k = n + 1 BY <1>4
  <2> QED BY <1>4, <2>2, <2>3
<1>7. ASSUME NEW m \in 0..n, m \in S, m < n PROVE m + 1 \in S
  <2> DEFINE p == n + 1 - (m + 1)
  <2>0. p \in 1..n /\ p + 1 = n + 1 - m BY <1>4, <1>7
  <2>1. scan[p] \in Seq(Results) /\ scan[p] # <<>>
    <3>0. p \in 1..(n + 1) /\ R(p) \in Results BY <1>4, <1>5, <2>0
    <3>1. CASE Ends(p)
      <4>1. scan[p] = <<R(p)>> BY <1>3, <3>0, <3>1
      <4> QED BY <3>0, <4>1
    <3>2. CASE ~Ends(p)
      <4>1. R(p).next \in (p + 1)..(n + 1) BY <1>4, <3>0, <3>2
      <4>2. scan[R(p).next] \in Seq(Results) BY <1>7, <2>0, <4>1
      <4>3. scan[p] = <<R(p)>> \o scan[R(p).next] BY <1>3, <3>0, <3>2
      <4> QED BY <3>0, <4>2, <4>3
    <3> QED BY <3>1, <3>2
  <2>2. \A k \in p..(n + 1) : scan[k] \in Seq(Results) /\ scan[k] # <<>>
    <3> TAKE k \in p..(n + 1)
    <3>1. CASE k = p BY <2>1, <3>1
    <3>2. CASE k # p
      <4>1. k \in (n + 1 - m)..(n + 1) BY <1>4, <2>0, <3>2
      <4> QED BY <1>7, <4>1
    <3> QED BY <3>1, <3>2
  <2> QED BY <1>4, <1>7, <2>2
<1>8. n \in S
  <2> HIDE DEF S
  <2>1. 0..n \subseteq S BY <1>4, <1>6, <1>7, Climbs
  <2> QED BY <1>4, <2>1
<1>9. \A k \in 1..(n + 1) : scan[k] \in Seq(Results) /\ scan[k] # <<>>
  <2>1. n + 1 - n = 1 BY <1>4
  <2> QED BY <1>8, <2>1
<1>10. \A k \in 1..(Len(argv) + 1) : scan[k] = Pass(argv, table, scan, k)
  BY <1>3 DEF Pass, n, R
<1> QED BY <1>2, <1>9, <1>10 DEF Results, R, n, LoopIs

(* What a program has seen when its loop has ended are results of getopts,  *)
(* and there is at least one.                                               *)
THEOREM Scanned ==
  ASSUME NEW W, NEW argv \in Seq(W), NEW table
  PROVE  /\ Scan(argv, table) # <<>>
         /\ Scan(argv, table) \in Seq({getopts(argv, k, table) : k \in 1..(Len(argv) + 1)})
<1>1. PICK s : LoopIs(s, argv, table) BY Loops
<1>2. 1 \in 1..(Len(argv) + 1) OBVIOUS
<1> QED BY <1>1, <1>2 DEF LoopIs

(* The argument of an option that is set is one that getopts has returned   *)
(* with that option.                                                        *)
THEOREM Argued ==
  ASSUME NEW W, NEW argv \in Seq(W), NEW table, NEW name, name # "end",
         IsSet(Scan(argv, table), name)
  PROVE  \E k \in 1..Len(argv) : /\ getopts(argv, k, table).ret = name
                                 /\ ArgOf(Scan(argv, table), name) = getopts(argv, k, table).arg
<1> DEFINE o == Scan(argv, table)
           I == {i \in 1..Len(o) : o[i].ret = name}
<1>1. o \in Seq({getopts(argv, k, table) : k \in 1..(Len(argv) + 1)}) BY Scanned
<1>2. I # {} BY DEF IsSet
<1> HIDE DEF o
<1>3. PICK i \in I : \A j \in I : j <= i
  <2>1. I \subseteq 1..Len(o) /\ Len(o) \in Nat BY <1>1
  <2> HIDE DEF I
  <2> QED BY <1>2, <2>1, FirstAndLast
<1> DEFINE l == Max(I)
<1>5. l \in 1..Len(o) /\ o[l].ret = name
  <2>1. I \subseteq 1..Len(o) /\ Len(o) \in Nat BY <1>1
  <2>2. Max(I) = i
    <3> HIDE DEF I
    <3> QED BY <1>3, <2>1, LastIs
  <2> QED BY <2>2
<1>6. ArgOf(o, name) = o[l].arg
  <2>1. SelectLastInSeq(o, LAMBDA r : r.ret = name) = IF I # {} THEN Max(I) ELSE 0
    BY DEF SelectLastInSeq
  <2> QED BY <1>2, <2>1 DEF ArgOf
<1> HIDE DEF l
<1>7. PICK k \in 1..(Len(argv) + 1) : o[l] = getopts(argv, k, table) BY <1>1, <1>5
<1>8. k <= Len(argv)
  <2>1. Len(argv) \in Nat OBVIOUS
  <2>2. CASE k > Len(argv)
    <3>1. getopts(argv, k, table).ret = "end" BY <2>2 DEF getopts, Result
    <3> QED BY <1>5, <1>7, <3>1
  <2> QED BY <2>1, <2>2
<1>9. k \in 1..Len(argv) BY <1>8
<1> QED BY <1>5, <1>6, <1>7, <1>9 DEF o

-----------------------------------------------------------------------------
(* The command line, word by word.                                          *)

(* What it is to be an argument can be told from the first word on.         *)
LEMMA ArgumentsExist ==
  ASSUME NEW W, NEW argv \in Seq(W), NEW table
  PROVE  LET arg == IsArgument(argv, table)
         IN  /\ arg[1] = FALSE
             /\ \A i \in 1..Len(argv) : arg[i + 1] = (~arg[i] /\ TakesArg(table, argv[i]))
<1> DEFINE n == Len(argv)
           Rec(a, i) == i > 1 /\ ~a[i - 1] /\ TakesArg(table, argv[i - 1])
           Tells(a, m) == a = [i \in 1..(m + 1) |-> a[i]] /\ \A i \in 1..(m + 1) : a[i] = Rec(a, i)
           S == {m \in 0..n : \E a : Tells(a, m)}
<1>0. n \in Nat OBVIOUS
<1> HIDE DEF n
<1>1. 0 \in S
  <2> DEFINE a == [i \in 1..(0 + 1) |-> FALSE]
  <2>1. \A i \in 1..(0 + 1) : i = 1 /\ a[i] = FALSE OBVIOUS
  <2>2. a = [i \in 1..(0 + 1) |-> a[i]] OBVIOUS
  <2>3. \A i \in 1..(0 + 1) : Rec(a, i) = FALSE
    <3> HIDE DEF a
    <3> QED BY <2>1
  <2> HIDE DEF a, Rec
  <2>4. Tells(a, 0) BY <2>1, <2>2, <2>3
  <2> QED BY <1>0, <2>4
<1>2. ASSUME NEW m \in 0..n, m \in S, m < n PROVE m + 1 \in S
  <2>1. PICK a : Tells(a, m) BY <1>2
  <2> DEFINE b == [i \in 1..((m + 1) + 1) |-> IF i = m + 2 THEN Rec(a, m + 2) ELSE a[i]]
  <2>0. m \in Nat BY <1>0
  <2>2. \A i \in 1..(m + 1) : b[i] = a[i] BY <2>0
  <2>3. b[m + 2] = Rec(a, m + 2) BY <2>0
  <2>4. b = [i \in 1..((m + 1) + 1) |-> b[i]] OBVIOUS
  <2> HIDE DEF b
  <2>5. ASSUME NEW i \in 1..((m + 1) + 1) PROVE b[i] = Rec(b, i)
    <3>1. Rec(b, i) = Rec(a, i)
      <4>1. CASE i = 1 BY <4>1
      <4>2. CASE i > 1
        <5>1. i - 1 \in 1..(m + 1) BY <2>0, <4>2
        <5>2. b[i - 1] = a[i - 1] BY <2>2, <5>1
        <5> QED BY <5>2
      <4> QED BY <2>0, <4>1, <4>2
    <3>2. CASE i = m + 2 BY <2>3, <3>1, <3>2
    <3>3. CASE i \in 1..(m + 1)
      <4>1. a[i] = Rec(a, i) BY <2>1, <3>3
      <4> HIDE DEF Rec
      <4> QED BY <2>2, <3>1, <3>3, <4>1
    <3> QED BY <2>0, <3>2, <3>3
  <2>6. Tells(b, m + 1)
    <3> HIDE DEF Rec
    <3> QED BY <2>4, <2>5
  <2>7. m + 1 \in 0..n BY <1>0, <1>2
  <2> HIDE DEF Tells
  <2> QED BY <2>6, <2>7
<1>3. n \in S
  <2> HIDE DEF S
  <2>1. 0..n \subseteq S BY <1>0, <1>1, <1>2, Climbs
  <2> QED BY <1>0, <2>1
<1>4. PICK a : Tells(a, n) BY <1>3
<1>5. \E b : b = [i \in 1..(Len(argv) + 1) |->
                    i > 1 /\ ~b[i - 1] /\ TakesArg(table, argv[i - 1])]
  <2>1. a = [i \in 1..(n + 1) |-> Rec(a, i)]
    <3> HIDE DEF Rec
    <3> QED BY <1>4
  <2> QED BY <2>1 DEF n
<1> DEFINE arg[i \in 1..(Len(argv) + 1)] == i > 1 /\ ~arg[i - 1] /\ TakesArg(table, argv[i - 1])
<1>6. arg = [i \in 1..(Len(argv) + 1) |-> i > 1 /\ ~arg[i - 1] /\ TakesArg(table, argv[i - 1])]
  BY <1>5
<1>7. IsArgument(argv, table) = arg BY DEF IsArgument
<1> HIDE DEF arg
<1>8. arg[1] = FALSE
  <2>1. 1 \in 1..(Len(argv) + 1) /\ ~(1 > 1) OBVIOUS
  <2>2. arg[1] = (1 > 1 /\ ~arg[1 - 1] /\ TakesArg(table, argv[1 - 1])) BY <1>6, <2>1
  <2> QED BY <2>1, <2>2
<1>9. ASSUME NEW i \in 1..Len(argv) PROVE arg[i + 1] = (~arg[i] /\ TakesArg(table, argv[i]))
  <2>1. i + 1 \in 1..(Len(argv) + 1) /\ i + 1 > 1 /\ (i + 1) - 1 = i OBVIOUS
  <2>2. arg[i + 1] = (i + 1 > 1 /\ ~arg[(i + 1) - 1] /\ TakesArg(table, argv[(i + 1) - 1]))
    BY <1>6, <2>1
  <2> QED BY <2>1, <2>2
<1> QED BY <1>7, <1>8, <1>9

(* A word that no two options are meant by has the one that it names.       *)
LEMMA OptionFound ==
  ASSUME NEW W, NEW argv \in Seq(W), NEW T, NEW table \in Seq(T),
         Unambiguous(argv, table), NEW k \in 1..Len(argv)
  PROVE  LET i == OptionOf(table, argv[k])
             w == argv[k]
         IN  \/ i = 0 /\ ~IsOption(table, w) /\ ~TakesArg(table, w)
             \/ /\ i \in 1..Len(table) /\ IsOption(table, w)
                /\ TakesArg(table, w) <=> table[i].args
                /\ \A name : Names(table, w, name) <=> table[i].name = name
<1> DEFINE w == argv[k]
           i == OptionOf(table, w)
           I == {j \in 1..Len(table) : Matches(table[j], w)}
<1>1. i = IF I # {} THEN Min(I) ELSE 0 BY DEF OptionOf, SelectInSeq
<1>2. I # {} => Min(I) \in I
  <2> SUFFICES ASSUME I # {} PROVE Min(I) \in I OBVIOUS
  <2>1. I \subseteq 1..Len(table) /\ Len(table) \in Nat OBVIOUS
  <2> HIDE DEF I
  <2>2. \E j \in I : \A l \in I : j <= l BY <2>1, FirstAndLast
  <2> QED BY <2>2 DEF Min
<1>3. CASE I = {}
  <2>1. \A j \in 1..Len(table) : ~Matches(table[j], w) BY <1>3
  <2> QED BY <1>1, <1>3, <2>1 DEF IsOption, TakesArg
<1>4. CASE I # {}
  <2>1. i \in 1..Len(table) /\ Matches(table[i], w) BY <1>1, <1>2, <1>4
  <2> HIDE DEF i
  <2>2. \A j \in 1..Len(table) : Matches(table[j], w) => j = i BY <2>1 DEF Unambiguous
  <2>3. IsOption(table, w) BY <2>1 DEF IsOption
  <2>4. TakesArg(table, w) <=> table[i].args BY <2>1, <2>2 DEF TakesArg
  <2>5. \A name : Names(table, w, name) <=> table[i].name = name BY <2>1, <2>2 DEF Names
  <2> QED BY <2>1, <2>3, <2>4, <2>5 DEF i
<1> QED BY <1>3, <1>4

(* No option has the name of another result of getopts.                     *)
Plain(table) == \A i \in 1..Len(table) : table[i].name \notin {"end", "usage", "unknown"}

(* What one call of getopts makes of the word that it comes to.             *)
LEMMA Reads ==
  ASSUME NEW W, NEW argv \in Seq(W), NEW T, NEW table \in Seq(T),
         Unambiguous(argv, table), Plain(table), NEW k \in 1..(Len(argv) + 1),
         getopts(argv, k, table).ret # "usage"
  PROVE  LET r == getopts(argv, k, table)
             w == argv[k]
         IN  \/ r.ret = "end" /\ (k <= Len(argv) => Stray(table, w))
             \/ /\ k <= Len(argv) /\ ~Stray(table, w) /\ r.ret # "end"
                /\ r.next = IF TakesArg(table, w) THEN k + 2 ELSE k + 1
                /\ r.next <= Len(argv) + 1
                /\ \/ r.ret = "unknown" /\ ~IsOption(table, w)
                   \/ /\ r.ret # "unknown" /\ IsOption(table, w)
                      /\ r.arg = ArgAt(argv, table, k)
                      /\ \A name : r.ret = name <=> Names(table, w, name)
<1> DEFINE r == getopts(argv, k, table)
           w == argv[k]
           i == OptionOf(table, w)
<1>0. Len(argv) \in Nat OBVIOUS
<1>1. CASE k > Len(argv) BY <1>0, <1>1 DEF getopts, Result
<1>2. CASE k <= Len(argv)
  <2>0. k \in 1..Len(argv) BY <1>0, <1>2
  <2>1. \/ i = 0 /\ ~IsOption(table, w) /\ ~TakesArg(table, w)
        \/ /\ i \in 1..Len(table) /\ IsOption(table, w)
           /\ TakesArg(table, w) <=> table[i].args
           /\ \A name : Names(table, w, name) <=> table[i].name = name
    BY <2>0, OptionFound
  <2>2. ~ \E j \in 1..Len(argv) : argv[j].help BY <1>2 DEF getopts, Result
  <2>3. CASE i = 0
    <3>0. ~IsOption(table, w) /\ ~TakesArg(table, w) BY <2>1, <2>3
    <3>1. CASE w.dash
      <4>1. r = Result("unknown", NoText, k + 1) BY <1>2, <2>2, <2>3, <3>1 DEF getopts
      <4>2. r.ret = "unknown" /\ r.next = k + 1 BY <4>1 DEF Result
      <4>3. ~Stray(table, w) BY <3>1 DEF Stray
      <4> QED BY <1>0, <1>2, <3>0, <4>2, <4>3
    <3>2. CASE ~w.dash
      <4>1. r = Result("end", NoText, k) BY <1>2, <2>2, <2>3, <3>2 DEF getopts
      <4>2. r.ret = "end" BY <4>1 DEF Result
      <4>3. Stray(table, w) BY <3>0, <3>2 DEF Stray
      <4> QED BY <4>2, <4>3
    <3> QED BY <3>1, <3>2
  <2>4. CASE i # 0
    <3>0. /\ i \in 1..Len(table) /\ IsOption(table, w) /\ ~Stray(table, w)
          /\ TakesArg(table, w) <=> table[i].args
          /\ \A name : Names(table, w, name) <=> table[i].name = name
          /\ table[i].name \notin {"end", "usage", "unknown"}
      BY <2>1, <2>4 DEF Stray, Plain
    <3>1. CASE ~table[i].args
      <4>1. r = Result(table[i].name, NoText, k + 1)
        BY <1>2, <2>2, <2>4, <3>0, <3>1 DEF getopts
      <4>2. r.ret = table[i].name /\ r.arg = NoText /\ r.next = k + 1 BY <4>1 DEF Result
      <4>3. ArgAt(argv, table, k) = NoText BY <3>0, <3>1 DEF ArgAt
      <4> HIDE DEF r, i
      <4>4. \A name : r.ret = name <=> Names(table, w, name) BY <3>0, <4>2
      <4> QED BY <1>0, <1>2, <3>0, <3>1, <4>2, <4>3, <4>4 DEF r
    <3>2. CASE table[i].args
      <4>0. r.ret # "usage" OBVIOUS
      <4>1. k < Len(argv) /\ r = Result(table[i].name, argv[k + 1].text, k + 2)
        BY <1>0, <1>2, <2>2, <2>4, <3>0, <3>2, <4>0 DEF getopts, Result
      <4>2. r.ret = table[i].name /\ r.arg = argv[k + 1].text /\ r.next = k + 2
        BY <4>1 DEF Result
      <4>3. ArgAt(argv, table, k) = argv[k + 1].text BY <3>0, <3>2 DEF ArgAt
      <4> HIDE DEF r, i
      <4>4. \A name : r.ret = name <=> Names(table, w, name) BY <3>0, <4>2
      <4> QED BY <1>0, <1>2, <3>0, <3>2, <4>1, <4>2, <4>3, <4>4 DEF r
    <3> QED BY <3>1, <3>2
  <2> QED BY <2>3, <2>4
<1> QED BY <1>0, <1>1, <1>2

(* What is said of an option, from word k on, and what has been seen of it; *)
(* arguments of B do not count.                                             *)
Says(argv, table, k, name, B) ==
  {i \in k..Len(argv) :
     /\ IsOption(table, argv[i]) /\ ~IsArgument(argv, table)[i]
     /\ \A j \in k..i : Stray(table, argv[j]) => IsArgument(argv, table)[j]
     /\ Names(table, argv[i], name) /\ ArgAt(argv, table, i) \notin B}

Sees(o, name, B) == {i \in 1..Len(o) : o[i].ret = name /\ o[i].arg \notin B}

(* Of what is said from word k on, what is said there comes first.          *)
LEMMA SaysOn ==
  ASSUME NEW W, NEW argv \in Seq(W), NEW table, NEW name, NEW B, NEW k \in 1..Len(argv),
         ~IsArgument(argv, table)[k], ~Stray(table, argv[k]),
         NEW l, l = IF TakesArg(table, argv[k]) THEN k + 2 ELSE k + 1, l <= Len(argv) + 1
  PROVE  /\ ~IsArgument(argv, table)[l]
         /\ Says(argv, table, k, name, B) =
              (IF /\ IsOption(table, argv[k]) /\ Names(table, argv[k], name)
                  /\ ArgAt(argv, table, k) \notin B
               THEN {k} ELSE {}) \cup Says(argv, table, l, name, B)
<1> DEFINE arg == IsArgument(argv, table)
           n == Len(argv)
           Here == /\ IsOption(table, argv[k]) /\ Names(table, argv[k], name)
                   /\ ArgAt(argv, table, k) \notin B
           Q(i) == /\ IsOption(table, argv[i]) /\ ~arg[i]
                   /\ Names(table, argv[i], name) /\ ArgAt(argv, table, i) \notin B
           P(j) == Stray(table, argv[j]) => arg[j]
<1>1. \A i \in 1..n : arg[i + 1] = (~arg[i] /\ TakesArg(table, argv[i])) BY ArgumentsExist
<1>2. n \in Nat /\ k \in 1..n /\ ~arg[k] OBVIOUS
<1>3. \A m : Says(argv, table, m, name, B) = {i \in m..n : Q(i) /\ \A j \in m..i : P(j)}
  BY DEF Says
<1>4. ~arg[l] /\ l \in k + 1 .. n + 1 /\ \A j \in (k + 1)..(l - 1) : arg[j]
  <2>1. arg[k + 1] = TakesArg(table, argv[k]) BY <1>1, <1>2 DEF TakesArg
  <2>2. CASE TakesArg(table, argv[k])
    <3>1. l = k + 2 /\ k + 1 \in 1..n /\ (k + 1) + 1 = l BY <1>2, <2>2
    <3>2. arg[k + 1] BY <2>1, <2>2
    <3>3. ~arg[l] BY <1>1, <3>1, <3>2
    <3>4. \A j \in (k + 1)..(l - 1) : j = k + 1 BY <1>2, <3>1
    <3>5. \A j \in (k + 1)..(l - 1) : arg[j] BY <3>2, <3>4
    <3>6. l \in k + 1 .. n + 1 BY <1>2, <3>1
    <3> QED BY <3>3, <3>5, <3>6
  <2>3. CASE ~TakesArg(table, argv[k])
    <3>1. l = k + 1 BY <2>3
    <3>2. ~arg[l] BY <2>1, <2>3, <3>1
    <3>3. ~ \E j \in (k + 1)..(l - 1) : TRUE BY <1>2, <3>1
    <3>4. l \in k + 1 .. n + 1 BY <1>2, <3>1
    <3> QED BY <3>2, <3>3, <3>4
  <2> QED BY <2>2, <2>3
<1>5. P(k) /\ (Q(k) <=> Here) BY <1>2
<1>6. \A j \in (k + 1)..(l - 1) : P(j) /\ ~Q(j) BY <1>4
<1> DEFINE From(m) == {i \in m..n : Q(i) /\ \A j \in m..i : P(j)}
<1>7. From(k) = (IF Here THEN {k} ELSE {}) \cup From(l)
  <2> HIDE DEF P, Q, Here, arg, n
  <2>1. ASSUME NEW i \in From(k) PROVE i \in (IF Here THEN {k} ELSE {}) \cup From(l)
    <3>1. CASE i = k BY <1>5, <2>1, <3>1
    <3>2. CASE i \in (k + 1)..(l - 1) BY <1>6, <2>1, <3>2
    <3>3. CASE i >= l
      <4>1. \A j \in l..i : j \in k..i BY <1>2, <1>4
      <4> QED BY <1>2, <1>4, <2>1, <3>3, <4>1
    <3> QED BY <1>2, <1>4, <3>1, <3>2, <3>3
  <2>2. ASSUME Here PROVE k \in From(k) BY <1>2, <1>5, <2>2
  <2>3. ASSUME NEW i \in From(l) PROVE i \in From(k)
    <3>1. ASSUME NEW j \in k..i PROVE P(j)
      <4>1. CASE j = k BY <1>5, <4>1
      <4>2. CASE j \in (k + 1)..(l - 1) BY <1>6, <4>2
      <4>3. CASE j \in l..i BY <4>3
      <4> QED BY <1>2, <1>4, <4>1, <4>2, <4>3
    <3> QED BY <1>2, <1>4, <3>1
  <2> QED BY <2>1, <2>2, <2>3
<1> HIDE DEF Q, P
<1>8. \A m : Says(argv, table, m, name, B) = From(m) BY <1>3
<1> HIDE DEF From
<1> QED BY <1>4, <1>7, <1>8

(* What is seen first of the results comes before what the others have.     *)
SeesMore(r, t, o, name, B) ==
  /\ Last(o) = Last(t)
  /\ \A j \in Sees(t, name, B) : o[j + 1] = t[j]
  /\ \A i : i \in Sees(o, name, B) <=>
       \/ i = 1 /\ r.ret = name /\ r.arg \notin B
       \/ \E j \in Sees(t, name, B) : i = j + 1

LEMMA SeesOn ==
  ASSUME NEW X, NEW r \in X, NEW t \in Seq(X), t # <<>>, NEW name, NEW B
  PROVE  SeesMore(r, t, <<r>> \o t, name, B)
<1> DEFINE o == <<r>> \o t
<1> DEFINE Q(x) == x.ret = name /\ x.arg \notin B
<1>1. /\ o \in Seq(X) /\ Len(o) = Len(t) + 1 /\ Len(t) \in Nat /\ Len(t) >= 1
      /\ o[1] = r /\ \A j \in 1..Len(t) : o[j + 1] = t[j]
  OBVIOUS
<1>2. Last(o) = Last(t)
  <2>1. Len(t) \in 1..Len(t) BY <1>1
  <2> QED BY <1>1, <2>1 DEF Last
<1> HIDE DEF Q
<1>3. {i \in 1..Len(o) : Q(o[i])} =
        (IF Q(r) THEN {1} ELSE {}) \cup {j + 1 : j \in {i \in 1..Len(t) : Q(t[i])}}
  <2> DEFINE R == {j + 1 : j \in {i \in 1..Len(t) : Q(t[i])}}
  <2>1. ASSUME NEW i \in 1..Len(o), Q(o[i]) PROVE i \in (IF Q(r) THEN {1} ELSE {}) \cup R
    <3>1. CASE i = 1 BY <1>1, <2>1, <3>1
    <3>2. CASE i # 1
      <4>1. i - 1 \in 1..Len(t) /\ (i - 1) + 1 = i BY <1>1, <3>2
      <4>2. o[i] = t[i - 1] BY <1>1, <4>1
      <4> QED BY <2>1, <4>1, <4>2
    <3> QED BY <3>1, <3>2
  <2>2. ASSUME Q(r) PROVE 1 \in {i \in 1..Len(o) : Q(o[i])} BY <1>1, <2>2
  <2>3. ASSUME NEW j \in 1..Len(t), Q(t[j]) PROVE j + 1 \in {i \in 1..Len(o) : Q(o[i])}
    <3>1. j + 1 \in 1..Len(o) BY <1>1
    <3>2. o[j + 1] = t[j] BY <1>1
    <3> QED BY <2>3, <3>1, <3>2
  <2> QED BY <2>1, <2>2, <2>3
<1>4. \A j \in Sees(t, name, B) : o[j + 1] = t[j] BY <1>1 DEF Sees
<1>5. \A i : i \in {x \in 1..Len(o) : Q(o[x])} <=>
         (i = 1 /\ Q(r)) \/ \E j \in {x \in 1..Len(t) : Q(t[x])} : i = j + 1
  BY <1>3
<1> HIDE DEF o
<1> QED BY <1>2, <1>4, <1>5 DEF Sees, Q, SeesMore, o

(* The last of what is said is the last of what is seen, and means the same.*)
Agree(argv, table, said, o, seen) ==
  \/ said = {} /\ seen = {}
  \/ \E i \in said, j \in seen :
       /\ \A x \in said : x <= i
       /\ \A y \in seen : y <= j
       /\ o[j].arg = ArgAt(argv, table, i)

(* The loop, from word k on, sees what is said there, unless it comes upon  *)
(* a reason to print the usage text.                                        *)
LEMMA SeesWhatIsSaid ==
  ASSUME NEW W, NEW argv \in Seq(W), NEW T, NEW table \in Seq(T),
         Unambiguous(argv, table), Plain(table),
         NEW name, name \notin {"end", "usage", "unknown"}, NEW B,
         NEW s, LoopIs(s, argv, table)
  PROVE  ~IsUsage(Scan(argv, table)) =>
           Agree(argv, table, Says(argv, table, 1, name, B), Scan(argv, table),
                 Sees(Scan(argv, table), name, B))
<1> DEFINE n == Len(argv)
           arg == IsArgument(argv, table)
           R(k) == getopts(argv, k, table)
           Results == {R(j) : j \in 1..(n + 1)}
           Good(k) == ~arg[k] /\ ~IsUsage(s[k]) =>
                        Agree(argv, table, Says(argv, table, k, name, B), s[k],
                              Sees(s[k], name, B))
           S == {m \in 0..n : \A k \in (n + 1 - m)..(n + 1) : Good(k)}
<1>0. n \in Nat /\ \A k \in 1..(n + 1) : R(k) \in Results OBVIOUS
<1>1. \A k \in 1..(n + 1) :
        /\ s[k] \in Seq(Results) /\ s[k] # <<>>
        /\ s[k] = IF R(k).ret \in {"end", "usage"} THEN <<R(k)>> ELSE <<R(k)>> \o s[R(k).next]
  BY DEF LoopIs, Pass
<1>2. \A k \in 1..(n + 1) : R(k).ret \in {"end", "usage"} \/ R(k).next \in (k + 1)..(n + 1)
  BY GoesOn
<1> HIDE DEF R, Results
<1>3. ASSUME NEW k \in 1..(n + 1), \A l \in (k + 1)..(n + 1) : Good(l) PROVE Good(k)
  <2> SUFFICES ASSUME ~arg[k], ~IsUsage(s[k])
               PROVE  Agree(argv, table, Says(argv, table, k, name, B), s[k],
                            Sees(s[k], name, B))
    OBVIOUS
  <2> HIDE DEF arg
  <2>1. R(k).ret # "usage"
    <3> SUFFICES ASSUME R(k).ret = "usage" PROVE FALSE OBVIOUS
    <3>1. s[k] = <<R(k)>> BY <1>1
    <3> QED BY <3>1 DEF IsUsage, Last
  <2>2. \/ R(k).ret = "end" /\ (k <= n => Stray(table, argv[k]))
        \/ /\ k <= n /\ ~Stray(table, argv[k]) /\ R(k).ret # "end"
           /\ R(k).next = (IF TakesArg(table, argv[k]) THEN k + 2 ELSE k + 1)
           /\ R(k).next <= n + 1
           /\ \/ R(k).ret = "unknown" /\ ~IsOption(table, argv[k])
              \/ /\ R(k).ret # "unknown" /\ IsOption(table, argv[k])
                 /\ R(k).arg = ArgAt(argv, table, k)
                 /\ \A x : R(k).ret = x <=> Names(table, argv[k], x)
    <3>1. getopts(argv, k, table).ret # "usage" BY <2>1 DEF R
    <3> HIDE DEF R
    <3>2. LET r == getopts(argv, k, table)
              w == argv[k]
          IN  \/ r.ret = "end" /\ (k <= Len(argv) => Stray(table, w))
              \/ /\ k <= Len(argv) /\ ~Stray(table, w) /\ r.ret # "end"
                 /\ r.next = IF TakesArg(table, w) THEN k + 2 ELSE k + 1
                 /\ r.next <= Len(argv) + 1
                 /\ \/ r.ret = "unknown" /\ ~IsOption(table, w)
                    \/ /\ r.ret # "unknown" /\ IsOption(table, w)
                       /\ r.arg = ArgAt(argv, table, k)
                       /\ \A x : r.ret = x <=> Names(table, w, x)
      BY <3>1, Reads
    <3> QED BY <3>2 DEF R
  <2>3. CASE R(k).ret = "end"
    <3>1. s[k] = <<R(k)>> BY <1>1, <2>3
    <3>2. Sees(s[k], name, B) = {}
      <4>1. Len(s[k]) = 1 /\ s[k][1].ret = "end" BY <2>3, <3>1
      <4> QED BY <4>1 DEF Sees
    <3>3. Says(argv, table, k, name, B) = {}
      <4>1. CASE k > n BY <1>0, <4>1 DEF Says
      <4>2. CASE k <= n
        <5>1. Stray(table, argv[k]) BY <2>2, <2>3, <4>2
        <5>2. \A i \in k..n : k \in k..i BY <1>0
        <5> QED BY <5>1, <5>2 DEF Says, arg
      <4> QED BY <1>0, <4>1, <4>2
    <3> QED BY <3>2, <3>3 DEF Agree
  <2>4. CASE R(k).ret # "end"
    <3> DEFINE l == R(k).next
               Here == R(k).ret = name /\ R(k).arg \notin B
               t == s[l]
    <3>1. k \in 1..n /\ l \in (k + 1)..(n + 1) /\ l \in 1..(n + 1) BY <1>0, <1>2, <2>1, <2>2, <2>4
    <3>2. s[k] = <<R(k)>> \o t BY <1>1, <2>1, <2>4
    <3>3. t \in Seq(Results) /\ t # <<>> /\ R(k) \in Results BY <1>0, <1>1, <3>1
    <3>4. Here <=> /\ IsOption(table, argv[k]) /\ Names(table, argv[k], name)
                   /\ ArgAt(argv, table, k) \notin B
      <4>1. CASE R(k).ret = "unknown" BY <2>2, <2>4, <4>1
      <4>2. CASE R(k).ret # "unknown" BY <2>2, <2>4, <4>2
      <4> QED BY <4>1, <4>2
    <3>5. /\ ~arg[l]
          /\ Says(argv, table, k, name, B) =
               (IF Here THEN {k} ELSE {}) \cup Says(argv, table, l, name, B)
      <4>1. /\ l = (IF TakesArg(table, argv[k]) THEN k + 2 ELSE k + 1) /\ l <= n + 1
            /\ ~Stray(table, argv[k]) /\ ~IsArgument(argv, table)[k]
        BY <2>2, <2>4 DEF arg
      <4> HIDE DEF l
      <4>2. /\ ~IsArgument(argv, table)[l]
            /\ Says(argv, table, k, name, B) =
                 (IF /\ IsOption(table, argv[k]) /\ Names(table, argv[k], name)
                     /\ ArgAt(argv, table, k) \notin B
                  THEN {k} ELSE {}) \cup Says(argv, table, l, name, B)
        BY <3>1, <4>1, SaysOn
      <4> HIDE DEF Here
      <4> QED BY <3>4, <4>2 DEF arg
    <3>6. /\ Last(s[k]) = Last(t)
          /\ \A j \in Sees(t, name, B) : s[k][j + 1] = t[j]
          /\ \A i : i \in Sees(s[k], name, B) <=>
               (i = 1 /\ Here) \/ \E j \in Sees(t, name, B) : i = j + 1
      <4> HIDE DEF t
      <4>1. SeesMore(R(k), t, <<R(k)>> \o t, name, B) BY <3>3, SeesOn
      <4>2. SeesMore(R(k), t, s[k], name, B) BY <3>2, <4>1
      <4> QED BY <4>2 DEF SeesMore
    <3>7. Here => s[k][1].arg = ArgAt(argv, table, k)
      <4>1. s[k][1] = R(k) BY <3>2, <3>3
      <4> QED BY <2>2, <2>4, <4>1
    <3>8. Agree(argv, table, Says(argv, table, l, name, B), t, Sees(t, name, B))
      <4>1. ~IsUsage(t) BY <3>6 DEF IsUsage
      <4>2. Good(l) BY <1>3, <3>1
      <4> QED BY <3>5, <4>1, <4>2 DEF arg
    <3> DEFINE A == Says(argv, table, l, name, B)
               C == Sees(t, name, B)
    <3>9. A \subseteq l..n /\ C \subseteq 1..Len(t) BY DEF Says, Sees
    <3>10. Len(t) \in Nat /\ l \in Nat /\ k < l BY <3>1, <3>3
    <3> HIDE DEF l, Here, t, A, C
    <3>11. CASE A = {} /\ C = {}
      <4>1. CASE ~Here
        <5>1. Says(argv, table, k, name, B) = {} /\ Sees(s[k], name, B) = {}
          BY <3>5, <3>6, <3>11, <4>1 DEF A, C
        <5> QED BY <5>1 DEF Agree
      <4>2. CASE Here
        <5>1. Says(argv, table, k, name, B) = {k} /\ Sees(s[k], name, B) = {1}
          BY <3>5, <3>6, <3>11, <4>2 DEF A, C
        <5>2. s[k][1].arg = ArgAt(argv, table, k) BY <3>7, <4>2
        <5>3. k <= k /\ 1 <= 1 BY <3>1
        <5> QED BY <5>1, <5>2, <5>3 DEF Agree
      <4> QED BY <4>1, <4>2
    <3>12. CASE ~(A = {} /\ C = {})
      <4>1. PICK i \in A, j \in C : /\ \A x \in A : x <= i
                                   /\ \A y \in C : y <= j
                                   /\ t[j].arg = ArgAt(argv, table, i)
        BY <3>8, <3>12 DEF Agree, A, C
      <4>2. i \in Says(argv, table, k, name, B) /\ j + 1 \in Sees(s[k], name, B)
        BY <3>5, <3>6, <4>1 DEF A, C
      <4>3. ASSUME NEW x \in Says(argv, table, k, name, B) PROVE x <= i
        <5>1. x \in A \/ x = k BY <3>5 DEF A
        <5>2. i \in l..n BY <3>9
        <5>3. CASE x \in A BY <4>1, <5>3
        <5>4. CASE x = k BY <1>0, <3>10, <5>2, <5>4
        <5> QED BY <5>1, <5>3, <5>4
      <4>4. ASSUME NEW y \in Sees(s[k], name, B) PROVE y <= j + 1
        <5>1. y = 1 \/ \E z \in C : y = z + 1 BY <3>6 DEF C
        <5> QED BY <3>9, <3>10, <4>1, <5>1
      <4>5. s[k][j + 1].arg = ArgAt(argv, table, i) BY <3>6, <4>1 DEF C
      <4> QED BY <4>2, <4>3, <4>4, <4>5 DEF Agree
    <3> QED BY <3>11, <3>12
  <2> QED BY <2>3, <2>4
<1>4. 0 \in S
  <2>1. \A k \in (n + 1 - 0)..(n + 1) : k \in 1..(n + 1) /\ ~ \E l \in (k + 1)..(n + 1) : TRUE
    BY <1>0
  <2> HIDE DEF Good
  <2>2. \A k \in (n + 1 - 0)..(n + 1) : Good(k) BY <1>3, <2>1
  <2> QED BY <1>0, <2>2
<1>5. ASSUME NEW m \in 0..n, m \in S, m < n PROVE m + 1 \in S
  <2> HIDE DEF Good
  <2>1. \A k \in (n + 1 - m)..(n + 1) : Good(k) BY <1>5
  <2> DEFINE p == n + 1 - (m + 1)
  <2>2. p \in 1..(n + 1) /\ p + 1 = n + 1 - m BY <1>0, <1>5
  <2>3. Good(p) BY <1>3, <2>1, <2>2
  <2>4. \A k \in p..(n + 1) : k = p \/ k \in (n + 1 - m)..(n + 1) BY <1>0, <2>2
  <2>5. \A k \in p..(n + 1) : Good(k) BY <2>1, <2>3, <2>4
  <2>6. m + 1 \in 0..n BY <1>0, <1>5
  <2> QED BY <2>5, <2>6
<1>6. Good(1)
  <2> HIDE DEF S
  <2>1. 0..n \subseteq S BY <1>0, <1>4, <1>5, Climbs
  <2>2. n \in S /\ 1 \in (n + 1 - n)..(n + 1) BY <1>0, <2>1
  <2> HIDE DEF Good
  <2> QED BY <2>2 DEF S
<1>7. ~arg[1] BY ArgumentsExist
<1> QED BY <1>6, <1>7 DEF LoopIs

(* What is seen of an option is what is said of it: some argument or none,  *)
(* and as the last one the same; arguments of B are passed over.            *)
SeenAsSaid(argv, table, name, B) ==
  LET o == Scan(argv, table)
      said == {i \in OptionWords(argv, table) :
                 Names(table, argv[i], name) /\ ArgAt(argv, table, i) \notin B}
      seen == {j \in 1..Len(o) : o[j].ret = name /\ o[j].arg \notin B}
  IN  /\ said = {} <=> seen = {}
      /\ said # {} => /\ Max(seen) \in seen /\ Max(said) \in said
                      /\ o[Max(seen)].arg = ArgAt(argv, table, Max(said))

(* parse_args understands a command line as its reader does: an option is   *)
(* seen by the loop when a word says it, and what counts of it is the       *)
(* argument behind the last word that does.                                 *)
THEOREM Understood ==
  ASSUME NEW W, NEW argv \in Seq(W), NEW T, NEW table \in Seq(T),
         Unambiguous(argv, table), Plain(table), ~IsUsage(Scan(argv, table)),
         NEW name, name \notin {"end", "usage", "unknown"}, NEW B
  PROVE  SeenAsSaid(argv, table, name, B)
<1> DEFINE o == Scan(argv, table)
           said == {i \in OptionWords(argv, table) :
                      Names(table, argv[i], name) /\ ArgAt(argv, table, i) \notin B}
           seen == {j \in 1..Len(o) : o[j].ret = name /\ o[j].arg \notin B}
<1>1. PICK s : LoopIs(s, argv, table) BY Loops
<1>2. Agree(argv, table, Says(argv, table, 1, name, B), o, Sees(o, name, B))
  BY <1>1, SeesWhatIsSaid
<1>3. Says(argv, table, 1, name, B) = said BY DEF Says, OptionWords
<1>4. Sees(o, name, B) = seen BY DEF Sees
<1>5. said \subseteq 1..Len(argv) /\ Len(argv) \in Nat BY DEF OptionWords
<1>6. seen \subseteq 1..Len(o) /\ Len(o) \in Nat BY Scanned
<1> HIDE DEF said, seen, o, SeenAsSaid
<1>7. Agree(argv, table, said, o, seen) BY <1>2, <1>3, <1>4
<1>8. CASE said = {} /\ seen = {} BY <1>8 DEF said, seen, o, SeenAsSaid
<1>9. CASE ~(said = {} /\ seen = {})
  <2>1. PICK i \in said, j \in seen : /\ \A x \in said : x <= i
                                     /\ \A y \in seen : y <= j
                                     /\ o[j].arg = ArgAt(argv, table, i)
    BY <1>7, <1>9 DEF Agree
  <2>2. Max(said) = i BY <1>5, <2>1, LastIs
  <2>3. Max(seen) = j BY <1>6, <2>1, LastIs
  <2>4. /\ said # {} /\ seen # {} /\ Max(seen) \in seen /\ Max(said) \in said
        /\ o[Max(seen)].arg = ArgAt(argv, table, Max(said))
    BY <2>1, <2>2, <2>3
  <2> QED BY <2>4 DEF said, seen, o, SeenAsSaid
<1> QED BY <1>8, <1>9
=============================================================================
