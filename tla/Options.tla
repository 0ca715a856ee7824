------------------------------ MODULE Options ------------------------------
(***************************************************************************)
(* src/src/getopts.c: the command line of webstore, ws_post, ws_get and    *)
(* ws_cfg.  A word of the command line is a record: dash says whether it   *)
(* begins with '-'; long and short are what it is from its third and its   *)
(* second character on, which is all getopts compares with the names of an *)
(* option; help is set for -h and --help; text is the word as an argument. *)
(* A table is a sequence of options.                                       *)
(***************************************************************************)
EXTENDS Integers, Sequences, SequencesExt

Matches(o, w) == o.name = w.long \/ o.shortName = w.short

(* The first option that a word names, or 0.                                *)
OptionOf(table, w) == SelectInSeq(table, LAMBDA o : Matches(o, w))

NoText == [none |-> TRUE]

Result(ret, arg, next) == [ret |-> ret, arg |-> arg, next |-> next]

(* -2: a word that begins with '-' and is no option; 0: the end, or a word  *)
(* that is nothing; "usage": the program prints its usage and exits.        *)
getopts(argv, k, table) ==
  LET i == OptionOf(table, argv[k])
  IN  IF k > Len(argv) THEN Result("end", NoText, k)
      ELSE IF \E j \in 1..Len(argv) : argv[j].help THEN Result("usage", NoText, k)
      ELSE IF i = 0 /\ argv[k].dash THEN Result("unknown", NoText, k + 1)
      ELSE IF i = 0 THEN Result("end", NoText, k)
      ELSE IF ~table[i].args THEN Result(table[i].name, NoText, k + 1)
      ELSE IF k = Len(argv) THEN Result("usage", NoText, k)
      ELSE IF argv[k + 1].dash /\ OptionOf(table, argv[k + 1]) # 0
      THEN Result("usage", NoText, k)
      ELSE Result(table[i].name, argv[k + 1].text, k + 2)

(* The loop of every parse_args: the results in order, the last one "end"   *)
(* or "usage".                                                              *)
Scan(argv, table) ==
  LET scan[k \in 1..(Len(argv) + 1)] ==
        LET r == getopts(argv, k, table)
        IN  IF r.ret \in {"end", "usage"} THEN <<r>> ELSE <<r>> \o scan[r.next]
  IN  scan[1]

IsUsage(results) == Last(results).ret = "usage"

IsSet(results, name) == \E i \in 1..Len(results) : results[i].ret = name

(* The last one counts.                                                     *)
ArgOf(results, name) == results[SelectLastInSeq(results, LAMBDA r : r.ret = name)].arg

Given(results, name, default) ==
  IF IsSet(results, name) THEN ArgOf(results, name) ELSE default

-----------------------------------------------------------------------------
(* What a command line says to who reads it word by word, without the loop. *)

Names(table, w, name) == \E j \in 1..Len(table) : table[j].name = name /\ Matches(table[j], w)
IsOption(table, w)    == \E j \in 1..Len(table) : Matches(table[j], w)
TakesArg(table, w)    == \E j \in 1..Len(table) : table[j].args /\ Matches(table[j], w)

(* No word names two options.                                               *)
Unambiguous(argv, table) ==
  \A k \in 1..Len(argv) : \A i, j \in 1..Len(table) :
    Matches(table[i], argv[k]) /\ Matches(table[j], argv[k]) => i = j

(* A word is an argument when it comes after an option that takes one and   *)
(* is not an argument itself.                                               *)
IsArgument(argv, table) ==
  LET arg[i \in 1..(Len(argv) + 1)] == i > 1 /\ ~arg[i - 1] /\ TakesArg(table, argv[i - 1])
  IN  arg

(* A word that is nothing ends the command line: the rest says nothing.     *)
Stray(table, w) == ~w.dash /\ ~IsOption(table, w)

(* The words that are read as options.                                      *)
OptionWords(argv, table) ==
  LET arg == IsArgument(argv, table)
  IN  {i \in 1..Len(argv) :
         /\ IsOption(table, argv[i]) /\ ~arg[i]
         /\ \A j \in 1..i : Stray(table, argv[j]) => arg[j]}

ArgAt(argv, table, i) ==
  IF TakesArg(table, argv[i]) THEN argv[i + 1].text ELSE NoText
=============================================================================
