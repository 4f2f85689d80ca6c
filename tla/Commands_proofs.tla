--------------------------- MODULE Commands_proofs ---------------------------
(***************************************************************************)
(* Command lines of any length, from hgbuild through the parser to the     *)
(* commands of the gcc executors.                                          *)
(*                                                                         *)
(* The code folds over arguments, and so does the reference.  The proofs   *)
(* go over items instead: an item takes parser and gcc each from one state *)
(* without a pending value to the next (ParseItem, MeanItem), so that what *)
(* relates the two states is an invariant of the sequence of items.  An    *)
(* induction over sequences is an application of SeqGrows to the set of    *)
(* those for which the claim holds; that a fold applies its last element   *)
(* last comes from an instance of FoldFacts.                               *)
(***************************************************************************)
EXTENDS CommandLines, DataLemmas

-----------------------------------------------------------------------------
(***************************************************************************)
(* Sequences and arguments; what hgbuild takes away for itself.            *)
(***************************************************************************)

(* What holds of the empty sequence and stays when an element is appended holds *)
(* of every sequence; G is the set of the sequences for which it holds.         *)
LEMMA SeqGrows ==
  ASSUME NEW S, NEW s \in Seq(S), NEW G, <<>> \in G,
         \A t \in Seq(S), e \in S : t \in G => Append(t, e) \in G
  PROVE  s \in G
<1> DEFINE n == Len(s)
           H == {k \in 0..n : SubSeq(s, 1, k) \in G}
<1>1. n \in Nat /\ 0 \in 0..n /\ n \in 0..n /\ SubSeq(s, 1, 0) = <<>> /\ SubSeq(s, 1, n) = s
  OBVIOUS
<1>2. 0 \in H
  BY <1>1
<1>3. ASSUME NEW k \in 1..n, k - 1 \in H PROVE k \in H
  <2>1. k \in 0..n /\ s[k] \in S /\ SubSeq(s, 1, k - 1) \in Seq(S)
    OBVIOUS
  <2>2. SubSeq(s, 1, k) = Append(SubSeq(s, 1, k - 1), s[k])
    OBVIOUS
  <2>3. SubSeq(s, 1, k - 1) \in G
    BY <1>3
  <2>4. QED
    BY <2>1, <2>2, <2>3
<1>4. n \in H
  <2> HIDE DEF H, n
  <2> QED BY <1>1, <1>2, <1>3, UpTo
<1>5. QED
  BY <1>1, <1>4

LEMMA ConcatOne ==
  ASSUME NEW S, NEW s \in Seq(S), NEW x \in S
  PROVE  s \o <<x>> = Append(s, x)
OBVIOUS

LEMMA TwoIs ==
  ASSUME NEW S, NEW s \in Seq(S), Len(s) = 2
  PROVE  s = <<s[1], s[2]>> /\ s[1] \in S /\ s[2] \in S
<1>1. s[1] \in S /\ s[2] \in S
  <2>1. 1 \in 1..Len(s) /\ 2 \in 1..Len(s)
    OBVIOUS
  <2>2. QED
    BY <2>1, ElementOfSeq
<1>2. <<s[1], s[2]>> \in Seq(S) /\ Len(<<s[1], s[2]>>) = 2
  BY <1>1
<1>3. \A i \in 1..Len(s) : s[i] = <<s[1], s[2]>>[i]
  OBVIOUS
<1>4. QED
  BY <1>1, <1>2, <1>3, SeqEqual

LEMMA ConcatTwo ==
  ASSUME NEW S, NEW s \in Seq(S), NEW x \in S, NEW y \in S
  PROVE  s \o <<x, y>> = Append(Append(s, x), y)
<1> DEFINE l == s \o <<x, y>>
           r == Append(Append(s, x), y)
<1>1. <<x, y>> \in Seq(S) /\ Append(s, x) \in Seq(S)
  OBVIOUS
<1>2. l \in Seq(S) /\ r \in Seq(S)
  BY <1>1
<1>3. Len(l) = Len(s) + 2 /\ Len(r) = Len(s) + 2
  BY <1>1
<1>4. \A i \in 1..(Len(s) + 2) : l[i] = r[i]
  BY <1>1
<1> HIDE DEF l, r
<1>5. l = r
  BY <1>2, <1>3, <1>4, SeqEqual
<1>6. QED
  BY <1>5 DEF l, r

(* The strings, with the literals of the module named (no backend knows that they *)
(* are strings).                                                                  *)
Literals ==
  {"", "-c", "-E", "-o", "-x", "-I", "-D", "-std=", "c", "c++", "objective-c", "objective-c++",
   "assembler", "source.i", "output.o", "output.obj", "includes", "d",
   "/c", "/nologo", "/permissive-", "/Fo", "/I", "/U", "/Od", "/O1", "/O2", "/Ox", "/fp:fast",
   "/Zi", "/W4", "/WX", "/W0", "/std:c11", "/std:c17", "/std:c++14", "/std:c++17", "/std:c++20",
   "/std:c++latest", "/EHsc", "/EHs-c-", "/GR", "/GR-", "/Ob0", "/Ob2", "/GS", "/GS-", "/EP", "/P"}
Text == STRING \cup Literals
Arg == Text \X Text

LEMMA ArgIs == ASSUME NEW a \in Arg PROVE a = <<a[1], a[2]>> /\ a[1] \in Text /\ a[2] \in Text
BY DEF Arg

LEMMA FlagIs == ASSUME NEW f PROVE Flag(f)[1] = f /\ Flag(f)[2] = ""
BY DEF Flag
LEMMA WordIs == ASSUME NEW v PROVE Word(v)[1] = "" /\ Word(v)[2] = v /\ IsWord(Word(v))
BY DEF Word, IsWord

Filtering == INSTANCE FoldFacts WITH Op <- FilterStep
Joining == INSTANCE FoldFacts WITH Op <- JoinStep
Choosing == INSTANCE FoldFacts WITH Op <- MeantStep

LEMMA FilterRuns == ASSUME NEW b, NEW s PROVE FoldLeft(FilterStep, b, s) = Filtering!Run(b, s)
BY Zenon DEF Filtering!Run, Filtering!Table, Filtering!IsTable, Filtering!Top,
             FoldLeft, MapThenFoldSet, Max
LEMMA JoinRuns == ASSUME NEW b, NEW s PROVE FoldLeft(JoinStep, b, s) = Joining!Run(b, s)
BY Zenon DEF Joining!Run, Joining!Table, Joining!IsTable, Joining!Top,
             FoldLeft, MapThenFoldSet, Max
LEMMA MeantRuns == ASSUME NEW b, NEW s PROVE FoldLeft(MeantStep, b, s) = Choosing!Run(b, s)
BY Zenon DEF Choosing!Run, Choosing!Table, Choosing!IsTable, Choosing!Top,
             FoldLeft, MapThenFoldSet, Max

IsFile(a) == isSourceFile(a) \/ isObjectFile(a)

LEMMA FilesAreWords == ASSUME NEW a, IsFile(a) PROVE IsWord(a)
BY DEF IsFile, isSourceFile, isObjectFile, LowerExt, Ext

LEMMA ItemCases ==
  ASSUME NEW i \in Items
  PROVE  /\ i \in Seq(Arg)
         /\ \/ \E a \in Arg : i = <<a>> /\ (IsFile(a) \/ IsLoneFlag(a))
            \/ \E f, v \in Text : /\ i = <<Flag(f), Word(v)>> /\ Flag(f) \in Arg /\ Word(v) \in Arg
                                    /\ f \in SeparateFlags /\ v # ""
<1>1. i \in Seq(Arg) /\ IsItem(i)
  <2>1. i \in Seq(STRING \X STRING) /\ IsItem(i)
    BY CommandAssumption
  <2>2. STRING \X STRING \subseteq Arg
    BY DEF Arg, Text
  <2> DEFINE A == STRING \X STRING
  <2>3. i \in Seq(Arg)
    <3> HIDE DEF A, Arg
    <3> QED BY <2>1, <2>2
  <2>4. QED
    BY <2>1, <2>3
<1>2. CASE Len(i) = 1 /\ (isSourceFile(i[1]) \/ isObjectFile(i[1]) \/ IsLoneFlag(i[1]))
  <2> HIDE DEF Arg
  <2>1. i[1] \in Arg /\ i = <<i[1]>>
    BY <1>1, <1>2
  <2>2. QED
    BY <1>1, <1>2, <2>1, Zenon DEF IsFile
<1>3. CASE /\ Len(i) = 2 /\ i[1][1] \in SeparateFlags /\ i[1][2] = ""
           /\ IsWord(i[2]) /\ i[2][2] # ""
  <2>0. /\ i[1] \in Arg /\ i[2] \in Arg /\ i = <<i[1], i[2]>>
    BY <1>1, <1>3, TwoIs
  <2>1. /\ i[1] = <<i[1][1], i[1][2]>> /\ i[2] = <<i[2][1], i[2][2]>>
        /\ i[1][1] \in Text /\ i[2][2] \in Text
    BY <2>0, ArgIs, Zenon
  <2>2. i[1] = Flag(i[1][1]) /\ i[2] = Word(i[2][2])
    BY <1>3, <2>1, Zenon DEF Flag, Word, IsWord
  <2>3. i = <<Flag(i[1][1]), Word(i[2][2])>>
    BY <2>0, <2>2, Zenon
  <2>4. QED
    BY <1>1, <1>3, <2>0, <2>1, <2>2, <2>3, Zenon
<1>4. QED
  BY <1>1, <1>2, <1>3 DEF IsItem

(* The arguments of a command line whose items are c, and those among them that *)
(* are meant for the compiler.                                                  *)
Args(c) == Joining!Run(<<>>, c)
Meant(c) == Choosing!Run(<<>>, c)

LEMMA ArgsAppend ==
  ASSUME NEW c \in Seq(Items), NEW i \in Items
  PROVE  /\ Args(Append(c, i)) = Args(c) \o i
         /\ Meant(Append(c, i)) = MeantStep(Meant(c), i)
<1>1. Joining!Run(<<>>, Append(c, i)) = JoinStep(Joining!Run(<<>>, c), i)
  BY Joining!RunAppend
<1>2. Choosing!Run(<<>>, Append(c, i)) = MeantStep(Choosing!Run(<<>>, c), i)
  BY Choosing!RunAppend
<1>3. QED
  BY <1>1, <1>2, Zenon DEF Args, Meant, JoinStep

LEMMA ArgsType ==
  ASSUME NEW c \in Seq(Items)
  PROVE  Args(c) \in Seq(Arg) /\ Meant(c) \in Seq(Arg)
<1> DEFINE V == Seq(Arg)
<1>1. <<>> \in V
  OBVIOUS
<1>2. ASSUME NEW v \in V, NEW i \in Items PROVE JoinStep(v, i) \in V /\ MeantStep(v, i) \in V
  <2>1. i \in Seq(Arg)
    BY ItemCases
  <2>2. v \o i \in V
    BY <2>1
  <2>3. QED
    BY <2>2, Zenon DEF JoinStep, MeantStep
<1> HIDE DEF V
<1>3. Joining!Run(<<>>, c) \in V
  BY <1>1, <1>2, Joining!RunKeeps
<1>4. Choosing!Run(<<>>, c) \in V
  BY <1>1, <1>2, Choosing!RunKeeps
<1>5. QED
  BY <1>3, <1>4 DEF V, Args, Meant

(* hgbuild takes its own flags away with their values, and nothing else. *)
FilterState(out) == [skip |-> FALSE, out |-> out]

LEMMA FilterLone ==
  ASSUME NEW out, NEW a \in Arg, IsFile(a) \/ IsLoneFlag(a)
  PROVE  FilterStep(FilterState(out), a)
           = IF a[1] \in HgbuildFlags THEN FilterState(out) ELSE FilterState(Append(out, a))
<1>1. a \notin {Flag("--coordinator"), Flag("-C"), Flag("--timeout")}
  <2>1. CASE IsFile(a)
    <3>1. a[1] = ""
      BY <2>1, FilesAreWords DEF IsWord
    <3>2. \A f \in HgbuildFlags : Flag(f) # a
      BY <3>1, FlagIs DEF HgbuildFlags
    <3>3. QED
      BY <3>2 DEF HgbuildFlags
  <2>2. CASE IsLoneFlag(a)
    BY <2>2, FlagIs DEF IsLoneFlag, SeparateFlags
  <2>3. QED
    BY <2>1, <2>2
<1>2. CASE a[1] \in HgbuildFlags
  <2>1. (a \in {Flag("--coordinator"), Flag("-C"), Flag("--timeout")}) = FALSE
    BY <1>1
  <2>2. FilterStep(FilterState(out), a)
          = [FilterState(out) EXCEPT !.skip = (a \in {Flag("--coordinator"), Flag("-C"), Flag("--timeout")})]
    BY <1>2 DEF FilterStep, FilterState
  <2>3. \A x : [FilterState(out) EXCEPT !.skip = x] = [skip |-> x, out |-> out]
    BY DEF FilterState
  <2>4. QED
    BY <1>2, <2>1, <2>2, <2>3, Zenon DEF FilterState
<1>3. CASE a[1] \notin HgbuildFlags
  <2>1. FilterStep(FilterState(out), a) = FilterState(Append(out, a))
    BY <1>3 DEF FilterStep, FilterState
  <2>2. QED
    BY <1>3, <2>1, Zenon
<1>4. QED
  BY <1>2, <1>3

LEMMA FilterPair ==
  ASSUME NEW out, NEW f, NEW v, f \in SeparateFlags
  PROVE  FilterStep(FilterStep(FilterState(out), Flag(f)), Word(v))
           = IF f \in HgbuildFlags THEN FilterState(out)
             ELSE FilterState(Append(Append(out, Flag(f)), Word(v)))
<1>1. CASE f \in HgbuildFlags
  <2>1. f \in {"--coordinator", "-C", "--timeout"}
    BY <1>1 DEF SeparateFlags, GccValueFlags, HgbuildFlags
  <2>2. Flag(f) \in {Flag("--coordinator"), Flag("-C"), Flag("--timeout")}
    BY <2>1
  <2>3. FilterStep(FilterState(out), Flag(f)) = [skip |-> TRUE, out |-> out]
    BY <1>1, <2>2, FlagIs DEF FilterStep, FilterState
  <2>4. FilterStep([skip |-> TRUE, out |-> out], Word(v)) = FilterState(out)
    BY DEF FilterStep, FilterState
  <2>5. QED
    BY <1>1, <2>3, <2>4
<1>2. CASE f \notin HgbuildFlags
  <2>1. FilterStep(FilterState(out), Flag(f)) = FilterState(Append(out, Flag(f)))
    BY <1>2, FlagIs DEF FilterStep, FilterState
  <2>2. "" \notin HgbuildFlags
    BY DEF HgbuildFlags
  <2>3. FilterStep(FilterState(Append(out, Flag(f))), Word(v))
          = FilterState(Append(Append(out, Flag(f)), Word(v)))
    BY <2>2, WordIs DEF FilterStep, FilterState
  <2>4. QED
    BY <1>2, <2>1, <2>3
<1>3. QED
  BY <1>1, <1>2

LEMMA FilterItem ==
  ASSUME NEW out \in Seq(Arg), NEW i \in Items
  PROVE  Filtering!Run(FilterState(out), i) = FilterState(MeantStep(out, i))
<1>1. CASE \E a \in Arg : i = <<a>> /\ (IsFile(a) \/ IsLoneFlag(a))
  <2>1. PICK a \in Arg : i = <<a>> /\ (IsFile(a) \/ IsLoneFlag(a))
    BY <1>1
  <2>2. Filtering!Run(FilterState(out), <<a>>) = FilterStep(FilterState(out), a)
    BY Filtering!RunOne
  <2>3. i[1] = a /\ out \o i = Append(out, a)
    BY <2>1, ConcatOne
  <2>4. QED
    BY <2>1, <2>2, <2>3, FilterLone, Zenon DEF MeantStep
<1>2. CASE \E f, v \in Text : /\ i = <<Flag(f), Word(v)>> /\ Flag(f) \in Arg /\ Word(v) \in Arg
                                /\ f \in SeparateFlags /\ v # ""
  <2>1. PICK f, v \in Text : /\ i = <<Flag(f), Word(v)>> /\ Flag(f) \in Arg /\ Word(v) \in Arg
                               /\ f \in SeparateFlags
    BY <1>2
  <2>2. Filtering!Run(FilterState(out), <<Flag(f), Word(v)>>)
          = FilterStep(FilterStep(FilterState(out), Flag(f)), Word(v))
    BY Filtering!RunTwo
  <2>3. i[1] = Flag(f) /\ Flag(f)[1] = f
    BY <2>1, FlagIs
  <2>4. out \o <<Flag(f), Word(v)>> = Append(Append(out, Flag(f)), Word(v))
    <3> DEFINE x == Flag(f)
               y == Word(v)
    <3>1. x \in Arg /\ y \in Arg
      BY <2>1
    <3> HIDE DEF x, y
    <3>2. out \o <<x, y>> = Append(Append(out, x), y)
      BY <3>1, ConcatTwo
    <3>3. QED
      BY <3>2 DEF x, y
  <2>5. MeantStep(out, i) = IF f \in HgbuildFlags THEN out ELSE Append(Append(out, Flag(f)), Word(v))
    BY <2>1, <2>3, <2>4, Zenon DEF MeantStep
  <2>6. FilterStep(FilterStep(FilterState(out), Flag(f)), Word(v))
           = IF f \in HgbuildFlags THEN FilterState(out)
             ELSE FilterState(Append(Append(out, Flag(f)), Word(v)))
    BY <2>1, FilterPair
  <2>7. QED
    BY <2>1, <2>2, <2>5, <2>6, Zenon
<1>3. QED
  BY <1>1, <1>2, ItemCases

LEMMA FilterIsExact ==
  ASSUME NEW c \in Seq(Items)
  PROVE  filterHgbuildFlags(Args(c)) = Meant(c)
<1> DEFINE b == FilterState(<<>>)
           G == {t \in Seq(Items) : Filtering!Run(b, Args(t)) = FilterState(Meant(t))}
<1>1. <<>> \in G
  <2>1. Args(<<>>) = <<>> /\ Meant(<<>>) = <<>>
    BY Joining!RunEmpty, Choosing!RunEmpty DEF Args, Meant
  <2>2. Filtering!Run(b, <<>>) = b
    BY Filtering!RunEmpty
  <2>3. Filtering!Run(b, Args(<<>>)) = FilterState(Meant(<<>>)) /\ <<>> \in Seq(Items)
    BY <2>1, <2>2
  <2>4. QED
    BY <2>3
<1>2. ASSUME NEW t \in Seq(Items), NEW i \in Items, t \in G PROVE Append(t, i) \in G
  <2>1. Args(t) \in Seq(Arg) /\ Meant(t) \in Seq(Arg) /\ i \in Seq(Arg)
    BY ArgsType, ItemCases
  <2>2. Filtering!Run(b, Args(t) \o i) = Filtering!Run(Filtering!Run(b, Args(t)), i)
    BY <2>1, Filtering!RunConcat
  <2>3. Filtering!Run(b, Args(t)) = FilterState(Meant(t))
    BY <1>2
  <2>4. Filtering!Run(FilterState(Meant(t)), i) = FilterState(MeantStep(Meant(t), i))
    BY <2>1, FilterItem
  <2>5. Args(Append(t, i)) = Args(t) \o i /\ Meant(Append(t, i)) = MeantStep(Meant(t), i)
    BY ArgsAppend
  <2>6. Append(t, i) \in Seq(Items)
    OBVIOUS
  <2> HIDE DEF b
  <2>7. QED
    BY <2>2, <2>3, <2>4, <2>5, <2>6, Zenon
<1>3. c \in G
  <2> HIDE DEF G
  <2> QED BY <1>1, <1>2, SeqGrows
<1>4. filterHgbuildFlags(Args(c)) = Filtering!Run(b, Args(c)).out
  BY FilterRuns, Zenon DEF filterHgbuildFlags, FilterState
<1>5. Filtering!Run(b, Args(c)) = FilterState(Meant(c))
  BY <1>3
<1>6. QED
  BY <1>4, <1>5 DEF FilterState

-----------------------------------------------------------------------------
(***************************************************************************)
(* Items.  The parser knows four flags with a value (Taken) and mistakes the*)
(* values of others for flags of their own (Unknown).                      *)
(***************************************************************************)

(* The name of an item's flag and its value, joined or separate. *)
Name(i) == i[1][1]
Val(i) == i[Len(i)][2]

(* The items that the compiler sees, without those that the parser mistakes. *)
Units == {i \in Items : Name(i) \notin HgbuildFlags /\ ~TakenForInput(i)}

Taken == {"-o", "-I", "-D", "-x"}
Unknown == {"-U", "-include", "-isystem", "-MF", "-MT"}
Plain(a) == IsLoneFlag(a) /\ a[1] \notin Taken
IsKept(i) == Name(i) \notin Taken \cup {""}

LEMMA UnitCases ==
  ASSUME NEW i \in Units
  PROVE  \/ \E a \in Arg : i = <<a>> /\ IsFile(a)
         \/ \E f, v \in Text : f \in Taken /\ v # "" /\ i = <<<<f, v>>>>
         \/ \E f, v \in Text : f \in Taken /\ v # "" /\ i = <<Flag(f), Word(v)>>
         \/ \E a \in Arg : i = <<a>> /\ Plain(a)
         \/ \E f, v \in Text : /\ f \in Unknown /\ v # "" /\ i = <<Flag(f), Word(v)>>
                                 /\ ~IsFile(Word(v)) /\ ~isInputFile(Word(v))
                                 /\ Flag(f) \in Arg /\ Word(v) \in Arg
<1>1. i \in Items /\ Name(i) \notin HgbuildFlags /\ ~TakenForInput(i)
  BY DEF Units
<1>2. CASE \E a \in Arg : i = <<a>> /\ (IsFile(a) \/ IsLoneFlag(a))
  <2>1. PICK a \in Arg : i = <<a>> /\ (IsFile(a) \/ IsLoneFlag(a))
    BY <1>2
  <2>2. CASE IsLoneFlag(a) /\ a[1] \in Taken
    <3>1. a = <<a[1], a[2]>> /\ a[1] \in Text /\ a[2] \in Text
      BY ArgIs
    <3>2. a[2] # ""
      BY <2>2 DEF IsLoneFlag, SeparateFlags, GccValueFlags, Taken
    <3>3. i = <<<<a[1], a[2]>>>>
      BY <2>1, <3>1, Zenon
    <3>4. QED
      BY <2>2, <3>1, <3>2, <3>3, Zenon
  <2>3. QED
    BY <2>1, <2>2, Zenon DEF Plain
<1>3. CASE \E f, v \in Text : /\ i = <<Flag(f), Word(v)>> /\ Flag(f) \in Arg /\ Word(v) \in Arg
                                /\ f \in SeparateFlags /\ v # ""
  <2>1. PICK f, v \in Text : /\ i = <<Flag(f), Word(v)>> /\ Flag(f) \in Arg /\ Word(v) \in Arg
                               /\ f \in SeparateFlags /\ v # ""
    BY <1>3
  <2>2. Len(i) = 2 /\ i[1] = Flag(f) /\ i[2] = Word(v)
    BY <2>1
  <2>3. i[1][1] = f
    BY <2>2, FlagIs
  <2>4. f \notin {"--coordinator", "-C", "--timeout"}
    BY <1>1, <2>3, Zenon DEF Name, HgbuildFlags
  <2>5. CASE f \in Taken
    BY <2>1, <2>5, Zenon
  <2>6. CASE f \notin Taken
    <3>1. f \in Unknown
      BY <2>1, <2>4, <2>6, Zenon DEF SeparateFlags, GccValueFlags, Taken, Unknown
    <3>2. UnknownValue(i)
      BY <2>2, <2>3, <3>1, Zenon DEF UnknownValue, Unknown
    <3>3. ~IsFile(Word(v)) /\ ~isInputFile(Word(v))
      BY <1>1, <2>2, <3>2, Zenon DEF TakenForInput, IsFile
    <3>4. QED
      BY <2>1, <3>1, <3>3, Zenon
  <2>7. QED
    BY <2>5, <2>6
<1>4. QED
  BY <1>1, <1>2, <1>3, ItemCases

(* The parser's state. *)
P(co, pp, fl, inp, inc, df, o, l, s, pe) ==
  [compileOnly |-> co, preprocess |-> pp, flags |-> fl, inputFiles |-> inp, includeDirs |-> inc,
   defines |-> df, outputFile |-> o, language |-> l, standard |-> s, pending |-> pe]

IsP(p) == p = P(p.compileOnly, p.preprocess, p.flags, p.inputFiles, p.includeDirs, p.defines,
                p.outputFile, p.language, p.standard, p.pending)

LEMMA PFields ==
  ASSUME NEW co, NEW pp, NEW fl, NEW inp, NEW inc, NEW df, NEW o, NEW l, NEW s, NEW pe, NEW p,
         p = P(co, pp, fl, inp, inc, df, o, l, s, pe)
  PROVE  /\ p.compileOnly = co /\ p.preprocess = pp /\ p.flags = fl /\ p.inputFiles = inp
         /\ p.includeDirs = inc /\ p.defines = df /\ p.outputFile = o /\ p.language = l
         /\ p.standard = s /\ p.pending = pe /\ IsP(p)
BY DEF P, IsP

(* Changing a field of it. *)
LEMMA SetCompileOnly ==
  ASSUME NEW p, IsP(p), NEW x
  PROVE  [p EXCEPT !.compileOnly = x]
           = P(x, p.preprocess, p.flags, p.inputFiles, p.includeDirs, p.defines,
               p.outputFile, p.language, p.standard, p.pending)
BY DEF P, IsP
LEMMA SetPreprocess ==
  ASSUME NEW p, IsP(p), NEW x
  PROVE  [p EXCEPT !.preprocess = x]
           = P(p.compileOnly, x, p.flags, p.inputFiles, p.includeDirs, p.defines,
               p.outputFile, p.language, p.standard, p.pending)
BY DEF P, IsP
LEMMA SetFlags ==
  ASSUME NEW p, IsP(p), NEW x
  PROVE  [p EXCEPT !.flags = x]
           = P(p.compileOnly, p.preprocess, x, p.inputFiles, p.includeDirs, p.defines,
               p.outputFile, p.language, p.standard, p.pending)
BY DEF P, IsP
LEMMA SetInputFiles ==
  ASSUME NEW p, IsP(p), NEW x
  PROVE  [p EXCEPT !.inputFiles = x]
           = P(p.compileOnly, p.preprocess, p.flags, x, p.includeDirs, p.defines,
               p.outputFile, p.language, p.standard, p.pending)
BY DEF P, IsP
LEMMA SetIncludeDirs ==
  ASSUME NEW p, IsP(p), NEW x
  PROVE  [p EXCEPT !.includeDirs = x]
           = P(p.compileOnly, p.preprocess, p.flags, p.inputFiles, x, p.defines,
               p.outputFile, p.language, p.standard, p.pending)
BY DEF P, IsP
LEMMA SetDefines ==
  ASSUME NEW p, IsP(p), NEW x
  PROVE  [p EXCEPT !.defines = x]
           = P(p.compileOnly, p.preprocess, p.flags, p.inputFiles, p.includeDirs, x,
               p.outputFile, p.language, p.standard, p.pending)
BY DEF P, IsP
LEMMA SetOutputFile ==
  ASSUME NEW p, IsP(p), NEW x
  PROVE  [p EXCEPT !.outputFile = x]
           = P(p.compileOnly, p.preprocess, p.flags, p.inputFiles, p.includeDirs, p.defines,
               x, p.language, p.standard, p.pending)
BY DEF P, IsP
LEMMA SetLanguage ==
  ASSUME NEW p, IsP(p), NEW x
  PROVE  [p EXCEPT !.language = x]
           = P(p.compileOnly, p.preprocess, p.flags, p.inputFiles, p.includeDirs, p.defines,
               p.outputFile, x, p.standard, p.pending)
BY DEF P, IsP
LEMMA SetStandard ==
  ASSUME NEW p, IsP(p), NEW x
  PROVE  [p EXCEPT !.standard = x]
           = P(p.compileOnly, p.preprocess, p.flags, p.inputFiles, p.includeDirs, p.defines,
               p.outputFile, p.language, x, p.pending)
BY DEF P, IsP
LEMMA SetPending ==
  ASSUME NEW p, IsP(p), NEW x
  PROVE  [p EXCEPT !.pending = x]
           = P(p.compileOnly, p.preprocess, p.flags, p.inputFiles, p.includeDirs, p.defines,
               p.outputFile, p.language, p.standard, x)
BY DEF P, IsP

-----------------------------------------------------------------------------
(***************************************************************************)
(* What the parser makes of one item.                                      *)
(***************************************************************************)

Parsing == INSTANCE FoldFacts WITH Op <- ParseStep

LEMMA ParseRuns == ASSUME NEW b, NEW s PROVE FoldLeft(ParseStep, b, s) = Parsing!Run(b, s)
BY Zenon DEF Parsing!Run, Parsing!Table, Parsing!IsTable, Parsing!Top,
             FoldLeft, MapThenFoldSet, Max

LEMMA OneIs == ASSUME NEW a PROVE Name(<<a>>) = a[1] /\ Val(<<a>>) = a[2] /\ <<a>>[1] = a
BY DEF Name, Val
LEMMA PairIs ==
  ASSUME NEW f, NEW v
  PROVE  /\ Name(<<Flag(f), Word(v)>>) = f /\ Val(<<Flag(f), Word(v)>>) = v
         /\ <<Flag(f), Word(v)>>[1] = Flag(f)
<1>1. Len(<<Flag(f), Word(v)>>) = 2 /\ <<Flag(f), Word(v)>>[1] = Flag(f) /\ <<Flag(f), Word(v)>>[2] = Word(v)
  OBVIOUS
<1>2. QED
  BY <1>1, FlagIs, WordIs, Zenon DEF Name, Val

(* What an item does to the parser's state. *)
ParseItem(p, i) ==
  P(IF Name(i) = "-c" THEN TRUE ELSE p.compileOnly,
    IF Name(i) = "-E" THEN TRUE ELSE p.preprocess,
    IF IsKept(i) THEN p.flags \o i ELSE p.flags,
    IF Name(i) = "" THEN Append(p.inputFiles, i[1]) ELSE p.inputFiles,
    IF Name(i) = "-I" THEN Append(p.includeDirs, Val(i)) ELSE p.includeDirs,
    IF Name(i) = "-D" THEN Append(p.defines, Val(i)) ELSE p.defines,
    IF Name(i) = "-o" THEN Val(i) ELSE p.outputFile,
    IF Name(i) = "-x" THEN Val(i) ELSE p.language,
    IF Name(i) = "-std=" THEN Val(i) ELSE p.standard,
    <<>>)

LEMMA WithValueIs ==
  ASSUME NEW p, IsP(p), NEW f \in Taken, NEW v
  PROVE  WithValue(p, f, v)
           = P(p.compileOnly, p.preprocess, p.flags, p.inputFiles,
               IF f = "-I" THEN Append(p.includeDirs, v) ELSE p.includeDirs,
               IF f = "-D" THEN Append(p.defines, v) ELSE p.defines,
               IF f = "-o" THEN v ELSE p.outputFile,
               IF f = "-x" THEN v ELSE p.language, p.standard, p.pending)
<1>1. CASE f = "-o"
  <2>1. WithValue(p, f, v) = [p EXCEPT !.outputFile = v]
    BY <1>1, Zenon DEF WithValue
  <2>2. QED
    BY <1>1, <2>1, SetOutputFile, Zenon
<1>2. CASE f = "-I"
  <2>1. WithValue(p, f, v) = [p EXCEPT !.includeDirs = Append(p.includeDirs, v)]
    BY <1>2, Zenon DEF WithValue
  <2>2. QED
    BY <1>2, <2>1, SetIncludeDirs, Zenon
<1>3. CASE f = "-D"
  <2>1. WithValue(p, f, v) = [p EXCEPT !.defines = Append(p.defines, v)]
    BY <1>3, Zenon DEF WithValue
  <2>2. QED
    BY <1>3, <2>1, SetDefines, Zenon
<1>4. CASE f = "-x"
  <2>1. WithValue(p, f, v) = [p EXCEPT !.language = v]
    BY <1>4, Zenon DEF WithValue
  <2>2. QED
    BY <1>4, <2>1, SetLanguage, Zenon
<1>5. QED
  BY <1>1, <1>2, <1>3, <1>4, Zenon DEF Taken

LEMMA ParsesItem ==
  ASSUME NEW p, IsP(p), p.pending = <<>>, p.flags \in Seq(Arg),
         NEW i \in Units
  PROVE  Parsing!Run(p, i) = ParseItem(p, i)
<1>1. CASE \E a \in Arg : i = <<a>> /\ IsFile(a)
  <2>1. PICK a \in Arg : i = <<a>> /\ IsFile(a)
    BY <1>1
  <2>2. a[1] = "" /\ IsWord(a)
    BY <2>1, FilesAreWords DEF IsWord
  <2>3. ParseStep(p, a) = [p EXCEPT !.inputFiles = Append(p.inputFiles, a)]
    BY <2>1, <2>2, Zenon DEF ParseStep, IsFile, ParsedValueFlags
  <2>4. Parsing!Run(p, <<a>>) = ParseStep(p, a)
    BY Parsing!RunOne
  <2>5. Name(i) = "" /\ ~IsKept(i)
    BY <2>1, <2>2, OneIs, Zenon DEF IsKept
  <2>6. i[1] = a
    BY <2>1
  <2>7. ParseItem(p, i) = P(p.compileOnly, p.preprocess, p.flags, Append(p.inputFiles, a), p.includeDirs,
            p.defines, p.outputFile, p.language, p.standard, p.pending)
    BY <2>5, <2>6, Zenon DEF ParseItem
  <2>8. QED
    BY <2>1, <2>3, <2>4, <2>7, SetInputFiles, Zenon
<1>2. ASSUME NEW f \in Taken, NEW v, v # "", Name(i) = f, Val(i) = v,
             Parsing!Run(p, i) = WithValue(p, f, v)
      PROVE  Parsing!Run(p, i) = ParseItem(p, i)
  <2>1. ~IsKept(i) /\ f # "" /\ f # "-c" /\ f # "-E" /\ f # "-std="
    BY <1>2, Zenon DEF IsKept, Taken
  <2>2. QED
    BY <1>2, <2>1, WithValueIs, ZenonT(60) DEF ParseItem
<1>3. CASE \E f, v \in Text : f \in Taken /\ v # "" /\ i = <<<<f, v>>>>
  <2>1. PICK f, v \in Text : f \in Taken /\ v # "" /\ i = <<<<f, v>>>>
    BY <1>3
  <2>2. <<f, v>>[1] = f /\ <<f, v>>[2] = v
    OBVIOUS
  <2>3. ParseStep(p, <<f, v>>) = WithValue(p, f, v)
    BY <2>1, <2>2, Zenon DEF ParseStep, Taken
  <2>4. Parsing!Run(p, <<<<f, v>>>>) = ParseStep(p, <<f, v>>)
    BY Parsing!RunOne
  <2>5. Name(i) = f /\ Val(i) = v
    BY <2>1, <2>2, OneIs, Zenon
  <2>6. QED
    BY <1>2, <2>1, <2>3, <2>4, <2>5, Zenon
<1>4. CASE \E f, v \in Text : f \in Taken /\ v # "" /\ i = <<Flag(f), Word(v)>>
  <2>1. PICK f, v \in Text : f \in Taken /\ v # "" /\ i = <<Flag(f), Word(v)>>
    BY <1>4
  <2> DEFINE q == [p EXCEPT !.pending = <<f>>]
  <2>2. ParseStep(p, Flag(f)) = q
    BY <2>1, FlagIs, Zenon DEF ParseStep, Taken, ParsedValueFlags
  <2>3. q = P(p.compileOnly, p.preprocess, p.flags, p.inputFiles, p.includeDirs, p.defines, p.outputFile,
            p.language, p.standard, <<f>>)
    BY SetPending, Zenon
  <2> HIDE DEF q
  <2>4. /\ q.compileOnly = p.compileOnly /\ q.preprocess = p.preprocess /\ q.flags = p.flags
        /\ q.inputFiles = p.inputFiles /\ q.includeDirs = p.includeDirs /\ q.defines = p.defines
        /\ q.outputFile = p.outputFile /\ q.language = p.language /\ q.standard = p.standard
        /\ q.pending = <<f>> /\ IsP(q)
    BY <2>3, PFields
  <2>5. <<f>> # <<>> /\ <<f>>[1] = f
    OBVIOUS
  <2>6. ParseStep(q, Word(v)) = [WithValue(q, f, v) EXCEPT !.pending = <<>>]
    BY <2>4, <2>5, WordIs, Zenon DEF ParseStep
  <2> DEFINE r == WithValue(q, f, v)
             inc == IF f = "-I" THEN Append(p.includeDirs, v) ELSE p.includeDirs
             df == IF f = "-D" THEN Append(p.defines, v) ELSE p.defines
             o == IF f = "-o" THEN v ELSE p.outputFile
             l == IF f = "-x" THEN v ELSE p.language
  <2>7. r = P(p.compileOnly, p.preprocess, p.flags, p.inputFiles, inc, df, o, l, p.standard, <<f>>)
    BY <2>1, <2>4, WithValueIs, Zenon
  <2>8. WithValue(p, f, v) = P(p.compileOnly, p.preprocess, p.flags, p.inputFiles, inc, df, o, l, p.standard, <<>>)
    BY <2>1, WithValueIs, Zenon
  <2> HIDE DEF r, inc, df, o, l
  <2>9. /\ r.compileOnly = p.compileOnly /\ r.preprocess = p.preprocess /\ r.flags = p.flags
        /\ r.inputFiles = p.inputFiles /\ r.includeDirs = inc /\ r.defines = df
        /\ r.outputFile = o /\ r.language = l /\ r.standard = p.standard /\ IsP(r)
    BY <2>7, PFields
  <2>10. [r EXCEPT !.pending = <<>>] = WithValue(p, f, v)
    <3>1. [r EXCEPT !.pending = <<>>] = P(r.compileOnly, r.preprocess, r.flags, r.inputFiles,
              r.includeDirs, r.defines, r.outputFile, r.language, r.standard, <<>>)
      BY <2>9, SetPending, Zenon
    <3>2. QED
      BY <2>8, <2>9, <3>1, Zenon
  <2>11. ParseStep(ParseStep(p, Flag(f)), Word(v)) = WithValue(p, f, v)
    BY <2>2, <2>6, <2>10, Zenon DEF r
  <2>12. Parsing!Run(p, <<Flag(f), Word(v)>>) = ParseStep(ParseStep(p, Flag(f)), Word(v))
    BY Parsing!RunTwo
  <2>13. Name(i) = f /\ Val(i) = v
    BY <2>1, PairIs, Zenon
  <2>14. QED
    BY <1>2, <2>1, <2>11, <2>12, <2>13, Zenon
<1>5. CASE \E a \in Arg : i = <<a>> /\ Plain(a)
  <2>1. PICK a \in Arg : i = <<a>> /\ Plain(a)
    BY <1>5
  <2>2. /\ a[1] # "" /\ a[1] \notin Taken /\ ~IsWord(a)
        /\ ~(a[1] \in ParsedValueFlags /\ a[2] = "")
    BY <2>1, Zenon DEF Plain, IsLoneFlag, IsWord, Taken, ParsedValueFlags, SeparateFlags
  <2>3. ~isSourceFile(a) /\ ~isObjectFile(a)
    BY <2>2, FilesAreWords, Zenon DEF IsFile
  <2>4. Name(i) = a[1] /\ Val(i) = a[2] /\ IsKept(i)
    BY <2>1, <2>2, OneIs, Zenon DEF IsKept
  <2>5. p.flags \o i = Append(p.flags, a)
    BY <2>1, ConcatOne
  <2>6. a[1] # "-I" /\ a[1] # "-D" /\ a[1] # "-o" /\ a[1] # "-x"
    BY <2>2, Zenon DEF Taken
  <2> DEFINE q == AddFlag(p, a)
  <2> DEFINE fl == Append(p.flags, a)
  <2>7. q = P(p.compileOnly, p.preprocess, fl, p.inputFiles, p.includeDirs, p.defines, p.outputFile,
            p.language, p.standard, p.pending)
    BY SetFlags, Zenon DEF AddFlag
  <2>8. Parsing!Run(p, i) = ParseStep(p, a)
    BY <2>1, Parsing!RunOne
  <2>9. ParseStep(p, a) = CASE a[1] = "-c" -> [q EXCEPT !.compileOnly = TRUE]
                            [] a[1] = "-E" -> [q EXCEPT !.preprocess = TRUE]
                            [] a[1] = "-std=" -> [q EXCEPT !.standard = a[2]]
                            [] OTHER -> q
    BY <2>2, <2>3, Zenon DEF ParseStep, Taken
  <2> HIDE DEF q
  <2>10. /\ q.compileOnly = p.compileOnly /\ q.preprocess = p.preprocess /\ q.flags = fl
         /\ q.inputFiles = p.inputFiles /\ q.includeDirs = p.includeDirs /\ q.defines = p.defines
         /\ q.outputFile = p.outputFile /\ q.language = p.language /\ q.standard = p.standard
         /\ q.pending = p.pending /\ IsP(q)
    <3> HIDE DEF fl
    <3> QED BY <2>7, PFields
  <2>11. ParseItem(p, i) = P(IF a[1] = "-c" THEN TRUE ELSE q.compileOnly, IF a[1]
            = "-E" THEN TRUE ELSE q.preprocess,
           q.flags, q.inputFiles, q.includeDirs, q.defines, q.outputFile, q.language, IF a[1]
                     = "-std=" THEN a[2] ELSE q.standard, q.pending)
    BY <2>2, <2>4, <2>5, <2>6, <2>10, Zenon DEF ParseItem
  <2>12. CASE a[1] = "-c"
    <3>1. ParseStep(p, a) = [q EXCEPT !.compileOnly = TRUE]
      BY <2>9, <2>12, Zenon
    <3>2. QED
      BY <2>8, <2>10, <2>11, <2>12, <3>1, SetCompileOnly, Zenon
  <2>13. CASE a[1] = "-E"
    <3>1. ParseStep(p, a) = [q EXCEPT !.preprocess = TRUE]
      BY <2>9, <2>13, Zenon
    <3>2. QED
      BY <2>8, <2>10, <2>11, <2>13, <3>1, SetPreprocess, Zenon
  <2>14. CASE a[1] = "-std="
    <3>1. ParseStep(p, a) = [q EXCEPT !.standard = a[2]]
      BY <2>9, <2>14, Zenon
    <3>2. QED
      BY <2>8, <2>10, <2>11, <2>14, <3>1, SetStandard, Zenon
  <2>15. CASE a[1] \notin {"-c", "-E", "-std="}
    <3>1. ParseStep(p, a) = q
      BY <2>9, <2>15, Zenon
    <3>2. QED
      BY <2>8, <2>10, <2>11, <2>15, <3>1, Zenon DEF IsP
  <2>16. QED
    BY <2>12, <2>13, <2>14, <2>15, Zenon
<1>6. CASE \E f, v \in Text : /\ f \in Unknown /\ v # "" /\ i = <<Flag(f), Word(v)>>
                                /\ ~IsFile(Word(v)) /\ ~isInputFile(Word(v))
                                /\ Flag(f) \in Arg /\ Word(v) \in Arg
  <2>1. PICK f, v \in Text : /\ f \in Unknown /\ v # "" /\ i = <<Flag(f), Word(v)>>
                               /\ ~IsFile(Word(v)) /\ Flag(f) \in Arg /\ Word(v) \in Arg
    BY <1>6
  <2> DEFINE x == Flag(f)
             y == Word(v)
             q == AddFlag(p, x)
  <2>2. x[1] = f /\ x[2] = "" /\ y[1] = "" /\ IsWord(y) /\ ~IsWord(x)
    BY <2>1, FlagIs, WordIs, Zenon DEF IsWord, Unknown
  <2>3. ~isSourceFile(x) /\ ~isObjectFile(x) /\ ~isSourceFile(y) /\ ~isObjectFile(y)
    BY <2>1, <2>2, FilesAreWords, Zenon DEF IsFile
  <2>4. x \in Arg /\ y \in Arg /\ i = <<x, y>>
    BY <2>1
  <2>5. Name(i) = f /\ IsKept(i)
    BY <2>1, PairIs, Zenon DEF IsKept, Taken, Unknown
  <2> HIDE DEF x, y
  <2>6. ParseStep(p, x) = q
    BY <2>1, <2>2, <2>3, Zenon DEF ParseStep, Unknown, ParsedValueFlags
  <2> DEFINE fl == Append(p.flags, x)
  <2>7. q = P(p.compileOnly, p.preprocess, fl, p.inputFiles, p.includeDirs, p.defines, p.outputFile,
            p.language, p.standard, p.pending)
    BY SetFlags, Zenon DEF AddFlag
  <2> HIDE DEF q
  <2>8. /\ q.compileOnly = p.compileOnly /\ q.preprocess = p.preprocess /\ q.flags = fl
        /\ q.inputFiles = p.inputFiles /\ q.includeDirs = p.includeDirs /\ q.defines = p.defines
        /\ q.outputFile = p.outputFile /\ q.language = p.language /\ q.standard = p.standard
        /\ q.pending = p.pending /\ IsP(q)
    <3> HIDE DEF fl
    <3> QED BY <2>7, PFields
  <2>9. ParseStep(q, y) = [q EXCEPT !.flags = Append(Append(p.flags, x), y)]
    BY <2>2, <2>3, <2>8, Zenon DEF ParseStep, ParsedValueFlags, AddFlag
  <2>10. p.flags \o i = Append(Append(p.flags, x), y)
    BY <2>4, ConcatTwo
  <2>11. f \notin {"", "-c", "-E", "-I", "-D", "-o", "-x", "-std="}
    BY <2>1, Zenon DEF Unknown
  <2>12. ParseItem(p, i) = P(p.compileOnly, p.preprocess, Append(Append(p.flags, x), y), p.inputFiles,
            p.includeDirs, p.defines, p.outputFile, p.language, p.standard, <<>>)
    BY <2>5, <2>10, <2>11, Zenon DEF ParseItem
  <2>13. ParseStep(q, y) = ParseItem(p, i)
    <3> DEFINE z == Append(Append(p.flags, x), y)
    <3>1. [q EXCEPT !.flags = z] = P(q.compileOnly, q.preprocess, z, q.inputFiles, q.includeDirs,
              q.defines, q.outputFile, q.language, q.standard, q.pending)
      BY <2>8, SetFlags, Zenon
    <3> HIDE DEF z
    <3>2. QED
      BY <2>8, <2>9, <2>12, <3>1, Zenon DEF z
  <2>14. Parsing!Run(p, <<x, y>>) = ParseStep(ParseStep(p, x), y)
    BY Parsing!RunTwo
  <2>15. QED
    BY <2>4, <2>6, <2>13, <2>14, Zenon
<1>7. QED
  BY <1>1, <1>3, <1>4, <1>5, <1>6, UnitCases

-----------------------------------------------------------------------------
(***************************************************************************)
(* What gcc makes of one item.                                             *)
(***************************************************************************)

Meaningful == INSTANCE FoldFacts WITH Op <- GccStep

LEMMA MeaningRuns == ASSUME NEW b, NEW s PROVE FoldLeft(GccStep, b, s) = Meaningful!Run(b, s)
BY Zenon DEF Meaningful!Run, Meaningful!Table, Meaningful!IsTable, Meaningful!Top,
             FoldLeft, MapThenFoldSet, Max

(* gcc's state. *)
M(pe, inp, o, l, st, di, fo, ma, de, se) ==
  [pending |-> pe, inputs |-> inp, output |-> o, lang |-> l, stages |-> st, dirs |-> di,
   forced |-> fo, macros |-> ma, deps |-> de, settings |-> se]

IsM(m) == m = M(m.pending, m.inputs, m.output, m.lang, m.stages, m.dirs, m.forced, m.macros,
                m.deps, m.settings)

LEMMA MFields ==
  ASSUME NEW pe, NEW inp, NEW o, NEW l, NEW st, NEW di, NEW fo, NEW ma, NEW de, NEW se, NEW m,
         m = M(pe, inp, o, l, st, di, fo, ma, de, se)
  PROVE  /\ m.pending = pe /\ m.inputs = inp /\ m.output = o /\ m.lang = l /\ m.stages = st
         /\ m.dirs = di /\ m.forced = fo /\ m.macros = ma /\ m.deps = de /\ m.settings = se
         /\ IsM(m)
BY DEF M, IsM

LEMMA PutPending ==
  ASSUME NEW m, IsM(m), NEW x
  PROVE  [m EXCEPT !.pending = x]
           = M(x, m.inputs, m.output, m.lang, m.stages, m.dirs,
               m.forced, m.macros, m.deps, m.settings)
BY DEF M, IsM
LEMMA PutInputs ==
  ASSUME NEW m, IsM(m), NEW x
  PROVE  [m EXCEPT !.inputs = x]
           = M(m.pending, x, m.output, m.lang, m.stages, m.dirs,
               m.forced, m.macros, m.deps, m.settings)
BY DEF M, IsM
LEMMA PutOutput ==
  ASSUME NEW m, IsM(m), NEW x
  PROVE  [m EXCEPT !.output = x]
           = M(m.pending, m.inputs, x, m.lang, m.stages, m.dirs,
               m.forced, m.macros, m.deps, m.settings)
BY DEF M, IsM
LEMMA PutLang ==
  ASSUME NEW m, IsM(m), NEW x
  PROVE  [m EXCEPT !.lang = x]
           = M(m.pending, m.inputs, m.output, x, m.stages, m.dirs,
               m.forced, m.macros, m.deps, m.settings)
BY DEF M, IsM
LEMMA PutStages ==
  ASSUME NEW m, IsM(m), NEW x
  PROVE  [m EXCEPT !.stages = x]
           = M(m.pending, m.inputs, m.output, m.lang, x, m.dirs,
               m.forced, m.macros, m.deps, m.settings)
BY DEF M, IsM
LEMMA PutDirs ==
  ASSUME NEW m, IsM(m), NEW x
  PROVE  [m EXCEPT !.dirs = x]
           = M(m.pending, m.inputs, m.output, m.lang, m.stages, x,
               m.forced, m.macros, m.deps, m.settings)
BY DEF M, IsM
LEMMA PutForced ==
  ASSUME NEW m, IsM(m), NEW x
  PROVE  [m EXCEPT !.forced = x]
           = M(m.pending, m.inputs, m.output, m.lang, m.stages, m.dirs,
               x, m.macros, m.deps, m.settings)
BY DEF M, IsM
LEMMA PutMacros ==
  ASSUME NEW m, IsM(m), NEW x
  PROVE  [m EXCEPT !.macros = x]
           = M(m.pending, m.inputs, m.output, m.lang, m.stages, m.dirs,
               m.forced, x, m.deps, m.settings)
BY DEF M, IsM
LEMMA PutDeps ==
  ASSUME NEW m, IsM(m), NEW x
  PROVE  [m EXCEPT !.deps = x]
           = M(m.pending, m.inputs, m.output, m.lang, m.stages, m.dirs,
               m.forced, m.macros, x, m.settings)
BY DEF M, IsM
LEMMA PutSettings ==
  ASSUME NEW m, IsM(m), NEW x
  PROVE  [m EXCEPT !.settings = x]
           = M(m.pending, m.inputs, m.output, m.lang, m.stages, m.dirs,
               m.forced, m.macros, m.deps, x)
BY DEF M, IsM

IsSetting(i) == Name(i) \notin GccValueFlags \cup {"", "-c", "-S", "-E"}

(* What gcc makes of an item. *)
MeanItem(m, i) ==
  M(<<>>,
    IF Name(i) = "" THEN Append(m.inputs, <<i[1], m.lang>>) ELSE m.inputs,
    IF Name(i) = "-o" THEN Val(i) ELSE m.output,
    IF Name(i) = "-x" THEN Val(i) ELSE m.lang,
    IF Name(i) \in {"-c", "-S", "-E"} THEN m.stages \cup {Name(i)} ELSE m.stages,
    IF Name(i) \in {"-I", "-isystem"} THEN Append(m.dirs, <<Name(i), Val(i)>>) ELSE m.dirs,
    IF Name(i) = "-include" THEN Append(m.forced, Val(i)) ELSE m.forced,
    IF Name(i) \in {"-D", "-U"} THEN Set(m.macros, Val(i), Name(i)) ELSE m.macros,
    IF Name(i) \in {"-MF", "-MT"} THEN Append(m.deps, <<Name(i), Val(i)>>) ELSE m.deps,
    IF IsSetting(i) THEN Set(m.settings, SettingOf(i[1]), i[1]) ELSE m.settings)

(* An argument that needs no value, or a flag with its value. *)
Complete(i) ==
  \/ \E a : i = <<a>> /\ (a[1] \notin GccValueFlags \/ a[2] # "")
  \/ \E f \in GccValueFlags : \E v : i = <<Flag(f), Word(v)>>

LEMMA UnitsComplete == ASSUME NEW i \in Units PROVE Complete(i)
<1>1. CASE \E a \in Arg : i = <<a>> /\ IsFile(a)
  <2>1. PICK a \in Arg : i = <<a>> /\ IsFile(a)
    BY <1>1
  <2>2. a[1] = ""
    BY <2>1, FilesAreWords DEF IsWord
  <2>3. QED
    BY <2>1, <2>2, Zenon DEF Complete, GccValueFlags
<1>2. CASE \E f, v \in Text : f \in Taken /\ v # "" /\ i = <<<<f, v>>>>
  <2>1. PICK f, v \in Text : f \in Taken /\ v # "" /\ i = <<<<f, v>>>>
    BY <1>2
  <2>2. <<f, v>>[2] = v
    OBVIOUS
  <2>3. QED
    BY <2>1, <2>2, Zenon DEF Complete
<1>3. CASE \E f, v \in Text : f \in Taken /\ v # "" /\ i = <<Flag(f), Word(v)>>
  <2>1. Taken \subseteq GccValueFlags
    BY DEF Taken, GccValueFlags
  <2>2. QED
    BY <1>3, <2>1, Zenon DEF Complete
<1>4. CASE \E a \in Arg : i = <<a>> /\ Plain(a)
  <2>1. PICK a \in Arg : i = <<a>> /\ Plain(a)
    BY <1>4
  <2>2. a[1] \notin GccValueFlags \/ a[2] # ""
    BY <2>1, Zenon DEF Plain, IsLoneFlag, SeparateFlags
  <2>3. QED
    BY <2>1, <2>2, Zenon DEF Complete
<1>5. CASE \E f, v \in Text : /\ f \in Unknown /\ v # "" /\ i = <<Flag(f), Word(v)>>
                              /\ ~IsFile(Word(v)) /\ ~isInputFile(Word(v))
                              /\ Flag(f) \in Arg /\ Word(v) \in Arg
  <2>1. Unknown \subseteq GccValueFlags
    BY DEF Unknown, GccValueFlags
  <2>2. QED
    BY <1>5, <2>1, Zenon DEF Complete
<1>6. QED
  BY <1>1, <1>2, <1>3, <1>4, <1>5, UnitCases

LEMMA GccValueIs ==
  ASSUME NEW m, IsM(m), NEW f \in GccValueFlags, NEW v
  PROVE  GccValue(m, f, v)
           = M(m.pending, m.inputs,
               IF f = "-o" THEN v ELSE m.output, IF f = "-x" THEN v ELSE m.lang, m.stages,
               IF f \in {"-I", "-isystem"} THEN Append(m.dirs, <<f, v>>) ELSE m.dirs,
               IF f = "-include" THEN Append(m.forced, v) ELSE m.forced,
               IF f \in {"-D", "-U"} THEN Set(m.macros, v, f) ELSE m.macros,
               IF f \in {"-MF", "-MT"} THEN Append(m.deps, <<f, v>>) ELSE m.deps, m.settings)
<1>1. CASE f = "-o"
  <2>1. GccValue(m, f, v) = [m EXCEPT !.output = v]
    BY <1>1, Zenon DEF GccValue
  <2>2. QED
    BY <1>1, <2>1, PutOutput, Zenon
<1>2. CASE f = "-x"
  <2>1. GccValue(m, f, v) = [m EXCEPT !.lang = v]
    BY <1>2, Zenon DEF GccValue
  <2>2. QED
    BY <1>2, <2>1, PutLang, Zenon
<1>3. CASE f \in {"-D", "-U"}
  <2>1. GccValue(m, f, v) = [m EXCEPT !.macros = Set(m.macros, v, f)]
    BY <1>3, Zenon DEF GccValue
  <2>2. QED
    BY <1>3, <2>1, PutMacros, Zenon
<1>4. CASE f \in {"-I", "-isystem"}
  <2>1. GccValue(m, f, v) = [m EXCEPT !.dirs = Append(m.dirs, <<f, v>>)]
    BY <1>4, Zenon DEF GccValue
  <2>2. QED
    BY <1>4, <2>1, PutDirs, Zenon
<1>5. CASE f = "-include"
  <2>1. GccValue(m, f, v) = [m EXCEPT !.forced = Append(m.forced, v)]
    BY <1>5, Zenon DEF GccValue
  <2>2. QED
    BY <1>5, <2>1, PutForced, Zenon
<1>6. CASE f \in {"-MF", "-MT"}
  <2>1. GccValue(m, f, v) = [m EXCEPT !.deps = Append(m.deps, <<f, v>>)]
    BY <1>6, Zenon DEF GccValue
  <2>2. QED
    BY <1>6, <2>1, PutDeps, Zenon
<1>7. QED
  BY <1>1, <1>2, <1>3, <1>4, <1>5, <1>6, Zenon DEF GccValueFlags

LEMMA MeansItem ==
  ASSUME NEW m, IsM(m), m.pending = <<>>, NEW i, Complete(i)
  PROVE  Meaningful!Run(m, i) = MeanItem(m, i)
<1>1. ASSUME NEW f \in GccValueFlags, NEW v, Name(i) = f, Val(i) = v,
             Meaningful!Run(m, i) = GccValue(m, f, v)
      PROVE  Meaningful!Run(m, i) = MeanItem(m, i)
  <2>1. f # "" /\ f \notin {"-c", "-S", "-E"} /\ ~IsSetting(i)
    BY <1>1, Zenon DEF GccValueFlags, IsSetting
  <2>2. MeanItem(m, i) = M(m.pending, m.inputs,
            IF f = "-o" THEN v ELSE m.output, IF f = "-x" THEN v ELSE m.lang, m.stages,
            IF f \in {"-I", "-isystem"} THEN Append(m.dirs, <<f, v>>) ELSE m.dirs,
            IF f = "-include" THEN Append(m.forced, v) ELSE m.forced,
            IF f \in {"-D", "-U"} THEN Set(m.macros, v, f) ELSE m.macros,
            IF f \in {"-MF", "-MT"} THEN Append(m.deps, <<f, v>>) ELSE m.deps, m.settings)
    BY <1>1, <2>1, Zenon DEF MeanItem
  <2>3. QED
    BY <1>1, <2>2, GccValueIs, ZenonT(60)
<1>2. ASSUME NEW a, i = <<a>>, a[1] \notin GccValueFlags \/ a[2] # ""
      PROVE  Meaningful!Run(m, i) = MeanItem(m, i)
  <2>1. Meaningful!Run(m, i) = GccStep(m, a)
    BY <1>2, Meaningful!RunOne
  <2>2. Name(i) = a[1] /\ Val(i) = a[2] /\ i[1] = a
    BY <1>2, OneIs, Zenon
  <2>3. CASE a[1] \in GccValueFlags
    <3>1. GccStep(m, a) = GccValue(m, a[1], a[2])
      BY <1>2, <2>3, Zenon DEF GccStep
    <3>2. QED
      BY <1>1, <2>1, <2>2, <2>3, <3>1, Zenon
  <2>4. CASE a[1] \notin GccValueFlags
    <3>1. a[1] \notin {"-o", "-x", "-I", "-isystem", "-include", "-D", "-U", "-MF", "-MT"}
      BY <2>4, Zenon DEF GccValueFlags
    <3>2. CASE a[1] = ""
      <4>1. GccStep(m, a) = [m EXCEPT !.inputs = Append(m.inputs, <<a, m.lang>>)]
        BY <2>4, <3>2, Zenon DEF GccStep, IsWord
      <4>2. ~IsSetting(i)
        BY <2>2, <3>2, Zenon DEF IsSetting
      <4>3. MeanItem(m, i) = M(m.pending, Append(m.inputs, <<a, m.lang>>), m.output, m.lang, m.stages, m.dirs,
                m.forced, m.macros, m.deps, m.settings)
        BY <2>2, <3>1, <3>2, <4>2, Zenon DEF MeanItem
      <4>4. QED
        BY <2>1, <4>1, <4>3, PutInputs, Zenon
    <3>3. CASE a[1] \in {"-c", "-S", "-E"}
      <4>1. GccStep(m, a) = [m EXCEPT !.stages = m.stages \cup {a[1]}]
        BY <2>4, <3>3, Zenon DEF GccStep, IsWord
      <4>2. ~IsSetting(i) /\ a[1] # ""
        BY <2>2, <3>3, Zenon DEF IsSetting
      <4>3. MeanItem(m, i) = M(m.pending, m.inputs, m.output, m.lang, m.stages \cup {a[1]}, m.dirs,
                m.forced, m.macros, m.deps, m.settings)
        BY <2>2, <3>1, <3>3, <4>2, Zenon DEF MeanItem
      <4>4. QED
        BY <2>1, <4>1, <4>3, PutStages, Zenon
    <3>4. CASE a[1] \notin {"", "-c", "-S", "-E"}
      <4>1. GccStep(m, a) = [m EXCEPT !.settings = Set(m.settings, SettingOf(a), a)]
        BY <2>4, <3>4, Zenon DEF GccStep, IsWord
      <4>2. IsSetting(i) /\ a[1] # "" /\ a[1] \notin {"-c", "-S", "-E"}
        BY <2>2, <2>4, <3>4, Zenon DEF IsSetting
      <4>3. MeanItem(m, i) = M(m.pending, m.inputs, m.output, m.lang, m.stages, m.dirs, m.forced, m.macros,
                m.deps, Set(m.settings, SettingOf(a), a))
        BY <2>2, <3>1, <4>2, Zenon DEF MeanItem
      <4>4. QED
        BY <2>1, <4>1, <4>3, PutSettings, Zenon
    <3>5. QED
      BY <3>2, <3>3, <3>4, Zenon
  <2>5. QED
    BY <2>3, <2>4
<1>3. ASSUME NEW f \in GccValueFlags, NEW v, i = <<Flag(f), Word(v)>>
      PROVE  Meaningful!Run(m, i) = MeanItem(m, i)
  <2> DEFINE q == [m EXCEPT !.pending = <<f>>]
  <2>1. GccStep(m, Flag(f)) = q
    BY FlagIs, Zenon DEF GccStep
  <2>2. q = M(<<f>>, m.inputs, m.output, m.lang, m.stages, m.dirs, m.forced, m.macros, m.deps, m.settings)
    BY PutPending, Zenon
  <2> HIDE DEF q
  <2>3. /\ q.pending = <<f>> /\ q.inputs = m.inputs /\ q.output = m.output /\ q.lang = m.lang
        /\ q.stages = m.stages /\ q.dirs = m.dirs /\ q.forced = m.forced /\ q.macros = m.macros
        /\ q.deps = m.deps /\ q.settings = m.settings /\ IsM(q)
    BY <2>2, MFields
  <2>4. <<f>> # <<>> /\ <<f>>[1] = f
    OBVIOUS
  <2> DEFINE r == GccValue(q, f, v)
             o == IF f = "-o" THEN v ELSE m.output
             l == IF f = "-x" THEN v ELSE m.lang
             di == IF f \in {"-I", "-isystem"} THEN Append(m.dirs, <<f, v>>) ELSE m.dirs
             fo == IF f = "-include" THEN Append(m.forced, v) ELSE m.forced
             ma == IF f \in {"-D", "-U"} THEN Set(m.macros, v, f) ELSE m.macros
             de == IF f \in {"-MF", "-MT"} THEN Append(m.deps, <<f, v>>) ELSE m.deps
  <2>5. GccStep(q, Word(v)) = [r EXCEPT !.pending = <<>>]
    BY <2>3, <2>4, WordIs, Zenon DEF GccStep
  <2>6. r = M(<<f>>, m.inputs, o, l, m.stages, di, fo, ma, de, m.settings)
    <3>1. r = M(q.pending, q.inputs,
              IF f = "-o" THEN v ELSE q.output, IF f = "-x" THEN v ELSE q.lang, q.stages,
              IF f \in {"-I", "-isystem"} THEN Append(q.dirs, <<f, v>>) ELSE q.dirs,
              IF f = "-include" THEN Append(q.forced, v) ELSE q.forced,
              IF f \in {"-D", "-U"} THEN Set(q.macros, v, f) ELSE q.macros,
              IF f \in {"-MF", "-MT"} THEN Append(q.deps, <<f, v>>) ELSE q.deps, q.settings)
      BY <2>3, GccValueIs, Zenon
    <3>2. QED
      BY <2>3, <3>1, Zenon
  <2>7. GccValue(m, f, v) = M(<<>>, m.inputs, o, l, m.stages, di, fo, ma, de, m.settings)
    BY GccValueIs, Zenon
  <2> HIDE DEF r, o, l, di, fo, ma, de
  <2>8. /\ r.inputs = m.inputs /\ r.output = o /\ r.lang = l /\ r.stages = m.stages /\ r.dirs = di
        /\ r.forced = fo /\ r.macros = ma /\ r.deps = de /\ r.settings = m.settings /\ IsM(r)
    BY <2>6, MFields
  <2>9. [r EXCEPT !.pending = <<>>] = GccValue(m, f, v)
    <3>1. [r EXCEPT !.pending = <<>>] = M(<<>>, r.inputs, r.output, r.lang, r.stages, r.dirs, r.forced,
              r.macros, r.deps, r.settings)
      BY <2>8, PutPending, Zenon
    <3>2. QED
      BY <2>7, <2>8, <3>1, Zenon
  <2>10. GccStep(GccStep(m, Flag(f)), Word(v)) = GccValue(m, f, v)
    BY <2>1, <2>5, <2>9, Zenon DEF r
  <2>11. Meaningful!Run(m, <<Flag(f), Word(v)>>) = GccStep(GccStep(m, Flag(f)), Word(v))
    BY Meaningful!RunTwo
  <2>12. Name(i) = f /\ Val(i) = v
    BY <1>3, PairIs, Zenon
  <2>13. QED
    BY <1>1, <1>3, <2>10, <2>11, <2>12, Zenon
<1>4. QED
  BY <1>2, <1>3, Zenon DEF Complete

-----------------------------------------------------------------------------
(***************************************************************************)
(* Command lines as sequences of items: both advance item by item.         *)
(***************************************************************************)

LEMMA ArgsGrow ==
  ASSUME NEW I, NEW c \in Seq(I), NEW i \in I
  PROVE  Args(Append(c, i)) = Args(c) \o i
<1>1. Joining!Run(<<>>, Append(c, i)) = JoinStep(Joining!Run(<<>>, c), i)
  BY Joining!RunAppend
<1>2. QED
  BY <1>1, Zenon DEF Args, JoinStep

LEMMA ArgsEmpty == Args(<<>>) = <<>>
BY Joining!RunEmpty DEF Args

LEMMA ArgsAre ==
  ASSUME NEW I, I \subseteq Seq(Arg), NEW c \in Seq(I)
  PROVE  Args(c) \in Seq(Arg)
<1> DEFINE V == Seq(Arg)
<1>1. <<>> \in V
  OBVIOUS
<1>2. ASSUME NEW v \in V, NEW i \in I PROVE JoinStep(v, i) \in V
  BY DEF JoinStep
<1> HIDE DEF V
<1>3. Joining!Run(<<>>, c) \in V
  BY <1>1, <1>2, Joining!RunKeeps
<1>4. QED
  BY <1>3 DEF V, Args

LEMMA UnitsAreArgs == Units \subseteq Seq(Arg)
BY ItemCases DEF Units

(* What is meant for the compiler are the arguments of the items that are not *)
(* hgbuild's own.                                                             *)
LEMMA MeantIsArgs ==
  ASSUME NEW S, S \subseteq Items, NEW c \in Seq(S)
  PROVE  \E u \in Seq({i \in S : Name(i) \notin HgbuildFlags}) : Meant(c) = Args(u)
<1> DEFINE U == {i \in S : Name(i) \notin HgbuildFlags}
           G == {t \in Seq(S) : \E u \in Seq(U) : Meant(t) = Args(u)}
<1>1. <<>> \in G
  <2>1. Meant(<<>>) = <<>>
    BY Choosing!RunEmpty DEF Meant
  <2>2. <<>> \in Seq(U) /\ <<>> \in Seq(S)
    OBVIOUS
  <2> HIDE DEF U
  <2>3. QED
    BY <2>1, <2>2, ArgsEmpty, Zenon
<1>2. ASSUME NEW t \in Seq(S), NEW i \in S, t \in G PROVE Append(t, i) \in G
  <2>1. PICK u \in Seq(U) : Meant(t) = Args(u)
    BY <1>2
  <2>2. Append(t, i) \in Seq(S)
    OBVIOUS
  <2>3. Choosing!Run(<<>>, Append(t, i)) = MeantStep(Choosing!Run(<<>>, t), i)
    BY Choosing!RunAppend
  <2>4. Meant(Append(t, i)) = IF Name(i) \in HgbuildFlags THEN Meant(t) ELSE Meant(t) \o i
    BY <2>3, Zenon DEF Meant, MeantStep, Name
  <2>5. CASE Name(i) \in HgbuildFlags
    BY <2>1, <2>2, <2>4, <2>5, Zenon
  <2>6. CASE Name(i) \notin HgbuildFlags
    <3>1. i \in U
      BY <2>6
    <3> HIDE DEF U
    <3>2. Append(u, i) \in Seq(U) /\ Args(Append(u, i)) = Args(u) \o i
      BY <3>1, ArgsGrow
    <3>3. Meant(Append(t, i)) = Args(Append(u, i))
      BY <2>1, <2>4, <2>6, <3>2, Zenon
    <3>4. QED
      BY <2>2, <3>2, <3>3, Zenon
  <2>7. QED
    BY <2>5, <2>6
<1>3. c \in G
  <2> HIDE DEF G
  <2> QED BY <1>1, <1>2, SeqGrows
<1>4. QED
  BY <1>3

-----------------------------------------------------------------------------
GoodP(p) == IsP(p) /\ p.pending = <<>> /\ p.flags \in Seq(Arg)

LEMMA ParseItemFields ==
  ASSUME NEW p, NEW i, NEW q, q = ParseItem(p, i)
  PROVE  /\ q.compileOnly = IF Name(i) = "-c" THEN TRUE ELSE p.compileOnly
         /\ q.preprocess = IF Name(i) = "-E" THEN TRUE ELSE p.preprocess
         /\ q.flags = IF IsKept(i) THEN p.flags \o i ELSE p.flags
         /\ q.inputFiles = IF Name(i) = "" THEN Append(p.inputFiles, i[1]) ELSE p.inputFiles
         /\ q.includeDirs = IF Name(i) = "-I" THEN Append(p.includeDirs, Val(i)) ELSE p.includeDirs
         /\ q.defines = IF Name(i) = "-D" THEN Append(p.defines, Val(i)) ELSE p.defines
         /\ q.outputFile = IF Name(i) = "-o" THEN Val(i) ELSE p.outputFile
         /\ q.language = IF Name(i) = "-x" THEN Val(i) ELSE p.language
         /\ q.standard = IF Name(i) = "-std=" THEN Val(i) ELSE p.standard
         /\ q.pending = <<>> /\ IsP(q)
<1> DEFINE co == IF Name(i) = "-c" THEN TRUE ELSE p.compileOnly
           pp == IF Name(i) = "-E" THEN TRUE ELSE p.preprocess
           fl == IF IsKept(i) THEN p.flags \o i ELSE p.flags
           inp == IF Name(i) = "" THEN Append(p.inputFiles, i[1]) ELSE p.inputFiles
           inc == IF Name(i) = "-I" THEN Append(p.includeDirs, Val(i)) ELSE p.includeDirs
           df == IF Name(i) = "-D" THEN Append(p.defines, Val(i)) ELSE p.defines
           o == IF Name(i) = "-o" THEN Val(i) ELSE p.outputFile
           l == IF Name(i) = "-x" THEN Val(i) ELSE p.language
           s == IF Name(i) = "-std=" THEN Val(i) ELSE p.standard
           e == <<>>
<1>1. q = P(co, pp, fl, inp, inc, df, o, l, s, e)
  BY Zenon DEF ParseItem
<1> HIDE DEF co, pp, fl, inp, inc, df, o, l, s, e
<1>2. /\ q.compileOnly = co /\ q.preprocess = pp /\ q.flags = fl /\ q.inputFiles = inp
      /\ q.includeDirs = inc /\ q.defines = df /\ q.outputFile = o /\ q.language = l
      /\ q.standard = s /\ q.pending = e /\ IsP(q)
  BY <1>1, PFields
<1>3. QED
  BY <1>2, Zenon DEF co, pp, fl, inp, inc, df, o, l, s, e

LEMMA ParseItemGood ==
  ASSUME NEW p, GoodP(p), NEW i \in Units
  PROVE  GoodP(ParseItem(p, i))
<1> DEFINE q == ParseItem(p, i)
<1>1. q.flags = (IF IsKept(i) THEN p.flags \o i ELSE p.flags) /\ q.pending = <<>> /\ IsP(q)
  BY ParseItemFields, ZenonT(60)
<1>2. p.flags \in Seq(Arg) /\ i \in Seq(Arg)
  BY UnitsAreArgs DEF GoodP
<1>3. p.flags \o i \in Seq(Arg)
  BY <1>2
<1> HIDE DEF q
<1>4. q.flags \in Seq(Arg)
  BY <1>1, <1>2, <1>3, Zenon
<1>5. QED
  BY <1>1, <1>4, Zenon DEF GoodP, q

ParsedFrom(b, u) == Parsing!Run(b, Args(u))

LEMMA ParsedStart == ASSUME NEW b PROVE ParsedFrom(b, <<>>) = b
BY ArgsEmpty, Parsing!RunEmpty DEF ParsedFrom

LEMMA ParsedStep ==
  ASSUME NEW b, NEW u \in Seq(Units), GoodP(ParsedFrom(b, u)), NEW i \in Units
  PROVE  ParsedFrom(b, Append(u, i)) = ParseItem(ParsedFrom(b, u), i)
<1>1. Args(u) \in Seq(Arg) /\ i \in Seq(Arg)
  BY UnitsAreArgs, ArgsAre
<1>2. Args(Append(u, i)) = Args(u) \o i
  BY ArgsGrow
<1>3. Parsing!Run(b, Args(u) \o i) = Parsing!Run(Parsing!Run(b, Args(u)), i)
  BY <1>1, Parsing!RunConcat
<1>4. QED
  BY <1>2, <1>3, ParsesItem, Zenon DEF ParsedFrom, GoodP

LEMMA ParsedGood ==
  ASSUME NEW b, GoodP(b), NEW u \in Seq(Units)
  PROVE  GoodP(ParsedFrom(b, u))
<1> DEFINE G == {t \in Seq(Units) : GoodP(ParsedFrom(b, t))}
<1>1. <<>> \in G
  <2>1. <<>> \in Seq(Units)
    OBVIOUS
  <2>2. QED
    BY <2>1, ParsedStart, Zenon
<1>2. ASSUME NEW t \in Seq(Units), NEW i \in Units, t \in G PROVE Append(t, i) \in G
  <2>1. Append(t, i) \in Seq(Units)
    OBVIOUS
  <2>2. GoodP(ParsedFrom(b, t))
    BY <1>2
  <2>3. QED
    BY <2>1, <2>2, ParsedStep, ParseItemGood, Zenon
<1>3. u \in G
  <2> HIDE DEF G
  <2> QED BY <1>1, <1>2, SeqGrows
<1>4. QED
  BY <1>3

-----------------------------------------------------------------------------
GoodM(m) == IsM(m) /\ m.pending = <<>>

LEMMA MeanItemFields ==
  ASSUME NEW m, NEW i, NEW q, q = MeanItem(m, i)
  PROVE  /\ q.inputs = IF Name(i) = "" THEN Append(m.inputs, <<i[1], m.lang>>) ELSE m.inputs
         /\ q.output = IF Name(i) = "-o" THEN Val(i) ELSE m.output
         /\ q.lang = IF Name(i) = "-x" THEN Val(i) ELSE m.lang
         /\ q.stages = IF Name(i) \in {"-c", "-S", "-E"} THEN m.stages \cup {Name(i)} ELSE m.stages
         /\ q.dirs = IF Name(i) \in {"-I", "-isystem"} THEN Append(m.dirs, <<Name(i), Val(i)>>) ELSE m.dirs
         /\ q.forced = IF Name(i) = "-include" THEN Append(m.forced, Val(i)) ELSE m.forced
         /\ q.macros = IF Name(i) \in {"-D", "-U"} THEN Set(m.macros, Val(i), Name(i)) ELSE m.macros
         /\ q.deps = IF Name(i) \in {"-MF", "-MT"} THEN Append(m.deps, <<Name(i), Val(i)>>) ELSE m.deps
         /\ q.settings = IF IsSetting(i) THEN Set(m.settings, SettingOf(i[1]), i[1]) ELSE m.settings
         /\ GoodM(q)
<1> DEFINE e == <<>>
           inp == IF Name(i) = "" THEN Append(m.inputs, <<i[1], m.lang>>) ELSE m.inputs
           o == IF Name(i) = "-o" THEN Val(i) ELSE m.output
           l == IF Name(i) = "-x" THEN Val(i) ELSE m.lang
           st == IF Name(i) \in {"-c", "-S", "-E"} THEN m.stages \cup {Name(i)} ELSE m.stages
           di == IF Name(i) \in {"-I", "-isystem"} THEN Append(m.dirs, <<Name(i), Val(i)>>) ELSE m.dirs
           fo == IF Name(i) = "-include" THEN Append(m.forced, Val(i)) ELSE m.forced
           ma == IF Name(i) \in {"-D", "-U"} THEN Set(m.macros, Val(i), Name(i)) ELSE m.macros
           de == IF Name(i) \in {"-MF", "-MT"} THEN Append(m.deps, <<Name(i), Val(i)>>) ELSE m.deps
           se == IF IsSetting(i) THEN Set(m.settings, SettingOf(i[1]), i[1]) ELSE m.settings
<1>1. q = M(e, inp, o, l, st, di, fo, ma, de, se)
  BY Zenon DEF MeanItem
<1> HIDE DEF e, inp, o, l, st, di, fo, ma, de, se
<1>2. /\ q.pending = e /\ q.inputs = inp /\ q.output = o /\ q.lang = l /\ q.stages = st
      /\ q.dirs = di /\ q.forced = fo /\ q.macros = ma /\ q.deps = de /\ q.settings = se
      /\ IsM(q)
  BY <1>1, MFields
<1>3. QED
  BY <1>2, Zenon DEF e, inp, o, l, st, di, fo, ma, de, se, GoodM

MeantFrom(b, u) == Meaningful!Run(b, Args(u))

LEMMA MeantStart == ASSUME NEW b PROVE MeantFrom(b, <<>>) = b
BY ArgsEmpty, Meaningful!RunEmpty DEF MeantFrom

LEMMA MeansConcat ==
  ASSUME NEW b, NEW s \in Seq(Arg), NEW i \in Seq(Arg), Complete(i), GoodM(Meaningful!Run(b, s))
  PROVE  /\ Meaningful!Run(b, s \o i) = MeanItem(Meaningful!Run(b, s), i)
         /\ GoodM(Meaningful!Run(b, s \o i))
<1>1. Meaningful!Run(b, s \o i) = Meaningful!Run(Meaningful!Run(b, s), i)
  BY Meaningful!RunConcat
<1>2. Meaningful!Run(Meaningful!Run(b, s), i) = MeanItem(Meaningful!Run(b, s), i)
  BY MeansItem, Zenon DEF GoodM
<1>3. QED
  BY <1>1, <1>2, MeanItemFields, Zenon

LEMMA MeantGrows ==
  ASSUME NEW I, I \subseteq Seq(Arg), \A i \in I : Complete(i), NEW b, GoodM(b), NEW u \in Seq(I)
  PROVE  /\ GoodM(MeantFrom(b, u))
         /\ \A i \in I : MeantFrom(b, Append(u, i)) = MeanItem(MeantFrom(b, u), i)
<1> DEFINE G == {t \in Seq(I) : GoodM(MeantFrom(b, t))}
<1>1. <<>> \in G
  <2>1. <<>> \in Seq(I)
    OBVIOUS
  <2>2. QED
    BY <2>1, MeantStart, Zenon
<1>2. ASSUME NEW t \in Seq(I), NEW i \in I, GoodM(MeantFrom(b, t))
      PROVE  MeantFrom(b, Append(t, i)) = MeanItem(MeantFrom(b, t), i) /\ GoodM(MeantFrom(b, Append(t, i)))
  <2>1. Args(t) \in Seq(Arg) /\ i \in Seq(Arg) /\ Complete(i)
    BY ArgsAre
  <2>2. Args(Append(t, i)) = Args(t) \o i
    BY ArgsGrow
  <2>3. QED
    BY <1>2, <2>1, <2>2, MeansConcat, Zenon DEF MeantFrom
<1>3. u \in G
  <2>1. ASSUME NEW t \in Seq(I), NEW i \in I, t \in G PROVE Append(t, i) \in G
    <3>1. Append(t, i) \in Seq(I)
      OBVIOUS
    <3>2. QED
      BY <1>2, <2>1, <3>1, Zenon
  <2> HIDE DEF G
  <2>2. QED
    BY <1>1, <2>1, SeqGrows
<1>4. QED
  BY <1>2, <1>3

-----------------------------------------------------------------------------
(***************************************************************************)
(* The items that end up in Flags, and what parser and gcc agree on.       *)
(***************************************************************************)

(* The items that the parser keeps among the flags. *)
KeptItem(i) ==
  \/ \E a \in Arg : i = <<a>> /\ Plain(a)
  \/ \E f, v \in Text : /\ f \in Unknown /\ v # "" /\ i = <<Flag(f), Word(v)>>
                        /\ ~IsFile(Word(v)) /\ ~isInputFile(Word(v))
                        /\ Flag(f) \in Arg /\ Word(v) \in Arg
KeptItems == {i \in Seq(Arg) : KeptItem(i)}

LEMMA KeptUnits == ASSUME NEW i \in Units, IsKept(i) PROVE i \in KeptItems
<1>1. i \in Seq(Arg)
  BY UnitsAreArgs
<1>2. ~\E a \in Arg : i = <<a>> /\ IsFile(a)
  <2>1. ASSUME NEW a \in Arg, i = <<a>>, IsFile(a) PROVE FALSE
    <3>1. a[1] = ""
      BY <2>1, FilesAreWords DEF IsWord
    <3>2. QED
      BY <2>1, <3>1, OneIs, Zenon DEF IsKept
  <2>2. QED
    BY <2>1
<1>3. ~\E f, v \in Text : f \in Taken /\ v # "" /\ i = <<<<f, v>>>>
  <2>1. ASSUME NEW f, NEW v, f \in Taken, i = <<<<f, v>>>> PROVE FALSE
    <3>1. <<f, v>>[1] = f
      OBVIOUS
    <3>2. QED
      BY <2>1, <3>1, OneIs, Zenon DEF IsKept
  <2>2. QED
    BY <2>1
<1>4. ~\E f, v \in Text : f \in Taken /\ v # "" /\ i = <<Flag(f), Word(v)>>
  <2>1. ASSUME NEW f, NEW v, f \in Taken, i = <<Flag(f), Word(v)>> PROVE FALSE
    <3>1. Name(i) = f
      BY <2>1, PairIs
    <3>2. QED
      BY <2>1, <3>1, Zenon DEF IsKept
  <2>2. QED
    BY <2>1
<1>5. QED
  BY <1>1, <1>2, <1>3, <1>4, UnitCases, Zenon DEF KeptItems, KeptItem

LEMMA KeptAre ==
  ASSUME NEW i \in KeptItems
  PROVE  i \in Seq(Arg) /\ KeptItem(i) /\ IsKept(i) /\ Complete(i)
<1>1. i \in Seq(Arg) /\ KeptItem(i)
  BY DEF KeptItems
<1>2. CASE \E a \in Arg : i = <<a>> /\ Plain(a)
  <2>1. PICK a \in Arg : i = <<a>> /\ Plain(a)
    BY <1>2
  <2>2. a[1] \notin GccValueFlags \/ a[2] # ""
    BY <2>1, Zenon DEF Plain, IsLoneFlag, SeparateFlags
  <2>3. a[1] \notin Taken /\ a[1] # ""
    BY <2>1, Zenon DEF Plain, IsLoneFlag, IsWord
  <2>4. QED
    BY <1>1, <2>1, <2>2, <2>3, OneIs, Zenon DEF Complete, IsKept
<1>3. CASE \E f, v \in Text : /\ f \in Unknown /\ v # "" /\ i = <<Flag(f), Word(v)>>
                              /\ ~IsFile(Word(v)) /\ ~isInputFile(Word(v))
                              /\ Flag(f) \in Arg /\ Word(v) \in Arg
  <2>1. PICK f, v \in Text : f \in Unknown /\ i = <<Flag(f), Word(v)>>
    BY <1>3
  <2>2. f \in GccValueFlags /\ f \notin Taken /\ f # ""
    BY <2>1, Zenon DEF Unknown, GccValueFlags, Taken
  <2>3. Name(i) = f
    BY <2>1, PairIs
  <2>4. IsKept(i)
    BY <2>2, <2>3, Zenon DEF IsKept
  <2>5. Complete(i)
    BY <2>1, <2>2, Zenon DEF Complete
  <2>6. QED
    BY <1>1, <2>4, <2>5
<1>4. QED
  BY <1>1, <1>2, <1>3, Zenon DEF KeptItem

(* A kept item that sets something is one argument. *)
LEMMA KeptSetting ==
  ASSUME NEW i \in KeptItems, Name(i) \notin Unknown
  PROVE  /\ i = <<i[1]>> /\ Plain(i[1]) /\ i[1] \in Arg
         /\ i[1][1] = Name(i) /\ i[1][2] = Val(i) /\ i[1] = <<Name(i), Val(i)>>
<1>1. KeptItem(i)
  BY DEF KeptItems
<1>2. ~\E f, v \in Text : f \in Unknown /\ i = <<Flag(f), Word(v)>>
  BY PairIs, Zenon
<1>3. PICK a \in Arg : i = <<a>> /\ Plain(a)
  BY <1>1, <1>2, Zenon DEF KeptItem
<1>4. i[1] = a /\ i = <<i[1]>>
  BY <1>3
<1>5. a = <<a[1], a[2]>>
  BY ArgIs, Zenon
<1>6. QED
  BY <1>3, <1>4, <1>5, OneIs, Zenon

LEMMA SetIs ==
  ASSUME NEW f, NEW k, NEW v
  PROVE  /\ DOMAIN Set(f, k, v) = DOMAIN f \cup {k}
         /\ Set(f, k, v)[k] = v
         /\ \A x \in DOMAIN f : x # k => Set(f, k, v)[x] = f[x]
BY DEF Set

LEMMA SetHas == ASSUME NEW f, NEW k, NEW v PROVE k \in DOMAIN Set(f, k, v) /\ Set(f, k, v)[k] = v
BY DEF Set
LEMMA SetKeeps ==
  ASSUME NEW f, NEW k, NEW v, NEW x, x # k
  PROVE  /\ x \in DOMAIN Set(f, k, v) <=> x \in DOMAIN f
         /\ x \in DOMAIN f => Set(f, k, v)[x] = f[x]
BY DEF Set

LEMMA SettingKeys ==
  ASSUME NEW a
  PROVE  /\ a[1] \in {"-O", "-std=", "-g"} => SettingOf(a) = Flag(a[1])
         /\ a[1] \in {"-f", "-fno-"} => SettingOf(a) = <<"-f", a[2]>>
         /\ a[1] \notin {"-O", "-std=", "-g", "-f", "-fno-"} => SettingOf(a) = a
BY Zenon DEF SettingOf

LEMMA OtherKeys ==
  ASSUME NEW a, NEW f \in {"-O", "-std="}, a[1] # f
  PROVE  SettingOf(a) # Flag(f)
<1>1. CASE a[1] \in {"-O", "-std=", "-g"}
  <2>1. SettingOf(a) = Flag(a[1])
    BY <1>1, SettingKeys, Zenon
  <2>2. Flag(a[1])[1] = a[1] /\ Flag(f)[1] = f
    BY FlagIs
  <2>3. QED
    BY <2>1, <2>2, Zenon
<1>2. CASE a[1] \in {"-f", "-fno-"}
  <2>1. <<"-f", a[2]>>[1] = "-f"
    OBVIOUS
  <2>2. SettingOf(a)[1] = "-f"
    BY <1>2, <2>1, SettingKeys, Zenon
  <2>3. Flag(f)[1] = f /\ f # "-f"
    BY FlagIs
  <2>4. QED
    BY <2>2, <2>3, Zenon
<1>3. CASE a[1] \notin {"-O", "-std=", "-g", "-f", "-fno-"}
  BY <1>3, SettingKeys, FlagIs, Zenon
<1>4. QED
  BY <1>1, <1>2, <1>3, Zenon

(* What the parser and gcc see of the same items. *)
Std == Flag("-std=")
Sources(s) == [n \in 1..Len(s) |-> s[n][1]]
Tracks(p, m) ==
  /\ p.compileOnly <=> "-c" \in m.stages
  /\ p.inputFiles = Sources(m.inputs) /\ \E S : m.inputs \in Seq(S)
  /\ p.standard # "" => Std \in DOMAIN m.settings /\ m.settings[Std] = <<"-std=", p.standard>>

LEMMA SourcesStart == Sources(<<>>) = <<>>
BY DEF Sources

LEMMA SourcesGrow ==
  ASSUME NEW S, NEW s \in Seq(S), NEW a, NEW l
  PROVE  /\ Sources(Append(s, <<a, l>>)) = Append(Sources(s), a)
         /\ Append(s, <<a, l>>) \in Seq(S \cup {<<a, l>>})
<1> DEFINE x == <<a, l>>
           t == Append(s, x)
           T == {y[1] : y \in S} \cup {a}
           old == Sources(s)
           new == Append(old, a)
<1>1. x[1] = a
  OBVIOUS
<1> HIDE DEF x
<1>2. Len(t) = Len(s) + 1 /\ Len(s) \in Nat /\ t[Len(s) + 1] = x /\ \A n \in 1..Len(s) : t[n] = s[n]
  OBVIOUS
<1>3. t \in Seq(S \cup {x})
  <2>1. s \in Seq(S \cup {x})
    OBVIOUS
  <2>2. QED
    BY <2>1
<1>4. old \in Seq(T) /\ Len(old) = Len(s)
  BY DEF Sources
<1>5. new \in Seq(T) /\ Len(new) = Len(s) + 1 /\ new[Len(s) + 1] = a /\ \A n \in 1..Len(s) : new[n] = old[n]
  <2>1. a \in T
    OBVIOUS
  <2> HIDE DEF old, T
  <2>2. QED
    BY <1>2, <1>4, <2>1
<1>6. Sources(t) \in Seq(T) /\ Len(Sources(t)) = Len(s) + 1
  <2>1. \A n \in 1..Len(t) : t[n][1] \in T
    BY <1>1, <1>2
  <2> HIDE DEF t, T
  <2>2. QED
    BY <1>2, <2>1 DEF Sources
<1>7. \A n \in 1..(Len(s) + 1) : Sources(t)[n] = new[n]
  <2>1. \A n \in 1..Len(s) : old[n] = s[n][1]
    BY DEF Sources
  <2> HIDE DEF t, new, old
  <2>2. \A n \in 1..Len(t) : Sources(t)[n] = t[n][1]
    BY DEF Sources
  <2>3. QED
    BY <1>1, <1>2, <1>5, <2>1, <2>2
<1> HIDE DEF t, new, T
<1>8. Sources(t) = new
  BY <1>5, <1>6, <1>7, SeqEqual
<1>9. QED
  BY <1>3, <1>8 DEF t, new, x, old

LEMMA StartsGood ==
  /\ GoodP(NothingParsed) /\ GoodM(NoMeaning) /\ Tracks(NothingParsed, NoMeaning)
<1>1. NothingParsed = P(FALSE, FALSE, <<>>, <<>>, <<>>, <<>>, "", "", "", <<>>)
  BY Zenon DEF NothingParsed, P
<1>2. /\ NothingParsed.flags = <<>> /\ NothingParsed.pending = <<>>
      /\ NothingParsed.inputFiles = <<>> /\ NothingParsed.standard = ""
      /\ ~NothingParsed.compileOnly
  BY Zenon DEF NothingParsed
<1>3. IsP(NothingParsed)
  BY Zenon DEF NothingParsed, P, IsP
<1>4. IsM(NoMeaning) /\ NoMeaning.pending = <<>> /\ NoMeaning.inputs = <<>> /\ NoMeaning.stages = {}
  BY Zenon DEF NoMeaning, M, IsM
<1>5. NothingParsed.flags \in Seq(Arg)
  <2>1. <<>> \in Seq(Arg)
    OBVIOUS
  <2>2. QED
    BY <1>2, <2>1, Zenon
<1>6. NoMeaning.inputs \in Seq({})
  <2>1. <<>> \in Seq({})
    OBVIOUS
  <2>2. QED
    BY <1>4, <2>1, Zenon
<1>7. QED
  BY <1>2, <1>3, <1>4, <1>5, <1>6, SourcesStart, Zenon DEF GoodP, GoodM, Tracks

LEMMA TracksItem ==
  ASSUME NEW p, NEW m, Tracks(p, m), NEW i \in Units
  PROVE  Tracks(ParseItem(p, i), MeanItem(m, i))
<1> DEFINE q == ParseItem(p, i)
           r == MeanItem(m, i)
<1>1. /\ q.compileOnly = IF Name(i) = "-c" THEN TRUE ELSE p.compileOnly
      /\ q.inputFiles = IF Name(i) = "" THEN Append(p.inputFiles, i[1]) ELSE p.inputFiles
      /\ q.standard = IF Name(i) = "-std=" THEN Val(i) ELSE p.standard
  BY ParseItemFields, ZenonT(60)
<1>2. /\ r.inputs = IF Name(i) = "" THEN Append(m.inputs, <<i[1], m.lang>>) ELSE m.inputs
      /\ r.stages = IF Name(i) \in {"-c", "-S", "-E"} THEN m.stages \cup {Name(i)} ELSE m.stages
      /\ r.settings = IF IsSetting(i) THEN Set(m.settings, SettingOf(i[1]), i[1]) ELSE m.settings
  BY MeanItemFields, ZenonT(60)
<1> HIDE DEF q, r
<1>3. q.compileOnly <=> "-c" \in r.stages
  <2>1. CASE Name(i) = "-c"
    <3>1. q.compileOnly
      BY <1>1, <2>1, Zenon
    <3>2. "-c" \in r.stages
      BY <1>2, <2>1, Zenon
    <3>3. QED
      BY <3>1, <3>2, Zenon
  <2>2. CASE Name(i) # "-c"
    <3>1. q.compileOnly = p.compileOnly
      BY <1>1, <2>2, Zenon
    <3>2. "-c" \in r.stages <=> "-c" \in m.stages
      BY <1>2, <2>2, Zenon
    <3>3. QED
      BY <3>1, <3>2, Zenon DEF Tracks
  <2>3. QED
    BY <2>1, <2>2, Zenon
<1>4. q.inputFiles = Sources(r.inputs) /\ \E S : r.inputs \in Seq(S)
  <2>1. PICK S : m.inputs \in Seq(S)
    BY Zenon DEF Tracks
  <2>2. p.inputFiles = Sources(m.inputs)
    BY Zenon DEF Tracks
  <2>3. CASE Name(i) = ""
    <3> DEFINE x == <<i[1], m.lang>>
    <3>1. q.inputFiles = Append(p.inputFiles, i[1])
      BY <1>1, <2>3, Zenon
    <3>2. r.inputs = Append(m.inputs, x)
      BY <1>2, <2>3, Zenon
    <3>3. /\ Sources(Append(m.inputs, x)) = Append(Sources(m.inputs), i[1])
          /\ Append(m.inputs, x) \in Seq(S \cup {x})
      BY <2>1, SourcesGrow
    <3> HIDE DEF x
    <3>4. QED
      BY <2>2, <3>1, <3>2, <3>3, Zenon
  <2>4. CASE Name(i) # ""
    <3>1. q.inputFiles = p.inputFiles
      BY <1>1, <2>4, Zenon
    <3>2. r.inputs = m.inputs
      BY <1>2, <2>4, Zenon
    <3>3. QED
      BY <2>1, <2>2, <3>1, <3>2, Zenon
  <2>5. QED
    BY <2>3, <2>4
<1>5. q.standard # "" => Std \in DOMAIN r.settings /\ r.settings[Std] = <<"-std=", q.standard>>
  <2>1. CASE Name(i) = "-std="
    <3>1. IsSetting(i) /\ IsKept(i) /\ Name(i) \notin Unknown
      BY <2>1, Zenon DEF IsSetting, GccValueFlags, IsKept, Taken, Unknown
    <3>2. i[1] = <<Name(i), Val(i)>> /\ i[1][1] = Name(i)
      BY <3>1, KeptUnits, KeptSetting, Zenon
    <3>3. SettingOf(i[1]) = Std
      BY <2>1, <3>2, SettingKeys, Zenon DEF Std
    <3>4. r.settings = Set(m.settings, Std, i[1])
      BY <1>2, <3>1, <3>3, Zenon
    <3>5. Std \in DOMAIN r.settings /\ r.settings[Std] = i[1]
      <4>1. Std \in DOMAIN Set(m.settings, Std, i[1]) /\ Set(m.settings, Std, i[1])[Std] = i[1]
        BY SetHas
      <4>2. QED
        BY <3>4, <4>1
    <3>6. QED
      BY <1>1, <2>1, <3>2, <3>5, Zenon
  <2>2. CASE Name(i) # "-std="
    <3>1. q.standard = p.standard
      BY <1>1, <2>2, Zenon
    <3>2. CASE IsSetting(i)
      <4>1. SettingOf(i[1]) # Std
        BY <2>2, OtherKeys, Zenon DEF Std, Name
      <4>2. r.settings = Set(m.settings, SettingOf(i[1]), i[1])
        BY <1>2, <3>2, Zenon
      <4>3. Std \in DOMAIN m.settings => Std \in DOMAIN r.settings /\ r.settings[Std] = m.settings[Std]
        <5> DEFINE k == SettingOf(i[1])
        <5>1. /\ Std \in DOMAIN Set(m.settings, k, i[1]) <=> Std \in DOMAIN m.settings
              /\ Std \in DOMAIN m.settings => Set(m.settings, k, i[1])[Std] = m.settings[Std]
          BY <4>1, SetKeeps
        <5>2. QED
          BY <4>2, <5>1
      <4>4. QED
        BY <3>1, <4>3, Zenon DEF Tracks
    <3>3. CASE ~IsSetting(i)
      BY <1>2, <3>1, <3>3, Zenon DEF Tracks
    <3>4. QED
      BY <3>2, <3>3
  <2>3. QED
    BY <2>1, <2>2
<1>6. QED
  BY <1>3, <1>4, <1>5, Zenon DEF Tracks, q, r

LEMMA UnitsMean ==
  ASSUME NEW b, GoodM(b), NEW u \in Seq(Units)
  PROVE  /\ GoodM(MeantFrom(b, u))
         /\ \A i \in Units : MeantFrom(b, Append(u, i)) = MeanItem(MeantFrom(b, u), i)
<1>1. \A i \in Units : Complete(i)
  BY UnitsComplete
<1>2. QED
  BY <1>1, UnitsAreArgs, MeantGrows

LEMMA ParserTracks ==
  ASSUME NEW u \in Seq(Units)
  PROVE  Tracks(ParsedFrom(NothingParsed, u), MeantFrom(NoMeaning, u))
<1> DEFINE G == {t \in Seq(Units) : Tracks(ParsedFrom(NothingParsed, t), MeantFrom(NoMeaning, t))}
<1>1. <<>> \in G
  <2>1. <<>> \in Seq(Units)
    OBVIOUS
  <2>2. QED
    BY <2>1, ParsedStart, MeantStart, StartsGood, Zenon
<1>2. ASSUME NEW t \in Seq(Units), NEW i \in Units, t \in G PROVE Append(t, i) \in G
  <2>1. Append(t, i) \in Seq(Units)
    OBVIOUS
  <2>2. ParsedFrom(NothingParsed, Append(t, i)) = ParseItem(ParsedFrom(NothingParsed, t), i)
    BY StartsGood, ParsedGood, ParsedStep, Zenon
  <2>3. MeantFrom(NoMeaning, Append(t, i)) = MeanItem(MeantFrom(NoMeaning, t), i)
    BY StartsGood, UnitsMean, Zenon
  <2>4. QED
    BY <1>2, <2>1, <2>2, <2>3, TracksItem, Zenon
<1>3. u \in G
  <2> HIDE DEF G
  <2> QED BY <1>1, <1>2, SeqGrows
<1>4. QED
  BY <1>3

-----------------------------------------------------------------------------
(***************************************************************************)
(* What Flags mean to gcc.                                                 *)
(***************************************************************************)

FlagsOf(u) == ParsedFrom(NothingParsed, u).flags

LEMMA FlagsStart == FlagsOf(<<>>) = <<>>
<1>1. ParsedFrom(NothingParsed, <<>>) = NothingParsed
  BY ParsedStart
<1>2. NothingParsed.flags = <<>>
  BY Zenon DEF NothingParsed
<1>3. QED
  BY <1>1, <1>2, Zenon DEF FlagsOf

LEMMA FlagsGrow ==
  ASSUME NEW u \in Seq(Units), NEW i \in Units
  PROVE  /\ FlagsOf(u) \in Seq(Arg)
         /\ FlagsOf(Append(u, i)) = IF IsKept(i) THEN FlagsOf(u) \o i ELSE FlagsOf(u)
<1>1. GoodP(ParsedFrom(NothingParsed, u))
  BY StartsGood, ParsedGood
<1>2. ParsedFrom(NothingParsed, Append(u, i)) = ParseItem(ParsedFrom(NothingParsed, u), i)
  BY <1>1, ParsedStep
<1> DEFINE p == ParsedFrom(NothingParsed, u)
           q == ParseItem(p, i)
<1>3. q.flags = IF IsKept(i) THEN p.flags \o i ELSE p.flags
  BY ParseItemFields, Zenon
<1>4. QED
  BY <1>1, <1>2, <1>3, Zenon DEF FlagsOf, GoodP

(* To gcc, the flags that the parser keeps mean all but the files, the output, *)
(* the language, the include path and the macros.                              *)
LEMMA FlagsMean ==
  ASSUME NEW b, GoodM(b), b.settings = <<>>, b.deps = <<>>, NEW u \in Seq(Units)
  PROVE  LET r == Meaningful!Run(b, FlagsOf(u))
             m == MeantFrom(NoMeaning, u)
         IN /\ GoodM(r) /\ r.settings = m.settings /\ r.deps = m.deps
            /\ r.stages = b.stages \cup m.stages /\ r.inputs = b.inputs /\ r.output = b.output
            /\ r.lang = b.lang
<1> DEFINE R(t) == Meaningful!Run(b, FlagsOf(t))
           W(t) == MeantFrom(NoMeaning, t)
           Same(r, m) == /\ GoodM(r) /\ r.settings = m.settings /\ r.deps = m.deps
                         /\ r.stages = b.stages \cup m.stages /\ r.inputs = b.inputs /\ r.output = b.output
                         /\ r.lang = b.lang
           G == {t \in Seq(Units) : Same(R(t), W(t))}
<1>1. <<>> \in G
  <2>1. <<>> \in Seq(Units)
    OBVIOUS
  <2>2. R(<<>>) = b
    BY FlagsStart, Meaningful!RunEmpty, Zenon
  <2>3. W(<<>>) = NoMeaning
    BY MeantStart
  <2>4. NoMeaning.settings = <<>> /\ NoMeaning.deps = <<>> /\ NoMeaning.stages = {}
    BY Zenon DEF NoMeaning
  <2>5. b.stages = b.stages \cup {}
    OBVIOUS
  <2>6. Same(b, NoMeaning)
    BY <2>4, <2>5, Zenon
  <2> HIDE DEF R, W, Same
  <2>7. QED
    BY <2>1, <2>2, <2>3, <2>6, Zenon
<1>2. ASSUME NEW t \in Seq(Units), NEW i \in Units, t \in G PROVE Append(t, i) \in G
  <2>1. Append(t, i) \in Seq(Units)
    OBVIOUS
  <2>2. W(Append(t, i)) = MeanItem(W(t), i)
    BY StartsGood, UnitsMean, Zenon
  <2>3. Same(R(t), W(t))
    BY <1>2
  <2>4. CASE IsKept(i)
    <3>1. FlagsOf(Append(t, i)) = FlagsOf(t) \o i /\ FlagsOf(t) \in Seq(Arg) /\ i \in Seq(Arg)
      BY <2>4, FlagsGrow, UnitsAreArgs, Zenon
    <3>2. R(Append(t, i)) = MeanItem(R(t), i)
      BY <2>3, <3>1, UnitsComplete, MeansConcat, Zenon
    <3> DEFINE r == R(t)
               m == W(t)
    <3> HIDE DEF R, W
    <3>3. Name(i) \notin {"", "-o", "-x"}
      BY <2>4, Zenon DEF IsKept, Taken
    <3>4. Same(MeanItem(r, i), MeanItem(m, i))
      <4> DEFINE x == MeanItem(r, i)
                 y == MeanItem(m, i)
      <4>1. GoodM(x) /\ x.inputs = r.inputs /\ x.output = r.output /\ x.lang = r.lang
        BY <3>3, MeanItemFields, Zenon
      <4>2. x.settings = y.settings
        <5>1. x.settings = IF IsSetting(i) THEN Set(r.settings, SettingOf(i[1]), i[1]) ELSE r.settings
          BY MeanItemFields, ZenonT(60)
        <5>2. y.settings = IF IsSetting(i) THEN Set(m.settings, SettingOf(i[1]), i[1]) ELSE m.settings
          BY MeanItemFields, ZenonT(60)
        <5>3. QED
          BY <2>3, <5>1, <5>2, Zenon
      <4>3. x.deps = y.deps
        <5>1. x.deps = IF Name(i) \in {"-MF", "-MT"} THEN Append(r.deps, <<Name(i), Val(i)>>) ELSE r.deps
          BY MeanItemFields, ZenonT(60)
        <5>2. y.deps = IF Name(i) \in {"-MF", "-MT"} THEN Append(m.deps, <<Name(i), Val(i)>>) ELSE m.deps
          BY MeanItemFields, ZenonT(60)
        <5>3. QED
          BY <2>3, <5>1, <5>2, Zenon
      <4>4. x.stages = b.stages \cup y.stages
        <5>1. x.stages = IF Name(i) \in {"-c", "-S", "-E"} THEN r.stages \cup {Name(i)} ELSE r.stages
          BY MeanItemFields, Zenon
        <5>2. y.stages = IF Name(i) \in {"-c", "-S", "-E"} THEN m.stages \cup {Name(i)} ELSE m.stages
          BY MeanItemFields, Zenon
        <5>3. r.stages = b.stages \cup m.stages
          BY <2>3
        <5> HIDE DEF x, y, r, m
        <5>4. QED
          BY <5>1, <5>2, <5>3
      <4> HIDE DEF x, y, r, m
      <4>5. QED
        BY <2>3, <4>1, <4>2, <4>3, <4>4, Zenon DEF x, y, r, m
    <3> HIDE DEF Same
    <3>5. QED
      BY <2>1, <2>2, <3>2, <3>4, Zenon
  <2>5. CASE ~IsKept(i)
    <3>1. R(Append(t, i)) = R(t)
      BY <2>5, FlagsGrow, Zenon
    <3>2. Name(i) \in Taken \cup {""}
      BY <2>5, Zenon DEF IsKept
    <3>3. Name(i) \notin {"-c", "-S", "-E", "-MF", "-MT"} /\ ~IsSetting(i)
      BY <3>2, Zenon DEF Taken, IsSetting, GccValueFlags
    <3> DEFINE m == W(t)
               y == MeanItem(m, i)
    <3>4. y.settings = m.settings /\ y.deps = m.deps /\ y.stages = m.stages
      <4>1. y.stages = IF Name(i) \in {"-c", "-S", "-E"} THEN m.stages \cup {Name(i)} ELSE m.stages
        BY MeanItemFields, Zenon
      <4>2. y.deps = IF Name(i) \in {"-MF", "-MT"} THEN Append(m.deps, <<Name(i), Val(i)>>) ELSE m.deps
        BY MeanItemFields, ZenonT(60)
      <4>3. y.settings = IF IsSetting(i) THEN Set(m.settings, SettingOf(i[1]), i[1]) ELSE m.settings
        BY MeanItemFields, ZenonT(60)
      <4> HIDE DEF y, m
      <4>4. QED
        BY <3>3, <4>1, <4>2, <4>3, Zenon
    <3> HIDE DEF R, W
    <3>5. Same(R(Append(t, i)), W(Append(t, i)))
      BY <2>2, <2>3, <3>1, <3>4, Zenon
    <3>6. QED
      BY <2>1, <3>5, Zenon
  <2>6. QED
    BY <2>4, <2>5
<1>3. u \in G
  <2> HIDE DEF G
  <2> QED BY <1>1, <1>2, SeqGrows
<1>4. QED
  BY <1>3

(* No value in it that cl.exe would take for an input. *)
Known(s) == \A n \in DOMAIN s : ~StrayInput(s[n])

LEMMA KnownStarts == Known(<<>>)
BY DEF Known

LEMMA KnownGrows ==
  ASSUME NEW S, NEW s \in Seq(S), NEW i \in S
  PROVE  Known(Append(s, i)) <=> Known(s) /\ ~StrayInput(i)
<1>1. /\ DOMAIN Append(s, i) = 1 .. Len(s) + 1 /\ DOMAIN s = 1 .. Len(s) /\ Len(s) \in Nat
      /\ \A n \in 1 .. Len(s) : Append(s, i)[n] = s[n]
      /\ Append(s, i)[Len(s) + 1] = i
  OBVIOUS
<1>2. 1 .. Len(s) + 1 = (1 .. Len(s)) \cup {Len(s) + 1}
  BY <1>1
<1> DEFINE a == Append(s, i)
           e == Len(s) + 1
           d == 1 .. Len(s)
<1>3. DOMAIN a = d \cup {e} /\ DOMAIN s = d /\ (\A n \in d : a[n] = s[n]) /\ a[e] = i
  BY <1>1, <1>2
<1> HIDE DEF a, e, d
<1>4. Known(a) <=> Known(s) /\ ~StrayInput(i)
  BY <1>3, Zenon DEF Known
<1>5. QED
  BY <1>4 DEF a

(* They are the arguments of kept items, after those of z. *)
LEMMA FlagsAreItems ==
  ASSUME NEW z \in Seq(KeptItems), NEW u \in Seq(Units)
  PROVE  \E k \in Seq(KeptItems) : /\ Args(k) = Args(z) \o FlagsOf(u)
                                   /\ Known(z) /\ Known(u) => Known(k)
<1> DEFINE Fit(t, k) == Args(k) = Args(z) \o FlagsOf(t) /\ (Known(z) /\ Known(t) => Known(k))
           G == {t \in Seq(Units) : \E k \in Seq(KeptItems) : Fit(t, k)}
<1>0. KeptItems \subseteq Seq(Arg)
  BY KeptAre
<1>1. <<>> \in G
  <2>1. <<>> \in Seq(Units) /\ Args(z) \in Seq(Arg)
    BY <1>0, ArgsAre
  <2>2. Args(z) \o FlagsOf(<<>>) = Args(z)
    BY <2>1, FlagsStart
  <2>3. QED
    BY <2>1, <2>2, Zenon
<1>2. ASSUME NEW t \in Seq(Units), NEW i \in Units, t \in G PROVE Append(t, i) \in G
  <2>1. Append(t, i) \in Seq(Units)
    OBVIOUS
  <2>2. PICK k \in Seq(KeptItems) : /\ Args(k) = Args(z) \o FlagsOf(t)
                                    /\ Known(z) /\ Known(t) => Known(k)
    <3>1. PICK k \in Seq(KeptItems) : Fit(t, k)
      <4> HIDE DEF Fit
      <4> QED BY <1>2
    <3>2. QED
      BY <3>1, Zenon
  <2>0. Known(Append(t, i)) <=> Known(t) /\ ~StrayInput(i)
    BY KnownGrows, Zenon
  <2>3. CASE IsKept(i)
    <3>1. FlagsOf(Append(t, i)) = FlagsOf(t) \o i /\ FlagsOf(t) \in Seq(Arg) /\ i \in Seq(Arg)
      BY <2>3, FlagsGrow, UnitsAreArgs, Zenon
    <3>2. i \in KeptItems
      BY <2>3, KeptUnits
    <3>3. Append(k, i) \in Seq(KeptItems) /\ Args(Append(k, i)) = Args(k) \o i
      BY <3>2, ArgsGrow
    <3>4. Args(z) \in Seq(Arg)
      BY <1>0, ArgsAre
    <3>5. (Args(z) \o FlagsOf(t)) \o i = Args(z) \o (FlagsOf(t) \o i)
      BY <3>1, <3>4, SMTT(30)
    <3>6. Args(Append(k, i)) = Args(z) \o FlagsOf(Append(t, i))
      BY <2>2, <3>1, <3>3, <3>5, Zenon
    <3>7. Known(Append(k, i)) <=> Known(k) /\ ~StrayInput(i)
      BY <3>2, KnownGrows, Zenon
    <3>8. QED
      BY <2>0, <2>1, <2>2, <3>3, <3>6, <3>7, Zenon
  <2>4. CASE ~IsKept(i)
    BY <2>0, <2>1, <2>2, <2>4, FlagsGrow, Zenon
  <2>5. QED
    BY <2>3, <2>4
<1>3. u \in G
  <2> HIDE DEF G
  <2> QED BY <1>1, <1>2, SeqGrows
<1>4. PICK k \in Seq(KeptItems) : Fit(u, k)
  <2> HIDE DEF Fit
  <2> QED BY <1>3
<1>5. QED
  BY <1>4, Zenon

-----------------------------------------------------------------------------
(***************************************************************************)
(* What the loops that pass arguments on leave out.                        *)
(***************************************************************************)

Dropping == INSTANCE FoldFacts WITH Op <- DropStep

LEMMA DropRuns == ASSUME NEW b, NEW s PROVE FoldLeft(DropStep, b, s) = Dropping!Run(b, s)
BY Zenon DEF Dropping!Run, Dropping!Table, Dropping!IsTable, Dropping!Top,
             FoldLeft, MapThenFoldSet, Max

DropState(D, out) == [drop |-> D, skip |-> FALSE, out |-> out]

LEMMA WithoutIs ==
  ASSUME NEW s, NEW D
  PROVE  Without(s, D) = Dropping!Run(DropState(D, <<>>), s).out
BY DropRuns, Zenon DEF Without, DropState

(* What the executors drop of the kept items: at most -c. *)
Harmless(D) ==
  /\ D.bare \subseteq {Flag("-c")} /\ D.prefixed \subseteq {"-I", "-D"}
  /\ D.valued \subseteq {"-o", "-I"} /\ D.exts \subseteq InputExts \cup {".m", ".mm"}

LEMMA SetOut ==
  ASSUME NEW s, s = [drop |-> s.drop, skip |-> s.skip, out |-> s.out], NEW x
  PROVE  [s EXCEPT !.out = x] = [drop |-> s.drop, skip |-> s.skip, out |-> x]
OBVIOUS

LEMMA DropKeeps ==
  ASSUME NEW D, NEW out, NEW a, a[1] \notin D.valued, a \notin D.bare, a[1] \notin D.prefixed,
         Ext(a) \notin D.exts
  PROVE  DropStep(DropState(D, out), a) = DropState(D, Append(out, a))
<1> DEFINE s == DropState(D, out)
<1>1. ~s.skip /\ s.drop = D /\ s.out = out
  BY DEF DropState
<1>2. s = [drop |-> s.drop, skip |-> s.skip, out |-> s.out] /\ s.skip = FALSE
  BY Zenon DEF DropState
<1> HIDE DEF s
<1>3. DropStep(s, a) = [s EXCEPT !.out = Append(s.out, a)]
  BY <1>1, Zenon DEF DropStep
<1>4. [s EXCEPT !.out = Append(s.out, a)] = [drop |-> s.drop, skip |-> s.skip, out |-> Append(s.out, a)]
  BY <1>2, SetOut, Zenon
<1>5. QED
  BY <1>1, <1>2, <1>3, <1>4, Zenon DEF s, DropState

LEMMA DropLoses ==
  ASSUME NEW D, NEW out, NEW a, a[1] \notin D.valued, a \in D.bare \/ a[1] \in D.prefixed
  PROVE  DropStep(DropState(D, out), a) = DropState(D, out)
<1> DEFINE s == DropState(D, out)
<1>1. ~s.skip /\ s.drop = D /\ s.out = out
  BY DEF DropState
<1> HIDE DEF s
<1>2. DropStep(s, a) = s
  BY <1>1, Zenon DEF DropStep
<1>3. QED
  BY <1>2 DEF s

LEMMA FlagExt == ASSUME NEW a, a[1] # "" PROVE Ext(a) = ""
BY Zenon DEF Ext, IsWord

LEMMA OtherExt ==
  ASSUME NEW a, ~IsFile(a), ~isInputFile(a)
  PROVE  Ext(a) \notin InputExts \cup {".m", ".mm"}
<1>1. Ext(a) \notin InputExts
  BY DEF isInputFile
<1>2. Ext(a) = ".m" => LowerExt(a) = ".m"
  BY Zenon DEF LowerExt
<1>3. Ext(a) = ".mm" => LowerExt(a) = ".mm"
  BY Zenon DEF LowerExt
<1>4. LowerExt(a) # ".m" /\ LowerExt(a) # ".mm"
  BY DEF IsFile, isSourceFile
<1>5. QED
  BY <1>1, <1>2, <1>3, <1>4, Zenon

LEMMA DropItem ==
  ASSUME NEW D, Harmless(D), NEW out \in Seq(Arg), NEW i \in KeptItems
  PROVE  Dropping!Run(DropState(D, out), i)
           = DropState(D, IF i = <<Flag("-c")>> /\ Flag("-c") \in D.bare THEN out ELSE out \o i)
<1>0. \A x : x \in D.exts => x # ""
  BY DEF Harmless, InputExts
<1>1. CASE \E a \in Arg : i = <<a>> /\ Plain(a)
  <2>1. PICK a \in Arg : i = <<a>> /\ Plain(a)
    BY <1>1
  <2>2. a[1] \notin {"", "-I", "-D", "-o"}
    BY <2>1, Zenon DEF Plain, IsLoneFlag, IsWord, Taken
  <2>3. a[1] \notin D.valued /\ a[1] \notin D.prefixed /\ Ext(a) \notin D.exts
    BY <1>0, <2>2, FlagExt, Zenon DEF Harmless
  <2>4. Dropping!Run(DropState(D, out), i) = DropStep(DropState(D, out), a)
    BY <2>1, Dropping!RunOne
  <2>5. i = <<Flag("-c")>> <=> a = Flag("-c")
    BY <2>1
  <2>6. CASE a \in D.bare
    <3>1. a = Flag("-c")
      BY <2>6, Zenon DEF Harmless
    <3>2. DropStep(DropState(D, out), a) = DropState(D, out)
      BY <2>3, <2>6, DropLoses, Zenon
    <3>3. QED
      BY <2>4, <2>5, <2>6, <3>1, <3>2, Zenon
  <2>7. CASE a \notin D.bare
    <3>1. DropStep(DropState(D, out), a) = DropState(D, Append(out, a))
      BY <2>3, <2>7, DropKeeps, Zenon
    <3>2. out \o i = Append(out, a)
      BY <2>1, ConcatOne
    <3>3. QED
      BY <2>4, <2>5, <2>7, <3>1, <3>2, Zenon
  <2>8. QED
    BY <2>6, <2>7
<1>2. CASE \E f, v \in Text : /\ f \in Unknown /\ v # "" /\ i = <<Flag(f), Word(v)>>
                              /\ ~IsFile(Word(v)) /\ ~isInputFile(Word(v))
                              /\ Flag(f) \in Arg /\ Word(v) \in Arg
  <2>1. PICK f, v \in Text : /\ f \in Unknown /\ v # "" /\ i = <<Flag(f), Word(v)>>
                             /\ ~IsFile(Word(v)) /\ ~isInputFile(Word(v))
                             /\ Flag(f) \in Arg /\ Word(v) \in Arg
    BY <1>2
  <2> DEFINE x == Flag(f)
             y == Word(v)
  <2>2. x[1] \notin {"", "-c", "-I", "-D", "-o"} /\ y[1] = "" /\ x \in Arg /\ y \in Arg /\ i = <<x, y>>
    BY <2>1, FlagIs, WordIs, Zenon DEF Unknown
  <2>3. Ext(y) \notin InputExts \cup {".m", ".mm"}
    BY <2>1, OtherExt
  <2>4. Flag("-c")[1] = "-c"
    BY FlagIs
  <2> HIDE DEF x, y
  <2>5. x[1] \notin D.valued /\ x[1] \notin D.prefixed /\ x \notin D.bare /\ Ext(x) \notin D.exts
    BY <1>0, <2>2, <2>4, FlagExt, Zenon DEF Harmless
  <2>6. y[1] \notin D.valued /\ y[1] \notin D.prefixed /\ y \notin D.bare /\ Ext(y) \notin D.exts
    BY <2>2, <2>3, <2>4, Zenon DEF Harmless
  <2>7. DropStep(DropStep(DropState(D, out), x), y) = DropState(D, Append(Append(out, x), y))
    <3>1. DropStep(DropState(D, out), x) = DropState(D, Append(out, x))
      BY <2>5, DropKeeps, Zenon
    <3>2. DropStep(DropState(D, Append(out, x)), y) = DropState(D, Append(Append(out, x), y))
      BY <2>6, DropKeeps, Zenon
    <3>3. QED
      BY <3>1, <3>2, Zenon
  <2>8. Dropping!Run(DropState(D, out), <<x, y>>) = DropStep(DropStep(DropState(D, out), x), y)
    BY Dropping!RunTwo
  <2>9. out \o i = Append(Append(out, x), y)
    <3>1. x \in Arg /\ y \in Arg
      BY <2>2
    <3>2. out \o <<x, y>> = Append(Append(out, x), y)
      BY <3>1, ConcatTwo
    <3>3. QED
      BY <2>2, <3>2, Zenon
  <2>10. i # <<Flag("-c")>>
    <3>1. i[1] = x
      BY <2>2
    <3>2. QED
      BY <2>2, <2>4, <3>1
  <2>11. QED
    BY <2>2, <2>7, <2>8, <2>9, <2>10, Zenon
<1>3. QED
  BY <1>1, <1>2, KeptAre, Zenon DEF KeptItem

LEMMA KeptMean ==
  ASSUME NEW b, GoodM(b), NEW k \in Seq(KeptItems)
  PROVE  /\ GoodM(MeantFrom(b, k)) /\ Args(k) \in Seq(Arg)
         /\ \A i \in KeptItems : MeantFrom(b, Append(k, i)) = MeanItem(MeantFrom(b, k), i)
<1>1. KeptItems \subseteq Seq(Arg) /\ \A i \in KeptItems : Complete(i)
  BY KeptAre
<1>2. QED
  BY <1>1, MeantGrows, ArgsAre

(* Once -c is given, dropping the others changes nothing. *)
LEMMA DropMeans ==
  ASSUME NEW D, Harmless(D), NEW b, GoodM(b), "-c" \in b.stages, NEW k \in Seq(KeptItems)
  PROVE  /\ Without(Args(k), D) \in Seq(Arg)
         /\ Meaningful!Run(b, Without(Args(k), D)) = MeantFrom(b, k)
         /\ "-c" \in MeantFrom(b, k).stages
         /\ Flag("-c") \notin D.bare => Without(Args(k), D) = Args(k)
<1> DEFINE Good(t, w) == /\ w \in Seq(Arg)
                         /\ Dropping!Run(DropState(D, <<>>), Args(t)) = DropState(D, w)
                         /\ Meaningful!Run(b, w) = MeantFrom(b, t)
                         /\ "-c" \in MeantFrom(b, t).stages
                         /\ Flag("-c") \notin D.bare => w = Args(t)
           G == {t \in Seq(KeptItems) : \E w : Good(t, w)}
<1>1. <<>> \in G
  <2>1. <<>> \in Seq(KeptItems) /\ <<>> \in Seq(Arg)
    OBVIOUS
  <2>2. Dropping!Run(DropState(D, <<>>), <<>>) = DropState(D, <<>>)
    BY Dropping!RunEmpty
  <2>3. Meaningful!Run(b, <<>>) = b
    BY Meaningful!RunEmpty
  <2>4. Good(<<>>, <<>>)
    BY <2>1, <2>2, <2>3, ArgsEmpty, MeantStart, Zenon
  <2> HIDE DEF Good
  <2>5. QED
    BY <2>1, <2>4
<1>2. ASSUME NEW t \in Seq(KeptItems), NEW i \in KeptItems, t \in G PROVE Append(t, i) \in G
  <2>1. Append(t, i) \in Seq(KeptItems)
    OBVIOUS
  <2>2. PICK w : Good(t, w)
    BY <1>2
  <2>3. i \in Seq(Arg) /\ Complete(i) /\ w \in Seq(Arg)
    BY <2>2, KeptAre
  <2>4. Args(Append(t, i)) = Args(t) \o i /\ Args(t) \in Seq(Arg)
    BY ArgsGrow, KeptMean
  <2>5. Dropping!Run(DropState(D, <<>>), Args(t) \o i)
          = Dropping!Run(Dropping!Run(DropState(D, <<>>), Args(t)), i)
    BY <2>3, <2>4, Dropping!RunConcat
  <2> DEFINE gone == i = <<Flag("-c")>> /\ Flag("-c") \in D.bare
             m == MeantFrom(b, t)
  <2>6. Dropping!Run(DropState(D, <<>>), Args(Append(t, i))) = DropState(D, IF gone THEN w ELSE w \o i)
    BY <2>2, <2>3, <2>4, <2>5, DropItem, Zenon
  <2>7. GoodM(m) /\ MeantFrom(b, Append(t, i)) = MeanItem(m, i)
    BY KeptMean, Zenon
  <2>8. "-c" \in MeanItem(m, i).stages
    <3> DEFINE q == MeanItem(m, i)
    <3>1. q.stages = IF Name(i) \in {"-c", "-S", "-E"} THEN m.stages \cup {Name(i)} ELSE m.stages
      BY MeanItemFields, Zenon
    <3>2. "-c" \in m.stages
      BY <2>2
    <3> HIDE DEF q, m
    <3>3. "-c" \in q.stages
      BY <3>1, <3>2, Zenon
    <3>4. QED
      BY <3>3 DEF q
  <2>9. CASE gone
    <3>1. Name(i) = "-c" /\ i[1] = Flag("-c")
      BY <2>9, OneIs, FlagIs, Zenon
    <3> DEFINE q == MeanItem(m, i)
    <3>2. q = m
      <4>1. /\ q.inputs = IF Name(i) = "" THEN Append(m.inputs, <<i[1], m.lang>>) ELSE m.inputs
            /\ q.output = IF Name(i) = "-o" THEN Val(i) ELSE m.output
            /\ q.lang = IF Name(i) = "-x" THEN Val(i) ELSE m.lang
            /\ q.stages = IF Name(i) \in {"-c", "-S", "-E"} THEN m.stages \cup {Name(i)} ELSE m.stages
            /\ q.dirs = IF Name(i) \in {"-I", "-isystem"} THEN Append(m.dirs, <<Name(i), Val(i)>>) ELSE m.dirs
            /\ q.forced = IF Name(i) = "-include" THEN Append(m.forced, Val(i)) ELSE m.forced
            /\ q.macros = IF Name(i) \in {"-D", "-U"} THEN Set(m.macros, Val(i), Name(i)) ELSE m.macros
            /\ q.deps = IF Name(i) \in {"-MF", "-MT"} THEN Append(m.deps, <<Name(i), Val(i)>>) ELSE m.deps
            /\ q.settings = IF IsSetting(i) THEN Set(m.settings, SettingOf(i[1]), i[1]) ELSE m.settings
            /\ GoodM(q)
        BY MeanItemFields, Zenon
      <4>2. ~IsSetting(i)
        BY <3>1, Zenon DEF IsSetting
      <4>3. "-c" \in m.stages
        BY <2>2
      <4> HIDE DEF q, m
      <4>4. m.stages \cup {"-c"} = m.stages
        BY <4>3
      <4>5. /\ q.inputs = m.inputs /\ q.output = m.output /\ q.lang = m.lang /\ q.stages = m.stages
            /\ q.dirs = m.dirs /\ q.forced = m.forced /\ q.macros = m.macros /\ q.deps = m.deps
            /\ q.settings = m.settings
        BY <3>1, <4>1, <4>2, <4>4, Zenon
      <4>6. q.pending = m.pending /\ IsM(q) /\ IsM(m)
        BY <2>7, <4>1, Zenon DEF GoodM
      <4>7. QED
        BY <4>5, <4>6, Zenon DEF IsM
    <3>3. Good(Append(t, i), w)
      BY <2>2, <2>3, <2>6, <2>7, <2>8, <2>9, <3>2, Zenon
    <3> HIDE DEF Good
    <3>4. QED
      BY <2>1, <3>3
  <2>10. CASE ~gone
    <3>1. w \o i \in Seq(Arg)
      BY <2>3
    <3>2. Meaningful!Run(b, w) = m
      BY <2>2
    <3>3. Meaningful!Run(b, w \o i) = MeanItem(m, i)
      BY <2>3, <2>7, <3>2, MeansConcat, Zenon
    <3>4. Flag("-c") \notin D.bare => w \o i = Args(Append(t, i))
      BY <2>2, <2>4, Zenon
    <3>5. Dropping!Run(DropState(D, <<>>), Args(Append(t, i))) = DropState(D, w \o i)
      BY <2>6, <2>10, Zenon
    <3>6. Good(Append(t, i), w \o i)
      BY <2>7, <2>8, <3>1, <3>3, <3>4, <3>5, Zenon
    <3> HIDE DEF Good
    <3>7. QED
      BY <2>1, <3>6
  <2>11. QED
    BY <2>9, <2>10
<1>3. k \in G
  <2> HIDE DEF G
  <2> QED BY <1>1, <1>2, SeqGrows
<1>4. PICK w : Good(k, w)
  BY <1>3
<1>5. Without(Args(k), D) = w
  <2>1. Without(Args(k), D) = DropState(D, w).out
    BY <1>4, WithoutIs, Zenon
  <2>2. DropState(D, w).out = w
    BY DEF DropState
  <2>3. QED
    BY <2>1, <2>2
<1>6. QED
  BY <1>4, <1>5, Zenon

-----------------------------------------------------------------------------
(***************************************************************************)
(* Parse, and the flags that frame a command.                              *)
(***************************************************************************)

(* Parse only adds the language of the first input file. *)
LEMMA ParseIs ==
  ASSUME NEW u \in Seq(Units), NEW q, q = Parse(Args(u))
  PROVE  LET p == ParsedFrom(NothingParsed, u)
         IN /\ q.compileOnly = p.compileOnly /\ q.preprocess = p.preprocess /\ q.flags = p.flags
            /\ q.inputFiles = p.inputFiles /\ q.includeDirs = p.includeDirs
            /\ q.defines = p.defines /\ q.outputFile = p.outputFile
            /\ q.standard = p.standard /\ q.pending = <<>> /\ IsP(q)
            /\ q.language = IF p.language = "" /\ p.inputFiles # <<>>
                            THEN detectLanguage(p.inputFiles[1]) ELSE p.language
<1> DEFINE p == ParsedFrom(NothingParsed, u)
           l == detectLanguage(p.inputFiles[1])
<1>1. IsP(p) /\ p.pending = <<>>
  BY StartsGood, ParsedGood DEF GoodP
<1>2. q = IF p.language = "" /\ p.inputFiles # <<>> THEN [p EXCEPT !.language = l] ELSE p
  BY ParseRuns, Zenon DEF Parse, ParsedFrom
<1> HIDE DEF p, l
<1>3. CASE p.language = "" /\ p.inputFiles # <<>>
  <2>1. q = P(p.compileOnly, p.preprocess, p.flags, p.inputFiles, p.includeDirs, p.defines, p.outputFile,
            l, p.standard, p.pending)
    BY <1>1, <1>2, <1>3, SetLanguage, Zenon
  <2>2. /\ q.compileOnly = p.compileOnly /\ q.preprocess = p.preprocess /\ q.flags = p.flags
        /\ q.inputFiles = p.inputFiles /\ q.includeDirs = p.includeDirs /\ q.defines = p.defines
        /\ q.outputFile = p.outputFile /\ q.language = l /\ q.standard = p.standard
        /\ q.pending = p.pending /\ IsP(q)
    BY <2>1, PFields
  <2>3. QED
    BY <1>1, <1>3, <2>2, Zenon DEF p, l
<1>4. CASE ~(p.language = "" /\ p.inputFiles # <<>>)
  <2>1. q = p
    BY <1>2, <1>4, Zenon
  <2>2. QED
    BY <1>1, <1>4, <2>1, Zenon DEF p, l
<1>5. QED
  BY <1>3, <1>4

LEMMA StandardIsText ==
  ASSUME NEW u \in Seq(Units)
  PROVE  ParsedFrom(NothingParsed, u).standard \in Text
<1> DEFINE F(t) == ParsedFrom(NothingParsed, t)
           G == {t \in Seq(Units) : F(t).standard \in Text}
<1>1. <<>> \in G
  <2>1. F(<<>>) = NothingParsed /\ NothingParsed.standard = ""
    BY ParsedStart, Zenon DEF NothingParsed
  <2>2. "" \in Text /\ <<>> \in Seq(Units)
    BY DEF Text, Literals
  <2>3. QED
    BY <2>1, <2>2, Zenon
<1>2. ASSUME NEW t \in Seq(Units), NEW i \in Units, t \in G PROVE Append(t, i) \in G
  <2>1. Append(t, i) \in Seq(Units)
    OBVIOUS
  <2>2. F(Append(t, i)) = ParseItem(F(t), i)
    BY StartsGood, ParsedGood, ParsedStep, Zenon
  <2> DEFINE p == F(t)
             q == ParseItem(p, i)
  <2>3. q.standard = IF Name(i) = "-std=" THEN Val(i) ELSE p.standard
    BY ParseItemFields, ZenonT(60)
  <2>4. Name(i) = "-std=" => Val(i) \in Text
    <3>1. SUFFICES ASSUME Name(i) = "-std=" PROVE Val(i) \in Text
      OBVIOUS
    <3>2. IsKept(i) /\ Name(i) \notin Unknown
      BY <3>1, Zenon DEF IsKept, Taken, Unknown
    <3>3. i[1] \in Arg /\ i[1][2] = Val(i)
      BY <3>2, KeptUnits, KeptSetting, Zenon
    <3>4. QED
      BY <3>3, ArgIs, Zenon
  <2>5. q.standard \in Text
    BY <1>2, <2>3, <2>4, Zenon
  <2>6. QED
    BY <2>1, <2>2, <2>5, Zenon
<1>3. u \in G
  <2> HIDE DEF G
  <2> QED BY <1>1, <1>2, SeqGrows
<1>4. QED
  BY <1>3

LEMMA LiteralFlags ==
  /\ Flag("-c") \in Arg /\ Flag("-o") \in Arg /\ Word("source.i") \in Arg /\ Word("output.o") \in Arg
  /\ <<"-I", "includes">> \in Arg /\ <<"-I", "d">> \in Arg
  /\ \A s \in Text : <<"-std=", s>> \in Arg
<1>1. Literals \subseteq Text /\ \A x, y \in Text : <<x, y>> \in Arg
  BY DEF Arg, Text
<1>2. {"", "-c", "-o", "source.i", "output.o", "-I", "includes", "d", "-std="} \subseteq Literals
  BY Zenon DEF Literals
<1> HIDE DEF Literals
<1>3. {"", "-c", "-o", "source.i", "output.o", "-I", "includes", "d", "-std="} \subseteq Text
  BY <1>1, <1>2, Zenon
<1>4. QED
  BY <1>1, <1>3, Zenon DEF Flag, Word

LEMMA CompileFlagKept == <<Flag("-c")>> \in KeptItems
<1>1. Plain(Flag("-c"))
  <2> DEFINE a == Flag("-c")
  <2>1. a[1] = "-c" /\ a[2] = ""
    BY FlagIs, Zenon
  <2> HIDE DEF a
  <2>2. Plain(a)
    BY <2>1, Zenon DEF Plain, IsLoneFlag, IsWord, Taken, SeparateFlags, GccValueFlags
  <2>3. QED
    BY <2>2 DEF a
<1>2. <<Flag("-c")>> \in Seq(Arg)
  BY LiteralFlags
<1>3. QED
  BY <1>1, <1>2, LiteralFlags, Zenon DEF KeptItems, KeptItem

LEMMA StandardKept == ASSUME NEW s \in Text PROVE <<<<"-std=", s>>>> \in KeptItems
<1> DEFINE a == <<"-std=", s>>
<1>1. a[1] = "-std=" /\ a \in Arg
  BY LiteralFlags
<1> HIDE DEF a
<1>2. Plain(a)
  BY <1>1, Zenon DEF Plain, IsLoneFlag, IsWord, Taken, SeparateFlags, GccValueFlags
<1>3. <<a>> \in Seq(Arg)
  BY <1>1
<1>4. <<a>> \in KeptItems
  BY <1>1, <1>2, <1>3, Zenon DEF KeptItems, KeptItem
<1>5. QED
  BY <1>4 DEF a

(* A compilation with nothing but -c. *)
LEMMA CompileStep ==
  ASSUME NEW b, GoodM(b)
  PROVE  LET r == Meaningful!Run(b, <<Flag("-c")>>)
         IN /\ GoodM(r) /\ r.stages = b.stages \cup {"-c"} /\ r.settings = b.settings
            /\ r.deps = b.deps /\ r.inputs = b.inputs /\ r.output = b.output /\ r.lang = b.lang
<1> DEFINE i == <<Flag("-c")>>
           r == MeanItem(b, i)
<1>1. Meaningful!Run(b, i) = r
  BY CompileFlagKept, KeptAre, MeansItem, Zenon DEF GoodM
<1>2. Name(i) = "-c"
  BY OneIs, FlagIs, Zenon
<1>3. ~IsSetting(i)
  BY <1>2, Zenon DEF IsSetting
<1> HIDE DEF i
<1>4. GoodM(r) /\ r.inputs = b.inputs /\ r.output = b.output /\ r.lang = b.lang
  BY <1>2, MeanItemFields, Zenon
<1>5. r.stages = b.stages \cup {"-c"}
  <2>1. r.stages = IF Name(i) \in {"-c", "-S", "-E"} THEN b.stages \cup {Name(i)} ELSE b.stages
    BY MeanItemFields, Zenon
  <2>2. QED
    BY <1>2, <2>1, Zenon
<1>6. r.settings = b.settings
  <2>1. r.settings = IF IsSetting(i) THEN Set(b.settings, SettingOf(i[1]), i[1]) ELSE b.settings
    BY MeanItemFields, ZenonT(60)
  <2>2. QED
    BY <1>3, <2>1, Zenon
<1>7. r.deps = b.deps
  <2>1. r.deps = IF Name(i) \in {"-MF", "-MT"} THEN Append(b.deps, <<Name(i), Val(i)>>) ELSE b.deps
    BY MeanItemFields, ZenonT(60)
  <2>2. QED
    BY <1>2, <2>1, Zenon
<1>8. QED
  BY <1>1, <1>4, <1>5, <1>6, <1>7, Zenon DEF i

IsFun(f) == f = [x \in DOMAIN f |-> f[x]]

LEMMA SettingsAreFun ==
  ASSUME NEW u \in Seq(Units)
  PROVE  IsFun(MeantFrom(NoMeaning, u).settings)
<1> DEFINE W(t) == MeantFrom(NoMeaning, t)
           G == {t \in Seq(Units) : IsFun(W(t).settings)}
<1>1. <<>> \in G
  <2>1. W(<<>>) = NoMeaning /\ NoMeaning.settings = <<>>
    BY MeantStart, Zenon DEF NoMeaning
  <2>2. <<>> \in Seq(Units) /\ IsFun(<<>>)
    BY DEF IsFun
  <2>3. QED
    BY <2>1, <2>2, Zenon
<1>2. ASSUME NEW t \in Seq(Units), NEW i \in Units, t \in G PROVE Append(t, i) \in G
  <2>1. Append(t, i) \in Seq(Units)
    OBVIOUS
  <2>2. W(Append(t, i)) = MeanItem(W(t), i)
    BY StartsGood, UnitsMean, Zenon
  <2> DEFINE m == W(t)
             q == MeanItem(m, i)
  <2>3. q.settings = IF IsSetting(i) THEN Set(m.settings, SettingOf(i[1]), i[1]) ELSE m.settings
    BY MeanItemFields, ZenonT(60)
  <2>4. \A f, k, v : IsFun(Set(f, k, v))
    BY DEF IsFun, Set
  <2>5. IsFun(q.settings)
    BY <1>2, <2>3, <2>4, Zenon
  <2>6. QED
    BY <2>1, <2>2, <2>5, Zenon
<1>3. u \in G
  <2> HIDE DEF G
  <2> QED BY <1>1, <1>2, SeqGrows
<1>4. QED
  BY <1>3

(* The flag that repeats the standard. *)
LEMMA StandardStep ==
  ASSUME NEW b, GoodM(b), NEW s \in Text, Std \in DOMAIN b.settings, b.settings[Std] = <<"-std=", s>>,
         IsFun(b.settings)
  PROVE  LET r == Meaningful!Run(b, <<<<"-std=", s>>>>)
         IN /\ GoodM(r) /\ r.stages = b.stages /\ r.settings = b.settings
            /\ r.deps = b.deps /\ r.inputs = b.inputs /\ r.output = b.output /\ r.lang = b.lang
<1> DEFINE a == <<"-std=", s>>
           i == <<a>>
           r == MeanItem(b, i)
<1>1. Meaningful!Run(b, i) = r
  BY StandardKept, KeptAre, MeansItem, Zenon DEF GoodM
<1>2. a[1] = "-std="
  OBVIOUS
<1> HIDE DEF a
<1>3. Name(i) = "-std=" /\ i[1] = a
  BY <1>2, OneIs, Zenon
<1>4. IsSetting(i)
  BY <1>3, Zenon DEF IsSetting, GccValueFlags
<1> HIDE DEF i
<1>5. GoodM(r) /\ r.inputs = b.inputs /\ r.output = b.output /\ r.lang = b.lang
  BY <1>3, MeanItemFields, ZenonT(60)
<1>6. r.stages = b.stages
  <2>1. r.stages = IF Name(i) \in {"-c", "-S", "-E"} THEN b.stages \cup {Name(i)} ELSE b.stages
    BY MeanItemFields, Zenon
  <2>2. QED
    BY <1>3, <2>1, Zenon
<1>7. r.settings = b.settings
  <2>1. r.settings = IF IsSetting(i) THEN Set(b.settings, SettingOf(i[1]), i[1]) ELSE b.settings
    BY MeanItemFields, ZenonT(60)
  <2>2. SettingOf(a) = Std
    BY <1>2, SettingKeys, Zenon DEF Std
  <2>3. r.settings = Set(b.settings, Std, a)
    BY <1>3, <1>4, <2>1, <2>2, Zenon
  <2>4. Set(b.settings, Std, a) = b.settings
    BY DEF Set, a, IsFun
  <2>5. QED
    BY <2>3, <2>4
<1>8. r.deps = b.deps
  <2>1. r.deps = IF Name(i) \in {"-MF", "-MT"} THEN Append(b.deps, <<Name(i), Val(i)>>) ELSE b.deps
    BY MeanItemFields, ZenonT(60)
  <2>2. QED
    BY <1>3, <2>1, Zenon
<1>9. QED
  BY <1>1, <1>5, <1>6, <1>7, <1>8, Zenon DEF i, a

-----------------------------------------------------------------------------
(***************************************************************************)
(* What the client sends.                                                  *)
(***************************************************************************)

LEMMA RunInto ==
  ASSUME NEW b, NEW s \in Seq(Arg), NEW t \in Seq(Arg)
  PROVE  Meaningful!Run(b, s \o t) = Meaningful!Run(Meaningful!Run(b, s), t)
BY Meaningful!RunConcat

LEMMA ArgsJoin == ASSUME NEW s \in Seq(Arg), NEW t \in Seq(Arg) PROVE s \o t \in Seq(Arg)
OBVIOUS

(* What the client sends are the arguments of kept items, and mean what the user *)
(* asked for.                                                                    *)
Asks(k, b, w) ==
  LET m == MeantFrom(b, k)
  IN /\ GoodM(m) /\ m.settings = w.settings /\ m.deps = w.deps
     /\ m.stages = b.stages \cup {"-c"} \cup w.stages
     /\ m.inputs = b.inputs /\ m.output = b.output /\ m.lang = b.lang

Blank(b) == GoodM(b) /\ b.settings = <<>> /\ b.deps = <<>>

LEMMA RemoteRaw ==
  ASSUME NEW u \in Seq(Units), NEW q, q = Parse(Args(u))
  PROVE  \E k \in Seq(KeptItems) :
           /\ Args(k) = buildRemoteArgsForRaw(q)
           /\ \A b : Blank(b) => Asks(k, b, MeantFrom(NoMeaning, u))
           /\ Known(u) => Known(k)
<1> DEFINE p == ParsedFrom(NothingParsed, u)
           w == MeantFrom(NoMeaning, u)
           z == <<<<Flag("-c")>>>>
           fl == FlagsOf(u)
           e == <<>>
<1>1. q.flags = fl /\ q.standard = p.standard
  BY ParseIs, Zenon DEF FlagsOf
<1>2. z \in Seq(KeptItems)
  BY CompileFlagKept
<1>3. Args(z) = <<Flag("-c")>> /\ <<Flag("-c")>> \in Seq(Arg)
  <2> DEFINE i == <<Flag("-c")>>
  <2>1. i \in KeptItems /\ i \in Seq(Arg)
    BY CompileFlagKept, KeptAre
  <2> HIDE DEF i
  <2>2. <<>> \in Seq(KeptItems) /\ Append(<<>>, i) = <<i>> /\ <<>> \o i = i
    BY <2>1
  <2>3. Args(Append(<<>>, i)) = Args(<<>>) \o i
    BY <2>1, <2>2, ArgsGrow
  <2>4. Args(<<i>>) = i
    BY <2>2, <2>3, ArgsEmpty, Zenon
  <2>5. QED
    BY <2>1, <2>4 DEF i
<1>4. PICK k \in Seq(KeptItems) : /\ Args(k) = Args(z) \o fl
                                  /\ Known(z) /\ Known(u) => Known(k)
  <2> HIDE DEF z
  <2> QED BY <1>2, FlagsAreItems
<1>0. Known(z)
  <2> DEFINE i == <<Flag("-c")>>
  <2>1. ~StrayInput(i) /\ z = <<i>>
    BY DEF StrayInput, UnknownValue
  <2> HIDE DEF i, z
  <2>2. QED
    BY <2>1 DEF Known
<1>5. fl \in Seq(Arg) /\ p.standard \in Text
  BY StartsGood, ParsedGood, StandardIsText, Zenon DEF FlagsOf, GoodP
<1>6. Tracks(p, w) /\ IsFun(w.settings)
  BY ParserTracks, SettingsAreFun
<1> HIDE DEF p, w, z, fl
<1>7. ASSUME NEW b, Blank(b) PROVE Asks(k, b, w)
  <2> DEFINE c == Meaningful!Run(b, <<Flag("-c")>>)
             r == Meaningful!Run(c, fl)
  <2>1. /\ GoodM(c) /\ c.stages = b.stages \cup {"-c"} /\ c.settings = <<>> /\ c.deps = <<>>
        /\ c.inputs = b.inputs /\ c.output = b.output /\ c.lang = b.lang
    BY <1>7, CompileStep, Zenon DEF Blank
  <2>2. MeantFrom(b, k) = r
    <3>1. Meaningful!Run(b, <<Flag("-c")>> \o fl) = r
      BY <1>3, <1>5, RunInto
    <3>2. QED
      BY <1>3, <1>4, <3>1, Zenon DEF MeantFrom
  <2>3. /\ GoodM(r) /\ r.settings = w.settings /\ r.deps = w.deps
        /\ r.stages = c.stages \cup w.stages /\ r.inputs = c.inputs /\ r.output = c.output
        /\ r.lang = c.lang
    BY <2>1, FlagsMean, Zenon DEF fl, w
  <2> HIDE DEF c, r
  <2>4. QED
    BY <2>1, <2>2, <2>3, Zenon DEF Asks
<1>8. CASE p.standard = ""
  <2>1. StandardOf(q) = <<>>
    BY <1>1, <1>8, Zenon DEF StandardOf
  <2>2. <<Flag("-c")>> \o fl \in Seq(Arg)
    BY <1>3, <1>5
  <2>3. (<<Flag("-c")>> \o fl) \o <<>> = <<Flag("-c")>> \o fl
    BY <2>2
  <2>4. buildRemoteArgsForRaw(q) = Args(k)
    BY <1>1, <1>3, <1>4, <2>1, <2>3, Zenon DEF buildRemoteArgsForRaw
  <2>5. QED
    BY <1>0, <1>4, <1>7, <2>4 DEF w
<1>9. CASE p.standard # ""
  <2> DEFINE s == p.standard
             i == <<<<"-std=", s>>>>
             k2 == Append(k, i)
  <2>1. StandardOf(q) = i
    BY <1>1, <1>9, Zenon DEF StandardOf
  <2>2. i \in KeptItems
    BY <1>5, StandardKept
  <2>3. k2 \in Seq(KeptItems) /\ Args(k2) = Args(k) \o i
    <3> HIDE DEF i
    <3> QED BY <2>2, ArgsGrow
  <2>4. buildRemoteArgsForRaw(q) = Args(k2)
    BY <1>1, <1>3, <1>4, <2>1, <2>3, Zenon DEF buildRemoteArgsForRaw
  <2>5. ASSUME NEW b, Blank(b) PROVE Asks(k2, b, w)
    <3> DEFINE m == MeantFrom(b, k)
               r == Meaningful!Run(m, i)
    <3>1. /\ GoodM(m) /\ m.settings = w.settings /\ m.deps = w.deps
          /\ m.stages = b.stages \cup {"-c"} \cup w.stages
          /\ m.inputs = b.inputs /\ m.output = b.output /\ m.lang = b.lang
      BY <1>7, <2>5, Zenon DEF Asks
    <3>2. Args(k) \in Seq(Arg) /\ i \in Seq(Arg)
      BY <2>2, <2>5, KeptMean, KeptAre, Zenon DEF Blank
    <3>3. MeantFrom(b, k2) = r
      <4>1. Meaningful!Run(b, Args(k) \o i) = Meaningful!Run(Meaningful!Run(b, Args(k)), i)
        BY <3>2, RunInto
      <4>2. QED
        BY <2>3, <4>1, Zenon DEF MeantFrom
    <3>4. Std \in DOMAIN m.settings /\ m.settings[Std] = <<"-std=", s>> /\ IsFun(m.settings)
      BY <1>6, <1>9, <3>1, Zenon DEF Tracks
    <3>5. /\ GoodM(r) /\ r.stages = m.stages /\ r.settings = m.settings
          /\ r.deps = m.deps /\ r.inputs = m.inputs /\ r.output = m.output /\ r.lang = m.lang
      BY <1>5, <3>1, <3>4, StandardStep, Zenon
    <3> HIDE DEF m, r, k2
    <3>6. QED
      BY <3>1, <3>3, <3>5, Zenon DEF Asks
  <2>6. Known(k2) <=> Known(k) /\ ~StrayInput(i)
    <3> HIDE DEF i
    <3> QED BY <2>2, KnownGrows, Zenon
  <2>7. ~StrayInput(i)
    BY DEF StrayInput, UnknownValue
  <2> HIDE DEF k2, i
  <2>8. QED
    BY <1>0, <1>4, <2>3, <2>4, <2>5, <2>6, <2>7 DEF w
<1>10. QED
  BY <1>8, <1>9

LEMMA DropFields ==
  ASSUME NEW x, NEW y, NEW z, NEW t
  PROVE  /\ Drop(x, y, z, t).bare = x /\ Drop(x, y, z, t).prefixed = y
         /\ Drop(x, y, z, t).valued = z /\ Drop(x, y, z, t).exts = t
BY DEF Drop

LEMMA HarmlessDrop ==
  ASSUME NEW x, NEW y, NEW z, NEW t, x \subseteq {Flag("-c")}, y \subseteq {"-I", "-D"},
         z \subseteq {"-o", "-I"}, t \subseteq InputExts \cup {".m", ".mm"}
  PROVE  Harmless(Drop(x, y, z, t))
<1> DEFINE D == Drop(x, y, z, t)
<1>1. D.bare = x /\ D.prefixed = y /\ D.valued = z /\ D.exts = t
  BY DropFields
<1> HIDE DEF D
<1>2. Harmless(D)
  BY <1>1, Zenon DEF Harmless
<1>3. QED
  BY <1>2 DEF D

(* The preprocessed compilation is sent the same: no flag is an include directory *)
(* or a definition.                                                                *)
LEMMA RemoteSame ==
  ASSUME NEW u \in Seq(Units), NEW q, q = Parse(Args(u))
  PROVE  buildRemoteArgs(q) = buildRemoteArgsForRaw(q)
<1> DEFINE D == Drop({}, {"-I", "-D"}, {}, {})
           b == Meaningful!Run(NoMeaning, <<Flag("-c")>>)
<1>1. q.flags = FlagsOf(u)
  BY ParseIs, Zenon DEF FlagsOf
<1>2. PICK k \in Seq(KeptItems) : Args(k) = Args(<<>>) \o FlagsOf(u)
  <2>1. <<>> \in Seq(KeptItems)
    OBVIOUS
  <2>2. QED
    BY <2>1, FlagsAreItems
<1>3. FlagsOf(u) \in Seq(Arg)
  BY StartsGood, ParsedGood, Zenon DEF FlagsOf, GoodP
<1>4. Args(k) = FlagsOf(u)
  <2>1. <<>> \o FlagsOf(u) = FlagsOf(u)
    BY <1>3
  <2>2. QED
    BY <1>2, <2>1, ArgsEmpty, Zenon
<1>5. Harmless(D)
  BY HarmlessDrop, Zenon
<1>6. GoodM(b) /\ "-c" \in b.stages
  BY StartsGood, CompileStep, Zenon
<1>7. Flag("-c") \notin D.bare
  BY DropFields
<1> HIDE DEF D, b
<1>8. Without(Args(k), D) = Args(k)
  BY <1>5, <1>6, <1>7, DropMeans, Zenon
<1>9. QED
  BY <1>1, <1>4, <1>8, Zenon DEF buildRemoteArgs, buildRemoteArgsForRaw, D

-----------------------------------------------------------------------------
(***************************************************************************)
(* The commands of the gcc executors and of the fallback.                  *)
(***************************************************************************)

(* A command that asks for what w says, on the executor's source and output. *)
Serves(run, w) ==
  LET m == Meaning(run)
  IN /\ m.settings = w.settings /\ m.stages = w.stages /\ m.deps = w.deps
     /\ m.inputs = <<<<Word("source.i"), "">>>> /\ m.output = "output.o"

(* One that does, but for the source and the output. *)
Ready(x, w) ==
  /\ x \in Seq(Arg)
  /\ LET m == Meaningful!Run(NoMeaning, x)
     IN /\ GoodM(m) /\ m.settings = w.settings /\ m.deps = w.deps /\ m.stages = w.stages
        /\ m.inputs = <<>> /\ m.lang = ""

LEMMA Finished ==
  ASSUME NEW x, NEW w, Ready(x, w)
  PROVE  Serves(x \o <<Word("source.i"), Flag("-o"), Word("output.o")>>, w)
<1> DEFINE src == Word("source.i")
           i == <<src>>
           j == <<Flag("-o"), Word("output.o")>>
           m == Meaningful!Run(NoMeaning, x)
           r == MeanItem(m, i)
           s == MeanItem(r, j)
<1>1. x \in Seq(Arg) /\ GoodM(m)
  BY DEF Ready
<1>2. i \in Seq(Arg) /\ j \in Seq(Arg)
  BY LiteralFlags
<1>3. <<src, Flag("-o"), Word("output.o")>> = i \o j
  <2>1. src \in Arg /\ Flag("-o") \in Arg /\ Word("output.o") \in Arg
    BY LiteralFlags
  <2> HIDE DEF src
  <2> QED BY <2>1
<1>4. x \o (i \o j) = (x \o i) \o j /\ x \o i \in Seq(Arg)
  <2> HIDE DEF i, j
  <2> QED BY <1>1, <1>2
<1>5. Name(i) = "" /\ i[1] = src /\ Complete(i)
  <2>1. src[1] = ""
    BY WordIs
  <2>2. src[1] \notin GccValueFlags
    BY <2>1, Zenon DEF GccValueFlags
  <2>3. Name(i) = "" /\ i[1] = src
    BY <2>1, OneIs, Zenon
  <2>4. Complete(i)
    BY <2>2, Zenon DEF Complete
  <2>5. QED
    BY <2>3, <2>4
<1>6. Name(j) = "-o" /\ Val(j) = "output.o" /\ Complete(j)
  <2>1. Name(j) = "-o" /\ Val(j) = "output.o"
    BY PairIs
  <2>2. "-o" \in GccValueFlags
    BY Zenon DEF GccValueFlags
  <2>3. Complete(j)
    BY <2>2, Zenon DEF Complete
  <2>4. QED
    BY <2>1, <2>3
<1>7. Meaningful!Run(NoMeaning, x \o i) = r /\ GoodM(r)
  BY <1>1, <1>2, <1>5, MeansConcat, Zenon
<1>8. Meaningful!Run(NoMeaning, (x \o i) \o j) = s
  <2> HIDE DEF i, j, r
  <2> QED BY <1>2, <1>4, <1>6, <1>7, MeansConcat, Zenon
<1>9. Meaning(x \o <<src, Flag("-o"), Word("output.o")>>) = s
  BY <1>3, <1>4, <1>8, MeaningRuns, Zenon DEF Meaning
<1>10. r.settings = m.settings /\ r.deps = m.deps /\ r.stages = m.stages
       /\ r.inputs = Append(m.inputs, <<src, m.lang>>)
  <2> HIDE DEF i, m
  <2>0. ~IsSetting(i)
    BY <1>5, Zenon DEF IsSetting
  <2>1. r.settings = IF IsSetting(i) THEN Set(m.settings, SettingOf(i[1]), i[1]) ELSE m.settings
    BY MeanItemFields, ZenonT(60)
  <2>2. r.stages = IF Name(i) \in {"-c", "-S", "-E"} THEN m.stages \cup {Name(i)} ELSE m.stages
    BY MeanItemFields, Zenon
  <2>3. r.deps = IF Name(i) \in {"-MF", "-MT"} THEN Append(m.deps, <<Name(i), Val(i)>>) ELSE m.deps
    BY MeanItemFields, Zenon
  <2>4. r.inputs = IF Name(i) = "" THEN Append(m.inputs, <<i[1], m.lang>>) ELSE m.inputs
    BY MeanItemFields, Zenon
  <2>5. QED
    BY <1>5, <2>0, <2>1, <2>2, <2>3, <2>4, Zenon
<1>11. s.settings = r.settings /\ s.deps = r.deps /\ s.stages = r.stages /\ s.inputs
          = r.inputs /\ s.output = "output.o"
  <2> HIDE DEF i, m, r, j
  <2>0. ~IsSetting(j)
    BY <1>6, Zenon DEF IsSetting, GccValueFlags
  <2>1. s.settings = IF IsSetting(j) THEN Set(r.settings, SettingOf(j[1]), j[1]) ELSE r.settings
    BY MeanItemFields, ZenonT(60)
  <2>2. s.stages = IF Name(j) \in {"-c", "-S", "-E"} THEN r.stages \cup {Name(j)} ELSE r.stages
    BY MeanItemFields, Zenon
  <2>3. s.deps = IF Name(j) \in {"-MF", "-MT"} THEN Append(r.deps, <<Name(j), Val(j)>>) ELSE r.deps
    BY MeanItemFields, Zenon
  <2>4. s.inputs = IF Name(j) = "" THEN Append(r.inputs, <<j[1], r.lang>>) ELSE r.inputs
    BY MeanItemFields, Zenon
  <2>5. s.output = IF Name(j) = "-o" THEN Val(j) ELSE r.output
    BY MeanItemFields, Zenon
  <2>6. QED
    BY <1>6, <2>0, <2>1, <2>2, <2>3, <2>4, <2>5, Zenon
<1>12. m.settings = w.settings /\ m.deps = w.deps /\ m.stages = w.stages /\ m.inputs = <<>>
       /\ m.lang = ""
  BY DEF Ready
<1>13. Append(<<>>, <<src, "">>) = <<<<src, "">>>>
  <2> DEFINE y == <<src, "">>
  <2> HIDE DEF y
  <2>1. Append(<<>>, y) = <<y>>
    OBVIOUS
  <2>2. QED
    BY <2>1 DEF y
<1> HIDE DEF i, m, r, j, s, src
<1>14. s.inputs = <<<<src, "">>>>
  BY <1>10, <1>11, <1>12, <1>13, Zenon
<1>15. QED
  BY <1>9, <1>10, <1>11, <1>12, <1>14, Zenon DEF Serves, src

LEMMA RunDropped ==
  ASSUME NEW k \in Seq(KeptItems), NEW pre \in Seq(Arg),
         NEW b, b = Meaningful!Run(NoMeaning, pre), GoodM(b), b.stages = {"-c"},
         NEW D, Harmless(D)
  PROVE  LET y == Without(Args(k), D)
         IN y \in Seq(Arg) /\ pre \o y \in Seq(Arg) /\ Meaningful!Run(NoMeaning, pre \o y) = MeantFrom(b, k)
<1> DEFINE y == Without(Args(k), D)
           m == MeantFrom(b, k)
<1>1. y \in Seq(Arg) /\ Meaningful!Run(b, y) = m
  BY DropMeans, Zenon
<1> HIDE DEF y, m
<1>2. pre \o y \in Seq(Arg)
  BY <1>1
<1>3. Meaningful!Run(NoMeaning, pre \o y) = m
  BY <1>1, RunInto, Zenon
<1>4. QED
  BY <1>1, <1>2, <1>3, Zenon DEF y, m

LEMMA ReadyDropped ==
  ASSUME NEW w, "-c" \in w.stages, NEW k \in Seq(KeptItems), \A b : Blank(b) => Asks(k, b, w),
         NEW pre \in Seq(Arg), NEW b, b = Meaningful!Run(NoMeaning, pre), Blank(b),
         b.stages = {"-c"}, b.inputs = <<>>, b.lang = "", NEW D, Harmless(D)
  PROVE  Ready(pre \o Without(Args(k), D), w)
<1> DEFINE y == Without(Args(k), D)
           m == MeantFrom(b, k)
<1>1. GoodM(b)
  BY Zenon DEF Blank
<1>2. Asks(k, b, w)
  BY Zenon
<1>3. pre \o y \in Seq(Arg) /\ Meaningful!Run(NoMeaning, pre \o y) = m
  BY <1>1, RunDropped, Zenon
<1> HIDE DEF y
<1>5. m.stages = w.stages
  <2>1. m.stages = b.stages \cup {"-c"} \cup w.stages
    BY <1>2, Zenon DEF Asks
  <2> HIDE DEF m
  <2>2. QED
    BY <2>1
<1>6. Ready(pre \o y, w)
  BY <1>2, <1>3, <1>5, Zenon DEF Ready, Asks
<1>7. QED
  BY <1>6 DEF y

(* The same when nothing is dropped. *)
LEMMA ReadyAsIs ==
  ASSUME NEW w, "-c" \in w.stages, NEW k \in Seq(KeptItems), \A b : Blank(b) => Asks(k, b, w)
  PROVE  Ready(Args(k), w) /\ Ready(Args(k) \o <<Flag("-c")>>, w)
<1> DEFINE m == Meaningful!Run(NoMeaning, Args(k))
           r == Meaningful!Run(m, <<Flag("-c")>>)
<1>0. Blank(NoMeaning)
  BY StartsGood, Zenon DEF Blank, NoMeaning
<1>1. /\ Blank(NoMeaning) /\ NoMeaning.inputs = <<>> /\ NoMeaning.stages = {} /\ NoMeaning.lang = ""
  BY <1>0, Zenon DEF NoMeaning
<1>2. Asks(k, NoMeaning, w)
  BY <1>0, Zenon
<1>3. GoodM(m) /\ m.settings = w.settings /\ m.deps = w.deps /\ m.inputs = <<>> /\ m.lang = ""
  BY <1>1, <1>2, Zenon DEF Asks, MeantFrom
<1>4. m.stages = {} \cup {"-c"} \cup w.stages
  BY <1>1, <1>2, Zenon DEF Asks, MeantFrom
<1>5. Args(k) \in Seq(Arg) /\ <<Flag("-c")>> \in Seq(Arg)
  BY <1>0, KeptMean, LiteralFlags DEF Blank
<1>6. Meaningful!Run(NoMeaning, Args(k) \o <<Flag("-c")>>) = r
  BY <1>5, RunInto
<1> HIDE DEF m
<1>7. m.stages = w.stages
  BY <1>4
<1>8. /\ GoodM(r) /\ r.stages = m.stages \cup {"-c"} /\ r.settings = m.settings
      /\ r.deps = m.deps /\ r.inputs = m.inputs /\ r.lang = m.lang
  BY <1>3, CompileStep, Zenon
<1> HIDE DEF r
<1>9. r.stages = w.stages
  BY <1>7, <1>8
<1>10. Args(k) \o <<Flag("-c")>> \in Seq(Arg)
  BY <1>5
<1>11. Ready(Args(k), w)
  BY <1>3, <1>5, <1>7, Zenon DEF Ready, m
<1>12. Ready(Args(k) \o <<Flag("-c")>>, w)
  BY <1>3, <1>6, <1>8, <1>9, <1>10, Zenon DEF Ready
<1>13. QED
  BY <1>11, <1>12

(* An include directory changes nothing else. *)
LEMMA DirStep ==
  ASSUME NEW b, GoodM(b), NEW d \in Text, d # "", <<"-I", d>> \in Arg
  PROVE  LET r == Meaningful!Run(b, <<<<"-I", d>>>>)
         IN /\ GoodM(r) /\ r.stages = b.stages /\ r.settings = b.settings
            /\ r.deps = b.deps /\ r.inputs = b.inputs /\ r.output = b.output /\ r.lang = b.lang
<1> DEFINE a == <<"-I", d>>
           i == <<a>>
           r == MeanItem(b, i)
<1>1. a[1] = "-I" /\ a[2] = d
  OBVIOUS
<1> HIDE DEF a
<1>2. Complete(i)
  BY <1>1, Zenon DEF Complete
<1>3. Meaningful!Run(b, i) = r
  BY <1>2, MeansItem, Zenon DEF GoodM
<1>4. Name(i) = "-I"
  BY <1>1, OneIs, Zenon
<1>5. ~IsSetting(i)
  BY <1>4, Zenon DEF IsSetting, GccValueFlags
<1> HIDE DEF i
<1>6. GoodM(r) /\ r.inputs = b.inputs /\ r.output = b.output /\ r.lang = b.lang
  BY <1>4, MeanItemFields, Zenon
<1>7. r.stages = b.stages
  <2>1. r.stages = IF Name(i) \in {"-c", "-S", "-E"} THEN b.stages \cup {Name(i)} ELSE b.stages
    BY MeanItemFields, Zenon
  <2>2. QED
    BY <1>4, <2>1, Zenon
<1>8. r.settings = b.settings
  <2>1. r.settings = IF IsSetting(i) THEN Set(b.settings, SettingOf(i[1]), i[1]) ELSE b.settings
    BY MeanItemFields, ZenonT(60)
  <2>2. QED
    BY <1>5, <2>1, Zenon
<1>9. r.deps = b.deps
  <2>1. r.deps = IF Name(i) \in {"-MF", "-MT"} THEN Append(b.deps, <<Name(i), Val(i)>>) ELSE b.deps
    BY MeanItemFields, Zenon
  <2>2. QED
    BY <1>4, <2>1, Zenon
<1>10. QED
  BY <1>3, <1>6, <1>7, <1>8, <1>9, Zenon DEF i, a

(* What comes before the user's flags in a command: -c, then perhaps the include *)
(* directory of the bundled headers.                                             *)
Opens(pre) ==
  /\ pre \in Seq(Arg) /\ Blank(Meaningful!Run(NoMeaning, pre))
  /\ Meaningful!Run(NoMeaning, pre).stages = {"-c"} /\ Meaningful!Run(NoMeaning, pre).inputs = <<>>
  /\ Meaningful!Run(NoMeaning, pre).lang = ""

LEMMA Openings ==
  /\ Opens(<<Flag("-c")>>)
  /\ \A d \in {"includes", "d"} : Opens(<<Flag("-c")>> \o <<<<"-I", d>>>>)
<1> DEFINE c == <<Flag("-c")>>
           b == Meaningful!Run(NoMeaning, c)
<1>1. c \in Seq(Arg)
  BY LiteralFlags
<1>2. GoodM(NoMeaning) /\ NoMeaning.settings = <<>> /\ NoMeaning.deps = <<>> /\ NoMeaning.inputs = <<>>
      /\ NoMeaning.stages = {} /\ NoMeaning.lang = ""
  BY StartsGood, Zenon DEF NoMeaning
<1>3. GoodM(b) /\ b.settings = <<>> /\ b.deps = <<>> /\ b.inputs = <<>> /\ b.stages = {} \cup {"-c"}
      /\ b.lang = ""
  BY <1>2, CompileStep, Zenon
<1> HIDE DEF b
<1>4. b.stages = {"-c"}
  BY <1>3
<1>5. Opens(c)
  BY <1>1, <1>3, <1>4, Zenon DEF Opens, Blank, b
<1>6. ASSUME NEW d \in {"includes", "d"} PROVE Opens(c \o <<<<"-I", d>>>>)
  <2> DEFINE i == <<<<"-I", d>>>>
             r == Meaningful!Run(b, i)
  <2>1. d # "" /\ <<"-I", d>> \in Arg
    BY LiteralFlags, Zenon
  <2>2. d \in Text
    <3> DEFINE a == <<"-I", d>>
    <3>1. a[2] = d /\ a \in Arg
      BY <2>1
    <3> HIDE DEF a
    <3>2. QED
      BY <3>1, ArgIs, Zenon
  <2>3. GoodM(r) /\ r.stages = b.stages /\ r.settings = b.settings /\ r.deps = b.deps /\ r.inputs = b.inputs
        /\ r.lang = b.lang
    BY <1>3, <2>1, <2>2, DirStep, Zenon
  <2>4. i \in Seq(Arg)
    <3> DEFINE a == <<"-I", d>>
    <3>1. a \in Arg
      BY <2>1
    <3> HIDE DEF a
    <3>2. <<a>> \in Seq(Arg)
      BY <3>1
    <3>3. QED
      BY <3>2 DEF a
  <2> HIDE DEF i, c
  <2>5. c \o i \in Seq(Arg)
    BY <1>1, <2>4
  <2>6. Meaningful!Run(NoMeaning, c \o i) = r
    BY <1>1, <2>4, RunInto, Zenon DEF b
  <2> HIDE DEF r
  <2>7. Opens(c \o i)
    BY <1>3, <1>4, <2>3, <2>5, <2>6, Zenon DEF Opens, Blank
  <2>8. QED
    BY <2>7 DEF i, c
<1>7. QED
  BY <1>5, <1>6

LEMMA ServesAfter ==
  ASSUME NEW w, "-c" \in w.stages, NEW k \in Seq(KeptItems), \A b : Blank(b) => Asks(k, b, w),
         NEW pre, Opens(pre), NEW D, Harmless(D)
  PROVE  Serves(pre \o Without(Args(k), D) \o <<Word("source.i"), Flag("-o"), Word("output.o")>>, w)
<1> DEFINE b == Meaningful!Run(NoMeaning, pre)
<1>1. pre \in Seq(Arg) /\ Blank(b) /\ b.stages = {"-c"} /\ b.inputs = <<>> /\ b.lang = ""
  BY DEF Opens
<1>2. Ready(pre \o Without(Args(k), D), w)
  <2> HIDE DEF b
  <2> QED BY <1>1, ReadyDropped, Zenon DEF b
<1>3. QED
  BY <1>2, Finished

LEMMA NothingDropped ==
  ASSUME NEW k \in Seq(KeptItems), NEW D, Harmless(D), Flag("-c") \notin D.bare
  PROVE  Without(Args(k), D) = Args(k)
<1> DEFINE b == Meaningful!Run(NoMeaning, <<Flag("-c")>>)
<1>1. GoodM(b) /\ "-c" \in b.stages
  BY StartsGood, CompileStep, Zenon
<1> HIDE DEF b
<1>2. QED
  BY <1>1, DropMeans, Zenon

(* Every gcc command serves what the user asked for. *)
LEMMA GccServes ==
  ASSUME NEW w, "-c" \in w.stages, NEW k \in Seq(KeptItems), \A b : Blank(b) => Asks(k, b, w)
  PROVE  /\ Serves(buildArgs(Args(k), Word("source.i"), "output.o"), w)
         /\ Serves(rawArgs(Args(k), Word("source.i"), "output.o", TRUE), w)
         /\ Serves(buildCommand(Args(k), Word("source.i"), "output.o"), w)
         /\ Serves(buildRawCommand(Args(k), Word("source.i"), "output.o", <<"d">>), w)
         /\ Serves(fallbackArgs(Args(k), Word("source.i"), "output.o"), w)
<1> DEFINE c == Flag("-c")
           tail == <<Word("source.i"), Flag("-o"), Word("output.o")>>
           a == Args(k)
           D1 == Drop({}, {}, {"-o"}, InputExts)
           D2 == Drop({c}, {}, {"-o"}, InputExts)
           D3 == Drop({c}, {"-I"}, {"-o", "-I"}, InputExts)
           D4 == Drop({}, {}, {"-o"}, InputExts \cup {".m", ".mm"})
<1>1. Harmless(D1) /\ Harmless(D2) /\ Harmless(D3) /\ Harmless(D4)
  BY HarmlessDrop, Zenon
<1>2. c \notin D1.bare /\ c \notin D4.bare
  <2>1. D1.bare = {} /\ D4.bare = {}
    BY DropFields
  <2> HIDE DEF c, D1, D4
  <2>2. QED
    BY <2>1, Zenon
<1>3. Without(a, D1) = a /\ Without(a, D4) = a
  <2> HIDE DEF D1, D4
  <2> QED BY <1>1, <1>2, NothingDropped, Zenon
<1>4. a \in Seq(Arg)
  BY StartsGood, KeptMean, Zenon
<1>5. Serves(buildArgs(a, Word("source.i"), "output.o"), w)
  <2>1. buildArgs(a, Word("source.i"), "output.o")
          = a \o (IF c \in Range(a) THEN <<>> ELSE <<c>>) \o tail
    BY <1>3, Zenon DEF buildArgs
  <2>2. a \o <<>> = a
    <3> HIDE DEF a
    <3> QED BY <1>4
  <2>3. Ready(a \o (IF c \in Range(a) THEN <<>> ELSE <<c>>), w)
    BY <2>2, ReadyAsIs, Zenon
  <2>4. QED
    BY <2>1, <2>3, Finished, Zenon
<1>6. Serves(rawArgs(a, Word("source.i"), "output.o", TRUE), w)
  <2> DEFINE pre == <<c>> \o <<<<"-I", "includes">>>>
  <2>1. rawArgs(a, Word("source.i"), "output.o", TRUE) = pre \o Without(a, D2) \o tail
    BY Zenon DEF rawArgs
  <2>2. Opens(pre)
    BY Openings, Zenon
  <2> HIDE DEF pre, D2
  <2>3. QED
    BY <1>1, <2>1, <2>2, ServesAfter, Zenon
<1>7. Serves(buildCommand(a, Word("source.i"), "output.o"), w)
  <2>1. buildCommand(a, Word("source.i"), "output.o") = <<c>> \o Without(a, D2) \o tail
    BY Zenon DEF buildCommand
  <2>2. Opens(<<c>>)
    BY Openings, Zenon
  <2> HIDE DEF c, D2
  <2>3. QED
    BY <1>1, <2>1, <2>2, ServesAfter, Zenon
<1>8. Serves(buildRawCommand(a, Word("source.i"), "output.o", <<"d">>), w)
  <2> DEFINE v == <<"d">>
             inc == [i \in 1..Len(v) |-> <<"-I", v[i]>>]
             pre == <<c>> \o <<<<"-I", "d">>>>
  <2>1. inc = <<<<"-I", "d">>>>
    <3>1. Len(v) = 1 /\ v[1] = "d"
      OBVIOUS
    <3> HIDE DEF v
    <3> QED BY <3>1
  <2>2. buildRawCommand(a, Word("source.i"), "output.o", v) = <<c>> \o inc \o Without(a, D3) \o tail
    BY Zenon DEF buildRawCommand
  <2>3. buildRawCommand(a, Word("source.i"), "output.o", v) = pre \o Without(a, D3) \o tail
    <3> HIDE DEF inc
    <3> QED BY <2>1, <2>2, Zenon
  <2>4. Opens(pre)
    BY Openings, Zenon
  <2> HIDE DEF pre, D3
  <2>5. QED
    BY <1>1, <2>3, <2>4, ServesAfter, Zenon
<1>9. Serves(fallbackArgs(a, Word("source.i"), "output.o"), w)
  <2>1. fallbackArgs(a, Word("source.i"), "output.o")
          = (IF c \in Range(a) THEN <<>> ELSE <<c>>) \o Without(a, D4) \o tail
    BY Zenon DEF fallbackArgs
  <2>2. CASE c \in Range(a)
    <3>1. <<>> \o a = a
      <4> HIDE DEF a
      <4> QED BY <1>4
    <3>2. fallbackArgs(a, Word("source.i"), "output.o") = a \o tail
      BY <1>3, <2>1, <2>2, <3>1, Zenon
    <3>3. Ready(a, w)
      BY ReadyAsIs
    <3>4. QED
      BY <3>2, <3>3, Finished, Zenon
  <2>3. CASE c \notin Range(a)
    <3>1. fallbackArgs(a, Word("source.i"), "output.o") = <<c>> \o Without(a, D4) \o tail
      BY <2>1, <2>3, Zenon
    <3>2. Opens(<<c>>)
      BY Openings, Zenon
    <3> HIDE DEF c, D4
    <3>3. QED
      BY <1>1, <3>1, <3>2, ServesAfter, Zenon
  <2>4. QED
    BY <2>2, <2>3
<1>10. QED
  BY <1>5, <1>6, <1>7, <1>8, <1>9

-----------------------------------------------------------------------------
(***************************************************************************)
(* What the parser collects, and when a command is distributed.            *)
(***************************************************************************)

Files == {a \in Arg : IsFile(a)}
Words == Text \ {""}

LEMMA TakenVal ==
  ASSUME NEW i \in Units, Name(i) \in Taken
  PROVE  Val(i) \in Words
<1>1. ASSUME NEW a \in Arg, i = <<a>>, IsFile(a) PROVE FALSE
  <2>1. a[1] = ""
    BY <1>1, FilesAreWords DEF IsWord
  <2>2. Name(i) = ""
    BY <1>1, <2>1, OneIs, Zenon
  <2>3. QED
    BY <2>2, Zenon DEF Taken
<1>2. ASSUME NEW f \in Text, NEW v \in Text, v # "", i = <<<<f, v>>>> PROVE Val(i) \in Words
  <2>1. <<f, v>>[2] = v
    OBVIOUS
  <2>2. Val(i) = v
    BY <1>2, <2>1, OneIs, Zenon
  <2>3. QED
    BY <1>2, <2>2 DEF Words
<1>3. ASSUME NEW f \in Text, NEW v \in Text, v # "", i = <<Flag(f), Word(v)>> PROVE Val(i) \in Words
  <2>1. Val(i) = v
    BY <1>3, PairIs
  <2>2. QED
    BY <1>3, <2>1 DEF Words
<1>4. ASSUME NEW a \in Arg, i = <<a>>, Plain(a) PROVE FALSE
  <2>1. a[1] \notin Taken
    BY <1>4, Zenon DEF Plain
  <2>2. Name(i) = a[1]
    BY <1>4, OneIs, Zenon
  <2>3. QED
    BY <2>1, <2>2, Zenon
<1>5. QED
  BY <1>1, <1>2, <1>3, <1>4, UnitCases, Zenon

LEMMA FileUnit ==
  ASSUME NEW i \in Units, Name(i) = ""
  PROVE  i[1] \in Files
<1>1. ASSUME NEW a \in Arg, i = <<a>>, IsFile(a) PROVE i[1] \in Files
  <2>1. i[1] = a
    BY <1>1, OneIs, Zenon
  <2>2. QED
    BY <1>1, <2>1 DEF Files
<1>2. ASSUME NEW f \in Text, NEW v \in Text, f \in Taken, i = <<<<f, v>>>> PROVE FALSE
  <2>1. <<f, v>>[1] = f
    OBVIOUS
  <2>2. Name(i) = f
    BY <1>2, <2>1, OneIs, Zenon
  <2>3. QED
    BY <1>2, <2>2, Zenon DEF Taken
<1>3. ASSUME NEW f \in Text, NEW v \in Text, f \in Taken \cup Unknown, i = <<Flag(f), Word(v)>> PROVE FALSE
  <2>1. Name(i) = f
    BY <1>3, PairIs
  <2>2. QED
    BY <1>3, <2>1, Zenon DEF Taken, Unknown
<1>4. ASSUME NEW a \in Arg, i = <<a>>, Plain(a) PROVE FALSE
  <2>1. a[1] # ""
    BY <1>4, Zenon DEF Plain, IsLoneFlag, IsWord
  <2>2. Name(i) = a[1]
    BY <1>4, OneIs, Zenon
  <2>3. QED
    BY <2>1, <2>2, Zenon
<1>5. QED
  BY <1>1, <1>2, <1>3, <1>4, UnitCases, Zenon

(* What the parser collects. *)
Collected(p) ==
  /\ p.inputFiles \in Seq(Files) /\ p.includeDirs \in Seq(Words) /\ p.defines \in Seq(Words)
  /\ p.outputFile \in Text /\ p.language \in Text

LEMMA EmptyText == "" \in Text
<1>1. Literals \subseteq Text
  BY DEF Text
<1>2. "" \in Literals
  BY Zenon DEF Literals
<1>3. QED
  BY <1>1, <1>2

LEMMA CollectsItem ==
  ASSUME NEW p, Collected(p), NEW i \in Units
  PROVE  Collected(ParseItem(p, i))
<1> DEFINE q == ParseItem(p, i)
<1>1. q.inputFiles = IF Name(i) = "" THEN Append(p.inputFiles, i[1]) ELSE p.inputFiles
  BY ParseItemFields, Zenon
<1>2. q.includeDirs = IF Name(i) = "-I" THEN Append(p.includeDirs, Val(i)) ELSE p.includeDirs
  BY ParseItemFields, Zenon
<1>3. q.defines = IF Name(i) = "-D" THEN Append(p.defines, Val(i)) ELSE p.defines
  BY ParseItemFields, Zenon
<1>4. q.outputFile = IF Name(i) = "-o" THEN Val(i) ELSE p.outputFile
  BY ParseItemFields, ZenonT(60)
<1>5. q.language = IF Name(i) = "-x" THEN Val(i) ELSE p.language
  BY ParseItemFields, ZenonT(60)
<1>6. Name(i) = "" => i[1] \in Files
  BY FileUnit
<1>7. Name(i) \in {"-I", "-D", "-o", "-x"} => Val(i) \in Words /\ Val(i) \in Text
  BY TakenVal DEF Taken, Words
<1> HIDE DEF q
<1>8. q.inputFiles \in Seq(Files)
  <2>1. p.inputFiles \in Seq(Files)
    BY DEF Collected
  <2>2. ASSUME NEW a \in Files PROVE Append(p.inputFiles, a) \in Seq(Files)
    BY <2>1
  <2>3. QED
    BY <1>1, <1>6, <2>1, <2>2, Zenon
<1>9. q.includeDirs \in Seq(Words)
  BY <1>2, <1>7 DEF Collected
<1>10. q.defines \in Seq(Words)
  BY <1>3, <1>7 DEF Collected
<1>11. q.outputFile \in Text /\ q.language \in Text
  BY <1>4, <1>5, <1>7, Zenon DEF Collected
<1>12. QED
  BY <1>8, <1>9, <1>10, <1>11, Zenon DEF Collected, q

LEMMA ParserCollects ==
  ASSUME NEW u \in Seq(Units)
  PROVE  Collected(ParsedFrom(NothingParsed, u))
<1> DEFINE G == {t \in Seq(Units) : Collected(ParsedFrom(NothingParsed, t))}
<1>1. <<>> \in G
  <2>1. <<>> \in Seq(Units) /\ <<>> \in Seq(Files) /\ <<>> \in Seq(Words)
    OBVIOUS
  <2>2. /\ NothingParsed.inputFiles = <<>> /\ NothingParsed.includeDirs = <<>> /\ NothingParsed.defines = <<>>
        /\ NothingParsed.outputFile = "" /\ NothingParsed.language = ""
    BY Zenon DEF NothingParsed
  <2>3. Collected(NothingParsed)
    BY <2>1, <2>2, EmptyText, Zenon DEF Collected
  <2>4. QED
    BY <2>1, <2>3, ParsedStart, Zenon
<1>2. ASSUME NEW t \in Seq(Units), NEW i \in Units, t \in G PROVE Append(t, i) \in G
  <2>1. Append(t, i) \in Seq(Units)
    OBVIOUS
  <2>2. ParsedFrom(NothingParsed, Append(t, i)) = ParseItem(ParsedFrom(NothingParsed, t), i)
    BY StartsGood, ParsedGood, ParsedStep, Zenon
  <2>3. QED
    BY <1>2, <2>1, <2>2, CollectsItem, Zenon
<1>3. u \in G
  <2> HIDE DEF G
  <2> QED BY <1>1, <1>2, SeqGrows
<1>4. QED
  BY <1>3

LEMMA DetectedIsText == ASSUME NEW a PROVE detectLanguage(a) \in Text
<1>1. Literals \subseteq Text
  BY DEF Text
<1>2. {"c", "c++", "objective-c", "objective-c++", "assembler", ""} \subseteq Literals
  BY Zenon DEF Literals
<1>3. detectLanguage(a) \in {"c", "c++", "objective-c", "objective-c++", "assembler", ""}
  BY Zenon DEF detectLanguage
<1> HIDE DEF Text, Literals
<1>4. QED
  BY <1>1, <1>2, <1>3, Zenon

(* A command is distributed exactly when -c is given and gcc would compile one source. *)
LEMMA Distributed ==
  ASSUME NEW u \in Seq(Units), NEW q, q = Parse(Args(u)), NEW w, w = MeantFrom(NoMeaning, u)
  PROVE  /\ IsDistributable(q)
              <=> "-c" \in w.stages /\ Len(w.inputs) = 1 /\ isSourceFile(w.inputs[1][1])
         /\ q.inputFiles = Sources(w.inputs)
         /\ IsDistributable(q) => Len(w.inputs) = 1 /\ w.inputs[1][1] = q.inputFiles[1]
<1> DEFINE p == ParsedFrom(NothingParsed, u)
<1>1. q.compileOnly = p.compileOnly /\ q.inputFiles = p.inputFiles
  BY ParseIs, Zenon
<1>2. Tracks(p, w)
  BY ParserTracks
<1> HIDE DEF p
<1>3. p.compileOnly <=> "-c" \in w.stages
  BY <1>2, Zenon DEF Tracks
<1>4. p.inputFiles = Sources(w.inputs)
  BY <1>2, Zenon DEF Tracks
<1>5. PICK S : w.inputs \in Seq(S)
  BY <1>2, Zenon DEF Tracks
<1>6. /\ Len(Sources(w.inputs)) = Len(w.inputs)
      /\ Len(w.inputs) = 1 => Sources(w.inputs)[1] = w.inputs[1][1]
  BY <1>5 DEF Sources
<1>7. QED
  BY <1>1, <1>3, <1>4, <1>6, Zenon DEF IsDistributable

-----------------------------------------------------------------------------
(***************************************************************************)
(* ToArgs, parsed again.                                                   *)
(***************************************************************************)

Joined(f, vs) == [i \in 1..Len(vs) |-> <<f, vs[i]>>]

LEMMA JoinedGrows ==
  ASSUME NEW f, NEW T, NEW vs \in Seq(T), NEW v \in T
  PROVE  /\ Joined(f, <<>>) = <<>>
         /\ Joined(f, Append(vs, v)) = Append(Joined(f, vs), <<f, v>>)
         /\ Joined(f, vs) \in Seq({f} \X T)
<1>1. Joined(f, <<>>) = <<>>
  BY DEF Joined
<1>3. Joined(f, vs) \in Seq({f} \X T)
  BY DEF Joined
<1>2. Joined(f, Append(vs, v)) = Append(Joined(f, vs), <<f, v>>)
  <2> DEFINE n == Len(vs)
             ws == Append(vs, v)
             x == Joined(f, ws)
             j == Joined(f, vs)
             a == <<f, v>>
             y == Append(j, a)
  <2>1. n \in Nat /\ Len(ws) = n + 1 /\ ws[n + 1] = v /\ \A i \in 1..n : ws[i] = vs[i]
    OBVIOUS
  <2>2. Len(j) = n /\ \A i \in 1..n : j[i] = <<f, vs[i]>>
    BY <2>1 DEF Joined
  <2>3. x = [i \in 1..(n + 1) |-> <<f, ws[i]>>]
    BY <2>1 DEF Joined
  <2> HIDE DEF ws, j, a, n
  <2>4. y = [i \in 1..(n + 1) |-> y[i]] /\ y[n + 1] = a /\ \A i \in 1..n : y[i] = j[i]
    <3> DEFINE A == {f} \X T
    <3>1. j \in Seq(A)
      BY <1>3 DEF j
    <3>2. a \in A
      BY DEF a
    <3> HIDE DEF A
    <3>3. y \in Seq(A) /\ Len(y) = n + 1
      BY <2>1, <2>2, <3>1, <3>2
    <3>4. y[n + 1] = a /\ \A i \in 1..n : y[i] = j[i]
      BY <2>1, <2>2, <3>1, <3>2
    <3>5. y = [i \in 1..(n + 1) |-> y[i]]
      <4> HIDE DEF y
      <4> QED BY <3>3
    <3>6. QED
      BY <3>4, <3>5
  <2> HIDE DEF x, y
  <2>5. \A i \in 1..(n + 1) : y[i] = <<f, ws[i]>>
    <3>1. ASSUME NEW i \in 1..(n + 1) PROVE y[i] = <<f, ws[i]>>
      <4>1. CASE i = n + 1
        BY <2>1, <2>4, <4>1 DEF a
      <4>2. CASE i # n + 1
        <5>1. i \in 1..n
          BY <2>1, <4>2
        <5>2. QED
          BY <2>1, <2>2, <2>4, <5>1
      <4>3. QED
        BY <4>1, <4>2
    <3>2. QED
      BY <3>1
  <2>6. x = y
    BY <2>3, <2>4, <2>5, Zenon
  <2>7. QED
    BY <2>6 DEF x, y, ws, j, a
<1>4. QED
  BY <1>1, <1>2, <1>3

LEMMA ParseInto ==
  ASSUME NEW b, NEW s \in Seq(Arg), NEW t \in Seq(Arg)
  PROVE  Parsing!Run(b, s \o t) = Parsing!Run(Parsing!Run(b, s), t)
BY Parsing!RunConcat

(* Joined flags that the parser knows. *)
LEMMA JoinedStep ==
  ASSUME NEW p, p.pending = <<>>, NEW f \in {"-I", "-D"}, NEW v, v # ""
  PROVE  ParseStep(p, <<f, v>>) = WithValue(p, f, v)
<1> DEFINE a == <<f, v>>
<1>1. a[1] = f /\ a[2] = v
  OBVIOUS
<1> HIDE DEF a
<1>2. ParseStep(p, a) = WithValue(p, a[1], a[2])
  BY <1>1, Zenon DEF ParseStep
<1>3. QED
  BY <1>1, <1>2, Zenon DEF a

LEMMA DirsParsed ==
  ASSUME NEW co, NEW pp, NEW fl, NEW inp, NEW df, NEW o, NEW l, NEW s, NEW vs \in Seq(Words)
  PROVE  Parsing!Run(P(co, pp, fl, inp, <<>>, df, o, l, s, <<>>), Joined("-I", vs))
           = P(co, pp, fl, inp, vs, df, o, l, s, <<>>)
<1> DEFINE e == <<>>
           b == P(co, pp, fl, inp, e, df, o, l, s, e)
           Is(t) == Parsing!Run(b, Joined("-I", t)) = P(co, pp, fl, inp, t, df, o, l, s, e)
           G == {t \in Seq(Words) : Is(t)}
<1>1. <<>> \in G
  <2>1. <<>> \in Seq(Words)
    OBVIOUS
  <2>2. Joined("-I", <<>>) = <<>>
    BY DEF Joined
  <2>3. Is(<<>>)
    BY <2>2, Parsing!RunEmpty, Zenon
  <2> HIDE DEF Is
  <2>4. QED
    BY <2>1, <2>3
<1>2. ASSUME NEW t \in Seq(Words), NEW v \in Words, t \in G PROVE Append(t, v) \in G
  <2> DEFINE p == P(co, pp, fl, inp, t, df, o, l, s, e)
  <2>1. Append(t, v) \in Seq(Words)
    OBVIOUS
  <2>2. Is(t)
    BY <1>2
  <2>3. Joined("-I", Append(t, v)) = Append(Joined("-I", t), <<"-I", v>>)
    BY JoinedGrows
  <2>4. Parsing!Run(b, Append(Joined("-I", t), <<"-I", v>>))
          = ParseStep(Parsing!Run(b, Joined("-I", t)), <<"-I", v>>)
    <3> DEFINE a == <<"-I", v>>
               A == {"-I"} \X Words
               J == Joined("-I", t)
    <3>1. a \in A /\ J \in Seq(A)
      BY JoinedGrows
    <3> HIDE DEF a, A, J, b
    <3>2. Parsing!Run(b, Append(J, a)) = ParseStep(Parsing!Run(b, J), a)
      BY <3>1, Parsing!RunAppend
    <3>3. QED
      BY <3>2 DEF a, J
  <2>5. /\ p.compileOnly = co /\ p.preprocess = pp /\ p.flags = fl /\ p.inputFiles = inp
        /\ p.includeDirs = t /\ p.defines = df /\ p.outputFile = o /\ p.language = l
        /\ p.standard = s /\ p.pending = e /\ IsP(p)
    BY PFields
  <2>6. v # ""
    BY DEF Words
  <2> HIDE DEF p
  <2>7. ParseStep(p, <<"-I", v>>) = WithValue(p, "-I", v)
    BY <2>5, <2>6, JoinedStep, Zenon
  <2>8. WithValue(p, "-I", v) = [p EXCEPT !.includeDirs = Append(p.includeDirs, v)]
    BY Zenon DEF WithValue
  <2>9. [p EXCEPT !.includeDirs = Append(p.includeDirs, v)]
          = P(co, pp, fl, inp, Append(t, v), df, o, l, s, e)
    <3>1. [p EXCEPT !.includeDirs = Append(p.includeDirs, v)]
            = P(p.compileOnly, p.preprocess, p.flags, p.inputFiles, Append(p.includeDirs, v), p.defines,
                      p.outputFile, p.language, p.standard, p.pending)
      BY <2>5, SetIncludeDirs
    <3> HIDE DEF e
    <3>2. QED
      BY <2>5, <3>1, Zenon
  <2>10. Parsing!Run(b, Joined("-I", t)) = p
    BY <2>2 DEF p
  <2>11. Is(Append(t, v))
    BY <2>3, <2>4, <2>7, <2>8, <2>9, <2>10, Zenon
  <2> HIDE DEF Is
  <2>12. QED
    BY <2>1, <2>11
<1>3. vs \in G
  <2> HIDE DEF G
  <2> QED BY <1>1, <1>2, SeqGrows
<1>4. QED
  BY <1>3

LEMMA DefinesParsed ==
  ASSUME NEW co, NEW pp, NEW fl, NEW inp, NEW inc, NEW o, NEW l, NEW s, NEW vs \in Seq(Words)
  PROVE  Parsing!Run(P(co, pp, fl, inp, inc, <<>>, o, l, s, <<>>), Joined("-D", vs))
           = P(co, pp, fl, inp, inc, vs, o, l, s, <<>>)
<1> DEFINE e == <<>>
           b == P(co, pp, fl, inp, inc, e, o, l, s, e)
           Is(t) == Parsing!Run(b, Joined("-D", t)) = P(co, pp, fl, inp, inc, t, o, l, s, e)
           G == {t \in Seq(Words) : Is(t)}
<1>1. <<>> \in G
  <2>1. <<>> \in Seq(Words)
    OBVIOUS
  <2>2. Joined("-D", <<>>) = <<>>
    BY DEF Joined
  <2>3. Is(<<>>)
    BY <2>2, Parsing!RunEmpty, Zenon
  <2> HIDE DEF Is
  <2>4. QED
    BY <2>1, <2>3
<1>2. ASSUME NEW t \in Seq(Words), NEW v \in Words, t \in G PROVE Append(t, v) \in G
  <2> DEFINE p == P(co, pp, fl, inp, inc, t, o, l, s, e)
  <2>1. Append(t, v) \in Seq(Words)
    OBVIOUS
  <2>2. Is(t)
    BY <1>2
  <2>3. Joined("-D", Append(t, v)) = Append(Joined("-D", t), <<"-D", v>>)
    BY JoinedGrows
  <2>4. Parsing!Run(b, Append(Joined("-D", t), <<"-D", v>>))
          = ParseStep(Parsing!Run(b, Joined("-D", t)), <<"-D", v>>)
    <3> DEFINE a == <<"-D", v>>
               A == {"-D"} \X Words
               J == Joined("-D", t)
    <3>1. a \in A /\ J \in Seq(A)
      BY JoinedGrows
    <3> HIDE DEF a, A, J, b
    <3>2. Parsing!Run(b, Append(J, a)) = ParseStep(Parsing!Run(b, J), a)
      BY <3>1, Parsing!RunAppend
    <3>3. QED
      BY <3>2 DEF a, J
  <2>5. /\ p.compileOnly = co /\ p.preprocess = pp /\ p.flags = fl /\ p.inputFiles = inp
        /\ p.includeDirs = inc /\ p.defines = t /\ p.outputFile = o /\ p.language = l
        /\ p.standard = s /\ p.pending = e /\ IsP(p)
    BY PFields
  <2>6. v # ""
    BY DEF Words
  <2> HIDE DEF p
  <2>7. ParseStep(p, <<"-D", v>>) = WithValue(p, "-D", v)
    BY <2>5, <2>6, JoinedStep, Zenon
  <2>8. WithValue(p, "-D", v) = [p EXCEPT !.defines = Append(p.defines, v)]
    BY Zenon DEF WithValue
  <2>9. [p EXCEPT !.defines = Append(p.defines, v)]
          = P(co, pp, fl, inp, inc, Append(t, v), o, l, s, e)
    <3>1. [p EXCEPT !.defines = Append(p.defines, v)]
            = P(p.compileOnly, p.preprocess, p.flags, p.inputFiles, p.includeDirs, Append(p.defines, v),
                      p.outputFile, p.language, p.standard, p.pending)
      BY <2>5, SetDefines
    <3> HIDE DEF e
    <3>2. QED
      BY <2>5, <3>1, Zenon
  <2>10. Parsing!Run(b, Joined("-D", t)) = p
    BY <2>2 DEF p
  <2>11. Is(Append(t, v))
    BY <2>3, <2>4, <2>7, <2>8, <2>9, <2>10, Zenon
  <2> HIDE DEF Is
  <2>12. QED
    BY <2>1, <2>11
<1>3. vs \in G
  <2> HIDE DEF G
  <2> QED BY <1>1, <1>2, SeqGrows
<1>4. QED
  BY <1>3

LEMMA FilesParsed ==
  ASSUME NEW co, NEW pp, NEW fl, NEW inc, NEW df, NEW o, NEW l, NEW s, NEW fs \in Seq(Files)
  PROVE  Parsing!Run(P(co, pp, fl, <<>>, inc, df, o, l, s, <<>>), fs)
           = P(co, pp, fl, fs, inc, df, o, l, s, <<>>)
<1> DEFINE e == <<>>
           b == P(co, pp, fl, e, inc, df, o, l, s, e)
           Is(t) == Parsing!Run(b, t) = P(co, pp, fl, t, inc, df, o, l, s, e)
           G == {t \in Seq(Files) : Is(t)}
<1>1. <<>> \in G
  <2>1. <<>> \in Seq(Files)
    OBVIOUS
  <2>2. Is(<<>>)
    BY Parsing!RunEmpty, Zenon
  <2> HIDE DEF Is
  <2>3. QED
    BY <2>1, <2>2
<1>2. ASSUME NEW t \in Seq(Files), NEW a \in Files, t \in G PROVE Append(t, a) \in G
  <2> DEFINE p == P(co, pp, fl, t, inc, df, o, l, s, e)
  <2>1. Append(t, a) \in Seq(Files)
    OBVIOUS
  <2>2. Is(t)
    BY <1>2
  <2>3. Parsing!Run(b, Append(t, a)) = ParseStep(Parsing!Run(b, t), a)
    <3> HIDE DEF b
    <3> QED BY Parsing!RunAppend
  <2>4. /\ p.compileOnly = co /\ p.preprocess = pp /\ p.flags = fl /\ p.inputFiles = t
        /\ p.includeDirs = inc /\ p.defines = df /\ p.outputFile = o /\ p.language = l
        /\ p.standard = s /\ p.pending = e /\ IsP(p)
    BY PFields
  <2>5. IsFile(a)
    BY DEF Files
  <2>6. a[1] = ""
    BY <2>5, FilesAreWords DEF IsWord
  <2> HIDE DEF p
  <2>7. ParseStep(p, a) = [p EXCEPT !.inputFiles = Append(p.inputFiles, a)]
    BY <2>4, <2>5, <2>6, Zenon DEF ParseStep, ParsedValueFlags, IsFile
  <2>8. [p EXCEPT !.inputFiles = Append(p.inputFiles, a)]
          = P(co, pp, fl, Append(t, a), inc, df, o, l, s, e)
    <3>1. [p EXCEPT !.inputFiles = Append(p.inputFiles, a)]
            = P(p.compileOnly, p.preprocess, p.flags, Append(p.inputFiles, a), p.includeDirs, p.defines,
                      p.outputFile, p.language, p.standard, p.pending)
      BY <2>4, SetInputFiles
    <3> HIDE DEF e
    <3>2. QED
      BY <2>4, <3>1, Zenon
  <2>9. Parsing!Run(b, t) = p
    BY <2>2 DEF p
  <2>10. Is(Append(t, a))
    BY <2>3, <2>7, <2>8, <2>9, Zenon
  <2> HIDE DEF Is
  <2>11. QED
    BY <2>1, <2>10
<1>3. fs \in G
  <2> HIDE DEF G
  <2> QED BY <1>1, <1>2, SeqGrows
<1>4. QED
  BY <1>3

(* The kept flags parse back to themselves, -c, -E and the standard. *)
LEMMA FlagsParsed ==
  ASSUME NEW inp, NEW inc, NEW df, NEW o, NEW l, NEW u \in Seq(Units)
  PROVE  LET z == NothingParsed
             p == ParsedFrom(NothingParsed, u)
         IN Parsing!Run(P(z.compileOnly, z.preprocess, <<>>, inp, inc, df, o, l, z.standard, <<>>), p.flags)
              = P(p.compileOnly, p.preprocess, p.flags, inp, inc, df, o, l, p.standard, <<>>)
<1> DEFINE z == NothingParsed
           e == <<>>
           b == P(z.compileOnly, z.preprocess, e, inp, inc, df, o, l, z.standard, e)
           S(p) == P(p.compileOnly, p.preprocess, p.flags, inp, inc, df, o, l, p.standard, e)
           F(t) == ParsedFrom(NothingParsed, t)
           Is(t) == Parsing!Run(b, F(t).flags) = S(F(t))
           G == {t \in Seq(Units) : Is(t)}
<1>1. <<>> \in G
  <2>1. <<>> \in Seq(Units)
    OBVIOUS
  <2>2. F(<<>>) = z /\ z.flags = e
    BY ParsedStart, Zenon DEF NothingParsed
  <2>3. Parsing!Run(b, e) = b
    BY Parsing!RunEmpty, Zenon
  <2>4. S(z) = b
    BY <2>2, Zenon
  <2>5. Is(<<>>)
    <3> HIDE DEF z, e, b, S, F
    <3> QED BY <2>2, <2>3, <2>4, Zenon DEF e
  <2> HIDE DEF Is
  <2>6. QED
    BY <2>1, <2>5
<1>2. ASSUME NEW t \in Seq(Units), NEW i \in Units, t \in G PROVE Append(t, i) \in G
  <2> DEFINE p == F(t)
             q == ParseItem(p, i)
             x == S(p)
  <2>1. Append(t, i) \in Seq(Units)
    OBVIOUS
  <2>2. Is(t)
    BY <1>2
  <2>3. GoodP(p) /\ F(Append(t, i)) = q
    BY StartsGood, ParsedGood, ParsedStep, Zenon
  <2> HIDE DEF F
  <2>4. q.compileOnly = IF Name(i) = "-c" THEN TRUE ELSE p.compileOnly
    BY ParseItemFields, Zenon
  <2>5. q.preprocess = IF Name(i) = "-E" THEN TRUE ELSE p.preprocess
    BY ParseItemFields, Zenon
  <2>6. q.flags = IF IsKept(i) THEN p.flags \o i ELSE p.flags
    BY ParseItemFields, Zenon
  <2>7. q.standard = IF Name(i) = "-std=" THEN Val(i) ELSE p.standard
    BY ParseItemFields, ZenonT(60)
  <2>8. CASE ~IsKept(i)
    <3>1. Name(i) \notin {"-c", "-E", "-std="}
      BY <2>8, Zenon DEF IsKept, Taken
    <3> HIDE DEF q, p
    <3>2. S(q) = S(p) /\ q.flags = p.flags
      BY <2>4, <2>5, <2>6, <2>7, <2>8, <3>1, Zenon
    <3>3. Parsing!Run(b, p.flags) = S(p)
      BY <2>2 DEF p
    <3> HIDE DEF S, b
    <3>4. Is(Append(t, i))
      BY <2>3, <3>2, <3>3, Zenon
    <3> HIDE DEF Is
    <3>5. QED
      BY <2>1, <3>4
  <2>9. CASE IsKept(i)
    <3>1. Name(i) \notin {"", "-I", "-D", "-o", "-x"}
      BY <2>9, Zenon DEF IsKept, Taken
    <3>2. p.flags \in Seq(Arg) /\ i \in Seq(Arg)
      BY <2>3, UnitsAreArgs DEF GoodP
    <3>3. Parsing!Run(b, p.flags \o i) = Parsing!Run(x, i)
      <4>1. Parsing!Run(b, p.flags) = x
        BY <2>2
      <4> HIDE DEF b, x, p
      <4>2. QED
        BY <3>2, <4>1, ParseInto, Zenon
    <3> HIDE DEF p, q
    <3>4. /\ x.compileOnly = p.compileOnly /\ x.preprocess = p.preprocess /\ x.flags = p.flags /\ x.inputFiles = inp
          /\ x.includeDirs = inc /\ x.defines = df /\ x.outputFile = o /\ x.language = l
          /\ x.standard = p.standard /\ x.pending = e /\ IsP(x)
      BY PFields
    <3> HIDE DEF x
    <3>5. Parsing!Run(x, i) = ParseItem(x, i)
      BY <3>2, <3>4, ParsesItem, Zenon
    <3>6. ParseItem(x, i) = S(q)
      <4> DEFINE y == ParseItem(x, i)
      <4>1. y.compileOnly = q.compileOnly
        <5>1. y.compileOnly = IF Name(i) = "-c" THEN TRUE ELSE x.compileOnly
          BY ParseItemFields, Zenon
        <5>2. QED
          BY <2>4, <3>4, <5>1, Zenon
      <4>2. y.preprocess = q.preprocess
        <5>1. y.preprocess = IF Name(i) = "-E" THEN TRUE ELSE x.preprocess
          BY ParseItemFields, Zenon
        <5>2. QED
          BY <2>5, <3>4, <5>1, Zenon
      <4>3. y.flags = q.flags
        <5>1. y.flags = IF IsKept(i) THEN x.flags \o i ELSE x.flags
          BY ParseItemFields, Zenon
        <5>2. QED
          BY <2>6, <3>4, <5>1, Zenon
      <4>4. y.standard = q.standard
        <5>1. y.standard = IF Name(i) = "-std=" THEN Val(i) ELSE x.standard
          BY ParseItemFields, ZenonT(60)
        <5>2. QED
          BY <2>7, <3>4, <5>1, Zenon
      <4>5. y.inputFiles = inp
        <5>1. y.inputFiles = IF Name(i) = "" THEN Append(x.inputFiles, i[1]) ELSE x.inputFiles
          BY ParseItemFields, Zenon
        <5>2. QED
          BY <3>1, <3>4, <5>1, Zenon
      <4>6. y.includeDirs = inc
        <5>1. y.includeDirs = IF Name(i) = "-I" THEN Append(x.includeDirs, Val(i)) ELSE x.includeDirs
          BY ParseItemFields, Zenon
        <5>2. QED
          BY <3>1, <3>4, <5>1, Zenon
      <4>7. y.defines = df
        <5>1. y.defines = IF Name(i) = "-D" THEN Append(x.defines, Val(i)) ELSE x.defines
          BY ParseItemFields, Zenon
        <5>2. QED
          BY <3>1, <3>4, <5>1, Zenon
      <4>8. y.outputFile = o
        <5>1. y.outputFile = IF Name(i) = "-o" THEN Val(i) ELSE x.outputFile
          BY ParseItemFields, ZenonT(60)
        <5>2. QED
          BY <3>1, <3>4, <5>1, Zenon
      <4>9. y.language = l
        <5>1. y.language = IF Name(i) = "-x" THEN Val(i) ELSE x.language
          BY ParseItemFields, ZenonT(60)
        <5>2. QED
          BY <3>1, <3>4, <5>1, Zenon
      <4>10. y.pending = e /\ IsP(y)
        BY ParseItemFields, Zenon
      <4> HIDE DEF y, e
      <4>11. y = P(y.compileOnly, y.preprocess, y.flags, y.inputFiles, y.includeDirs, y.defines,
                   y.outputFile, y.language, y.standard, y.pending)
        BY <4>10 DEF IsP
      <4>12. y = S(q)
        BY <4>1, <4>2, <4>3, <4>4, <4>5, <4>6, <4>7, <4>8, <4>9, <4>10, <4>11, Zenon
      <4>13. QED
        BY <4>12 DEF y
    <3>7. q.flags = p.flags \o i
      BY <2>6, <2>9, Zenon
    <3> HIDE DEF S, b
    <3>8. Is(Append(t, i))
      BY <2>3, <3>3, <3>5, <3>6, <3>7, Zenon
    <3> HIDE DEF Is
    <3>9. QED
      BY <2>1, <3>8
  <2>10. QED
    BY <2>8, <2>9
<1>3. u \in G
  <2> HIDE DEF G
  <2> QED BY <1>1, <1>2, SeqGrows
<1>4. QED
  BY <1>3

(* A separate value. *)
LEMMA PairParsed ==
  ASSUME NEW p, p.pending = <<>>, IsP(p), NEW f \in {"-x", "-o"}, NEW v
  PROVE  Parsing!Run(p, <<Flag(f), Word(v)>>)
           = [WithValue([p EXCEPT !.pending = <<f>>], f, v) EXCEPT !.pending = <<>>]
<1> DEFINE a == Flag(f)
           w == Word(v)
           x == [p EXCEPT !.pending = <<f>>]
<1>1. a[1] = f /\ a[2] = "" /\ w[1] = "" /\ w[2] = v
  BY FlagIs, WordIs
<1>2. Parsing!Run(p, <<a, w>>) = ParseStep(ParseStep(p, a), w)
  <2> HIDE DEF a, w
  <2> QED BY Parsing!RunTwo
<1>3. ParseStep(p, a) = [p EXCEPT !.pending = <<a[1]>>]
  <2> HIDE DEF a
  <2>1. a[1] \in ParsedValueFlags
    BY <1>1, Zenon DEF ParsedValueFlags
  <2>2. QED
    BY <1>1, <2>1, Zenon DEF ParseStep
<1>4. x.pending = <<f>> /\ <<f>> # <<>> /\ <<f>>[1] = f
  BY DEF IsP, P
<1>5. ParseStep(x, w) = [WithValue(x, f, v) EXCEPT !.pending = <<>>]
  <2> HIDE DEF x, w
  <2>1. x.pending # <<>> /\ x.pending[1] = f
    BY <1>4
  <2>2. QED
    BY <1>1, <2>1, Zenon DEF ParseStep
<1>6. ParseStep(p, a) = x
  <2> HIDE DEF a
  <2> QED BY <1>1, <1>3, Zenon
<1>7. QED
  BY <1>2, <1>5, <1>6, Zenon

LEMMA LanguageParsed ==
  ASSUME NEW co, NEW pp, NEW fl, NEW inp, NEW inc, NEW df, NEW o, NEW k, NEW s, NEW v
  PROVE  Parsing!Run(P(co, pp, fl, inp, inc, df, o, k, s, <<>>), <<Flag("-x"), Word(v)>>)
           = P(co, pp, fl, inp, inc, df, o, v, s, <<>>)
<1> DEFINE e == <<>>
           p == P(co, pp, fl, inp, inc, df, o, k, s, e)
           g == <<"-x">>
           x == P(co, pp, fl, inp, inc, df, o, k, s, g)
           y == P(co, pp, fl, inp, inc, df, o, v, s, g)
<1>1. p.pending = e /\ IsP(p) /\ IsP(x) /\ IsP(y)
  BY PFields
<1>2. [p EXCEPT !.pending = g] = x
  <2> HIDE DEF e, g
  <2> QED BY DEF P
<1>3. [x EXCEPT !.language = v] = y
  <2> HIDE DEF e, g
  <2> QED BY DEF P
<1>4. [y EXCEPT !.pending = e] = P(co, pp, fl, inp, inc, df, o, v, s, e)
  <2> HIDE DEF e, g
  <2> QED BY DEF P
<1> HIDE DEF x, y
<1>5. WithValue(x, "-x", v) = [x EXCEPT !.language = v]
  BY Zenon DEF WithValue
<1>6. Parsing!Run(p, <<Flag("-x"), Word(v)>>) = [WithValue([p EXCEPT !.pending = g], "-x", v) EXCEPT !.pending = e]
  <2> HIDE DEF p
  <2> QED BY <1>1, PairParsed, Zenon
<1> HIDE DEF p, e, g
<1>7. Parsing!Run(p, <<Flag("-x"), Word(v)>>) = [y EXCEPT !.pending = e]
  BY <1>2, <1>3, <1>5, <1>6, Zenon
<1>8. QED
  BY <1>4, <1>7, Zenon DEF p, e

LEMMA OutputParsed ==
  ASSUME NEW co, NEW pp, NEW fl, NEW inp, NEW inc, NEW df, NEW k, NEW l, NEW s, NEW v
  PROVE  Parsing!Run(P(co, pp, fl, inp, inc, df, k, l, s, <<>>), <<Flag("-o"), Word(v)>>)
           = P(co, pp, fl, inp, inc, df, v, l, s, <<>>)
<1> DEFINE e == <<>>
           p == P(co, pp, fl, inp, inc, df, k, l, s, e)
           g == <<"-o">>
           x == P(co, pp, fl, inp, inc, df, k, l, s, g)
           y == P(co, pp, fl, inp, inc, df, v, l, s, g)
<1>1. p.pending = e /\ IsP(p) /\ IsP(x) /\ IsP(y)
  BY PFields
<1>2. [p EXCEPT !.pending = g] = x
  <2> HIDE DEF e, g
  <2> QED BY DEF P
<1>3. [x EXCEPT !.outputFile = v] = y
  <2> HIDE DEF e, g
  <2> QED BY DEF P
<1>4. [y EXCEPT !.pending = e] = P(co, pp, fl, inp, inc, df, v, l, s, e)
  <2> HIDE DEF e, g
  <2> QED BY DEF P
<1> HIDE DEF x, y
<1>5. WithValue(x, "-o", v) = [x EXCEPT !.outputFile = v]
  BY Zenon DEF WithValue
<1>6. Parsing!Run(p, <<Flag("-o"), Word(v)>>) = [WithValue([p EXCEPT !.pending = g], "-o", v) EXCEPT !.pending = e]
  <2> HIDE DEF p
  <2> QED BY <1>1, PairParsed, Zenon
<1> HIDE DEF p, e, g
<1>7. Parsing!Run(p, <<Flag("-o"), Word(v)>>) = [y EXCEPT !.pending = e]
  BY <1>2, <1>3, <1>5, <1>6, Zenon
<1>8. QED
  BY <1>4, <1>7, Zenon DEF p, e

LEMMA WordArgs ==
  ASSUME NEW v \in Text
  PROVE  Word(v) \in Arg /\ \A f \in {"-I", "-D"} : <<f, v>> \in Arg
<1>1. Literals \subseteq Text
  BY DEF Text
<1>2. "" \in Literals /\ "-I" \in Literals /\ "-D" \in Literals
  BY Zenon DEF Literals
<1>3. "" \in Text /\ "-I" \in Text /\ "-D" \in Text
  BY <1>1, <1>2
<1>4. QED
  BY <1>3 DEF Word, Arg

LEMMA PairArgs ==
  ASSUME NEW v \in Text
  PROVE  \A f \in {"-x", "-o"} : <<Flag(f), Word(v)>> \in Seq(Arg)
<1>1. Literals \subseteq Text
  BY DEF Text
<1>2. "" \in Literals /\ "-x" \in Literals /\ "-o" \in Literals
  BY Zenon DEF Literals
<1>3. "" \in Text /\ "-x" \in Text /\ "-o" \in Text
  BY <1>1, <1>2
<1>4. Flag("-x") \in Arg /\ Flag("-o") \in Arg /\ Word(v) \in Arg
  BY <1>3 DEF Word, Flag, Arg
<1>5. ASSUME NEW f \in {"-x", "-o"} PROVE <<Flag(f), Word(v)>> \in Seq(Arg)
  <2> DEFINE x == Flag(f)
             y == Word(v)
  <2>1. x \in Arg /\ y \in Arg
    BY <1>4, Zenon
  <2> HIDE DEF x, y
  <2>2. <<x, y>> \in Seq(Arg)
    BY <2>1
  <2>3. QED
    BY <2>2 DEF x, y
<1>6. QED
  BY <1>5

LEMMA JoinedArgs ==
  ASSUME NEW f \in {"-I", "-D"}, NEW vs \in Seq(Words)
  PROVE  Joined(f, vs) \in Seq(Arg)
<1>1. \A v \in Words : <<f, v>> \in Arg
  BY WordArgs DEF Words
<1>2. Len(vs) \in Nat /\ \A i \in 1..Len(vs) : vs[i] \in Words
  OBVIOUS
<1>3. \A i \in 1..Len(vs) : <<f, vs[i]>> \in Arg
  BY <1>1, <1>2
<1>4. QED
  BY <1>2, <1>3 DEF Joined

(* The same, with the empty sequence and the empty string as parameters. *)
LEMMA DirsParsedFrom ==
  ASSUME NEW e, e = <<>>, NEW co, NEW pp, NEW fl, NEW inp, NEW df, NEW o, NEW l, NEW s,
         NEW vs \in Seq(Words)
  PROVE  Parsing!Run(P(co, pp, fl, inp, e, df, o, l, s, e), Joined("-I", vs))
           = P(co, pp, fl, inp, vs, df, o, l, s, e)
BY DirsParsed, ZenonT(60)

LEMMA DefinesParsedFrom ==
  ASSUME NEW e, e = <<>>, NEW co, NEW pp, NEW fl, NEW inp, NEW inc, NEW o, NEW l, NEW s,
         NEW vs \in Seq(Words)
  PROVE  Parsing!Run(P(co, pp, fl, inp, inc, e, o, l, s, e), Joined("-D", vs))
           = P(co, pp, fl, inp, inc, vs, o, l, s, e)
BY DefinesParsed, Zenon

LEMMA FilesParsedFrom ==
  ASSUME NEW e, e = <<>>, NEW co, NEW pp, NEW fl, NEW inc, NEW df, NEW o, NEW l, NEW s,
         NEW fs \in Seq(Files)
  PROVE  Parsing!Run(P(co, pp, fl, e, inc, df, o, l, s, e), fs)
           = P(co, pp, fl, fs, inc, df, o, l, s, e)
BY FilesParsed, ZenonT(60)

LEMMA LanguageParsedFrom ==
  ASSUME NEW e, e = <<>>, NEW co, NEW pp, NEW fl, NEW inp, NEW inc, NEW df, NEW o, NEW k, NEW s, NEW v
  PROVE  Parsing!Run(P(co, pp, fl, inp, inc, df, o, k, s, e), <<Flag("-x"), Word(v)>>)
           = P(co, pp, fl, inp, inc, df, o, v, s, e)
<1>1. Parsing!Run(P(co, pp, fl, inp, inc, df, o, k, s, <<>>), <<Flag("-x"), Word(v)>>)
        = P(co, pp, fl, inp, inc, df, o, v, s, <<>>)
  BY LanguageParsed
<1>2. QED
  BY <1>1, Zenon

LEMMA OutputParsedFrom ==
  ASSUME NEW e, e = <<>>, NEW co, NEW pp, NEW fl, NEW inp, NEW inc, NEW df, NEW k, NEW l, NEW s, NEW v
  PROVE  Parsing!Run(P(co, pp, fl, inp, inc, df, k, l, s, e), <<Flag("-o"), Word(v)>>)
           = P(co, pp, fl, inp, inc, df, v, l, s, e)
<1>1. Parsing!Run(P(co, pp, fl, inp, inc, df, k, l, s, <<>>), <<Flag("-o"), Word(v)>>)
        = P(co, pp, fl, inp, inc, df, v, l, s, <<>>)
  BY OutputParsed
<1>2. QED
  BY <1>1, Zenon

LEMMA Rebuilds ==
  ASSUME NEW e, e = <<>>, NEW n, NEW zc, NEW zp, NEW zs, NEW co, NEW pp,
         NEW fl \in Seq(Arg), NEW inp \in Seq(Files), NEW inc \in Seq(Words),
         NEW df \in Seq(Words), NEW o \in Text, NEW l \in Text, NEW s,
         Parsing!Run(P(zc, zp, e, e, inc, df, n, l, zs, e), fl)
           = P(co, pp, fl, e, inc, df, n, l, s, e)
  PROVE  Parsing!Run(P(zc, zp, e, e, e, e, n, n, zs, e),
                     Joined("-I", inc) \o Joined("-D", df)
                     \o (IF l = n THEN e ELSE <<Flag("-x"), Word(l)>>)
                     \o fl \o inp
                     \o (IF o = n THEN e ELSE <<Flag("-o"), Word(o)>>))
           = P(co, pp, fl, inp, inc, df, o, l, s, e)
<1> DEFINE a1 == Joined("-I", inc)
           a2 == Joined("-D", df)
           a3 == IF l = n THEN e ELSE <<Flag("-x"), Word(l)>>
           a6 == IF o = n THEN e ELSE <<Flag("-o"), Word(o)>>
           s0 == P(zc, zp, e, e, e, e, n, n, zs, e)
           s1 == P(zc, zp, e, e, inc, e, n, n, zs, e)
           s2 == P(zc, zp, e, e, inc, df, n, n, zs, e)
           s3 == P(zc, zp, e, e, inc, df, n, l, zs, e)
           s4 == P(co, pp, fl, e, inc, df, n, l, s, e)
           s5 == P(co, pp, fl, inp, inc, df, n, l, s, e)
           s6 == P(co, pp, fl, inp, inc, df, o, l, s, e)
<1>1. a1 \in Seq(Arg) /\ a2 \in Seq(Arg)
  BY JoinedArgs
<1>2. a3 \in Seq(Arg) /\ a6 \in Seq(Arg)
  <2>1. e \in Seq(Arg)
    OBVIOUS
  <2>2. QED
    BY <2>1, PairArgs, Zenon
<1>3. inp \in Seq(Arg)
  <2>1. Files \subseteq Arg
    BY DEF Files
  <2> HIDE DEF Files, Arg
  <2>2. QED
    BY <2>1
<1>4. Parsing!Run(s0, a1) = s1
  BY DirsParsedFrom
<1>5. Parsing!Run(s1, a2) = s2
  BY DefinesParsedFrom
<1>6. Parsing!Run(s2, a3) = s3
  <2>1. CASE l = n
    <3>1. s3 = s2
      BY <2>1, Zenon
    <3>2. a3 = e
      BY <2>1, Zenon
    <3> HIDE DEF s2, s3
    <3>3. QED
      BY <3>1, <3>2, Parsing!RunEmpty, Zenon
  <2>2. CASE l # n
    <3>1. a3 = <<Flag("-x"), Word(l)>>
      BY <2>2, Zenon
    <3>2. Parsing!Run(s2, <<Flag("-x"), Word(l)>>) = s3
      BY LanguageParsedFrom
    <3> HIDE DEF s2, s3, a3
    <3>3. QED
      BY <3>1, <3>2, Zenon
  <2>3. QED
    BY <2>1, <2>2
<1>7. Parsing!Run(s3, fl) = s4
  BY Zenon
<1>8. Parsing!Run(s4, inp) = s5
  BY FilesParsedFrom
<1>9. Parsing!Run(s5, a6) = s6
  <2>1. CASE o = n
    <3>1. s6 = s5
      BY <2>1, Zenon
    <3>2. a6 = e
      BY <2>1, Zenon
    <3> HIDE DEF s5, s6
    <3>3. QED
      BY <3>1, <3>2, Parsing!RunEmpty, Zenon
  <2>2. CASE o # n
    <3>1. a6 = <<Flag("-o"), Word(o)>>
      BY <2>2, Zenon
    <3>2. Parsing!Run(s5, <<Flag("-o"), Word(o)>>) = s6
      BY OutputParsedFrom
    <3> HIDE DEF s5, s6, a6
    <3>3. QED
      BY <3>1, <3>2, Zenon
  <2>3. QED
    BY <2>1, <2>2
<1> HIDE DEF a1, a2, a3, a6, s0, s1, s2, s3, s4, s5, s6
<1>10. Parsing!Run(s0, a1 \o a2 \o a3 \o fl \o inp \o a6) = s6
  <2>1. /\ a1 \o a2 \in Seq(Arg) /\ a1 \o a2 \o a3 \in Seq(Arg) /\ a1 \o a2 \o a3 \o fl \in Seq(Arg)
        /\ a1 \o a2 \o a3 \o fl \o inp \in Seq(Arg)
    <3> HIDE DEF Arg
    <3>1. \A x, y \in Seq(Arg) : x \o y \in Seq(Arg)
      OBVIOUS
    <3>2. QED
      BY <1>1, <1>2, <1>3, <3>1, Zenon
  <2>2. Parsing!Run(s0, a1 \o a2) = s2
    BY <1>1, <1>4, <1>5, ParseInto, Zenon
  <2>3. Parsing!Run(s0, a1 \o a2 \o a3) = s3
    BY <1>2, <1>6, <2>1, <2>2, ParseInto, Zenon
  <2>4. Parsing!Run(s0, a1 \o a2 \o a3 \o fl) = s4
    BY <1>7, <2>1, <2>3, ParseInto, Zenon
  <2>5. Parsing!Run(s0, a1 \o a2 \o a3 \o fl \o inp) = s5
    BY <1>3, <1>8, <2>1, <2>4, ParseInto, ZenonT(60)
  <2>6. QED
    BY <1>2, <1>9, <2>1, <2>5, ParseInto, ZenonT(60)
<1>11. QED
  BY <1>10 DEF a1, a2, a3, a6, s0, s6

LEMMA SameLanguage == ASSUME NEW q, IsP(q), NEW x, x = q.language PROVE [q EXCEPT !.language = x] = q
BY SetLanguage DEF IsP

LEMMA SamePending == ASSUME NEW q, IsP(q), NEW x, x = q.pending PROVE [q EXCEPT !.pending = x] = q
BY SetPending DEF IsP

(* ToArgs parses back to what it was made of. *)
LEMMA Reparses ==
  ASSUME NEW u \in Seq(Units), NEW q, q = Parse(Args(u))
  PROVE  Parse(ToArgs(q)) = q /\ [q EXCEPT !.pending = <<>>] = q
<1> DEFINE p == ParsedFrom(NothingParsed, u)
           z == NothingParsed
           e == <<>>
           n == ""
           all == Joined("-I", q.includeDirs) \o Joined("-D", q.defines)
                  \o (IF q.language = n THEN e ELSE <<Flag("-x"), Word(q.language)>>)
                  \o q.flags \o q.inputFiles
                  \o (IF q.outputFile = n THEN e ELSE <<Flag("-o"), Word(q.outputFile)>>)
<1>1. /\ q.compileOnly = p.compileOnly /\ q.preprocess = p.preprocess /\ q.flags = p.flags
      /\ q.inputFiles = p.inputFiles /\ q.includeDirs = p.includeDirs
      /\ q.defines = p.defines /\ q.outputFile = p.outputFile
      /\ q.standard = p.standard /\ q.pending = e /\ IsP(q)
      /\ q.language = IF p.language = "" /\ p.inputFiles # e
                      THEN detectLanguage(p.inputFiles[1]) ELSE p.language
  BY ParseIs, Zenon
<1>2. Collected(p) /\ p.flags \in Seq(Arg)
  BY ParserCollects, StartsGood, ParsedGood, Zenon DEF GoodP
<1>3. Parsing!Run(P(z.compileOnly, z.preprocess, e, e, q.includeDirs, q.defines, n, q.language, z.standard,
          e), p.flags)
        = P(p.compileOnly, p.preprocess, p.flags, e, q.includeDirs, q.defines, n, q.language, p.standard, e)
  BY FlagsParsed, ZenonT(60)
<1> HIDE DEF p
<1>4. q.language \in Text
  <2>1. p.language \in Text
    BY <1>2 DEF Collected
  <2>2. QED
    BY <1>1, <2>1, DetectedIsText, Zenon
<1>5. /\ q.includeDirs \in Seq(Words) /\ q.defines \in Seq(Words) /\ q.inputFiles \in Seq(Files)
      /\ q.outputFile \in Text /\ q.flags \in Seq(Arg)
  BY <1>1, <1>2, Zenon DEF Collected
<1>6. ToArgs(q) = all
  BY Zenon DEF ToArgs, Joined
<1>7. z = P(z.compileOnly, z.preprocess, e, e, e, e, n, n, z.standard, e)
  BY Zenon DEF NothingParsed, P
<1> HIDE DEF z
<1>8. Parsing!Run(P(z.compileOnly, z.preprocess, e, e, e, e, n, n, z.standard, e), all)
        = P(q.compileOnly, q.preprocess, q.flags, q.inputFiles, q.includeDirs, q.defines,
            q.outputFile, q.language, q.standard, e)
  <2> DEFINE zc == z.compileOnly
             zp == z.preprocess
             zs == z.standard
             co == q.compileOnly
             pp == q.preprocess
             fl == q.flags
             inp == q.inputFiles
             inc == q.includeDirs
             df == q.defines
             o == q.outputFile
             l == q.language
             s == q.standard
  <2>1. /\ fl \in Seq(Arg) /\ inp \in Seq(Files) /\ inc \in Seq(Words) /\ df \in Seq(Words)
        /\ o \in Text /\ l \in Text
    BY <1>4, <1>5
  <2>2. Parsing!Run(P(zc, zp, e, e, inc, df, n, l, zs, e), fl)
           = P(co, pp, fl, e, inc, df, n, l, s, e)
    BY <1>1, <1>3, Zenon
  <2>0. e = <<>>
    OBVIOUS
  <2> HIDE DEF e, n, zc, zp, zs, co, pp, fl, inp, inc, df, o, l, s
  <2>3. Parsing!Run(P(zc, zp, e, e, e, e, n, n, zs, e),
                     Joined("-I", inc) \o Joined("-D", df)
                     \o (IF l = n THEN e ELSE <<Flag("-x"), Word(l)>>)
                     \o fl \o inp
                     \o (IF o = n THEN e ELSE <<Flag("-o"), Word(o)>>))
           = P(co, pp, fl, inp, inc, df, o, l, s, e)
    BY <2>0, <2>1, <2>2, Rebuilds
  <2>4. QED
    BY <2>3, Zenon DEF zc, zp, zs, co, pp, fl, inp, inc, df, o, l, s
<1> HIDE DEF all
<1>9. P(q.compileOnly, q.preprocess, q.flags, q.inputFiles, q.includeDirs, q.defines,
        q.outputFile, q.language, q.standard, q.pending) = q
  BY <1>1, Zenon DEF IsP
<1>10. Parsing!Run(z, all) = q
  <2> HIDE DEF e
  <2> QED BY <1>1, <1>7, <1>8, <1>9, Zenon
<1>11. Parse(ToArgs(q)) = IF q.language = "" /\ q.inputFiles # e
                          THEN [q EXCEPT !.language = detectLanguage(q.inputFiles[1])] ELSE q
  <2>1. FoldLeft(ParseStep, NothingParsed, ToArgs(q)) = q
    BY <1>6, <1>10, ParseRuns, Zenon DEF z
  <2>2. QED
    BY <2>1, Zenon DEF Parse
<1>12. CASE q.language = "" /\ q.inputFiles # e
  <2>1. detectLanguage(q.inputFiles[1]) = q.language
    BY <1>1, <1>12, Zenon
  <2>2. [q EXCEPT !.language = detectLanguage(q.inputFiles[1])] = q
    BY <1>1, <2>1, SameLanguage, Zenon
  <2>3. QED
    BY <1>1, <1>11, <1>12, <2>2, SamePending, Zenon
<1>13. CASE ~(q.language = "" /\ q.inputFiles # e)
  BY <1>1, <1>11, <1>13, SamePending, Zenon
<1>14. QED
  BY <1>12, <1>13

=============================================================================
